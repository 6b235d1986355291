--------------------------- MODULE WorkflowEngine ---------------------------
(***************************************************************************)
(* The concurrency of the engineering loop: several worker processes take  *)
(* jobs from an at-least-once queue and call WorkflowEngine.advance on the *)
(* runs of ONE task, while the API starts, retries, moves and cancels that *)
(* task. Each action is one database transaction or statement of the code, *)
(* so everything that can happen between two of them can happen here.      *)
(*                                                                         *)
(* The routing policy is a parameter: Decisions(rows) is the set of        *)
(* decisions the router may take on a run with these step rows, depending  *)
(* on the project's settings at that moment. What is proved of this module *)
(* therefore holds for every policy (EngineeringWorkflow is the product's).*)
(*                                                                         *)
(* updatedAt is the engine's version of a run: a compare-and-set on it is  *)
(* modelled by fresh[w], which holds from the moment worker w read the run *)
(* until the first write to it. The lease is a reading of two clocks: a    *)
(* worker that finds a claimed step may find the lease expired or not.     *)
(***************************************************************************)
EXTENDS Naturals, Sequences

CONSTANTS
  Run,            \* workflow runs of the task, one identity per start
  Worker,         \* worker processes, each runs one job at a time
  Key,            \* step keys of the workflow definition
  CYCLE_STEPS,    \* the keys that get a fresh row each time
  maxAttempts,    \* attempts of each step
  entryStatus,    \* the task status a step enters; NoStatus for none
  Moves(_),       \* statuses the handler of a step may take the task to
  Decisions(_),   \* see above
  Status,         \* task statuses
  route(_, _),    \* StateMachine.path, <<>> when there is none
  legal(_, _),    \* StateMachine.can
  Retryable,      \* RETRYABLE_TASK_STATUSES
  ForceOption,    \* bound: values of the force option of a start
  HumanTargets,   \* bound: statuses a person drags the task to
  MaxJobs,        \* bound: jobs of one run waiting in the queue
  MaxCrashes,     \* bound: worker and API processes that die
  MaxStalls,      \* bound: jobs the queue redelivers from a live worker
  MaxFaults       \* bound: transactions and enqueues that fail

NoKey == "none"
NoStatus == "none"

ActiveRun   == {"PENDING", "RUNNING", "WAITING_FOR_HUMAN"}
FinishedRun == {"SUCCEEDED", "FAILED", "CANCELLED"}
RunStatus   == ActiveRun \cup FinishedRun
RowStatus   == {"PENDING", "RUNNING", "SUCCEEDED", "SKIPPED", "FAILED",
                "CANCELLED"}

\* What the router answers; ABORT stands for the checks before it (a missing
\* task, a foreign project, an invalid snapshot) that end the run alone.
DecisionType == {"RUN_STEP", "COMPLETE", "FAIL", "WAIT_FOR_HUMAN", "ABORT"}
Decision == [type : {"RUN_STEP"}, key : Key]
              \cup [type : DecisionType \ {"RUN_STEP"}, key : {NoKey}]

\* How a decision ends a run and where it takes the task.
finalStatus(type) == CASE type = "COMPLETE" -> "SUCCEEDED"
                       [] type = "FAIL"     -> "FAILED"
                       [] OTHER             -> "WAITING_FOR_HUMAN"
finalTask(type)   == CASE type = "COMPLETE" -> "COMPLETED"
                       [] type = "FAIL"     -> "FAILED"
                       [] OTHER             -> "NEEDS_HUMAN_REVIEW"

ASSUME EngineAssumption ==
  /\ NoKey \notin Key /\ NoStatus \notin Status
  /\ CYCLE_STEPS \subseteq Key
  /\ maxAttempts \in [Key -> Nat \ {0}]
  /\ entryStatus \in [Key -> Status \cup {NoStatus}]
  /\ \A k \in Key : Moves(k) \subseteq Status
  /\ Retryable \subseteq Status /\ HumanTargets \subseteq Status
  /\ {"BACKLOG", "QUEUED", "COMPLETED", "FAILED", "CANCELLED",
      "NEEDS_HUMAN_REVIEW"} \subseteq Status
  /\ ForceOption \subseteq BOOLEAN
  /\ MaxJobs \in Nat /\ MaxCrashes \in Nat
  /\ MaxStalls \in Nat /\ MaxFaults \in Nat

\* A walk starts where the task is, ends at the target and has nothing to do
\* with a cancelled task; nobody leaves CANCELLED.
ASSUME PathAssumption ==
  \A f, t \in Status :
    /\ route(f, t) \in Seq(Status)
    /\ route(f, t) # <<>> => route(f, t)[1] = f
    /\ route(f, t) # <<>> /\ f # t => Len(route(f, t)) >= 2
    /\ \A i \in 1..Len(route(f, t)) :
         i < Len(route(f, t)) => route(f, t)[i] # "CANCELLED"
    /\ legal("CANCELLED", t) = FALSE

VARIABLES
  runs,      \* workflow_runs and workflow_steps; a run not yet created has
             \* status "NONE". `st` counts the results merged into run.state
  task,      \* tasks.status
  approval,  \* a pending Approval row exists
  jobs,      \* jobs waiting in the queue, per run and kind
  starting,  \* runs the API has created and not yet enqueued
  retry,     \* the API's retry request: where it is, and its walk
  pc,        \* where each worker is in its job
  job,       \* the job it holds
  mem,       \* what it read, decided, claimed, and the rest of its walk
  fresh,     \* nobody wrote the run since it read updatedAt
  crashes, stalls, faults

apiVars == <<starting, retry>>
bounds  == <<crashes, stalls, faults>>
vars == <<runs, task, approval, jobs, starting, retry, pc, job, mem, fresh,
          crashes, stalls, faults>>

Kind == {"start", "advance"}
PC == {"idle", "load", "rows", "start", "reread", "claim", "finish", "approve",
       "enter", "walk", "handle", "move", "moved", "thrown", "release", "next"}

NoRun == [status |-> "NONE", cur |-> NoKey, st |-> 0, rows |-> <<>>]
NoJob == [run |-> "none", kind |-> "start"]

(***************************************************************************)
(* A worker's memory: the decision (type, key); the run as it was read     *)
(* (status, cur, st, len: how many rows); the row it means to reuse, with  *)
(* the status and attempt it had; the row and attempt it claimed; and the  *)
(* rest of its walk, from the status it expects the task to be in.         *)
(***************************************************************************)
Blank == [type |-> "ABORT", key |-> NoKey,
          status |-> "PENDING", cur |-> NoKey, st |-> 0, len |-> 0,
          reuse |-> 0, rstatus |-> "PENDING", rattempt |-> 0,
          row |-> 0, attempt |-> 0, trail |-> <<>>]

-----------------------------------------------------------------------------
\* Every write to a run changes its updatedAt.
touch(R) == fresh' = [w \in Worker |-> fresh[w] /\ job[w].run \notin R]

goto(w, where) == pc' = [pc EXCEPT ![w] = where] /\ UNCHANGED job

\* The job of w is over; w forgets it.
finished(w) ==
  /\ pc'  = [pc EXCEPT ![w] = "idle"]
  /\ job' = [job EXCEPT ![w] = NoJob]
  /\ mem' = [mem EXCEPT ![w] = Blank]

mine(w) == runs[job[w].run]

(***************************************************************************)
(* The claim of w still stands: the condition every write of a step result *)
(* carries. (startedAt changes exactly when the attempt does.)             *)
(***************************************************************************)
claimStands_anyAttempt(w) ==
  /\ mine(w).status = "RUNNING"
  /\ mine(w).cur = mem[w].key
  /\ mem[w].row \in DOMAIN mine(w).rows
  /\ mine(w).rows[mem[w].row].status = "RUNNING"

claimStands(w) ==
  /\ mine(w).status = "RUNNING"
  /\ mine(w).cur = mem[w].key
  /\ mem[w].row \in DOMAIN mine(w).rows
  /\ mine(w).rows[mem[w].row].status = "RUNNING"
  /\ mine(w).rows[mem[w].row].attempt = mem[w].attempt

cancelRows(rows) ==
  [i \in DOMAIN rows |-> IF rows[i].status = "RUNNING"
                         THEN [rows[i] EXCEPT !.status = "CANCELLED"]
                         ELSE rows[i]]

cancelRun_leavesRows(run) == [run EXCEPT !.status = "CANCELLED", !.cur = NoKey]
cancelRun(run) ==
  [run EXCEPT !.status = "CANCELLED", !.cur = NoKey, !.rows = cancelRows(@)]

activeRuns_anyStatus == {r \in Run : runs[r].status # "NONE"}
activeRuns == {r \in Run : runs[r].status \in ActiveRun}

-----------------------------------------------------------------------------
Init ==
  /\ runs = [r \in Run |-> NoRun]
  /\ task = "BACKLOG"
  /\ approval = FALSE
  /\ jobs = [r \in Run |-> [k \in Kind |-> 0]]
  /\ starting = {}
  /\ retry = [at |-> "idle", trail |-> <<>>]
  /\ pc = [w \in Worker |-> "idle"]
  /\ job = [w \in Worker |-> NoJob]
  /\ mem = [w \in Worker |-> Blank]
  /\ fresh = [w \in Worker |-> FALSE]
  /\ crashes = 0 /\ stalls = 0 /\ faults = 0

-----------------------------------------------------------------------------
(***************************************************************************)
(* The queue (BullMQ). A job that is taken is gone from the waiting list.  *)
(***************************************************************************)
enqueue(r, kind) ==
  /\ jobs[r][kind] < MaxJobs
  /\ jobs' = [jobs EXCEPT ![r][kind] = @ + 1]

TakeJob(w) ==
  /\ pc[w] = "idle"
  /\ \E r \in Run, kind \in Kind :
       /\ jobs[r][kind] > 0
       /\ jobs' = [jobs EXCEPT ![r][kind] = @ - 1]
       /\ job' = [job EXCEPT ![w] = [run |-> r, kind |-> kind]]
  /\ pc' = [pc EXCEPT ![w] = "load"]
  /\ UNCHANGED <<runs, task, approval, apiVars, mem, fresh, bounds>>

\* advance() returns without shouldContinue: the job is acknowledged.
acknowledge(w) ==
  /\ finished(w)
  /\ UNCHANGED jobs

(***************************************************************************)
(* advance() throws. A start job is enqueued by the API with attempts left *)
(* to retry it; the worker's own queue gives advance jobs a single one.    *)
(***************************************************************************)
throw(w) ==
  /\ finished(w)
  /\ \/ UNCHANGED jobs
     \/ job[w].kind = "start" /\ enqueue(job[w].run, "start")

-----------------------------------------------------------------------------
(***************************************************************************)
(* advance(): read the run, then its steps (two queries), then decide.     *)
(***************************************************************************)
LoadRun(w) ==
  /\ pc[w] = "load"
  /\ IF mine(w).status \in FinishedRun
     THEN acknowledge(w) /\ UNCHANGED fresh
     ELSE /\ mem' = [mem EXCEPT ![w] =
               [@ EXCEPT !.status = mine(w).status, !.cur = mine(w).cur, !.st = mine(w).st]]
          /\ fresh' = [fresh EXCEPT ![w] = TRUE]
          /\ goto(w, "rows")
          /\ UNCHANGED jobs
  /\ UNCHANGED <<runs, task, approval, apiVars, bounds>>

(***************************************************************************)
(* executeStep, before the claim: the row to reuse (0: create a new one).  *)
(* A claimed run offers its newest RUNNING row of the same step, when its  *)
(* lease has expired; otherwise a one-shot step reuses its first row that  *)
(* has not SUCCEEDED.                                                      *)
(***************************************************************************)
abandoned(rows, key, i) ==
  /\ i \in DOMAIN rows /\ rows[i].key = key /\ rows[i].status = "RUNNING"
  /\ \A j \in DOMAIN rows :
       rows[j].key = key /\ rows[j].status = "RUNNING" => j <= i

unfinished(rows, key) ==
  {i \in DOMAIN rows : rows[i].key = key /\ rows[i].status # "SUCCEEDED"}

reusable(rows, cur, key, i) ==
  IF cur = key THEN abandoned(rows, key, i)
  ELSE IF key \in CYCLE_STEPS \/ unfinished(rows, key) = {} THEN i = 0
  ELSE i \in unfinished(rows, key) /\ \A j \in unfinished(rows, key) : i <= j

\* Nothing to take over: another worker holds the lease of the claimed step.
leased(rows, cur, key, expired) ==
  /\ cur # NoKey
  /\ \/ cur # key \/ ~expired
     \/ ~\E i \in DOMAIN rows : abandoned(rows, key, i)

afterDecision(type, status) ==
  IF status = "PENDING" THEN "start"
  ELSE IF type = "RUN_STEP" THEN "claim" ELSE "finish"

\* What the worker remembers: its decision, and the row it will reuse.
intention(w, d, i) ==
  [mem[w] EXCEPT
     !.type = d.type, !.key = d.key, !.len = Len(mine(w).rows), !.reuse = i,
     !.rstatus  = IF i = 0 THEN mem[w].rstatus ELSE mine(w).rows[i].status,
     !.rattempt = IF i = 0 THEN mem[w].rattempt ELSE mine(w).rows[i].attempt]

LoadRows(w) ==
  /\ pc[w] = "rows"
  /\ \E d \in Decisions(mine(w).rows) \cap Decision, expired \in BOOLEAN :
       LET rows == mine(w).rows
           cur  == mem[w].cur
       IN  IF d.type = "RUN_STEP" /\ leased(rows, cur, d.key, expired)
           THEN acknowledge(w) /\ fresh' = [fresh EXCEPT ![w] = FALSE]
           ELSE \E i \in 0..Len(rows) :
                  /\ IF d.type = "RUN_STEP" THEN reusable(rows, cur, d.key, i)
                                            ELSE i = 0
                  /\ mem' = [mem EXCEPT ![w] = intention(w, d, i)]
                  /\ goto(w, afterDecision(d.type, mem[w].status))
                  /\ UNCHANGED <<jobs, fresh>>
  /\ UNCHANGED <<runs, task, approval, apiVars, bounds>>

(***************************************************************************)
(* A PENDING run becomes RUNNING by compare-and-set on its status; then    *)
(* updatedAt, and only that, is read again.                                *)
(***************************************************************************)
StartRun(w) ==
  /\ pc[w] = "start"
  /\ IF mine(w).status = "PENDING"
     THEN /\ runs' = [runs EXCEPT ![job[w].run].status = "RUNNING"]
          /\ touch({job[w].run})
          /\ goto(w, "reread")
          /\ UNCHANGED <<jobs, mem>>
     ELSE /\ acknowledge(w)
          /\ fresh' = [fresh EXCEPT ![w] = FALSE]
          /\ UNCHANGED runs
  /\ UNCHANGED <<task, approval, apiVars, bounds>>

Reread(w) ==
  /\ pc[w] = "reread"
  /\ IF mine(w).status = "RUNNING"
     THEN /\ fresh' = [fresh EXCEPT ![w] = TRUE]
          /\ goto(w, IF mem[w].type = "RUN_STEP" THEN "claim" ELSE "finish")
          /\ UNCHANGED <<jobs, mem>>
     ELSE /\ acknowledge(w)
          /\ UNCHANGED fresh
  /\ UNCHANGED <<runs, task, approval, apiVars, bounds>>

-----------------------------------------------------------------------------
(***************************************************************************)
(* executeStep: claim the step in one transaction, under the task's lock.  *)
(* A new row takes the sequence number the worker read; the table's unique *)
(* (run, sequence) makes the insert fail when another row took it.         *)
(***************************************************************************)
mayClaim_lockOnly(w) == task # "CANCELLED" /\ mine(w).status = "RUNNING"
mayClaim(w) ==
  /\ task # "CANCELLED"
  /\ mine(w).status = "RUNNING"
  /\ mine(w).cur = mem[w].cur
  /\ fresh[w]
  /\ mem[w].reuse # 0 =>
       /\ mine(w).rows[mem[w].reuse].status = mem[w].rstatus
       /\ mine(w).rows[mem[w].reuse].attempt = mem[w].rattempt

claimedRows_fromZero(w) ==
  IF mem[w].reuse = 0
  THEN Append(mine(w).rows, [key |-> mem[w].key, status |-> "RUNNING", attempt |-> 0])
  ELSE [mine(w).rows EXCEPT ![mem[w].reuse] =
         [@ EXCEPT !.status = "RUNNING", !.attempt = mem[w].rattempt + 1]]
claimedRows(w) ==
  IF mem[w].reuse = 0
  THEN Append(mine(w).rows, [key |-> mem[w].key, status |-> "RUNNING", attempt |-> 1])
  ELSE [mine(w).rows EXCEPT ![mem[w].reuse] =
         [@ EXCEPT !.status = "RUNNING", !.attempt = mem[w].rattempt + 1]]

\* The claim in the worker's memory: its row and attempt.
token(w) ==
  [mem[w] EXCEPT !.row = IF mem[w].reuse = 0 THEN mem[w].len + 1 ELSE mem[w].reuse,
                 !.attempt = IF mem[w].reuse = 0 THEN 1 ELSE mem[w].rattempt + 1]

Claim(w) ==
  /\ pc[w] = "claim"
  /\ IF ~mayClaim(w)
     THEN acknowledge(w) /\ fresh' = [fresh EXCEPT ![w] = FALSE] /\ UNCHANGED runs
     ELSE IF mem[w].reuse = 0 /\ Len(mine(w).rows) # mem[w].len
     THEN throw(w) /\ fresh' = [fresh EXCEPT ![w] = FALSE] /\ UNCHANGED runs
     ELSE /\ runs' = [runs EXCEPT ![job[w].run] =
               [@ EXCEPT !.cur = mem[w].key, !.rows = claimedRows(w)]]
          /\ mem' = [mem EXCEPT ![w] = token(w)]
          /\ touch({job[w].run})
          /\ goto(w, "enter")
          /\ UNCHANGED jobs
  /\ UNCHANGED <<task, approval, apiVars, bounds>>

(***************************************************************************)
(* TaskTransitions.to: read the task, then walk path() one compare-and-set *)
(* at a time. A step enters its status before its handler runs; a handler  *)
(* may move the task again (BLOCKED, PR_CREATED). A walk that fails makes  *)
(* executeStep release the claim, or the handler throw.                    *)
(***************************************************************************)
walkTo(w, target, arrived, walking, lost) ==
  IF target = NoStatus \/ task = target
  THEN goto(w, arrived) /\ UNCHANGED mem
  ELSE IF route(task, target) = <<>>
  THEN goto(w, lost) /\ UNCHANGED mem
  ELSE goto(w, walking) /\ mem' = [mem EXCEPT ![w].trail = route(task, target)]

Enter(w) ==
  /\ pc[w] = "enter"
  /\ walkTo(w, entryStatus[mem[w].key], "handle", "walk", "release")
  /\ UNCHANGED <<runs, task, approval, jobs, apiVars, fresh, bounds>>

HandlerMove(w) ==
  /\ pc[w] = "handle"
  /\ \E s \in Moves(mem[w].key) : walkTo(w, s, "moved", "move", "thrown")
  /\ UNCHANGED <<runs, task, approval, jobs, apiVars, fresh, bounds>>

hop(w, walking, arrived, lost) ==
  /\ pc[w] = walking
  /\ IF task = mem[w].trail[1]
     THEN /\ task' = mem[w].trail[2]
          /\ mem' = [mem EXCEPT ![w].trail =
                       IF Len(@) = 2 THEN <<>> ELSE Tail(@)]
          /\ goto(w, IF Len(mem[w].trail) = 2 THEN arrived ELSE walking)
     ELSE /\ mem' = [mem EXCEPT ![w].trail = <<>>]
          /\ goto(w, lost)
          /\ UNCHANGED task
  /\ UNCHANGED <<runs, approval, jobs, apiVars, fresh, bounds>>

EntryHop(w)   == hop(w, "walk", "handle", "release")
HandlerHop(w) == hop(w, "move", "moved", "thrown")

\* The timer that runs beside the handler renews the lease.
Heartbeat(w) ==
  /\ pc[w] \in {"handle", "move", "moved", "thrown"}
  /\ claimStands(w)
  /\ touch({job[w].run})
  /\ UNCHANGED <<runs, task, approval, jobs, apiVars, pc, job, mem, bounds>>

(***************************************************************************)
(* The result: row and state in one transaction, under the task's lock, if *)
(* the claim still stands. The new state is the one read at load time with *)
(* the handler's patch merged in.                                          *)
(***************************************************************************)
settled(w, outcome) ==
  IF outcome = "FAILED" /\ mem[w].attempt < maxAttempts[mem[w].key]
  THEN "PENDING" ELSE outcome

stale_ignoresTask(w) == ~claimStands(w)
stale(w) == task = "CANCELLED" \/ ~claimStands(w)

Persist(w) ==
  /\ pc[w] \in {"handle", "moved", "thrown"}
  /\ IF stale(w)
     THEN acknowledge(w) /\ UNCHANGED <<runs, fresh>>
     ELSE /\ \E outcome \in {"SUCCEEDED", "SKIPPED", "FAILED"} :
               /\ pc[w] = "thrown" => outcome = "FAILED"
               /\ runs' = [runs EXCEPT ![job[w].run] =
                    [@ EXCEPT !.st = mem[w].st + 1, !.cur = NoKey,
                              !.rows[mem[w].row].status = settled(w, outcome)]]
          /\ touch({job[w].run})
          /\ goto(w, "next")
          /\ UNCHANGED <<jobs, mem>>
  /\ UNCHANGED <<task, approval, apiVars, bounds>>

(***************************************************************************)
(* A statement, transaction or enqueue fails for a reason of its own. In   *)
(* the walk to the entry status and in the persist the claim is given      *)
(* back; in a handler it is one more reason for the handler to throw.      *)
(***************************************************************************)
StepFails(w) ==
  /\ pc[w] \in {"enter", "walk", "handle", "move", "moved", "thrown"}
  /\ faults < MaxFaults
  /\ faults' = faults + 1
  /\ mem' = [mem EXCEPT ![w].trail = <<>>]
  /\ goto(w, IF pc[w] = "move" THEN "thrown" ELSE "release")
  /\ UNCHANGED <<runs, task, approval, jobs, apiVars, fresh, crashes, stalls>>

\* Everywhere else the error leaves advance(), or the processor, as it is.
JobFails(w) ==
  /\ pc[w] \in {"load", "rows", "start", "reread", "claim", "finish", "approve",
                "release", "next"}
  /\ faults < MaxFaults
  /\ faults' = faults + 1
  /\ throw(w)
  /\ fresh' = [fresh EXCEPT ![w] = FALSE]
  /\ UNCHANGED <<runs, task, approval, apiVars, crashes, stalls>>

\* releaseStepClaim, then the error that led here is thrown on.
Release(w) ==
  /\ pc[w] = "release"
  /\ IF claimStands(w)
     THEN /\ runs' = [runs EXCEPT ![job[w].run] =
                [@ EXCEPT !.cur = NoKey, !.rows[mem[w].row].status = "PENDING"]]
          /\ touch({job[w].run})
     ELSE UNCHANGED <<runs, fresh>>
  /\ throw(w)
  /\ UNCHANGED <<task, approval, apiVars, bounds>>

\* The processor enqueues the next advance of the run.
EnqueueNext_forgets(w) ==
  /\ pc[w] = "next"
  /\ acknowledge(w)
  /\ UNCHANGED <<runs, task, approval, apiVars, fresh, bounds>>

EnqueueNext(w) ==
  /\ pc[w] = "next"
  /\ enqueue(job[w].run, "advance")
  /\ finished(w)
  /\ UNCHANGED <<runs, task, approval, apiVars, fresh, bounds>>

-----------------------------------------------------------------------------
(***************************************************************************)
(* The other decisions. finishWorkflow closes the run, supersedes the      *)
(* task's other active runs and walks the task, in one transaction; it     *)
(* asks only that the run is still active, not who holds its step.         *)
(***************************************************************************)
finishWorkflow(w) ==
  LET target == finalTask(mem[w].type)
  IN  IF mine(w).status \notin ActiveRun
      THEN acknowledge(w) /\ UNCHANGED <<runs, task, fresh>>
      ELSE IF route(task, target) = <<>>
      THEN throw(w) /\ UNCHANGED <<runs, task, fresh>>
      ELSE /\ runs' = [r \in Run |->
                IF r = job[w].run
                THEN [runs[r] EXCEPT !.status = finalStatus(mem[w].type), !.cur = NoKey]
                ELSE IF r \in activeRuns THEN cancelRun(runs[r]) ELSE runs[r]]
           /\ task' = target
           /\ touch(activeRuns)
           /\ IF mem[w].type = "WAIT_FOR_HUMAN"
              THEN goto(w, "approve") /\ UNCHANGED <<mem, jobs>>
              ELSE acknowledge(w)

\* finishRun ends the run alone.
finishRun(w) ==
  /\ IF mine(w).status \in ActiveRun
     THEN /\ runs' = [runs EXCEPT ![job[w].run] =
                [@ EXCEPT !.status = "FAILED", !.cur = NoKey]]
          /\ touch({job[w].run})
     ELSE UNCHANGED <<runs, fresh>>
  /\ acknowledge(w)
  /\ UNCHANGED task

Finish(w) ==
  /\ pc[w] = "finish"
  /\ IF mem[w].type = "ABORT" THEN finishRun(w) ELSE finishWorkflow(w)
  /\ UNCHANGED <<approval, apiVars, bounds>>

RequestApproval(w) ==
  /\ pc[w] = "approve"
  /\ approval' = TRUE
  /\ acknowledge(w)
  /\ UNCHANGED <<runs, task, apiVars, fresh, bounds>>

-----------------------------------------------------------------------------
(***************************************************************************)
(* Failures. The queue hands the job of a dead worker to another one, and  *)
(* may do so while a slow worker is still at it.                           *)
(***************************************************************************)
Crash(w) ==
  /\ pc[w] # "idle"
  /\ crashes < MaxCrashes
  /\ crashes' = crashes + 1
  /\ enqueue(job[w].run, job[w].kind)
  /\ finished(w)
  /\ fresh' = [fresh EXCEPT ![w] = FALSE]
  /\ UNCHANGED <<runs, task, approval, apiVars, stalls, faults>>

Stall(w) ==
  /\ pc[w] # "idle"
  /\ stalls < MaxStalls
  /\ stalls' = stalls + 1
  /\ enqueue(job[w].run, job[w].kind)
  /\ UNCHANGED <<runs, task, approval, apiVars, pc, job, mem, fresh, crashes, faults>>

-----------------------------------------------------------------------------
(***************************************************************************)
(* The API. startWorkflow creates the run under the task's lock and then   *)
(* enqueues it; an enqueue that fails marks the run FAILED.                *)
(***************************************************************************)
inProgress == {r \in Run : runs[r].status \in {"PENDING", "RUNNING"}}

createRun(r, force) ==
  /\ runs[r].status = "NONE"
  /\ task \notin {"CANCELLED", "COMPLETED"}
  /\ inProgress = {} \/ force
  /\ runs' = [runs EXCEPT ![r].status = "PENDING"]
  /\ starting' = starting \cup {r}

StartWorkflow ==
  /\ \E r \in Run, force \in ForceOption : createRun(r, force)
  /\ UNCHANGED <<task, approval, jobs, retry, pc, job, mem, fresh, bounds>>

EnqueueStart(r) ==
  /\ r \in starting
  /\ enqueue(r, "start")
  /\ starting' = starting \ {r}
  /\ UNCHANGED <<runs, task, approval, retry, pc, job, mem, fresh, bounds>>

EnqueueStartFails(r) ==
  /\ r \in starting
  /\ faults < MaxFaults
  /\ faults' = faults + 1
  /\ starting' = starting \ {r}
  /\ runs' = [runs EXCEPT ![r].status = IF @ = "PENDING" THEN "FAILED" ELSE @]
  /\ touch({r})
  /\ UNCHANGED <<task, approval, jobs, retry, pc, job, mem, crashes, stalls>>

ApiCrash(r) ==
  /\ r \in starting
  /\ crashes < MaxCrashes
  /\ crashes' = crashes + 1
  /\ starting' = starting \ {r}
  /\ UNCHANGED <<runs, task, approval, jobs, retry, pc, job, mem, fresh, stalls, faults>>

\* cancelWithWorkflows: the task and all its active runs, in one transaction.
CancelTask ==
  /\ task = "CANCELLED" \/ legal(task, "CANCELLED")
  /\ task # "CANCELLED" \/ activeRuns # {}
  /\ task' = "CANCELLED"
  /\ runs' = [r \in Run |-> IF r \in activeRuns THEN cancelRun(runs[r]) ELSE runs[r]]
  /\ touch(activeRuns)
  /\ UNCHANGED <<approval, jobs, apiVars, pc, job, mem, bounds>>

\* A person moves the task on the board: one legal transition.
HumanTransition ==
  /\ \E s \in HumanTargets : legal(task, s) /\ task' = s
  /\ UNCHANGED <<runs, approval, jobs, apiVars, pc, job, mem, fresh, bounds>>

(***************************************************************************)
(* retry(): check, walk the task to QUEUED one transition at a time (each  *)
(* from wherever the task then is), start a run. A task with no route to   *)
(* QUEUED is started all the same.                                         *)
(***************************************************************************)
RetryRequest ==
  /\ retry.at = "idle"
  /\ task \in Retryable
  /\ inProgress = {}
  /\ \E r \in Run : runs[r].status = "NONE"
  /\ retry' = [at |-> "read", trail |-> <<>>]
  /\ UNCHANGED <<runs, task, approval, jobs, starting, pc, job, mem, fresh, bounds>>

RetryRead ==
  /\ retry.at = "read"
  /\ retry' = IF route(task, "QUEUED") = <<>>
              THEN [at |-> "start", trail |-> <<>>]
              ELSE [at |-> "walk", trail |-> Tail(route(task, "QUEUED"))]
  /\ UNCHANGED <<runs, task, approval, jobs, starting, pc, job, mem, fresh, bounds>>

RetryHop ==
  /\ retry.at = "walk"
  /\ IF retry.trail = <<>>
     THEN retry' = [at |-> "start", trail |-> <<>>] /\ UNCHANGED task
     ELSE \/ /\ task = Head(retry.trail) \/ legal(task, Head(retry.trail))
             /\ task' = Head(retry.trail)
             /\ retry' = [retry EXCEPT !.trail = Tail(@)]
          \/ \* illegal from here, or changed between its read and its write
             retry' = [at |-> "idle", trail |-> <<>>] /\ UNCHANGED task
  /\ UNCHANGED <<runs, approval, jobs, starting, pc, job, mem, fresh, bounds>>

RetryStart ==
  /\ retry.at = "start"
  /\ retry' = [at |-> "idle", trail |-> <<>>]
  /\ \/ \E r \in Run : createRun(r, FALSE)
     \/ UNCHANGED <<runs, starting>>  \* refused: no attempts of the task left
  /\ UNCHANGED <<task, approval, jobs, pc, job, mem, fresh, bounds>>

-----------------------------------------------------------------------------
\* What a worker does with the job it holds.
Work(w) ==
  \/ LoadRun(w) \/ LoadRows(w) \/ StartRun(w) \/ Reread(w) \/ Claim(w)
  \/ Enter(w) \/ EntryHop(w) \/ HandlerHop(w)
  \/ Persist(w) \/ Release(w) \/ EnqueueNext(w)
  \/ Finish(w) \/ RequestApproval(w)

Next ==
  \/ \E w \in Worker :
       \/ TakeJob(w) \/ Work(w) \/ HandlerMove(w) \/ Heartbeat(w)
       \/ StepFails(w) \/ JobFails(w) \/ Crash(w) \/ Stall(w)
  \/ StartWorkflow
  \/ \E r \in Run : EnqueueStart(r) \/ EnqueueStartFails(r) \/ ApiCrash(r)
  \/ CancelTask \/ HumanTransition
  \/ RetryRequest \/ RetryRead \/ RetryHop \/ RetryStart

(***************************************************************************)
(* A worker that lives goes on with its job, an idle one takes the next,   *)
(* and a live API process enqueues what it created. Handlers answer: every *)
(* agent and command has a timeout.                                        *)
(***************************************************************************)
Fairness ==
  /\ \A w \in Worker : WF_vars(TakeJob(w)) /\ WF_vars(Work(w))
  /\ \A r \in Run : WF_vars(EnqueueStart(r))

Spec == Init /\ [][Next]_vars /\ Fairness

-----------------------------------------------------------------------------
Row == [key : Key, status : RowStatus, attempt : Nat \ {0}]

Memory ==
  [type : DecisionType, key : Key \cup {NoKey},
   status : ActiveRun \cup {"NONE"}, cur : Key \cup {NoKey}, st : Nat, len : Nat,
   reuse : Nat, rstatus : RowStatus, rattempt : Nat,
   row : Nat, attempt : Nat, trail : Seq(Status)]

\* Tables, queue and worker memories hold what they can hold.
TypeOK ==
  /\ runs \in [Run -> [status : RunStatus \cup {"NONE"}, cur : Key \cup {NoKey},
                       st : Nat, rows : Seq(Row)]]
  /\ task \in Status
  /\ approval \in BOOLEAN
  /\ jobs \in [Run -> [Kind -> Nat]]
  /\ starting \in SUBSET Run
  /\ retry \in [at : {"idle", "read", "walk", "start"}, trail : Seq(Status)]
  /\ pc \in [Worker -> PC]
  /\ job \in [Worker -> [run : Run, kind : Kind] \cup {NoJob}]
  /\ mem \in [Worker -> Memory]
  /\ fresh \in [Worker -> BOOLEAN]
  /\ crashes \in Nat /\ stalls \in Nat /\ faults \in Nat

running(r) == {i \in DOMAIN runs[r].rows : runs[r].rows[i].status = "RUNNING"}

(***************************************************************************)
(* A run executes one step at a time, and says so: a RUNNING run with a    *)
(* current step has exactly one RUNNING row, of that step; without one it  *)
(* has none; a run not yet started has no rows at all, and a cancelled run *)
(* has no row that still claims to be executing.                           *)
(***************************************************************************)
OneStepAtATime ==
  \A r \in Run :
    /\ runs[r].status = "RUNNING" /\ runs[r].cur # NoKey =>
         \E i \in DOMAIN runs[r].rows :
           running(r) = {i} /\ runs[r].rows[i].key = runs[r].cur
    /\ runs[r].status \in {"RUNNING", "CANCELLED"} /\ runs[r].cur = NoKey =>
         running(r) = {}
    /\ runs[r].status \in {"NONE", "PENDING"} =>
         runs[r].rows = <<>> /\ runs[r].cur = NoKey
    /\ runs[r].status \notin {"RUNNING"} => runs[r].cur = NoKey

(***************************************************************************)
(* Fencing: of all the workers that believe they execute a step of a run,  *)
(* however their jobs were duplicated and their leases taken over, at most *)
(* one can still write a heartbeat, a result or a release.                 *)
(***************************************************************************)
Holding == {"enter", "walk", "handle", "move", "moved", "thrown", "release"}

AtMostOneClaimStands ==
  \A v, w \in Worker :
    /\ pc[v] \in Holding /\ pc[w] \in Holding /\ job[v].run = job[w].run
    /\ claimStands(v) /\ claimStands(w)
    => v = w

(***************************************************************************)
(* No lost result: a worker writes back the whole state it read before its *)
(* step, with its patch merged in. So whoever can still write a result has *)
(* read the newest state: no result overwrites one it does not contain.    *)
(***************************************************************************)
NoLostResult ==
  \A w \in Worker :
    pc[w] \in Holding /\ claimStands(w) => mem[w].st = runs[job[w].run].st

(***************************************************************************)
(* A run that SUCCEEDED, FAILED or was CANCELLED never changes again, in   *)
(* none of its columns and none of its rows; and a row that SUCCEEDED is   *)
(* never executed again.                                                   *)
(***************************************************************************)
HistoryIsFinal ==
  [][\A r \in Run :
       /\ runs[r].status \in FinishedRun => runs'[r] = runs[r]
       /\ \A i \in DOMAIN runs[r].rows :
            runs[r].rows[i].status = "SUCCEEDED" =>
              i \in DOMAIN runs'[r].rows /\ runs'[r].rows[i] = runs[r].rows[i]]_vars

(***************************************************************************)
(* A cancelled task stays cancelled, whatever walks were on their way, and *)
(* from then on no step of it is claimed and no result of it is recorded.  *)
(***************************************************************************)
CancellationIsFinal ==
  [][task = "CANCELLED" =>
       /\ task' = "CANCELLED"
       /\ \A r \in Run : /\ runs'[r].st = runs[r].st
                         /\ runs'[r].cur \in {runs[r].cur, NoKey}]_vars

(***************************************************************************)
(* Every run that is started comes to rest: it finishes or waits for a     *)
(* person. (Of executions in which no process dies and nobody else moves   *)
(* the task; see ActiveRunsHaveAJob.)                                      *)
(***************************************************************************)
RunsComeToRest ==
  \A r \in Run : runs[r].status = "PENDING" ~> runs[r].status \notin {"PENDING", "RUNNING"}

-----------------------------------------------------------------------------
(***************************************************************************)
(* What the documentation promises and runs of their own refute.           *)
(***************************************************************************)

\* "a crash resumes exactly where it stopped"; each job "gives every step its
\* own retry/backoff, and lets a restarted worker pick the run back up": a
\* RUNNING run always has a job, waiting or in some worker's hands.
ActiveRunsHaveAJob ==
  \A r \in {q \in Run : runs[q].status = "RUNNING"} :
    \/ \E k \in Kind : jobs[r][k] > 0
    \/ \E w \in Worker : pc[w] # "idle" /\ job[w].run = r
=============================================================================
