----------------------------- MODULE MCProgress -----------------------------
(***************************************************************************)
(* What is started comes to an end, on small instances: a run of the loop  *)
(* whose steps may fail every time (WorkflowLoop), the jobs of a run       *)
(* (WorkflowEngine), the containers of the agents (DockerRuntime) and the  *)
(* processes of one on the host (AgentProcesses). `part` says which one    *)
(* moves. The safety properties of the last two are checked here as well.  *)
(***************************************************************************)
EXTENDS WorkflowLoop, SmallWorkflow

CONSTANTS Run, Worker, Container, Busy, Provider, Timeout, KillDelay, MaxWait

\* The kinds of provider there are; times in the same unit.
ASSUME ProgressAssumption ==
  /\ Provider \subseteq {"cli", "mock"}
  /\ Timeout \in Nat /\ KillDelay \in Nat /\ MaxWait \in Nat

VARIABLES
  part,
  runs, taskStatus, pending, jobs, starting, retry, pc, job, mem, fresh, crashes, stalls, faults,
  call, sessions, preparing, aborted, removed, secrets, box, agent, cancel, shut, awaited,
  rejected, lost,
  kind, command, answer, marked, session, host, child, timedOut, killed, now, asked

E == INSTANCE WorkflowEngine
       WITH Key <- SmallKey, CYCLE_STEPS <- SmallCycle, maxAttempts <- SmallMaxAttempts,
            entryStatus <- SmallEntry, Moves <- MayBlock, Decisions <- Gated,
            Status <- SmallStatus, route <- SmallRoute, legal <- SmallLegal,
            Retryable <- SmallRetryable, ForceOption <- {FALSE}, HumanTargets <- {},
            MaxJobs <- 2, MaxCrashes <- 0, MaxStalls <- 0, MaxFaults <- 0,
            task <- taskStatus, approval <- pending
D == INSTANCE DockerRuntime WITH Run <- Container
P == INSTANCE AgentProcesses WITH call <- command, aborted <- killed

queued == <<runs, taskStatus, pending, jobs, starting, retry, pc, job, mem, fresh, crashes,
            stalls, faults>>
boxed  == <<call, sessions, preparing, aborted, removed, secrets, box, agent, cancel, shut,
            awaited, rejected, lost>>
hosted == <<kind, command, answer, marked, session, host, child, timedOut, killed, now, asked>>
MCvars == <<part, vars, queued, boxed, hosted>>

\* The least a run of the loop can do, so that a small budget of executions is
\* reached in every way in which steps can fail.
OneProject  == {[permissionLevel |-> 3, uiQaEnabled |-> FALSE, documentationEnabled |-> FALSE,
                 maxReviewCycles |-> 2, maxAttempts |-> 2]}
OneStart    == {[skipPlanning |-> TRUE, planOnly |-> FALSE, snapshot |-> FALSE]}
NoLeftovers == {[latestTest |-> "none", worktree |-> FALSE, blocking |-> FALSE, pr |-> FALSE,
                 clean |-> TRUE]}

MCInit == /\ part \in {"loop", "jobs", "containers", "processes"}
          /\ Init /\ E!Init /\ D!Init /\ P!Init
          /\ part # "processes" => kind = "cli"

loop(A)       == part = "loop" /\ A /\ UNCHANGED <<part, queued, boxed, hosted>>
works(A)      == part = "jobs" /\ A /\ UNCHANGED <<part, vars, boxed, hosted>>
containers(A) == part = "containers" /\ A /\ UNCHANGED <<part, vars, queued, hosted>>
processes(A)  == part = "processes" /\ A /\ UNCHANGED <<part, vars, queued, boxed>>

\* Agents run in the containers of Busy; the others are prepared and released.
MCNext ==
  \/ loop(Next) \/ works(E!Next) \/ processes(P!Next)
  \/ containers(D!Next /\ \A c \in Container \ Busy : call'[c] # "unpause")

\* The fairness of the four specifications. (Nothing of the last two is
\* enabled while another part moves, so their own variables do as subscripts.)
MCSpec ==
  /\ MCInit /\ [][MCNext]_MCvars
  /\ WF_MCvars(loop(Advance))
  /\ \A w \in Worker : WF_MCvars(works(E!TakeJob(w))) /\ WF_MCvars(works(E!Work(w)))
  /\ \A r \in Run : WF_MCvars(works(E!EnqueueStart(r)))
  /\ \A c \in Container : /\ WF_boxed(D!Awaiting(c)) /\ WF_boxed(D!Removal(c))
                          /\ WF_boxed(D!CancelGoesOn(c))
  /\ WF_boxed(D!ShutdownRemoves) /\ WF_boxed(D!ShutdownCloses)
  /\ WF_hosted(P!Turns)

(***************************************************************************)
(* Every run of the loop ends, within MAX_STEP_EXECUTIONS, however its     *)
(* steps fail; and every run that is started comes to rest, finished or    *)
(* waiting for a person, as long as no process dies.                       *)
(***************************************************************************)
unfinished ==
  \/ part = "loop" /\ (Active \/ ~ExecutionsAreBounded)
  \/ part = "jobs" /\ \E r \in Run : runs[r].status \in {"PENDING", "RUNNING"}
RunsComeToRest == unfinished ~> ~unfinished

(***************************************************************************)
(* The promises of the container runtime that await each other settle: a   *)
(* cancel() (of a busy container) and a shutdown, which closes or fails;   *)
(* and a command on the host ends, whatever its process does.              *)
(***************************************************************************)
executing == command \in {"files", "running", "decoding", "asleep"}
closing   == shut \notin {"no", "closed"} /\ ~rejected
CommandsSettle ==
  /\ \A c \in Busy : cancel[c] # "idle" ~> cancel[c] = "idle"
  /\ closing \/ executing ~> ~closing /\ ~executing

(***************************************************************************)
(* No container escapes the runtime: it has a session by which it is       *)
(* removed, no agent runs in it unattended, and none is left by a clean    *)
(* shutdown.                                                               *)
(***************************************************************************)
NoContainerEscapes == D!NoContainerEscapes

\* API keys do not outlive the executor's interest in them.
SecretsAreCleared == D!SecretsAreCleared

(***************************************************************************)
(* A run on the host that was cancelled in time ends as CANCELLED, leaves  *)
(* no mark to cancel a later one, does not survive its timeout by more     *)
(* than the delay of SIGKILL, and is told to end when its runtime closes.  *)
(***************************************************************************)
ProcessesObey ==
  /\ P!TypeOK /\ P!CancelledRunsEndCancelled /\ P!MarksAreConsumed
  /\ P!CommandsAreBounded /\ P!NoChildAfterShutdown
=============================================================================
