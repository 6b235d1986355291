---------------------------- MODULE MCTaskIntake ----------------------------
(***************************************************************************)
(* How tasks come in, hang together and come to people, on small           *)
(* instances: the dialog and the API (TaskIntake), the dependencies        *)
(* (TaskGraph), the schedules (Schedules) and the inbox (HumanInbox).      *)
(* `part` says which of them moves.                                        *)
(***************************************************************************)
EXTENDS TaskIntake, TLC

CONSTANTS Adder, EdgeType, PlanSizes, MaxTasks, MaxAsked, Caller, MaxJobs, MaxChanges, MaxFaults,
          Worker, Person, MaxRuns, MaxApprovals, MaxFindings

ASSUME InboxAssumption == MaxRuns \in Nat \ {0}   \* the run the inbox begins with
\* There are kinds of dependencies, and nobody is not a request.
ASSUME GraphAssumption == EdgeType # {} /\ "nobody" \notin Adder /\ PlanSizes \subseteq Nat

VARIABLES part,
          task, edge, adder, holder, plan, asked,
          schedule, timer, caller, job, changes, faults, overlap, failed,
          waiting, attempts, approvals, findings, parker, page, person, moved, both, unseen, blind

G == INSTANCE TaskGraph
S == INSTANCE Schedules
I == INSTANCE HumanInbox WITH task <- waiting, runs <- attempts, overlap <- both

graph == <<task, edge, adder, holder, plan, asked>>
planned == <<schedule, timer, caller, job, changes, faults, overlap, failed>>
asking == <<waiting, attempts, approvals, findings, parker, page, person, moved, both,
            unseen, blind>>
MCvars == <<part, vars, graph, planned, asking>>

MCInit == /\ part \in {"dialog", "graph", "schedule", "inbox"}
          /\ Init /\ G!GraphInit /\ S!ScheduleInit /\ I!InboxInit

MCNext ==
  /\ UNCHANGED part
  /\ \/ part = "dialog" /\ Next /\ UNCHANGED <<graph, planned, asking>>
     \/ part = "graph" /\ G!GraphNext /\ UNCHANGED <<vars, planned, asking>>
     \/ part = "schedule" /\ S!ScheduleNext /\ UNCHANGED <<vars, graph, asking>>
     \/ part = "inbox" /\ I!InboxNext /\ UNCHANGED <<vars, graph, planned>>

\* The workers and the people are interchangeable.
Alike == Permutations(Worker) \cup Permutations(Person)

MCSpec == MCInit /\ [][MCNext]_MCvars

(***************************************************************************)
(* Creation (TaskIntake): an idempotency key makes one task, of a task     *)
(* that may exist the dialog keeps hold, starts that are retried share a   *)
(* run, a creation is announced once, numbers do not collide, and the      *)
(* dialog is locked while its calls are on their way.                      *)
(***************************************************************************)
CreationIsSafe ==
  part = "dialog" =>
    /\ TypeOK
    /\ OneTaskPerKey /\ UnknownTasksStayInReach /\ RetriedStartsShareOneRun
    /\ CreationIsAnnouncedOnce /\ NumbersNeverCollide /\ LocksFollowCalls

(***************************************************************************)
(* Dependencies (TaskGraph): no task waits for itself, and the schema of a *)
(* plan refuses exactly the plans that are cyclic or dangling.             *)
(***************************************************************************)
DependenciesAreSound ==
  part = "graph" => G!GraphTypeOK /\ G!DependenciesAreAcyclic /\ G!PlansAreJudgedRight

(***************************************************************************)
(* Schedules (Schedules): rows and job schedulers agree, what outlives a   *)
(* schedule makes no tasks, and a firing makes one task, and one more for  *)
(* a delivery that failed.                                                 *)
(***************************************************************************)
SchedulesFireAsSet ==
  part = "schedule" =>
    /\ S!ScheduleTypeOK
    /\ S!TimerFollowsRow /\ S!StaleTimersAreHarmless /\ S!TasksPerFiring

(***************************************************************************)
(* The inbox (HumanInbox): a task has one pending approval, which is       *)
(* decided once; what waits for a person is shown; and no approval passes  *)
(* over a finding its author could have seen.                              *)
(***************************************************************************)
PeopleAreAskedOnce ==
  part = "inbox" =>
    /\ I!TypeOK
    /\ I!OnePendingApproval /\ I!DecisionsAreMadeOnce
    /\ I!WaitingWorkIsShown /\ I!ApprovalsSawTheFindings
=============================================================================
