------------------------------ MODULE Seeding ------------------------------
(***************************************************************************)
(* `pnpm db:seed`: one transaction empties the database, then the demo     *)
(* rows are created by one statement after the other. The seed may be run  *)
(* on a database that has been used, be killed between two statements and  *)
(* be run again, while the API goes on writing rows of its own.            *)
(*                                                                         *)
(* A row is its id; refs is what its foreign keys name. A reference to a   *)
(* row that is gone is a NULL: only the tables that set it allow it.       *)
(***************************************************************************)
EXTENDS Naturals, Sequences, FiniteSets, SequencesExt

CONSTANTS
  MaxSeeds,   \* runs of the seed
  MaxUses     \* rows the API adds after the start

-----------------------------------------------------------------------------
(***************************************************************************)
(* The statements of main(): the table, and the references of each row.    *)
(* Nested creates (configurations, steps, results, messages) are rows of   *)
(* the statement they belong to and go and come with their parent.         *)
(***************************************************************************)
rowsOf(table, refs) == [table |-> table, refs |-> refs]

people ==
  <<rowsOf("organization", [evalley |-> {}]),
    rowsOf("user", [founder |-> {}, engineer |-> {}]),
    rowsOf("organizationMember", [owner |-> {"evalley", "founder"}, maintainer |-> {"evalley", "engineer"}])>>

providers ==
  <<rowsOf("agentProvider", [mock |-> {"evalley"}, codex |-> {"evalley"}, claudeCode |-> {"evalley"}])>>

\* The team is bound to the provider AGENT_DEFAULT_PROVIDER names.
team(default) ==
  <<rowsOf("agent", [r \in {"ARCHITECT", "PLANNER", "IMPLEMENTER", "CODE_REVIEWER", "SECURITY_REVIEWER", "QA"} |->
                       {"evalley", default}]),
    rowsOf("agent", [UI_REVIEWER |-> {"evalley", "mock"}])>>

projects ==
  <<rowsOf("project", [p \in {"engloop", "erp", "chatgate"} |-> {"evalley"}]),
    rowsOf("repository", [engloopWeb |-> {"engloop"}, engloopApi |-> {"engloop"},
                          evalleyErp |-> {"erp"}, chatgateCore |-> {"chatgate"}])>>

memory ==
  <<rowsOf("projectMemory", [memory |-> {"engloop"}]),
    rowsOf("architectureDecision", [adr12 |-> {"engloop", "founder"}, adr3 |-> {"engloop", "engineer"}])>>

epics ==
  <<rowsOf("epic", [platformEpic |-> {"engloop"}, qualityEpic |-> {"engloop"}]),
    rowsOf("feature", [orgFeature |-> {"engloop", "platformEpic"}, agentFeature |-> {"engloop", "platformEpic"},
                       dashboard |-> {"engloop", "qualityEpic"}])>>

startedTasks ==
  <<rowsOf("task",
     [eng101 |-> {"engloop", "engloopApi", "platformEpic", "orgFeature", "IMPLEMENTER", "founder"},
      eng102 |-> {"engloop", "engloopApi", "platformEpic", "agentFeature", "IMPLEMENTER", "founder"},
      eng103 |-> {"engloop", "engloopApi", "qualityEpic", "IMPLEMENTER", "engineer"},
      eng104 |-> {"engloop", "engloopWeb", "qualityEpic", "IMPLEMENTER", "engineer"}])>>

otherTasks ==
  <<rowsOf("task",
     [eng105 |-> {"engloop", "engloopApi", "qualityEpic", "IMPLEMENTER", "founder"},
      eng106 |-> {"engloop", "engloopWeb", "engineer"},
      eng107 |-> {"engloop", "engloopApi", "founder"},
      eng108 |-> {"engloop", "engloopApi", "engineer"},
      erp201 |-> {"erp", "evalleyErp", "founder"},
      chat301 |-> {"chatgate", "chatgateCore", "PLANNER", "engineer"}])>>

links ==
  <<rowsOf("taskDependency", [d12 |-> {"eng101", "eng102"}, d53 |-> {"eng105", "eng103"}, d82 |-> {"eng108", "eng102"}]),
    rowsOf("taskComment", [c101 |-> {"eng101", "founder"}, c103 |-> {"eng103", "engineer"}, c105 |-> {"eng105", "founder"}])>>

git ==
  <<rowsOf("gitBranch", [eng101Branch |-> {"engloopApi"}]),
    rowsOf("gitWorktree", [w101 |-> {"engloopApi", "eng101"}, w103 |-> {"engloopApi", "eng103"},
                           w104 |-> {"engloopWeb", "eng104"}]),
    rowsOf("commit", [a1b2 |-> {"engloopApi", "eng101Branch", "eng101"}, b2c3 |-> {"engloopApi", "eng101Branch", "eng101"}]),
    rowsOf("pullRequest", [pr42 |-> {"engloopApi", "eng102"}])>>

runningRun ==
  <<rowsOf("workflowDefinition", [definition |-> {}]),
    rowsOf("workflowRun", [eng101Run |-> {"definition", "engloop", "eng101"}])>>
endedRun  == <<rowsOf("workflowRun", [eng102Run |-> {"definition", "engloop", "eng102"}])>>
parkedRun == <<rowsOf("workflowRun", [eng105Run |-> {"definition", "engloop", "eng105"}]),
               rowsOf("approval", [a105 |-> {"engloop", "eng105", "eng105Run"}])>>

\* agentRunSpecs: the task, the run and the agent of each row.
runsOf101 == [a1 |-> {"eng101", "eng101Run", "ARCHITECT"}, a2 |-> {"eng101", "eng101Run", "PLANNER"},
              a3 |-> {"eng101", "eng101Run", "IMPLEMENTER"}, a4 |-> {"eng101", "eng101Run", "CODE_REVIEWER"}]
runsOf102 == [a5 |-> {"eng102", "eng102Run", "IMPLEMENTER"}, a6 |-> {"eng102", "eng102Run", "CODE_REVIEWER"},
              a7 |-> {"eng102", "eng102Run", "IMPLEMENTER"}, a8 |-> {"eng102", "eng102Run", "CODE_REVIEWER"}]
otherRuns == [a9 |-> {"eng103", "IMPLEMENTER"}, a10 |-> {"eng103", "IMPLEMENTER"}, a11 |-> {"eng104", "IMPLEMENTER"},
              a12 |-> {"eng105", "eng105Run", "IMPLEMENTER"}, a13 |-> {"eng105", "eng105Run", "CODE_REVIEWER"},
              a14 |-> {"eng105", "eng105Run", "CODE_REVIEWER"}, a15 |-> {"chat301", "PLANNER"}]
agentRuns == <<rowsOf("agentRun", [a \in DOMAIN runsOf101 |-> runsOf101[a] \cup {"mock"}]),
               rowsOf("agentRun", [a \in DOMAIN runsOf102 |-> runsOf102[a] \cup {"mock"}]),
               rowsOf("agentRun", [a \in DOMAIN otherRuns |-> otherRuns[a] \cup {"mock"}])>>

\* Usage and cost of the runs that have ended, one record of each.
costs == <<rowsOf("usageRecord", [u101 |-> {"evalley", "engloop", "eng101", "a3"}, u102 |-> {"evalley", "engloop", "eng102", "a5"},
                                  u103 |-> {"evalley", "engloop", "eng103", "a9"}, u105 |-> {"evalley", "engloop", "eng105", "a12"}]),
           rowsOf("costRecord", [k101 |-> {"evalley", "engloop", "eng101", "a3"}, k102 |-> {"evalley", "engloop", "eng102", "a5"},
                                 k103 |-> {"evalley", "engloop", "eng103", "a9"}, k105 |-> {"evalley", "engloop", "eng105", "a12"}])>>

tests_shifted == <<rowsOf("testRun", [t101 |-> {"eng101", "eng102Run"}, eng103TestRun |-> {"eng103"}, t102 |-> {"eng102", "eng102Run"}])>>
tests == <<rowsOf("testRun", [t101 |-> {"eng101", "eng101Run"}, eng103TestRun |-> {"eng103"}, t102 |-> {"eng102", "eng102Run"}])>>

reviews == <<rowsOf("reviewRun", [eng101Review |-> {"eng101", "eng101Run"}, r102 |-> {"eng102", "eng102Run"},
                                  r105 |-> {"eng105", "eng105Run"}])>>

uiReviews == <<rowsOf("reviewRun", [uiReview |-> {"eng104"}]),
               rowsOf("screenshot", [s \in {"DESKTOP", "TABLET", "MOBILE"} |-> {"uiReview", "eng104"}]),
               rowsOf("reviewFinding", [f104 |-> {"uiReview", "eng104", "MOBILE"}])>>

artifacts == <<rowsOf("artifact", [diff |-> {"eng101"}, log |-> {"eng103", "eng103TestRun"}, coverage |-> {"eng102"}])>>

planned == <<rowsOf("schedule", [scan |-> {"engloop", "engloopApi"}, debt |-> {"engloop"},
                                 sweep |-> {"engloop", "engloopWeb"}, deps |-> {"erp"}]),
             rowsOf("notification", [n \in {"n105", "n103", "n101", "n102"} |-> {"evalley", "founder"}])>>

auditEntries == <<rowsOf("auditLog", [system |-> {"evalley", "engloop"}, byFounder |-> {"evalley", "engloop", "founder"},
                                      byEngineer |-> {"evalley", "engloop", "engineer"}])>>

main_gitFirst(default) ==
  people \o providers \o team(default) \o projects \o memory \o epics
    \o git \o startedTasks \o otherTasks \o links \o runningRun \o endedRun \o parkedRun
    \o agentRuns \o costs \o tests \o reviews \o uiReviews \o artifacts \o planned \o auditEntries
main(default) ==
  people \o providers \o team(default) \o projects \o memory \o epics
    \o startedTasks \o otherTasks \o links \o git \o runningRun \o endedRun \o parkedRun
    \o agentRuns \o costs \o tests \o reviews \o uiReviews \o artifacts \o planned \o auditEntries

(***************************************************************************)
(* Rows the API makes in tables the seed does not fill.                    *)
(***************************************************************************)
used ==
  <<rowsOf("projectPhase", [phase1 |-> {"engloop"}, phase2 |-> {"engloop"}]),
    rowsOf("projectPhaseDependency", [after |-> {"phase1", "phase2"}]),
    rowsOf("task", [eng109 |-> {"engloop", "phase1", "founder"}]),
    rowsOf("projectTeamMember", [member |-> {"engloop", "QA"}]),
    rowsOf("promptTemplate", [template |-> {"engloop"}]),
    rowsOf("promptRevision", [revision |-> {"template"}]),
    rowsOf("gitHubInstallation", [installation |-> {"evalley", "founder"}]),
    rowsOf("repository", [imported |-> {"engloop", "installation"}]),
    rowsOf("gitHubAuthorizationAttempt", [attempt |-> {"evalley", "founder"}]),
    rowsOf("taskCreationRequest", [request |-> {"evalley", "eng109"}])>>

Id(stmts) == UNION {DOMAIN s.refs : s \in Range(stmts)}

-----------------------------------------------------------------------------
VARIABLES
  old,       \* tables with rows from before the database was last emptied
  rows,      \* rows made since
  default,   \* AGENT_DEFAULT_PROVIDER of the latest seed
  next,      \* the next statement of the seed; 0: no seed is running
  seeds, uses,
  refused,   \* a statement of the seed has failed
  done       \* the latest seed ran to its end
seedVars == <<old, rows, default, next, seeds, uses, refused, done>>

Defaults == {"mock", "codex", "claudeCode"}
Demo == Id(main("mock"))
tablesOf(stmts, ids) == {s.table : s \in {q \in Range(stmts) : DOMAIN q.refs \cap ids # {}}}

(***************************************************************************)
(* What deleting every row of a table does to its children (schema.prisma).*)
(* A child whose reference may be NULL can have rows that stay; one whose  *)
(* reference is mandatory and cascades is emptied.                         *)
(***************************************************************************)
restricting(parent) ==
  CASE parent = "agentProvider" -> {"agent"}
    [] parent = "user" -> {"gitHubInstallation"}
    [] parent = "projectPhase" -> {"task"}
    [] OTHER -> {}
cascading(parent) ==
  CASE parent = "organization" -> {"organizationMember", "project", "gitHubInstallation", "gitHubAuthorizationAttempt",
                                   "taskCreationRequest", "agentProvider", "agent", "usageRecord", "costRecord",
                                   "notification", "auditLog"}
    [] parent = "project" -> {"promptTemplate", "projectPhase", "repository", "epic", "feature", "task",
                              "projectTeamMember", "workflowRun", "schedule", "projectMemory",
                              "architectureDecision", "approval"}
    [] parent = "user" -> {"organizationMember", "gitHubAuthorizationAttempt"}
    [] parent = "repository" -> {"gitWorktree", "gitBranch", "commit", "pullRequest"}
    [] parent = "task" -> {"taskDependency", "taskComment", "testRun", "reviewRun"}
    [] parent = "agent" -> {"projectTeamMember"}
    [] parent = "projectPhase" -> {"projectPhaseDependency"}
    [] parent = "promptTemplate" -> {"promptRevision"}
    [] parent = "reviewRun" -> {"reviewFinding"}
    [] OTHER -> {}

\* table.deleteMany() of a database with rows in `tables`: the transaction is
\* rolled back when a table that restricts one of the emptied ones has rows.
\* No chain of cascades is longer than three.
deleteMany(tables, table) ==
  LET with(gone) == gone \cup UNION {cascading(t) : t \in gone}
      gone == with(with(with({table})))
  IN IF \E t \in gone : restricting(t) \cap (tables \ gone) # {}
     THEN {"refused"} ELSE tables \ gone

deleteOrder_parentsFirst ==
  <<"reviewFinding", "screenshot", "reviewRun", "testRun", "artifact", "usageRecord", "costRecord",
    "agentRun", "workflowRun", "workflowDefinition", "approval", "taskComment", "taskDependency",
    "pullRequest", "commit", "gitBranch", "gitWorktree", "task", "feature", "epic", "schedule",
    "projectMemory", "architectureDecision", "repository", "notification", "auditLog",
    "agentProvider", "agent", "project", "organizationMember", "organization", "user">>
deleteOrder ==
  <<"reviewFinding", "screenshot", "reviewRun", "testRun", "artifact", "usageRecord", "costRecord",
    "agentRun", "workflowRun", "workflowDefinition", "approval", "taskComment", "taskDependency",
    "pullRequest", "commit", "gitBranch", "gitWorktree", "task", "feature", "epic", "schedule",
    "projectMemory", "architectureDecision", "repository", "notification", "auditLog",
    "agent", "agentProvider", "project", "organizationMember", "organization", "user">>

emptied_namedTables(tables) == tables \ Range(deleteOrder)
emptied(tables) ==
  FoldLeft(LAMBDA left, table : IF left = {"refused"} THEN left ELSE deleteMany(left, table), tables, deleteOrder)

-----------------------------------------------------------------------------
SeedInit ==
  /\ old \in {{}, tablesOf(main("mock"), Demo), tablesOf(main("mock") \o used, Demo \cup Id(used))}
  /\ rows = {} /\ default = "mock"
  /\ next = 0 /\ seeds = 0 /\ uses = 0 /\ refused = FALSE /\ done = FALSE

\* The transaction the seed begins with.
Empty(d) ==
  /\ next = 0 /\ seeds < MaxSeeds /\ ~refused
  /\ seeds' = seeds + 1 /\ done' = FALSE /\ default' = d
  /\ \E left \in {emptied(old \cup tablesOf(main("mock") \o used, rows))} :
       IF left = {"refused"}
       THEN refused' = TRUE /\ UNCHANGED <<old, rows, next>>
       ELSE old' = left /\ rows' = {} /\ next' = 1 /\ UNCHANGED refused
  /\ UNCHANGED uses

\* The next create or createMany. Slugs, emails and keys are unique: a row left
\* over is in the way. A foreign key needs its parent.
Create ==
  /\ next > 0
  /\ LET s == main(default)[next]
     IN IF s.table \notin old /\ \A r \in DOMAIN s.refs : r \notin rows /\ s.refs[r] \subseteq rows
        THEN /\ rows' = rows \cup DOMAIN s.refs
             /\ next' = IF next = Len(main(default)) THEN 0 ELSE next + 1
             /\ done' = (next = Len(main(default))) /\ UNCHANGED refused
        ELSE next' = 0 /\ refused' = TRUE /\ UNCHANGED <<rows, done>>
  /\ UNCHANGED <<old, default, seeds, uses>>

\* The process dies between two statements.
Killed == next > 1 /\ next' = 0 /\ UNCHANGED <<old, rows, default, seeds, uses, refused, done>>

\* The API, which nothing stops while the seed runs.
Use == \E s \in Range(used) : \E r \in DOMAIN s.refs \ rows :
  /\ uses < MaxUses /\ uses' = uses + 1
  /\ s.refs[r] \subseteq rows
  /\ rows' = rows \cup {r}
  /\ UNCHANGED <<old, default, next, seeds, refused, done>>

SeedNext == \/ \E d \in Defaults : Empty(d)
            \/ Create
            \/ Killed
            \/ Use
SeedSpec == SeedInit /\ [][SeedNext]_seedVars

-----------------------------------------------------------------------------
TypeOK ==
  /\ rows \subseteq Demo \cup Id(used)
  /\ default \in Defaults /\ next \in 0..Len(main(default))
  /\ seeds \in 0..MaxSeeds /\ uses \in 0..MaxUses
  /\ refused \in BOOLEAN /\ done \in BOOLEAN

\* No statement of the seed is refused by a foreign key or a unique constraint,
\* whatever the database held before, wherever an earlier seed was killed and
\* whatever the API writes meanwhile ("Order matters: children before parents").
SeedsAreNeverRefused == ~refused

\* Nothing of the old database survives a seed, in the tables it does not name
\* either, and a seed that ends has made every row of the demo.
SeededIsFresh ==
  /\ next > 0 => old = {}
  /\ done => old = {} /\ Demo \subseteq rows

\* Rows of the demo that name a run, a review or an agent run and a task name
\* the task of that run: what the screens join belongs together.
refsOf(r) == UNION {s.refs[r] : s \in {q \in Range(main("mock")) : r \in DOMAIN q.refs}}
ofTable(table) == UNION {DOMAIN s.refs : s \in {q \in Range(main("mock")) : q.table = table}}
SeededRowsAgree ==
  done => \A r \in Demo : \A p \in refsOf(r) :
            p \in UNION {ofTable(t) : t \in {"workflowRun", "agentRun", "reviewRun", "testRun"}}
              => refsOf(r) \cap ofTable("task") = refsOf(p) \cap ofTable("task")
=============================================================================
