------------------------------ MODULE WebViews ------------------------------
(***************************************************************************)
(* What a person sees in the web application. Every screen shows the       *)
(* answers of queries that TanStack Query keeps in a cache; a mutation     *)
(* that succeeds invalidates the queries whose keys start with a prefix,   *)
(* and some queries are polled. A behaviour follows one query (view) and   *)
(* one mutation (kind) whose rows that query shows; the versions of the    *)
(* answer are numbers, a later answer being a larger one.                  *)
(***************************************************************************)
EXTENDS Integers, Sequences, FiniteSets, SequencesExt

CONSTANTS
  MaxWrites,     \* versions of the answer after the first
  MaxFailures    \* requests that fail

-----------------------------------------------------------------------------
(***************************************************************************)
(* The queries: their keys for project p1, task t1 and so on, the tables   *)
(* behind the endpoint each one asks, and the ones with a refetchInterval. *)
(* "newTask" and "newAgent" are rows added, for the answers that count or  *)
(* list them.                                                              *)
(***************************************************************************)
queryKeys ==
  [overview |-> <<"dashboard", "overview">>, deliveryMetrics |-> <<"dashboard", "delivery">>,
   projects |-> <<"projects", "{}">>, project |-> <<"projects", "p1">>,
   repositories |-> <<"repositories", "all">>,
   githubInstallations |-> <<"github", "installations">>,
   githubRepositories |-> <<"github", "installations", "i1", "repositories">>,
   tasks |-> <<"tasks", "{}">>, task |-> <<"tasks", "t1">>, board |-> <<"board", "p1">>,
   agentRuns |-> <<"agent-runs", "{}">>, agents |-> <<"agents", "{}">>,
   agentTeam |-> <<"agents", "team", "p1">>, agentEditor |-> <<"agents", "detail", "a1">>,
   providers |-> <<"agent-providers">>,
   workflowRuns |-> <<"workflow-runs", "{}">>, workflowRun |-> <<"workflow-runs", "r1">>,
   testRuns |-> <<"test-runs", "{}">>, reviewRuns |-> <<"review-runs", "{}">>,
   findings |-> <<"review-findings", "{}">>, inbox |-> <<"inbox", "{}">>,
   schedules |-> <<"schedules", "all">>, audit |-> <<"audit-logs", "{}">>,
   approvals |-> <<"approvals", "{}">>, notifications |-> <<"notifications", "{}">>,
   phases |-> <<"project-phases", "p1">>, phaseDetail |-> <<"project-phases", "p1", "f1">>,
   team |-> <<"project-team", "p1">>, contract |-> <<"project-contract", "p1">>,
   prompts |-> <<"project-prompts", "p1">>, promptRevision |-> <<"project-prompts", "p1", "m1", "1">>]

Query == DOMAIN queryKeys

reads ==
  [overview |-> {"project", "newTask", "task", "testRun", "finding", "agentRun", "audit"},
   deliveryMetrics |-> {"newTask", "task"},
   projects |-> {"project", "repository", "newTask"},
   project |-> {"project", "repository", "agent", "schedule", "newTask", "task", "workflowRun"},
   repositories |-> {"repository"}, githubInstallations |-> {"installation", "repository"},
   githubRepositories |-> {"installation", "repository"},
   tasks |-> {"newTask", "task", "agentRun", "testRun", "reviewRun"},
   task |-> {"task", "comment", "workflowRun", "agentRun", "testRun", "reviewRun", "finding", "approval"},
   board |-> {"newTask", "task", "agentRun", "testRun", "reviewRun"}, agentRuns |-> {"agentRun"},
   agents |-> {"agent", "provider"}, agentTeam |-> {"agent", "provider", "assignment", "member"},
   agentEditor |-> {"agent"}, providers |-> {"provider", "newAgent"},
   workflowRuns |-> {"workflowRun"}, workflowRun |-> {"workflowRun", "agentRun", "testRun", "reviewRun", "finding"},
   testRuns |-> {"testRun"}, reviewRuns |-> {"reviewRun", "finding"}, findings |-> {"finding"},
   inbox |-> {"approval", "task", "workflowRun", "finding"}, schedules |-> {"schedule"},
   audit |-> {"audit"}, approvals |-> {"approval"}, notifications |-> {"notification"},
   phases |-> {"phase"}, phaseDetail |-> {"phase", "task"},
   team |-> {"member", "agent", "provider", "phase"}, contract |-> {"contract"},
   prompts |-> {"prompt"}, promptRevision |-> {"prompt"}]

polled ==
  {"overview", "tasks", "task", "board", "agentRuns", "workflowRuns", "workflowRun", "inbox",
   "notifications", "team"}

\* The queries that do not ask again after a failed request; the others try
\* twice more unless the API answered with a 4xx.
unretried == {"githubInstallations", "githubRepositories"}
retries(q) == IF q \in unretried THEN 0 ELSE 2

(***************************************************************************)
(* The mutations: what their endpoints write, and what their onSuccess     *)
(* invalidates. The actions of the task bar share one mutation.            *)
(***************************************************************************)
writes ==
  [createTask |-> {"newTask", "audit"}, runTask |-> {"workflowRun", "audit"},
   plan |-> {"workflowRun", "audit"}, review |-> {"reviewRun"}, tests |-> {"testRun"},
   approve |-> {"task", "approval", "audit"}, retry |-> {"task", "workflowRun", "audit"},
   cancel |-> {"task", "workflowRun", "agentRun", "audit"},
   transition |-> {"task", "audit"}, addComment |-> {"comment"}, editTask |-> {"task", "audit"},
   updateFinding |-> {"finding"}, updateAgent |-> {"agent", "audit"}, saveAgent |-> {"agent", "newAgent", "audit"},
   upsertProvider |-> {"provider", "audit"}, setRoleAssignments |-> {"assignment", "audit"},
   schedule |-> {"schedule", "audit"}, markRead |-> {"notification"},
   connect |-> {"installation", "audit"}, import |-> {"project", "repository", "audit"},
   phaseChange |-> {"phase", "task", "audit"}, saveTeam |-> {"member", "audit"},
   saveContract |-> {"contract", "audit"}, createPrompt |-> {"prompt", "audit"},
   revisePrompt |-> {"prompt", "audit"}]

Mutation == DOMAIN writes

ofAction == {<<"tasks", "t1">>, <<"tasks">>, <<"board">>, <<"dashboard", "overview">>, <<"workflow-runs">>}
ofPrompt == {<<"project-prompts", "p1">>}
ofFinding_list == {<<"tasks">>, <<"dashboard", "overview">>}
ofFinding == {<<"review-findings">>, <<"tasks">>, <<"dashboard", "overview">>}

invalidates ==
  [createTask |-> {<<"tasks">>, <<"board", "p1">>, <<"projects", "p1">>, <<"dashboard", "overview">>},
   runTask |-> ofAction \cup {<<"workflow-runs", "r1">>},
   plan |-> ofAction, review |-> ofAction, tests |-> ofAction, approve |-> ofAction,
   retry |-> ofAction, cancel |-> ofAction,
   transition |-> {<<"tasks", "t1">>, <<"tasks">>, <<"board">>}, addComment |-> {<<"tasks", "t1">>},
   editTask |-> {<<"tasks">>, <<"projects", "p1">>, <<"board", "p1">>, <<"audit-logs">>},
   updateFinding |-> ofFinding, updateAgent |-> {<<"agents">>, <<"project-team">>},
   saveAgent |-> {<<"agents">>, <<"project-team">>, <<"agent-providers">>, <<"audit-logs">>},
   upsertProvider |-> {<<"agent-providers">>, <<"project-team">>},
   setRoleAssignments |-> {<<"agents">>}, schedule |-> {<<"schedules">>},
   markRead |-> {<<"notifications">>}, connect |-> {<<"github", "installations">>},
   import |-> {<<"projects">>, <<"repositories">>, <<"github", "installations", "i1", "repositories">>},
   phaseChange |-> {<<"project-phases", "p1">>, <<"board", "p1">>, <<"tasks">>, <<"projects", "p1">>,
                    <<"project-team", "p1">>},
   saveTeam |-> {<<"project-team", "p1">>, <<"agents">>}, saveContract |-> {<<"project-contract", "p1">>},
   createPrompt |-> ofPrompt, revisePrompt |-> ofPrompt]

\* A query matches when its key starts with the invalidated key.
announced_exactly(m, q) == queryKeys[q] \in invalidates[m]
announced(m, q) == \E p \in invalidates[m] : IsPrefix(p, queryKeys[q])

shows(m, q) == writes[m] \cap reads[q] # {}
-----------------------------------------------------------------------------
VARIABLES
  view, kind,   \* the query and the mutation this behaviour follows
  server,       \* the version of the answer the database holds
  page,         \* whether a screen shows the view, and in a visible tab
  cache,        \* the cached answer, its age, its marks
  flight,       \* the request in flight
  form,         \* the mutation, and the version it wrote
  owed,         \* the version the person has been told is saved
  failures,     \* requests that failed so far
  slipped       \* an older answer outlived the invalidation
webVars == <<view, kind, server, page, cache, flight, form, owed, failures, slipped>>

None == -1
Empty == [data |-> None, fresh |-> FALSE, invalid |-> FALSE, failed |-> FALSE]
NoFlight == [at |-> "none", version |-> None, tries |-> 0]
Asked == [at |-> "asked", version |-> None, tries |-> 0]
NoForm == [at |-> "idle", version |-> None]

TypeOK ==
  /\ view \in Query /\ kind \in Mutation /\ server \in 0..MaxWrites
  /\ page \in {"away", "open", "hidden"}
  /\ cache \in [data : None..MaxWrites, fresh : BOOLEAN, invalid : BOOLEAN, failed : BOOLEAN]
  /\ flight \in [at : {"none", "asked", "read"}, version : None..MaxWrites, tries : 0..2]
  /\ form \in [at : {"idle", "sent", "written"}, version : None..MaxWrites]
  /\ owed \in 0..MaxWrites /\ failures \in 0..MaxFailures /\ slipped \in BOOLEAN

WebInit ==
  /\ view \in Query /\ kind \in Mutation /\ shows(kind, view)
  /\ server = 0 /\ page = "away" /\ cache = Empty /\ flight = NoFlight
  /\ form = NoForm /\ owed = 0 /\ failures = 0 /\ slipped = FALSE

(***************************************************************************)
(* The person, and the clock.                                              *)
(***************************************************************************)
\* A request in flight is joined, never doubled.
ask == IF flight = NoFlight THEN Asked ELSE flight

\* A screen that opens asks unless the cached answer is fresh and unmarked.
Open ==
  /\ page = "away"
  /\ page' = "open"
  /\ flight' = IF cache.data # None /\ cache.fresh /\ ~cache.invalid THEN flight ELSE ask
  /\ UNCHANGED <<view, kind, server, cache, form, owed, failures, slipped>>

\* Neither leaving nor hiding stops a request: the fetch takes no signal.
Leave ==
  /\ page # "away"
  /\ page' = "away"
  /\ UNCHANGED <<view, kind, server, cache, flight, form, owed, failures, slipped>>

\* refetchOnWindowFocus is off: a tab that comes back waits for its poll.
Switch ==
  /\ page # "away"
  /\ page' = IF page = "open" THEN "hidden" ELSE "open"
  /\ UNCHANGED <<view, kind, server, cache, flight, form, owed, failures, slipped>>

\* staleTime has passed.
Age ==
  /\ cache.fresh
  /\ cache' = [cache EXCEPT !.fresh = FALSE]
  /\ UNCHANGED <<view, kind, server, page, flight, form, owed, failures, slipped>>

\* An answer nobody shows is dropped in the end.
Collect ==
  /\ page = "away" /\ flight = NoFlight /\ cache # Empty
  /\ cache' = Empty /\ slipped' = FALSE
  /\ UNCHANGED <<view, kind, server, page, flight, form, owed, failures>>

\* The refetchInterval of a visible tab; "Try again" on an error screen.
Poll ==
  /\ page = "open" /\ flight = NoFlight
  /\ view \in polled
  /\ flight' = Asked
  /\ UNCHANGED <<view, kind, server, page, cache, form, owed, failures, slipped>>

TryAgain ==
  /\ page = "open" /\ flight = NoFlight /\ cache.failed
  /\ flight' = Asked
  /\ UNCHANGED <<view, kind, server, page, cache, form, owed, failures, slipped>>

-----------------------------------------------------------------------------
(***************************************************************************)
(* Requests: the API reads, the answer arrives or the request fails. A     *)
(* failure is tried again or recorded; the answer shown before it stays.   *)
(***************************************************************************)
Read ==
  /\ flight.at = "asked"
  /\ flight' = [flight EXCEPT !.at = "read", !.version = server]
  /\ UNCHANGED <<view, kind, server, page, cache, form, owed, failures, slipped>>

Arrive ==
  /\ flight.at = "read"
  /\ cache' = [data |-> flight.version, fresh |-> TRUE, invalid |-> FALSE, failed |-> FALSE]
  /\ slipped' = (slipped /\ flight.version < owed)
  /\ flight' = NoFlight
  /\ UNCHANGED <<view, kind, server, page, form, owed, failures>>

Fail ==
  /\ flight # NoFlight /\ failures < MaxFailures
  /\ failures' = failures + 1
  /\ \/ /\ flight.tries < retries(view)
        /\ flight' = [Asked EXCEPT !.tries = flight.tries + 1]
        /\ UNCHANGED cache
     \/ /\ flight' = NoFlight
        /\ cache' = [cache EXCEPT !.failed = TRUE]
  /\ UNCHANGED <<view, kind, server, page, form, owed, slipped>>

-----------------------------------------------------------------------------
(***************************************************************************)
(* The mutation. Its button is disabled while it is pending; the answer of *)
(* the API runs onSuccess, a lost answer does not.                         *)
(***************************************************************************)
\* invalidateQueries marks every match and refetches the ones on screen: a
\* refetch in flight is cancelled, a first load is joined.
refetched_joining == IF page = "away" THEN flight ELSE ask
refetched ==
  IF page = "away" \/ (flight # NoFlight /\ cache.data = None) THEN flight ELSE Asked

Send ==
  /\ form.at = "idle" /\ server < MaxWrites
  /\ form' = [at |-> "sent", version |-> None]
  /\ UNCHANGED <<view, kind, server, page, cache, flight, owed, failures, slipped>>

Refuse ==
  /\ form.at = "sent"
  /\ form' = NoForm
  /\ UNCHANGED <<view, kind, server, page, cache, flight, owed, failures, slipped>>

Write ==
  /\ form.at = "sent" /\ server < MaxWrites
  /\ server' = server + 1
  /\ form' = [at |-> "written", version |-> server + 1]
  /\ UNCHANGED <<view, kind, page, cache, flight, owed, failures, slipped>>

Succeed ==
  /\ form.at = "written"
  /\ form' = NoForm /\ owed' = form.version
  /\ IF announced(kind, view)
     THEN /\ cache' = IF cache = Empty THEN cache ELSE [cache EXCEPT !.invalid = TRUE]
          /\ flight' = refetched
          /\ slipped' = /\ page = "away" \/ cache.data = None
                        /\ flight.at = "read" /\ flight.version < form.version
     ELSE UNCHANGED <<cache, flight, slipped>>
  /\ UNCHANGED <<view, kind, server, page, failures>>

Lose ==
  /\ form.at = "written"
  /\ form' = NoForm
  /\ UNCHANGED <<view, kind, server, page, cache, flight, owed, failures, slipped>>

\* The worker, or another person, changes what the view shows.
Change ==
  /\ server < MaxWrites
  /\ server' = server + 1
  /\ UNCHANGED <<view, kind, page, cache, flight, form, owed, failures, slipped>>

Requests == Read \/ Arrive \/ Poll

WebNext ==
  \/ Open \/ Leave \/ Switch \/ Age \/ Collect \/ TryAgain
  \/ Requests \/ Fail
  \/ Send \/ Refuse \/ Write \/ Succeed \/ Lose \/ Change

WebSpec == WebInit /\ [][WebNext]_webVars /\ WF_webVars(Read) /\ WF_webVars(Arrive) /\ WF_webVars(Poll)

-----------------------------------------------------------------------------
(***************************************************************************)
(* Views that neither poll nor are invalidated by a mutation whose rows    *)
(* they show: they stay as they are until the screen is opened again.      *)
(***************************************************************************)
ofTask == {"approve", "retry", "cancel", "transition"}
Forgotten ==
  [deliveryMetrics |-> ofTask \cup {"createTask", "editTask", "phaseChange"},
   projects |-> {"createTask"},
   project |-> ofTask \cup {"runTask", "plan", "updateAgent", "saveAgent", "schedule"},
   githubInstallations |-> {"import"},
   agents |-> {"upsertProvider"}, agentTeam |-> {"upsertProvider"},
   testRuns |-> {"tests"}, reviewRuns |-> {"review", "updateFinding"}, approvals |-> {"approve"},
   phaseDetail |-> ofTask \cup {"editTask"},
   audit |-> {m \in Mutation : "audit" \in writes[m]} \ {"editTask", "saveAgent"}]
forgotten == view \in DOMAIN Forgotten /\ kind \in Forgotten[view]

(***************************************************************************)
(* A screen at rest shows at least what its person saved: the answer of a  *)
(* poll that was under way when the mutation succeeded never hides it.     *)
(* The known exceptions: views that are not told (Forgotten), a refetch    *)
(* that failed, and an older answer that is joined instead of cancelled (a *)
(* first load, or a request that outlived its screen).                     *)
(***************************************************************************)
ReadsOwnWrites ==
  (/\ page # "away" /\ flight = NoFlight
   /\ ~cache.failed /\ ~slipped
   /\ announced(kind, view))
  => cache.data >= owed

(***************************************************************************)
(* A polled screen that stays open shows every change in the end, also one *)
(* whose answer was lost; any other screen, unless Forgotten, shows in the *)
(* end what its person saved.                                              *)
(***************************************************************************)
ViewsCatchUp ==
  \A v \in 1..MaxWrites :
    /\ (view \in polled /\ page = "open" /\ server >= v)
         ~> (page # "open" \/ cache.data >= v)
    /\ (view \notin polled /\ ~forgotten /\ page = "open" /\ owed >= v)
         ~> (page # "open" \/ cache.data >= v \/ cache.failed \/ slipped)
=============================================================================
