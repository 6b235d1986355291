-------------------------- MODULE ProjectPlanning --------------------------
(***************************************************************************)
(* The phases of one project, the tasks linked to them, and the planners   *)
(* that turn a task into children of its phase.                            *)
(*                                                                         *)
(* Every writer of phases, and a start that captures a snapshot, holds the *)
(* project row's lock, so these transactions exclude one another. A        *)
(* reordering is kept apart into its statements, because the database      *)
(* checks the unique (project, position) index on each of them. A start    *)
(* without a snapshot locks the task only, and an agent thinks without any *)
(* lock: between the phase a planner read and the children made of its     *)
(* answer anything may happen.                                             *)
(*                                                                         *)
(* ver stands for updatedAt: it counts the writes of a phase row. content  *)
(* is what a planner reads of it. No code of this commit writes ACCEPTED:  *)
(* a phase may only be ACCEPTED from the start. op_word next to op is a    *)
(* faulty variant of op.                                                   *)
(***************************************************************************)
EXTENDS Naturals, Sequences, FiniteSets

CONSTANTS
  Phase,      \* identities of phases, one per creation
  Task,       \* tasks of the project
  Run,        \* identities of workflow runs, one per start
  NoPhase,
  First,      \* the phases the project has at the start, in order
  Accepted,   \* those of them that may be ACCEPTED
  MaxPhases,  \* the limit of phases of a project (500)
  MaxWrites   \* bound: writes of phase rows that are explored

ASSUME PlanningAssumption ==
  /\ NoPhase \notin Phase
  /\ First \in Seq(Phase)
  /\ \A i, j \in 1..Len(First) : i # j => First[i] # First[j]
  /\ Accepted \subseteq {First[i] : i \in 1..Len(First)}
  /\ MaxPhases \in Nat /\ MaxWrites \in Nat
  /\ IsFiniteSet(Phase) /\ Task # {}

VARIABLES
  phase,    \* project_phases: exists, position, status, ver, content
  deps,     \* project_phase_dependencies: what each phase depends on
  link,     \* tasks.phaseId
  run,      \* workflow runs: task, status, snapshot; and its planner's work
  children, \* child tasks by run: the phase, what its planner saw of it and
            \* what it was when the child was made
  writing,  \* the position updates an open reordering has still to make, in
            \* its two passes
  now       \* writes of phase rows so far

vars == <<phase, deps, link, run, children, writing, now>>

PhaseStatus == {"DRAFT", "ACTIVE", "ACCEPTED"}
Stage == {"none", "planned", "creating", "done"}
Scope == [phase : Phase \cup {NoPhase}, ver : Nat, content : Nat]
NoScope == [phase |-> NoPhase, ver |-> 0, content |-> 0]
NoRow == [exists |-> FALSE, position |-> 0, status |-> "DRAFT", ver |-> 0,
          content |-> 0]

Phases == {p \in Phase : phase[p].exists}
ActiveRuns == {r \in Run : run[r].status = "active"}
Unlocked == writing.home = {}

Init ==
  /\ \E accepted \in SUBSET Accepted : phase = [p \in Phase |->
       IF \E i \in 1..Len(First) : First[i] = p
       THEN [exists |-> TRUE, ver |-> 0, content |-> 0,
             position |-> (CHOOSE i \in 1..Len(First) : First[i] = p) - 1,
             status |-> IF p \in accepted THEN "ACCEPTED" ELSE "DRAFT"]
       ELSE NoRow]
  /\ deps = [p \in Phase |-> {}]
  /\ link = [t \in Task |-> NoPhase]
  /\ run = [r \in Run |-> [status |-> "none", task |-> CHOOSE t \in Task : TRUE,
                           frozen |-> FALSE, snapshot |-> NoScope,
                           stage |-> "none", scope |-> NoScope]]
  /\ children = [r \in Run |-> {}]
  /\ writing = [aside |-> {}, home |-> {}]
  /\ now = 0

-----------------------------------------------------------------------------
(***************************************************************************)
(* Rules the services share.                                               *)
(***************************************************************************)

\* The walk of validatePhaseDependencies: with the path active behind it, the
\* walk from id comes upon a phase of its path. Its set of visited phases only
\* saves work.
cycle(g, nodes) ==
  LET walk[active \in SUBSET nodes] ==
        {id \in nodes : \/ id \in active
                        \/ \E target \in g[id] : target \in walk[active \cup {id}]}
  IN walk[{}] # {}

validatePhaseDependencies_direct(nodes, id, ids) ==
  /\ id \notin ids
  /\ id \in nodes /\ ids \subseteq nodes
  /\ \A d \in ids : id \notin deps[d]

\* A list with a duplicate is refused too; a set has none.
validatePhaseDependencies(nodes, id, ids) ==
  /\ id \notin ids
  /\ id \in nodes /\ ids \subseteq nodes
  /\ ~cycle([deps EXCEPT ![id] = ids], nodes)

assertDraftPhase(p) == phase[p].status = "DRAFT"

editable_running(t) == TRUE

\* A task with an active status, run or agent run is not editable. Its
\* status and its agents follow its runs here.
editable(t) == \A r \in ActiveRuns : run[r].task # t

\* A row that is written gets a new updatedAt. A reordering is begun only
\* within the bound and then goes on to its end.
touch(row) == [row EXCEPT !.ver = @ + 1]
Tick == now' = now + 1
mayWrite == now < MaxWrites

\* The statements of writeOrder, as pairs of phase and position: first each
\* phase that changes its place is moved aside, behind the last position, then
\* each to its place; both times in the order of the new places.
offset(ph) ==
  LET taken == {ph[p].position : p \in {q \in Phase : ph[q].exists}}
  IN IF taken = {} THEN 0 ELSE 1 + (CHOOSE m \in taken : \A n \in taken : n <= m)

moves(place, ph) ==
  {<<p, place[p]>> : p \in {q \in DOMAIN place : ph[q].position # place[q]}}

writeOrder_inPlace(place, ph) == [aside |-> {}, home |-> moves(place, ph)]

writeOrder(place, ph) ==
  [aside |-> {<<c[1], offset(ph) + c[2]>> : c \in moves(place, ph)},
   home  |-> moves(place, ph)]

-----------------------------------------------------------------------------
(***************************************************************************)
(* ProjectPhasesService. Requests the services refuse change nothing.      *)
(***************************************************************************)
Create(p, ids) ==
  /\ Unlocked
  /\ ~phase[p].exists /\ phase[p].ver = 0 /\ mayWrite /\ Tick
  /\ Cardinality(Phases) < MaxPhases
  /\ validatePhaseDependencies(Phases \cup {p}, p, ids)
  /\ phase' = [phase EXCEPT ![p] =
       [NoRow EXCEPT !.exists = TRUE, !.position = Cardinality(Phases),
                     !.ver = 1]]
  /\ deps' = [deps EXCEPT ![p] = ids]
  /\ UNCHANGED <<link, run, children, writing>>

\* metadata: whether the request changes what a planner reads of the phase.
Update(p, ids, metadata) ==
  /\ Unlocked
  /\ p \in Phases /\ assertDraftPhase(p) /\ mayWrite /\ Tick
  /\ validatePhaseDependencies(Phases, p, ids)
  /\ metadata \/ ids # deps[p]
  /\ deps' = [deps EXCEPT ![p] = ids]
  /\ phase' = [phase EXCEPT ![p] =
       [touch(phase[p]) EXCEPT !.content = IF metadata THEN @ + 1 ELSE @]]
  /\ UNCHANGED <<link, run, children, writing>>

\* place: the index of each phase in the order asked for.
Order(place) ==
  /\ Unlocked
  /\ \A p \in Phases : phase[p].position # place[p] => assertDraftPhase(p)
  /\ mayWrite
  /\ writing' = writeOrder(place, phase)
  /\ UNCHANGED <<phase, deps, link, run, children, now>>

\* One statement of an open writeOrder. The last one ends the transaction.
WritePosition ==
  LET pass == IF writing.aside # {} THEN writing.aside ELSE writing.home IN
  \E s \in pass :
    /\ \A other \in pass : s[2] <= other[2]
    /\ Tick
    /\ phase' = [phase EXCEPT ![s[1]] = [touch(@) EXCEPT !.position = s[2]]]
    /\ writing' = IF writing.aside # {}
                  THEN [writing EXCEPT !.aside = @ \ {s}]
                  ELSE [writing EXCEPT !.home = @ \ {s}]
    /\ UNCHANGED <<deps, link, run, children>>

Membership(p, t, linked) ==
  LET target == IF linked THEN p ELSE NoPhase IN
  /\ Unlocked
  /\ p \in Phases /\ editable(t)
  /\ linked \/ link[t] = p
  /\ link[t] # target
  /\ assertDraftPhase(p)
  /\ link[t] # NoPhase => assertDraftPhase(link[t])
  /\ link' = [link EXCEPT ![t] = target]
  /\ UNCHANGED <<phase, deps, run, children, writing, now>>

Delete_keepsLinks(p) ==
  /\ Unlocked
  /\ p \in Phases /\ assertDraftPhase(p)
  /\ \A q \in Phases : phase[q].position <= phase[p].position
  /\ mayWrite /\ Tick
  /\ phase' = [phase EXCEPT ![p] = [NoRow EXCEPT !.ver = phase[p].ver + 1]]
  /\ deps' = [deps EXCEPT ![p] = {}]
  /\ UNCHANGED <<link, run, children, writing>>

\* The rest keeps its order, so every later phase moves one place up.
Delete(p) ==
  LET rest == [phase EXCEPT ![p] = [NoRow EXCEPT !.ver = 1]]
      remaining == [q \in Phases \ {p} |-> Cardinality(
                     {o \in Phases \ {p} : phase[o].position < phase[q].position})]
  IN
  /\ Unlocked
  /\ p \in Phases /\ assertDraftPhase(p)
  /\ \A q \in Phases :
       phase[q].position > phase[p].position => assertDraftPhase(q)
  /\ \A q \in Phases : p \notin deps[q]
  /\ \A t \in Task : link[t] = p => editable(t)
  /\ mayWrite /\ Tick
  /\ link' = [t \in Task |-> IF link[t] = p THEN NoPhase ELSE link[t]]
  /\ phase' = rest
  /\ deps' = [deps EXCEPT ![p] = {}]
  /\ writing' = writeOrder(remaining, rest)
  /\ UNCHANGED <<run, children>>

Activate_started(p) ==
  /\ Unlocked
  /\ p \in Phases /\ assertDraftPhase(p) /\ mayWrite /\ Tick
  /\ \A q \in deps[p] : phase[q].status # "DRAFT"
  /\ phase' = [phase EXCEPT ![p] = [touch(@) EXCEPT !.status = "ACTIVE"]]
  /\ UNCHANGED <<deps, link, run, children, writing>>

(***************************************************************************)
(* ProjectPhaseLifecycleService.transition, in its two directions.         *)
(***************************************************************************)
Activate(p) ==
  /\ Unlocked
  /\ p \in Phases /\ assertDraftPhase(p) /\ mayWrite /\ Tick
  /\ \A q \in deps[p] : phase[q].status = "ACCEPTED"
  /\ phase' = [phase EXCEPT ![p] = [touch(@) EXCEPT !.status = "ACTIVE"]]
  /\ UNCHANGED <<deps, link, run, children, writing>>

Reopen(p) ==
  /\ Unlocked
  /\ p \in Phases /\ phase[p].status = "ACTIVE" /\ mayWrite /\ Tick
  /\ \A t \in Task : link[t] = p => editable(t)
  /\ phase' = [phase EXCEPT ![p] = [touch(@) EXCEPT !.status = "DRAFT"]]
  /\ UNCHANGED <<deps, link, run, children, writing>>

-----------------------------------------------------------------------------
(***************************************************************************)
(* Runs and their planners.                                                *)
(***************************************************************************)

\* loadPlannerPhaseContext: what a planner of task t is told of its phase;
\* there is no context in a phase that is not ACTIVE.
hasContext(t) == link[t] # NoPhase => phase[link[t]].status = "ACTIVE"
context(t) == IF link[t] = NoPhase THEN NoScope
              ELSE [phase |-> link[t], ver |-> phase[link[t]].ver,
                    content |-> phase[link[t]].content]

\* force starts a run beside an active one, and a parked run never blocks.
startable(r) == run[r].status = "none"

\* A start with an execution selection captures the context in the run.
StartFrozen(r, t) ==
  /\ Unlocked
  /\ startable(r) /\ hasContext(t)
  /\ run' = [run EXCEPT ![r] = [@ EXCEPT !.status = "active", !.task = t,
                                !.frozen = TRUE, !.snapshot = context(t)]]
  /\ UNCHANGED <<phase, deps, link, children, writing, now>>

\* Any other start asks nothing of the phase.
Start(r, t) ==
  /\ startable(r)
  /\ run' = [run EXCEPT ![r] = [@ EXCEPT !.status = "active", !.task = t]]
  /\ UNCHANGED <<phase, deps, link, children, writing, now>>

\* A succeeding PLAN step: the planner answers within the context it got.
Plan(r) ==
  LET t == run[r].task IN
  /\ Unlocked
  /\ r \in ActiveRuns /\ run[r].stage = "none"
  /\ ~run[r].frozen => hasContext(t)
  /\ run' = [run EXCEPT ![r] = [@ EXCEPT !.stage = "planned",
               !.scope = IF run[r].frozen THEN run[r].snapshot ELSE context(t)]]
  /\ UNCHANGED <<phase, deps, link, children, writing, now>>

\* The engine claims CREATE_TASKS; nothing stops its handler afterwards.
ClaimCreateTasks(r) ==
  /\ r \in ActiveRuns /\ run[r].stage = "planned"
  /\ run' = [run EXCEPT ![r].stage = "creating"]
  /\ UNCHANGED <<phase, deps, link, children, writing, now>>

assertPlannerPhaseScope_phaseOnly(scope, current) ==
  scope.phase = current.phase

\* assertPlannerPhaseScope against the current context.
assertPlannerPhaseScope(scope, current) ==
  scope.phase = current.phase /\ scope.ver = current.ver

\* materialize makes all children or, where a check throws, none.
Materialize(r) ==
  LET t == run[r].task IN
  /\ Unlocked
  /\ run[r].stage = "creating"
  /\ run' = [run EXCEPT ![r].stage = "done"]
  /\ IF /\ run[r].frozen => link[t] = run[r].snapshot.phase
        /\ hasContext(t)
        /\ assertPlannerPhaseScope(run[r].scope, context(t))
     THEN children' = [children EXCEPT ![r] = @ \cup
            {[phase |-> link[t], saw |-> run[r].scope.content,
              was |-> context(t).content]}]
     ELSE UNCHANGED children
  /\ UNCHANGED <<phase, deps, link, writing, now>>

\* The run ends or is cancelled; a handler in flight goes on.
EndRun(r) ==
  /\ r \in ActiveRuns
  /\ run' = [run EXCEPT ![r].status = "ended"]
  /\ UNCHANGED <<phase, deps, link, children, writing, now>>

-----------------------------------------------------------------------------
Orders == {place \in [Phases -> 0..(Cardinality(Phases) - 1)] :
             \A p, q \in Phases : p # q => place[p] # place[q]}

Next ==
  \/ \E p \in Phase :
       \/ \E ids \in SUBSET Phase :
            Create(p, ids) \/ \E m \in BOOLEAN : Update(p, ids, m)
       \/ \E t \in Task, linked \in BOOLEAN : Membership(p, t, linked)
       \/ Delete(p) \/ Activate(p) \/ Reopen(p)
  \/ \E place \in Orders : Order(place)
  \/ WritePosition
  \/ \E r \in Run :
       \/ \E t \in Task : StartFrozen(r, t) \/ Start(r, t)
       \/ Plan(r) \/ ClaimCreateTasks(r) \/ Materialize(r) \/ EndRun(r)

Spec == Init /\ [][Next]_vars

-----------------------------------------------------------------------------
\* The foreign keys are part of the type: a task is linked to a phase that
\* exists, and so are the ends of a dependency.
TypeOK ==
  /\ phase \in [Phase -> [exists : BOOLEAN, position : Nat,
                          status : PhaseStatus, ver : Nat, content : Nat]]
  /\ deps \in [Phase -> SUBSET Phases]
  /\ link \in [Task -> Phases \cup {NoPhase}]
  /\ run \in [Run -> [status : {"none", "active", "ended"}, task : Task,
                      frozen : BOOLEAN, snapshot : Scope, stage : Stage,
                      scope : Scope]]
  /\ children \in [Run -> SUBSET [phase : Phase \cup {NoPhase}, saw : Nat,
                                  was : Nat]]
  /\ writing \in [aside : SUBSET (Phases \X Nat), home : SUBSET (Phases \X Nat)]
  /\ now \in Nat

(***************************************************************************)
(* No statement of a reordering or deletion ever gives two phases of the   *)
(* project one position (the unique index would fail the transaction), and *)
(* between transactions the positions are 0..n-1, which create relies on   *)
(* when it takes the number of phases as the next position.                *)
(***************************************************************************)
PositionsAreSound ==
  /\ \A p, q \in Phases : p # q => phase[p].position # phase[q].position
  /\ Unlocked => {phase[p].position : p \in Phases}
                   = 0..(Cardinality(Phases) - 1)

(***************************************************************************)
(* The phases can be worked off: some ranking puts every phase behind all  *)
(* phases it depends on, whatever edges were replaced and phases deleted.  *)
(***************************************************************************)
PhasesCanBeOrdered ==
  \E rank \in [Phases -> 1..Cardinality(Phases)] :
    \A p \in Phases : \A q \in deps[p] : q \in Phases /\ rank[q] < rank[p]

(***************************************************************************)
(* The lifecycle gate holds in every state, not only at the activation:    *)
(* what an ACTIVE phase depends on is ACCEPTED.                            *)
(***************************************************************************)
PrerequisitesStayAccepted ==
  \A p \in Phases : phase[p].status = "ACTIVE" =>
    \A q \in deps[p] : q \in Phases /\ phase[q].status = "ACCEPTED"

(***************************************************************************)
(* While a run is active, nobody can pull the phase out from under a plan  *)
(* it captured or made: the task is still in that phase, and the phase is  *)
(* ACTIVE with the updatedAt the planner was given.                        *)
(***************************************************************************)
LivePlansStayCurrent ==
  \A r \in ActiveRuns :
    \A s \in (IF run[r].frozen THEN {run[r].snapshot} ELSE {})
               \cup (IF run[r].stage # "none" THEN {run[r].scope} ELSE {}) :
      /\ link[run[r].task] = s.phase
      /\ s.phase # NoPhase =>
           /\ s.phase \in Phases
           /\ phase[s.phase].status = "ACTIVE"
           /\ phase[s.phase].ver = s.ver

(***************************************************************************)
(* Children are only ever made from a plan whose planner saw the phase as  *)
(* it was at that moment, also by the late handler of a run that was       *)
(* cancelled, its phase reopened, edited and activated again meanwhile.    *)
(***************************************************************************)
ChildrenFollowTheContract ==
  \A r \in Run : \A c \in children[r] : c.saw = c.was
=============================================================================
