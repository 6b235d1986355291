----------------------------- MODULE TaskGraph -----------------------------
(***************************************************************************)
(* The dependencies between the tasks of a project: edges asked for        *)
(* through the API, edges of a new task, and the edges of a plan, which    *)
(* the schema of the planner's output has to let through first.            *)
(*                                                                         *)
(* All writers of edges hold the project row: TaskDependenciesService by a *)
(* FOR NO KEY UPDATE lock, the creators of tasks by the increment of       *)
(* taskSequence. Under READ COMMITTED each statement sees what was         *)
(* committed before it, so the check and the insert are separate steps.    *)
(***************************************************************************)
EXTENDS Naturals, Sequences, FiniteSets

CONSTANTS
  Adder,      \* concurrent requests that add a dependency
  EdgeType,   \* kinds of dependencies
  PlanSizes,  \* bound: numbers of tasks of the plans that are explored
  MaxTasks,   \* bound: tasks of the project
  MaxAsked    \* bound: requests that add a dependency

VARIABLES
  task,     \* the tasks are 1..task
  edge,     \* task_dependencies: from, to, type
  adder,    \* requests: stage, the edge they want, what they answer
  holder,   \* the adder that holds the project row, or none
  plan,     \* the planner's output, the verdict of its schema, and whether
            \* it was turned into tasks
  asked

graphVars == <<task, edge, adder, holder, plan, asked>>

Tasks == 1..task
Nobody == "nobody"
NoWish == [stage |-> "idle", from |-> 1, to |-> 1, type |-> CHOOSE t \in EdgeType : TRUE]
NoPlan == [tasks |-> <<>>, accepted |-> TRUE, stored |-> FALSE]
Settled == [NoPlan EXCEPT !.stored = TRUE]
\* Bound: a plan that was judged becomes tasks before others are made.
Quiet == plan \in {NoPlan, Settled}

GraphInit ==
  /\ task = 1 /\ edge = {}
  /\ adder = [a \in Adder |-> NoWish]
  /\ holder = Nobody
  /\ plan = NoPlan
  /\ asked = 0

\* What can be reached from a task along edges, itself included.
reach(edges, from) ==
  LET near[n \in 0..Cardinality(edges)] ==
        IF n = 0 THEN {from}
        ELSE LET last == near[n - 1]
             IN last \cup {e.to : e \in {x \in edges : x.from \in last}}
  IN near[Cardinality(edges)]

Acyclic(edges) == \A e \in edges : e.from \notin reach(edges, e.to)

-----------------------------------------------------------------------------
free_always == TRUE

\* The project row is not locked by an adder.
free == holder = Nobody

Ask(a, from, to, type) ==
  /\ adder[a].stage = "idle" /\ asked < MaxAsked /\ Quiet
  /\ asked' = asked + 1
  /\ adder' = [adder EXCEPT ![a] = [stage |-> "asked", from |-> from, to |-> to,
                                    type |-> type]]
  /\ UNCHANGED <<task, edge, holder, plan>>

lockProject(a) ==
  /\ adder[a].stage = "asked" /\ free
  /\ adder' = [adder EXCEPT ![a].stage = "locked"]
  /\ holder' = a
  /\ UNCHANGED <<task, edge, plan, asked>>

wouldCycle_direct(w) ==
  w.from = w.to \/ \E e \in edge : e.from = w.to /\ e.to = w.from

\* A self-loop, or the walk from the dependency comes back to the task.
wouldCycle(w) == w.from = w.to \/ w.from \in reach(edge, w.to)

\* The answer without an insert, or none.
refusal(w) ==
  IF w.from = w.to THEN "cycle"
  ELSE IF \E e \in edge : e.from = w.from /\ e.to = w.to
  THEN IF \E e \in edge : e.from = w.from /\ e.to = w.to /\ e.type = w.type
       THEN "existing" ELSE "exists"
  ELSE IF wouldCycle(w) THEN "cycle" ELSE "none"

release(a) == holder' = IF holder = a THEN Nobody ELSE holder

Check(a) ==
  /\ adder[a].stage = "locked"
  /\ LET answer == refusal(adder[a])
     IN IF answer = "none"
        THEN adder' = [adder EXCEPT ![a].stage = "checked"] /\ UNCHANGED holder
        ELSE adder' = [adder EXCEPT ![a] = NoWish] /\ release(a)
  /\ UNCHANGED <<task, edge, plan, asked>>

Insert(a) ==
  /\ adder[a].stage = "checked"
  /\ edge' = edge \cup {[from |-> adder[a].from, to |-> adder[a].to, type |-> adder[a].type]}
  /\ adder' = [adder EXCEPT ![a] = NoWish]
  /\ release(a)
  /\ UNCHANGED <<task, plan, asked>>

\* createTaskInTransaction: the new task may depend on any that exist.
CreateTask(on) ==
  /\ free /\ task < MaxTasks /\ Quiet
  /\ task' = task + 1
  /\ edge' = edge \cup {[from |-> task + 1, to |-> t, type |-> NoWish.type] : t \in on}
  /\ UNCHANGED <<adder, holder, plan, asked>>

-----------------------------------------------------------------------------
(***************************************************************************)
(* Plans. tasks[i] is the set of places a planned task depends on; the     *)
(* schema refuses lists that name a place twice, which a set cannot.       *)
(***************************************************************************)
Plans == UNION {[1..n -> SUBSET (1..(n + 1))] : n \in PlanSizes}

validReferences(tasks) ==
  \A i \in DOMAIN tasks : i \notin tasks[i] /\ tasks[i] \subseteq DOMAIN tasks

\* One turn of the traversal's loop, if a task is left to visit.
visitNext(tasks, s) ==
  IF s.waiting = {} THEN s
  ELSE LET next == CHOOSE i \in s.waiting : TRUE
           dependents == {i \in DOMAIN tasks : next \in tasks[i]}
           left == [i \in DOMAIN tasks |-> IF i \in dependents THEN s.remaining[i] - 1
                                           ELSE s.remaining[i]]
           new == {i \in dependents : left[i] = 0}
       IN [waiting |-> (s.waiting \ {next}) \cup new, visited |-> s.visited \cup {next},
           length |-> s.length + Cardinality(new), remaining |-> left]

traversal_once(tasks) ==
  Cardinality({i \in DOMAIN tasks : Cardinality(tasks[i]) < Len(tasks) - 1})

\* How many tasks the topological traversal gets ready. A task is ready when
\* as many of its dependencies as it has were visited. The list of the ready
\* tasks is a set of those that wait for their visit and a set of those that
\* had it: the order of the list decides the order of the visits only, so any
\* of the waiting ones may be next.
traversal(tasks) ==
  LET visit[k \in 0..Len(tasks)] ==
        IF k = 0
        THEN LET first == {i \in DOMAIN tasks : tasks[i] = {}}
             IN [waiting |-> first, visited |-> {}, length |-> Cardinality(first),
                 remaining |-> [i \in DOMAIN tasks |-> Cardinality(tasks[i])]]
        ELSE visitNext(tasks, visit[k - 1])
  IN visit[Len(tasks)].length

plannerOutputSchema(tasks) ==
  validReferences(tasks) /\ traversal(tasks) = Len(tasks)

planEdges(tasks, offset) ==
  UNION {{[from |-> offset + i, to |-> offset + j, type |-> NoWish.type] : j \in tasks[i]} :
         i \in DOMAIN tasks}

Judge ==
  /\ plan = NoPlan /\ task = 1 /\ asked = 0
  /\ \E tasks \in Plans :
       plan' = [tasks |-> tasks, accepted |-> plannerOutputSchema(tasks), stored |-> FALSE]
  /\ UNCHANGED <<task, edge, adder, holder, asked>>

Materialize ==
  /\ free /\ plan # NoPlan /\ ~plan.stored /\ plan.accepted
  /\ task + Len(plan.tasks) <= MaxTasks
  /\ plan' = Settled
  /\ task' = task + Len(plan.tasks)
  /\ edge' = edge \cup planEdges(plan.tasks, task)
  /\ UNCHANGED <<adder, holder, asked>>

GraphNext ==
  \/ \E a \in Adder : \/ \E from, to \in Tasks, type \in EdgeType : Ask(a, from, to, type)
                      \/ lockProject(a) \/ Check(a) \/ Insert(a)
  \/ \E on \in SUBSET Tasks : CreateTask(on)
  \/ Judge \/ Materialize

-----------------------------------------------------------------------------
GraphTypeOK ==
  /\ task \in Nat
  /\ edge \subseteq [from : Tasks, to : Tasks, type : EdgeType]
  /\ holder \in Adder \cup {Nobody}
  /\ \A a \in Adder : adder[a].stage \in {"idle", "asked", "locked", "checked"}

\* Whatever requests run side by side and whatever the planner answers, no
\* task waits for itself.
DependenciesAreAcyclic == Acyclic(edge)

\* The counting traversal accepts a plan exactly when its dependencies are
\* places of the plan and have no cycle.
PlansAreJudgedRight ==
  plan.accepted <=> /\ validReferences(plan.tasks)
                    /\ Acyclic(planEdges(plan.tasks, 0))
=============================================================================
