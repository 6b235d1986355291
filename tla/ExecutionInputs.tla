-------------------------- MODULE ExecutionInputs --------------------------
(***************************************************************************)
(* What an agent is run with, for one role of one workflow run.            *)
(*                                                                         *)
(* A frozen run captures a snapshot when it is started: the agent, and its *)
(* limits narrowed by the project and by the process. Each execution reads *)
(* the rows again, in several queries, and narrows the snapshot by what it *)
(* finds; a row that no longer fits stops it. A run that is not frozen     *)
(* resolves its agent for each execution. People edit all of it meanwhile. *)
(*                                                                         *)
(* Limits are an ordered permission level, a cost and whether the command  *)
(* allowlist is narrower than the process's (its full one is the whole     *)
(* COMMAND_ALLOWLIST). op_word next to op is a faulty variant of op.       *)
(***************************************************************************)
EXTENDS Naturals

CONSTANTS
  Agents,        \* agents of the role, as numbers in the order of their ids
  OfProject,     \* those that belong to the project; the others to its organization
  MaxLevel,      \* the highest permission level
  MaxCost,       \* the highest cost limit or budget
  EnvCost,       \* AGENT_COST_BUDGET_USD
  MaxEdits,      \* bound: edits of the configuration
  MaxExecutions  \* bound: executions of the role (and so of its retries)

VARIABLES
  conf,   \* agents, project and provider as the database has them
  snap,   \* the run: not started, started without a snapshot, or frozen
  exec,   \* the execution in progress: how far it is and what it has read
  peak,   \* the widest limits since the execution began
  spent,  \* tasks.actualCost
  accepted,  \* the last result was accepted
  edits, executions

inputVars == <<conf, snap, exec, peak, spent, accepted, edits, executions>>

None == 0
min(a, b) == IF a < b THEN a ELSE b
max(a, b) == IF a > b THEN a ELSE b

AgentRow == [enabled : BOOLEAN, member : BOOLEAN, level : 0..MaxLevel,
             cost : 0..MaxCost, narrow : BOOLEAN]
Conf == [agent : [Agents -> AgentRow], level : 0..MaxLevel, budget : 0..MaxCost,
         configured : BOOLEAN, assigned : Agents \cup {None},
         provider : BOOLEAN, codex : BOOLEAN]
NoRun == [state |-> "none"]
NoExec == [stage |-> "idle"]
NoPeak == [level |-> 0, agentLevel |-> 0, cost |-> 0]

Init ==
  /\ conf \in [agent : {[a \in Agents |->
                  [enabled |-> TRUE, member |-> TRUE, level |-> MaxLevel,
                   cost |-> MaxCost, narrow |-> FALSE]]},
                level : {MaxLevel}, budget : {0, MaxCost}, configured : BOOLEAN,
                assigned : Agents \cup {None}, provider : {TRUE}, codex : BOOLEAN]
  /\ snap = NoRun /\ exec = NoExec /\ peak = NoPeak
  /\ spent = 0 /\ accepted = TRUE /\ edits = 0 /\ executions = 0

-----------------------------------------------------------------------------
(***************************************************************************)
(* Selection of an agent.                                                  *)
(***************************************************************************)
eligible(a) ==
  /\ conf.agent[a].enabled /\ conf.provider
  /\ conf.configured => conf.agent[a].member

first(S) == CHOOSE a \in S : \A b \in S : a <= b

\* capture: the assigned agent, else the project's first, else the
\* organization's first; None stands for the default provider without an agent.
captured ==
  LET able == {a \in Agents : eligible(a)} IN
  IF conf.assigned \in able THEN conf.assigned
  ELSE IF able \cap OfProject # {} THEN first(able \cap OfProject)
  ELSE IF able # {} THEN first(able)
  ELSE None

resolveRoleProvider_anyScope ==
  LET able == {a \in Agents : eligible(a)} IN
  IF conf.assigned \in able THEN {conf.assigned}
  ELSE IF able = {} THEN {None}
  ELSE IF conf.configured THEN {first(able)} ELSE able

\* The worker asks for the same, but in the order of ids only when a team is
\* configured: otherwise any agent of the scope may come first.
resolveRoleProvider ==
  LET able == {a \in Agents : eligible(a)}
      scope == IF able \cap OfProject # {} THEN able \cap OfProject ELSE able
  IN IF conf.assigned \in able THEN {conf.assigned}
     ELSE IF scope = {} THEN {None}
     ELSE IF conf.configured THEN {first(scope)} ELSE scope

\* With a team, a role nobody covers is refused, by both.
uncovered(a) == a = None /\ conf.configured

-----------------------------------------------------------------------------
(***************************************************************************)
(* Start, and the edits of the configuration.                              *)
(***************************************************************************)
Start ==
  /\ snap = NoRun
  /\ snap' = [state |-> "plain"]
  /\ UNCHANGED <<conf, exec, peak, spent, accepted, edits, executions>>

Freeze ==
  LET a == captured IN
  /\ snap = NoRun
  /\ ~uncovered(a) /\ conf.provider
  /\ snap' = [state |-> "frozen", agent |-> a, codex |-> conf.codex,
              budget |-> conf.budget,
              level |-> IF a = None THEN conf.level
                        ELSE min(conf.agent[a].level, conf.level),
              cost |-> min(IF conf.budget > 0 THEN conf.budget ELSE MaxCost,
                           min(EnvCost, IF a = None THEN EnvCost
                                        ELSE conf.agent[a].cost)),
              narrow |-> a # None /\ conf.agent[a].narrow]
  /\ UNCHANGED <<conf, exec, peak, spent, accepted, edits, executions>>

\* Widest limits so far: an edit during an execution may raise them.
widen(c) ==
  peak' = IF exec = NoExec \/ snap.state # "frozen" THEN peak
          ELSE [level |-> max(peak.level, c.level),
                agentLevel |-> IF snap.agent = None THEN MaxLevel
                               ELSE max(peak.agentLevel, c.agent[snap.agent].level),
                cost |-> IF snap.agent = None THEN MaxCost
                         ELSE max(peak.cost, c.agent[snap.agent].cost)]

Edit(c) ==
  /\ edits < MaxEdits /\ c # conf
  /\ conf' = c
  /\ edits' = edits + 1
  /\ widen(c)
  /\ UNCHANGED <<snap, exec, spent, accepted, executions>>

EditAgent(a) ==
  \/ Edit([conf EXCEPT !.agent[a].enabled = ~@])
  \/ Edit([conf EXCEPT !.agent[a].narrow = ~@])
  \/ \E l \in 0..MaxLevel : Edit([conf EXCEPT !.agent[a].level = l])
  \/ \E m \in 1..MaxCost : Edit([conf EXCEPT !.agent[a].cost = m])

EditProject ==
  \/ \E l \in 0..MaxLevel : Edit([conf EXCEPT !.level = l])
  \/ \E m \in 0..MaxCost : Edit([conf EXCEPT !.budget = m])
  \/ \E a \in Agents \cup {None} : Edit([conf EXCEPT !.assigned = a])

EditTeam(a) == Edit([conf EXCEPT !.agent[a].member = ~@, !.configured = TRUE])

EditProvider == Edit([conf EXCEPT !.provider = ~@])

-----------------------------------------------------------------------------
(***************************************************************************)
(* AgentExecutor.execute, query by query.                                  *)
(***************************************************************************)
\* The task with its project, and the run's snapshot.
Begin ==
  /\ snap # NoRun /\ exec = NoExec /\ executions < MaxExecutions
  /\ executions' = executions + 1
  /\ exec' = [stage |-> "begun", level |-> conf.level]
  /\ peak' = IF snap.state # "frozen" THEN NoPeak
             ELSE IF snap.agent = None
             THEN [level |-> conf.level, agentLevel |-> MaxLevel, cost |-> MaxCost]
             ELSE [level |-> conf.level, cost |-> conf.agent[snap.agent].cost,
                   agentLevel |-> conf.agent[snap.agent].level]
  /\ UNCHANGED <<conf, snap, spent, accepted, edits>>

Stop == exec' = NoExec /\ peak' = NoPeak

\* Codex cannot enforce a narrowed allowlist.
enforceable(narrow) == ~(snap.codex /\ narrow)

\* The agent of a snapshot must still be enabled and in the team.
fits(a) ==
  a # None => /\ conf.agent[a].enabled
              /\ conf.configured => conf.agent[a].member

agentOf(a) == IF a = None
              THEN [level |-> snap.level, cost |-> MaxCost, narrow |-> FALSE]
              ELSE [level |-> conf.agent[a].level, cost |-> conf.agent[a].cost,
                    narrow |-> conf.agent[a].narrow]

\* The provider's and the agent's rows of a frozen run.
Check ==
  /\ exec.stage = "begun" /\ snap.state = "frozen"
  /\ IF enforceable(snap.narrow) /\ conf.provider /\ fits(snap.agent)
     THEN exec' = [stage |-> "checked", level |-> exec.level, agent |-> snap.agent,
                   row |-> agentOf(snap.agent)] /\ UNCHANGED peak
     ELSE Stop
  /\ UNCHANGED <<conf, snap, spent, accepted, edits, executions>>

\* A run that is not frozen resolves its agent. The agent's own limits replace
\* the process's, and the project's level is the only one.
Resolve(a) ==
  /\ exec.stage = "begun" /\ snap.state = "plain" /\ a \in resolveRoleProvider
  /\ IF ~uncovered(a) /\ conf.provider
     THEN exec' = [stage |-> "checked", level |-> exec.level, agent |-> a,
                   row |-> [cost |-> IF a = None THEN EnvCost
                                     ELSE conf.agent[a].cost,
                            level |-> exec.level, narrow |-> FALSE]]
          /\ UNCHANGED peak
     ELSE Stop
  /\ UNCHANGED <<conf, snap, spent, accepted, edits, executions>>

limitOf_current == conf.budget

\* budgetExceeded: the lower of the frozen and the current budget; 0 is none.
limitOf ==
  IF snap.state = "plain" THEN conf.budget
  ELSE LET positive == {b \in {snap.budget, conf.budget} : b > 0}
       IN IF positive = {} THEN 0 ELSE CHOOSE b \in positive : \A d \in positive : b <= d

\* The limits of the invocation.
invocation_snapshotOnly(limit) ==
  [level |-> snap.level,
   cost |-> min(min(snap.cost, EnvCost), IF limit > 0 THEN limit - spent ELSE MaxCost),
   narrow |-> snap.narrow]

invocation(limit) ==
  [level |-> min(snap.level, min(exec.level, exec.row.level)),
   cost |-> min(min(snap.cost, EnvCost),
                min(exec.row.cost, IF limit > 0 THEN limit - spent ELSE MaxCost)),
   narrow |-> snap.narrow \/ exec.row.narrow]

Invoke ==
  LET limit == limitOf
      with == IF snap.state = "frozen" THEN invocation(limit) ELSE exec.row
  IN /\ exec.stage = "checked"
     /\ IF limit > 0 /\ spent >= limit THEN Stop
        ELSE IF snap.state = "frozen" /\ ~enforceable(with.narrow) THEN Stop
        ELSE exec' = [stage |-> "running", agent |-> exec.agent, with |-> with]
             /\ UNCHANGED peak
     /\ UNCHANGED <<conf, snap, spent, accepted, edits, executions>>

\* A provider knows what it has cost when it is done: a result beyond its
\* limit is not accepted, but it is paid.
Finish(cost) ==
  /\ exec.stage = "running"
  /\ spent' = spent + cost
  /\ accepted' = (cost <= exec.with.cost)
  /\ Stop
  /\ UNCHANGED <<conf, snap, edits, executions>>

Execute ==
  \/ Begin
  \/ Check
  \/ \E a \in Agents \cup {None} : Resolve(a)
  \/ Invoke
  \/ \E cost \in 0..MaxCost : Finish(cost)

Next ==
  \/ Start \/ Freeze
  \/ \E a \in Agents : EditAgent(a) \/ EditTeam(a)
  \/ EditProject \/ EditProvider
  \/ Execute

-----------------------------------------------------------------------------
TypeOK ==
  /\ conf \in Conf
  /\ snap.state \in {"none", "plain", "frozen"}
  /\ snap.state = "frozen" =>
       snap.agent \in Agents \cup {None} /\ snap.level \in 0..MaxLevel
  /\ exec.stage \in {"idle", "begun", "checked", "running"}
  /\ exec.stage = "running" => exec.with.cost \in 0..MaxCost
  /\ spent \in Nat /\ accepted \in BOOLEAN

\* A frozen run only ever narrows: its agent is the captured one, and it never
\* runs with more than the snapshot allowed, nor with more than the project
\* and the agent allowed at some moment of this execution. An edit that lowers
\* a limit therefore binds every later execution of the run, and none that
\* raises one does.
FrozenRunsOnlyNarrow ==
  (exec.stage = "running" /\ snap.state = "frozen") =>
    /\ exec.agent = snap.agent
    /\ exec.with.level <= min(snap.level, min(peak.level, peak.agentLevel))
    /\ exec.with.cost <= min(snap.cost, peak.cost)
    /\ snap.codex => ~exec.with.narrow

\* The budget a frozen run was started with holds for all its executions
\* together, also when the project's budget is raised or removed later: no
\* result is accepted that goes beyond it, and none is begun when it is spent.
FrozenSpendFitsTheBudget ==
  (snap.state = "frozen" /\ snap.budget > 0) =>
    /\ accepted => spent <= snap.budget
    /\ exec.stage = "running" => spent < snap.budget

\* The snapshot and the worker select alike: the captured agent is one the
\* worker could resolve at that moment, and with a team the only one.
SelectionsAgree ==
  /\ captured \in resolveRoleProvider
  /\ conf.configured => resolveRoleProvider = {captured}
=============================================================================
