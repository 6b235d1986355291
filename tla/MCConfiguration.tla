-------------------------- MODULE MCConfiguration --------------------------
(***************************************************************************)
(* What a project is configured with, on small instances: its phases       *)
(* (ProjectPlanning), the edits of everything later runs execute with      *)
(* (ConfigurationEdits), what an execution makes of it (ExecutionInputs)   *)
(* and the accounts of its providers (ProviderAccounts). `part` says which *)
(* of the four moves.                                                      *)
(***************************************************************************)
EXTENDS ProjectPlanning, TLC

CONSTANTS
  p1, p2, p3,
  Client, Kinds, MaxSaves, MaxClock,
  Agents, OfProject, MaxLevel, MaxCost, EnvCost, MaxEdits, MaxExecutions,
  Admin, MaxKeys, TTL, ReadTime, MaxTime

\* The highest cost is at least the one of the environment; None is no agent.
ASSUME ConfigurationAssumption ==
  /\ MaxSaves \in Nat /\ MaxClock \in Nat \ {0}
  /\ Agents \subseteq Nat \ {0} /\ OfProject \subseteq Agents
  /\ MaxLevel \in Nat /\ MaxCost \in Nat /\ EnvCost \in 0..MaxCost
  /\ MaxEdits \in Nat /\ MaxExecutions \in Nat
  /\ MaxKeys \in Nat /\ TTL \in Nat /\ ReadTime \in Nat /\ MaxTime \in Nat

VARIABLES
  part,
  row, form, sent, tx, work, proof, blind, saves, clock,
  conf, snap, exec, peak, spent, accepted, edits, executions,
  provider, agents, dialog, removing, creating, readable, cache, reading, using,
  retired, keys, time

E == INSTANCE ConfigurationEdits
X == INSTANCE ExecutionInputs
A == INSTANCE ProviderAccounts

edited == <<row, form, sent, tx, work, proof, blind, saves, clock>>
executed == <<conf, snap, exec, peak, spent, accepted, edits, executions>>
account == <<provider, agents, dialog, removing, creating, readable, cache,
             reading, using, retired, keys, time>>
MCvars == <<part, vars, edited, executed, account>>

InitialOrder == <<p1, p2>>
\* Browsers do the same things; none of the other parts names them.
Symmetry == Permutations(Client) \cup Permutations(Admin)

MCInit == /\ part \in {"phases", "edits", "execution", "account"}
          /\ Init /\ E!Init /\ X!Init /\ A!Init
          /\ part # "execution" => conf.budget = 0 /\ ~conf.configured
                                   /\ conf.assigned = 0 /\ ~conf.codex
          /\ part # "phases" => \A p \in Phase : phase[p].status # "ACCEPTED"

MCNext ==
  /\ UNCHANGED part
  /\ \/ part = "phases" /\ Next /\ UNCHANGED <<edited, executed, account>>
     \/ part = "edits" /\ E!Next /\ UNCHANGED <<vars, executed, account>>
     \/ part = "execution" /\ X!Next /\ UNCHANGED <<vars, edited, account>>
     \/ part = "account" /\ A!Next /\ UNCHANGED <<vars, edited, executed>>

MCSpec == MCInit /\ [][MCNext]_MCvars

(***************************************************************************)
(* Phases (ProjectPlanning): the positions and the dependencies of a       *)
(* project's phases leave an order to work in, what an accepted phase has  *)
(* been built on stays accepted, the plan of a live planner run is still   *)
(* the plan its phases were planned under, and tasks stay within what the  *)
(* contract lets planners create.                                          *)
(***************************************************************************)
PlansStaySound ==
  part = "phases" =>
    /\ TypeOK
    /\ PositionsAreSound /\ PhasesCanBeOrdered /\ PrerequisitesStayAccepted
    /\ LivePlansStayCurrent /\ ChildrenFollowTheContract

(***************************************************************************)
(* Edits (ConfigurationEdits): none replaces what its author had not seen, *)
(* and live work keeps the inputs it started with.                         *)
(***************************************************************************)
EditsAreSeen ==
  part = "edits" =>
    /\ E!TypeOK
    /\ E!EditsReplaceWhatWasSeen /\ E!LiveWorkKeepsItsInputs

(***************************************************************************)
(* Executions (ExecutionInputs): the API and the worker select agents      *)
(* alike, and a frozen run runs with no more than it captured and spends   *)
(* no more than the budget it captured.                                    *)
(***************************************************************************)
FrozenInputsBind ==
  part = "execution" =>
    /\ X!TypeOK
    /\ X!SelectionsAgree /\ X!FrozenRunsOnlyNarrow /\ X!FrozenSpendFitsTheBudget

(***************************************************************************)
(* Accounts (ProviderAccounts): no agent loses its provider, and replaced  *)
(* keys go out of use.                                                     *)
(***************************************************************************)
AccountsStayUsable ==
  part = "account" =>
    /\ A!TypeOK
    /\ A!AgentsHaveProviders /\ A!RetiredKeysFade
=============================================================================
