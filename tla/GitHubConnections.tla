-------------------------- MODULE GitHubConnections -------------------------
(***************************************************************************)
(* Connecting organizations with GitHub (the github module of the API):    *)
(* authorizations with a single-use state, the installations they bind to  *)
(* an organization, the repositories imported from them, and the webhooks  *)
(* that follow suspensions and changes of an installation's repositories.  *)
(* Requests of several administrators overlap at every query.              *)
(*                                                                         *)
(* attempt[a]  an authorization attempt: its organization, consumed or not *)
(* exchanged   attempts that went on to GitHub, one entry per request      *)
(* github      one installation there: suspended, its repositories         *)
(* inst        the row: the organization it is bound to, suspendedAt       *)
(* owners      organizations the row ever was bound to                     *)
(* link[r]     the repositories row: organization and status               *)
(* projects    projects created by imports                                 *)
(* req[q]      a request under way, with what it has read                  *)
(* hooks       webhooks on their way                                       *)
(* raced       links whose request or webhook was overtaken by a change    *)
(* out         repositories last reported as removed                       *)
(* revived     links a webhook connected although another had said the     *)
(*             repository was removed or the installation suspended        *)
(***************************************************************************)
EXTENDS Integers, Sequences, FiniteSets

CONSTANTS
  Organization, Remote, \* organizations; repositories of the installation
  Request,              \* concurrent requests
  MaxRequests,          \* requests made
  MaxTurns              \* changes of the installation on GitHub

VARIABLES attempt, exchanged, github, inst, owners, link, projects, req,
          requests, hooks, turns, raced, out, revived

ghVars == <<attempt, exchanged, github, inst, owners, link, projects, req,
            requests, hooks, turns, raced, out, revived>>

NoOrg == "none"
Quiet == [pc |-> "idle", org |-> NoOrg, repo |-> CHOOSE r \in Remote : TRUE,
          suspended |-> FALSE, exists |-> FALSE]

GhInit ==
  /\ attempt = [o \in Organization |-> "none"] /\ exchanged = [o \in Organization |-> 0]
  /\ github = [suspended |-> FALSE, repos |-> Remote]
  /\ inst = [org |-> NoOrg, suspended |-> FALSE] /\ owners = {}
  /\ link = [r \in Remote |-> [org |-> NoOrg, status |-> "none"]]
  /\ projects = [r \in Remote |-> 0]
  /\ req = [q \in Request |-> Quiet] /\ requests = 0
  /\ hooks = <<>> /\ turns = 0 /\ raced = {}
  /\ out = {} /\ revived = {}

at(q, pc) == req[q].pc = pc
rest(q) == req' = [req EXCEPT ![q] = Quiet]
-----------------------------------------------------------------------------
(* The installation on GitHub. *)

turn(g, hook) ==
  /\ turns < MaxTurns /\ turns' = turns + 1
  /\ github' = g /\ hooks' = Append(hooks, hook)
  \* What requests have read of it is out of date.
  /\ raced' = raced \cup
       (IF \E q \in Request : req[q].pc # "idle" THEN Remote ELSE {})
  /\ UNCHANGED <<attempt, exchanged, inst, owners, link, projects, req,
                 requests, out, revived>>

Suspend == ~github.suspended /\ turn([github EXCEPT !.suspended = TRUE], <<"suspend">>)
Unsuspend == github.suspended /\ turn([github EXCEPT !.suspended = FALSE], <<"unsuspend">>)
AddRepository(r) ==
  /\ r \notin github.repos
  /\ turn([github EXCEPT !.repos = @ \cup {r}], <<"added", r>>)
RemoveRepository(r) ==
  /\ r \in github.repos
  /\ turn([github EXCEPT !.repos = @ \ {r}], <<"removed", r>>)
-----------------------------------------------------------------------------
(* Authorization. *)

\* An owner or administrator asks for a state to take to GitHub.
startAuthorization(o) ==
  /\ attempt[o] = "none" /\ attempt' = [attempt EXCEPT ![o] = "issued"]
  /\ UNCHANGED <<exchanged, github, inst, owners, link, projects, req,
                 requests, hooks, turns, raced, out, revived>>

consume_unchecked(q, o) ==
  /\ at(q, "idle") /\ requests < MaxRequests /\ attempt[o] # "none"
  /\ requests' = requests + 1
  /\ attempt' = [attempt EXCEPT ![o] = "consumed"]
  /\ req' = [req EXCEPT ![q] = [Quiet EXCEPT !.pc = "exchange", !.org = o]]
  /\ UNCHANGED <<exchanged, github, inst, owners, link, projects, hooks,
                 turns, raced, out, revived>>

\* The callback consumes the state, if nobody did and it has not expired.
consume(q, o) ==
  /\ at(q, "idle") /\ requests < MaxRequests /\ attempt[o] = "issued"
  /\ requests' = requests + 1
  /\ attempt' = [attempt EXCEPT ![o] = "consumed"]
  /\ req' = [req EXCEPT ![q] = [Quiet EXCEPT !.pc = "exchange", !.org = o]]
  /\ UNCHANGED <<exchanged, github, inst, owners, link, projects, hooks,
                 turns, raced, out, revived>>

\* Code exchange, the user's installations and the installation itself. A
\* failure ends the request; the state stays consumed.
completeAuthorization(q) ==
  /\ at(q, "exchange")
  /\ exchanged' = [exchanged EXCEPT ![req[q].org] = @ + 1]
  /\ \/ rest(q)
     \/ req' = [req EXCEPT ![q].pc = "persist", ![q].suspended = github.suspended]
  /\ UNCHANGED <<attempt, github, inst, owners, link, projects, requests,
                 hooks, turns, raced, out, revived>>

\* An installation of another organization is refused.
persistInstallation(q) ==
  /\ at(q, "persist")
  /\ IF inst.org \in {NoOrg, req[q].org}
     THEN req' = [req EXCEPT ![q].pc = "save", ![q].exists = inst.org # NoOrg]
     ELSE rest(q)
  /\ UNCHANGED <<attempt, exchanged, github, inst, owners, link, projects,
                 requests, hooks, turns, raced, out, revived>>

saveInstallation_upsert(q) ==
  /\ at(q, "save") /\ rest(q)
  /\ inst' = [org |-> req[q].org, suspended |-> req[q].suspended]
  /\ owners' = owners \cup {req[q].org}
  /\ UNCHANGED <<attempt, exchanged, github, link, projects, requests, hooks,
                 turns, raced, out, revived>>

\* Created, or updated without its organization. A row that somebody created
\* meanwhile is read again, and refused if it is another organization's.
saveInstallation(q) ==
  /\ at(q, "save") /\ rest(q)
  /\ IF inst.org \in {NoOrg, req[q].org}
     THEN /\ inst' = [org |-> req[q].org, suspended |-> req[q].suspended]
          /\ owners' = owners \cup {req[q].org}
     ELSE UNCHANGED <<inst, owners>>
  /\ UNCHANGED <<attempt, exchanged, github, link, projects, requests, hooks,
                 turns, raced, out, revived>>
-----------------------------------------------------------------------------
(* Imports. *)

\* requireInstallation: of the organization, and not suspended.
importRepository(q, o, r) ==
  /\ at(q, "idle") /\ requests < MaxRequests
  /\ inst.org = o /\ ~inst.suspended
  /\ requests' = requests + 1
  /\ req' = [req EXCEPT ![q] = [Quiet EXCEPT !.pc = "list", !.org = o, !.repo = r]]
  /\ UNCHANGED <<attempt, exchanged, github, inst, owners, link, projects,
                 hooks, turns, raced, out, revived>>

\* GitHub lists the repositories of the installation, then an earlier import
\* is looked for.
listInstallationRepositories(q) ==
  /\ at(q, "list")
  /\ IF req[q].repo \in github.repos /\ ~github.suspended
        /\ link[req[q].repo].org = NoOrg
     THEN req' = [req EXCEPT ![q].pc = "insert"] ELSE rest(q)
  /\ UNCHANGED <<attempt, exchanged, github, inst, owners, link, projects,
                 requests, hooks, turns, raced, out, revived>>

insertProject_separately(q) ==
  LET r == req[q].repo
  IN /\ at(q, "insert") /\ rest(q)
     /\ projects' = [projects EXCEPT ![r] = @ + 1]
     /\ link' = IF link[r].org # NoOrg THEN link
                ELSE [link EXCEPT ![r] = [org |-> req[q].org, status |-> "CONNECTED"]]
     /\ UNCHANGED <<attempt, exchanged, github, inst, owners, requests, hooks,
                    turns, raced, out, revived>>

\* Project and repository in one transaction, undone when the repository
\* turns out to be imported already; a conflict of names undoes it too.
insertProject(q) ==
  LET r == req[q].repo
  IN /\ at(q, "insert") /\ rest(q)
     /\ \/ UNCHANGED <<projects, link>>
        \/ /\ link[r].org = NoOrg
           /\ projects' = [projects EXCEPT ![r] = @ + 1]
           /\ link' = [link EXCEPT ![r] = [org |-> req[q].org,
                                           status |-> "CONNECTED"]]
     /\ UNCHANGED <<attempt, exchanged, github, inst, owners, requests, hooks,
                    turns, raced, out, revived>>
-----------------------------------------------------------------------------
(* Webhooks: a hook of an installation that is not bound is ignored. *)

status(links, s) ==
  [r \in Remote |-> IF r \in links /\ link[r].org # NoOrg
                    THEN [link[r] EXCEPT !.status = s] ELSE link[r]]

suspension_rowOnly(action) ==
  inst' = [inst EXCEPT !.suspended = (action = "suspend")] /\ UNCHANGED link

\* All repositories of the installation follow its suspension.
suspension(action) ==
  /\ inst' = [inst EXCEPT !.suspended = (action = "suspend")]
  /\ link' = status(Remote, IF action = "suspend" THEN "DISCONNECTED" ELSE "CONNECTED")

syncInstallationRepositories(action, r) ==
  /\ link' = status({r}, IF action = "added" THEN "CONNECTED" ELSE "DISCONNECTED")
  /\ UNCHANGED inst

remaining(k) == SubSeq(hooks, 1, k - 1) \o SubSeq(hooks, k + 1, Len(hooks))
overtaken(k) == IF k > 1 THEN Remote ELSE {}

\* Webhooks come in any order.
processGitHubEvent(k) ==
  /\ k \in DOMAIN hooks /\ hooks' = remaining(k) /\ raced' = raced \cup overtaken(k)
  /\ IF inst.org = NoOrg THEN UNCHANGED <<inst, link, out, revived>>
     ELSE IF hooks[k][1] \in {"suspend", "unsuspend"}
     THEN /\ suspension(hooks[k][1]) /\ UNCHANGED out
          /\ revived' = IF hooks[k][1] = "suspend" THEN {} ELSE out
     ELSE /\ syncInstallationRepositories(hooks[k][1], hooks[k][2])
          /\ LET r == {hooks[k][2]}
             IN IF hooks[k][1] = "added"
                THEN /\ out' = out \ r
                     /\ revived' = IF inst.suspended THEN revived \cup r
                                   ELSE revived \ r
                ELSE out' = out \cup r /\ revived' = revived \ r
  /\ UNCHANGED <<attempt, exchanged, github, owners, projects, req, requests, turns>>

\* A webhook is lost.
LoseHook(k) ==
  /\ k \in DOMAIN hooks /\ hooks' = remaining(k) /\ raced' = Remote
  /\ UNCHANGED <<attempt, exchanged, github, inst, owners, link, projects, req,
                 requests, turns, out, revived>>
-----------------------------------------------------------------------------
GhNext ==
  \/ Suspend \/ Unsuspend
  \/ \E r \in Remote : AddRepository(r) \/ RemoveRepository(r)
  \/ \E o \in Organization : startAuthorization(o)
  \/ \E q \in Request :
       \/ \E o \in Organization :
            consume(q, o) \/ (\E r \in Remote : importRepository(q, o, r))
       \/ completeAuthorization(q) \/ persistInstallation(q)
       \/ saveInstallation(q) \/ listInstallationRepositories(q)
       \/ insertProject(q)
  \/ \E k \in 1..MaxTurns : processGitHubEvent(k) \/ LoseHook(k)

GhSpec == GhInit /\ [][GhNext]_ghVars
-----------------------------------------------------------------------------
(* Properties *)

\* Types of the connection's state.
TypeOK ==
  /\ attempt \in [Organization -> {"none", "issued", "consumed"}]
  /\ github.repos \subseteq Remote /\ github.suspended \in BOOLEAN
  /\ inst.org \in Organization \cup {NoOrg} /\ inst.suspended \in BOOLEAN
  /\ owners \subseteq Organization /\ raced \subseteq Remote /\ revived \subseteq Remote
  /\ \A r \in Remote : /\ link[r].org \in Organization \cup {NoOrg}
                       /\ link[r].status \in {"none", "CONNECTED", "DISCONNECTED"}
  /\ \A q \in Request : req[q].pc \in {"idle", "exchange", "persist", "save",
                                       "list", "insert"}

\* A state is good for one authorization, however many callbacks bring it
\* (completeAuthorization).
StatesAreUsedOnce == \A o \in Organization : exchanged[o] <= 1

\* An installation stays with the organization that bound it first, whoever
\* connects at the same time, and every repository imported from it is that
\* organization's (persistInstallation).
InstallationsStayBound ==
  /\ Cardinality(owners) <= 1
  /\ \A r \in Remote : link[r].org \in owners \cup {NoOrg}

\* A repository has one project, however many imports of it overlap
\* (importRepository).
OneProjectPerRepository == \A r \in Remote : projects[r] <= 1

\* With all webhooks handled, a connected repository is one the App can
\* reach, unless a request or a webhook was overtaken, or one webhook
\* connected what another had disconnected for its own reason: the end of a
\* suspension a repository removed before, or an addition one of a suspended
\* installation (processGitHubEvent).
ConnectedIsReachable ==
  \A r \in Remote :
    (/\ hooks = <<>> /\ link[r].status = "CONNECTED"
     /\ r \notin raced \cup revived)
      => (r \in github.repos /\ ~github.suspended)
=============================================================================
