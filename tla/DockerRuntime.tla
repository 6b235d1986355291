--------------------------- MODULE DockerRuntime ---------------------------
(***************************************************************************)
(* DockerContainerExecutionRuntime: the container of an agent run, from    *)
(* prepare() to release(), while cancel() calls and shutdown() arrive at   *)
(* any await.                                                              *)
(*                                                                         *)
(* The worker is single-threaded: an action runs from one await to the     *)
(* next. call[r] is the executor (prepare, run any number of times,        *)
(* release), cancelling the runs with a cancel() under way and shut the    *)
(* shutdown. Whoever awaits forceRemove(session) shares one docker rm.     *)
(***************************************************************************)
EXTENDS Naturals, FiniteSets

CONSTANT Run   \* run ids

VARIABLES
  call,         \* where the executor of the run is
  sessions,     \* keys of the sessions map
  preparing,    \* keys of the preparations map
  aborted,      \* sessions whose controller is aborted
  removed,      \* sessions with removed = TRUE
  secrets,      \* sessions that hold API keys
  box,          \* the container: "none", "created", "running" or "paused"
  agent,        \* runs with an agent process in the container
  cancel,       \* "idle", "prepared?" (awaits the preparation) or "remove"
  shut,         \* "no", "preparations", "remove" or "closed"
  awaited,      \* sessions whose removal shutdown awaits
  rejected,     \* the shutdown has failed
  lost          \* sessions of which a removal has failed
flags == <<sessions, preparing, aborted, removed, secrets>>
vars  == <<call, flags, box, agent, cancel, shut, awaited, rejected, lost>>

Init ==
  /\ call = [r \in Run |-> "new"]
  /\ sessions = {} /\ preparing = {} /\ aborted = {} /\ removed = {} /\ secrets = {}
  /\ box = [r \in Run |-> "none"] /\ agent = {}
  /\ cancel = [r \in Run |-> "idle"]
  /\ shut = "no" /\ awaited = {} /\ rejected = FALSE /\ lost = {}

-----------------------------------------------------------------------------
goto(r, place) == call' = [call EXCEPT ![r] = place]
boxIs(r, b)    == box' = [box EXCEPT ![r] = b]
others         == <<cancel, shut, awaited, rejected, lost>>

\* Places where somebody awaits forceRemove.
removing(r) == \/ call[r] \in {"cleanup", "runCleanup", "releasing"}
               \/ cancel[r] = "remove" \/ r \in awaited

\* What the checks of the signal and of the state see.
stopping(r) == r \in aborted \/ shut # "no"

(***************************************************************************)
(* prepare() and prepareSession().                                         *)
(***************************************************************************)
prepare(r) ==
  /\ call[r] = "new" /\ shut = "no"
  /\ goto(r, "mkdir") /\ preparing' = preparing \cup {r}
  /\ UNCHANGED <<sessions, aborted, removed, secrets, box, agent, others>>

\* The checks and the directories before there is a session.
PrepareRefused(r) ==
  /\ call[r] = "mkdir"
  /\ goto(r, "failed") /\ preparing' = preparing \ {r}
  /\ UNCHANGED <<sessions, aborted, removed, secrets, box, agent, others>>

\* catch: abort, clear the secrets, forceRemove.
prepareFails(r) ==
  /\ goto(r, "cleanup")
  /\ aborted' = aborted \cup {r} /\ secrets' = secrets \ {r}
  /\ UNCHANGED <<sessions, preparing, removed>>
prepareGoesOn(r, place) == goto(r, place) /\ UNCHANGED flags

OpenSession(r) ==
  /\ call[r] = "mkdir"
  /\ sessions' = sessions \cup {r}
  /\ IF shut # "no"
     THEN goto(r, "cleanup") /\ aborted' = aborted \cup {r} /\ UNCHANGED secrets
     ELSE goto(r, "git") /\ secrets' = secrets \cup {r} /\ UNCHANGED aborted
  /\ UNCHANGED <<preparing, removed, box, agent, others>>

ShadowGit(r) ==
  /\ call[r] = "git"
  /\ \/ ~stopping(r) /\ prepareGoesOn(r, "create")
     \/ prepareFails(r)
  /\ UNCHANGED <<box, agent, others>>

\* A docker command that fails may have done its work.
DockerCreate(r) ==
  /\ call[r] = "create"
  /\ \/ boxIs(r, "created") /\ prepareGoesOn(r, "start")
     \/ (boxIs(r, "created") \/ UNCHANGED box) /\ prepareFails(r)
  /\ UNCHANGED <<agent, others>>

DockerStart(r) ==
  /\ call[r] = "start"
  /\ \/ /\ boxIs(r, "running")
        /\ IF stopping(r) THEN prepareFails(r) ELSE prepareGoesOn(r, "pause")
     \/ (boxIs(r, "running") \/ UNCHANGED box) /\ prepareFails(r)
  /\ UNCHANGED <<agent, others>>

PausePrepared(r) ==
  /\ call[r] = "pause"
  /\ \/ /\ boxIs(r, "paused") /\ goto(r, "ready") /\ preparing' = preparing \ {r}
        /\ UNCHANGED <<sessions, aborted, removed, secrets>>
     \/ (boxIs(r, "paused") \/ UNCHANGED box) /\ prepareFails(r)
  /\ UNCHANGED <<agent, others>>

-----------------------------------------------------------------------------
(***************************************************************************)
(* run(): unpause, exec, pause; any failure removes the container.         *)
(***************************************************************************)
\* createInvocationDirectory() and the checks of run().
run(r) ==
  /\ call[r] = "ready"
  /\ goto(r, IF stopping(r) \/ r \notin sessions THEN "thrown" ELSE "unpause")
  /\ UNCHANGED <<flags, box, agent, others>>

runFails_keepsContainer(r) ==
  /\ goto(r, "thrown") /\ aborted' = aborted \cup {r}
  /\ UNCHANGED <<sessions, preparing, removed, secrets>>
runFails(r) ==
  /\ goto(r, "runCleanup") /\ aborted' = aborted \cup {r}
  /\ UNCHANGED <<sessions, preparing, removed, secrets>>

Unpause(r) ==
  /\ call[r] = "unpause"
  /\ \/ box[r] = "paused" /\ boxIs(r, "running") /\ goto(r, "exec") /\ UNCHANGED flags
     \/ /\ \/ box[r] = "paused" /\ boxIs(r, "running")
           \/ UNCHANGED box
        /\ runFails(r)
  /\ UNCHANGED <<agent, others>>

\* The client is not started under an aborted signal; else the agent runs.
ExecStart(r) ==
  /\ call[r] = "exec"
  /\ \/ /\ r \notin aborted /\ goto(r, "executing") /\ UNCHANGED flags
        /\ agent' = IF box[r] = "running" THEN agent \cup {r} ELSE agent
     \/ runFails(r) /\ UNCHANGED agent
  /\ UNCHANGED <<box, others>>

\* The client ends, with the agent or without: an abort or a timeout kills only
\* the client.
ExecEnds(r) ==
  /\ call[r] = "executing"
  /\ \/ goto(r, "repause") /\ (agent' = agent \ {r} \/ UNCHANGED agent) /\ UNCHANGED flags
     \/ runFails(r) /\ UNCHANGED agent
  /\ UNCHANGED <<box, others>>

\* Pause again, then check and scrub what the agent left.
PauseAgain(r) ==
  /\ call[r] = "repause"
  /\ \/ box[r] = "running" /\ boxIs(r, "paused") /\ goto(r, "ready") /\ UNCHANGED flags
     \/ /\ \/ box[r] = "running" /\ boxIs(r, "paused")
           \/ UNCHANGED box
        /\ runFails(r)
  /\ UNCHANGED <<agent, others>>

-----------------------------------------------------------------------------
(***************************************************************************)
(* release(), cancel() and shutdown().                                     *)
(***************************************************************************)
release_clearsLater(r) ==
  /\ call[r] \in {"ready", "thrown"}
  /\ IF r \in sessions
     THEN goto(r, "releasing") /\ aborted' = aborted \cup {r}
     ELSE goto(r, "done") /\ UNCHANGED aborted
  /\ UNCHANGED <<sessions, preparing, removed, secrets, box, agent, others>>
release(r) ==
  /\ call[r] \in {"ready", "thrown"}
  /\ IF r \in sessions
     THEN /\ goto(r, "releasing")
          /\ aborted' = aborted \cup {r} /\ secrets' = secrets \ {r}
     ELSE goto(r, "done") /\ UNCHANGED <<aborted, secrets>>
  /\ UNCHANGED <<sessions, preparing, removed, box, agent, others>>

cancelRun_atOnce(r) ==
  /\ cancel[r] = "idle" /\ r \in sessions
  /\ cancel' = [cancel EXCEPT ![r] = "remove"]
  /\ aborted' = aborted \cup {r}
  /\ UNCHANGED <<call, sessions, preparing, removed, secrets, box, agent, shut, awaited,
                 rejected, lost>>
cancelRun(r) ==
  /\ cancel[r] = "idle" /\ r \in sessions \cup preparing
  /\ cancel' = [cancel EXCEPT ![r] = IF r \in preparing THEN "prepared?" ELSE "remove"]
  /\ aborted' = IF r \in sessions THEN aborted \cup {r} ELSE aborted
  /\ UNCHANGED <<call, sessions, preparing, removed, secrets, box, agent, shut, awaited,
                 rejected, lost>>

CancelGoesOn_onlyWithSession(r) ==
  /\ cancel[r] = "prepared?" /\ r \in sessions \ preparing
  /\ cancel' = [cancel EXCEPT ![r] = "remove"] /\ aborted' = aborted \cup {r}
  /\ UNCHANGED <<call, sessions, preparing, removed, secrets, box, agent, shut, awaited,
                 rejected, lost>>
CancelGoesOn(r) ==
  /\ cancel[r] = "prepared?" /\ r \notin preparing
  /\ IF r \in sessions
     THEN cancel' = [cancel EXCEPT ![r] = "remove"] /\ aborted' = aborted \cup {r}
     ELSE cancel' = [cancel EXCEPT ![r] = "idle"] /\ UNCHANGED aborted
  /\ UNCHANGED <<call, sessions, preparing, removed, secrets, box, agent, shut, awaited,
                 rejected, lost>>

shutdown ==
  /\ shut = "no" /\ shut' = "preparations"
  /\ aborted' = aborted \cup sessions
  /\ UNCHANGED <<call, sessions, preparing, removed, secrets, box, agent, cancel, awaited,
                 rejected, lost>>

preparationsSettled_notAwaited == TRUE
preparationsSettled == preparing = {}

ShutdownRemoves ==
  /\ shut = "preparations" /\ preparationsSettled
  /\ shut' = "remove" /\ awaited' = sessions
  /\ aborted' = aborted \cup sessions /\ secrets' = secrets \ sessions
  /\ UNCHANGED <<call, sessions, preparing, removed, box, agent, cancel, rejected, lost>>

ShutdownCloses ==
  /\ shut = "remove" /\ awaited = {} /\ ~rejected /\ shut' = "closed"
  /\ UNCHANGED <<call, flags, box, agent, cancel, awaited, rejected, lost>>

-----------------------------------------------------------------------------
(***************************************************************************)
(* forceRemove(session): the docker rm ends and everyone who awaits it     *)
(* goes on, or gets its error. A session that is removed needs no docker   *)
(* rm; a container that does not exist counts as removed.                  *)
(***************************************************************************)
afterRemoval == [cleanup |-> "failed", runCleanup |-> "thrown", releasing |-> "done"]
resumed(r) == IF call[r] \in DOMAIN afterRemoval THEN afterRemoval[call[r]] ELSE call[r]
settles_keepsPreparation(r) ==
  /\ goto(r, resumed(r))
  /\ cancel' = [cancel EXCEPT ![r] = IF @ = "remove" THEN "idle" ELSE @]
  /\ awaited' = awaited \ {r}
  /\ UNCHANGED <<preparing, aborted, secrets, shut>>
settles(r) ==
  /\ goto(r, resumed(r))
  /\ preparing' = IF call[r] = "cleanup" THEN preparing \ {r} ELSE preparing
  /\ cancel' = [cancel EXCEPT ![r] = IF @ = "remove" THEN "idle" ELSE @]
  /\ awaited' = awaited \ {r}
  /\ UNCHANGED <<aborted, secrets, shut>>

RemovalDone(r) ==
  /\ removing(r)
  /\ removed' = removed \cup {r} /\ agent' = agent \ {r} /\ UNCHANGED <<rejected, lost>>
  /\ IF r \in removed THEN UNCHANGED box ELSE boxIs(r, "none")
  /\ sessions' = IF call[r] \in {"cleanup", "releasing"} \/ r \in awaited
                 THEN sessions \ {r} ELSE sessions
  /\ settles(r)

\* The session stays in the map, for whoever tries again. The docker rm may
\* have worked and its client timed out.
RemovalFails(r) ==
  /\ removing(r) /\ r \notin removed
  /\ lost' = lost \cup {r} /\ rejected' = (rejected \/ r \in awaited)
  /\ settles(r)
  /\ \/ boxIs(r, "none") /\ agent' = agent \ {r}
     \/ UNCHANGED <<box, agent>>
  /\ UNCHANGED <<sessions, removed>>

-----------------------------------------------------------------------------
Execute(r) ==
  \/ prepare(r) \/ PrepareRefused(r) \/ OpenSession(r) \/ ShadowGit(r)
  \/ DockerCreate(r) \/ DockerStart(r) \/ PausePrepared(r)
  \/ run(r) \/ Unpause(r) \/ ExecStart(r) \/ ExecEnds(r) \/ PauseAgain(r) \/ release(r)
Removal(r) == RemovalDone(r) \/ RemovalFails(r)

Next ==
  \/ \E r \in Run : Execute(r) \/ Removal(r) \/ cancelRun(r) \/ CancelGoesOn(r)
  \/ shutdown \/ ShutdownRemoves \/ ShutdownCloses

\* Every command ends, by its timeout if need be, and what awaits it goes on.
\* The executor need not start, nor run() be called rather than release().
Awaiting(r) == call[r] \notin {"new", "ready"} /\ Execute(r)
Spec ==
  /\ Init /\ [][Next]_vars
  /\ \A r \in Run : WF_vars(Awaiting(r)) /\ WF_vars(Removal(r)) /\ WF_vars(CancelGoesOn(r))
  /\ WF_vars(ShutdownRemoves) /\ WF_vars(ShutdownCloses)

-----------------------------------------------------------------------------
\* The preparations map has the runs whose prepareSession() has not settled.
Preparation == {"mkdir", "git", "create", "start", "pause", "cleanup"}

TypeOK ==
  /\ call \in [Run -> {"new", "mkdir", "git", "create", "start", "pause", "cleanup",
                       "ready", "unpause", "exec", "executing", "repause", "runCleanup",
                       "thrown", "releasing", "failed", "done"}]
  /\ preparing = {r \in Run : call[r] \in Preparation}
  /\ sessions \subseteq Run /\ aborted \subseteq Run
  /\ removed \subseteq Run /\ secrets \subseteq Run /\ agent \subseteq Run
  /\ box \in [Run -> {"none", "created", "running", "paused"}]
  /\ cancel \in [Run -> {"idle", "prepared?", "remove"}]
  /\ shut \in {"no", "preparations", "remove", "closed"}
  /\ awaited \subseteq Run /\ rejected \in BOOLEAN /\ lost \subseteq Run

(***************************************************************************)
(* No container escapes: as long as it exists its session is in the map    *)
(* and not marked removed, so that the next cancel(), release() or         *)
(* shutdown() still runs docker rm on it.                                  *)
(***************************************************************************)
NoOrphanContainers == \A r \in Run : box[r] # "none" => r \in sessions \ removed

(***************************************************************************)
(* API keys do not outlive the executor's interest in them, even when the  *)
(* container cannot be removed.                                            *)
(***************************************************************************)
SecretsAreCleared ==
  \A r \in Run : r \in secrets => r \in sessions /\ call[r] \notin {"failed", "done"}

(***************************************************************************)
(* While run() is not under way no agent is running: its container is      *)
(* paused or gone, unless docker refused to remove it.                     *)
(***************************************************************************)
NoAgentRunsUnattended ==
  \A r \in Run :
    call[r] \in {"ready", "thrown", "failed", "done"} /\ box[r] = "running" /\ r \in agent
      => r \in lost

(***************************************************************************)
(* A runtime that is closed has left no container and no session, though   *)
(* preparations and removals were under way when the signal came.          *)
(***************************************************************************)
ShutdownIsClean ==
  shut = "closed" => sessions = {} /\ \A r \in Run : box[r] = "none"

(***************************************************************************)
(* Together: no container and no agent in one escapes the runtime.         *)
(***************************************************************************)
NoContainerEscapes == TypeOK /\ NoOrphanContainers /\ NoAgentRunsUnattended /\ ShutdownIsClean

(***************************************************************************)
(* The promises that await each other (cancel the preparation, shutdown    *)
(* all preparations, everyone the removal) settle: a shutdown ends, closed *)
(* or with an error, and so does every cancel().                           *)
(***************************************************************************)
AwaitsSettle ==
  /\ \A r \in Run : cancel[r] # "idle" ~> cancel[r] = "idle"
  /\ shut # "no" ~> shut = "closed" \/ rejected
=============================================================================
