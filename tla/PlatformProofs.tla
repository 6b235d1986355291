--------------------------- MODULE PlatformProofs ---------------------------
(***************************************************************************)
(* Proofs about what the services stand on: the containers and the host    *)
(* processes that agents run in (MCProgress), the schema of the database   *)
(* and its history, and the cache of the web application (MCPlatform); for *)
(* any containers, migrations and deployers, whatever fails, any bounds.   *)
(***************************************************************************)
EXTENDS MCProgress, MCPlatform, FiniteSetTheorems, SequenceTheorems, TLAPS

(***************************************************************************)
(* The inductive invariant. Only the preparation makes the container, and  *)
(* nobody but its own catch removes anything while it lasts: a container   *)
(* that is marked removed cannot come back.                                *)
(***************************************************************************)
Unopened == {"new", "mkdir"}
Opened   == {"git", "create", "start", "pause", "cleanup"}

RunInv(r) ==
  /\ call[r] \in Unopened => r \notin sessions /\ r \notin secrets
  /\ call[r] \in Opened => r \in sessions
  /\ call[r] \in Unopened \cup Opened => r \notin removed
  /\ call[r] \in Unopened \cup {"git"} => box[r] = "none"
  /\ box[r] # "none" => r \in sessions /\ r \notin removed
  /\ call[r] \in {"ready", "thrown", "releasing", "failed", "done"} =>
       box[r] # "running" \/ r \in lost
  /\ r \in preparing => cancel[r] # "remove" /\ r \notin awaited
  /\ cancel[r] = "remove" => call[r] # "new"
  /\ r \in awaited => r \in sessions /\ r \notin secrets
  /\ r \in secrets => /\ r \in sessions
                      /\ call[r] \notin {"cleanup", "releasing", "failed", "done"}

\* Once shutdown has seen the preparations settle no session is opened, and it
\* awaits every one there is, or has failed.
ShutInv ==
  /\ awaited # {} => shut = "remove"
  /\ shut \in {"remove", "closed"} =>
       preparing = {} /\ (sessions \subseteq awaited \/ rejected)
  /\ shut \in {"no", "preparations"} => ~rejected
  /\ shut = "closed" => ~rejected

ContainerInv == D!TypeOK /\ (\A r \in Container : RunInv(r)) /\ ShutInv

-----------------------------------------------------------------------------
(***************************************************************************)
(* A step of one run leaves the others alone.                              *)
(***************************************************************************)
Kept(b) ==
  /\ call'[b] = call[b] /\ box'[b] = box[b] /\ cancel'[b] = cancel[b]
  /\ b \in sessions' <=> b \in sessions
  /\ b \in preparing' <=> b \in preparing
  /\ b \in removed' <=> b \in removed
  /\ b \in secrets' <=> b \in secrets
  /\ b \in awaited' <=> b \in awaited
  /\ b \in lost' <=> b \in lost

LEMMA Frame ==
  ASSUME NEW b \in Container, RunInv(b), Kept(b)
  PROVE  RunInv(b)'
BY DEF RunInv, Kept

LEMMA OneRun ==
  ASSUME ContainerInv, NEW r \in Container, D!TypeOK', RunInv(r)', ShutInv',
         \A b \in Container \ {r} : Kept(b)
  PROVE  ContainerInv'
<1>1. ASSUME NEW b \in Container PROVE RunInv(b)'
  <2>1. CASE b = r BY <2>1
  <2>2. CASE b # r BY <2>2, Frame DEF ContainerInv
  <2> QED BY <2>1, <2>2
<1> QED BY <1>1 DEF ContainerInv

LEMMA Keeps_prepare ==
  ASSUME ContainerInv, NEW r \in Container, D!prepare(r)
  PROVE  ContainerInv'
<1> USE DEF ContainerInv
<1>1. D!TypeOK'
  BY DEF D!TypeOK, D!prepare, D!goto, D!flags, D!others, D!Preparation
<1>2. RunInv(r)'
  BY DEF D!TypeOK, RunInv, ShutInv, D!prepare, D!goto, D!flags, D!others,
         D!Preparation, Unopened, Opened
<1>3. ShutInv'
  BY DEF D!TypeOK, RunInv, ShutInv, D!prepare, D!goto, D!flags, D!others,
         D!Preparation, Unopened, Opened
<1>4. \A b \in Container \ {r} : Kept(b)
  BY DEF D!TypeOK, Kept, D!prepare, D!goto, D!flags, D!others
<1> QED BY <1>1, <1>2, <1>3, <1>4, OneRun

LEMMA Keeps_PrepareRefused ==
  ASSUME ContainerInv, NEW r \in Container, D!PrepareRefused(r)
  PROVE  ContainerInv'
<1> USE DEF ContainerInv
<1>1. D!TypeOK'
  BY DEF D!TypeOK, D!PrepareRefused, D!goto, D!flags, D!others, D!Preparation
<1>2. RunInv(r)'
  BY DEF D!TypeOK, RunInv, ShutInv, D!PrepareRefused, D!goto, D!flags, D!others,
         D!Preparation, Unopened, Opened
<1>3. ShutInv'
  BY DEF D!TypeOK, RunInv, ShutInv, D!PrepareRefused, D!goto, D!flags, D!others,
         D!Preparation, Unopened, Opened
<1>4. \A b \in Container \ {r} : Kept(b)
  BY DEF D!TypeOK, Kept, D!PrepareRefused, D!goto, D!flags, D!others
<1> QED BY <1>1, <1>2, <1>3, <1>4, OneRun

LEMMA Keeps_OpenSession ==
  ASSUME ContainerInv, NEW r \in Container, D!OpenSession(r)
  PROVE  ContainerInv'
<1> USE DEF ContainerInv
<1>1. D!TypeOK'
  BY DEF D!TypeOK, D!OpenSession, D!goto, D!flags, D!others, D!Preparation
<1>2. RunInv(r)'
  BY DEF D!TypeOK, RunInv, ShutInv, D!OpenSession, D!goto, D!flags, D!others,
         D!Preparation, Unopened, Opened
<1>3. ShutInv'
  BY DEF D!TypeOK, RunInv, ShutInv, D!OpenSession, D!goto, D!flags, D!others,
         D!Preparation, Unopened, Opened
<1>4. \A b \in Container \ {r} : Kept(b)
  BY DEF D!TypeOK, Kept, D!OpenSession, D!goto, D!flags, D!others
<1> QED BY <1>1, <1>2, <1>3, <1>4, OneRun

LEMMA Keeps_ShadowGit ==
  ASSUME ContainerInv, NEW r \in Container, D!ShadowGit(r)
  PROVE  ContainerInv'
<1> USE DEF ContainerInv
<1>1. D!TypeOK'
  BY DEF D!TypeOK, D!ShadowGit, D!prepareFails, D!prepareGoesOn, D!goto, D!flags,
         D!others, D!Preparation
<1>2. RunInv(r)'
  BY DEF D!TypeOK, RunInv, ShutInv, D!ShadowGit, D!prepareFails, D!prepareGoesOn,
         D!goto, D!flags, D!others, D!Preparation, Unopened, Opened
<1>3. ShutInv'
  BY DEF D!TypeOK, RunInv, ShutInv, D!ShadowGit, D!prepareFails, D!prepareGoesOn,
         D!goto, D!flags, D!others, D!Preparation, Unopened, Opened
<1>4. \A b \in Container \ {r} : Kept(b)
  BY DEF D!TypeOK, Kept, D!ShadowGit, D!prepareFails, D!prepareGoesOn, D!goto,
         D!flags, D!others
<1> QED BY <1>1, <1>2, <1>3, <1>4, OneRun

LEMMA Keeps_DockerCreate ==
  ASSUME ContainerInv, NEW r \in Container, D!DockerCreate(r)
  PROVE  ContainerInv'
<1> USE DEF ContainerInv
<1>1. D!TypeOK'
  BY DEF D!TypeOK, D!DockerCreate, D!prepareFails, D!prepareGoesOn, D!goto, D!boxIs,
         D!flags, D!others, D!Preparation
<1>2. RunInv(r)'
  BY DEF D!TypeOK, RunInv, ShutInv, D!DockerCreate, D!prepareFails, D!prepareGoesOn,
         D!goto, D!boxIs, D!flags, D!others, D!Preparation, Unopened, Opened
<1>3. ShutInv'
  BY DEF D!TypeOK, RunInv, ShutInv, D!DockerCreate, D!prepareFails, D!prepareGoesOn,
         D!goto, D!boxIs, D!flags, D!others, D!Preparation, Unopened, Opened
<1>4. \A b \in Container \ {r} : Kept(b)
  BY DEF D!TypeOK, Kept, D!DockerCreate, D!prepareFails, D!prepareGoesOn, D!goto,
         D!boxIs, D!flags, D!others
<1> QED BY <1>1, <1>2, <1>3, <1>4, OneRun

LEMMA Keeps_DockerStart ==
  ASSUME ContainerInv, NEW r \in Container, D!DockerStart(r)
  PROVE  ContainerInv'
<1> USE DEF ContainerInv
<1>1. D!TypeOK'
  BY DEF D!TypeOK, D!DockerStart, D!prepareFails, D!prepareGoesOn, D!goto, D!boxIs,
         D!flags, D!others, D!Preparation
<1>2. RunInv(r)'
  BY DEF D!TypeOK, RunInv, ShutInv, D!DockerStart, D!prepareFails, D!prepareGoesOn,
         D!goto, D!boxIs, D!flags, D!others, D!Preparation, Unopened, Opened
<1>3. ShutInv'
  BY DEF D!TypeOK, RunInv, ShutInv, D!DockerStart, D!prepareFails, D!prepareGoesOn,
         D!goto, D!boxIs, D!flags, D!others, D!Preparation, Unopened, Opened
<1>4. \A b \in Container \ {r} : Kept(b)
  BY DEF D!TypeOK, Kept, D!DockerStart, D!prepareFails, D!prepareGoesOn, D!goto,
         D!boxIs, D!flags, D!others
<1> QED BY <1>1, <1>2, <1>3, <1>4, OneRun

LEMMA Keeps_PausePrepared ==
  ASSUME ContainerInv, NEW r \in Container, D!PausePrepared(r)
  PROVE  ContainerInv'
<1> USE DEF ContainerInv
<1>1. D!TypeOK'
  BY DEF D!TypeOK, D!PausePrepared, D!prepareFails, D!prepareGoesOn, D!goto, D!boxIs,
         D!flags, D!others, D!Preparation
<1>2. RunInv(r)'
  BY DEF D!TypeOK, RunInv, ShutInv, D!PausePrepared, D!prepareFails, D!prepareGoesOn,
         D!goto, D!boxIs, D!flags, D!others, D!Preparation, Unopened, Opened
<1>3. ShutInv'
  BY DEF D!TypeOK, RunInv, ShutInv, D!PausePrepared, D!prepareFails, D!prepareGoesOn,
         D!goto, D!boxIs, D!flags, D!others, D!Preparation, Unopened, Opened
<1>4. \A b \in Container \ {r} : Kept(b)
  BY DEF D!TypeOK, Kept, D!PausePrepared, D!prepareFails, D!prepareGoesOn, D!goto,
         D!boxIs, D!flags, D!others
<1> QED BY <1>1, <1>2, <1>3, <1>4, OneRun

LEMMA Keeps_run ==
  ASSUME ContainerInv, NEW r \in Container, D!run(r)
  PROVE  ContainerInv'
<1> USE DEF ContainerInv
<1>1. D!TypeOK'
  BY DEF D!TypeOK, D!run, D!goto, D!flags, D!others, D!Preparation
<1>2. RunInv(r)'
  BY DEF D!TypeOK, RunInv, ShutInv, D!run, D!goto, D!flags, D!others, D!Preparation,
         Unopened, Opened
<1>3. ShutInv'
  BY DEF D!TypeOK, RunInv, ShutInv, D!run, D!goto, D!flags, D!others, D!Preparation,
         Unopened, Opened
<1>4. \A b \in Container \ {r} : Kept(b)
  BY DEF D!TypeOK, Kept, D!run, D!goto, D!flags, D!others
<1> QED BY <1>1, <1>2, <1>3, <1>4, OneRun

LEMMA Keeps_Unpause ==
  ASSUME ContainerInv, NEW r \in Container, D!Unpause(r)
  PROVE  ContainerInv'
<1> USE DEF ContainerInv
<1>1. D!TypeOK'
  BY DEF D!TypeOK, D!Unpause, D!runFails, D!goto, D!boxIs, D!flags, D!others,
         D!Preparation
<1>2. RunInv(r)'
  BY DEF D!TypeOK, RunInv, ShutInv, D!Unpause, D!runFails, D!goto, D!boxIs, D!flags,
         D!others, D!Preparation, Unopened, Opened
<1>3. ShutInv'
  BY DEF D!TypeOK, RunInv, ShutInv, D!Unpause, D!runFails, D!goto, D!boxIs, D!flags,
         D!others, D!Preparation, Unopened, Opened
<1>4. \A b \in Container \ {r} : Kept(b)
  BY DEF D!TypeOK, Kept, D!Unpause, D!runFails, D!goto, D!boxIs, D!flags, D!others
<1> QED BY <1>1, <1>2, <1>3, <1>4, OneRun

LEMMA Keeps_ExecStart ==
  ASSUME ContainerInv, NEW r \in Container, D!ExecStart(r)
  PROVE  ContainerInv'
<1> USE DEF ContainerInv
<1>1. D!TypeOK'
  BY DEF D!TypeOK, D!ExecStart, D!runFails, D!goto, D!flags, D!others, D!Preparation
<1>2. RunInv(r)'
  BY DEF D!TypeOK, RunInv, ShutInv, D!ExecStart, D!runFails, D!goto, D!flags,
         D!others, D!Preparation, Unopened, Opened
<1>3. ShutInv'
  BY DEF D!TypeOK, RunInv, ShutInv, D!ExecStart, D!runFails, D!goto, D!flags,
         D!others, D!Preparation, Unopened, Opened
<1>4. \A b \in Container \ {r} : Kept(b)
  BY DEF D!TypeOK, Kept, D!ExecStart, D!runFails, D!goto, D!flags, D!others
<1> QED BY <1>1, <1>2, <1>3, <1>4, OneRun

LEMMA Keeps_ExecEnds ==
  ASSUME ContainerInv, NEW r \in Container, D!ExecEnds(r)
  PROVE  ContainerInv'
<1> USE DEF ContainerInv
<1>1. D!TypeOK'
  BY DEF D!TypeOK, D!ExecEnds, D!runFails, D!goto, D!flags, D!others, D!Preparation
<1>2. RunInv(r)'
  BY DEF D!TypeOK, RunInv, ShutInv, D!ExecEnds, D!runFails, D!goto, D!flags, D!others,
         D!Preparation, Unopened, Opened
<1>3. ShutInv'
  BY DEF D!TypeOK, RunInv, ShutInv, D!ExecEnds, D!runFails, D!goto, D!flags, D!others,
         D!Preparation, Unopened, Opened
<1>4. \A b \in Container \ {r} : Kept(b)
  BY DEF D!TypeOK, Kept, D!ExecEnds, D!runFails, D!goto, D!flags, D!others
<1> QED BY <1>1, <1>2, <1>3, <1>4, OneRun

LEMMA Keeps_PauseAgain ==
  ASSUME ContainerInv, NEW r \in Container, D!PauseAgain(r)
  PROVE  ContainerInv'
<1> USE DEF ContainerInv
<1>1. D!TypeOK'
  BY DEF D!TypeOK, D!PauseAgain, D!runFails, D!goto, D!boxIs, D!flags, D!others,
         D!Preparation
<1>2. RunInv(r)'
  BY DEF D!TypeOK, RunInv, ShutInv, D!PauseAgain, D!runFails, D!goto, D!boxIs,
         D!flags, D!others, D!Preparation, Unopened, Opened
<1>3. ShutInv'
  BY DEF D!TypeOK, RunInv, ShutInv, D!PauseAgain, D!runFails, D!goto, D!boxIs,
         D!flags, D!others, D!Preparation, Unopened, Opened
<1>4. \A b \in Container \ {r} : Kept(b)
  BY DEF D!TypeOK, Kept, D!PauseAgain, D!runFails, D!goto, D!boxIs, D!flags, D!others
<1> QED BY <1>1, <1>2, <1>3, <1>4, OneRun

LEMMA Keeps_release ==
  ASSUME ContainerInv, NEW r \in Container, D!release(r)
  PROVE  ContainerInv'
<1> USE DEF ContainerInv
<1>1. D!TypeOK'
  BY DEF D!TypeOK, D!release, D!goto, D!flags, D!others, D!Preparation
<1>2. RunInv(r)'
  BY DEF D!TypeOK, RunInv, ShutInv, D!release, D!goto, D!flags, D!others,
         D!Preparation, Unopened, Opened
<1>3. ShutInv'
  BY DEF D!TypeOK, RunInv, ShutInv, D!release, D!goto, D!flags, D!others,
         D!Preparation, Unopened, Opened
<1>4. \A b \in Container \ {r} : Kept(b)
  BY DEF D!TypeOK, Kept, D!release, D!goto, D!flags, D!others
<1> QED BY <1>1, <1>2, <1>3, <1>4, OneRun

LEMMA Keeps_cancelRun ==
  ASSUME ContainerInv, NEW r \in Container, D!cancelRun(r)
  PROVE  ContainerInv'
<1> USE DEF ContainerInv
<1>1. D!TypeOK'
  BY DEF D!TypeOK, D!cancelRun, D!Preparation
<1>2. RunInv(r)'
  BY DEF D!TypeOK, RunInv, ShutInv, D!cancelRun, D!Preparation, Unopened, Opened
<1>3. ShutInv'
  BY DEF D!TypeOK, RunInv, ShutInv, D!cancelRun, D!Preparation, Unopened, Opened
<1>4. \A b \in Container \ {r} : Kept(b)
  BY DEF D!TypeOK, Kept, D!cancelRun
<1> QED BY <1>1, <1>2, <1>3, <1>4, OneRun

LEMMA Keeps_CancelGoesOn ==
  ASSUME ContainerInv, NEW r \in Container, D!CancelGoesOn(r)
  PROVE  ContainerInv'
<1> USE DEF ContainerInv
<1>1. D!TypeOK'
  BY DEF D!TypeOK, D!CancelGoesOn, D!Preparation
<1>2. RunInv(r)'
  BY DEF D!TypeOK, RunInv, ShutInv, D!CancelGoesOn, D!Preparation, Unopened, Opened
<1>3. ShutInv'
  BY DEF D!TypeOK, RunInv, ShutInv, D!CancelGoesOn, D!Preparation, Unopened, Opened
<1>4. \A b \in Container \ {r} : Kept(b)
  BY DEF D!TypeOK, Kept, D!CancelGoesOn
<1> QED BY <1>1, <1>2, <1>3, <1>4, OneRun

LEMMA Keeps_RemovalDone ==
  ASSUME ContainerInv, NEW r \in Container, D!RemovalDone(r)
  PROVE  ContainerInv'
<1> USE DEF ContainerInv
<1>1. D!TypeOK'
  BY DEF D!TypeOK, D!RemovalDone, D!settles, D!resumed, D!afterRemoval, D!removing,
         D!goto, D!boxIs, D!Preparation
<1>2. RunInv(r)'
  BY DEF D!TypeOK, RunInv, ShutInv, D!RemovalDone, D!settles, D!resumed,
         D!afterRemoval, D!removing, D!goto, D!boxIs, D!Preparation, Unopened, Opened
<1>3. ShutInv'
  BY DEF D!TypeOK, RunInv, ShutInv, D!RemovalDone, D!settles, D!resumed,
         D!afterRemoval, D!removing, D!goto, D!boxIs, D!Preparation, Unopened, Opened
<1>4. \A b \in Container \ {r} : Kept(b)
  BY DEF D!TypeOK, Kept, D!RemovalDone, D!settles, D!resumed, D!afterRemoval,
         D!removing, D!goto, D!boxIs
<1> QED BY <1>1, <1>2, <1>3, <1>4, OneRun

LEMMA Keeps_RemovalFails ==
  ASSUME ContainerInv, NEW r \in Container, D!RemovalFails(r)
  PROVE  ContainerInv'
<1> USE DEF ContainerInv
<1>1. D!TypeOK'
  BY DEF D!TypeOK, D!RemovalFails, D!settles, D!resumed, D!afterRemoval, D!removing,
         D!goto, D!boxIs, D!Preparation
<1>2. RunInv(r)'
  BY DEF D!TypeOK, RunInv, ShutInv, D!RemovalFails, D!settles, D!resumed,
         D!afterRemoval, D!removing, D!goto, D!boxIs, D!Preparation, Unopened, Opened
<1>3. ShutInv'
  BY DEF D!TypeOK, RunInv, ShutInv, D!RemovalFails, D!settles, D!resumed,
         D!afterRemoval, D!removing, D!goto, D!boxIs, D!Preparation, Unopened, Opened
<1>4. \A b \in Container \ {r} : Kept(b)
  BY DEF D!TypeOK, Kept, D!RemovalFails, D!settles, D!resumed, D!afterRemoval,
         D!removing, D!goto, D!boxIs
<1> QED BY <1>1, <1>2, <1>3, <1>4, OneRun

LEMMA Keeps_shutdown ==
  ASSUME ContainerInv, D!shutdown
  PROVE  ContainerInv'
<1> USE DEF ContainerInv
<1>1. D!TypeOK' BY DEF D!TypeOK, D!shutdown
<1>2. ASSUME NEW b \in Container PROVE RunInv(b)'
  BY DEF D!TypeOK, RunInv, D!shutdown, Unopened, Opened
<1>3. ShutInv' BY DEF D!TypeOK, ShutInv, D!shutdown
<1> QED BY <1>1, <1>2, <1>3

LEMMA Keeps_ShutdownRemoves ==
  ASSUME ContainerInv, D!ShutdownRemoves
  PROVE  ContainerInv'
<1> USE DEF ContainerInv
<1>1. D!TypeOK' BY DEF D!TypeOK, D!ShutdownRemoves, D!preparationsSettled
<1>2. ASSUME NEW b \in Container PROVE RunInv(b)'
  BY DEF D!TypeOK, RunInv, D!ShutdownRemoves, D!preparationsSettled, Unopened, Opened
<1>3. ShutInv' BY DEF D!TypeOK, ShutInv, D!ShutdownRemoves, D!preparationsSettled
<1> QED BY <1>1, <1>2, <1>3

LEMMA Keeps_ShutdownCloses ==
  ASSUME ContainerInv, D!ShutdownCloses
  PROVE  ContainerInv'
<1> USE DEF ContainerInv
<1>1. D!TypeOK' BY DEF D!TypeOK, D!ShutdownCloses, D!flags
<1>2. ASSUME NEW b \in Container PROVE RunInv(b)'
  BY DEF D!TypeOK, RunInv, D!ShutdownCloses, D!flags, Unopened, Opened
<1>3. ShutInv' BY DEF D!TypeOK, ShutInv, D!ShutdownCloses, D!flags
<1> QED BY <1>1, <1>2, <1>3

-----------------------------------------------------------------------------
LEMMA ContainersInit ==
  ASSUME D!Init
  PROVE  ContainerInv
<1>1. D!TypeOK BY DEF D!Init, D!TypeOK, D!Preparation
<1>2. ASSUME NEW r \in Container PROVE RunInv(r) BY DEF D!Init, RunInv, Unopened, Opened
<1>3. ShutInv BY DEF D!Init, ShutInv
<1> QED BY <1>1, <1>2, <1>3 DEF ContainerInv

LEMMA ContainersNext ==
  ASSUME ContainerInv, [D!Next]_(D!vars)
  PROVE  ContainerInv'
<1>1. ASSUME NEW r \in Container, D!Execute(r) PROVE ContainerInv'
  BY <1>1, Keeps_prepare, Keeps_PrepareRefused, Keeps_OpenSession, Keeps_ShadowGit,
     Keeps_DockerCreate, Keeps_DockerStart, Keeps_PausePrepared, Keeps_run,
     Keeps_Unpause, Keeps_ExecStart, Keeps_ExecEnds, Keeps_PauseAgain, Keeps_release
  DEF D!Execute
<1>2. ASSUME NEW r \in Container, D!Removal(r) \/ D!cancelRun(r) \/ D!CancelGoesOn(r)
      PROVE  ContainerInv'
  BY <1>2, Keeps_RemovalDone, Keeps_RemovalFails, Keeps_cancelRun, Keeps_CancelGoesOn
  DEF D!Removal
<1>3. CASE D!shutdown \/ D!ShutdownRemoves \/ D!ShutdownCloses
  BY <1>3, Keeps_shutdown, Keeps_ShutdownRemoves, Keeps_ShutdownCloses
<1>4. CASE UNCHANGED D!vars
  <2>1. D!TypeOK' /\ ShutInv' BY <1>4 DEF ContainerInv, D!TypeOK, ShutInv, D!vars, D!flags
  <2>2. ASSUME NEW b \in Container PROVE RunInv(b)'
    BY <1>4, Frame DEF ContainerInv, Kept, D!vars, D!flags
  <2> QED BY <2>1, <2>2 DEF ContainerInv
<1> QED BY <1>1, <1>2, <1>3, <1>4 DEF D!Next

-----------------------------------------------------------------------------
(***************************************************************************)
(* The processes on the host. A cancellation that came before the command  *)
(* is a mark nobody has consumed, and no command starts past it; one that  *)
(* came during it is a mark and an abort, both of which outlive the exit.  *)
(* A command whose time is over has been told so. As long as the runtime   *)
(* is open the session of a command is in its map.                         *)
(***************************************************************************)
CancelInv ==
  /\ asked = "no" => ~marked /\ session # "aborted"
  /\ asked = "before" => command \in {"idle", "files", "asleep", "done"}
  /\ asked = "during" => command \in {"running", "done"}
  /\ asked \in {"before", "during"} /\ command # "done" => marked
  /\ asked \in {"before", "during"} /\ command = "done" => ~marked /\ answer = "CANCELLED"
  /\ asked = "during" /\ command = "running" => killed

TimeInv ==
  /\ P!running /\ now > Timeout => timedOut
  /\ P!CommandsAreBounded

HostInv ==
  /\ P!running => host = "closed" \/ session # "none"
  /\ P!NoChildAfterShutdown

ProcessInv == P!TypeOK /\ CancelInv /\ TimeInv /\ HostInv

LEMMA ProcessesInit == MCInit => ProcessInv
<1> SUFFICES ASSUME P!Init PROVE ProcessInv BY DEF MCInit
<1>1. P!TypeOK
  <2>1. kind \in {"cli", "mock"} /\ now \in 0..MaxWait BY ProgressAssumption DEF P!Init
  <2>2. P!running <=> command = "running" BY DEF P!Init, P!running
  <2> QED BY <2>1, <2>2 DEF P!Init, P!TypeOK
<1>2. CancelInv /\ TimeInv /\ HostInv
  BY DEF P!Init, CancelInv, TimeInv, HostInv, P!running, P!CommandsAreBounded,
         P!NoChildAfterShutdown
<1> QED BY <1>1, <1>2 DEF ProcessInv

\* What a command that was rejected leaves: its mark is consumed, and heard.
Heard ==
  /\ marked' = FALSE /\ command' = "done"
  /\ answer' \in {"CANCELLED", "TIMED_OUT", "FAILED"}
  /\ marked => answer' = "CANCELLED"

LEMMA Caught ==
  ASSUME marked \in BOOLEAN
  PROVE  P!caught("CommandTimeoutError") \/ P!caught("AbortError") => Heard
<1>1. P!caught("CommandTimeoutError") => Heard BY DEF P!caught, P!return, Heard
<1>2. P!caught("AbortError") => Heard BY DEF P!caught, P!return, Heard
<1> QED BY <1>1, <1>2

LEMMA ProcessesNext ==
  ASSUME ProcessInv, [P!Next]_hosted
  PROVE  ProcessInv'
<1> USE ProgressAssumption DEF P!running
<1> USE DEF ProcessInv, P!TypeOK, CancelInv, TimeInv, HostInv, P!CommandsAreBounded,
            P!NoChildAfterShutdown
<1>1. CASE P!prepare BY <1>1 DEF P!prepare
<1>2. CASE P!startRun BY <1>2 DEF P!startRun
<1>3. CASE P!cancelRun
  <2>1. P!TypeOK' BY <1>3 DEF P!cancelRun, P!onAbort
  <2>2. CancelInv' BY <1>3 DEF P!cancelRun, P!onAbort
  <2>3. TimeInv' BY <1>3 DEF P!cancelRun, P!onAbort
  <2>4. HostInv' BY <1>3 DEF P!cancelRun, P!onAbort
  <2> QED BY <2>1, <2>2, <2>3, <2>4
<1>4. CASE P!release BY <1>4 DEF P!release, P!onAbort
<1>5. CASE P!Shutdown BY <1>5 DEF P!Shutdown
<1>6. CASE P!Closed
  <2>0. /\ host' = "closed" /\ session' = "none" /\ killed' \in BOOLEAN
        /\ UNCHANGED <<kind, command, answer, marked, child, timedOut, now, asked>>
    BY <1>6 DEF P!Closed, P!onAbort
  <2>1. P!TypeOK' BY <2>0
  <2>2. CancelInv' BY <1>6 DEF P!Closed, P!onAbort
  <2>3. TimeInv' BY <1>6 DEF P!Closed, P!onAbort
  <2>4. HostInv' BY <1>6 DEF P!Closed, P!onAbort
  <2> QED BY <2>1, <2>2, <2>3, <2>4
<1>7. CASE P!MarkedBefore BY <1>7 DEF P!MarkedBefore, P!return
<1>8. CASE P!Refused BY <1>8 DEF P!Refused, P!return
<1>9. CASE P!Spawn BY <1>9 DEF P!Spawn
<1>10. CASE P!SpawnError BY <1>10 DEF P!SpawnError, P!caught, P!return
<1>11. ASSUME NEW code \in {0, 1}, P!Exit(code) PROVE ProcessInv'
  <2>0. /\ command = "running" /\ command' \in {"done", "decoding"} /\ child' = "gone"
        /\ UNCHANGED <<kind, session, host, timedOut, killed, now, asked>>
    BY <1>11 DEF P!Exit, P!caught, P!return
  <2>a. \/ UNCHANGED marked /\ ~killed /\ (answer' = answer \/ answer' = "FAILED")
        \/ Heard
    <3>0. marked \in BOOLEAN OBVIOUS
    <3>1. CASE timedOut \/ killed
      <4>1. P!caught("CommandTimeoutError") \/ P!caught("AbortError")
        BY <1>11, <3>1, Zenon DEF P!Exit
      <4> HIDE DEF P!TypeOK, CancelInv, HostInv, TimeInv, ProcessInv
      <4> QED BY <3>0, <4>1, Caught
    <3>2. CASE ~timedOut /\ ~killed BY <1>11, <3>2 DEF P!Exit, P!return
    <3> QED BY <3>1, <3>2
  <2>1. P!TypeOK' BY <2>0, <2>a DEF Heard
  <2>2. CancelInv' BY <2>0, <2>a DEF Heard
  <2>3. TimeInv' BY <1>11 DEF P!Exit, P!caught, P!return
  <2>4. HostInv' BY <1>11 DEF P!Exit, P!caught, P!return
  <2> QED BY <2>1, <2>2, <2>3, <2>4
<1>12. CASE P!TimesOut BY <1>12 DEF P!TimesOut
<1>13. CASE P!Killed
  <2>0. /\ command = "running" /\ command' \in {"done", "decoding"} /\ child' = "gone"
        /\ UNCHANGED <<kind, session, host, timedOut, killed, now, asked>>
    BY <1>13 DEF P!Killed, P!killDue, P!caught, P!return
  <2>a. \/ UNCHANGED marked /\ ~killed /\ (answer' = answer \/ answer' = "FAILED")
        \/ Heard
    <3>1. marked \in BOOLEAN OBVIOUS
    <3>2. P!caught("CommandTimeoutError") BY <1>13 DEF P!Killed
    <3> HIDE DEF P!TypeOK, CancelInv, HostInv, TimeInv, ProcessInv
    <3> QED BY <3>1, <3>2, Caught
  <2>1. P!TypeOK' BY <2>0, <2>a DEF Heard
  <2>2. CancelInv' BY <2>0, <2>a DEF Heard
  <2>3. TimeInv' BY <1>13 DEF P!Killed, P!killDue, P!caught, P!return
  <2>4. HostInv' BY <1>13 DEF P!Killed, P!killDue, P!caught, P!return
  <2> QED BY <2>1, <2>2, <2>3, <2>4
<1>14. CASE P!Decoded BY <1>14 DEF P!Decoded, P!return
<1>15. CASE P!MockWakes
  <2>0. /\ command' \in {"done", "decoding"} /\ command # "running"
        /\ answer' \in {answer, "CANCELLED", "FAILED"} /\ marked' \in BOOLEAN
        /\ UNCHANGED <<kind, session, host, child, timedOut, killed, now, asked>>
    BY <1>15 DEF P!MockWakes, P!return
  <2>1. P!TypeOK' BY <2>0
  <2>2. CancelInv' BY <1>15 DEF P!MockWakes, P!return
  <2>3. TimeInv' /\ HostInv' BY <1>15 DEF P!MockWakes, P!return
  <2> QED BY <2>1, <2>2, <2>3
<1>16. CASE P!Tick BY <1>16 DEF P!Tick, P!killDue
<1>17. CASE UNCHANGED hosted BY <1>17 DEF hosted
<1> QED
  BY <1>1, <1>2, <1>3, <1>4, <1>5, <1>6, <1>7, <1>8, <1>9, <1>10, <1>11, <1>12, <1>13,
     <1>14, <1>15, <1>16, <1>17
  DEF P!Next

-----------------------------------------------------------------------------
(***************************************************************************)
(* A step of the composition is a step of one part, and stutters in the    *)
(* others.                                                                 *)
(***************************************************************************)
LEMMA OnePartMoves == [MCNext]_MCvars => [D!Next]_(D!vars) /\ [P!Next]_hosted
BY DEF MCNext, MCvars, loop, works, containers, processes, boxed, D!vars, D!flags

(***************************************************************************)
(* The invariants of the container runtime and of the host processes hold  *)
(* in the composition.                                                     *)
(***************************************************************************)
THEOREM Invariance == MCSpec => [](ContainerInv /\ ProcessInv)
<1>1. MCInit => ContainerInv /\ ProcessInv
  BY ContainersInit, ProcessesInit DEF MCInit
<1>2. ContainerInv /\ ProcessInv /\ [MCNext]_MCvars => ContainerInv' /\ ProcessInv'
  BY OnePartMoves, ContainersNext, ProcessesNext
<1> QED BY <1>1, <1>2, PTL DEF MCSpec

(***************************************************************************)
(* Every container that exists has a session in the map that is not marked *)
(* removed: a cancel() that comes in the middle of prepare() cannot mark a *)
(* container removed before docker has created it.                         *)
(***************************************************************************)
THEOREM NoOrphans == MCSpec => []D!NoOrphanContainers
<1>1. ContainerInv => D!NoOrphanContainers
  BY DEF ContainerInv, RunInv, D!NoOrphanContainers
<1> QED BY <1>1, Invariance, PTL

(***************************************************************************)
(* Outside run() no agent runs, unless docker refused to remove it: the    *)
(* container is paused on success and removed on every failure.            *)
(***************************************************************************)
THEOREM NoAgentUnattended == MCSpec => []D!NoAgentRunsUnattended
<1>1. ContainerInv => D!NoAgentRunsUnattended
  BY DEF ContainerInv, RunInv, D!NoAgentRunsUnattended
<1> QED BY <1>1, Invariance, PTL

(***************************************************************************)
(* A shutdown that reports success has left no session and no container:   *)
(* it waited for every preparation and for every removal.                  *)
(***************************************************************************)
THEOREM ShutdownClean == MCSpec => []D!ShutdownIsClean
<1>1. ContainerInv => D!ShutdownIsClean
  <2>1. SUFFICES ASSUME ContainerInv, shut = "closed" PROVE sessions = {}
    BY <2>1 DEF ContainerInv, RunInv, D!ShutdownIsClean
  <2> QED BY <2>1 DEF ContainerInv, ShutInv
<1> QED BY <1>1, Invariance, PTL

(***************************************************************************)
(* No container escapes the runtime (docker-container-execution-runtime):  *)
(* whatever prepare, run, cancel, release, shutdown and docker do, each    *)
(* container has a session that removes it, no agent runs unattended, and  *)
(* a clean shutdown leaves nothing; for any number of containers.          *)
(***************************************************************************)
THEOREM NoContainerEscapesEver == MCSpec => []NoContainerEscapes
<1>1. ContainerInv => D!TypeOK BY DEF ContainerInv
<1>2. ASSUME D!TypeOK, D!NoOrphanContainers, D!NoAgentRunsUnattended, D!ShutdownIsClean
      PROVE  NoContainerEscapes
  BY <1>2 DEF NoContainerEscapes, D!NoContainerEscapes
<1> QED BY <1>1, <1>2, Invariance, NoOrphans, NoAgentUnattended, ShutdownClean, PTL

(***************************************************************************)
(* API keys do not outlive the executor's interest in them.                *)
(***************************************************************************)
THEOREM SecretsAreClearedInTime == MCSpec => []SecretsAreCleared
<1>1. ContainerInv => SecretsAreCleared
  BY DEF ContainerInv, RunInv, SecretsAreCleared, D!SecretsAreCleared
<1> QED BY <1>1, Invariance, PTL

(***************************************************************************)
(* A run on the host that is cancelled in time ends as CANCELLED, leaves   *)
(* no mark behind, does not outlive its timeout by more than the delay of  *)
(* SIGKILL and is told to end when the runtime closes; whatever its kind,  *)
(* its timeout and its process.                                            *)
(***************************************************************************)
THEOREM ProcessesObeyAlways == MCSpec => []ProcessesObey
<1>1. ProcessInv => ProcessesObey
  BY DEF ProcessInv, CancelInv, TimeInv, HostInv, ProcessesObey,
         P!CancelledRunsEndCancelled, P!MarksAreConsumed, P!TypeOK
<1> QED BY <1>1, Invariance, PTL

-----------------------------------------------------------------------------
(***************************************************************************)
(* Every finite set of numbers has a sorted sequence: the rank of a number *)
(* counts the smaller ones, and the sequence is the inverse of the ranks.  *)
(***************************************************************************)
LEMMA Counted == \A X : G!Cardinality(X) = Cardinality(X)
BY DEF G!Cardinality, Cardinality

LEMMA SequencesOf ==
  ASSUME NEW ms
  PROVE  G!SetToSeqs(ms) = {f \in [1..Cardinality(ms) -> ms] :
                              \A i, j \in 1..Cardinality(ms) : i # j => f[i] # f[j]}
BY Counted DEF G!SetToSeqs

LEMMA SortedExists ==
  ASSUME NEW ms \in SUBSET Nat, IsFiniteSet(ms)
  PROVE  \E s \in G!SetToSeqs(ms) : \A i, j \in DOMAIN s : i < j => s[i] < s[j]
<1> DEFINE n == Cardinality(ms)
           below(x) == {y \in ms : y < x}
           rank == [x \in ms |-> Cardinality(below(x)) + 1]
           s == [i \in 1..n |-> CHOOSE x \in ms : rank[x] = i]
<1>1. n \in Nat
  BY FS_CardinalityType
<1>2. \A x \in ms : IsFiniteSet(below(x)) /\ Cardinality(below(x)) \in Nat
  BY FS_Subset, FS_CardinalityType
<1>3. ASSUME NEW x \in ms PROVE rank[x] \in 1..n
  <2>1. below(x) \in SUBSET ms /\ x \notin below(x)
    OBVIOUS
  <2>2. Cardinality(below(x)) <= n /\ Cardinality(below(x)) # n
    BY <2>1, FS_Subset
  <2> QED BY <1>1, <1>2, <2>2
<1>4. ASSUME NEW x \in ms, NEW y \in ms, x < y PROVE rank[x] < rank[y]
  <2>0. x \in Int /\ y \in Int /\ \A z \in ms : z \in Int
    OBVIOUS
  <2>1. ASSUME NEW z \in below(x) PROVE z \in below(y)
    <3>1. z \in ms /\ z < x
      OBVIOUS
    <3>2. z < y
      BY <1>4, <2>0, <3>1
    <3> QED BY <3>1, <3>2
  <2>2. x \in below(y) /\ ~(x < x)
    BY <1>4, <2>0
  <2>3. below(x) \in SUBSET below(y) /\ x \in below(y) /\ x \notin below(x)
    BY <2>1, <2>2
  <2>4. /\ Cardinality(below(x)) <= Cardinality(below(y))
        /\ Cardinality(below(x)) # Cardinality(below(y))
    BY <1>2, <2>3, FS_Subset
  <2> QED BY <1>2, <2>4
<1>5. rank \in Injection(ms, 1..n)
  <2>1. rank \in [ms -> 1..n]
    BY <1>3
  <2>2. ASSUME NEW x \in ms, NEW y \in ms, rank[x] = rank[y] PROVE x = y
    <3>1. rank[x] \in Nat /\ rank[y] \in Nat
      BY <1>1, <1>3
    <3> QED BY <1>4, <2>2, <3>1
  <2> HIDE DEF rank
  <2> QED BY <2>1, <2>2 DEF Injection, IsInjective
<1>6. rank \in Surjection(ms, 1..n)
  <2>1. IsFiniteSet(1..n) /\ Cardinality(1..n) = n
    BY <1>1, FS_Interval
  <2> HIDE DEF rank, n
  <2> QED BY <1>5, <2>1, FS_Injection DEF n
<1>7. ASSUME NEW i \in 1..n PROVE s[i] \in ms /\ rank[s[i]] = i
  <2>1. \E x \in ms : rank[x] = i
    BY <1>6 DEF Surjection
  <2> HIDE DEF rank
  <2> QED BY <2>1
<1> HIDE DEF rank, s
<1>8. s \in [1..n -> ms] /\ DOMAIN s = 1..n
  BY <1>7 DEF s
<1>9. ASSUME NEW i \in 1..n, NEW j \in 1..n, i < j PROVE s[i] < s[j]
  <2>1. s[i] \in Nat /\ s[j] \in Nat /\ s[i] \in ms /\ s[j] \in ms
    BY <1>7
  <2>2. rank[s[i]] < rank[s[j]] /\ rank[s[i]] \in Int /\ rank[s[j]] \in Int
    BY <1>1, <1>7, <1>9
  <2>3. ~(s[j] < s[i])
    BY <1>4, <2>1, <2>2
  <2>4. s[i] # s[j]
    BY <2>2
  <2> QED BY <2>1, <2>3, <2>4
<1>10. s \in G!SetToSeqs(ms)
  <2>1. ASSUME NEW i \in 1..n, NEW j \in 1..n, i # j PROVE s[i] # s[j]
    BY <1>1, <1>7, <2>1
  <2> QED BY <1>8, <2>1, SequencesOf DEF n
<1> QED BY <1>8, <1>9, <1>10

LEMMA SortedHolds ==
  ASSUME NEW ms \in SUBSET Nat, IsFiniteSet(ms)
  PROVE  G!sorted(ms) \in Seq(ms) /\ G!ToSet(G!sorted(ms)) = ms
<1> DEFINE s == G!sorted(ms)
<1>1. s \in G!SetToSeqs(ms)
  BY SortedExists DEF G!sorted
<1> HIDE DEF s
<1>2. /\ Cardinality(ms) \in Nat /\ s \in [1..Cardinality(ms) -> ms]
      /\ \A i, j \in 1..Cardinality(ms) : i # j => s[i] # s[j]
  BY <1>1, FS_CardinalityType, SequencesOf
<1>3. s \in Surjection(1..Cardinality(ms), ms)
  <2>1. s \in Injection(1..Cardinality(ms), ms)
    BY <1>2 DEF Injection, IsInjective
  <2>2. Cardinality(1..Cardinality(ms)) = Cardinality(ms)
    BY <1>2, FS_Interval
  <2> QED BY <2>1, <2>2, FS_Injection
<1>4. s \in Seq(ms) /\ DOMAIN s = 1..Cardinality(ms)
  BY <1>2, SeqDef
<1>5. \A i \in DOMAIN s : s[i] \in ms
  BY <1>2, <1>4
<1>6. \A x \in ms : \E i \in DOMAIN s : s[i] = x
  BY <1>3, <1>4 DEF Surjection
<1>7. G!ToSet(s) = ms
  BY <1>5, <1>6 DEF G!ToSet
<1> QED BY <1>4, <1>7 DEF s

-----------------------------------------------------------------------------
(***************************************************************************)
(* The migrations. What a deployer has left of the files it saw is still   *)
(* to be recorded, unless the history was dropped since; SQL that may not  *)
(* run twice is under way only where its effect is missing, once.          *)
(***************************************************************************)
HistoryRow == [name : G!Migration, ran : BOOLEAN]
Script == [pc : {"off", "dropping", "starting", "next", "applied", "done", "failed"},
           mode : {"deploy", "baseline"}, todo : Seq(G!Migration), saw : SUBSET G!Migration,
           era : Nat]

SchemaTypes ==
  /\ files \subseteq G!Migration /\ schema \subseteq G!Migration
  /\ pushed \subseteq G!Migration /\ claimed \subseteq G!Migration
  /\ history \in Seq(HistoryRow) /\ ledger \in BOOLEAN
  /\ launches \in 0..MaxRuns /\ resets \in Nat
  /\ proc \in [Deployer -> Script]

running(d) == proc[d].pc = "applied" /\ proc[d].mode = "deploy"
current(d) == Head(proc[d].todo)

DeployerInv(d) ==
  /\ proc[d].pc = "applied" => proc[d].todo # <<>>
  /\ running(d) /\ current(d) \notin Repeatable => current(d) \notin schema
  /\ proc[d].era <= resets
  /\ proc[d].pc \in {"next", "applied", "done"} /\ proc[d].era = resets =>
       proc[d].saw \subseteq G!names \cup G!ToSet(proc[d].todo)
  /\ proc[d].pc = "done" => proc[d].todo = <<>>

OneAtATime ==
  \A d, e \in Deployer : running(d) /\ running(e) /\ current(d) = current(e) => d = e

RecordedOnce ==
  \A i, j \in DOMAIN history :
    /\ history[i].ran /\ history[j].ran
    /\ history[i].name = history[j].name /\ history[i].name \notin Repeatable
    => i = j

SchemaInv ==
  /\ SchemaTypes
  /\ \A d \in Deployer : DeployerInv(d)
  /\ OneAtATime /\ RecordedOnce
  /\ G!HistoryTellsTheSchema

LEMMA SchemaInit == G!MigInit => SchemaInv
<1> SUFFICES ASSUME G!MigInit PROVE SchemaInv
  OBVIOUS
<1> USE DEF G!MigInit
<1>1. G!Off \in Script
  BY DEF G!Off, Script
<1>2. SchemaTypes
  <2>1. history \in Seq(HistoryRow) /\ proc \in [Deployer -> Script]
    BY <1>1
  <2>2. /\ files \subseteq G!Migration /\ schema \subseteq G!Migration
        /\ pushed \subseteq G!Migration /\ claimed \subseteq G!Migration
    OBVIOUS
  <2>3. launches \in 0..MaxRuns /\ resets \in Nat
    <3>1. launches = 0 /\ resets = 0
      OBVIOUS
    <3> QED BY <3>1, PlatformAssumption
  <2>4. ledger \in BOOLEAN
    OBVIOUS
  <2> QED BY <2>1, <2>2, <2>3, <2>4 DEF SchemaTypes
<1>3. ASSUME NEW d \in Deployer PROVE DeployerInv(d) /\ ~running(d)
  BY DEF DeployerInv, running, G!Off
<1>4. OneAtATime /\ RecordedOnce /\ G!HistoryTellsTheSchema
  BY <1>3 DEF OneAtATime, RecordedOnce, G!HistoryTellsTheSchema, G!names
<1> QED BY <1>2, <1>3, <1>4 DEF SchemaInv

(***************************************************************************)
(* A step of one deployer that neither records nor applies.                *)
(***************************************************************************)
LEMMA Quiet ==
  ASSUME SchemaInv, NEW d \in Deployer, NEW p \in Script, ~(p.pc = "applied" /\ p.mode = "deploy"),
         proc' = [proc EXCEPT ![d] = p], DeployerInv(d)',
         UNCHANGED <<schema, history, pushed, resets, claimed>>,
         files' = files, ledger' \in BOOLEAN, launches' \in 0..MaxRuns
  PROVE  SchemaInv'
<1> USE DEF SchemaInv
<1>1. SchemaTypes'
  BY DEF SchemaTypes
<1>2. \A e \in Deployer \ {d} : proc'[e] = proc[e]
  BY DEF SchemaTypes
<1>3. proc'[d] = p
  BY DEF SchemaTypes
<1>4. G!names' = G!names
  BY DEF G!names
<1>5. ASSUME NEW e \in Deployer \ {d} PROVE DeployerInv(e)'
  BY <1>2, <1>4 DEF DeployerInv, running, current
<1>6. OneAtATime'
  BY <1>2, <1>3 DEF OneAtATime, running, current
<1>7. RecordedOnce'
  BY DEF RecordedOnce
<1>8. G!HistoryTellsTheSchema'
  BY <1>4 DEF G!HistoryTellsTheSchema
<1> QED BY <1>1, <1>5, <1>6, <1>7, <1>8

LEMMA Begun ==
  ASSUME NEW at \in {"starting", "dropping"}, NEW mode \in {"deploy", "baseline"}
  PROVE  LET p == [G!Off EXCEPT !.pc = at, !.mode = mode]
         IN  p \in Script /\ p.pc = at /\ p.era = 0
<1> DEFINE one == [G!Off EXCEPT !.pc = at]
<1>0. G!Off \in Script /\ G!Off.era = 0
  BY DEF G!Off, Script
<1>1. one \in Script /\ one.pc = at /\ one.era = 0
  BY <1>0 DEF Script
<1> HIDE DEF one
<1>2. [one EXCEPT !.mode = mode] \in Script /\ [one EXCEPT !.mode = mode].pc = at
      /\ [one EXCEPT !.mode = mode].era = 0
  BY <1>1 DEF Script
<1> QED BY <1>2 DEF one

LEMMA SchemaLaunch ==
  ASSUME SchemaInv, NEW d \in Deployer, G!Launch(d)
  PROVE  SchemaInv'
<1> USE DEF SchemaInv, SchemaTypes
<1>1. PICK begin \in {<<"starting", "deploy">>, <<"starting", "baseline">>, <<"dropping", "deploy">>} :
        proc' = [proc EXCEPT ![d] = [G!Off EXCEPT !.pc = begin[1], !.mode = begin[2]]]
  BY DEF G!Launch
<1> DEFINE p == [G!Off EXCEPT !.pc = begin[1], !.mode = begin[2]]
<1>2. proc' = [proc EXCEPT ![d] = p]
  BY <1>1
<1>3. begin[1] \in {"starting", "dropping"} /\ begin[2] \in {"deploy", "baseline"}
  OBVIOUS
<1>4. p \in Script /\ p.pc \in {"starting", "dropping"} /\ p.era = 0
  BY <1>3, Begun
<1>5. proc'[d] = p
  BY <1>2
<1> HIDE DEF p
<1>7. launches' \in 0..MaxRuns /\ resets' = resets
  <2>1. launches < MaxRuns /\ launches' = launches + 1 /\ resets' = resets
    BY DEF G!Launch
  <2> QED BY <2>1, PlatformAssumption
<1>8. DeployerInv(d)'
  BY <1>4, <1>5, <1>7 DEF DeployerInv, running
<1> QED BY <1>2, <1>4, <1>5, <1>7, <1>8, Quiet DEF G!Launch

LEMMA SchemaStart ==
  ASSUME SchemaInv, NEW d \in Deployer, G!Start(d)
  PROVE  SchemaInv'
<1> USE DEF SchemaInv, SchemaTypes
<1> DEFINE p == [proc[d] EXCEPT !.pc = "next", !.todo = G!pending, !.saw = files, !.era = resets]
<1>1. files \ G!names \in SUBSET Nat /\ IsFiniteSet(files \ G!names)
  <2>1. IsFiniteSet(G!Migration) /\ G!Migration \subseteq Nat
    BY PlatformAssumption, FS_Interval DEF G!Migration
  <2> QED BY <2>1, FS_Subset
<1>2. G!pending \in Seq(G!Migration) /\ G!ToSet(G!pending) = files \ G!names
  <2>1. G!pending \in Seq(files \ G!names) /\ G!ToSet(G!pending) = files \ G!names
    BY <1>1, SortedHolds DEF G!pending
  <2> QED BY <2>1
<1>3. proc' = [proc EXCEPT ![d] = p]
  BY DEF G!Start
<1>4. proc[d] \in Script
  OBVIOUS
<1>5. p \in Script
  BY <1>2, <1>4 DEF Script
<1>6. p.pc = "next" /\ p.todo = G!pending /\ p.saw = files /\ p.era = resets
  BY <1>4 DEF Script
<1>7. proc'[d] = p
  BY <1>3
<1> HIDE DEF p
<1>8. G!names' = G!names /\ resets' = resets
  BY DEF G!Start, G!names
<1>9. DeployerInv(d)'
  BY <1>2, <1>6, <1>7, <1>8 DEF DeployerInv, running
<1> QED BY <1>3, <1>5, <1>6, <1>9, Quiet DEF G!Start

LEMMA SchemaEnds ==
  ASSUME SchemaInv, NEW d \in Deployer, G!Finish(d) \/ G!Die(d)
  PROVE  SchemaInv'
<1> USE DEF SchemaInv, SchemaTypes
<1>1. PICK at \in {"done", "failed"} :
        /\ proc' = [proc EXCEPT ![d] = [proc[d] EXCEPT !.pc = at]]
        /\ at = "done" => proc[d].pc = "next" /\ proc[d].todo = <<>>
  BY DEF G!Finish, G!Die
<1> DEFINE p == [proc[d] EXCEPT !.pc = at]
<1>2. proc[d] \in Script
  OBVIOUS
<1>3. /\ p \in Script /\ p.pc = at /\ p.todo = proc[d].todo /\ p.saw = proc[d].saw
      /\ p.era = proc[d].era
  BY <1>2 DEF Script
<1>4. proc'[d] = p /\ proc' = [proc EXCEPT ![d] = p]
  BY <1>1
<1> HIDE DEF p
<1>5. UNCHANGED <<files, schema, history, ledger, launches, pushed, resets, claimed>>
  BY DEF G!Finish, G!Die
<1>6. G!names' = G!names
  BY <1>5 DEF G!names
<1>7. DeployerInv(d)'
  BY <1>1, <1>3, <1>4, <1>5, <1>6 DEF DeployerInv, running
<1> QED BY <1>1, <1>3, <1>4, <1>5, <1>7, Quiet

LEMMA SchemaApply ==
  ASSUME SchemaInv, NEW d \in Deployer, G!Apply(d)
  PROVE  SchemaInv'
<1> USE DEF SchemaInv, SchemaTypes
<1> DEFINE m == Head(proc[d].todo)
           at == IF proc[d].mode = "baseline" \/ G!runnable(m) THEN "applied" ELSE "failed"
           p == [proc[d] EXCEPT !.pc = at]
<1>1. /\ proc[d].pc = "next" /\ proc[d].todo # <<>>
      /\ proc[d].mode = "baseline" \/ ~G!applying(m)
      /\ proc' = [proc EXCEPT ![d] = p]
      /\ UNCHANGED <<files, schema, history, ledger, launches, pushed, resets, claimed>>
  BY DEF G!Apply
<1>2. proc[d] \in Script /\ at \in {"applied", "failed"}
  OBVIOUS
<1>3. /\ p \in Script /\ p.pc = at /\ p.mode = proc[d].mode /\ p.todo = proc[d].todo
      /\ p.saw = proc[d].saw /\ p.era = proc[d].era
  <2> HIDE DEF at
  <2> QED BY <1>2 DEF Script
<1>4. proc'[d] = p
  BY <1>1
<1>5. at = "applied" /\ proc[d].mode = "deploy" => (m \in schema => m \in Repeatable)
  BY <1>2 DEF G!runnable
<1> HIDE DEF p, at
<1>6. G!names' = G!names
  BY <1>1 DEF G!names
<1>7. DeployerInv(d)'
  BY <1>1, <1>2, <1>3, <1>4, <1>5, <1>6 DEF DeployerInv, running, current
<1>8. CASE ~(p.pc = "applied" /\ p.mode = "deploy")
  BY <1>1, <1>3, <1>7, <1>8, Quiet
<1>9. CASE p.pc = "applied" /\ p.mode = "deploy"
  <2>1. \A e \in Deployer \ {d} : proc'[e] = proc[e]
    BY <1>1
  <2>2. SchemaTypes'
    BY <1>1, <1>3
  <2>3. ASSUME NEW e \in Deployer \ {d} PROVE DeployerInv(e)'
    BY <1>1, <1>6, <2>1 DEF DeployerInv, running, current
  <2>4. ASSUME NEW e \in Deployer, running(e) PROVE current(e) # m
    BY <1>1, <1>3, <1>9, <2>4 DEF G!applying, running, current
  <2>5. OneAtATime'
    BY <1>3, <1>4, <2>1, <2>4 DEF OneAtATime, running, current
  <2>6. RecordedOnce' /\ G!HistoryTellsTheSchema'
    BY <1>1, <1>6 DEF RecordedOnce, G!HistoryTellsTheSchema
  <2> QED BY <1>7, <2>2, <2>3, <2>5, <2>6
<1> QED BY <1>8, <1>9

LEMMA HeadAndTail ==
  ASSUME NEW T, NEW s \in Seq(T), s # <<>>
  PROVE  /\ Head(s) \in T /\ Tail(s) \in Seq(T)
         /\ G!ToSet(s) = {Head(s)} \cup G!ToSet(Tail(s))
<1>1. /\ Len(s) \in Nat /\ Len(s) # 0 /\ DOMAIN s = 1..Len(s) /\ Head(s) = s[1]
      /\ Tail(s) \in Seq(T) /\ DOMAIN Tail(s) = 1..(Len(s) - 1)
      /\ \A i \in 1..(Len(s) - 1) : Tail(s)[i] = s[i + 1]
  OBVIOUS
<1>2. ASSUME NEW i \in 1..Len(s), i # 1 PROVE s[i] \in G!ToSet(Tail(s))
  <2>1. i - 1 \in 1..(Len(s) - 1) /\ (i - 1) + 1 = i
    BY <1>1, <1>2
  <2> QED BY <1>1, <2>1 DEF G!ToSet
<1>3. ASSUME NEW i \in 1..(Len(s) - 1) PROVE Tail(s)[i] \in G!ToSet(s)
  <2>1. i + 1 \in 1..Len(s)
    BY <1>1
  <2> QED BY <1>1, <2>1 DEF G!ToSet
<1>4. 1 \in 1..Len(s)
  BY <1>1
<1> QED BY <1>1, <1>2, <1>3, <1>4 DEF G!ToSet

LEMMA SchemaCommit ==
  ASSUME SchemaInv, NEW d \in Deployer, G!Commit(d)
  PROVE  SchemaInv'
<1> USE DEF SchemaInv, SchemaTypes
<1> DEFINE m == Head(proc[d].todo)
           row == [name |-> m, ran |-> proc[d].mode = "deploy"]
           p == [proc[d] EXCEPT !.pc = "next", !.todo = Tail(proc[d].todo)]
           n == Len(history)
<1>1. /\ proc[d].pc = "applied" /\ ledger
      /\ schema' = schema \cup (IF proc[d].mode = "baseline" THEN {} ELSE {m})
      /\ history' = history \o <<row>>
      /\ claimed' = IF proc[d].mode = "baseline" THEN claimed \cup ({m} \ schema) ELSE claimed
      /\ proc' = [proc EXCEPT ![d] = p]
      /\ UNCHANGED <<files, ledger, launches, pushed, resets>>
  BY DEF G!Commit, G!committed
<1>2. proc[d] \in Script /\ proc[d].todo # <<>>
  BY <1>1 DEF DeployerInv
<1>3. /\ m \in G!Migration /\ Tail(proc[d].todo) \in Seq(G!Migration)
      /\ G!ToSet(proc[d].todo) = {m} \cup G!ToSet(Tail(proc[d].todo))
  <2>1. proc[d].todo \in Seq(G!Migration)
    BY <1>2 DEF Script
  <2> QED BY <1>2, <2>1, HeadAndTail
<1>4. row \in HistoryRow
  BY <1>3 DEF HistoryRow
<1>5. /\ history' \in Seq(HistoryRow) /\ Len(history') = n + 1 /\ n \in Nat
      /\ \A i \in 1..n : history'[i] = history[i]
      /\ history'[n + 1] = row
  <2> HIDE DEF row
  <2> QED BY <1>1, <1>4
<1>6. DOMAIN history = 1..n /\ DOMAIN history' = 1..(n + 1)
  BY <1>5
<1>7. G!names' = G!names \cup {m}
  <2>1. row.name = m
    OBVIOUS
  <2> HIDE DEF row, n, m
  <2> QED BY <1>5, <1>6, <2>1 DEF G!names
<1>8. /\ p \in Script /\ p.pc = "next" /\ p.todo = Tail(proc[d].todo)
      /\ p.saw = proc[d].saw /\ p.era = proc[d].era
  BY <1>2, <1>3 DEF Script
<1>9. proc'[d] = p /\ \A e \in Deployer \ {d} : proc'[e] = proc[e]
  BY <1>1
<1>10. SchemaTypes'
  BY <1>1, <1>3, <1>5, <1>8
<1> HIDE DEF p
<1>11. DeployerInv(d)'
  BY <1>1, <1>3, <1>7, <1>8, <1>9 DEF DeployerInv, running
<1>12. ASSUME NEW e \in Deployer \ {d} PROVE DeployerInv(e)'
  <2>1. running(e) => current(e) # m \/ proc[d].mode # "deploy"
    BY <1>1 DEF OneAtATime, running, current
  <2>2. proc[d].mode \in {"deploy", "baseline"}
    BY <1>2 DEF Script
  <2> QED BY <1>1, <1>7, <1>9, <2>1, <2>2 DEF DeployerInv, running, current
<1>13. OneAtATime'
  BY <1>8, <1>9 DEF OneAtATime, running, current
<1>14. row.name = m /\ row.ran = (proc[d].mode = "deploy")
  OBVIOUS
<1> HIDE DEF row
<1>15. RecordedOnce'
  <2>1. ASSUME NEW i \in 1..n, history[i].ran, row.ran, history[i].name = m, m \notin Repeatable
        PROVE  FALSE
    <3>1. m \in schema
      BY <1>6, <2>1 DEF G!HistoryTellsTheSchema
    <3>2. running(d) /\ current(d) = m
      BY <1>1, <1>14, <2>1 DEF running, current
    <3> QED BY <2>1, <3>1, <3>2 DEF DeployerInv
  <2> SUFFICES ASSUME NEW i \in 1..(n + 1), NEW j \in 1..(n + 1),
                      history'[i].ran, history'[j].ran, history'[i].name = history'[j].name,
                      history'[i].name \notin Repeatable
               PROVE  i = j
    BY <1>6 DEF RecordedOnce
  <2> HIDE DEF m, n
  <2>2. CASE i \in 1..n /\ j \in 1..n
    BY <1>5, <1>6, <2>2 DEF RecordedOnce
  <2>3. CASE i = n + 1 /\ j \in 1..n
    BY <1>5, <1>14, <2>1, <2>3
  <2>4. CASE i \in 1..n /\ j = n + 1
    BY <1>5, <1>14, <2>1, <2>4
  <2> QED BY <1>5, <2>2, <2>3, <2>4
<1>16. G!HistoryTellsTheSchema'
  <2>1. proc[d].mode \in {"deploy", "baseline"}
    BY <1>2 DEF Script
  <2>2. ASSUME NEW i \in DOMAIN history', history'[i].ran PROVE history'[i].name \in schema'
    <3>1. CASE i \in 1..n
      BY <1>1, <1>5, <1>6, <2>2, <3>1 DEF G!HistoryTellsTheSchema
    <3>2. CASE i = n + 1
      BY <1>1, <1>5, <1>14, <2>2, <3>2
    <3> QED BY <1>5, <1>6, <3>1, <3>2
  <2>3. schema' \subseteq G!names' \cup pushed'
    BY <1>1, <1>7 DEF G!HistoryTellsTheSchema
  <2>4. G!names' \subseteq schema' \cup claimed'
    BY <1>1, <1>7, <2>1 DEF G!HistoryTellsTheSchema
  <2> QED BY <2>2, <2>3, <2>4 DEF G!HistoryTellsTheSchema
<1> QED BY <1>10, <1>11, <1>12, <1>13, <1>15, <1>16

LEMMA SchemaDrop ==
  ASSUME SchemaInv, NEW d \in Deployer, G!Drop(d)
  PROVE  SchemaInv'
<1> USE DEF SchemaInv, SchemaTypes
<1> DEFINE p == [proc[d] EXCEPT !.pc = "starting"]
<1>1. /\ \A e \in Deployer : ~running(e)
      /\ schema' = {} /\ pushed' = {} /\ history' = <<>> /\ ledger' = FALSE /\ claimed' = {}
      /\ resets' = resets + 1
      /\ proc' = [proc EXCEPT ![d] = p]
      /\ UNCHANGED <<files, launches>>
  BY DEF G!Drop, running
<1>2. proc[d] \in Script
  OBVIOUS
<1>3. p \in Script /\ p.pc = "starting" /\ p.era = proc[d].era
  BY <1>2 DEF Script
<1>4. proc'[d] = p /\ \A e \in Deployer \ {d} : proc'[e] = proc[e]
  BY <1>1
<1> HIDE DEF p
<1>5. SchemaTypes'
  <2>1. history' \in Seq(HistoryRow)
    BY <1>1
  <2>2. resets' \in Nat
    BY <1>1
  <2>3. ledger' \in BOOLEAN
    BY <1>1
  <2>4. proc' \in [Deployer -> Script]
    BY <1>1, <1>3
  <2> QED BY <1>1, <2>1, <2>2, <2>3, <2>4
<1>6. ASSUME NEW e \in Deployer PROVE ~running(e)'
  BY <1>1, <1>3, <1>4 DEF running
<1>7. ASSUME NEW e \in Deployer PROVE DeployerInv(e)'
  <2>1. proc[e] \in Script /\ proc[e].era \in Nat
    BY DEF Script
  <2>2. proc'[e].era = proc[e].era /\ proc[e].era <= resets
    BY <1>3, <1>4 DEF DeployerInv
  <2>3. proc'[e].era # resets' /\ proc'[e].era <= resets'
    BY <1>1, <2>1, <2>2
  <2>4. /\ proc'[e].pc = "applied" => proc'[e].todo # <<>>
        /\ proc'[e].pc = "done" => proc'[e].todo = <<>>
    BY <1>3, <1>4 DEF DeployerInv
  <2> QED BY <1>6, <2>3, <2>4 DEF DeployerInv
<1>8. OneAtATime'
  BY <1>6 DEF OneAtATime
<1>9. RecordedOnce' /\ G!HistoryTellsTheSchema'
  BY <1>1 DEF RecordedOnce, G!HistoryTellsTheSchema, G!names
<1> QED BY <1>5, <1>7, <1>8, <1>9

LEMMA SchemaNext == SchemaInv /\ [G!MigNext]_migrated => SchemaInv'
<1> SUFFICES ASSUME SchemaInv, [G!MigNext]_migrated PROVE SchemaInv'
  OBVIOUS
<1>1. CASE G!Merge
  <2>1. files' \subseteq G!Migration
    BY <1>1, PlatformAssumption DEF SchemaInv, SchemaTypes, G!Merge, G!Migration
  <2>2. UNCHANGED <<schema, history, ledger, proc, launches, pushed, resets, claimed>>
    BY <1>1 DEF G!Merge
  <2> QED BY <2>1, <2>2
          DEF SchemaInv, SchemaTypes, DeployerInv, OneAtATime, RecordedOnce, running, current,
              G!HistoryTellsTheSchema, G!names
<1>2. CASE UNCHANGED migrated
  BY <1>2 DEF migrated, SchemaInv, SchemaTypes, DeployerInv, OneAtATime, RecordedOnce, running,
              current, G!HistoryTellsTheSchema, G!names
<1>3. ASSUME NEW d \in Deployer,
             G!Launch(d) \/ G!Drop(d) \/ G!Start(d) \/ G!Apply(d) \/ G!Commit(d)
             \/ G!Finish(d) \/ G!Die(d)
      PROVE  SchemaInv'
  BY <1>3, SchemaLaunch, SchemaDrop, SchemaStart, SchemaApply, SchemaCommit, SchemaEnds
<1> QED BY <1>1, <1>2, <1>3 DEF G!MigNext

LEMMA SchemaSafe == SchemaInv => SchemaFollowsHistory
<1> SUFFICES ASSUME SchemaInv PROVE SchemaFollowsHistory
  OBVIOUS
<1> USE DEF SchemaInv, SchemaTypes
<1>1. G!TypeOK
  <2>1. \A i \in DOMAIN history : history[i] \in [name : G!Migration, ran : BOOLEAN]
    <3>1. \A i \in DOMAIN history : history[i] \in HistoryRow
      OBVIOUS
    <3> QED BY <3>1 DEF HistoryRow
  <2>2. ASSUME NEW d \in Deployer
        PROVE  /\ proc[d].pc \in {"off", "dropping", "starting", "next", "applied", "done", "failed"}
               /\ proc[d].mode \in {"deploy", "baseline"}
               /\ G!ToSet(proc[d].todo) \subseteq G!Migration /\ proc[d].saw \subseteq G!Migration
    <3>1. proc[d] \in Script
      OBVIOUS
    <3> QED BY <3>1 DEF Script, G!ToSet
  <2> QED BY <2>1, <2>2 DEF G!TypeOK
<1>2. G!SuccessLeavesNothingPending
  <2>1. G!ToSet(<<>>) = {}
    BY DEF G!ToSet
  <2> QED BY <2>1 DEF DeployerInv, G!SuccessLeavesNothingPending
<1>3. G!NothingRunsTwice
  <2> SUFFICES ASSUME NEW m \in G!Migration \ Repeatable
               PROVE  Cardinality({i \in DOMAIN history : history[i].name = m /\ history[i].ran}) <= 1
    BY Counted DEF G!NothingRunsTwice
  <2> DEFINE twice == {i \in DOMAIN history : history[i].name = m /\ history[i].ran}
  <2>1. \A i, j \in twice : i = j
    BY DEF RecordedOnce
  <2>2. CASE twice = {}
    <3>1. Cardinality(twice) = 0
      BY <2>2, FS_EmptySet
    <3> QED BY <3>1
  <2>3. ASSUME NEW i \in twice PROVE Cardinality(twice) = 1
    <3>1. twice = {i}
      BY <2>1
    <3> QED BY <3>1, FS_Singleton
  <2> QED BY <2>2, <2>3
<1> QED BY <1>1, <1>2, <1>3 DEF SchemaFollowsHistory

(***************************************************************************)
(* The runs show it for three migrations and two deployers, this for any   *)
(* number of migrations, deployers, merges, resets and deaths: history and *)
(* schema agree, a deployment that reports success left nothing pending,   *)
(* and SQL that may not run twice is recorded once.                        *)
(***************************************************************************)
THEOREM SchemaFollowsHistoryAlways == PlatformSpec => []SchemaFollowsHistory
<1>1. PlatformInit => SchemaInv
  BY SchemaInit DEF PlatformInit
<1>2. SchemaInv /\ [PlatformNext]_PlatformVars => SchemaInv'
  <2> SUFFICES ASSUME SchemaInv, [PlatformNext]_PlatformVars PROVE SchemaInv'
    OBVIOUS
  <2>1. [G!MigNext]_migrated
    BY DEF PlatformNext, PlatformVars
  <2> QED BY <2>1, SchemaNext
<1> QED BY <1>1, <1>2, SchemaSafe, PTL DEF PlatformSpec

-----------------------------------------------------------------------------
(***************************************************************************)
(* The screens. What a person is owed is in the database; an answer on its *)
(* way that lacks it, and one that was shown before it, is known to: the   *)
(* request slipped, or the cached answer is marked.                        *)
(***************************************************************************)
Told == V!announced(button, view)

Cached == [data : V!None..MaxWrites, fresh : BOOLEAN, invalid : BOOLEAN, failed : BOOLEAN]
Flying == [at : {"none", "asked", "read"}, version : V!None..MaxWrites, tries : 0..2]
Formed == [at : {"idle", "sent", "written"}, version : V!None..MaxWrites]

ScreenInv ==
  /\ V!TypeOK
  /\ owed <= server
  /\ form.at = "written" => form.version # V!None /\ form.version <= server
  /\ flight.at = "none" => flight = V!NoFlight
  /\ Told /\ flight.at = "read" /\ flight.version < owed => slipped
  /\ Told /\ cache.data # V!None /\ cache.data < owed => cache.invalid \/ slipped
  /\ V!ReadsOwnWrites

LEMMA ScreenInit == V!WebInit => ScreenInv
<1> SUFFICES ASSUME V!WebInit PROVE ScreenInv
  OBVIOUS
<1> USE PlatformAssumption DEF V!None
<1>1. V!TypeOK
  <2>1. cache \in Cached
    BY DEF Cached, V!WebInit, V!Empty
  <2>2. flight \in Flying
    BY DEF Flying, V!WebInit, V!NoFlight
  <2>3. form \in Formed
    BY DEF Formed, V!WebInit, V!NoForm
  <2>4. server \in 0..MaxWrites /\ owed \in 0..MaxWrites /\ errors \in 0..MaxErrors
    BY DEF V!WebInit
  <2>5. /\ slipped \in BOOLEAN /\ view \in V!Query /\ button \in V!Mutation
        /\ page \in {"away", "open", "hidden"}
    BY DEF V!WebInit
  <2> QED BY <2>1, <2>2, <2>3, <2>4, <2>5 DEF V!TypeOK, Cached, Flying, Formed
<1>2. V!ReadsOwnWrites
  BY DEF V!WebInit, V!ReadsOwnWrites
<1> QED BY <1>1, <1>2 DEF V!WebInit, ScreenInv, V!NoFlight, V!NoForm, V!Empty, V!None

LEMMA ScreenPerson ==
  ASSUME ScreenInv, V!Open \/ V!Leave \/ V!Switch \/ V!Age \/ V!Collect
  PROVE  ScreenInv'
<1> USE PlatformAssumption DEF ScreenInv, V!TypeOK, V!NoFlight, V!None, V!ReadsOwnWrites, Told
<1>1. CASE V!Open BY <1>1 DEF V!Open, V!ask, V!Asked
<1>2. CASE V!Leave BY <1>2 DEF V!Leave
<1>3. CASE V!Switch BY <1>3 DEF V!Switch
<1>4. CASE V!Age BY <1>4 DEF V!Age
<1>5. CASE V!Collect BY <1>5 DEF V!Collect, V!Empty
<1> QED BY <1>1, <1>2, <1>3, <1>4, <1>5

LEMMA ScreenRequest ==
  ASSUME ScreenInv, V!Read \/ V!Arrive \/ V!Poll \/ V!TryAgain \/ V!Fail
  PROVE  ScreenInv'
<1> USE PlatformAssumption DEF ScreenInv, V!TypeOK, V!NoFlight, V!None, V!ReadsOwnWrites, Told
<1>1. CASE V!Read
  <2>1. flight' = [at |-> "read", version |-> server, tries |-> flight.tries]
    BY <1>1 DEF V!Read
  <2>2. flight'.at = "read" /\ flight'.version = server
    BY <2>1
  <2>3. flight' \in Flying
    BY <2>1 DEF Flying
  <2>4. V!TypeOK'
    BY <1>1, <2>3 DEF V!Read, Cached, Flying, Formed
  <2>5. flight'.at # "none"
    BY <2>2
  <2>6. UNCHANGED <<view, button, server, page, cache, form, owed, errors, slipped>>
    BY <1>1 DEF V!Read
  <2>7. flight' # V!NoFlight /\ ~(flight'.version < owed')
    BY <2>2, <2>5, <2>6
  <2> QED BY <2>4, <2>5, <2>6, <2>7
<1>2. CASE V!Arrive BY <1>2 DEF V!Arrive
<1>3. CASE V!Poll BY <1>3 DEF V!Poll, V!Asked
<1>4. CASE V!TryAgain BY <1>4 DEF V!TryAgain, V!Asked
<1>5. CASE V!Fail
  <2>1. flight' \in Flying
    BY <1>5 DEF V!Fail, V!Asked, V!retries, Flying
  <2>2. cache' \in Cached
    BY <1>5 DEF V!Fail, Cached
  <2>3. V!TypeOK'
    BY <1>5, <2>1, <2>2 DEF V!Fail, Cached, Flying, Formed
  <2>4. ScreenInv'
    BY <1>5, <2>3 DEF V!Fail, V!Asked, V!retries
  <2> QED BY <2>4
<1> QED BY <1>1, <1>2, <1>3, <1>4, <1>5

LEMMA ScreenForm ==
  ASSUME ScreenInv, V!Send \/ V!Refuse \/ V!Write \/ V!Succeed \/ V!Lose \/ V!Change
  PROVE  ScreenInv'
<1> USE PlatformAssumption DEF ScreenInv, V!TypeOK, V!NoFlight, V!None, V!ReadsOwnWrites, Told
<1>1. CASE V!Send BY <1>1 DEF V!Send
<1>2. CASE V!Refuse BY <1>2 DEF V!Refuse, V!NoForm
<1>3. CASE V!Write BY <1>3 DEF V!Write
<1>4. CASE V!Succeed
  <2> USE DEF V!Succeed
  <2>1. form' = V!NoForm /\ owed' = form.version /\ owed' \in 0..MaxWrites
    BY <1>4
  <2>2. form' \in Formed
    BY <2>1 DEF V!NoForm, Formed
  <2>3. CASE ~Told
    <3>1. UNCHANGED <<cache, flight, slipped>>
      BY <1>4, <2>3
    <3> QED BY <1>4, <2>1, <2>2, <2>3, <3>1 DEF V!NoForm, Formed
  <2>4. CASE Told
    <3>1. cache' \in Cached
      BY <1>4, <2>4 DEF Cached
    <3>2. cache'.data = cache.data /\ cache'.failed = cache.failed
      BY <1>4, <2>4
    <3>3. cache.data # -1 => cache'.invalid
      BY <1>4, <2>4 DEF V!Empty
    <3>4. flight' = V!refetched
      BY <1>4, <2>4
    <3>5. flight' \in {flight, V!Asked}
      BY <3>4 DEF V!refetched
    <3>6. V!Asked \in Flying /\ V!Asked.at = "asked" /\ V!Asked # V!NoFlight
      BY DEF V!Asked, Flying
    <3>7. flight' \in Flying
      BY <3>5, <3>6 DEF Flying
    <3>8. page # "away" => flight' # V!NoFlight
      BY <3>4, <3>6 DEF V!refetched
    <3>9. /\ slipped' \in BOOLEAN
          /\ flight'.at = "read" /\ flight'.version < owed' => slipped'
      BY <1>4, <2>1, <2>4, <3>4, <3>6 DEF V!refetched
    <3>10. V!TypeOK'
      BY <1>4, <2>1, <2>2, <3>1, <3>7, <3>9 DEF Cached, Flying, Formed
    <3>11. form'.at = "idle"
      BY <2>1 DEF V!NoForm
    <3>12. flight'.at = "none" => flight' = V!NoFlight
      BY <3>5, <3>6
    <3> QED BY <1>4, <3>2, <3>3, <3>8, <3>9, <3>10, <3>11, <3>12
  <2> QED BY <2>3, <2>4
<1>5. CASE V!Lose BY <1>5 DEF V!Lose, V!NoForm
<1>6. CASE V!Change BY <1>6 DEF V!Change
<1> QED BY <1>1, <1>2, <1>3, <1>4, <1>5, <1>6

LEMMA ScreenNext == ScreenInv /\ [V!WebNext]_viewed => ScreenInv'
<1> SUFFICES ASSUME ScreenInv, [V!WebNext]_viewed PROVE ScreenInv'
  OBVIOUS
<1>1. CASE V!WebNext
  BY <1>1, ScreenPerson, ScreenRequest, ScreenForm DEF V!WebNext, V!Requests
<1>2. CASE UNCHANGED viewed
  BY <1>2 DEF viewed, ScreenInv, V!TypeOK, V!ReadsOwnWrites, Told, V!NoFlight, V!None,
              V!announced
<1> QED BY <1>1, <1>2

(***************************************************************************)
(* The runs show it for one write and two failures, this for any number:   *)
(* a screen at rest shows at least what its person was told is saved, for  *)
(* every query and every mutation that invalidates it.                     *)
(***************************************************************************)
THEOREM ScreensShowOwnWritesAlways == PlatformSpec => []ScreensShowOwnWrites
<1>1. PlatformInit => ScreenInv
  BY ScreenInit DEF PlatformInit
<1>2. ScreenInv /\ [PlatformNext]_PlatformVars => ScreenInv'
  <2> SUFFICES ASSUME ScreenInv, [PlatformNext]_PlatformVars PROVE ScreenInv'
    OBVIOUS
  <2>1. [V!WebNext]_viewed
    BY DEF PlatformNext, PlatformVars
  <2> QED BY <2>1, ScreenNext
<1>3. ScreenInv => ScreensShowOwnWrites
  BY DEF ScreenInv, ScreensShowOwnWrites
<1> QED BY <1>1, <1>2, <1>3, PTL DEF PlatformSpec
=============================================================================
