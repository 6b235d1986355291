--------------------------- MODULE DeliveryProofs ---------------------------
(***************************************************************************)
(* MCDelivery keeps what its invariants promise: its checkouts and its     *)
(* connections for any set of tasks of one organization and any number of  *)
(* workers, requests and webhooks; its instances of Verification and       *)
(* PullRequests by the proofs of those modules, which hold for any bounds. *)
(***************************************************************************)
EXTENDS MCDelivery, FiniteSetTheorems, SequenceTheorems, TLAPS

-----------------------------------------------------------------------------
(* The invariant of the checkouts. *)

\* Runs on one path at the same time know of each other.
Meetings ==
  \A v, w \in Worker :
    v # w /\ W!live(v) /\ W!live(w) /\ W!path(v) = W!path(w) => proc[v].met

\* A run works on the title and the repository its task still has.
Planned ==
  \A w \in Worker :
    W!live(w) => /\ proc[w].repo = task[proc[w].t].repo
                 /\ proc[w].branch = W!buildBranchName(proc[w].t)

\* A folder has a branch that exists; where there is none, there is no work.
Folders ==
  \A p \in W!Path :
    IF disk[p].exists
    THEN disk[p].branch \in W!Branch /\ branch[disk[p].repo][disk[p].branch] # -1
    ELSE disk[p].work = {}

\* A branch has the commits made on it.
Commits ==
  \A r \in W!Repo, b \in W!Branch :
    branch[r][b] = made[r][b] \/ (branch[r][b] = -1 /\ made[r][b] = 0)

\* A row is of the task its path is named for.
Rows ==
  \A r \in W!Repo, p \in W!Path :
    row[r][p].status # "none" => W!worktreePath(row[r][p].t) = p

\* What a run knows of folder d and registrations g at its path. A listing
\* that found the branch of the run is right while the folder is there, any
\* other if nobody else came by; what the run was handed is registered for its
\* branch; a run that is alone removes or releases no uncommitted work, and
\* finds the path free when it adds its worktree.
Fits(x, d, g) ==
  LET p == W!worktreePath(x.t)
  IN /\ x.pc = "acquire" /\ d[p].exists =>
          /\ x.match = x.branch => g[x.repo][p] = x.branch
          /\ ~x.met /\ ~x.blind => x.match = g[x.repo][p]
     /\ x.pc \in {"record", "ready", "release"} /\ d[p].exists
          => g[x.repo][p] = x.branch
     /\ ~x.met =>
          /\ x.pc = "remove" /\ ~x.blind => d[p].work = {}
          /\ x.pc = "release" => d[p].work = {}
          /\ x.pc = "add" => ~d[p].exists /\ g[x.repo][p] = W!NoBranch

Fitting == \A w \in Worker : Fits(proc[w], disk, reg)

\* Uncommitted work lies in a folder that is registered for the branch of its
\* task, which nobody can edit any more.
Held ==
  \A t \in W!WTask :
    disk[W!worktreePath(t)].work # {} =>
      /\ task[t].worked
      /\ reg[task[t].repo][W!worktreePath(t)] = W!buildBranchName(t)

\* Registrations are left only in repositories the task was in; in the one it
\* is in, they are right unless it was there before.
Registered ==
  \A t \in W!WTask :
    LET p == W!worktreePath(t)
    IN /\ \A r \in W!Repo :
            reg[r][p] # W!NoBranch => r = task[t].repo \/ r \in task[t].was
       /\ ~task[t].returned /\ disk[p].exists /\ reg[task[t].repo][p] # W!NoBranch
            => disk[p].repo = task[t].repo /\ disk[p].branch = reg[task[t].repo][p]

Folder == [exists : BOOLEAN, repo : W!Repo, branch : W!Branch \cup {W!NoBranch},
           work : SUBSET W!WTask]
RowOfTree == [t : W!WTask, status : {"none", "ACTIVE", "RELEASED"}]
PlannedTask == [title : W!Title, repo : W!Repo, worked : BOOLEAN,
                returned : BOOLEAN, was : SUBSET W!Repo]
Pc == {"idle", "checkout", "list", "acquire", "remove", "add", "record", "ready", "release"}
TreeRun == [pc : Pc, t : W!WTask, repo : W!Repo, branch : W!Branch \cup {W!NoBranch},
            match : W!Branch \cup {W!NoBranch}, met : BOOLEAN, blind : BOOLEAN]

DiskTypes == disk \in [W!Path -> Folder]
RegTypes == reg \in [W!Repo -> [W!Path -> W!Branch \cup {W!NoBranch}]]
BranchTypes == /\ branch \in [W!Repo -> [W!Branch -> -1..MaxCommits]]
               /\ made \in [W!Repo -> [W!Branch -> 0..MaxCommits]]
RowTypes == row \in [W!Repo -> [W!Path -> RowOfTree]]
TaskTypes == task \in [W!WTask -> PlannedTask]
RunTypes == proc \in [Worker -> TreeRun]
PastTypes ==
  /\ lost \subseteq [by : W!WTask, of : W!WTask, met : BOOLEAN, blind : BOOLEAN]
  /\ refused \subseteq [t : W!WTask, met : BOOLEAN]
  /\ moves \in 0..MaxMoves /\ runs \in 0..MaxRuns

TreeInv ==
  /\ DiskTypes /\ RegTypes /\ BranchTypes /\ RowTypes /\ TaskTypes /\ RunTypes /\ PastTypes
  /\ Meetings /\ Planned /\ Folders /\ Commits /\ Rows
  /\ Fitting /\ Held /\ Registered
  /\ W!LossNeedsOverlap /\ W!RetriesCanProvision

\* Two tasks never share a path: there is one organization.
LEMMA OwnPath ==
  /\ \A t \in W!WTask : W!worktreePath(t) \in W!Path
  /\ \A t, u \in W!WTask : W!worktreePath(t) = W!worktreePath(u) => t = u
  /\ \A p \in W!Path : \E t \in W!WTask : W!worktreePath(t) = p
<1>1. ASSUME NEW p \in Key PROVE \E t \in W!WTask : W!worktreePath(t) = p
  <2>1. PICK o \in Org : TRUE
    BY DeliveryAssumption
  <2>2. <<o, p>> \in W!WTask /\ W!worktreePath(<<o, p>>) = p
    BY DEF W!WTask, W!worktreePath
  <2> QED BY <2>2
<1>2. \A t \in W!WTask : t[1] \in Org /\ t[2] \in Key /\ t = <<t[1], t[2]>>
  BY DEF W!WTask
<1>3. \A t, u \in W!WTask : t[1] = u[1]
  BY <1>2, DeliveryAssumption
<1>4. ASSUME NEW t \in W!WTask, NEW u \in W!WTask, t[2] = u[2] PROVE t = u
  BY <1>2, <1>3, <1>4
<1> QED BY <1>1, <1>2, <1>4 DEF W!worktreePath, W!Path

LEMMA Places ==
  /\ W!WTask # {} /\ W!Repo # {}
  /\ (CHOOSE r \in W!Repo : TRUE) \in W!Repo
  /\ (CHOOSE t \in W!WTask : TRUE) \in W!WTask
<1>1. PICK o \in Org, k \in Key, q \in Place : TRUE
  BY DeliveryAssumption
<1>2. <<o, k>> \in W!WTask /\ <<o, q>> \in W!Repo
  BY DEF W!WTask, W!Repo
<1> QED BY <1>2

LEMMA Branches ==
  /\ W!NoBranch \notin W!Branch
  /\ \A p \in W!Path, n \in W!Title : <<p, n>> \in W!Branch
BY DEF W!NoBranch, W!Branch

LEMMA BranchNames ==
  ASSUME TaskTypes, NEW t \in W!WTask PROVE W!buildBranchName(t) \in W!Branch
BY OwnPath, Branches DEF TaskTypes, W!buildBranchName, PlannedTask

LEMMA TreeInit == W!Init => TreeInv
<1> SUFFICES ASSUME W!Init PROVE TreeInv
  OBVIOUS
<1>1. DiskTypes
  BY Places DEF W!Init, W!Absent, Folder, DiskTypes
<1>2. RegTypes /\ BranchTypes
  BY DeliveryAssumption DEF W!Init, RegTypes, BranchTypes
<1>3. RowTypes
  BY Places DEF W!Init, RowOfTree, RowTypes
<1>4. TaskTypes
  BY DEF W!Init, W!Title, PlannedTask, TaskTypes
<1>5. RunTypes /\ \A w \in Worker : proc[w].pc = "idle"
  BY Places DEF W!Init, W!Idle, TreeRun, Pc, RunTypes
<1>6. PastTypes
  BY DeliveryAssumption DEF W!Init, PastTypes
<1>7. \A p \in W!Path : ~disk[p].exists /\ disk[p].work = {}
  BY DEF W!Init, W!Absent
<1>8. Meetings /\ Planned /\ Fitting
  BY <1>5 DEF Meetings, Planned, Fitting, Fits, W!live
<1>9. Folders /\ Commits /\ Rows
  BY <1>7 DEF Folders, Commits, Rows, W!Init
<1>10. Held /\ Registered
  BY <1>7, OwnPath DEF Held, Registered, W!Init
<1> QED BY <1>1, <1>2, <1>3, <1>4, <1>5, <1>6, <1>8, <1>9, <1>10
  DEF TreeInv, W!Init, W!LossNeedsOverlap, W!RetriesCanProvision

-----------------------------------------------------------------------------
(* Each step keeps it. *)

LEMMA RunFields ==
  ASSUME RunTypes, NEW w \in Worker
  PROVE  /\ proc[w].t \in W!WTask /\ proc[w].repo \in W!Repo /\ W!path(w) \in W!Path
         /\ W!path(w) = W!worktreePath(proc[w].t)
         /\ proc[w].branch \in W!Branch \cup {W!NoBranch}
         /\ proc[w].match \in W!Branch \cup {W!NoBranch}
         /\ proc[w].met \in BOOLEAN /\ proc[w].blind \in BOOLEAN /\ proc[w].pc \in Pc
BY OwnPath DEF RunTypes, TreeRun, W!path

OtherRuns(w) == \A v \in Worker : v # w => proc'[v] = proc[v]
SameRun(w) ==
  /\ W!live(w) /\ proc'[w].t = proc[w].t /\ proc'[w].repo = proc[w].repo
  /\ proc'[w].branch = proc[w].branch /\ proc'[w].met = proc[w].met

LEMMA Gotos ==
  ASSUME RunTypes, NEW w \in Worker, W!live(w), NEW pc \in Pc, W!goto(w, pc)
  PROVE  /\ RunTypes' /\ OtherRuns(w) /\ SameRun(w) /\ proc'[w].pc = pc
         /\ proc'[w].match = proc[w].match /\ proc'[w].blind = proc[w].blind
BY DEF RunTypes, TreeRun, W!goto, OtherRuns, SameRun

LEMMA Ends ==
  ASSUME RunTypes, NEW w \in Worker, W!end(w)
  PROVE  RunTypes' /\ OtherRuns(w) /\ proc'[w].pc = "idle"
BY Places DEF RunTypes, TreeRun, W!end, W!Idle, OtherRuns, Pc

LEMMA Goes ==
  ASSUME RunTypes, Meetings, Planned, NEW w \in Worker, OtherRuns(w),
         proc'[w].pc = "idle" \/ SameRun(w),
         \A t \in W!WTask : task'[t].repo = task[t].repo /\ task'[t].title = task[t].title
  PROVE  Meetings' /\ Planned'
<1>1. \A v \in Worker : proc[v].t \in W!WTask
  BY RunFields
<1>2. \A t \in W!WTask : W!buildBranchName(t)' = W!buildBranchName(t)
  BY DEF W!buildBranchName
<1>3. Meetings'
  BY DEF Meetings, W!live, W!path, OtherRuns, SameRun
<1>4. Planned'
  BY <1>1, <1>2 DEF Planned, W!live, OtherRuns, SameRun
<1> QED BY <1>3, <1>4

\* A step that only moves a run on.
LEMMA RunMoves ==
  ASSUME TreeInv, NEW w \in Worker, RunTypes', OtherRuns(w),
         proc'[w].pc = "idle" \/ SameRun(w),
         UNCHANGED <<disk, reg, branch, made, task, lost, moves, runs>>,
         Fits(proc'[w], disk, reg), RowTypes', Rows', PastTypes', W!RetriesCanProvision'
  PROVE  TreeInv'
<1>1. DiskTypes' /\ RegTypes' /\ BranchTypes' /\ TaskTypes' /\ Folders' /\ Commits'
      /\ W!LossNeedsOverlap'
  BY DEF TreeInv, DiskTypes, RegTypes, BranchTypes, TaskTypes, Folders, Commits,
     W!LossNeedsOverlap
<1>2. Meetings' /\ Planned'
  BY Goes DEF TreeInv
<1>3. Fitting'
  BY DEF TreeInv, Fitting, OtherRuns
<1>4. Held' /\ Registered'
  BY DEF TreeInv, Held, Registered, W!buildBranchName
<1> QED BY <1>1, <1>2, <1>3, <1>4 DEF TreeInv

LEMMA StillRows ==
  ASSUME TreeInv, UNCHANGED <<row, lost, refused, moves, runs>>
  PROVE  RowTypes' /\ Rows' /\ PastTypes' /\ W!RetriesCanProvision'
BY DEF TreeInv, RowTypes, Rows, PastTypes, W!RetriesCanProvision

LEMMA Tree_provisionWorktree ==
  ASSUME TreeInv, NEW w \in Worker, NEW t \in W!WTask, W!provisionWorktree(w, t)
  PROVE  TreeInv'
<1> DEFINE peers == {v \in Worker : W!live(v) /\ W!path(v) = W!worktreePath(t)}
<1>1. /\ RunTypes' /\ W!live(w)' /\ proc'[w].t = t /\ proc'[w].repo = task[t].repo
      /\ proc'[w].branch = W!buildBranchName(t) /\ proc'[w].met = (peers # {})
      /\ proc'[w].pc = "checkout"
  <2> DEFINE new == [pc |-> "checkout", t |-> t, repo |-> task[t].repo,
                     branch |-> W!buildBranchName(t), match |-> W!NoBranch,
                     met |-> peers # {}, blind |-> FALSE]
             met(v) == [proc[v] EXCEPT !.met = TRUE]
  <2>1. task[t].repo \in W!Repo /\ W!buildBranchName(t) \in W!Branch
    BY BranchNames DEF TreeInv, TaskTypes, PlannedTask
  <2>2. new \in TreeRun
    BY <2>1 DEF TreeRun, Pc
  <2>3. \A v \in Worker : met(v) \in TreeRun
    BY DEF TreeInv, RunTypes, TreeRun
  <2>4. proc' = [v \in Worker |-> IF v = w THEN new ELSE IF v \in peers THEN met(v) ELSE proc[v]]
    BY DEF W!provisionWorktree
  <2>5. proc'[w] = new
    BY <2>4
  <2>6. RunTypes'
    BY <2>2, <2>3, <2>4 DEF TreeInv, RunTypes
  <2> QED BY <2>5, <2>6 DEF W!live
<1>2. \A v \in Worker : v # w =>
        /\ proc'[v].pc = proc[v].pc /\ proc'[v].t = proc[v].t /\ proc'[v].repo = proc[v].repo
        /\ proc'[v].branch = proc[v].branch /\ proc'[v].match = proc[v].match
        /\ proc'[v].blind = proc[v].blind /\ proc'[v].met = (proc[v].met \/ v \in peers)
  BY RunFields DEF TreeInv, W!provisionWorktree, RunTypes, TreeRun
<1>3. DiskTypes' /\ RegTypes' /\ BranchTypes' /\ RowTypes' /\ TaskTypes' /\ Folders' /\ Commits'
      /\ Rows' /\ Held' /\ Registered' /\ W!LossNeedsOverlap' /\ W!RetriesCanProvision'
  BY DEF TreeInv, DiskTypes, RegTypes, BranchTypes, RowTypes, TaskTypes, Folders, Commits, Rows,
     Held, Registered, W!LossNeedsOverlap, W!RetriesCanProvision, W!provisionWorktree,
     W!buildBranchName
<1>4. PastTypes'
  BY DeliveryAssumption DEF TreeInv, PastTypes, W!provisionWorktree
<1>5. Meetings'
  <2>1. \A v \in Worker : v # w => /\ W!live(v)' <=> W!live(v)
                                   /\ W!path(v)' = W!path(v)
    BY <1>2 DEF W!live, W!path
  <2>2. W!path(w)' = W!worktreePath(t)
    BY <1>1 DEF W!path
  <2>3. \A v \in Worker : v # w /\ W!live(v) /\ W!path(v) = W!worktreePath(t)
                            => v \in peers /\ proc'[v].met /\ proc'[w].met
    BY <1>1, <1>2
  <2>4. \A v, u \in Worker : v # w /\ u # w /\ v # u /\ W!live(v) /\ W!live(u)
                               /\ W!path(v) = W!path(u) => proc'[v].met
    BY <1>2 DEF TreeInv, Meetings
  <2> QED BY <2>1, <2>2, <2>3, <2>4 DEF Meetings
<1>6. Planned'
  BY <1>1, <1>2 DEF TreeInv, Planned, W!live, W!buildBranchName, W!provisionWorktree
<1>7. Fitting'
  <2>1. \A v \in Worker : v # w => Fits(proc'[v], disk, reg)
    <3>1. SUFFICES ASSUME NEW v \in Worker, v # w PROVE Fits(proc'[v], disk, reg)
      OBVIOUS
    <3>2. Fits(proc[v], disk, reg)
      BY DEF TreeInv, Fitting
    <3> QED BY <1>2, <3>1, <3>2 DEF Fits
  <2>2. Fits(proc'[w], disk, reg)
    BY <1>1 DEF Fits
  <2> QED BY <2>1, <2>2 DEF Fitting, W!provisionWorktree
<1> QED BY <1>1, <1>3, <1>4, <1>5, <1>6, <1>7 DEF TreeInv

LEMMA Tree_ensureCheckout ==
  ASSUME TreeInv, NEW w \in Worker, W!ensureCheckout(w)
  PROVE  TreeInv'
<1>1. RunTypes' /\ OtherRuns(w) /\ SameRun(w) /\ proc'[w].pc = "list"
  BY Gotos DEF TreeInv, W!ensureCheckout, W!live, Pc
<1>2. Fits(proc'[w], disk, reg)
  BY <1>1 DEF Fits
<1> QED BY <1>1, <1>2, RunMoves, StillRows DEF W!ensureCheckout

LEMMA Tree_listWorktrees ==
  ASSUME TreeInv, NEW w \in Worker, W!listWorktrees(w)
  PROVE  TreeInv'
<1>1. PICK blind \in BOOLEAN :
        proc' = [proc EXCEPT ![w].pc = "acquire", ![w].blind = blind,
                   ![w].match = IF blind THEN W!NoBranch ELSE reg[proc[w].repo][W!path(w)]]
  BY DEF W!listWorktrees
<1>2. reg[proc[w].repo][W!path(w)] \in W!Branch \cup {W!NoBranch}
  BY RunFields DEF TreeInv, RegTypes
<1>3. /\ RunTypes' /\ OtherRuns(w) /\ SameRun(w)
      /\ proc'[w].pc = "acquire" /\ proc'[w].blind = blind
      /\ proc'[w].match = IF blind THEN W!NoBranch ELSE reg[proc[w].repo][W!path(w)]
  <2> DEFINE match == IF blind THEN W!NoBranch ELSE reg[proc[w].repo][W!path(w)]
  <2>1. match \in W!Branch \cup {W!NoBranch}
    BY <1>2
  <2>2. proc' = [proc EXCEPT ![w].pc = "acquire", ![w].blind = blind, ![w].match = match]
    BY <1>1
  <2> HIDE DEF match
  <2> DEFINE next == [proc[w] EXCEPT !.pc = "acquire", !.blind = blind, !.match = match]
  <2>a. next \in TreeRun
    BY <2>1 DEF TreeInv, RunTypes, TreeRun, Pc
  <2>b. proc' = [proc EXCEPT ![w] = next]
    BY <2>2 DEF TreeInv, RunTypes
  <2>c. RunTypes' /\ OtherRuns(w)
    BY <2>a, <2>b DEF TreeInv, RunTypes, OtherRuns
  <2>d. SameRun(w)
    BY <2>b DEF TreeInv, RunTypes, TreeRun, SameRun, W!listWorktrees, W!live
  <2>3. RunTypes' /\ OtherRuns(w) /\ SameRun(w)
    BY <2>c, <2>d
  <2>4. proc'[w].pc = "acquire" /\ proc'[w].blind = blind /\ proc'[w].match = match
    BY <2>2 DEF TreeInv, RunTypes, TreeRun
  <2> QED BY <2>3, <2>4 DEF match
<1>4. proc[w].branch # W!NoBranch
  BY BranchNames, Branches, RunFields DEF TreeInv, Planned, W!listWorktrees, W!live
<1>5. Fits(proc'[w], disk, reg)
  BY <1>3, <1>4 DEF Fits, SameRun, W!path
<1> QED BY <1>3, <1>5, RunMoves, StillRows DEF W!listWorktrees

LEMMA Tree_acquire ==
  ASSUME TreeInv, NEW w \in Worker, W!acquire(w)
  PROVE  TreeInv'
<1>1. /\ RunTypes' /\ OtherRuns(w) /\ SameRun(w) /\ proc'[w].blind = proc[w].blind
      /\ proc'[w].pc = IF W!reusable(w) THEN "record" ELSE "remove"
  BY Gotos DEF TreeInv, W!acquire, W!live, Pc
<1>2. Fits(proc[w], disk, reg) /\ proc[w].pc = "acquire"
  BY DEF TreeInv, Fitting, W!acquire
<1>3. CASE W!reusable(w)
  BY <1>1, <1>2, <1>3, RunMoves, StillRows DEF Fits, SameRun, W!path, W!reusable, W!acquire
<1>4. CASE ~W!reusable(w)
  <2>1. ASSUME ~proc[w].met, ~proc[w].blind, disk[W!path(w)].work # {} PROVE FALSE
    <3>1. disk[W!path(w)].exists
      BY <2>1, RunFields DEF TreeInv, Folders
    <3>2. reg[proc[w].repo][W!path(w)] = proc[w].branch
      BY <2>1, <1>2, RunFields DEF TreeInv, Held, Planned, W!live
    <3> QED BY <1>2, <1>4, <2>1, <3>1, <3>2 DEF Fits, W!path, W!reusable
  <2>2. Fits(proc'[w], disk, reg)
    BY <1>1, <1>4, <2>1 DEF Fits, SameRun, W!path
  <2> QED BY <1>1, <2>2, RunMoves, StillRows DEF W!acquire
<1> QED BY <1>3, <1>4

LEMMA Tree_AddRefused ==
  ASSUME TreeInv, NEW w \in Worker, W!AddRefused(w)
  PROVE  TreeInv'
<1>1. RunTypes' /\ OtherRuns(w) /\ proc'[w].pc = "idle"
  BY Ends DEF TreeInv, W!AddRefused
<1>2. proc[w].met
  BY DEF TreeInv, Fitting, Fits, W!AddRefused, W!path
<1>3. RowTypes' /\ Rows' /\ W!RetriesCanProvision'
  BY <1>2 DEF TreeInv, RowTypes, Rows, W!RetriesCanProvision, W!AddRefused
<1>4. PastTypes'
  BY RunFields DEF TreeInv, PastTypes, W!AddRefused
<1>5. Fits(proc'[w], disk, reg)
  BY <1>1 DEF Fits
<1> QED BY <1>1, <1>3, <1>4, <1>5, RunMoves DEF W!AddRefused

LEMMA Tree_Record ==
  ASSUME TreeInv, NEW w \in Worker, W!Record(w)
  PROVE  TreeInv'
<1>1. RunTypes' /\ OtherRuns(w) /\ SameRun(w) /\ proc'[w].pc = "ready"
  BY Gotos DEF TreeInv, W!Record, W!live, Pc
<1>2. RowTypes'
  BY RunFields DEF TreeInv, W!Record, RowTypes, RowOfTree
<1>3. Rows'
  BY RunFields DEF TreeInv, W!Record, Rows, RowTypes, RowOfTree
<1>4. PastTypes' /\ W!RetriesCanProvision'
  BY DEF TreeInv, PastTypes, W!RetriesCanProvision, W!Record
<1>5. Fits(proc'[w], disk, reg)
  BY <1>1 DEF TreeInv, Fitting, Fits, SameRun, W!Record
<1> QED BY <1>1, <1>2, <1>3, <1>4, <1>5, RunMoves DEF W!Record

LEMMA Tree_Complete ==
  ASSUME TreeInv, NEW w \in Worker, W!Complete(w)
  PROVE  TreeInv'
<1>1. RunTypes' /\ OtherRuns(w) /\ SameRun(w) /\ proc'[w].pc = "release"
  BY Gotos DEF TreeInv, W!Complete, W!live, Pc
<1>2. Fits(proc'[w], disk, reg)
  BY <1>1 DEF TreeInv, Fitting, Fits, SameRun, W!Complete, W!isClean, W!path
<1> QED BY <1>1, <1>2, RunMoves, StillRows DEF W!Complete

LEMMA Tree_Stop ==
  ASSUME TreeInv, NEW w \in Worker, W!Stop(w)
  PROVE  TreeInv'
<1>1. RunTypes' /\ OtherRuns(w) /\ proc'[w].pc = "idle"
  BY Ends DEF TreeInv, W!Stop
<1>2. Fits(proc'[w], disk, reg)
  BY <1>1 DEF Fits
<1> QED BY <1>1, <1>2, RunMoves, StillRows DEF W!Stop

\* A folder that goes, with registrations that are pruned.
Forgotten ==
  /\ \A p \in W!Path : disk'[p] = disk[p] \/ (~disk'[p].exists /\ disk'[p].work = {})
  /\ \A r \in W!Repo, p \in W!Path :
       reg'[r][p] = reg[r][p] \/ (reg'[r][p] = W!NoBranch /\ ~disk'[p].exists)

LEMMA Forgets ==
  ASSUME TreeInv, Forgotten, UNCHANGED <<branch, made, task>>
  PROVE  /\ BranchTypes' /\ TaskTypes' /\ Folders' /\ Commits' /\ Held' /\ Registered'
         /\ \A w \in Worker : Fits(proc[w], disk', reg')
<1>1. BranchTypes' /\ TaskTypes' /\ Commits'
  BY DEF TreeInv, BranchTypes, TaskTypes, Commits
<1>2. Folders'
  BY DEF TreeInv, Folders, Forgotten
<1>3. ASSUME NEW t \in W!WTask
      PROVE  task'[t].repo \in W!Repo /\ W!buildBranchName(t)' = W!buildBranchName(t)
  BY DEF TreeInv, TaskTypes, PlannedTask, W!buildBranchName
<1>4. Held'
  <2>1. SUFFICES ASSUME NEW t \in W!WTask, disk'[W!worktreePath(t)].work # {}
                 PROVE  /\ task[t].worked
                        /\ reg'[task[t].repo][W!worktreePath(t)] = W!buildBranchName(t)
    BY <1>3 DEF Held
  <2>2. disk'[W!worktreePath(t)] = disk[W!worktreePath(t)]
    BY <2>1, OwnPath DEF Forgotten
  <2>3. disk[W!worktreePath(t)].exists
    BY <2>1, <2>2, OwnPath DEF TreeInv, Folders
  <2>4. task[t].repo \in W!Repo
    BY <1>3
  <2> QED BY <2>1, <2>2, <2>3, <2>4, OwnPath DEF TreeInv, Held, Forgotten
<1>5. Registered'
  BY <1>3, OwnPath DEF TreeInv, Registered, Forgotten
<1>6. ASSUME NEW w \in Worker PROVE Fits(proc[w], disk', reg')
  <2>1. Fits(proc[w], disk, reg)
    BY DEF TreeInv, Fitting
  <2>2. proc[w].repo \in W!Repo /\ W!worktreePath(proc[w].t) \in W!Path
    BY RunFields, OwnPath DEF TreeInv
  <2> QED BY <2>1, <2>2 DEF Fits, Forgotten
<1> QED BY <1>1, <1>2, <1>4, <1>5, <1>6

LEMMA Removes ==
  ASSUME DiskTypes, RegTypes, NEW r \in W!Repo, NEW p \in W!Path, W!removeWorktree(r, p)
  PROVE  /\ DiskTypes' /\ RegTypes' /\ Forgotten
         /\ ~disk'[p].exists /\ disk'[p].work = {} /\ reg'[r][p] = W!NoBranch
<1>1. W!Absent \in Folder /\ ~W!Absent.exists /\ W!Absent.work = {}
  BY Places DEF W!Absent, Folder
<1>2. /\ disk' = [disk EXCEPT ![p] = W!Absent]
      /\ reg' = [reg EXCEPT ![r] = W!prune(reg[r], disk')]
  BY DEF W!removeWorktree
<1>3. DiskTypes' /\ disk'[p] = W!Absent
  BY <1>1, <1>2 DEF DiskTypes
<1>4. W!prune(reg[r], disk')
        = [q \in W!Path |-> IF disk'[q].exists THEN reg[r][q] ELSE W!NoBranch]
  BY DEF W!prune
<1>5. RegTypes'
  <2>1. W!prune(reg[r], disk') \in [W!Path -> W!Branch \cup {W!NoBranch}]
    BY <1>4 DEF RegTypes
  <2> QED BY <1>2, <2>1 DEF RegTypes
<1>6. Forgotten
  BY <1>1, <1>2, <1>4 DEF Forgotten, DiskTypes, RegTypes
<1> QED BY <1>1, <1>2, <1>3, <1>4, <1>5, <1>6 DEF RegTypes

LEMMA Loses ==
  ASSUME TreeInv, NEW w \in Worker, NEW p \in W!Path, W!loses(w, p),
         proc[w].met \/ proc[w].blind \/ disk[p].work = {}
  PROVE  /\ lost' \subseteq [by : W!WTask, of : W!WTask, met : BOOLEAN, blind : BOOLEAN]
         /\ W!LossNeedsOverlap'
<1>1. disk[p].work \subseteq W!WTask
  BY DEF TreeInv, DiskTypes, Folder
<1>2. \A l \in lost' : l \in lost \/ \E u \in disk[p].work :
         l = [by |-> proc[w].t, of |-> u, met |-> proc[w].met, blind |-> proc[w].blind]
  BY DEF W!loses
<1>3. proc[w].t \in W!WTask /\ proc[w].met \in BOOLEAN /\ proc[w].blind \in BOOLEAN
  BY RunFields DEF TreeInv
<1>4. lost' \subseteq [by : W!WTask, of : W!WTask, met : BOOLEAN, blind : BOOLEAN]
  BY <1>1, <1>2, <1>3 DEF TreeInv, PastTypes
<1>5. W!LossNeedsOverlap'
  BY <1>2 DEF TreeInv, W!LossNeedsOverlap
<1> QED BY <1>4, <1>5

LEMMA Tree_Recycle ==
  ASSUME TreeInv, NEW w \in Worker, W!Recycle(w)
  PROVE  TreeInv'
<1>1. RunTypes' /\ OtherRuns(w) /\ SameRun(w) /\ proc'[w].pc = "add"
  BY Gotos DEF TreeInv, W!Recycle, W!live, Pc
<1>2. /\ DiskTypes' /\ RegTypes' /\ Forgotten
      /\ ~disk'[W!path(w)].exists /\ reg'[proc[w].repo][W!path(w)] = W!NoBranch
  BY Removes, RunFields DEF TreeInv, W!Recycle
<1>3. Fits(proc[w], disk, reg) /\ proc[w].pc = "remove"
  BY DEF TreeInv, Fitting, W!Recycle
<1>4. proc[w].met \/ proc[w].blind \/ disk[W!path(w)].work = {}
  BY <1>3 DEF Fits, W!path
<1>5. /\ lost' \subseteq [by : W!WTask, of : W!WTask, met : BOOLEAN, blind : BOOLEAN]
      /\ W!LossNeedsOverlap'
  BY <1>4, Loses, RunFields DEF TreeInv, W!Recycle
<1>6. RowTypes' /\ Rows' /\ PastTypes' /\ W!RetriesCanProvision'
  BY <1>5 DEF TreeInv, RowTypes, Rows, PastTypes, W!RetriesCanProvision, W!Recycle
<1>7. Meetings' /\ Planned'
  BY <1>1, Goes DEF TreeInv, W!Recycle
<1>8. /\ BranchTypes' /\ TaskTypes' /\ Folders' /\ Commits' /\ Held' /\ Registered'
      /\ \A v \in Worker : Fits(proc[v], disk', reg')
  BY <1>2, Forgets DEF W!Recycle
<1>9. Fits(proc'[w], disk', reg')
  BY <1>1, <1>2 DEF Fits, SameRun, W!path
<1>10. Fitting'
  BY <1>1, <1>8, <1>9 DEF Fitting, OtherRuns
<1> QED BY <1>1, <1>2, <1>5, <1>6, <1>7, <1>8, <1>10 DEF TreeInv

LEMMA Tree_FolderDeleted ==
  ASSUME TreeInv, NEW p \in W!Path, W!FolderDeleted(p)
  PROVE  TreeInv'
<1>1. W!Absent \in Folder /\ ~W!Absent.exists /\ W!Absent.work = {}
  BY Places DEF W!Absent, Folder
<1>2. DiskTypes' /\ Forgotten
  BY <1>1 DEF TreeInv, DiskTypes, Forgotten, W!FolderDeleted
<1>3. /\ BranchTypes' /\ TaskTypes' /\ Folders' /\ Commits' /\ Held' /\ Registered'
      /\ \A v \in Worker : Fits(proc[v], disk', reg')
  BY <1>2, Forgets DEF W!FolderDeleted
<1>4. Fitting'
  BY <1>3 DEF Fitting, W!FolderDeleted
<1>5. /\ RegTypes' /\ RowTypes' /\ RunTypes' /\ PastTypes' /\ Meetings' /\ Planned' /\ Rows'
      /\ W!LossNeedsOverlap' /\ W!RetriesCanProvision'
  BY DEF TreeInv, RegTypes, RowTypes, RunTypes, PastTypes, Meetings, Planned, Rows, W!live,
     W!path, W!buildBranchName, W!LossNeedsOverlap, W!RetriesCanProvision, W!FolderDeleted
<1> QED BY <1>2, <1>3, <1>4, <1>5 DEF TreeInv

LEMMA Tree_releaseWorktree ==
  ASSUME TreeInv, NEW w \in Worker, W!releaseWorktree(w)
  PROVE  TreeInv'
<1> DEFINE mine == {x \in W!Repo \X W!Path :
                      row[x[1]][x[2]] = [t |-> proc[w].t, status |-> "ACTIVE"]}
<1>1. RunTypes' /\ OtherRuns(w) /\ proc'[w].pc = "idle"
  BY Ends DEF TreeInv, W!releaseWorktree
<1>2. Fits(proc[w], disk, reg) /\ proc[w].pc = "release"
  BY DEF TreeInv, Fitting, W!releaseWorktree
<1>3. proc[w].met \/ disk[W!path(w)].work = {}
  BY <1>2 DEF Fits, W!path
<1>4. ASSUME NEW x \in mine PROVE x[1] \in W!Repo /\ x[2] \in W!Path /\ x[2] = W!path(w)
  BY RunFields DEF TreeInv, Rows
<1>5. \/ UNCHANGED <<disk, reg, row, lost>>
      \/ \E x \in mine :
           /\ row' = [row EXCEPT ![x[1]][x[2]].status = "RELEASED"]
           /\ \/ UNCHANGED <<disk, reg, lost>>
              \/ W!removeWorktree(x[1], x[2]) /\ W!loses(w, x[2])
  BY DEF W!releaseWorktree
<1>6. UNCHANGED <<branch, made, task, refused, moves, runs>>
  BY DEF W!releaseWorktree
<1>7. RowTypes' /\ Rows'
  <2>1. CASE UNCHANGED row
    BY <2>1 DEF TreeInv, RowTypes, Rows
  <2>2. ASSUME NEW x \in mine, row' = [row EXCEPT ![x[1]][x[2]].status = "RELEASED"]
        PROVE  RowTypes' /\ Rows'
    <3>1. x[1] \in W!Repo /\ x[2] \in W!Path
      BY <1>4
    <3>2. RowTypes'
      BY <2>2, <3>1 DEF TreeInv, RowTypes, RowOfTree
    <3>3. W!worktreePath(row[x[1]][x[2]].t) = x[2]
      BY <3>1 DEF TreeInv, Rows
    <3>4. row'[x[1]][x[2]].t = row[x[1]][x[2]].t
      BY <2>2, <3>1 DEF TreeInv, RowTypes, RowOfTree
    <3>5. \A r \in W!Repo, p \in W!Path : r # x[1] \/ p # x[2] => row'[r][p] = row[r][p]
      BY <2>2, <3>1 DEF TreeInv, RowTypes
    <3> QED BY <3>2, <3>3, <3>4, <3>5 DEF TreeInv, Rows
  <2> QED BY <1>5, <2>1, <2>2
<1>8. /\ DiskTypes' /\ RegTypes' /\ Forgotten /\ W!LossNeedsOverlap'
      /\ lost' \subseteq [by : W!WTask, of : W!WTask, met : BOOLEAN, blind : BOOLEAN]
  <2>1. CASE UNCHANGED <<disk, reg, lost>>
    BY <2>1 DEF TreeInv, DiskTypes, RegTypes, Forgotten, W!LossNeedsOverlap, PastTypes
  <2>2. CASE \E x \in mine : W!removeWorktree(x[1], x[2]) /\ W!loses(w, x[2])
    <3>1. PICK x \in mine : W!removeWorktree(x[1], x[2]) /\ W!loses(w, x[2])
      BY <2>2
    <3>2. x[1] \in W!Repo /\ x[2] \in W!Path /\ x[2] = W!path(w)
      BY <1>4
    <3> QED BY <1>3, <3>1, <3>2, Removes, Loses DEF TreeInv
  <2> QED BY <1>5, <2>1, <2>2
<1>9. /\ BranchTypes' /\ TaskTypes' /\ Folders' /\ Commits' /\ Held' /\ Registered'
      /\ \A v \in Worker : Fits(proc[v], disk', reg')
  BY <1>6, <1>8, Forgets
<1>10. Meetings' /\ Planned'
  BY <1>1, <1>6, Goes DEF TreeInv
<1>11. Fitting'
  BY <1>1, <1>9 DEF Fitting, Fits, OtherRuns
<1>12. PastTypes' /\ W!RetriesCanProvision'
  BY <1>6, <1>8 DEF TreeInv, PastTypes, W!RetriesCanProvision
<1> QED BY <1>1, <1>7, <1>8, <1>9, <1>10, <1>11, <1>12 DEF TreeInv

\* What runs of other tasks know of a path, and what runs of the same task do
\* where they met, once the folder there is w's.
LEMMA OtherFits ==
  ASSUME TreeInv, NEW w \in Worker, NEW v \in Worker, v # w, W!live(w),
         \A p \in W!Path : p # W!path(w) =>
           disk'[p] = disk[p] /\ \A r \in W!Repo : reg'[r][p] = reg[r][p],
         reg'[proc[w].repo][W!path(w)] = proc[w].branch
  PROVE  Fits(proc[v], disk', reg')
<1>1. Fits(proc[v], disk, reg)
  BY DEF TreeInv, Fitting
<1>2. proc[v].repo \in W!Repo /\ W!path(v) \in W!Path /\ W!path(v) = W!worktreePath(proc[v].t)
  BY RunFields DEF TreeInv
<1>3. CASE W!path(v) # W!path(w)
  BY <1>1, <1>2, <1>3 DEF Fits
<1>4. CASE W!path(v) = W!path(w) /\ W!live(v)
  <2>1. proc[v].t = proc[w].t
    BY <1>4, RunFields, OwnPath DEF TreeInv, W!path
  <2>2. proc[v].repo = proc[w].repo /\ proc[v].branch = proc[w].branch /\ proc[v].met
    BY <1>4, <2>1 DEF TreeInv, Planned, Meetings
  <2> QED BY <1>2, <1>4, <2>2 DEF Fits
<1>5. CASE ~W!live(v)
  BY <1>5 DEF Fits, W!live
<1> QED BY <1>3, <1>4, <1>5

\* A row of a table of rows is replaced in one place.
LEMMA OneEntry ==
  ASSUME NEW X, NEW Y, NEW V, NEW f \in [X -> [Y -> V]], NEW x \in X, NEW y \in Y, NEW v \in V
  PROVE  /\ [f EXCEPT ![x][y] = v] \in [X -> [Y -> V]]
         /\ [f EXCEPT ![x][y] = v][x][y] = v
         /\ \A s \in X, c \in Y : s # x \/ c # y => [f EXCEPT ![x][y] = v][s][c] = f[s][c]
OBVIOUS

LEMMA Tree_Add ==
  ASSUME TreeInv, NEW w \in Worker, W!Add(w)
  PROVE  TreeInv'
<1> DEFINE p == W!path(w)
           r == proc[w].repo
           b == proc[w].branch
           t == proc[w].t
           new == [exists |-> TRUE, repo |-> r, branch |-> b, work |-> {}]
<1>1. RunTypes' /\ OtherRuns(w) /\ SameRun(w) /\ proc'[w].pc = "record"
  BY Gotos DEF TreeInv, W!Add, W!live, Pc
<1>2. /\ t \in W!WTask /\ r \in W!Repo /\ p \in W!Path /\ p = W!worktreePath(t)
      /\ b \in W!Branch /\ r = task[t].repo /\ b = W!buildBranchName(t)
  BY RunFields, BranchNames DEF TreeInv, Planned, W!Add, W!live
<1>3. /\ disk' = [disk EXCEPT ![p] = new]
      /\ reg' = [reg EXCEPT ![r][p] = b]
      /\ branch' = [branch EXCEPT ![r][b] = IF branch[r][b] = -1 THEN 0 ELSE branch[r][b]]
      /\ UNCHANGED <<made, row, task, lost, refused, moves, runs>>
  BY DEF W!Add, W!addWorktree, TreeInv, BranchTypes
<1>4. DiskTypes' /\ disk'[p] = new /\ \A q \in W!Path : q # p => disk'[q] = disk[q]
  <2>1. new \in Folder
    BY <1>2 DEF Folder
  <2> QED BY <1>2, <1>3, <2>1 DEF TreeInv, DiskTypes
<1>5. /\ RegTypes' /\ reg'[r][p] = b
      /\ \A s \in W!Repo, q \in W!Path : s # r \/ q # p => reg'[s][q] = reg[s][q]
  BY <1>2, <1>3 DEF TreeInv, RegTypes
<1>6. /\ BranchTypes'
      /\ branch'[r][b] = IF branch[r][b] = -1 THEN 0 ELSE branch[r][b]
      /\ \A s \in W!Repo, c \in W!Branch : s # r \/ c # b => branch'[s][c] = branch[s][c]
  <2> DEFINE n == IF branch[r][b] = -1 THEN 0 ELSE branch[r][b]
  <2>1. n \in -1..MaxCommits
    BY <1>2, DeliveryAssumption DEF TreeInv, BranchTypes
  <2>2. branch' = [branch EXCEPT ![r][b] = n]
    BY <1>3
  <2> HIDE DEF n
  <2>a. branch \in [W!Repo -> [W!Branch -> -1..MaxCommits]]
    BY DEF TreeInv, BranchTypes
  <2>b. /\ branch' \in [W!Repo -> [W!Branch -> -1..MaxCommits]] /\ branch'[r][b] = n
        /\ \A s \in W!Repo, c \in W!Branch : s # r \/ c # b => branch'[s][c] = branch[s][c]
    <3>1. r \in W!Repo /\ b \in W!Branch BY <1>2
    <3> HIDE DEF r, b
    <3>2. [branch EXCEPT ![r][b] = n] \in [W!Repo -> [W!Branch -> -1..MaxCommits]]
      BY ONLY <2>1, <2>a, <3>1, OneEntry
    <3>3. [branch EXCEPT ![r][b] = n][r][b] = n
      BY ONLY <2>1, <2>a, <3>1, OneEntry
    <3>4. \A s \in W!Repo, c \in W!Branch :
             s # r \/ c # b => [branch EXCEPT ![r][b] = n][s][c] = branch[s][c]
      BY ONLY <2>1, <2>a, <3>1, OneEntry
    <3> QED BY ONLY <2>2, <3>2, <3>3, <3>4
  <2>3. BranchTypes' /\ branch'[r][b] = n
    BY <1>3, <2>b DEF TreeInv, BranchTypes
  <2>4. \A s \in W!Repo, c \in W!Branch : s # r \/ c # b => branch'[s][c] = branch[s][c]
    BY <2>b
  <2> QED BY <2>3, <2>4 DEF n
<1> HIDE DEF p, r, b, t
<1>7. Folders'
  <2>1. \A s \in W!Repo, c \in W!Branch : branch[s][c] # -1 => branch'[s][c] # -1
    BY <1>6
  <2>2. \A q \in W!Path : disk[q].repo \in W!Repo
    BY DEF TreeInv, DiskTypes, Folder
  <2>3. branch'[r][b] # -1
    BY <1>6
  <2> QED BY <1>2, <1>4, <2>1, <2>2, <2>3 DEF TreeInv, Folders
<1>8. Commits'
  <2>1. branch'[r][b] = made[r][b]
    BY <1>2, <1>6 DEF TreeInv, Commits, BranchTypes
  <2> QED BY <1>2, <1>3, <1>6, <2>1 DEF TreeInv, Commits
<1>9. TaskTypes' /\ RowTypes' /\ Rows' /\ PastTypes' /\ W!LossNeedsOverlap'
      /\ W!RetriesCanProvision'
  BY <1>3 DEF TreeInv, TaskTypes, RowTypes, Rows, PastTypes, W!LossNeedsOverlap,
     W!RetriesCanProvision
<1>10. Meetings' /\ Planned'
  BY <1>1, <1>3, Goes DEF TreeInv
<1>11. Fitting'
  <2>1. \A v \in Worker : v # w => Fits(proc[v], disk', reg')
    BY <1>1, <1>4, <1>5, OtherFits DEF p, r, b, SameRun
  <2>2. Fits(proc'[w], disk', reg')
    BY <1>1, <1>2, <1>5 DEF Fits, SameRun, p, r, b, t
  <2> QED BY <1>1, <2>1, <2>2 DEF Fitting, OtherRuns
<1>12. \A u \in W!WTask : /\ W!buildBranchName(u)' = W!buildBranchName(u) /\ task'[u] = task[u]
                          /\ task[u].repo \in W!Repo
  BY <1>3 DEF W!buildBranchName, TreeInv, TaskTypes, PlannedTask
<1>13. Held'
  BY <1>2, <1>4, <1>5, <1>12, OwnPath DEF TreeInv, Held
<1>14. Registered'
  <2>1. ASSUME NEW u \in W!WTask, u # t
        PROVE  /\ W!worktreePath(u) # p /\ W!worktreePath(u) \in W!Path
    BY <1>2, <2>1, OwnPath
  <2> QED BY <1>2, <1>4, <1>5, <1>12, <2>1, OwnPath DEF TreeInv, Registered
<1> QED BY <1>1, <1>4, <1>5, <1>6, <1>7, <1>8, <1>9, <1>10, <1>11, <1>13, <1>14 DEF TreeInv

\* Steps that change files only.
LEMMA Tree_Work ==
  ASSUME TreeInv, NEW w \in Worker, W!Work(w)
  PROVE  TreeInv'
<1> DEFINE p == W!path(w)
           t == proc[w].t
           new == [disk[p] EXCEPT !.work = disk[p].work \cup {t}]
<1>1. /\ t \in W!WTask /\ p \in W!Path /\ p = W!worktreePath(t)
      /\ proc[w].pc = "ready" /\ disk[p].exists /\ W!live(w)
  BY RunFields DEF TreeInv, W!Work, W!live
<1>2. /\ disk' = [disk EXCEPT ![p] = new]
      /\ task' = [task EXCEPT ![t].worked = TRUE]
      /\ UNCHANGED <<reg, branch, made, row, proc, lost, refused, moves, runs>>
  BY DEF W!Work, TreeInv, DiskTypes, Folder
<1>3. /\ DiskTypes' /\ \A q \in W!Path : q # p => disk'[q] = disk[q]
      /\ disk'[p].exists /\ disk'[p].repo = disk[p].repo /\ disk'[p].branch = disk[p].branch
  <2>1. new \in Folder
    BY <1>1 DEF TreeInv, DiskTypes, Folder
  <2> QED BY <1>1, <1>2, <2>1 DEF TreeInv, DiskTypes, Folder
<1>4. /\ TaskTypes' /\ task'[t].worked /\ \A u \in W!WTask : u # t => task'[u] = task[u]
      /\ \A u \in W!WTask : /\ task'[u].repo = task[u].repo /\ task'[u].title = task[u].title
                            /\ task'[u].returned = task[u].returned /\ task'[u].was = task[u].was
                            /\ W!buildBranchName(u)' = W!buildBranchName(u)
  BY <1>1, <1>2 DEF TreeInv, TaskTypes, PlannedTask, W!buildBranchName
<1>5. reg[proc[w].repo][p] = proc[w].branch
  BY <1>1 DEF TreeInv, Fitting, Fits
<1>6. proc[w].repo = task[t].repo /\ proc[w].branch = W!buildBranchName(t)
  BY <1>1 DEF TreeInv, Planned
<1>7. OtherRuns(w) /\ SameRun(w) /\ RunTypes'
  BY <1>1, <1>2 DEF OtherRuns, SameRun, TreeInv, RunTypes
<1> HIDE DEF p, t
<1>8. Meetings' /\ Planned'
  BY <1>4, <1>7, Goes DEF TreeInv
<1>9. /\ RegTypes' /\ BranchTypes' /\ RowTypes' /\ Rows' /\ PastTypes' /\ Commits'
      /\ W!LossNeedsOverlap' /\ W!RetriesCanProvision'
  BY <1>2 DEF TreeInv, RegTypes, BranchTypes, RowTypes, Rows, PastTypes, Commits,
     W!LossNeedsOverlap, W!RetriesCanProvision
<1>10. Folders'
  BY <1>1, <1>2, <1>3 DEF TreeInv, Folders
<1>11. Fitting'
  <2>1. \A v \in Worker : v # w => Fits(proc[v], disk', reg')
    BY <1>1, <1>2, <1>3, <1>5, OtherFits DEF p
  <2>2. Fits(proc[w], disk', reg')
    BY <1>1, <1>2, <1>5 DEF Fits, p, t
  <2> QED BY <1>2, <2>1, <2>2 DEF Fitting
<1>12. Held'
  <2>1. ASSUME NEW u \in W!WTask, u # t
        PROVE  /\ W!worktreePath(u) # p /\ W!worktreePath(u) \in W!Path
    BY <1>1, <2>1, OwnPath
  <2> QED BY <1>1, <1>2, <1>3, <1>4, <1>5, <1>6, <2>1 DEF TreeInv, Held
<1>13. Registered'
  BY <1>1, <1>2, <1>3, <1>4, OwnPath DEF TreeInv, Registered
<1> QED BY <1>3, <1>4, <1>7, <1>8, <1>9, <1>10, <1>11, <1>12, <1>13 DEF TreeInv

LEMMA Tree_commitWork ==
  ASSUME TreeInv, NEW w \in Worker, W!commitWork(w)
  PROVE  TreeInv'
<1> DEFINE p == W!path(w)
           t == proc[w].t
           r == disk[p].repo
           b == disk[p].branch
           new == [disk[p] EXCEPT !.work = {}]
<1>1. /\ t \in W!WTask /\ p \in W!Path /\ p = W!worktreePath(t)
      /\ proc[w].pc = "ready" /\ disk[p].exists /\ W!live(w)
  BY RunFields DEF TreeInv, W!commitWork, W!live
<1>2. r \in W!Repo /\ b \in W!Branch /\ branch[r][b] # -1
  BY <1>1 DEF TreeInv, Folders, DiskTypes, Folder
<1>3. branch[r][b] \in Int /\ made[r][b] \in Int /\ branch[r][b] = made[r][b]
      /\ made[r][b] + 1 \in 0..MaxCommits
  BY <1>2, DeliveryAssumption DEF TreeInv, BranchTypes, Commits, W!commitWork
<1>4. /\ disk' = [disk EXCEPT ![p] = new]
      /\ branch' = [branch EXCEPT ![r][b] = branch[r][b] + 1]
      /\ made' = [made EXCEPT ![r][b] = made[r][b] + 1]
      /\ UNCHANGED <<reg, row, task, proc, lost, refused, moves, runs>>
  BY DEF W!commitWork, TreeInv, DiskTypes, Folder, BranchTypes
<1>5. /\ DiskTypes' /\ \A q \in W!Path : q # p => disk'[q] = disk[q]
      /\ disk'[p].exists /\ disk'[p].repo = r /\ disk'[p].branch = b /\ disk'[p].work = {}
  <2>1. new \in Folder
    BY <1>1 DEF TreeInv, DiskTypes, Folder
  <2> QED BY <1>1, <1>4, <2>1 DEF TreeInv, DiskTypes, Folder
<1>6. /\ branch'[r][b] = branch[r][b] + 1 /\ made'[r][b] = made[r][b] + 1
      /\ \A s \in W!Repo, c \in W!Branch : s # r \/ c # b =>
           branch'[s][c] = branch[s][c] /\ made'[s][c] = made[s][c]
  BY <1>2, <1>4 DEF TreeInv, BranchTypes
<1>7. BranchTypes'
  <2>1. r \in W!Repo /\ b \in W!Branch BY <1>2
  <2>2. /\ branch \in [W!Repo -> [W!Branch -> -1..MaxCommits]]
        /\ made \in [W!Repo -> [W!Branch -> 0..MaxCommits]]
    BY DEF TreeInv, BranchTypes
  <2>3. branch[r][b] + 1 \in -1..MaxCommits /\ made[r][b] + 1 \in 0..MaxCommits
    BY <1>3, DeliveryAssumption
  <2> HIDE DEF r, b
  <2>4. [branch EXCEPT ![r][b] = branch[r][b] + 1] \in [W!Repo -> [W!Branch -> -1..MaxCommits]]
    BY ONLY <2>1, <2>2, <2>3, OneEntry
  <2>5. [made EXCEPT ![r][b] = made[r][b] + 1] \in [W!Repo -> [W!Branch -> 0..MaxCommits]]
    BY ONLY <2>1, <2>2, <2>3, OneEntry
  <2> QED BY <1>4, <2>4, <2>5 DEF BranchTypes
<1>8. reg[proc[w].repo][p] = proc[w].branch
  BY <1>1 DEF TreeInv, Fitting, Fits
<1> HIDE DEF p, t, r, b
<1>9. Commits'
  BY <1>3, <1>6 DEF TreeInv, Commits
<1>10. Folders'
  <2>1. \A s \in W!Repo, c \in W!Branch : branch[s][c] # -1 => branch'[s][c] # -1
    BY <1>3, <1>6
  <2>2. \A q \in W!Path : disk[q].repo \in W!Repo
    BY DEF TreeInv, DiskTypes, Folder
  <2> QED BY <1>1, <1>2, <1>5, <2>1, <2>2 DEF TreeInv, Folders
<1>11. /\ RegTypes' /\ RowTypes' /\ TaskTypes' /\ RunTypes' /\ PastTypes' /\ Meetings'
       /\ Planned' /\ Rows' /\ W!LossNeedsOverlap' /\ W!RetriesCanProvision'
  BY <1>4 DEF TreeInv, RegTypes, RowTypes, TaskTypes, RunTypes, PastTypes, Meetings, Planned,
     Rows, W!live, W!path, W!buildBranchName, W!LossNeedsOverlap, W!RetriesCanProvision
<1>12. Fitting'
  <2>1. \A v \in Worker : v # w => Fits(proc[v], disk', reg')
    BY <1>1, <1>4, <1>5, <1>8, OtherFits DEF p
  <2>2. Fits(proc[w], disk', reg')
    BY <1>1, <1>4, <1>8 DEF Fits, p, t
  <2> QED BY <1>4, <2>1, <2>2 DEF Fitting
<1>13. Held' /\ Registered'
  BY <1>1, <1>4, <1>5, OwnPath DEF TreeInv, Held, Registered, r, b, W!buildBranchName
<1> QED BY <1>5, <1>7, <1>9, <1>10, <1>11, <1>12, <1>13 DEF TreeInv

LEMMA Tree_EditTask ==
  ASSUME TreeInv, NEW t \in W!WTask, W!EditTask(t)
  PROVE  TreeInv'
<1>1. PICK n \in W!Title, r \in W!reposOf(t) :
        task' = [task EXCEPT ![t].title = n, ![t].repo = r,
                   ![t].was = task[t].was \cup {task[t].repo},
                   ![t].returned = task[t].returned
                     \/ (r # task[t].repo /\ r \in task[t].was \cup {task[t].repo})]
  BY DEF W!EditTask, TreeInv, TaskTypes, PlannedTask
<1> DEFINE was == task[t].was \cup {task[t].repo}
           returned == task[t].returned \/ (r # task[t].repo /\ r \in was)
           new == [task[t] EXCEPT !.title = n, !.repo = r, !.was = was, !.returned = returned]
           p == W!worktreePath(t)
<1>2. r \in W!Repo /\ task[t].repo \in W!Repo /\ was \subseteq W!Repo /\ returned \in BOOLEAN
  BY DEF TreeInv, TaskTypes, PlannedTask, W!reposOf
<1>3. task' = [task EXCEPT ![t] = new]
  BY <1>1 DEF TreeInv, TaskTypes
<1> HIDE DEF was, returned
<1>4. new \in PlannedTask
  BY <1>2 DEF TreeInv, TaskTypes, PlannedTask
<1>5. /\ TaskTypes' /\ \A u \in W!WTask : u # t => task'[u] = task[u]
      /\ task'[t].repo = r /\ task'[t].was = was /\ task'[t].returned = returned
  BY <1>3, <1>4 DEF TreeInv, TaskTypes, PlannedTask
<1>6. /\ ~task[t].worked /\ \A w \in Worker : W!live(w) => proc[w].t # t
      /\ UNCHANGED <<disk, reg, branch, made, row, proc, lost, refused, runs>>
  BY DEF W!EditTask, W!editable
<1>7. moves' \in 0..MaxMoves
  BY DeliveryAssumption DEF W!EditTask, TreeInv, PastTypes
<1>8. /\ DiskTypes' /\ RegTypes' /\ BranchTypes' /\ RowTypes' /\ RunTypes' /\ PastTypes'
      /\ Meetings' /\ Rows' /\ Folders' /\ Commits' /\ Fitting'
      /\ W!LossNeedsOverlap' /\ W!RetriesCanProvision'
  BY <1>6, <1>7 DEF TreeInv, DiskTypes, RegTypes, BranchTypes, RowTypes, RunTypes, PastTypes,
     Meetings, Rows, Folders, Commits, Fitting, W!live, W!path, W!LossNeedsOverlap,
     W!RetriesCanProvision
<1>9. \A u \in W!WTask : u # t => W!buildBranchName(u)' = W!buildBranchName(u)
  BY <1>5 DEF W!buildBranchName
<1>10. Planned'
  BY <1>5, <1>6, <1>9, RunFields DEF TreeInv, Planned, W!live
<1>11. Held'
  BY <1>5, <1>6, <1>9 DEF TreeInv, Held
<1>12. Registered'
  <2>1. \A s \in W!Repo : reg[s][p] # W!NoBranch => s \in was
    BY DEF TreeInv, Registered, was
  <2>2. ~returned => ~task[t].returned /\ (r = task[t].repo \/ r \notin was)
    BY DEF returned
  <2>3. /\ \A s \in W!Repo : reg'[s][p] # W!NoBranch => s = task'[t].repo \/ s \in task'[t].was
        /\ ~task'[t].returned /\ disk'[p].exists /\ reg'[task'[t].repo][p] # W!NoBranch
             => disk'[p].repo = task'[t].repo /\ disk'[p].branch = reg'[task'[t].repo][p]
    BY <1>2, <1>5, <1>6, <2>1, <2>2 DEF TreeInv, Registered
  <2>4. ASSUME NEW u \in W!WTask, u # t
        PROVE  LET q == W!worktreePath(u)
               IN /\ \A s \in W!Repo :
                       reg'[s][q] # W!NoBranch => s = task'[u].repo \/ s \in task'[u].was
                  /\ ~task'[u].returned /\ disk'[q].exists
                       /\ reg'[task'[u].repo][q] # W!NoBranch
                       => /\ disk'[q].repo = task'[u].repo
                          /\ disk'[q].branch = reg'[task'[u].repo][q]
    BY <1>5, <1>6, <2>4 DEF TreeInv, Registered
  <2> QED BY <2>3, <2>4 DEF Registered
<1> QED BY <1>5, <1>8, <1>10, <1>11, <1>12 DEF TreeInv

LEMMA TreeNext == ASSUME TreeInv, [W!Next]_trees PROVE TreeInv'
<1>1. CASE UNCHANGED trees
  BY <1>1 DEF trees, TreeInv, DiskTypes, RegTypes, BranchTypes, RowTypes, TaskTypes, RunTypes,
     PastTypes, Meetings, Planned, Folders, Commits, Rows, Fitting, Held, Registered, W!live,
     W!path, W!buildBranchName, W!LossNeedsOverlap, W!RetriesCanProvision
<1>2. CASE W!Next
  BY <1>2, Tree_provisionWorktree, Tree_ensureCheckout, Tree_listWorktrees, Tree_acquire,
     Tree_Recycle, Tree_AddRefused, Tree_Add, Tree_Record, Tree_Work, Tree_commitWork,
     Tree_Complete, Tree_releaseWorktree, Tree_Stop, Tree_EditTask, Tree_FolderDeleted
  DEF W!Next
<1> QED BY <1>1, <1>2

LEMMA TreesHold == TreeInv => /\ W!TypeOK /\ W!LossNeedsOverlap /\ W!CommitsStay
                              /\ W!RetriesCanProvision /\ W!HandedOutIsOwn
<1> SUFFICES ASSUME TreeInv PROVE /\ W!TypeOK /\ W!CommitsStay /\ W!HandedOutIsOwn
  BY DEF TreeInv
<1>1. W!TypeOK
  BY DEF TreeInv, W!TypeOK, DiskTypes, RegTypes, BranchTypes, RowTypes, TaskTypes, RunTypes,
     PastTypes, Folder, RowOfTree, PlannedTask, Pc, TreeRun
<1>2. W!CommitsStay
  BY DEF TreeInv, Commits, BranchTypes, W!CommitsStay
<1>3. W!HandedOutIsOwn
  <2>1. SUFFICES ASSUME NEW w \in Worker, proc[w].pc = "ready", ~task[proc[w].t].returned,
                        disk[W!path(w)].exists
                 PROVE  /\ disk[W!path(w)].repo = proc[w].repo
                        /\ disk[W!path(w)].branch = W!buildBranchName(proc[w].t)
                        /\ reg[proc[w].repo][W!path(w)] = disk[W!path(w)].branch
    BY DEF W!HandedOutIsOwn
  <2>2. reg[proc[w].repo][W!path(w)] = proc[w].branch
    BY <2>1 DEF TreeInv, Fitting, Fits, W!path
  <2>3. /\ proc[w].repo = task[proc[w].t].repo /\ proc[w].branch = W!buildBranchName(proc[w].t)
        /\ proc[w].branch # W!NoBranch
    BY <2>1, BranchNames, Branches, RunFields DEF TreeInv, Planned, W!live
  <2> QED BY <2>1, <2>2, <2>3, RunFields DEF TreeInv, Registered
<1> QED BY <1>1, <1>2, <1>3

-----------------------------------------------------------------------------
(* The invariant of the connections. *)

Owner == Organization \cup {"none"}
Ask == [pc : {"idle", "exchange", "persist", "save", "list", "insert"}, org : Owner,
        repo : Repository, suspended : BOOLEAN, exists : BOOLEAN]
Hook == {<<"suspend">>, <<"unsuspend">>} \cup
        {<<a, r>> : a \in {"added", "removed"}, r \in Repository}
Link == [org : Owner, status : {"none", "CONNECTED", "DISCONNECTED"}]

AttemptTypes == /\ attempt \in [Organization -> {"none", "issued", "consumed"}]
                /\ exchanged \in [Organization -> Nat]
RemoteTypes == github \in [suspended : BOOLEAN, repos : SUBSET Repository]
InstTypes == inst \in [org : Owner, suspended : BOOLEAN] /\ owners \subseteq Organization
LinkTypes == link \in [Repository -> Link] /\ projects \in [Repository -> Nat]
AskTypes == req \in [Request -> Ask]
HookTypes == /\ hooks \in Seq(Hook) /\ raced \subseteq Repository
             /\ out \subseteq Repository /\ revived \subseteq Repository

\* A state that was not consumed was not exchanged; one request at most is
\* about to exchange it.
Attempts ==
  /\ \A o \in Organization :
       /\ exchanged[o] <= 1
       /\ attempt[o] # "consumed" => exchanged[o] = 0
  /\ \A q \in Request : req[q].pc = "exchange" =>
       /\ req[q].org \in Organization /\ attempt[req[q].org] = "consumed"
       /\ exchanged[req[q].org] = 0
       /\ \A p \in Request : p # q /\ req[p].pc = "exchange" => req[p].org # req[q].org

\* Everything that hangs on the installation is its first owner's.
Ownership ==
  /\ owners = IF inst.org = "none" THEN {} ELSE {inst.org}
  /\ \A r \in Repository : /\ link[r].org \in {"none", inst.org}
                           /\ link[r].status = "CONNECTED" => link[r].org # "none"
  /\ \A q \in Request :
       /\ req[q].pc \in {"list", "insert"} => req[q].org = inst.org /\ inst.org # "none"
       /\ req[q].pc \in {"persist", "save"} => req[q].org \in Organization

Imports ==
  \A r \in Repository : projects[r] <= 1 /\ (link[r].org = "none" => projects[r] = 0)

\* Nothing was overtaken or lost.
Calm == \E r \in Repository : r \notin raced
IsSuspension(h) == h \in {<<"suspend">>, <<"unsuspend">>}
IsAbout(h, r) == h \in {<<"added", r>>, <<"removed", r>>}
Suspensions == {k \in DOMAIN hooks : IsSuspension(hooks[k])}
About(r) == {k \in DOMAIN hooks : IsAbout(hooks[k], r)}

\* The last webhook on its way says what GitHub has.
LastHookIsTrue ==
  Calm =>
    /\ \A k \in Suspensions :
         (\A j \in Suspensions : j <= k) => (hooks[k] = <<"suspend">> <=> github.suspended)
    /\ \A r \in Repository : \A k \in About(r) :
         (\A j \in About(r) : j <= k) => (hooks[k] = <<"added", r>> <=> r \in github.repos)

\* With none on its way, the rows do.
RowsFollow ==
  Calm =>
    /\ Suspensions = {} /\ inst.org # "none" => inst.suspended = github.suspended
    /\ \A r \in Repository : About(r) = {} =>
         /\ r \in out => r \notin github.repos
         /\ link[r].org # "none" /\ r \notin out => r \in github.repos
         /\ link[r].status = "CONNECTED" /\ r \in out => r \in revived
    /\ \A r \in Repository :
         Suspensions = {} /\ link[r].status = "CONNECTED" /\ github.suspended => r \in revived

\* What a request has read is still so.
ReadsHold ==
  Calm => \A q \in Request :
            /\ req[q].pc \in {"persist", "save"} => req[q].suspended = github.suspended
            /\ req[q].pc = "insert" => req[q].repo \in github.repos /\ ~github.suspended

Unbound == inst.org = "none" => out = {}

ConnInv ==
  /\ AttemptTypes /\ RemoteTypes /\ InstTypes /\ LinkTypes /\ AskTypes /\ HookTypes
  /\ Attempts /\ Ownership /\ Imports
  /\ LastHookIsTrue /\ RowsFollow /\ ReadsHold /\ Unbound

LEMMA QuietAsk ==
  /\ C!Quiet \in Ask /\ C!Quiet.pc = "idle" /\ C!NoOrg = "none"
  /\ \A o \in Owner : [C!Quiet EXCEPT !.pc = "exchange", !.org = o] \in Ask
  /\ \A o \in Owner, r \in Repository :
       [C!Quiet EXCEPT !.pc = "list", !.org = o, !.repo = r] \in Ask
BY DeliveryAssumption DEF C!Quiet, C!NoOrg, Ask, Owner

LEMMA ConnInit == C!GhInit => ConnInv
<1> SUFFICES ASSUME C!GhInit PROVE ConnInv
  OBVIOUS
<1> USE DEF C!GhInit, C!NoOrg
<1>1. AttemptTypes /\ RemoteTypes
  BY DEF AttemptTypes, RemoteTypes
<1>2. InstTypes
  BY DEF InstTypes, Owner
<1>3. LinkTypes
  BY DEF LinkTypes, Link, Owner
<1>4. AskTypes /\ \A q \in Request : req[q].pc = "idle"
  BY QuietAsk DEF AskTypes
<1>5. HookTypes /\ DOMAIN hooks = {}
  BY DEF HookTypes
<1>6a. Attempts
  BY <1>4 DEF Attempts
<1>6d. ReadsHold /\ Unbound
  BY <1>4 DEF ReadsHold, Unbound
<1>6b. Ownership
  BY <1>4 DEF Ownership
<1>6c. Imports
  BY DEF Imports
<1>7. LastHookIsTrue /\ RowsFollow
  BY <1>5 DEF LastHookIsTrue, RowsFollow, Suspensions, About
<1> QED BY <1>1, <1>2, <1>3, <1>4, <1>5, <1>6a, <1>6b, <1>6c, <1>6d, <1>7 DEF ConnInv

-----------------------------------------------------------------------------
(* Each step keeps it. *)

LEMMA Appends ==
  ASSUME hooks \in Seq(Hook), NEW h \in Hook, hooks' = Append(hooks, h)
  PROVE  /\ hooks' \in Seq(Hook)
         /\ Len(hooks) \in Nat /\ DOMAIN hooks = 1..Len(hooks)
         /\ DOMAIN hooks' = 1..(Len(hooks) + 1)
         /\ hooks'[Len(hooks) + 1] = h
         /\ \A k \in DOMAIN hooks : hooks'[k] = hooks[k]
OBVIOUS

LEMMA Takes ==
  ASSUME hooks \in Seq(Hook), NEW k \in DOMAIN hooks, hooks' = C!remaining(k)
  PROVE  /\ hooks' \in Seq(Hook)
         /\ k = 1 => /\ Len(hooks) \in Nat /\ DOMAIN hooks = 1..Len(hooks)
                     /\ DOMAIN hooks' = 1..(Len(hooks) - 1)
                     /\ \A j \in 1..(Len(hooks) - 1) : hooks'[j] = hooks[j + 1]
<1>1. k \in 1..Len(hooks) /\ Len(hooks) \in Nat /\ DOMAIN hooks = 1..Len(hooks)
  OBVIOUS
<1>2. hooks' = SubSeq(hooks, 1, k - 1) \o SubSeq(hooks, k + 1, Len(hooks))
  BY DEF C!remaining
<1>3. SubSeq(hooks, 1, k - 1) \in Seq(Hook) /\ SubSeq(hooks, k + 1, Len(hooks)) \in Seq(Hook)
  BY <1>1
<1>4. hooks' \in Seq(Hook)
  BY <1>2, <1>3
<1>5. ASSUME k = 1
      PROVE  /\ DOMAIN hooks' = 1..(Len(hooks) - 1)
             /\ \A j \in 1..(Len(hooks) - 1) : hooks'[j] = hooks[j + 1]
  <2>1. SubSeq(hooks, 1, 0) = <<>>
    BY <1>1
  <2>2. hooks' = SubSeq(hooks, 2, Len(hooks))
    BY <1>1, <1>2, <1>3, <1>5, <2>1
  <2> QED BY <1>1, <2>2
<1> QED BY <1>1, <1>4, <1>5

LEMMA HookKinds ==
  ASSUME NEW h \in Hook
  PROVE  /\ IsSuspension(h) \/ \E r \in Repository : IsAbout(h, r)
         /\ \A r \in Repository : ~(IsSuspension(h) /\ IsAbout(h, r))
         /\ \A r, s \in Repository : IsAbout(h, r) /\ IsAbout(h, s) => r = s
         /\ \A r \in Repository : <<"added", r>> # <<"removed", r>>
         /\ h[1] \in {"suspend", "unsuspend"} <=> IsSuspension(h)
         /\ h = <<"suspend">> <=> h[1] = "suspend"
         /\ \A r \in Repository : IsAbout(h, r) => h[2] = r
         /\ \A r \in Repository : IsAbout(h, r) => (h = <<"added", r>> <=> h[1] = "added")
<1>1. \A r \in Repository : <<"added", r>> # <<"removed", r>> /\ <<"added", r>>[1] = "added"
         /\ <<"removed", r>>[1] = "removed" /\ <<"added", r>>[2] = r /\ <<"removed", r>>[2] = r
  OBVIOUS
<1>2. <<"suspend">>[1] = "suspend" /\ <<"unsuspend">>[1] = "unsuspend"
  OBVIOUS
<1> QED BY <1>1, <1>2 DEF Hook, IsSuspension, IsAbout

\* Something changes on GitHub, and a webhook says what.
LEMMA Conn_turn ==
  ASSUME ConnInv, NEW g \in [suspended : BOOLEAN, repos : SUBSET Repository], NEW h \in Hook,
         C!turn(g, h),
         \/ /\ IsSuspension(h) /\ g.repos = github.repos
            /\ h = <<"suspend">> <=> g.suspended
         \/ \E r \in Repository :
              /\ IsAbout(h, r) /\ g.suspended = github.suspended
              /\ h = <<"added", r>> <=> r \in g.repos
              /\ \A s \in Repository : s # r => (s \in g.repos <=> s \in github.repos)
  PROVE  ConnInv'
<1> DEFINE n == Len(hooks) + 1
<1>1. /\ github' = g /\ hooks' = Append(hooks, h)
      /\ raced' = raced \cup (IF \E q \in Request : req[q].pc # "idle" THEN Repository ELSE {})
      /\ UNCHANGED <<attempt, exchanged, inst, owners, link, projects, req, requests, out, revived>>
  BY DEF C!turn
<1>2. /\ hooks' \in Seq(Hook) /\ Len(hooks) \in Nat /\ DOMAIN hooks = 1..Len(hooks)
      /\ DOMAIN hooks' = 1..n /\ hooks'[n] = h /\ \A k \in DOMAIN hooks : hooks'[k] = hooks[k]
  BY <1>1, Appends DEF ConnInv, HookTypes
<1>3. AttemptTypes' /\ RemoteTypes' /\ InstTypes' /\ LinkTypes' /\ AskTypes' /\ HookTypes'
  BY <1>1, <1>2 DEF ConnInv, AttemptTypes, RemoteTypes, InstTypes, LinkTypes, AskTypes, HookTypes
<1>4. Attempts' /\ Ownership' /\ Imports' /\ Unbound'
  BY <1>1 DEF ConnInv, Attempts, Ownership, Imports, Unbound
<1>5. Calm' => Calm /\ \A q \in Request : req[q].pc = "idle"
  BY <1>1 DEF Calm
<1>6. ReadsHold'
  BY <1>1, <1>5 DEF ReadsHold
<1>7. /\ Suspensions' = Suspensions \cup (IF IsSuspension(h) THEN {n} ELSE {})
      /\ Suspensions \subseteq 1..Len(hooks)
  BY <1>2 DEF Suspensions
<1>8. ASSUME NEW r \in Repository
      PROVE  /\ About(r)' = About(r) \cup (IF IsAbout(h, r) THEN {n} ELSE {})
             /\ About(r) \subseteq 1..Len(hooks)
  BY <1>2 DEF About
<1>9. CASE IsSuspension(h)
  <2>1. g.repos = github.repos /\ (h = <<"suspend">> <=> g.suspended)
        /\ \A r \in Repository : ~IsAbout(h, r)
    BY <1>9, HookKinds
  <2>2. Suspensions' = Suspensions \cup {n} /\ \A r \in Repository : About(r)' = About(r)
    BY <1>7, <1>8, <1>9, <2>1
  <2>3. LastHookIsTrue'
    <3>1. \A k \in Suspensions' : (\A j \in Suspensions' : j <= k) => k = n
      <4>1. \A k \in Suspensions \cup {n} : n <= k => k = n
        BY <1>2, <1>7
      <4> QED BY <2>2, <4>1
    <3>2. \A r \in Repository : \A k \in About(r) : hooks'[k] = hooks[k]
      BY <1>2 DEF About
    <3>3. ASSUME Calm', NEW k \in Suspensions', \A j \in Suspensions' : j <= k
          PROVE  github'.suspended <=> hooks'[k] = <<"suspend">>
      BY <1>1, <1>2, <2>1, <3>1, <3>3
    <3>4. ASSUME Calm', NEW r \in Repository, NEW k \in About(r)', \A j \in About(r)' : j <= k
          PROVE  r \in github'.repos <=> hooks'[k] = <<"added", r>>
      BY <1>1, <1>5, <2>1, <2>2, <3>2, <3>4 DEF ConnInv, LastHookIsTrue
    <3> QED BY <3>3, <3>4 DEF LastHookIsTrue
  <2>4. RowsFollow'
    BY <1>1, <1>5, <2>1, <2>2 DEF ConnInv, RowsFollow
  <2> QED BY <1>3, <1>4, <1>6, <2>3, <2>4 DEF ConnInv
<1>10. CASE ~IsSuspension(h)
  <2>1. PICK r \in Repository :
              /\ IsAbout(h, r) /\ g.suspended = github.suspended
              /\ h = <<"added", r>> <=> r \in g.repos
              /\ \A s \in Repository : s # r => (s \in g.repos <=> s \in github.repos)
    BY <1>10
  <2>2. \A s \in Repository : s # r => ~IsAbout(h, s)
    BY <2>1, HookKinds
  <2>3. Suspensions' = Suspensions /\ About(r)' = About(r) \cup {n}
        /\ \A s \in Repository : s # r => About(s)' = About(s)
    BY <1>7, <1>8, <1>10, <2>1, <2>2
  <2>4. LastHookIsTrue'
    <3>1. \A k \in About(r)' : (\A j \in About(r)' : j <= k) => k = n
      BY <1>2, <1>8, <2>3
    <3>2. \A s \in Repository : \A k \in About(s) : hooks'[k] = hooks[k]
      BY <1>2 DEF About
    <3>3. \A k \in Suspensions : hooks'[k] = hooks[k]
      BY <1>2 DEF Suspensions
    <3>4. \A k \in About(r)' :
            (\A j \in About(r)' : j <= k) => (hooks'[k] = <<"added", r>> <=> r \in github'.repos)
      BY <1>1, <1>2, <2>1, <3>1
    <3>5. ASSUME Calm, NEW s \in Repository, s # r, NEW k \in About(s)', \A j \in About(s)' : j <= k
          PROVE  hooks'[k] = <<"added", s>> <=> s \in github'.repos
      BY <1>1, <2>1, <2>3, <3>2, <3>5 DEF ConnInv, LastHookIsTrue
    <3>6. ASSUME Calm, NEW k \in Suspensions', \A j \in Suspensions' : j <= k
          PROVE  hooks'[k] = <<"suspend">> <=> github'.suspended
      BY <1>1, <2>1, <2>3, <3>3, <3>6 DEF ConnInv, LastHookIsTrue
    <3> QED BY <1>5, <3>4, <3>5, <3>6 DEF LastHookIsTrue
  <2>5. RowsFollow'
    <3>1. About(r)' # {}
      BY <2>3
    <3> QED BY <1>1, <1>5, <2>1, <2>3, <3>1 DEF ConnInv, RowsFollow
  <2> QED BY <1>3, <1>4, <1>6, <2>4, <2>5 DEF ConnInv
<1> QED BY <1>9, <1>10

LEMMA Conn_github ==
  ASSUME ConnInv,
         \/ C!Suspend \/ C!Unsuspend
         \/ \E r \in Repository : C!AddRepository(r) \/ C!RemoveRepository(r)
  PROVE  ConnInv'
<1> USE DEF ConnInv, RemoteTypes
<1>1. CASE C!Suspend
  <2>1. [github EXCEPT !.suspended = TRUE] \in [suspended : BOOLEAN, repos : SUBSET Repository]
    OBVIOUS
  <2>2. <<"suspend">> \in Hook /\ IsSuspension(<<"suspend">>)
    BY DEF Hook, IsSuspension
  <2> QED BY <1>1, <2>1, <2>2, Conn_turn DEF C!Suspend
<1>2. CASE C!Unsuspend
  <2>1. [github EXCEPT !.suspended = FALSE] \in [suspended : BOOLEAN, repos : SUBSET Repository]
    OBVIOUS
  <2>2. /\ <<"unsuspend">> \in Hook /\ IsSuspension(<<"unsuspend">>)
        /\ <<"unsuspend">> # <<"suspend">>
    BY DEF Hook, IsSuspension
  <2> QED BY <1>2, <2>1, <2>2, Conn_turn DEF C!Unsuspend
<1>3. ASSUME NEW r \in Repository, C!AddRepository(r) PROVE ConnInv'
  <2> DEFINE g == [github EXCEPT !.repos = github.repos \cup {r}]
  <2>1. /\ g \in [suspended : BOOLEAN, repos : SUBSET Repository]
        /\ g.suspended = github.suspended /\ g.repos = github.repos \cup {r}
    OBVIOUS
  <2>2. <<"added", r>> \in Hook /\ IsAbout(<<"added", r>>, r)
    BY DEF Hook, IsAbout
  <2>3. C!turn(g, <<"added", r>>)
    BY <1>3 DEF C!AddRepository
  <2> HIDE DEF g
  <2> QED BY <2>1, <2>2, <2>3, Conn_turn
<1>4. ASSUME NEW r \in Repository, C!RemoveRepository(r) PROVE ConnInv'
  <2> DEFINE g == [github EXCEPT !.repos = github.repos \ {r}]
  <2>1. /\ g \in [suspended : BOOLEAN, repos : SUBSET Repository]
        /\ g.suspended = github.suspended /\ g.repos = github.repos \ {r}
    OBVIOUS
  <2>2. /\ <<"removed", r>> \in Hook /\ IsAbout(<<"removed", r>>, r)
        /\ <<"added", r>> # <<"removed", r>>
    BY DEF Hook, IsAbout
  <2>3. C!turn(g, <<"removed", r>>)
    BY <1>4 DEF C!RemoveRepository
  <2> HIDE DEF g
  <2> QED BY <2>1, <2>2, <2>3, Conn_turn
<1> QED BY <1>1, <1>2, <1>3, <1>4

\* Requests: what they do not touch stays.
LEMMA Conn_remote ==
  ASSUME ConnInv, UNCHANGED <<github, hooks, raced>>
  PROVE  /\ RemoteTypes' /\ LastHookIsTrue' /\ (Calm' <=> Calm) /\ Suspensions' = Suspensions
         /\ \A r \in Repository : About(r)' = About(r)
BY DEF ConnInv, RemoteTypes, LastHookIsTrue, Calm, Suspensions, About

LEMMA Conn_rows ==
  ASSUME ConnInv, UNCHANGED <<github, hooks, raced, inst, owners, link, projects, out, revived>>
  PROVE  /\ InstTypes' /\ LinkTypes' /\ HookTypes' /\ Imports' /\ RowsFollow' /\ Unbound'
BY Conn_remote DEF ConnInv, InstTypes, LinkTypes, HookTypes, Imports, RowsFollow, Unbound

LEMMA Conn_startAuthorization ==
  ASSUME ConnInv, NEW o \in Organization, C!startAuthorization(o) PROVE ConnInv'
<1>1. UNCHANGED <<exchanged, github, inst, owners, link, projects, req, requests, hooks, turns,
                  raced, out, revived>>
  BY DEF C!startAuthorization
<1>2. AttemptTypes' /\ AskTypes'
  BY <1>1 DEF ConnInv, AttemptTypes, AskTypes, C!startAuthorization
<1>3. Attempts'
  BY <1>1 DEF ConnInv, Attempts, AttemptTypes, C!startAuthorization
<1>4. Ownership' /\ ReadsHold'
  BY <1>1, Conn_remote DEF ConnInv, Ownership, ReadsHold
<1> QED BY <1>1, <1>2, <1>3, <1>4, Conn_remote, Conn_rows DEF ConnInv

LEMMA Conn_consume ==
  ASSUME ConnInv, NEW q \in Request, NEW o \in Organization, C!consume(q, o) PROVE ConnInv'
<1> DEFINE x == [C!Quiet EXCEPT !.pc = "exchange", !.org = o]
<1>1. /\ req[q].pc = "idle" /\ attempt[o] = "issued"
      /\ attempt' = [attempt EXCEPT ![o] = "consumed"] /\ req' = [req EXCEPT ![q] = x]
      /\ UNCHANGED <<exchanged, github, inst, owners, link, projects, hooks, raced, out, revived>>
  BY DEF C!consume, C!at
<1>2. x \in Ask /\ x.pc = "exchange" /\ x.org = o
  BY QuietAsk DEF Owner, C!Quiet
<1> HIDE DEF x
<1>3. AttemptTypes' /\ AskTypes' /\ req'[q] = x /\ (\A p \in Request : p # q => req'[p] = req[p])
      /\ attempt'[o] = "consumed"
      /\ \A c \in Organization : c # o => attempt'[c] = attempt[c]
  BY <1>1, <1>2 DEF ConnInv, AttemptTypes, AskTypes
<1>4. Attempts'
  BY <1>1, <1>2, <1>3 DEF ConnInv, Attempts, AttemptTypes
<1>5. Ownership'
  BY <1>1, <1>2, <1>3 DEF ConnInv, Ownership
<1>6. ReadsHold'
  BY <1>1, <1>2, <1>3, Conn_remote DEF ConnInv, ReadsHold
<1> QED BY <1>1, <1>3, <1>4, <1>5, <1>6, Conn_remote, Conn_rows DEF ConnInv

\* A request that ends.
LEMMA Rests ==
  ASSUME AskTypes, NEW q \in Request, C!rest(q)
  PROVE  AskTypes' /\ req'[q].pc = "idle" /\ \A p \in Request : p # q => req'[p] = req[p]
BY QuietAsk DEF AskTypes, C!rest

LEMMA Conn_completeAuthorization ==
  ASSUME ConnInv, NEW q \in Request, C!completeAuthorization(q) PROVE ConnInv'
<1> DEFINE o == req[q].org
<1>1. /\ req[q].pc = "exchange" /\ exchanged' = [exchanged EXCEPT ![o] = exchanged[o] + 1]
      /\ UNCHANGED <<attempt, github, inst, owners, link, projects, hooks, raced, out, revived>>
      /\ o \in Organization /\ attempt[o] = "consumed" /\ exchanged[o] = 0
  BY DEF ConnInv, Attempts, C!completeAuthorization, C!at, AttemptTypes
<1>2. /\ AskTypes' /\ \A p \in Request : p # q => req'[p] = req[p]
      /\ \/ req'[q].pc = "idle"
         \/ /\ req'[q].pc = "persist" /\ req'[q].org = o
            /\ req'[q].suspended = github.suspended
  <2>1. CASE C!rest(q)
    BY <2>1, Rests DEF ConnInv
  <2>2. CASE req' = [req EXCEPT ![q].pc = "persist", ![q].suspended = github.suspended]
    BY <2>2 DEF ConnInv, AskTypes, Ask, RemoteTypes
  <2> QED BY <2>1, <2>2 DEF C!completeAuthorization
<1> HIDE DEF o
<1>3. AttemptTypes' /\ exchanged'[o] = 1
      /\ \A c \in Organization : c # o => exchanged'[c] = exchanged[c]
  BY <1>1 DEF ConnInv, AttemptTypes
<1>4. Attempts'
  BY <1>1, <1>2, <1>3 DEF ConnInv, Attempts, o
<1>5. Ownership'
  BY <1>1, <1>2 DEF ConnInv, Ownership
<1>6. ReadsHold'
  BY <1>1, <1>2, Conn_remote DEF ConnInv, ReadsHold
<1> QED BY <1>1, <1>2, <1>3, <1>4, <1>5, <1>6, Conn_remote, Conn_rows DEF ConnInv

LEMMA Conn_persistInstallation ==
  ASSUME ConnInv, NEW q \in Request, C!persistInstallation(q) PROVE ConnInv'
<1>1. /\ req[q].pc = "persist"
      /\ UNCHANGED <<attempt, exchanged, github, inst, owners, link, projects, hooks, raced, out,
                     revived>>
  BY DEF C!persistInstallation, C!at
<1>2. /\ AskTypes' /\ \A p \in Request : p # q => req'[p] = req[p]
      /\ \/ req'[q].pc = "idle"
         \/ /\ req'[q].pc = "save" /\ req'[q].org = req[q].org
            /\ req'[q].suspended = req[q].suspended
  <2>1. CASE C!rest(q)
    BY <2>1, Rests DEF ConnInv
  <2>2. CASE req' = [req EXCEPT ![q].pc = "save", ![q].exists = inst.org # C!NoOrg]
    BY <2>2 DEF ConnInv, AskTypes, Ask
  <2> QED BY <2>1, <2>2 DEF C!persistInstallation
<1>3. AttemptTypes' /\ Attempts'
  BY <1>1, <1>2 DEF ConnInv, AttemptTypes, Attempts
<1>4. Ownership'
  BY <1>1, <1>2 DEF ConnInv, Ownership
<1>5. ReadsHold'
  BY <1>1, <1>2, Conn_remote DEF ConnInv, ReadsHold
<1> QED BY <1>1, <1>2, <1>3, <1>4, <1>5, Conn_remote, Conn_rows DEF ConnInv

LEMMA Conn_saveInstallation ==
  ASSUME ConnInv, NEW q \in Request, C!saveInstallation(q) PROVE ConnInv'
<1>1. /\ req[q].pc = "save"
      /\ UNCHANGED <<attempt, exchanged, github, link, projects, hooks, raced, out, revived>>
  BY DEF C!saveInstallation, C!at
<1>2. /\ AskTypes' /\ req'[q].pc = "idle" /\ \A p \in Request : p # q => req'[p] = req[p]
  BY Rests DEF ConnInv, C!saveInstallation
<1>3a. AttemptTypes' /\ LinkTypes' /\ HookTypes' /\ Imports'
  BY <1>1 DEF ConnInv, AttemptTypes, LinkTypes, HookTypes, Imports
<1>3b. Attempts'
  BY <1>1, <1>2 DEF ConnInv, Attempts
<1>3. AttemptTypes' /\ Attempts' /\ LinkTypes' /\ HookTypes' /\ Imports'
  BY <1>3a, <1>3b
<1>4. ReadsHold'
  BY <1>1, <1>2, Conn_remote DEF ConnInv, ReadsHold
<1>5. CASE inst.org \in {"none", req[q].org}
  <2>1. /\ inst' = [org |-> req[q].org, suspended |-> req[q].suspended]
        /\ owners' = owners \cup {req[q].org}
    BY <1>5 DEF C!saveInstallation, C!NoOrg
  <2>2. req[q].org \in Organization /\ req[q].org # "none" /\ req[q].suspended \in BOOLEAN
        /\ (Calm => req[q].suspended = github.suspended)
    BY <1>1, DeliveryAssumption DEF ConnInv, Ownership, AskTypes, Ask, ReadsHold
  <2>3. InstTypes' /\ inst'.org = req[q].org /\ inst'.suspended = req[q].suspended
    BY <2>1, <2>2 DEF ConnInv, InstTypes, Owner
  <2>4. owners' = {req[q].org}
    BY <1>5, <2>1, <2>2 DEF ConnInv, Ownership
  <2>5. Ownership'
    <3>1. \A r \in Repository : link[r].org \in {"none", req[q].org}
      BY <1>5 DEF ConnInv, Ownership
    <3>2. \A p \in Request : req[p].pc \in {"list", "insert"} => req[p].org = req[q].org
      BY <1>5 DEF ConnInv, Ownership
    <3> QED BY <1>1, <1>2, <2>2, <2>3, <2>4, <3>1, <3>2 DEF ConnInv, Ownership
  <2>6. RowsFollow'
    BY <1>1, <2>2, <2>3, <1>5, Conn_remote DEF ConnInv, RowsFollow
  <2>7. Unbound'
    BY <2>2, <2>3 DEF Unbound
  <2> QED BY <1>1, <1>2, <1>3, <1>4, <2>3, <2>5, <2>6, <2>7, Conn_remote DEF ConnInv
<1>6. CASE inst.org \notin {"none", req[q].org}
  <2>1. UNCHANGED <<inst, owners>>
    BY <1>6 DEF C!saveInstallation, C!NoOrg
  <2>2. Ownership'
    BY <1>1, <1>2, <2>1 DEF ConnInv, Ownership
  <2> QED BY <1>1, <1>2, <1>3, <1>4, <2>1, <2>2, Conn_remote, Conn_rows DEF ConnInv
<1> QED BY <1>5, <1>6

LEMMA Conn_importRepository ==
  ASSUME ConnInv, NEW q \in Request, NEW o \in Organization, NEW r \in Repository,
         C!importRepository(q, o, r)
  PROVE  ConnInv'
<1> DEFINE x == [C!Quiet EXCEPT !.pc = "list", !.org = o, !.repo = r]
<1>1. /\ req[q].pc = "idle" /\ inst.org = o /\ req' = [req EXCEPT ![q] = x]
      /\ UNCHANGED <<attempt, exchanged, github, inst, owners, link, projects, hooks, raced, out,
                     revived>>
  BY DEF C!importRepository, C!at
<1>2. x \in Ask /\ x.pc = "list" /\ x.org = o /\ o # "none"
  BY QuietAsk, DeliveryAssumption DEF Owner, C!Quiet
<1> HIDE DEF x
<1>3. AskTypes' /\ req'[q] = x /\ \A p \in Request : p # q => req'[p] = req[p]
  BY <1>1, <1>2 DEF ConnInv, AskTypes
<1>4. AttemptTypes' /\ Attempts'
  BY <1>1, <1>2, <1>3 DEF ConnInv, AttemptTypes, Attempts
<1>5. Ownership'
  BY <1>1, <1>2, <1>3 DEF ConnInv, Ownership
<1>6. ReadsHold'
  BY <1>1, <1>2, <1>3, Conn_remote DEF ConnInv, ReadsHold
<1> QED BY <1>1, <1>3, <1>4, <1>5, <1>6, Conn_remote, Conn_rows DEF ConnInv

LEMMA Conn_listInstallationRepositories ==
  ASSUME ConnInv, NEW q \in Request, C!listInstallationRepositories(q) PROVE ConnInv'
<1>1. /\ req[q].pc = "list"
      /\ UNCHANGED <<attempt, exchanged, github, inst, owners, link, projects, hooks, raced, out,
                     revived>>
  BY DEF C!listInstallationRepositories, C!at
<1>2. /\ AskTypes' /\ \A p \in Request : p # q => req'[p] = req[p]
      /\ \/ req'[q].pc = "idle"
         \/ /\ req'[q].pc = "insert" /\ req'[q].org = req[q].org /\ req'[q].repo = req[q].repo
            /\ req[q].repo \in github.repos /\ ~github.suspended
  <2>1. CASE C!rest(q)
    BY <2>1, Rests DEF ConnInv
  <2>2. CASE ~C!rest(q)
    <3>1. /\ req' = [req EXCEPT ![q].pc = "insert"]
          /\ req[q].repo \in github.repos /\ ~github.suspended
      BY <2>2 DEF C!listInstallationRepositories
    <3> QED BY <3>1 DEF ConnInv, AskTypes, Ask
  <2> QED BY <2>1, <2>2
<1>3. AttemptTypes' /\ Attempts'
  BY <1>1, <1>2 DEF ConnInv, AttemptTypes, Attempts
<1>4. Ownership'
  BY <1>1, <1>2 DEF ConnInv, Ownership
<1>5. ReadsHold'
  BY <1>1, <1>2, Conn_remote DEF ConnInv, ReadsHold
<1> QED BY <1>1, <1>2, <1>3, <1>4, <1>5, Conn_remote, Conn_rows DEF ConnInv

LEMMA Conn_insertProject ==
  ASSUME ConnInv, NEW q \in Request, C!insertProject(q) PROVE ConnInv'
<1> DEFINE r == req[q].repo
           new == [org |-> req[q].org, status |-> "CONNECTED"]
<1>1. /\ req[q].pc = "insert"
      /\ UNCHANGED <<attempt, exchanged, github, inst, owners, hooks, raced, out, revived>>
      /\ \/ UNCHANGED <<projects, link>>
         \/ /\ link[r].org = "none" /\ projects' = [projects EXCEPT ![r] = projects[r] + 1]
            /\ link' = [link EXCEPT ![r] = new]
  BY DEF C!insertProject, C!at, C!NoOrg
<1>2. AskTypes' /\ req'[q].pc = "idle" /\ \A p \in Request : p # q => req'[p] = req[p]
  BY Rests DEF ConnInv, C!insertProject
<1>3a. AttemptTypes' /\ InstTypes' /\ HookTypes' /\ Unbound'
  BY <1>1 DEF ConnInv, AttemptTypes, InstTypes, HookTypes, Unbound
<1>3b. Attempts'
  BY <1>1, <1>2 DEF ConnInv, Attempts
<1>3. AttemptTypes' /\ Attempts' /\ InstTypes' /\ HookTypes' /\ Unbound'
  BY <1>3a, <1>3b
<1>4. ReadsHold'
  BY <1>1, <1>2, Conn_remote DEF ConnInv, ReadsHold
<1>5. CASE UNCHANGED <<projects, link>>
  <2>1. Ownership'
    BY <1>1, <1>2, <1>5 DEF ConnInv, Ownership
  <2> QED BY <1>1, <1>2, <1>3, <1>4, <1>5, <2>1, Conn_remote, Conn_rows DEF ConnInv
<1>6. CASE ~UNCHANGED <<projects, link>>
  <2>1. /\ r \in Repository /\ req[q].org = inst.org /\ inst.org # "none" /\ inst.org \in Owner
        /\ (Calm => r \in github.repos /\ ~github.suspended)
    BY <1>1 DEF ConnInv, Ownership, AskTypes, Ask, ReadsHold
  <2>2. /\ link[r].org = "none" /\ projects[r] = 0
        /\ projects' = [projects EXCEPT ![r] = projects[r] + 1]
        /\ link' = [link EXCEPT ![r] = new]
    BY <1>1, <1>6, <2>1 DEF ConnInv, Imports
  <2>3. new \in Link /\ new.org = inst.org /\ new.status = "CONNECTED"
    BY <2>1 DEF Link
  <2> HIDE DEF new, r
  <2>4. /\ LinkTypes' /\ link'[r] = new /\ projects'[r] = 1
        /\ \A s \in Repository : s # r => link'[s] = link[s] /\ projects'[s] = projects[s]
    BY <2>1, <2>2, <2>3 DEF ConnInv, LinkTypes
  <2>5. Imports'
    BY <2>1, <2>3, <2>4 DEF ConnInv, Imports
  <2>6. Ownership'
    BY <1>1, <1>2, <2>1, <2>3, <2>4 DEF ConnInv, Ownership
  <2>7. RowsFollow'
    BY <1>1, <2>1, <2>3, <2>4, Conn_remote DEF ConnInv, RowsFollow
  <2> QED BY <1>1, <1>2, <1>3, <1>4, <2>4, <2>5, <2>6, <2>7, Conn_remote DEF ConnInv
<1> QED BY <1>5, <1>6

\* A webhook is handled. Out of order, nothing more is promised of the rows.
LEMMA Statuses ==
  ASSUME LinkTypes, NEW S \in SUBSET Repository, NEW v \in {"CONNECTED", "DISCONNECTED"},
         link' = C!status(S, v), UNCHANGED projects
  PROVE  /\ LinkTypes' /\ \A r \in Repository : link'[r].org = link[r].org
         /\ \A r \in Repository : link'[r].status =
              IF r \in S /\ link[r].org # "none" THEN v ELSE link[r].status
BY DEF LinkTypes, Link, C!status, C!NoOrg

Handled(k) ==
  \/ inst.org = "none" /\ UNCHANGED <<inst, link, out, revived>>
  \/ /\ inst.org # "none" /\ IsSuspension(hooks[k])
     /\ inst' = [inst EXCEPT !.suspended = (hooks[k] = <<"suspend">>)]
     /\ link' = C!status(Repository,
                  IF hooks[k] = <<"suspend">> THEN "DISCONNECTED" ELSE "CONNECTED")
     /\ UNCHANGED out
     /\ revived' = IF hooks[k] = <<"suspend">> THEN {} ELSE out
  \/ \E r \in Repository :
     /\ inst.org # "none" /\ IsAbout(hooks[k], r) /\ UNCHANGED inst
     /\ \/ /\ hooks[k] = <<"added", r>> /\ link' = C!status({r}, "CONNECTED")
           /\ out' = out \ {r}
           /\ revived' = IF inst.suspended THEN revived \cup {r} ELSE revived \ {r}
        \/ /\ hooks[k] # <<"added", r>> /\ link' = C!status({r}, "DISCONNECTED")
           /\ out' = out \cup {r} /\ revived' = revived \ {r}

LEMMA Conn_processGitHubEvent ==
  ASSUME ConnInv, NEW k, C!processGitHubEvent(k) PROVE ConnInv'
<1>1. /\ k \in DOMAIN hooks /\ hooks' = C!remaining(k)
      /\ raced' = raced \cup (IF k > 1 THEN Repository ELSE {})
      /\ UNCHANGED <<attempt, exchanged, github, owners, projects, req, requests, turns>>
  BY DEF C!processGitHubEvent, C!overtaken
<1>2. hooks \in Seq(Hook) /\ hooks[k] \in Hook /\ k \in 1..Len(hooks) /\ Len(hooks) \in Nat
  BY <1>1 DEF ConnInv, HookTypes
<1>3. Handled(k)
  <2>1. CASE inst.org = "none"
    BY <2>1 DEF C!processGitHubEvent, C!NoOrg, Handled
  <2>2. CASE inst.org # "none" /\ IsSuspension(hooks[k])
    <3>1. hooks[k][1] \in {"suspend", "unsuspend"} 
          /\ (hooks[k] = <<"suspend">> <=> hooks[k][1] = "suspend")
      BY <1>2, <2>2, HookKinds
    <3>2. /\ C!suspension(hooks[k][1]) /\ UNCHANGED out
          /\ revived' = IF hooks[k][1] = "suspend" THEN {} ELSE out
      BY <2>2, <3>1 DEF C!processGitHubEvent, C!NoOrg
    <3>3. /\ inst' = [inst EXCEPT !.suspended = (hooks[k] = <<"suspend">>)]
          /\ link' = C!status(Repository,
                  IF hooks[k] = <<"suspend">> THEN "DISCONNECTED" ELSE "CONNECTED")
      BY <3>1, <3>2 DEF C!suspension
    <3> QED BY <2>2, <3>1, <3>2, <3>3 DEF Handled
  <2>3. CASE inst.org # "none" /\ ~IsSuspension(hooks[k])
    <3>1. PICK r \in Repository : IsAbout(hooks[k], r)
      BY <1>2, <2>3, HookKinds
    <3>2. /\ hooks[k][1] \notin {"suspend", "unsuspend"} /\ hooks[k][2] = r
          /\ hooks[k] = <<"added", r>> <=> hooks[k][1] = "added"
      BY <1>2, <2>3, <3>1, HookKinds
    <3>3. /\ C!syncInstallationRepositories(hooks[k][1], r)
          /\ IF hooks[k][1] = "added"
             THEN /\ out' = out \ {r}
                  /\ revived' = IF inst.suspended THEN revived \cup {r} ELSE revived \ {r}
             ELSE out' = out \cup {r} /\ revived' = revived \ {r}
      BY <2>3, <3>2 DEF C!processGitHubEvent, C!NoOrg
    <3> QED BY <2>3, <3>1, <3>2, <3>3 DEF Handled, C!syncInstallationRepositories
  <2> QED BY <2>1, <2>2, <2>3
<1>4. /\ InstTypes' /\ inst'.org = inst.org /\ LinkTypes'
      /\ \A r \in Repository : link'[r].org = link[r].org
      /\ out' \subseteq Repository /\ revived' \subseteq Repository /\ Unbound'
  <2>1. CASE inst.org = "none"
    BY <1>1, <2>1, <1>3 DEF Handled, ConnInv, InstTypes, LinkTypes, HookTypes, Unbound
  <2>2. CASE inst.org # "none" /\ IsSuspension(hooks[k])
    <3>1. ~\E r \in Repository : IsAbout(hooks[k], r)
      BY <1>2, <2>2, HookKinds
    <3>2. /\ inst' = [inst EXCEPT !.suspended = (hooks[k] = <<"suspend">>)]
          /\ link' = C!status(Repository,
                  IF hooks[k] = <<"suspend">> THEN "DISCONNECTED" ELSE "CONNECTED")
          /\ out' = out /\ revived' \subseteq out
      BY <1>3, <2>2, <3>1 DEF Handled
    <3>3. InstTypes' /\ inst'.org = inst.org
      BY <1>1, <3>2 DEF ConnInv, InstTypes
    <3>4. LinkTypes' /\ \A r \in Repository : link'[r].org = link[r].org
      BY <1>1, <3>2, Statuses DEF ConnInv
    <3> QED BY <2>2, <3>2, <3>3, <3>4 DEF ConnInv, HookTypes, Unbound
  <2>3. CASE inst.org # "none" /\ ~IsSuspension(hooks[k])
    <3>1. PICK r \in Repository :
            /\ UNCHANGED inst
            /\ link' = C!status({r}, "CONNECTED") \/ link' = C!status({r}, "DISCONNECTED")
            /\ out' \subseteq out \cup {r} /\ revived' \subseteq revived \cup {r}
      BY <1>3, <2>3 DEF Handled
    <3>2. LinkTypes' /\ \A s \in Repository : link'[s].org = link[s].org
      BY <1>1, <3>1, Statuses DEF ConnInv
    <3> QED BY <1>1, <2>3, <3>1, <3>2 DEF ConnInv, InstTypes, HookTypes, Unbound
  <2> QED BY <2>1, <2>2, <2>3
<1>5. HookTypes'
  BY <1>1, <1>2, <1>4, Takes DEF ConnInv, HookTypes
<1>6. AttemptTypes' /\ RemoteTypes' /\ AskTypes' /\ Attempts'
  BY <1>1 DEF ConnInv, AttemptTypes, RemoteTypes, AskTypes, Attempts
<1>7. Imports'
  BY <1>1, <1>4 DEF ConnInv, Imports
<1>8. Ownership'
  <2>1. \A r \in Repository : link'[r].status = "CONNECTED" => link'[r].org # "none"
    <3>1. CASE inst.org = "none"
      BY <3>1, <1>3 DEF ConnInv, Ownership, Handled
    <3>2. CASE inst.org # "none"
      <4>1. \E S \in SUBSET Repository, v \in {"CONNECTED", "DISCONNECTED"} :
                 link' = C!status(S, v)
        BY <1>3, <3>2 DEF Handled
      <4> QED BY <1>1, <4>1, Statuses DEF ConnInv, Ownership
    <3> QED BY <3>1, <3>2
  <2> QED BY <1>1, <1>4, <2>1 DEF ConnInv, Ownership
<1>9. Calm' => Calm /\ k = 1
  BY <1>1, <1>2 DEF Calm
<1>10. ReadsHold'
  BY <1>1, <1>9 DEF ConnInv, ReadsHold
<1>11. ASSUME Calm' PROVE LastHookIsTrue' /\ RowsFollow'
  <2>1. k = 1 /\ Calm
    BY <1>9, <1>11
  <2> DEFINE n == Len(hooks) - 1
  <2>2. /\ DOMAIN hooks = 1..(n + 1) /\ DOMAIN hooks' = 1..n /\ n \in Nat
        /\ \A j \in 1..n : hooks'[j] = hooks[j + 1]
    BY <1>1, <1>2, <2>1, Takes
  <2> HIDE DEF n
  <2>3. /\ \A j \in 1..n : j \in Suspensions' <=> j + 1 \in Suspensions
        /\ Suspensions' \subseteq 1..n /\ Suspensions \subseteq 1..(n + 1)
    BY <2>2 DEF Suspensions
  <2>4. ASSUME NEW r \in Repository
        PROVE  /\ \A j \in 1..n : j \in About(r)' <=> j + 1 \in About(r)
               /\ About(r)' \subseteq 1..n /\ About(r) \subseteq 1..(n + 1)
    BY <2>2 DEF About
  <2>5. ASSUME NEW j \in Suspensions', \A i \in Suspensions' : i <= j
        PROVE  hooks'[j] = <<"suspend">> <=> github.suspended
    <3>1. j \in 1..n /\ j + 1 \in Suspensions /\ hooks'[j] = hooks[j + 1]
      BY <2>2, <2>3, <2>5
    <3>2. ASSUME NEW i \in Suspensions PROVE i <= j + 1
      <4>1. CASE i = 1
        BY <3>1, <4>1
      <4>2. CASE i # 1
        <5>1. i - 1 \in 1..n /\ (i - 1) + 1 = i
          BY <2>2, <2>3, <4>2
        <5>2. i - 1 \in Suspensions'
          BY <2>3, <5>1
        <5> QED BY <2>5, <3>1, <5>1, <5>2
      <4> QED BY <4>1, <4>2
    <3> QED BY <2>1, <3>1, <3>2 DEF ConnInv, LastHookIsTrue
  <2>6. ASSUME NEW r \in Repository, NEW j \in About(r)', \A i \in About(r)' : i <= j
        PROVE  hooks'[j] = <<"added", r>> <=> r \in github.repos
    <3>1. j \in 1..n /\ j + 1 \in About(r) /\ hooks'[j] = hooks[j + 1]
      BY <2>2, <2>4, <2>6
    <3>2. ASSUME NEW i \in About(r) PROVE i <= j + 1
      <4>1. CASE i = 1
        BY <3>1, <4>1
      <4>2. CASE i # 1
        <5>1. i - 1 \in 1..n /\ (i - 1) + 1 = i
          BY <2>2, <2>4, <4>2
        <5>2. i - 1 \in About(r)'
          BY <2>4, <5>1
        <5> QED BY <2>6, <3>1, <5>1, <5>2
      <4> QED BY <4>1, <4>2
    <3> QED BY <2>1, <3>1, <3>2 DEF ConnInv, LastHookIsTrue
  <2>7. LastHookIsTrue'
    BY <1>1, <2>5, <2>6 DEF LastHookIsTrue
  \* The webhook handled is the last of its kind if none of it is left.
  <2>8. ASSUME Suspensions' = {}
        PROVE  IF IsSuspension(hooks[1]) THEN hooks[1] = <<"suspend">> <=> github.suspended
               ELSE Suspensions = {}
    <3>1. \A i \in Suspensions : i = 1
      <4>1. ASSUME NEW i \in Suspensions, i # 1 PROVE FALSE
        <5>1. i - 1 \in 1..n /\ (i - 1) + 1 = i
          BY <2>2, <2>3, <4>1
        <5> QED BY <2>3, <2>8, <5>1
      <4> QED BY <4>1
    <3>2. 1 \in Suspensions <=> IsSuspension(hooks[1])
      BY <1>2, <2>1 DEF Suspensions
    <3>3. CASE IsSuspension(hooks[1])
      BY <2>1, <3>1, <3>2, <3>3 DEF ConnInv, LastHookIsTrue
    <3> QED BY <3>1, <3>2, <3>3
  <2>9. ASSUME NEW r \in Repository, About(r)' = {}
        PROVE  IF IsAbout(hooks[1], r) THEN hooks[1] = <<"added", r>> <=> r \in github.repos
               ELSE About(r) = {}
    <3>1. \A i \in About(r) : i = 1
      <4>1. ASSUME NEW i \in About(r), i # 1 PROVE FALSE
        <5>1. i - 1 \in 1..n /\ (i - 1) + 1 = i
          BY <2>2, <2>4, <4>1
        <5> QED BY <2>4, <2>9, <5>1
      <4> QED BY <4>1
    <3>2. 1 \in About(r) <=> IsAbout(hooks[1], r)
      BY <1>2, <2>1 DEF About
    <3>3. CASE IsAbout(hooks[1], r)
      BY <2>1, <3>1, <3>2, <3>3 DEF ConnInv, LastHookIsTrue
    <3> QED BY <3>1, <3>2, <3>3
  <2>10. RowsFollow'
    <3>1. CASE inst.org = "none"
      <4>1. /\ UNCHANGED <<inst, link, out, revived>> /\ out = {}
            /\ \A r \in Repository : link[r].org = "none" /\ link[r].status # "CONNECTED"
        BY <1>3, <3>1 DEF Handled, ConnInv, Unbound, Ownership
      <4> QED BY <1>1, <3>1, <4>1 DEF RowsFollow
    <3>2. CASE inst.org # "none" /\ IsSuspension(hooks[1])
      <4>1. \A r \in Repository : ~IsAbout(hooks[1], r)
        BY <1>2, <2>1, <3>2, HookKinds
      <4>2. /\ inst' = [inst EXCEPT !.suspended = (hooks[1] = <<"suspend">>)]
            /\ link' = C!status(Repository,
                    IF hooks[1] = <<"suspend">> THEN "DISCONNECTED" ELSE "CONNECTED")
            /\ out' = out /\ revived' = IF hooks[1] = <<"suspend">> THEN {} ELSE out
        BY <1>3, <2>1, <3>2, <4>1 DEF Handled
      <4>3. inst'.suspended = (hooks[1] = <<"suspend">>)
        BY <4>2 DEF ConnInv, InstTypes
      <4>4. \A r \in Repository : link'[r].status = "CONNECTED" =>
              /\ hooks[1] # <<"suspend">> /\ link'[r].org # "none"
        BY <1>1, <4>2, <1>8, Statuses DEF ConnInv, Ownership
      <4>5. Suspensions' = {} => (inst'.suspended = github.suspended
                                   /\ (github.suspended <=> hooks[1] = <<"suspend">>))
        BY <2>8, <3>2, <4>3 DEF ConnInv, RemoteTypes
      <4>6. \A r \in Repository : About(r)' = {} => About(r) = {}
        BY <2>9, <4>1
      <4> QED BY <1>1, <1>4, <2>1, <4>2, <4>4, <4>5, <4>6 DEF ConnInv, RowsFollow
    <3>3. CASE inst.org # "none" /\ ~IsSuspension(hooks[1])
      <4>1. PICK r \in Repository :
              /\ IsAbout(hooks[1], r) /\ UNCHANGED inst
              /\ \/ /\ hooks[1] = <<"added", r>> /\ link' = C!status({r}, "CONNECTED")
                    /\ out' = out \ {r}
                    /\ revived' = IF inst.suspended THEN revived \cup {r} ELSE revived \ {r}
                 \/ /\ hooks[1] # <<"added", r>> /\ link' = C!status({r}, "DISCONNECTED")
                    /\ out' = out \cup {r} /\ revived' = revived \ {r}
        BY <1>3, <2>1, <3>3 DEF Handled
      <4>2. \A s \in Repository : s # r => /\ link'[s].status = link[s].status
                                           /\ s \in out' <=> s \in out
                                           /\ s \in revived' <=> s \in revived
                                           /\ (About(s)' = {} => About(s) = {})
        <5>1. \A s \in Repository : s # r => ~IsAbout(hooks[1], s)
          BY <1>2, <2>1, <4>1, HookKinds
        <5>2. \A s \in Repository : s # r => link'[s].status = link[s].status
          BY <1>1, <4>1, Statuses DEF ConnInv
        <5> QED BY <2>9, <4>1, <5>1, <5>2
      <4>3. Suspensions' = {} => Suspensions = {}
        BY <2>8, <3>3
      <4>4. About(r)' = {} => (hooks[1] = <<"added", r>> <=> r \in github.repos)
        BY <2>9, <4>1
      <4>5. link'[r].status = "CONNECTED" =>
              hooks[1] = <<"added", r>> \/ link[r].org = "none"
        BY <1>1, <4>1, Statuses DEF ConnInv
      <4>6. link'[r].status = "CONNECTED" => hooks[1] = <<"added", r>>
        BY <1>4, <1>8, <4>5 DEF Ownership
      <4>7. /\ About(r)' = {} =>
                 /\ r \in out' => r \notin github.repos
                 /\ link'[r].org # "none" /\ r \notin out' => r \in github.repos
                 /\ link'[r].status = "CONNECTED" /\ r \in out' => r \in revived'
        BY <4>1, <4>4, <4>6
      <4>8. Suspensions' = {} /\ link'[r].status = "CONNECTED" /\ github.suspended => r \in revived'
        BY <2>1, <3>3, <4>1, <4>3, <4>6 DEF ConnInv, RowsFollow
      <4>9. ASSUME NEW s \in Repository, s # r
            PROVE  /\ About(s)' = {} =>
                        /\ s \in out' => s \notin github.repos
                        /\ link'[s].org # "none" /\ s \notin out' => s \in github.repos
                        /\ link'[s].status = "CONNECTED" /\ s \in out' => s \in revived'
                   /\ Suspensions' = {} /\ link'[s].status = "CONNECTED" /\ github.suspended
                        => s \in revived'
        BY <1>4, <2>1, <4>2, <4>3, <4>9 DEF ConnInv, RowsFollow
      <4>10. Suspensions' = {} /\ inst'.org # "none" => inst'.suspended = github.suspended
        BY <2>1, <4>1, <4>3 DEF ConnInv, RowsFollow
      <4> QED BY <1>1, <4>7, <4>8, <4>9, <4>10 DEF RowsFollow
    <3> QED BY <2>1, <3>1, <3>2, <3>3
  <2> QED BY <2>7, <2>10
<1>12. LastHookIsTrue' /\ RowsFollow'
  BY <1>11 DEF LastHookIsTrue, RowsFollow
<1> QED BY <1>4, <1>5, <1>6, <1>7, <1>8, <1>10, <1>12 DEF ConnInv

LEMMA Conn_LoseHook == ASSUME ConnInv, NEW k, C!LoseHook(k) PROVE ConnInv'
<1>1. /\ k \in DOMAIN hooks /\ hooks' = C!remaining(k) /\ raced' = Repository
      /\ UNCHANGED <<attempt, exchanged, github, inst, owners, link, projects, req, out, revived>>
  BY DEF C!LoseHook
<1>2. ~Calm'
  BY <1>1 DEF Calm
<1>3. LastHookIsTrue' /\ RowsFollow' /\ ReadsHold'
  BY <1>2 DEF LastHookIsTrue, RowsFollow, ReadsHold
<1>4. HookTypes'
  BY <1>1, Takes DEF ConnInv, HookTypes
<1>5. /\ AttemptTypes' /\ RemoteTypes' /\ InstTypes' /\ LinkTypes' /\ AskTypes'
      /\ Attempts' /\ Ownership' /\ Imports' /\ Unbound'
  BY <1>1 DEF ConnInv, AttemptTypes, RemoteTypes, InstTypes, LinkTypes, AskTypes, Attempts,
     Ownership, Imports, Unbound
<1> QED BY <1>3, <1>4, <1>5 DEF ConnInv

LEMMA ConnNext == ASSUME ConnInv, [C!GhNext]_connected PROVE ConnInv'
<1>1. CASE UNCHANGED connected
  BY <1>1 DEF connected, ConnInv, AttemptTypes, RemoteTypes, InstTypes, LinkTypes, AskTypes,
     HookTypes, Attempts, Ownership, Imports, LastHookIsTrue, RowsFollow, ReadsHold, Unbound,
     Calm, Suspensions, About
<1>2. CASE C!GhNext
  BY <1>2, Conn_github, Conn_startAuthorization, Conn_consume, Conn_completeAuthorization,
     Conn_persistInstallation, Conn_saveInstallation, Conn_importRepository,
     Conn_listInstallationRepositories, Conn_insertProject, Conn_processGitHubEvent,
     Conn_LoseHook
  DEF C!GhNext
<1> QED BY <1>1, <1>2

LEMMA ConnectionsAreSound ==
  ConnInv => /\ C!TypeOK /\ C!StatesAreUsedOnce /\ C!InstallationsStayBound
             /\ C!OneProjectPerRepository /\ C!ConnectedIsReachable
<1> SUFFICES ASSUME ConnInv
             PROVE  /\ C!TypeOK /\ C!StatesAreUsedOnce /\ C!InstallationsStayBound
                    /\ C!OneProjectPerRepository /\ C!ConnectedIsReachable
  OBVIOUS
<1>1. C!TypeOK
  BY DEF ConnInv, AttemptTypes, RemoteTypes, InstTypes, LinkTypes, AskTypes, HookTypes, C!TypeOK,
     C!NoOrg, Owner, Link, Ask
<1>2. C!StatesAreUsedOnce /\ C!OneProjectPerRepository
  BY DEF ConnInv, Attempts, Imports, C!StatesAreUsedOnce, C!OneProjectPerRepository
<1>3. C!InstallationsStayBound
  <2>1. Cardinality(owners) <= 1
    <3>1. owners = {} \/ owners = {inst.org}
      BY DEF ConnInv, Ownership
    <3>2. Cardinality({}) = 0 /\ Cardinality({inst.org}) = 1
      BY FS_EmptySet, FS_Singleton
    <3> QED BY <3>1, <3>2
  <2>2. \A T : C!Cardinality(T) = Cardinality(T)
    BY DEF C!Cardinality, Cardinality
  <2> QED BY <2>1, <2>2 DEF ConnInv, Ownership, C!InstallationsStayBound, C!NoOrg
<1>4. C!ConnectedIsReachable
  <2>1. SUFFICES ASSUME NEW r \in Repository, hooks = <<>>, link[r].status = "CONNECTED",
                        r \notin raced \cup revived
                 PROVE  r \in github.repos /\ ~github.suspended
    BY DEF C!ConnectedIsReachable
  <2>2. Calm /\ Suspensions = {} /\ About(r) = {}
    BY <2>1 DEF Calm, Suspensions, About
  <2>3. link[r].org # "none"
    BY <2>1 DEF ConnInv, Ownership
  <2> QED BY <2>1, <2>2, <2>3 DEF ConnInv, RowsFollow
<1> QED BY <1>1, <1>2, <1>3, <1>4

-----------------------------------------------------------------------------
(* The evidence: each instance of Verification and of PullRequests takes   *)
(* its invariant from EvidenceProofs, whose actions are those of           *)
(* MCDelivery. One instance of EvidenceProofs serves a part of each:       *)
(* checks and retries, jobs and webhooks, reviews and overlapping runs.    *)

CR == INSTANCE EvidenceProofs
  WITH Check <- {"UNIT"}, Job <- {"j1"}, MaxRev <- 1, MaxTests <- 2, MaxFindings <- 0,
       Deliverer <- {1}, Handler <- {1}, MaxDeliveries <- 1, MaxAttempts <- 3,
       MaxChanges <- 1, MaxEvents <- 1, MaxReceipts <- 1
JW == INSTANCE EvidenceProofs
  WITH Check <- {"CUSTOM"}, Job <- {"j1", "j2"}, MaxRev <- 1, MaxTests <- 1, MaxFindings <- 0,
       Deliverer <- {1}, Handler <- {1, 2}, MaxDeliveries <- 1, MaxAttempts <- 1,
       MaxChanges <- 2, MaxEvents <- 2, MaxReceipts <- 3
RO == INSTANCE EvidenceProofs
  WITH Check <- {"UNIT"}, Job <- {}, MaxRev <- 1, MaxTests <- 2, MaxFindings <- 2,
       Deliverer <- {1, 2}, Handler <- {1}, MaxDeliveries <- 2, MaxAttempts <- 1,
       MaxChanges <- 1, MaxEvents <- 1, MaxReceipts <- 1

JudgeInv == /\ part = "checks" => CR!IInv
            /\ part = "jobs" => JW!IInv
            /\ part = "reviews" => RO!IInv

LEMMA Sensibly == CR!Sensible /\ JW!Sensible /\ RO!Sensible
BY DEF CR!Sensible, JW!Sensible, RO!Sensible

LEMMA ChecksInit == Checks!Init => CR!Init
BY DEF Checks!Init, CR!Init, Checks!Proc, CR!Proc, Checks!Resting, CR!Resting

LEMMA ChecksNext == [Checks!Next]_judged => [CR!Next]_CR!vfVars
<1> USE DEF Checks!Proc, CR!Proc, Checks!createRun, CR!createRun, Checks!NoResults, CR!NoResults,
   Checks!enter, CR!enter, Checks!deliverable, CR!deliverable, Checks!Finished, CR!Finished,
   Checks!slots, CR!slots, Checks!row, CR!row, Checks!isFailure, CR!isFailure, Checks!Resting,
   CR!Resting, Checks!open, CR!open, Checks!noneBlocks, CR!noneBlocks, Checks!Found, CR!Found,
   Checks!Verdicts, CR!Verdicts, Checks!passes, CR!passes, Checks!store, CR!store,
   Checks!reviewPatch, CR!reviewPatch, Checks!completeGates, CR!completeGates
<1>1. Checks!runChecks => CR!runChecks
  BY DEF Checks!runChecks, CR!runChecks
<1>2. Checks!trigger => CR!trigger
  BY DEF Checks!trigger, CR!trigger
<1>3. Checks!runReview => CR!runReview
  BY DEF Checks!runReview, CR!runReview
<1>4. Checks!resolveFindings => CR!resolveFindings
  BY DEF Checks!resolveFindings, CR!resolveFindings
<1>5. Checks!uiQaStep => CR!uiQaStep
  BY DEF Checks!uiQaStep, CR!uiQaStep
<1>6. Checks!markFindingsFixing => CR!markFindingsFixing
  BY DEF Checks!markFindingsFixing, CR!markFindingsFixing
<1>7. Checks!runImplementer => CR!runImplementer
  BY DEF Checks!runImplementer, CR!runImplementer
<1>8. Checks!triggerReview => CR!triggerReview
  BY DEF Checks!triggerReview, CR!triggerReview
<1>9. Checks!completeStep => CR!completeStep
  BY DEF Checks!completeStep, CR!completeStep
<1>10. \A p : Checks!installDependencies(p) => CR!installDependencies(p)
  BY DEF Checks!installDependencies, CR!installDependencies
<1>11. \A p : Checks!WorktreeMissing(p) => CR!WorktreeMissing(p)
  BY DEF Checks!WorktreeMissing, CR!WorktreeMissing
<1>12. \A p : Checks!RunCheck(p) => CR!RunCheck(p)
  BY DEF Checks!RunCheck, CR!RunCheck
<1>13. \A p : Checks!FinishRun(p) => CR!FinishRun(p)
  BY DEF Checks!FinishRun, CR!FinishRun
<1>14. \A p : Checks!Dies(p) => CR!Dies(p)
  BY DEF Checks!Dies, CR!Dies
<1>15. \A p : Checks!Deliver(p) => CR!Deliver(p)
  BY DEF Checks!Deliver, CR!Deliver
<1>16. \A v : Checks!Persist(v) => CR!Persist(v)
  BY DEF Checks!Persist, CR!Persist
<1>17. \A v : Checks!adhocReview(v) => CR!adhocReview(v)
  BY DEF Checks!adhocReview, CR!adhocReview
<1>18. \A i : Checks!updateFinding(i) => CR!updateFinding(i)
  BY DEF Checks!updateFinding, CR!updateFinding
<1> HIDE DEF Checks!createRun, CR!createRun, Checks!NoResults, CR!NoResults, Checks!enter,
   CR!enter, Checks!deliverable, CR!deliverable, Checks!Finished, CR!Finished, Checks!slots,
   CR!slots, Checks!row, CR!row, Checks!isFailure, CR!isFailure, Checks!Resting, CR!Resting,
   Checks!open, CR!open, Checks!noneBlocks, CR!noneBlocks, Checks!Found, CR!Found, Checks!passes,
   CR!passes, Checks!store, CR!store, Checks!reviewPatch, CR!reviewPatch, Checks!completeGates,
   CR!completeGates
<1> QED BY <1>1, <1>2, <1>3, <1>4, <1>5, <1>6, <1>7, <1>8, <1>9, <1>10, <1>11, <1>12, <1>13,
   <1>14, <1>15, <1>16, <1>17, <1>18 DEF Checks!Next, CR!Next, judged, CR!vfVars

LEMMA JobsInit == Jobs!Init => JW!Init
BY DEF Jobs!Init, JW!Init, Jobs!Proc, JW!Proc, Jobs!Resting, JW!Resting

LEMMA JobsNext == [Jobs!Next]_judged => [JW!Next]_JW!vfVars
<1> USE DEF Jobs!Proc, JW!Proc, Jobs!createRun, JW!createRun, Jobs!NoResults, JW!NoResults,
   Jobs!enter, JW!enter, Jobs!deliverable, JW!deliverable, Jobs!Finished, JW!Finished, Jobs!slots,
   JW!slots, Jobs!row, JW!row, Jobs!isFailure, JW!isFailure, Jobs!Resting, JW!Resting, Jobs!open,
   JW!open, Jobs!noneBlocks, JW!noneBlocks, Jobs!Found, JW!Found, Jobs!Verdicts, JW!Verdicts,
   Jobs!passes, JW!passes, Jobs!store, JW!store, Jobs!reviewPatch, JW!reviewPatch,
   Jobs!completeGates, JW!completeGates
<1>1. Jobs!runChecks => JW!runChecks
  BY DEF Jobs!runChecks, JW!runChecks
<1>2. Jobs!trigger => JW!trigger
  BY DEF Jobs!trigger, JW!trigger
<1>3. Jobs!runReview => JW!runReview
  BY DEF Jobs!runReview, JW!runReview
<1>4. Jobs!resolveFindings => JW!resolveFindings
  BY DEF Jobs!resolveFindings, JW!resolveFindings
<1>5. Jobs!uiQaStep => JW!uiQaStep
  BY DEF Jobs!uiQaStep, JW!uiQaStep
<1>6. Jobs!markFindingsFixing => JW!markFindingsFixing
  BY DEF Jobs!markFindingsFixing, JW!markFindingsFixing
<1>7. Jobs!runImplementer => JW!runImplementer
  BY DEF Jobs!runImplementer, JW!runImplementer
<1>8. Jobs!triggerReview => JW!triggerReview
  BY DEF Jobs!triggerReview, JW!triggerReview
<1>9. Jobs!completeStep => JW!completeStep
  BY DEF Jobs!completeStep, JW!completeStep
<1>10. \A p : Jobs!installDependencies(p) => JW!installDependencies(p)
  BY DEF Jobs!installDependencies, JW!installDependencies
<1>11. \A p : Jobs!WorktreeMissing(p) => JW!WorktreeMissing(p)
  BY DEF Jobs!WorktreeMissing, JW!WorktreeMissing
<1>12. \A p : Jobs!RunCheck(p) => JW!RunCheck(p)
  BY DEF Jobs!RunCheck, JW!RunCheck
<1>13. \A p : Jobs!FinishRun(p) => JW!FinishRun(p)
  BY DEF Jobs!FinishRun, JW!FinishRun
<1>14. \A p : Jobs!Dies(p) => JW!Dies(p)
  BY DEF Jobs!Dies, JW!Dies
<1>15. \A p : Jobs!Deliver(p) => JW!Deliver(p)
  BY DEF Jobs!Deliver, JW!Deliver
<1>16. \A v : Jobs!Persist(v) => JW!Persist(v)
  BY DEF Jobs!Persist, JW!Persist
<1>17. \A v : Jobs!adhocReview(v) => JW!adhocReview(v)
  BY DEF Jobs!adhocReview, JW!adhocReview
<1>18. \A i : Jobs!updateFinding(i) => JW!updateFinding(i)
  BY DEF Jobs!updateFinding, JW!updateFinding
<1> HIDE DEF Jobs!createRun, JW!createRun, Jobs!NoResults, JW!NoResults, Jobs!enter, JW!enter,
   Jobs!deliverable, JW!deliverable, Jobs!Finished, JW!Finished, Jobs!slots, JW!slots, Jobs!row,
   JW!row, Jobs!isFailure, JW!isFailure, Jobs!Resting, JW!Resting, Jobs!open, JW!open,
   Jobs!noneBlocks, JW!noneBlocks, Jobs!Found, JW!Found, Jobs!passes, JW!passes, Jobs!store,
   JW!store, Jobs!reviewPatch, JW!reviewPatch, Jobs!completeGates, JW!completeGates
<1> QED BY <1>1, <1>2, <1>3, <1>4, <1>5, <1>6, <1>7, <1>8, <1>9, <1>10, <1>11, <1>12, <1>13,
   <1>14, <1>15, <1>16, <1>17, <1>18 DEF Jobs!Next, JW!Next, judged, JW!vfVars

LEMMA ReviewsInit == Reviews!Init => RO!Init
BY DEF Reviews!Init, RO!Init, Reviews!Proc, RO!Proc, Reviews!Resting, RO!Resting

LEMMA ReviewsNext == [Reviews!Next]_judged => [RO!Next]_RO!vfVars
<1> USE DEF Reviews!Proc, RO!Proc, Reviews!createRun, RO!createRun, Reviews!NoResults,
   RO!NoResults, Reviews!enter, RO!enter, Reviews!deliverable, RO!deliverable, Reviews!Finished,
   RO!Finished, Reviews!slots, RO!slots, Reviews!row, RO!row, Reviews!isFailure, RO!isFailure,
   Reviews!Resting, RO!Resting, Reviews!open, RO!open, Reviews!noneBlocks, RO!noneBlocks,
   Reviews!Found, RO!Found, Reviews!Verdicts, RO!Verdicts, Reviews!passes, RO!passes,
   Reviews!store, RO!store, Reviews!reviewPatch, RO!reviewPatch, Reviews!completeGates,
   RO!completeGates
<1>1. Reviews!runChecks => RO!runChecks
  BY DEF Reviews!runChecks, RO!runChecks
<1>2. Reviews!trigger => RO!trigger
  BY DEF Reviews!trigger, RO!trigger
<1>3. Reviews!runReview => RO!runReview
  BY DEF Reviews!runReview, RO!runReview
<1>4. Reviews!resolveFindings => RO!resolveFindings
  BY DEF Reviews!resolveFindings, RO!resolveFindings
<1>5. Reviews!uiQaStep => RO!uiQaStep
  BY DEF Reviews!uiQaStep, RO!uiQaStep
<1>6. Reviews!markFindingsFixing => RO!markFindingsFixing
  BY DEF Reviews!markFindingsFixing, RO!markFindingsFixing
<1>7. Reviews!runImplementer => RO!runImplementer
  BY DEF Reviews!runImplementer, RO!runImplementer
<1>8. Reviews!triggerReview => RO!triggerReview
  BY DEF Reviews!triggerReview, RO!triggerReview
<1>9. Reviews!completeStep => RO!completeStep
  BY DEF Reviews!completeStep, RO!completeStep
<1>10. \A p : Reviews!installDependencies(p) => RO!installDependencies(p)
  BY DEF Reviews!installDependencies, RO!installDependencies
<1>11. \A p : Reviews!WorktreeMissing(p) => RO!WorktreeMissing(p)
  BY DEF Reviews!WorktreeMissing, RO!WorktreeMissing
<1>12. \A p : Reviews!RunCheck(p) => RO!RunCheck(p)
  BY DEF Reviews!RunCheck, RO!RunCheck
<1>13. \A p : Reviews!FinishRun(p) => RO!FinishRun(p)
  BY DEF Reviews!FinishRun, RO!FinishRun
<1>14. \A p : Reviews!Dies(p) => RO!Dies(p)
  BY DEF Reviews!Dies, RO!Dies
<1>15. \A p : Reviews!Deliver(p) => RO!Deliver(p)
  BY DEF Reviews!Deliver, RO!Deliver
<1>16. \A v : Reviews!Persist(v) => RO!Persist(v)
  BY DEF Reviews!Persist, RO!Persist
<1>17. \A v : Reviews!adhocReview(v) => RO!adhocReview(v)
  BY DEF Reviews!adhocReview, RO!adhocReview
<1>18. \A i : Reviews!updateFinding(i) => RO!updateFinding(i)
  BY DEF Reviews!updateFinding, RO!updateFinding
<1> HIDE DEF Reviews!createRun, RO!createRun, Reviews!NoResults, RO!NoResults, Reviews!enter,
   RO!enter, Reviews!deliverable, RO!deliverable, Reviews!Finished, RO!Finished, Reviews!slots,
   RO!slots, Reviews!row, RO!row, Reviews!isFailure, RO!isFailure, Reviews!Resting, RO!Resting,
   Reviews!open, RO!open, Reviews!noneBlocks, RO!noneBlocks, Reviews!Found, RO!Found,
   Reviews!passes, RO!passes, Reviews!store, RO!store, Reviews!reviewPatch, RO!reviewPatch,
   Reviews!completeGates, RO!completeGates
<1> QED BY <1>1, <1>2, <1>3, <1>4, <1>5, <1>6, <1>7, <1>8, <1>9, <1>10, <1>11, <1>12, <1>13,
   <1>14, <1>15, <1>16, <1>17, <1>18 DEF Reviews!Next, RO!Next, judged, RO!vfVars

LEMMA JudgeInit == MCInit => JudgeInv
<1>1. SUFFICES ASSUME MCInit PROVE JudgeInv
  OBVIOUS
<1>2. CASE part = "jobs"
  <2>1. JW!Init
    BY <1>1, <1>2, JobsInit DEF MCInit
  <2> QED BY <1>2, <2>1, Sensibly, JW!InitInv DEF JW!InitInv, JudgeInv
<1>3. CASE part = "reviews"
  <2>1. RO!Init
    BY <1>1, <1>3, ReviewsInit DEF MCInit
  <2> QED BY <1>3, <2>1, Sensibly, RO!InitInv DEF RO!InitInv, JudgeInv
<1>4. CASE part = "checks"
  <2>1. CR!Init
    BY <1>1, <1>4, ChecksInit DEF MCInit
  <2> QED BY <1>4, <2>1, Sensibly, CR!InitInv DEF CR!InitInv, JudgeInv
<1> QED BY <1>2, <1>3, <1>4 DEF JudgeInv

\* A step of MCDelivery is one of the part that moves.
LEMMA JudgeSteps ==
  ASSUME [MCNext]_MCvars
  PROVE  /\ UNCHANGED part
         /\ part = "checks" => [CR!Next]_CR!vfVars
         /\ part = "jobs" => [JW!Next]_JW!vfVars
         /\ part = "reviews" => [RO!Next]_RO!vfVars
<1>1. /\ UNCHANGED part
      /\ part = "checks" => [Checks!Next]_judged
      /\ part = "jobs" => [Jobs!Next]_judged
      /\ part = "reviews" => [Reviews!Next]_judged
  BY DEF MCNext, MCvars
<1> QED BY <1>1, ChecksNext, JobsNext, ReviewsNext

LEMMA JudgeNext == ASSUME JudgeInv, [MCNext]_MCvars PROVE JudgeInv'
<1>1. part = "checks" => CR!IInv'
  BY JudgeSteps, Sensibly, CR!NextInv DEF CR!NextInv, JudgeInv
<1>2. part = "jobs" => JW!IInv'
  BY JudgeSteps, Sensibly, JW!NextInv DEF JW!NextInv, JudgeInv
<1>3. part = "reviews" => RO!IInv'
  BY JudgeSteps, Sensibly, RO!NextInv DEF RO!NextInv, JudgeInv
<1> QED BY <1>1, <1>2, <1>3, JudgeSteps DEF JudgeInv

LEMMA WorkJudged == ASSUME JudgeInv PROVE CompletedWorkIsJudged
<1>1. ASSUME part = "checks"
      PROVE  Checks!TypeOK /\ Checks!CompletedWorkPassed /\ Checks!EvidenceExplainsVerdict
  <2>1. CR!IInv
    BY <1>1 DEF JudgeInv
  <2>2. CR!TypeOK /\ CR!CompletedWorkPassed /\ CR!EvidenceExplainsVerdict
    BY <2>1, Sensibly, CR!TypesHold, CR!CompletedPass, CR!EvidenceExplains
       DEF CR!TypesHold, CR!CompletedPass, CR!EvidenceExplains
  <2>3. CR!TypeOK => Checks!TypeOK
    BY DEF Checks!TypeOK, CR!TypeOK, Checks!Finished, CR!Finished, Checks!Proc, CR!Proc
  <2>4. CR!CompletedWorkPassed => Checks!CompletedWorkPassed
    BY DEF Checks!CompletedWorkPassed, CR!CompletedWorkPassed
  <2>5. CR!EvidenceExplainsVerdict => Checks!EvidenceExplainsVerdict
    BY DEF Checks!EvidenceExplainsVerdict, CR!EvidenceExplainsVerdict
  <2> QED BY <2>2, <2>3, <2>4, <2>5
<1>2. ASSUME part = "jobs"
      PROVE  Jobs!TypeOK /\ Jobs!CompletedWorkPassed /\ Jobs!EvidenceExplainsVerdict
  <2>1. JW!IInv
    BY <1>2 DEF JudgeInv
  <2>2. JW!TypeOK /\ JW!CompletedWorkPassed /\ JW!EvidenceExplainsVerdict
    BY <2>1, Sensibly, JW!TypesHold, JW!CompletedPass, JW!EvidenceExplains
       DEF JW!TypesHold, JW!CompletedPass, JW!EvidenceExplains
  <2>3. JW!TypeOK => Jobs!TypeOK
    BY DEF Jobs!TypeOK, JW!TypeOK, Jobs!Finished, JW!Finished, Jobs!Proc, JW!Proc
  <2>4. JW!CompletedWorkPassed => Jobs!CompletedWorkPassed
    BY DEF Jobs!CompletedWorkPassed, JW!CompletedWorkPassed
  <2>5. JW!EvidenceExplainsVerdict => Jobs!EvidenceExplainsVerdict
    BY DEF Jobs!EvidenceExplainsVerdict, JW!EvidenceExplainsVerdict
  <2> QED BY <2>2, <2>3, <2>4, <2>5
<1>3. ASSUME part = "reviews"
      PROVE  Reviews!TypeOK /\ Reviews!CompletedWorkPassed /\
             Reviews!CompletedWorkWasReviewed /\ Reviews!FindingsReachAFix
  <2>1. RO!IInv
    BY <1>3 DEF JudgeInv
  <2>2. RO!TypeOK /\ RO!CompletedWorkPassed /\ RO!CompletedWorkWasReviewed /\ RO!FindingsReachAFix
    BY <2>1, Sensibly, RO!TypesHold, RO!CompletedPass, RO!CompletedReviewed, RO!FindingsFixed
       DEF RO!TypesHold, RO!CompletedPass, RO!CompletedReviewed, RO!FindingsFixed
  <2>3. RO!TypeOK => Reviews!TypeOK
    BY DEF Reviews!TypeOK, RO!TypeOK, Reviews!Finished, RO!Finished, Reviews!Proc, RO!Proc
  <2>4. RO!CompletedWorkPassed => Reviews!CompletedWorkPassed
    BY DEF Reviews!CompletedWorkPassed, RO!CompletedWorkPassed
  <2>5. RO!CompletedWorkWasReviewed => Reviews!CompletedWorkWasReviewed
    BY DEF Reviews!CompletedWorkWasReviewed, RO!CompletedWorkWasReviewed
  <2>6. RO!FindingsReachAFix => Reviews!FindingsReachAFix
    BY DEF Reviews!FindingsReachAFix, RO!FindingsReachAFix
  <2> QED BY <2>2, <2>3, <2>4, <2>5, <2>6
<1> QED BY <1>1, <1>2, <1>3 DEF CompletedWorkIsJudged

-----------------------------------------------------------------------------
(* The delivery of the work. *)

PullInv == /\ part = "retries" => CR!PrInv
           /\ part = "webhooks" => JW!PrInv
           /\ part = "overlap" => RO!PrInv

LEMMA PullSensibly == CR!PrSensible /\ JW!PrSensible /\ RO!PrSensible
BY DEF CR!PrSensible, JW!PrSensible, RO!PrSensible

LEMMA RetryInit == Retries!PrInit => CR!PrInit
BY DEF Retries!PrInit, CR!PrInit, Retries!linkedRow, CR!linkedRow, Retries!NoRun, CR!NoRun,
   Retries!Free, CR!Free

LEMMA RetryNext == [Retries!PrNext]_delivered => [CR!PrNext]_CR!prVars
<1> USE DEF Retries!remote, CR!remote, Retries!table, CR!table, Retries!worker, CR!worker,
   Retries!intake, CR!intake, Retries!Remote, CR!Remote, Retries!Opened, CR!Opened,
   Retries!NoRun, CR!NoRun, Retries!Free, CR!Free, Retries!linkedRow, CR!linkedRow,
   Retries!statusOf, CR!statusOf, Retries!now, CR!now, Retries!openPulls, CR!openPulls,
   Retries!firstOf, CR!firstOf, Retries!rowOf, CR!rowOf, Retries!report, CR!report, Retries!at,
   CR!at, Retries!goto, CR!goto, Retries!failed, CR!failed, Retries!found, CR!found,
   Retries!written, CR!written, Retries!stores, CR!stores, Retries!githubDeliveryComplete,
   CR!githubDeliveryComplete, Retries!receipt, CR!receipt, Retries!setReceipt, CR!setReceipt,
   Retries!rest, CR!rest, Retries!syncPullRequest, CR!syncPullRequest
<1>1. \A n : Retries!Change(n) => CR!Change(n)
  BY DEF Retries!Change, CR!Change
<1>2. \A w : Retries!Approved(w) => CR!Approved(w)
  BY DEF Retries!Approved, CR!Approved
<1>3. \A w : Retries!openPlaceholder(w) => CR!openPlaceholder(w)
  BY DEF Retries!openPlaceholder, CR!openPlaceholder
<1>4. \A w : Retries!createPlaceholder(w) => CR!createPlaceholder(w)
  BY DEF Retries!createPlaceholder, CR!createPlaceholder
<1>5. \A w : Retries!closePlaceholders(w) => CR!closePlaceholders(w)
  BY DEF Retries!closePlaceholders, CR!closePlaceholders
<1>6. \A w : Retries!PushFails(w) => CR!PushFails(w)
  BY DEF Retries!PushFails, CR!PushFails
<1>7. \A w : Retries!push(w) => CR!push(w)
  BY DEF Retries!push, CR!push
<1>8. \A w : Retries!markPushed(w) => CR!markPushed(w)
  BY DEF Retries!markPushed, CR!markPushed
<1>9. \A w : Retries!createOrFindPullRequest(w) => CR!createOrFindPullRequest(w)
  BY DEF Retries!createOrFindPullRequest, CR!createOrFindPullRequest
<1>10. \A w : Retries!createPull(w) => CR!createPull(w)
  BY DEF Retries!createPull, CR!createPull
<1>11. \A w : Retries!refind(w) => CR!refind(w)
  BY DEF Retries!refind, CR!refind
<1>12. \A w : Retries!RequestFails(w) => CR!RequestFails(w)
  BY DEF Retries!RequestFails, CR!RequestFails
<1>13. \A w : Retries!lookup(w) => CR!lookup(w)
  BY DEF Retries!lookup, CR!lookup
<1>14. \A w : Retries!record(w) => CR!record(w)
  BY DEF Retries!record, CR!record
<1>15. \A w : Retries!complete(w) => CR!complete(w)
  BY DEF Retries!complete, CR!complete
<1>16. \A w : Retries!Die(w) => CR!Die(w)
  BY DEF Retries!Die, CR!Die
<1>17. \A h : Retries!createEvent(h) => CR!createEvent(h)
  BY DEF Retries!createEvent, CR!createEvent
<1>18. \A h : Retries!claim(h) => CR!claim(h)
  BY DEF Retries!claim, CR!claim
<1>19. \A h : Retries!processGitHubEvent(h) => CR!processGitHubEvent(h)
  BY DEF Retries!processGitHubEvent, CR!processGitHubEvent
<1>20. \A h : Retries!ProcessingFails(h) => CR!ProcessingFails(h)
  BY DEF Retries!ProcessingFails, CR!ProcessingFails
<1>21. \A h, e : Retries!receiveGitHub(h, e) => CR!receiveGitHub(h, e)
  BY DEF Retries!receiveGitHub, CR!receiveGitHub
<1> HIDE DEF Retries!remote, CR!remote, Retries!table, CR!table, Retries!worker, CR!worker,
   Retries!intake, CR!intake, Retries!Remote, CR!Remote, Retries!Opened, CR!Opened,
   Retries!NoRun, CR!NoRun, Retries!Free, CR!Free, Retries!linkedRow, CR!linkedRow,
   Retries!statusOf, CR!statusOf, Retries!now, CR!now, Retries!openPulls, CR!openPulls,
   Retries!firstOf, CR!firstOf, Retries!rowOf, CR!rowOf, Retries!report, CR!report, Retries!at,
   CR!at, Retries!goto, CR!goto, Retries!failed, CR!failed, Retries!found, CR!found,
   Retries!written, CR!written, Retries!stores, CR!stores, Retries!githubDeliveryComplete,
   CR!githubDeliveryComplete, Retries!receipt, CR!receipt, Retries!setReceipt, CR!setReceipt,
   Retries!rest, CR!rest, Retries!syncPullRequest, CR!syncPullRequest
<1> QED BY <1>1, <1>2, <1>3, <1>4, <1>5, <1>6, <1>7, <1>8, <1>9, <1>10, <1>11, <1>12, <1>13,
   <1>14, <1>15, <1>16, <1>17, <1>18, <1>19, <1>20, <1>21 DEF Retries!PrNext, CR!PrNext,
   delivered, CR!prVars

LEMMA HookInit == Webhooks!PrInit => JW!PrInit
BY DEF Webhooks!PrInit, JW!PrInit, Webhooks!linkedRow, JW!linkedRow, Webhooks!NoRun, JW!NoRun,
   Webhooks!Free, JW!Free

LEMMA HookNext == [Webhooks!PrNext]_delivered => [JW!PrNext]_JW!prVars
<1> USE DEF Webhooks!remote, JW!remote, Webhooks!table, JW!table, Webhooks!worker, JW!worker,
   Webhooks!intake, JW!intake, Webhooks!Remote, JW!Remote, Webhooks!Opened, JW!Opened,
   Webhooks!NoRun, JW!NoRun, Webhooks!Free, JW!Free, Webhooks!linkedRow, JW!linkedRow,
   Webhooks!statusOf, JW!statusOf, Webhooks!now, JW!now, Webhooks!openPulls, JW!openPulls,
   Webhooks!firstOf, JW!firstOf, Webhooks!rowOf, JW!rowOf, Webhooks!report, JW!report,
   Webhooks!at, JW!at, Webhooks!goto, JW!goto, Webhooks!failed, JW!failed, Webhooks!found,
   JW!found, Webhooks!written, JW!written, Webhooks!stores, JW!stores,
   Webhooks!githubDeliveryComplete, JW!githubDeliveryComplete, Webhooks!receipt, JW!receipt,
   Webhooks!setReceipt, JW!setReceipt, Webhooks!rest, JW!rest, Webhooks!syncPullRequest,
   JW!syncPullRequest
<1>1. \A n : Webhooks!Change(n) => JW!Change(n)
  BY DEF Webhooks!Change, JW!Change
<1>2. \A w : Webhooks!Approved(w) => JW!Approved(w)
  BY DEF Webhooks!Approved, JW!Approved
<1>3. \A w : Webhooks!openPlaceholder(w) => JW!openPlaceholder(w)
  BY DEF Webhooks!openPlaceholder, JW!openPlaceholder
<1>4. \A w : Webhooks!createPlaceholder(w) => JW!createPlaceholder(w)
  BY DEF Webhooks!createPlaceholder, JW!createPlaceholder
<1>5. \A w : Webhooks!closePlaceholders(w) => JW!closePlaceholders(w)
  BY DEF Webhooks!closePlaceholders, JW!closePlaceholders
<1>6. \A w : Webhooks!PushFails(w) => JW!PushFails(w)
  BY DEF Webhooks!PushFails, JW!PushFails
<1>7. \A w : Webhooks!push(w) => JW!push(w)
  BY DEF Webhooks!push, JW!push
<1>8. \A w : Webhooks!markPushed(w) => JW!markPushed(w)
  BY DEF Webhooks!markPushed, JW!markPushed
<1>9. \A w : Webhooks!createOrFindPullRequest(w) => JW!createOrFindPullRequest(w)
  BY DEF Webhooks!createOrFindPullRequest, JW!createOrFindPullRequest
<1>10. \A w : Webhooks!createPull(w) => JW!createPull(w)
  BY DEF Webhooks!createPull, JW!createPull
<1>11. \A w : Webhooks!refind(w) => JW!refind(w)
  BY DEF Webhooks!refind, JW!refind
<1>12. \A w : Webhooks!RequestFails(w) => JW!RequestFails(w)
  BY DEF Webhooks!RequestFails, JW!RequestFails
<1>13. \A w : Webhooks!lookup(w) => JW!lookup(w)
  BY DEF Webhooks!lookup, JW!lookup
<1>14. \A w : Webhooks!record(w) => JW!record(w)
  BY DEF Webhooks!record, JW!record
<1>15. \A w : Webhooks!complete(w) => JW!complete(w)
  BY DEF Webhooks!complete, JW!complete
<1>16. \A w : Webhooks!Die(w) => JW!Die(w)
  BY DEF Webhooks!Die, JW!Die
<1>17. \A h : Webhooks!createEvent(h) => JW!createEvent(h)
  BY DEF Webhooks!createEvent, JW!createEvent
<1>18. \A h : Webhooks!claim(h) => JW!claim(h)
  BY DEF Webhooks!claim, JW!claim
<1>19. \A h : Webhooks!processGitHubEvent(h) => JW!processGitHubEvent(h)
  BY DEF Webhooks!processGitHubEvent, JW!processGitHubEvent
<1>20. \A h : Webhooks!ProcessingFails(h) => JW!ProcessingFails(h)
  BY DEF Webhooks!ProcessingFails, JW!ProcessingFails
<1>21. \A h, e : Webhooks!receiveGitHub(h, e) => JW!receiveGitHub(h, e)
  BY DEF Webhooks!receiveGitHub, JW!receiveGitHub
<1> HIDE DEF Webhooks!remote, JW!remote, Webhooks!table, JW!table, Webhooks!worker, JW!worker,
   Webhooks!intake, JW!intake, Webhooks!Remote, JW!Remote, Webhooks!Opened, JW!Opened,
   Webhooks!NoRun, JW!NoRun, Webhooks!Free, JW!Free, Webhooks!linkedRow, JW!linkedRow,
   Webhooks!statusOf, JW!statusOf, Webhooks!now, JW!now, Webhooks!openPulls, JW!openPulls,
   Webhooks!firstOf, JW!firstOf, Webhooks!rowOf, JW!rowOf, Webhooks!report, JW!report,
   Webhooks!at, JW!at, Webhooks!goto, JW!goto, Webhooks!failed, JW!failed, Webhooks!found,
   JW!found, Webhooks!written, JW!written, Webhooks!stores, JW!stores,
   Webhooks!githubDeliveryComplete, JW!githubDeliveryComplete, Webhooks!receipt, JW!receipt,
   Webhooks!setReceipt, JW!setReceipt, Webhooks!rest, JW!rest, Webhooks!syncPullRequest,
   JW!syncPullRequest
<1> QED BY <1>1, <1>2, <1>3, <1>4, <1>5, <1>6, <1>7, <1>8, <1>9, <1>10, <1>11, <1>12, <1>13,
   <1>14, <1>15, <1>16, <1>17, <1>18, <1>19, <1>20, <1>21 DEF Webhooks!PrNext, JW!PrNext,
   delivered, JW!prVars

LEMMA OverlapInit == Overlap!PrInit => RO!PrInit
BY DEF Overlap!PrInit, RO!PrInit, Overlap!linkedRow, RO!linkedRow, Overlap!NoRun, RO!NoRun,
   Overlap!Free, RO!Free

LEMMA OverlapNext == [Overlap!PrNext]_delivered => [RO!PrNext]_RO!prVars
<1> USE DEF Overlap!remote, RO!remote, Overlap!table, RO!table, Overlap!worker, RO!worker,
   Overlap!intake, RO!intake, Overlap!Remote, RO!Remote, Overlap!Opened, RO!Opened,
   Overlap!NoRun, RO!NoRun, Overlap!Free, RO!Free, Overlap!linkedRow, RO!linkedRow,
   Overlap!statusOf, RO!statusOf, Overlap!now, RO!now, Overlap!openPulls, RO!openPulls,
   Overlap!firstOf, RO!firstOf, Overlap!rowOf, RO!rowOf, Overlap!report, RO!report, Overlap!at,
   RO!at, Overlap!goto, RO!goto, Overlap!failed, RO!failed, Overlap!found, RO!found,
   Overlap!written, RO!written, Overlap!stores, RO!stores, Overlap!githubDeliveryComplete,
   RO!githubDeliveryComplete, Overlap!receipt, RO!receipt, Overlap!setReceipt, RO!setReceipt,
   Overlap!rest, RO!rest, Overlap!syncPullRequest, RO!syncPullRequest
<1>1. \A n : Overlap!Change(n) => RO!Change(n)
  BY DEF Overlap!Change, RO!Change
<1>2. \A w : Overlap!Approved(w) => RO!Approved(w)
  BY DEF Overlap!Approved, RO!Approved
<1>3. \A w : Overlap!openPlaceholder(w) => RO!openPlaceholder(w)
  BY DEF Overlap!openPlaceholder, RO!openPlaceholder
<1>4. \A w : Overlap!createPlaceholder(w) => RO!createPlaceholder(w)
  BY DEF Overlap!createPlaceholder, RO!createPlaceholder
<1>5. \A w : Overlap!closePlaceholders(w) => RO!closePlaceholders(w)
  BY DEF Overlap!closePlaceholders, RO!closePlaceholders
<1>6. \A w : Overlap!PushFails(w) => RO!PushFails(w)
  BY DEF Overlap!PushFails, RO!PushFails
<1>7. \A w : Overlap!push(w) => RO!push(w)
  BY DEF Overlap!push, RO!push
<1>8. \A w : Overlap!markPushed(w) => RO!markPushed(w)
  BY DEF Overlap!markPushed, RO!markPushed
<1>9. \A w : Overlap!createOrFindPullRequest(w) => RO!createOrFindPullRequest(w)
  BY DEF Overlap!createOrFindPullRequest, RO!createOrFindPullRequest
<1>10. \A w : Overlap!createPull(w) => RO!createPull(w)
  BY DEF Overlap!createPull, RO!createPull
<1>11. \A w : Overlap!refind(w) => RO!refind(w)
  BY DEF Overlap!refind, RO!refind
<1>12. \A w : Overlap!RequestFails(w) => RO!RequestFails(w)
  BY DEF Overlap!RequestFails, RO!RequestFails
<1>13. \A w : Overlap!lookup(w) => RO!lookup(w)
  BY DEF Overlap!lookup, RO!lookup
<1>14. \A w : Overlap!record(w) => RO!record(w)
  BY DEF Overlap!record, RO!record
<1>15. \A w : Overlap!complete(w) => RO!complete(w)
  BY DEF Overlap!complete, RO!complete
<1>16. \A w : Overlap!Die(w) => RO!Die(w)
  BY DEF Overlap!Die, RO!Die
<1>17. \A h : Overlap!createEvent(h) => RO!createEvent(h)
  BY DEF Overlap!createEvent, RO!createEvent
<1>18. \A h : Overlap!claim(h) => RO!claim(h)
  BY DEF Overlap!claim, RO!claim
<1>19. \A h : Overlap!processGitHubEvent(h) => RO!processGitHubEvent(h)
  BY DEF Overlap!processGitHubEvent, RO!processGitHubEvent
<1>20. \A h : Overlap!ProcessingFails(h) => RO!ProcessingFails(h)
  BY DEF Overlap!ProcessingFails, RO!ProcessingFails
<1>21. \A h, e : Overlap!receiveGitHub(h, e) => RO!receiveGitHub(h, e)
  BY DEF Overlap!receiveGitHub, RO!receiveGitHub
<1> HIDE DEF Overlap!remote, RO!remote, Overlap!table, RO!table, Overlap!worker, RO!worker,
   Overlap!intake, RO!intake, Overlap!Remote, RO!Remote, Overlap!Opened, RO!Opened,
   Overlap!NoRun, RO!NoRun, Overlap!Free, RO!Free, Overlap!linkedRow, RO!linkedRow,
   Overlap!statusOf, RO!statusOf, Overlap!now, RO!now, Overlap!openPulls, RO!openPulls,
   Overlap!firstOf, RO!firstOf, Overlap!rowOf, RO!rowOf, Overlap!report, RO!report, Overlap!at,
   RO!at, Overlap!goto, RO!goto, Overlap!failed, RO!failed, Overlap!found, RO!found,
   Overlap!written, RO!written, Overlap!stores, RO!stores, Overlap!githubDeliveryComplete,
   RO!githubDeliveryComplete, Overlap!receipt, RO!receipt, Overlap!setReceipt, RO!setReceipt,
   Overlap!rest, RO!rest, Overlap!syncPullRequest, RO!syncPullRequest
<1> QED BY <1>1, <1>2, <1>3, <1>4, <1>5, <1>6, <1>7, <1>8, <1>9, <1>10, <1>11, <1>12, <1>13,
   <1>14, <1>15, <1>16, <1>17, <1>18, <1>19, <1>20, <1>21 DEF Overlap!PrNext, RO!PrNext,
   delivered, RO!prVars

LEMMA PullInit == MCInit => PullInv
<1>1. SUFFICES ASSUME MCInit PROVE PullInv
  OBVIOUS
<1>2. CASE part = "retries"
  <2>1. CR!PrInit
    BY <1>1, <1>2, RetryInit DEF MCInit
  <2> QED BY <1>2, <2>1, PullSensibly, CR!PrInitInv DEF CR!PrInitInv, PullInv
<1>3. CASE part = "webhooks"
  <2>1. JW!PrInit
    BY <1>1, <1>3, HookInit DEF MCInit
  <2> QED BY <1>3, <2>1, PullSensibly, JW!PrInitInv DEF JW!PrInitInv, PullInv
<1>4. CASE part = "overlap"
  <2>1. RO!PrInit
    BY <1>1, <1>4, OverlapInit DEF MCInit
  <2> QED BY <1>4, <2>1, PullSensibly, RO!PrInitInv DEF RO!PrInitInv, PullInv
<1> QED BY <1>2, <1>3, <1>4 DEF PullInv

LEMMA PullNext == ASSUME PullInv, [MCNext]_MCvars PROVE PullInv'
<1>1. /\ UNCHANGED part
      /\ part = "retries" => [Retries!PrNext]_delivered
      /\ part = "webhooks" => [Webhooks!PrNext]_delivered
      /\ part = "overlap" => [Overlap!PrNext]_delivered
  BY DEF MCNext, MCvars
<1>2. part = "retries" => CR!PrInv'
  BY <1>1, RetryNext, PullSensibly, CR!PrNextInv DEF CR!PrNextInv, PullInv
<1>3. part = "webhooks" => JW!PrInv'
  BY <1>1, HookNext, PullSensibly, JW!PrNextInv DEF JW!PrNextInv, PullInv
<1>4. part = "overlap" => RO!PrInv'
  BY <1>1, OverlapNext, PullSensibly, RO!PrNextInv DEF RO!PrNextInv, PullInv
<1> QED BY <1>1, <1>2, <1>3, <1>4 DEF PullInv

LEMMA PullsHold == ASSUME PullInv PROVE WorkIsDelivered /\ WebhooksAreFollowed
<1>1. ASSUME part = "retries"
      PROVE  Retries!PrTypeOK /\ Retries!CompletionsAreDelivered /\ Retries!PlaceholdersClose /\
         Retries!StatusFollowsGitHub
  <2>1. CR!PrInv
    BY <1>1 DEF PullInv
  <2>2. CR!PrTypeOK /\ CR!CompletionsAreDelivered /\ CR!PlaceholdersClose /\ CR!StatusFollowsGitHub
    BY <2>1, PullSensibly, CR!Typed, CR!Delivered, CR!Followed DEF CR!Typed, CR!Delivered,
       CR!Followed
  <2>3. CR!PrTypeOK => Retries!PrTypeOK
    BY DEF Retries!PrTypeOK, CR!PrTypeOK, Retries!Remote, CR!Remote, Retries!Status, CR!Status
  <2>4. CR!CompletionsAreDelivered => Retries!CompletionsAreDelivered
    BY DEF Retries!CompletionsAreDelivered, CR!CompletionsAreDelivered
  <2>5. CR!PlaceholdersClose => Retries!PlaceholdersClose
    BY DEF Retries!PlaceholdersClose, CR!PlaceholdersClose, Retries!at, CR!at
  <2>6. CR!StatusFollowsGitHub => Retries!StatusFollowsGitHub
    BY DEF Retries!StatusFollowsGitHub, CR!StatusFollowsGitHub, Retries!settled, CR!settled,
       Retries!rowOf, CR!rowOf, Retries!firstOf, CR!firstOf, Retries!statusOf, CR!statusOf,
       Retries!now, CR!now
  <2> QED BY <2>2, <2>3, <2>4, <2>5, <2>6
<1>2. ASSUME part = "overlap"
      PROVE  Overlap!PrTypeOK /\ Overlap!CompletionsAreDelivered /\ Overlap!PlaceholdersClose /\
         Overlap!StatusFollowsGitHub
  <2>1. RO!PrInv
    BY <1>2 DEF PullInv
  <2>2. RO!PrTypeOK /\ RO!CompletionsAreDelivered /\ RO!PlaceholdersClose /\ RO!StatusFollowsGitHub
    BY <2>1, PullSensibly, RO!Typed, RO!Delivered, RO!Followed DEF RO!Typed, RO!Delivered,
       RO!Followed
  <2>3. RO!PrTypeOK => Overlap!PrTypeOK
    BY DEF Overlap!PrTypeOK, RO!PrTypeOK, Overlap!Remote, RO!Remote, Overlap!Status, RO!Status
  <2>4. RO!CompletionsAreDelivered => Overlap!CompletionsAreDelivered
    BY DEF Overlap!CompletionsAreDelivered, RO!CompletionsAreDelivered
  <2>5. RO!PlaceholdersClose => Overlap!PlaceholdersClose
    BY DEF Overlap!PlaceholdersClose, RO!PlaceholdersClose, Overlap!at, RO!at
  <2>6. RO!StatusFollowsGitHub => Overlap!StatusFollowsGitHub
    BY DEF Overlap!StatusFollowsGitHub, RO!StatusFollowsGitHub, Overlap!settled, RO!settled,
       Overlap!rowOf, RO!rowOf, Overlap!firstOf, RO!firstOf, Overlap!statusOf, RO!statusOf,
       Overlap!now, RO!now
  <2> QED BY <2>2, <2>3, <2>4, <2>5, <2>6
<1>3. ASSUME part = "webhooks"
      PROVE  Webhooks!PrTypeOK /\ Webhooks!CompletionsAreDelivered /\
         Webhooks!AppliedOnceUnlessAbandoned /\ Webhooks!StatusFollowsGitHub
  <2>1. JW!PrInv
    BY <1>3 DEF PullInv
  <2>2. JW!PrTypeOK /\ JW!CompletionsAreDelivered /\ JW!AppliedOnceUnlessAbandoned /\
     JW!StatusFollowsGitHub
    BY <2>1, PullSensibly, JW!Typed, JW!Delivered, JW!Applied, JW!Followed DEF JW!Typed,
       JW!Delivered, JW!Applied, JW!Followed
  <2>3. JW!PrTypeOK => Webhooks!PrTypeOK
    BY DEF Webhooks!PrTypeOK, JW!PrTypeOK, Webhooks!Remote, JW!Remote, Webhooks!Status, JW!Status
  <2>4. JW!CompletionsAreDelivered => Webhooks!CompletionsAreDelivered
    BY DEF Webhooks!CompletionsAreDelivered, JW!CompletionsAreDelivered
  <2>5. JW!AppliedOnceUnlessAbandoned => Webhooks!AppliedOnceUnlessAbandoned
    BY DEF Webhooks!AppliedOnceUnlessAbandoned, JW!AppliedOnceUnlessAbandoned
  <2>6. JW!StatusFollowsGitHub => Webhooks!StatusFollowsGitHub
    BY DEF Webhooks!StatusFollowsGitHub, JW!StatusFollowsGitHub, Webhooks!settled, JW!settled,
       Webhooks!rowOf, JW!rowOf, Webhooks!firstOf, JW!firstOf, Webhooks!statusOf, JW!statusOf,
       Webhooks!now, JW!now
  <2> QED BY <2>2, <2>3, <2>4, <2>5, <2>6
<1> QED BY <1>1, <1>2, <1>3 DEF WorkIsDelivered, WebhooksAreFollowed

-----------------------------------------------------------------------------
LEMMA Invariance == MCSpec => [](TreeInv /\ ConnInv /\ JudgeInv /\ PullInv)
<1>1. MCInit => TreeInv /\ ConnInv /\ JudgeInv /\ PullInv
  BY TreeInit, ConnInit, JudgeInit, PullInit DEF MCInit
<1>2. [MCNext]_MCvars => [W!Next]_trees /\ [C!GhNext]_connected
  BY DEF MCNext, MCvars
<1>3. TreeInv /\ ConnInv /\ JudgeInv /\ PullInv /\ [MCNext]_MCvars
        => (TreeInv /\ ConnInv /\ JudgeInv /\ PullInv)'
  BY <1>2, TreeNext, ConnNext, JudgeNext, PullNext
<1> QED BY <1>1, <1>3, PTL DEF MCSpec

(***************************************************************************)
(* Whatever crashes and whoever deletes folders, uncommitted work is lost  *)
(* only where runs of a task overlapped or git could not list its          *)
(* worktrees; commits stay; a run that is alone gets a worktree, and the   *)
(* one it gets is on its branch: for any number of tasks of one            *)
(* organization, of workers, runs and commits.                             *)
(***************************************************************************)
THEOREM WorktreesKeepWorkAlways == MCSpec => []WorktreesKeepWork
<1>1. TreeInv => WorktreesKeepWork
  BY TreesHold DEF WorktreesKeepWork, TreeInv
<1> QED BY <1>1, Invariance, PTL

(***************************************************************************)
(* However many administrators, callbacks, imports and webhooks overlap,   *)
(* a state is exchanged once, an installation keeps its organization, a    *)
(* repository has one project, and a repository shown as connected can be  *)
(* reached once the webhooks have been handled.                            *)
(***************************************************************************)
THEOREM ConnectionsHoldAlways == MCSpec => []ConnectionsHold
<1>1. ConnInv => ConnectionsHold
  BY ConnectionsAreSound DEF ConnectionsHold
<1> QED BY <1>1, Invariance, PTL

(***************************************************************************)
(* However checks, jobs delivered twice, reviews, fixes and people's edits *)
(* of findings interleave, work completes only on a revision that passes   *)
(* its checks and that a review approved, a verdict is explained by the    *)
(* results stored with it, and no approval resolves a finding unread.      *)
(***************************************************************************)
THEOREM CompletedWorkIsJudgedAlways == MCSpec => []CompletedWorkIsJudged
<1>1. JudgeInv => CompletedWorkIsJudged
  BY WorkJudged
<1> QED BY <1>1, Invariance, PTL

(***************************************************************************)
(* No later delivery of a job changes the verdict of a test run that is    *)
(* finished, unless the two ran at the same time.                          *)
(***************************************************************************)
THEOREM VerdictsStandAlways == MCSpec => VerdictsStand
<1>1. JudgeInv /\ [MCNext]_MCvars =>
        [/\ part = "checks" => Checks!VerdictsKept
         /\ part = "jobs" => Jobs!VerdictsKept]_MCvars
  <2>1. SUFFICES ASSUME JudgeInv, [MCNext]_MCvars
                 PROVE  /\ part = "checks" => Checks!VerdictsKept
                        /\ part = "jobs" => Jobs!VerdictsKept
    OBVIOUS
  <2>2. part = "checks" => CR!VerdictsKept
    BY <2>1, JudgeSteps, Sensibly, CR!VerdictsStay DEF CR!VerdictsStay, JudgeInv
  <2>3. part = "jobs" => JW!VerdictsKept
    BY <2>1, JudgeSteps, Sensibly, JW!VerdictsStay DEF JW!VerdictsStay, JudgeInv
  <2>4. CR!VerdictsKept => Checks!VerdictsKept
    BY DEF Checks!VerdictsKept, CR!VerdictsKept, Checks!Finished, CR!Finished
  <2>5. JW!VerdictsKept => Jobs!VerdictsKept
    BY DEF Jobs!VerdictsKept, JW!VerdictsKept, Jobs!Finished, JW!Finished
  <2> QED BY <2>2, <2>3, <2>4, <2>5
<1> QED BY <1>1, Invariance, PTL DEF MCSpec, VerdictsStand

(***************************************************************************)
(* Whatever call to GitHub fails and whenever a worker dies, what COMPLETE *)
(* lets through has a pull request and, if its own PREPARE_PR succeeded,   *)
(* all its commits on GitHub; and no open placeholder stays beside it.     *)
(***************************************************************************)
THEOREM WorkIsDeliveredAlways == MCSpec => []WorkIsDelivered
<1>1. PullInv => WorkIsDelivered
  BY PullsHold
<1> QED BY <1>1, Invariance, PTL

(***************************************************************************)
(* However webhooks are repeated, reordered and failed, one takes effect   *)
(* once unless it was taken for abandoned, and the row of a pull request   *)
(* has the state GitHub has once all were handled, unless an older state   *)
(* was written over a newer one.                                           *)
(***************************************************************************)
THEOREM WebhooksAreFollowedAlways == MCSpec => []WebhooksAreFollowed
<1>1. PullInv => WebhooksAreFollowed
  BY PullsHold
<1> QED BY <1>1, Invariance, PTL
=============================================================================
