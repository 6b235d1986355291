----------------------------- MODULE Worktrees ------------------------------
(***************************************************************************)
(* The worktrees tasks are worked on in (packages/git and the git manager  *)
(* of the worker). A provisioning asks git which worktrees a checkout has, *)
(* reuses the one of the task when it can, and otherwise clears the path   *)
(* and adds a new one. Folder, registration and branch are three pieces of *)
(* state that no transaction covers: every git command is a step of its    *)
(* own here, workers die between any two, a second run of the task may     *)
(* work at the same time, and somebody may delete a folder.                *)
(*                                                                         *)
(* disk[p]     what lies at a path: nothing, or a worktree of a repository *)
(*             on a branch, with the tasks whose uncommitted work it holds *)
(* reg[r][p]   the branch git has registered for the path, NoBranch if none*)
(* branch[r]   commits of a branch, -1 while it does not exist             *)
(* made        commits ever made there                                     *)
(* row[r][p]   the git_worktrees row: its task and status                  *)
(* task[t]     title and repository as edited, `worked` once an agent ran, *)
(*             `returned` once moved back to an earlier repository         *)
(* proc[w]     a worker's run of a task; `met` once a run with the same    *)
(*             path overlapped it, `blind` if its listing failed           *)
(* lost        uncommitted work that was deleted: by which run, of whom    *)
(* refused     runs whose `git worktree add` was refused                   *)
(***************************************************************************)
EXTENDS Integers, FiniteSets

CONSTANTS
  Org,         \* projects, each of an organization of its own
  Key,         \* task keys, unique within a project
  Place,       \* where repositories lie: "remote", "local" (used in place)
  Worker,      \* workers
  MaxRuns,     \* runs of tasks
  MaxCommits,  \* commits
  MaxMoves     \* edits of a task's title or repository

VARIABLES disk, reg, branch, made, row, task, proc, lost, refused, moves, runs

wtVars == <<disk, reg, branch, made, row, task, proc, lost, refused, moves, runs>>

WTask == Org \X Key
Repo == Org \X Place
reposOf(t) == {r \in Repo : r[1] = t[1]}
\* workspace/worktrees/<task key>, on the disk all workers share.
Path == Key
worktreePath(t) == t[2]
Title == {1, 2}
NoBranch == <<>>
Branch == {<<p, n>> : p \in Path, n \in Title}
Absent == [exists |-> FALSE, repo |-> CHOOSE r \in Repo : TRUE,
           branch |-> NoBranch, work |-> {}]
Idle == [pc |-> "idle", t |-> CHOOSE t \in WTask : TRUE,
         repo |-> CHOOSE r \in Repo : TRUE, branch |-> NoBranch,
         match |-> NoBranch, met |-> FALSE, blind |-> FALSE]

\* agent/<key>-<slug of the title>.
buildBranchName(t) == <<worktreePath(t), task[t].title>>

Init ==
  /\ disk = [p \in Path |-> Absent]
  /\ reg = [r \in Repo |-> [p \in Path |-> NoBranch]]
  /\ branch = [r \in Repo |-> [b \in Branch |-> -1]]
  /\ made = [r \in Repo |-> [b \in Branch |-> 0]]
  /\ row = [r \in Repo |-> [p \in Path |-> [t |-> CHOOSE t \in WTask : TRUE,
                                            status |-> "none"]]]
  /\ task \in [WTask -> [title : {1}, repo : Repo, worked : {FALSE},
                         returned : {FALSE}, was : {{}}]]
  /\ \A t \in WTask : task[t].repo \in reposOf(t)
  /\ proc = [w \in Worker |-> Idle]
  /\ lost = {} /\ refused = {} /\ moves = 0 /\ runs = 0

path(w) == worktreePath(proc[w].t)
live(w) == proc[w].pc # "idle"
goto(w, pc) == proc' = [proc EXCEPT ![w].pc = pc]
end(w) == proc' = [proc EXCEPT ![w] = Idle]
-----------------------------------------------------------------------------
(* What git does. *)

\* `git worktree prune` forgets every registration whose folder is gone.
prune(registered, folders) ==
  [p \in Path |-> IF folders[p].exists THEN registered[p] ELSE NoBranch]

removeWorktree_noPrune(r, p) ==
  /\ disk' = [disk EXCEPT ![p] = Absent]
  /\ reg' = IF disk[p].exists /\ disk[p].repo = r
            THEN [reg EXCEPT ![r][p] = NoBranch] ELSE reg

\* `git worktree remove --force`, which fails silently on what is no worktree
\* of this checkout, then rm -rf, then prune.
removeWorktree(r, p) ==
  /\ disk' = [disk EXCEPT ![p] = Absent]
  /\ reg' = [reg EXCEPT ![r] = prune(reg[r], disk')]

\* Uncommitted work that goes with a folder.
loses(w, p) ==
  lost' = lost \cup {[by |-> proc[w].t, of |-> u, met |-> proc[w].met,
                      blind |-> proc[w].blind] : u \in disk[p].work}

addWorktree_reset(r, p, b) ==
  /\ disk' = [disk EXCEPT ![p] = [exists |-> TRUE, repo |-> r, branch |-> b,
                                  work |-> {}]]
  /\ reg' = [reg EXCEPT ![r][p] = b]
  /\ branch' = [branch EXCEPT ![r][b] = 0]

\* An existing branch is checked out as it is; only a missing one is created.
addWorktree(r, p, b) ==
  /\ disk' = [disk EXCEPT ![p] = [exists |-> TRUE, repo |-> r, branch |-> b,
                                  work |-> {}]]
  /\ reg' = [reg EXCEPT ![r][p] = b]
  /\ branch' = [branch EXCEPT ![r][b] = IF @ = -1 THEN 0 ELSE @]
-----------------------------------------------------------------------------
(* provisionWorktree: read the task, ensure its checkout, acquire, record. *)

\* The run reads title and repository. Runs on one path whose times overlap
\* meet each other.
provisionWorktree(w, t) ==
  /\ ~live(w) /\ runs < MaxRuns
  /\ LET peers == {v \in Worker : live(v) /\ path(v) = worktreePath(t)}
     IN proc' = [v \in Worker |->
                   IF v = w
                   THEN [pc |-> "checkout", t |-> t, repo |-> task[t].repo,
                         branch |-> buildBranchName(t), match |-> NoBranch,
                         met |-> peers # {}, blind |-> FALSE]
                   ELSE IF v \in peers THEN [proc[v] EXCEPT !.met = TRUE]
                   ELSE proc[v]]
  /\ runs' = runs + 1
  /\ UNCHANGED <<disk, reg, branch, made, row, task, lost, refused, moves>>

\* Cloned, fetched or used where it lies; worktrees are not touched.
ensureCheckout(w) ==
  /\ proc[w].pc = "checkout" /\ goto(w, "list")
  /\ UNCHANGED <<disk, reg, branch, made, row, task, lost, refused, moves, runs>>

\* A listing that fails is read as an empty one.
listWorktrees(w) ==
  /\ proc[w].pc = "list"
  /\ \E blind \in BOOLEAN :
       proc' = [proc EXCEPT ![w].pc = "acquire", ![w].blind = blind,
                            ![w].match = IF blind THEN NoBranch
                                         ELSE reg[proc[w].repo][path(w)]]
  /\ UNCHANGED <<disk, reg, branch, made, row, task, lost, refused, moves, runs>>

reusable_never(w) == FALSE
reusable_anyBranch(w) == proc[w].match # NoBranch /\ disk[path(w)].exists

reusable(w) == proc[w].match = proc[w].branch /\ disk[path(w)].exists

acquire(w) ==
  /\ proc[w].pc = "acquire"
  /\ goto(w, IF reusable(w) THEN "record" ELSE "remove")
  /\ UNCHANGED <<disk, reg, branch, made, row, task, lost, refused, moves, runs>>

Recycle(w) ==
  /\ proc[w].pc = "remove"
  /\ removeWorktree(proc[w].repo, path(w))
  /\ loses(w, path(w))
  /\ goto(w, "add")
  /\ UNCHANGED <<branch, made, row, task, refused, moves, runs>>

\* git refuses a path that is taken, on disk or by a registration of this
\* checkout; the error ends the run.
AddRefused(w) ==
  /\ proc[w].pc = "add"
  /\ disk[path(w)].exists \/ reg[proc[w].repo][path(w)] # NoBranch
  /\ refused' = refused \cup {[t |-> proc[w].t, met |-> proc[w].met]}
  /\ end(w)
  /\ UNCHANGED <<disk, reg, branch, made, row, task, lost, moves, runs>>

Add(w) ==
  /\ proc[w].pc = "add"
  /\ ~disk[path(w)].exists /\ reg[proc[w].repo][path(w)] = NoBranch
  /\ addWorktree(proc[w].repo, path(w), proc[w].branch)
  /\ goto(w, "record")
  /\ UNCHANGED <<made, row, task, lost, refused, moves, runs>>

Record(w) ==
  /\ proc[w].pc = "record"
  /\ row' = [row EXCEPT ![proc[w].repo][path(w)] = [t |-> proc[w].t,
                                                   status |-> "ACTIVE"]]
  /\ goto(w, "ready")
  /\ UNCHANGED <<disk, reg, branch, made, task, lost, refused, moves, runs>>
-----------------------------------------------------------------------------
(* Work in the worktree. *)

\* An agent run changes files, wherever the path leads by now.
Work(w) ==
  /\ proc[w].pc = "ready" /\ disk[path(w)].exists
  /\ disk' = [disk EXCEPT ![path(w)].work = @ \cup {proc[w].t}]
  /\ task' = [task EXCEPT ![proc[w].t].worked = TRUE]
  /\ UNCHANGED <<reg, branch, made, row, proc, lost, refused, moves, runs>>

\* commitWork stages everything; an empty change set, a missing folder or a
\* failing git leave no commit and are no error.
commitWork(w) ==
  /\ proc[w].pc = "ready" /\ disk[path(w)].exists /\ disk[path(w)].work # {}
  /\ LET d == disk[path(w)]
     IN /\ made[d.repo][d.branch] < MaxCommits
        /\ branch' = [branch EXCEPT ![d.repo][d.branch] = @ + 1]
        /\ made' = [made EXCEPT ![d.repo][d.branch] = @ + 1]
  /\ disk' = [disk EXCEPT ![path(w)].work = {}]
  /\ UNCHANGED <<reg, row, task, proc, lost, refused, moves, runs>>

\* The last gate of COMPLETE; a folder git cannot read is not clean.
isClean(w) == disk[path(w)].exists /\ disk[path(w)].work = {}

Complete(w) ==
  /\ proc[w].pc = "ready" /\ isClean(w)
  /\ goto(w, "release")
  /\ UNCHANGED <<disk, reg, branch, made, row, task, lost, refused, moves, runs>>

\* The completed run releases an ACTIVE row of its task. The checkout is the
\* managed one even for a repository used where it lies: git has no such
\* folder to run in, which is swallowed.
releaseWorktree(w) ==
  /\ proc[w].pc = "release"
  /\ LET mine == {x \in Repo \X Path : row[x[1]][x[2]]
                                       = [t |-> proc[w].t, status |-> "ACTIVE"]}
     IN \/ mine = {} /\ UNCHANGED <<disk, reg, row, lost>>
        \/ \E x \in mine :
             /\ row' = [row EXCEPT ![x[1]][x[2]].status = "RELEASED"]
             /\ IF x[1][2] = "local" THEN UNCHANGED <<disk, reg, lost>>
                ELSE removeWorktree(x[1], x[2]) /\ loses(w, x[2])
  /\ end(w)
  /\ UNCHANGED <<branch, made, task, refused, moves, runs>>

\* A run that fails or is cancelled, or a worker that dies, leaves everything.
Stop(w) ==
  /\ live(w) /\ end(w)
  /\ UNCHANGED <<disk, reg, branch, made, row, task, lost, refused, moves, runs>>
-----------------------------------------------------------------------------
(* The world around. *)

\* Planning inputs can be edited while no run is live and no agent has run.
editable(t) == ~task[t].worked /\ ~\E w \in Worker : live(w) /\ proc[w].t = t

EditTask(t) ==
  /\ editable(t) /\ moves < MaxMoves
  /\ \E n \in Title, r \in reposOf(t) :
       /\ <<n, r>> # <<task[t].title, task[t].repo>>
       /\ LET was == task[t].was \cup {task[t].repo}
          IN task' = [task EXCEPT ![t].title = n, ![t].repo = r, ![t].was = was,
                        ![t].returned = @ \/ (r # task[t].repo /\ r \in was)]
  /\ moves' = moves + 1
  /\ UNCHANGED <<disk, reg, branch, made, row, proc, lost, refused, runs>>

\* Somebody cleans up by hand.
FolderDeleted(p) ==
  /\ disk[p].exists
  /\ disk' = [disk EXCEPT ![p] = Absent]
  /\ UNCHANGED <<reg, branch, made, row, task, proc, lost, refused, moves, runs>>

Next ==
  \/ \E w \in Worker :
       \/ \E t \in WTask : provisionWorktree(w, t)
       \/ ensureCheckout(w) \/ listWorktrees(w) \/ acquire(w) \/ Recycle(w)
       \/ AddRefused(w) \/ Add(w) \/ Record(w) \/ Work(w) \/ commitWork(w) \/ Complete(w)
       \/ releaseWorktree(w) \/ Stop(w)
  \/ \E t \in WTask : EditTask(t)
  \/ \E p \in Path : FolderDeleted(p)

Spec == Init /\ [][Next]_wtVars
-----------------------------------------------------------------------------
\* Types of the folders, the registrations, the rows and the runs.
TypeOK ==
  /\ disk \in [Path -> [exists : BOOLEAN, repo : Repo,
                        branch : Branch \cup {NoBranch}, work : SUBSET WTask]]
  /\ reg \in [Repo -> [Path -> Branch \cup {NoBranch}]]
  /\ branch \in [Repo -> [Branch -> -1..MaxCommits]]
  /\ made \in [Repo -> [Branch -> 0..MaxCommits]]
  /\ row \in [Repo -> [Path -> [t : WTask,
                                status : {"none", "ACTIVE", "RELEASED"}]]]
  /\ task \in [WTask -> [title : Title, repo : Repo, worked : BOOLEAN,
                         returned : BOOLEAN, was : SUBSET Repo]]
  /\ proc \in [Worker -> [pc : {"idle", "checkout", "list", "acquire", "remove", "add",
                                "record", "ready", "release"},
                          t : WTask, repo : Repo,
                          branch : Branch \cup {NoBranch},
                          match : Branch \cup {NoBranch},
                          met : BOOLEAN, blind : BOOLEAN]]
  /\ lost \subseteq [by : WTask, of : WTask, met : BOOLEAN, blind : BOOLEAN]
  /\ refused \subseteq [t : WTask, met : BOOLEAN]
  /\ moves \in 0..MaxMoves /\ runs \in 0..MaxRuns

\* "A retried step must not wipe work in progress": whatever crashed before
\* it, a run deletes uncommitted work only if another run used the same path
\* at the same time or git's listing failed; completing a run never does.
LossNeedsOverlap == \A l \in lost : l.met \/ l.blind

\* No recycling, no release and no second run takes a commit off a branch.
CommitsStay == \A r \in Repo, b \in Branch : made[r][b] > 0 => branch[r][b] = made[r][b]

\* After crashes and deleted folders alike, a run that is alone on its path
\* gets its worktree: git never refuses to add it.
RetriesCanProvision == \A f \in refused : f.met

\* What a run that is alone on its path was handed, while it is on disk, is a
\* worktree of the task's repository, registered there, on the task's branch:
\* unless the task was moved back to an earlier repository, whose stale
\* registration is taken for the other repository's folder.
HandedOutIsOwn ==
  \A w \in Worker :
    proc[w].pc = "ready" /\ ~proc[w].met /\ ~task[proc[w].t].returned
      => LET p == path(w)
         IN disk[p].exists => /\ disk[p].repo = proc[w].repo
                              /\ disk[p].branch = buildBranchName(proc[w].t)
                              /\ reg[proc[w].repo][p] = disk[p].branch

\* paths.ts: "Deterministic, collision-free layout for the agent workspace".
\* A run deletes no other task's uncommitted work.
WorkIsOnlyItsTasks == \A l \in lost : l.by = l.of
=============================================================================
