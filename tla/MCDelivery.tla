---------------------------- MODULE MCDelivery ----------------------------
(***************************************************************************)
(* From the work of an agent to a pull request, on small instances: the    *)
(* checkout it works in (Worktrees), how the work is judged                *)
(* (Verification: checks of the workflow and of one job, two jobs, and     *)
(* reviews), how it is delivered (PullRequests: retries, webhooks, and two *)
(* deliverers), and the connection with GitHub this needs                  *)
(* (GitHubConnections). `part` says which of them moves.                   *)
(***************************************************************************)
EXTENDS Naturals, Sequences, FiniteSets

CONSTANTS Org, Key, Place, Worker, MaxRuns, MaxCommits, MaxMoves,
          Organization, Repository, Request, MaxRequests, MaxTurns

VARIABLES
  part,
  disk, reg, branch, made, row, task, proc, lost, refused, moves, runs,
  rev, truth, conf, tests, runner, st, step, finding, review, approved,
  home, commits, head, hist, rows, stored, pushed, delivery, deliveries, done, event, handler,
  receipts,
  attempt, exchanged, github, inst, owners, link, projects, req, requests, hooks, turns, raced,
  out, revived

\* One organization: paths.ts names a worktree by the key of its task alone,
\* and keys are unique only within an organization's project.
ASSUME DeliveryAssumption ==
  /\ Org # {} /\ Key # {} /\ Place # {}
  /\ \A o, p \in Org : o = p
  /\ MaxRuns \in Nat /\ MaxCommits \in Nat /\ MaxMoves \in Nat
  /\ MaxRequests \in Nat /\ MaxTurns \in Nat
  /\ Repository # {} /\ "none" \notin Organization

W == INSTANCE Worktrees

Checks  == INSTANCE Verification WITH Check <- {"UNIT"}, Job <- {"j1"},
             MaxRev <- 1, MaxTests <- 2, MaxFindings <- 0
Jobs    == INSTANCE Verification WITH Check <- {"CUSTOM"}, Job <- {"j1", "j2"},
             MaxRev <- 1, MaxTests <- 1, MaxFindings <- 0
Reviews == INSTANCE Verification WITH Check <- {"UNIT"}, Job <- {},
             MaxRev <- 1, MaxTests <- 2, MaxFindings <- 2

Retries  == INSTANCE PullRequests WITH Deliverer <- {1}, Handler <- {1}, MaxDeliveries <- 1,
              MaxAttempts <- 3, MaxChanges <- 1, MaxEvents <- 1, MaxReceipts <- 1
Webhooks == INSTANCE PullRequests WITH Deliverer <- {1}, Handler <- {1, 2}, MaxDeliveries <- 1,
              MaxAttempts <- 1, MaxChanges <- 2, MaxEvents <- 2, MaxReceipts <- 3
Overlap  == INSTANCE PullRequests WITH Deliverer <- {1, 2}, Handler <- {1}, MaxDeliveries <- 2,
              MaxAttempts <- 1, MaxChanges <- 1, MaxEvents <- 1, MaxReceipts <- 1

C == INSTANCE GitHubConnections WITH Remote <- Repository

trees == <<disk, reg, branch, made, row, task, proc, lost, refused, moves, runs>>
judged == <<rev, truth, conf, tests, runner, st, step, finding, review, approved>>
delivered == <<home, commits, head, hist, rows, stored, pushed, delivery, deliveries, done, event,
               handler, receipts>>
connected == <<attempt, exchanged, github, inst, owners, link, projects, req, requests, hooks,
               turns, raced, out, revived>>
MCvars == <<part, trees, judged, delivered, connected>>

\* A part that does not move starts in one of its initial states.
still == /\ part \notin {"checks", "jobs", "reviews"} =>
              conf = [c \in {"UNIT"} |-> "run"] /\ \A r \in 0..1 : truth[r]["UNIT"]
         /\ part \notin {"retries", "webhooks", "overlap"} =>
              rows = <<>>

MCInit ==
  /\ part \in {"trees", "checks", "jobs", "reviews", "retries", "webhooks", "overlap", "connections"}
  /\ W!Init /\ C!GhInit
  /\ CASE part = "jobs" -> Jobs!Init
       [] part = "reviews" -> Reviews!Init /\ conf["UNIT"] = "run" /\ truth[0]["UNIT"]
       [] OTHER -> Checks!Init
  /\ CASE part = "webhooks" -> Webhooks!PrInit /\ home = "GITHUB" /\ rows = <<>>
       [] part = "overlap" -> Overlap!PrInit /\ home = "GITHUB"
       [] OTHER -> Retries!PrInit /\ (part # "retries" => home = "GITHUB")
  /\ still

MCNext ==
  /\ UNCHANGED part
  /\ \/ part = "trees" /\ W!Next /\ UNCHANGED <<judged, delivered, connected>>
     \/ part = "checks" /\ Checks!Next /\ UNCHANGED <<trees, delivered, connected>>
     \/ part = "jobs" /\ Jobs!Next /\ UNCHANGED <<trees, delivered, connected>>
     \/ part = "reviews" /\ Reviews!Next /\ UNCHANGED <<trees, delivered, connected>>
     \/ part = "retries" /\ Retries!PrNext /\ UNCHANGED <<trees, judged, connected>>
     \/ part = "webhooks" /\ Webhooks!PrNext /\ UNCHANGED <<trees, judged, connected>>
     \/ part = "overlap" /\ Overlap!PrNext /\ UNCHANGED <<trees, judged, connected>>
     \/ part = "connections" /\ C!GhNext /\ UNCHANGED <<trees, judged, delivered>>

MCSpec == MCInit /\ [][MCNext]_MCvars

(***************************************************************************)
(* Checkouts (Worktrees): uncommitted work is lost only where two runs of  *)
(* a task overlap, a commit stays on its branch, what a failed acquire     *)
(* left behind does not stop the next one, and the checkout handed to a    *)
(* run is on the branch of its task.                                       *)
(***************************************************************************)
WorktreesKeepWork ==
  part = "trees" =>
    /\ W!TypeOK
    /\ W!LossNeedsOverlap /\ W!CommitsStay /\ W!RetriesCanProvision /\ W!HandedOutIsOwn

(***************************************************************************)
(* Judgement (Verification): work completes only if its latest checks      *)
(* passed on what is delivered and a review approved it; a finding is      *)
(* resolved by a fix that was given it, or by a person; the verdict of a   *)
(* test run follows from the results stored with it.                       *)
(***************************************************************************)
CompletedWorkIsJudged ==
  /\ part = "checks" =>
       Checks!TypeOK /\ Checks!CompletedWorkPassed /\ Checks!EvidenceExplainsVerdict
  /\ part = "jobs" =>
       Jobs!TypeOK /\ Jobs!CompletedWorkPassed /\ Jobs!EvidenceExplainsVerdict
  /\ part = "reviews" =>
       /\ Reviews!TypeOK /\ Reviews!CompletedWorkPassed
       /\ Reviews!CompletedWorkWasReviewed /\ Reviews!FindingsReachAFix

\* A job that is delivered again, beside the first or after it, never changes
\* the verdict of a finished test run.
VerdictsStand ==
  [][/\ part = "checks" => Checks!VerdictsKept
     /\ part = "jobs" => Jobs!VerdictsKept]_MCvars

(***************************************************************************)
(* Delivery (PullRequests): a task completes only if its work reached      *)
(* where the project is kept, after every failure between two calls, and   *)
(* no local placeholder stays open beside the pull request on GitHub.      *)
(***************************************************************************)
WorkIsDelivered ==
  /\ part = "retries" =>
       Retries!PrTypeOK /\ Retries!CompletionsAreDelivered /\ Retries!PlaceholdersClose
  /\ part = "overlap" =>
       Overlap!PrTypeOK /\ Overlap!CompletionsAreDelivered /\ Overlap!PlaceholdersClose
  /\ part = "webhooks" => Webhooks!PrTypeOK /\ Webhooks!CompletionsAreDelivered

(***************************************************************************)
(* Webhooks (PullRequests): one is applied once unless its handler was     *)
(* given up for dead, and the row of a pull request has a status that      *)
(* GitHub has had, the last one seen.                                      *)
(***************************************************************************)
WebhooksAreFollowed ==
  /\ part = "webhooks" =>
       Webhooks!AppliedOnceUnlessAbandoned /\ Webhooks!StatusFollowsGitHub
  /\ part = "retries" => Retries!StatusFollowsGitHub
  /\ part = "overlap" => Overlap!StatusFollowsGitHub

(***************************************************************************)
(* Connections (GitHubConnections): the state of an authorization is       *)
(* exchanged at most once, an installation stays with the organization     *)
(* that connected it, concurrent imports make one project of a repository, *)
(* and a repository shown as connected can be reached.                     *)
(***************************************************************************)
ConnectionsHold ==
  part = "connections" =>
    /\ C!TypeOK
    /\ C!StatesAreUsedOnce /\ C!InstallationsStayBound
    /\ C!OneProjectPerRepository /\ C!ConnectedIsReachable
=============================================================================
