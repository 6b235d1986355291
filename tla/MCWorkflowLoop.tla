--------------------------- MODULE MCWorkflowLoop ---------------------------
(***************************************************************************)
(* Small instances of WorkflowLoop and the properties checked on them.     *)
(***************************************************************************)
EXTENDS WorkflowLoop

Setting(level, ui, docs, cycles, tries) ==
  [permissionLevel |-> level, uiQaEnabled |-> ui, documentationEnabled |-> docs,
   maxReviewCycles |-> cycles, maxAttempts |-> tries]

Start(skip, only, frozen) ==
  [skipPlanning |-> skip, planOnly |-> only, snapshot |-> frozen]

\* A full-service project that is closed or opened while a run lives.
MCProjects == {Setting(3, TRUE, TRUE, 2, 2), Setting(2, TRUE, TRUE, 1, 2),
               Setting(0, TRUE, TRUE, 2, 2)}
MCStarts   == {Start(FALSE, FALSE, FALSE), Start(TRUE, FALSE, TRUE),
               Start(FALSE, TRUE, FALSE)}

\* A first run, and a rerun of a task whose last run passed its checks, left a
\* blocking finding open and stray edits in the worktree.
Untouched == [latestTest |-> "none", worktree |-> FALSE, blocking |-> FALSE,
              pr |-> FALSE, clean |-> TRUE]
Abandoned == [latestTest |-> "passed", worktree |-> TRUE, blocking |-> TRUE,
              pr |-> TRUE, clean |-> FALSE]
MCLeftovers   == {Untouched, Abandoned}
NoLeftovers   == {Untouched}

-----------------------------------------------------------------------------
(***************************************************************************)
(* The loop beside the tables it walks: `part` says whether a run moves or *)
(* a table is asked for a route.                                           *)
(***************************************************************************)
VARIABLES part, table, query, answer

T == INSTANCE MCTaskStateMachine

asked == <<table, query, answer>>
MCvars == <<part, vars, asked>>

MCInit ==
  \/ part = "loop" /\ Init /\ table = taskTransitions /\ query = <<>> /\ answer = <<>>
  \/ part = "table" /\ T!Init /\ Init
     /\ project = Setting(3, TRUE, TRUE, 2, 2) /\ provider = "NONE"
     /\ start.skipPlanning /\ ~evidence.pr

MCNext ==
  /\ UNCHANGED part
  /\ \/ part = "loop" /\ Next /\ UNCHANGED asked
     \/ part = "table" /\ T!Next /\ UNCHANGED vars
     \/ part = "table" /\ query # <<>> /\ UNCHANGED <<vars, asked>>

MCSpec == MCInit /\ [][MCNext]_MCvars

(***************************************************************************)
(* path() returns null exactly when there is no route, and otherwise the   *)
(* first of the shortest routes in the order of the successor lists: this  *)
(* decides which statuses a task is dragged through.                       *)
(***************************************************************************)
PathIsFirstShortest ==
  part = "table" => T!PathIsShortestRoute /\ T!PathIsFirstInOrder

(***************************************************************************)
(* What others rely on in the product's table: the engine can always park  *)
(* or fail a run, nothing is delivered around the approval, the board      *)
(* shows every status once, and buttons offer what the API accepts.        *)
(***************************************************************************)
TableServesItsUsers ==
  part = "table" =>
  /\ T!EngineCanAlwaysPark /\ T!DeliveryPassesApproval
  /\ T!BoardAndTableAgree /\ T!OfferedActionsAreAccepted

(***************************************************************************)
(* How a run may end: a delivery is verified work, and a failure is that   *)
(* of a mandatory step that used its last attempt.                         *)
(***************************************************************************)
EndingsAreEarned == TypeOK /\ DeliveredWorkIsVerified /\ OnlyMandatoryStepsFailRuns

(***************************************************************************)
(* What a step may do: reviews follow passing checks, repairs stay within  *)
(* attempts and cycles, and writes need the permission the project has now.*)
(***************************************************************************)
StepsAreAllowed ==
  [][ReviewFollowsPassingChecks /\ RepairIsBounded /\ WriteNeedsLivePermission]_vars
=============================================================================
