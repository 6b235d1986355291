---------------------------- MODULE MCPlatform ----------------------------
(***************************************************************************)
(* What the services stand on and what people see, on small instances: the *)
(* schema and its history (Migrations), the demo rows (Seeding) and the    *)
(* cache of the web application (WebViews). `section` says which of the    *)
(* three moves.                                                            *)
(***************************************************************************)
EXTENDS Integers

CONSTANTS Count, Repeatable, Late, Deployer, MaxRuns, MaxSeeds, MaxUses, MaxWrites, MaxErrors

\* There is a first migration, which no merge brings in.
ASSUME PlatformAssumption ==
  /\ Count \in Nat \ {0} /\ Late \subseteq 2..Count /\ Repeatable \subseteq 1..Count
  /\ MaxRuns \in Nat /\ MaxWrites \in Nat /\ MaxErrors \in Nat

VARIABLES
  section,
  files, schema, history, ledger, proc, launches, pushed, resets, claimed,
  old, rows, default, next, seeds, uses, refused, done,
  view, button, server, page, cache, flight, form, owed, errors, slipped

S == INSTANCE Seeding
G == INSTANCE Migrations WITH runs <- launches
V == INSTANCE WebViews WITH kind <- button, failures <- errors, MaxFailures <- MaxErrors

migrated == <<files, schema, history, ledger, proc, launches, pushed, resets, claimed>>
seeded == <<old, rows, default, next, seeds, uses, refused, done>>
viewed == <<view, button, server, page, cache, flight, form, owed, errors, slipped>>
PlatformVars == <<section, migrated, seeded, viewed>>

PlatformInit ==
  /\ section \in {"migrations", "seed", "web"}
  /\ G!MigInit /\ S!SeedInit /\ V!WebInit
  /\ section # "migrations" => schema = {}
  /\ section # "seed" => old = {}
  /\ section # "web" => view = "findings" /\ button = "updateFinding"

PlatformNext ==
  /\ UNCHANGED section
  /\ \/ section = "migrations" /\ G!MigNext /\ UNCHANGED <<seeded, viewed>>
     \/ section = "seed" /\ S!SeedNext /\ UNCHANGED <<migrated, viewed>>
     \/ section = "web" /\ V!WebNext /\ UNCHANGED <<migrated, seeded>>

\* The browser polls and requests are answered, as in WebViews.
Answered ==
  /\ WF_PlatformVars(section = "web" /\ V!Read /\ UNCHANGED <<section, migrated, seeded>>)
  /\ WF_PlatformVars(section = "web" /\ V!Arrive /\ UNCHANGED <<section, migrated, seeded>>)
  /\ WF_PlatformVars(section = "web" /\ V!Poll /\ UNCHANGED <<section, migrated, seeded>>)

PlatformSpec == PlatformInit /\ [][PlatformNext]_PlatformVars /\ Answered

(***************************************************************************)
(* Migrations: history and schema agree, a deployment that reports success *)
(* left nothing pending, and SQL that may not run twice is not recorded    *)
(* twice, though deployments overlap and die.                              *)
(***************************************************************************)
SchemaFollowsHistory ==
  section = "migrations" =>
    /\ G!TypeOK
    /\ G!HistoryTellsTheSchema /\ G!SuccessLeavesNothingPending /\ G!NothingRunsTwice

(***************************************************************************)
(* Seeding: no statement meets a foreign key that refuses it, nothing of   *)
(* what was there before is left, and the rows of different tables tell    *)
(* one story.                                                              *)
(***************************************************************************)
SeedTellsOneStory ==
  section = "seed" =>
    /\ S!TypeOK
    /\ S!SeedsAreNeverRefused /\ S!SeededIsFresh /\ S!SeededRowsAgree

\* Screens (WebViews): one at rest shows at least what its person saved.
ScreensShowOwnWrites == V!TypeOK /\ V!ReadsOwnWrites

\* Screens that poll show every change in the end; the others (but those that
\* are not told) what their person saved.
ViewsCatchUp == V!ViewsCatchUp
=============================================================================
