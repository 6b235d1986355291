----------------------------- MODULE Migrations -----------------------------
(***************************************************************************)
(* packages/db/scripts: the engine-free deployment of migrations. A run of *)
(* deploy-migrations reads the history once, then applies what is pending, *)
(* in the order of the names, each in a transaction with its history row;  *)
(* --baseline records without running. reset-database drops the schema,    *)
(* the history with it, and deploys. Deployers may overlap, be killed, and *)
(* a merge may bring in a migration with an older name.                    *)
(***************************************************************************)
EXTENDS Naturals, Sequences, FiniteSets, SequencesExt

CONSTANTS
  Count,        \* migrations, numbered in the order of their names
  Repeatable,   \* the ones whose SQL also succeeds when its effect is there
  Late,         \* the ones a merge may bring in after later ones
  Deployer,     \* processes
  MaxRuns       \* runs of the scripts

Migration == 1..Count

VARIABLES
  files,      \* migrations in the checkout
  schema,     \* migrations whose effect the database has
  history,    \* rows of _prisma_migrations, in order
  ledger,     \* whether that table exists
  proc,       \* the running scripts
  runs,       \* runs so far
  pushed,     \* effects brought by `prisma db push`, without history
  resets,     \* drops of the schema so far
  claimed     \* effects an operator baselined although they were missing
migVars == <<files, schema, history, ledger, proc, runs, pushed, resets, claimed>>

names == {history[i].name : i \in DOMAIN history}
Off == [pc |-> "off", mode |-> "deploy", todo |-> <<>>, saw |-> {}, era |-> 0]

TypeOK ==
  /\ files \subseteq Migration /\ schema \subseteq Migration /\ pushed \subseteq Migration
  /\ \A i \in DOMAIN history : history[i] \in [name : Migration, ran : BOOLEAN]
  /\ \A d \in Deployer :
       /\ proc[d].pc \in {"off", "dropping", "starting", "next", "applied", "done", "failed"}
       /\ proc[d].mode \in {"deploy", "baseline"}
       /\ ToSet(proc[d].todo) \subseteq Migration /\ proc[d].saw \subseteq Migration
  /\ ledger \in BOOLEAN /\ runs \in 0..MaxRuns /\ claimed \subseteq Migration

\* A database that is new, or one that an earlier `db push` has filled.
MigInit ==
  /\ files = Migration \ Late
  /\ schema \in {{}, Migration \ Late} /\ pushed = schema
  /\ history = <<>> /\ ledger = FALSE
  /\ proc = [d \in Deployer |-> Off]
  /\ runs = 0 /\ resets = 0 /\ claimed = {}

-----------------------------------------------------------------------------
Launch(d) ==
  /\ proc[d].pc \in {"off", "done", "failed"} /\ runs < MaxRuns
  /\ runs' = runs + 1
  /\ \E start \in {<<"starting", "deploy">>, <<"starting", "baseline">>, <<"dropping", "deploy">>} :
       proc' = [proc EXCEPT ![d] = [Off EXCEPT !.pc = start[1], !.mode = start[2]]]
  /\ UNCHANGED <<files, schema, history, ledger, pushed, resets, claimed>>

\* DROP SCHEMA public CASCADE waits for a transaction that has run SQL.
Drop(d) ==
  /\ proc[d].pc = "dropping"
  /\ \A e \in Deployer : ~(proc[e].pc = "applied" /\ proc[e].mode = "deploy")
  /\ schema' = {} /\ pushed' = {} /\ history' = <<>> /\ ledger' = FALSE
  /\ claimed' = {}
  /\ resets' = resets + 1
  /\ proc' = [proc EXCEPT ![d].pc = "starting"]
  /\ UNCHANGED <<files, runs>>

\* Pending: every file whose name the history does not hold.
sorted(ms) == CHOOSE s \in SetToSeqs(ms) : \A i, j \in DOMAIN s : i < j => s[i] < s[j]
pending_rest == SubSeq(sorted(files), Len(history) + 1, Cardinality(files))
pending_unfiltered == sorted((files \cup {0}) \ names)   \* 0: a directory without SQL
pending == sorted(files \ names)

Start(d) ==
  /\ proc[d].pc = "starting"
  /\ proc' = [proc EXCEPT ![d] = [@ EXCEPT !.pc = "next", !.todo = pending, !.saw = files,
                                           !.era = resets]]
  /\ ledger' = TRUE
  /\ UNCHANGED <<files, schema, history, runs, pushed, resets, claimed>>

\* The SQL of a migration builds on the first one, and fails on what exists.
runnable_tolerated(m) == m = 1 \/ 1 \in schema
runnable(m) ==
  /\ m = 1 \/ 1 \in schema
  /\ m \in schema => m \in Repeatable

applying(m) ==
  \E e \in Deployer : /\ proc[e].pc = "applied" /\ proc[e].mode = "deploy"
                      /\ Head(proc[e].todo) = m

\* BEGIN and the SQL. A migration another transaction is applying blocks.
Apply(d) ==
  /\ proc[d].pc = "next" /\ proc[d].todo # <<>>
  /\ LET m == Head(proc[d].todo)
     IN  /\ proc[d].mode = "baseline" \/ ~applying(m)
         /\ proc' = [proc EXCEPT ![d].pc =
                       IF proc[d].mode = "baseline" \/ runnable(m) THEN "applied" ELSE "failed"]
  /\ UNCHANGED <<files, schema, history, ledger, runs, pushed, resets, claimed>>

\* INSERT of the history row and COMMIT. The insert fails where a reset has
\* taken the history away and nobody has created it again.
committed_unrecorded(d) == [schema |-> {Head(proc[d].todo)}, rows |-> <<>>]
committed(d) ==
  LET m == Head(proc[d].todo)
  IN  [schema |-> IF proc[d].mode = "baseline" THEN {} ELSE {m},
       rows |-> <<[name |-> m, ran |-> proc[d].mode = "deploy"]>>]

Commit(d) ==
  /\ proc[d].pc = "applied" /\ ledger
  /\ LET c == committed(d)
     IN  /\ schema' = schema \cup c.schema
         /\ history' = history \o c.rows
         /\ claimed' = IF proc[d].mode = "baseline"
                       THEN claimed \cup ({Head(proc[d].todo)} \ schema) ELSE claimed
  /\ proc' = [proc EXCEPT ![d] = [@ EXCEPT !.pc = "next", !.todo = Tail(proc[d].todo)]]
  /\ UNCHANGED <<files, ledger, runs, pushed, resets>>

Finish(d) ==
  /\ proc[d].pc = "next" /\ proc[d].todo = <<>>
  /\ proc' = [proc EXCEPT ![d].pc = "done"]
  /\ UNCHANGED <<files, schema, history, ledger, runs, pushed, resets, claimed>>

\* Killed, or refused by the database: an open transaction is rolled back.
Die(d) ==
  /\ proc[d].pc \in {"dropping", "starting", "next", "applied"}
  /\ proc' = [proc EXCEPT ![d].pc = "failed"]
  /\ UNCHANGED <<files, schema, history, ledger, runs, pushed, resets, claimed>>

\* A merge adds a migration file to the checkout.
Merge ==
  /\ \E m \in Late \ files : files' = files \cup {m}
  /\ UNCHANGED <<schema, history, ledger, proc, runs, pushed, resets, claimed>>

MigNext ==
  \/ \E d \in Deployer : Launch(d) \/ Drop(d) \/ Start(d) \/ Apply(d) \/ Commit(d)
                         \/ Finish(d) \/ Die(d)
  \/ Merge

MigSpec == MigInit /\ [][MigNext]_migVars

-----------------------------------------------------------------------------
(***************************************************************************)
(* History and schema agree: what is recorded as run is in the schema, and *)
(* what is in the schema is recorded unless `db push` brought it, whoever  *)
(* was killed between which two statements.                                *)
(***************************************************************************)
HistoryTellsTheSchema ==
  /\ \A i \in DOMAIN history : history[i].ran => history[i].name \in schema
  /\ schema \subseteq names \cup pushed
  /\ names \subseteq schema \cup claimed

(***************************************************************************)
(* A deployment that reports success has left nothing pending of the files *)
(* it saw, also when another one was at work or a migration with an older  *)
(* name came late; a later reset aside.                                    *)
(***************************************************************************)
SuccessLeavesNothingPending ==
  \A d \in Deployer :
    (proc[d].pc = "done" /\ proc[d].era = resets) => proc[d].saw \subseteq names

(***************************************************************************)
(* SQL that may not run twice is never recorded twice: of two deployers    *)
(* that read the same history the second fails and stops.                  *)
(***************************************************************************)
NothingRunsTwice ==
  \A m \in Migration \ Repeatable :
    Cardinality({i \in DOMAIN history : history[i].name = m /\ history[i].ran}) <= 1
=============================================================================
