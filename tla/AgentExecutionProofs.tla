------------------------ MODULE AgentExecutionProofs ------------------------
(***************************************************************************)
(* Proofs about AgentExecution, for every set of calls and of workflow     *)
(* runs, every budget and every number of slots; and that it implements    *)
(* AgentLedger.                                                            *)
(***************************************************************************)
EXTENDS AgentExecution, FiniteSetTheorems, TLAPS

(***************************************************************************)
(* The inductive invariant: what the row of a call is at each place of the *)
(* call. A RUNNING row has no output and no cost, so that a cancellation   *)
(* leaves none; and it has no cancelled parent run.                        *)
(***************************************************************************)
CallInv(a) ==
  /\ pc[a] \in {"none", "gate", "refuse", "create"} => row[a] = NoRow
  /\ pc[a] \in beforeAnswer \cup {"release", "complete"} =>
       row[a].status \in {"RUNNING", "CANCELLED"}
  /\ pc[a] = "reread" => row[a].status \in Final
  /\ pc[a] \in {"usage", "bill"} => row[a].status = mem[a].status
  /\ pc[a] = "done" => outcome[a] = row[a].status /\ row[a].status \in Final
  /\ row[a].status = "RUNNING" => ~row[a].output /\ row[a].cost = 0
  /\ row[a].status = "RUNNING" /\ of[a] # NoRun => wf[of[a]] # "CANCELLED"

IInv == TypeOK /\ \A a \in Exec : CallInv(a)

Place == {"none", "gate", "refuse", "create", "persist", "check", "checkParents",
          "checkClaim", "prepare", "start", "running", "release", "complete", "reread",
          "usage", "bill", "done", "thrown"}
RowRecord == [status : {"NONE", "RUNNING"} \cup Final, output : BOOLEAN, cost : Nat]
MemRecord == [cap : Nat, has : BOOLEAN, status : Final, output : BOOLEAN, cost : Nat]

-----------------------------------------------------------------------------
(***************************************************************************)
(* What the helpers keep.                                                  *)
(***************************************************************************)
\* A call whose row, place, memory, outcome and parent a step leaves alone
\* keeps its part of the invariant.
LEMMA Frame ==
  ASSUME NEW b \in Exec, CallInv(b),
         pc'[b] = pc[b], row'[b] = row[b], mem'[b] = mem[b], outcome'[b] = outcome[b],
         of'[b] = of[b], of[b] # NoRun => wf'[of[b]] = wf[of[b]]
  PROVE  CallInv(b)'
BY DEF CallInv

\* What cancelled() does to one row.
LEMMA Claimed ==
  ASSUME TypeOK, NEW S \in SUBSET Exec
  PROVE  /\ cancelled(row, S) \in [Exec -> RowRecord]
         /\ \A b \in Exec : b \in S /\ row[b].status = "RUNNING" =>
              cancelled(row, S)[b] = [row[b] EXCEPT !.status = "CANCELLED"]
         /\ \A b \in Exec : ~(b \in S /\ row[b].status = "RUNNING") =>
              cancelled(row, S)[b] = row[b]
BY DEF TypeOK, cancelled, RowRecord, Final

\* A call whose row a cancellation claims keeps its part of the invariant, and
\* is not RUNNING any more.
LEMMA ClaimKeeps ==
  ASSUME TypeOK, NEW S \in SUBSET Exec, NEW b \in S, CallInv(b),
         row' = cancelled(row, S),
         pc'[b] = pc[b], mem'[b] = mem[b], outcome'[b] = outcome[b]
  PROVE  CallInv(b)'
<1>1. row[b] \in RowRecord BY DEF TypeOK, RowRecord
<1>2. CASE row[b].status = "RUNNING"
  <2>1. row'[b] = [row[b] EXCEPT !.status = "CANCELLED"] BY <1>2, Claimed
  <2>2. row'[b].status = "CANCELLED" BY <1>1, <2>1 DEF RowRecord
  <2>3. pc[b] \notin {"none", "gate", "refuse", "create"}
    BY <1>2 DEF CallInv, NoRow
  <2>4. pc[b] \notin {"usage", "bill"}
    <3>1. mem[b].status # "RUNNING" BY DEF TypeOK, Final
    <3> QED BY <1>2, <3>1 DEF CallInv
  <2> QED BY <1>2, <2>2, <2>3, <2>4 DEF CallInv, Final
<1>3. CASE row[b].status # "RUNNING"
  <2>1. row'[b] = row[b] BY <1>3, Claimed
  <2> QED BY <1>3, <2>1 DEF CallInv
<1> QED BY <1>2, <1>3
-----------------------------------------------------------------------------
(***************************************************************************)
(* Types.                                                                  *)
(***************************************************************************)
LEMMA NoMemType == NoMem \in MemRecord /\ NoRow \in RowRecord
BY DEF NoMem, NoRow, MemRecord, RowRecord, Final

LEMMA TimerType ==
  ASSUME TypeOK, NEW a \in Exec, timerEnds(a)
  PROVE  /\ poll' \in [Exec -> {"idle", "parents", "claim", "send", "sent"}]
         /\ stopped' \subseteq Exec
BY DEF TypeOK, timerEnds

LEMMA CapType ==
  ASSUME TypeOK, ExecutionAssumption, NEW a \in Exec, ~exceeded(actualCost, limitOf(a))
  PROVE  maxCostUsd(a, actualCost, limitOf(a)) \in Nat
<1>1. limitOf(a) \in Nat
  BY DEF TypeOK, limitOf, snapshotted, smaller, ExecutionAssumption
<1>2. actualCost \in Nat BY DEF TypeOK
<1>3. limitOf(a) > 0 => limitOf(a) - actualCost \in Nat
  BY <1>1, <1>2 DEF exceeded
<1> QED BY <1>1, <1>2, <1>3 DEF maxCostUsd, smaller, ExecutionAssumption

\* Every answer of the provider, and every failure, leaves for "release".
LEMMA Leaving ==
  ASSUME TypeOK, ExecutionAssumption, NEW a \in Exec,
         \/ fails(a)
         \/ \E s \in Final, o \in BOOLEAN, c \in Costs : answers(a, s, o, c)
  PROVE  /\ mem' \in [Exec -> MemRecord]
         /\ \A b \in Exec \ {a} : mem'[b] = mem[b]
         /\ pc' = [pc EXCEPT ![a] = "release"]
         /\ poll' \in [Exec -> {"idle", "parents", "claim", "send", "sent"}]
         /\ stopped' \subseteq Exec
<1>1. PICK m \in MemRecord : leaves(a, m)
  <2>1. CASE fails(a) BY <2>1, NoMemType DEF fails
  <2>2. CASE \E s \in Final, o \in BOOLEAN, c \in Costs : answers(a, s, o, c)
    <3>1. PICK s \in Final, o \in BOOLEAN, c \in Costs : answers(a, s, o, c) BY <2>2
    <3>2. [cap |-> 0, has |-> TRUE, status |-> s, output |-> o, cost |-> c] \in MemRecord
      BY DEF MemRecord, ExecutionAssumption
    <3> QED BY <3>1, <3>2 DEF answers
  <2> QED BY <2>1, <2>2
<1>2. mem \in [Exec -> MemRecord] BY DEF TypeOK, MemRecord
<1>3. timerEnds(a) BY <1>1 DEF leaves
<1> QED BY <1>1, <1>2, <1>3, TimerType DEF leaves, goto

\* returns() ends the call with a status of its own.
LEMMA Returning ==
  ASSUME TypeOK, NEW a \in Exec, NEW s \in Final, returns(a, s)
  PROVE  /\ mem' \in [Exec -> MemRecord]
         /\ \A b \in Exec \ {a} : mem'[b] = mem[b] /\ outcome'[b] = outcome[b]
         /\ pc' = [pc EXCEPT ![a] = "done"]
         /\ outcome' \in [Exec -> {"NONE"} \cup Final] /\ outcome'[a] = s
         /\ poll' \in [Exec -> {"idle", "parents", "claim", "send", "sent"}]
         /\ stopped' = stopped
<1>1. mem \in [Exec -> MemRecord] BY DEF TypeOK, MemRecord
<1> QED BY <1>1, NoMemType DEF TypeOK, returns, over, pollEnds, goto
-----------------------------------------------------------------------------
(***************************************************************************)
(* Each step of a call keeps the invariant.                                *)
(***************************************************************************)
OthersKept(a) ==
  \A b \in Exec \ {a} : /\ pc'[b] = pc[b] /\ row'[b] = row[b] /\ mem'[b] = mem[b]
                        /\ outcome'[b] = outcome[b] /\ of'[b] = of[b]

TypesKept ==
  /\ pc' \in [Exec -> Place] /\ row' \in [Exec -> RowRecord]
  /\ mem' \in [Exec -> MemRecord]
  /\ outcome' \in [Exec -> {"NONE"} \cup Final] /\ of' \in [Exec -> Run \cup {NoRun}]
  /\ poll' \in [Exec -> {"idle", "parents", "claim", "send", "sent"}]
  /\ stopped' \subseteq Exec /\ billed' \subseteq Exec /\ actualCost' \in Nat

LEMMA OwnStep ==
  ASSUME IInv, NEW a \in Exec, UNCHANGED <<task, wf, conf>>,
         TypesKept, OthersKept(a), CallInv(a)'
  PROVE  IInv'
<1>1. TypeOK'
  BY DEF IInv, TypeOK, TypesKept, conf, Place, RowRecord, MemRecord
<1>2. ASSUME NEW b \in Exec PROVE CallInv(b)'
  <2>1. CASE b = a BY <2>1
  <2>2. CASE b # a BY <2>2, Frame DEF IInv, OthersKept
  <2> QED BY <2>1, <2>2
<1> QED BY <1>1, <1>2 DEF IInv

\* The types before the step, in the form the steps below use.
LEMMA Types ==
  ASSUME TypeOK
  PROVE  /\ pc \in [Exec -> Place] /\ row \in [Exec -> RowRecord]
         /\ mem \in [Exec -> MemRecord] /\ outcome \in [Exec -> {"NONE"} \cup Final]
         /\ of \in [Exec -> Run \cup {NoRun}]
         /\ poll \in [Exec -> {"idle", "parents", "claim", "send", "sent"}]
         /\ stopped \subseteq Exec /\ billed \subseteq Exec /\ actualCost \in Nat
BY DEF TypeOK, Place, RowRecord, MemRecord

LEMMA Keeps_Begin ==
  ASSUME IInv, ExecutionAssumption, NEW a \in Exec, Begin(a)
  PROVE  IInv'
<1> USE DEF IInv
<1>1. TypesKept
  BY Types DEF TypesKept, Begin, dbVars, callVars, stopVars, goto, Place
<1>2. OthersKept(a)
  BY Types DEF OthersKept, Begin, dbVars, callVars, stopVars, goto
<1>3. CallInv(a)'
  BY Types
  DEF Begin, dbVars, callVars, stopVars, goto, CallInv, beforeAnswer, Final, NoRow,
      Place
<1> QED BY OwnStep, <1>1, <1>2, <1>3 DEF Begin, dbVars

LEMMA Keeps_budgetExceeded ==
  ASSUME IInv, ExecutionAssumption, NEW a \in Exec, budgetExceeded(a)
  PROVE  IInv'
<1> USE DEF IInv
<1>1. TypesKept
  BY Types, CapType
  DEF TypesKept, budgetExceeded, dbVars, callVars, stopVars, goto, MemRecord, Place
<1>2. OthersKept(a)
  BY Types DEF OthersKept, budgetExceeded, dbVars, callVars, stopVars, goto, MemRecord
<1>3. CallInv(a)'
  BY Types
  DEF budgetExceeded, dbVars, callVars, stopVars, goto, MemRecord, CallInv,
      beforeAnswer, Final, NoRow, Place
<1> QED BY OwnStep, <1>1, <1>2, <1>3 DEF budgetExceeded, dbVars

LEMMA Keeps_CheckParents ==
  ASSUME IInv, ExecutionAssumption, NEW a \in Exec, CheckParents(a)
  PROVE  IInv'
<1> USE DEF IInv
<1>1. TypesKept
  BY Types DEF TypesKept, CheckParents, dbVars, callVars, stopVars, goto, Place
<1>2. OthersKept(a)
  BY Types DEF OthersKept, CheckParents, dbVars, callVars, stopVars, goto
<1>3. CallInv(a)'
  BY Types
  DEF CheckParents, dbVars, callVars, stopVars, goto, CallInv, beforeAnswer, Final,
      NoRow, Place
<1> QED BY OwnStep, <1>1, <1>2, <1>3 DEF CheckParents, dbVars

LEMMA Keeps_Prepare ==
  ASSUME IInv, ExecutionAssumption, NEW a \in Exec, Prepare(a)
  PROVE  IInv'
<1> USE DEF IInv
<1>1. TypesKept
  BY Types DEF TypesKept, Prepare, dbVars, callVars, stopVars, goto, Place
<1>2. OthersKept(a)
  BY Types DEF OthersKept, Prepare, dbVars, callVars, stopVars, goto
<1>3. CallInv(a)'
  BY Types
  DEF Prepare, dbVars, callVars, stopVars, goto, CallInv, beforeAnswer, Final, NoRow,
      Place
<1> QED BY OwnStep, <1>1, <1>2, <1>3 DEF Prepare, dbVars

LEMMA Keeps_Release ==
  ASSUME IInv, ExecutionAssumption, NEW a \in Exec, Release(a)
  PROVE  IInv'
<1> USE DEF IInv
<1>1. TypesKept
  BY Types, NoMemType DEF TypesKept, Release, dbVars, callVars, stopVars, goto, Place
<1>2. OthersKept(a)
  BY Types DEF OthersKept, Release, dbVars, callVars, stopVars, goto
<1>3. CallInv(a)'
  BY Types
  DEF Release, dbVars, callVars, stopVars, goto, CallInv, beforeAnswer, Final, NoRow,
      Place
<1> QED BY OwnStep, <1>1, <1>2, <1>3 DEF Release, dbVars

LEMMA Keeps_Throws ==
  ASSUME IInv, ExecutionAssumption, NEW a \in Exec, Throws(a)
  PROVE  IInv'
<1> USE DEF IInv
<1>1. /\ mem' \in [Exec -> MemRecord] /\ OthersKept(a)
      /\ pc' = [pc EXCEPT ![a] = "release"]
      /\ TypesKept
  BY Types, Leaving DEF Throws, OthersKept, TypesKept, dbVars, Place
<1>2. CallInv(a)'
  BY <1>1, Types DEF Throws, CallInv, beforeAnswer, dbVars, NoRow
<1> QED BY OwnStep, <1>1, <1>2 DEF Throws, dbVars

LEMMA Keeps_PersistContext ==
  ASSUME IInv, ExecutionAssumption, NEW a \in Exec, PersistContext(a)
  PROVE  IInv'
<1> USE DEF IInv
<1>1. CASE fails(a)
  <2>1. pc' = [pc EXCEPT ![a] = "release"] /\ OthersKept(a) /\ TypesKept
    BY <1>1, Types, Leaving DEF PersistContext, OthersKept, TypesKept, dbVars, Place
  <2>2. CallInv(a)'
    BY <2>1, Types DEF PersistContext, CallInv, beforeAnswer, dbVars, NoRow
  <2> QED BY OwnStep, <2>1, <2>2 DEF PersistContext, dbVars
<1>2. CASE ~fails(a)
  <2>1. OthersKept(a) /\ TypesKept
    BY <1>2, Types
    DEF PersistContext, OthersKept, TypesKept, dbVars, stopVars, goto, Place
  <2>2. CallInv(a)'
    BY <1>2, Types DEF PersistContext, CallInv, beforeAnswer, dbVars, goto, NoRow
  <2> QED BY OwnStep, <2>1, <2>2 DEF PersistContext, dbVars
<1> QED BY <1>1, <1>2

LEMMA Keeps_CheckRow ==
  ASSUME IInv, ExecutionAssumption, NEW a \in Exec, CheckRow(a)
  PROVE  IInv'
<1> USE DEF IInv
<1>1. CASE fails(a)
  <2>1. pc' = [pc EXCEPT ![a] = "release"] /\ OthersKept(a) /\ TypesKept
    BY <1>1, Types, Leaving DEF CheckRow, OthersKept, TypesKept, dbVars, Place
  <2>2. CallInv(a)'
    BY <2>1, Types DEF CheckRow, CallInv, beforeAnswer, dbVars, NoRow
  <2> QED BY OwnStep, <2>1, <2>2 DEF CheckRow, dbVars
<1>2. CASE ~fails(a)
  <2>1. OthersKept(a) /\ TypesKept
    BY <1>2, Types DEF CheckRow, OthersKept, TypesKept, dbVars, stopVars, goto, Place
  <2>2. CallInv(a)'
    BY <1>2, Types DEF CheckRow, CallInv, beforeAnswer, dbVars, goto, NoRow
  <2> QED BY OwnStep, <2>1, <2>2 DEF CheckRow, dbVars
<1> QED BY <1>1, <1>2

LEMMA ClaimOwn ==
  ASSUME TypeOK, NEW a \in Exec, row[a].status \in {"RUNNING", "CANCELLED"}
  PROVE  cancelled(row, {a})[a].status = "CANCELLED"
<1>1. row[a] \in RowRecord BY Types
<1>2. CASE row[a].status = "RUNNING"
  <2>1. cancelled(row, {a})[a] = [row[a] EXCEPT !.status = "CANCELLED"] BY <1>2, Claimed
  <2> QED BY <1>1, <2>1 DEF RowRecord
<1>3. CASE row[a].status = "CANCELLED"
  <2>1. cancelled(row, {a})[a] = row[a] BY <1>3, Claimed
  <2> QED BY <1>3, <2>1
<1> QED BY <1>2, <1>3

LEMMA Keeps_CheckClaim ==
  ASSUME IInv, ExecutionAssumption, NEW a \in Exec, CheckClaim(a)
  PROVE  IInv'
<1> USE DEF IInv
<1>1. /\ pc' = [pc EXCEPT ![a] = "release"] /\ mem' \in [Exec -> MemRecord]
      /\ \A b \in Exec \ {a} : mem'[b] = mem[b]
      /\ poll' \in [Exec -> {"idle", "parents", "claim", "send", "sent"}]
      /\ stopped' \subseteq Exec
  BY Leaving DEF CheckClaim
<1>2. row' \in [Exec -> RowRecord] /\ \A b \in Exec \ {a} : row'[b] = row[b]
  BY Claimed DEF CheckClaim
<1>3. row'[a].status = "CANCELLED"
  BY ClaimOwn DEF CheckClaim, CallInv, beforeAnswer
<1>4. OthersKept(a) /\ TypesKept
  BY <1>1, <1>2, Types DEF CheckClaim, OthersKept, TypesKept, Place
<1>5. CallInv(a)'
  BY <1>1, <1>3, Types DEF CallInv, beforeAnswer
<1> QED BY OwnStep, <1>4, <1>5 DEF CheckClaim

LEMMA Keeps_Invoke ==
  ASSUME IInv, ExecutionAssumption, NEW a \in Exec, Invoke(a)
  PROVE  IInv'
<1> USE DEF IInv
<1>1. CASE a \in stopped
  <2>1. \E s \in Final, o \in BOOLEAN, c \in Costs : answers(a, s, o, c)
    BY <1>1 DEF Invoke, Final
  <2>2. pc' = [pc EXCEPT ![a] = "release"] /\ OthersKept(a) /\ TypesKept
    BY <2>1, Types, Leaving DEF Invoke, OthersKept, TypesKept, dbVars, Place
  <2>3. CallInv(a)'
    BY <2>2, Types DEF Invoke, CallInv, beforeAnswer, dbVars, NoRow
  <2> QED BY OwnStep, <2>2, <2>3 DEF Invoke, dbVars
<1>2. CASE a \notin stopped
  <2>1. OthersKept(a) /\ TypesKept
    BY <1>2, Types DEF Invoke, OthersKept, TypesKept, dbVars, stopVars, goto, Place
  <2>2. CallInv(a)'
    BY <1>2, Types DEF Invoke, CallInv, beforeAnswer, dbVars, goto, NoRow
  <2> QED BY OwnStep, <2>1, <2>2 DEF Invoke, dbVars
<1> QED BY <1>1, <1>2

LEMMA Keeps_Answer ==
  ASSUME IInv, ExecutionAssumption, NEW a \in Exec, Answer(a)
  PROVE  IInv'
<1> USE DEF IInv
<1>1. \/ fails(a)
      \/ \E s \in Final, o \in BOOLEAN, c \in Costs : answers(a, s, o, c)
  BY DEF Answer, Final
<1>2. pc' = [pc EXCEPT ![a] = "release"] /\ OthersKept(a) /\ TypesKept
  BY <1>1, Types, Leaving DEF Answer, OthersKept, TypesKept, dbVars, Place
<1>3. CallInv(a)'
  BY <1>2, Types DEF Answer, CallInv, beforeAnswer, dbVars, NoRow
<1> QED BY OwnStep, <1>2, <1>3 DEF Answer, dbVars

LEMMA Keeps_Refuse ==
  ASSUME IInv, ExecutionAssumption, NEW a \in Exec, Refuse(a)
  PROVE  IInv'
<1> USE DEF IInv
<1> DEFINE s == IF parentCancelled(a) THEN "CANCELLED" ELSE "BUDGET_EXCEEDED"
<1>1. s \in Final /\ row' = [row EXCEPT ![a].status = s] /\ returns(a, s)
  BY DEF Refuse, Final
<1> HIDE DEF s
<1>2. row' \in [Exec -> RowRecord] /\ row'[a].status = s
  BY <1>1, Types DEF RowRecord
<1>3. OthersKept(a) /\ TypesKept
  BY <1>1, <1>2, Types, Returning DEF Refuse, OthersKept, TypesKept, Place
<1>4. CallInv(a)'
  BY <1>1, <1>2, Types, Returning DEF CallInv, beforeAnswer, Final
<1> QED BY OwnStep, <1>3, <1>4 DEF Refuse

LEMMA Keeps_Create ==
  ASSUME IInv, ExecutionAssumption, NEW a \in Exec, Create(a)
  PROVE  IInv'
<1> USE DEF IInv
<1>1. CASE parentCancelled(a)
  <2>1. "CANCELLED" \in Final /\ row' = [row EXCEPT ![a].status = "CANCELLED"]
        /\ returns(a, "CANCELLED")
    BY <1>1 DEF Create, Final
  <2>2. row' \in [Exec -> RowRecord] /\ row'[a].status = "CANCELLED"
    BY <2>1, Types DEF RowRecord
  <2>3. OthersKept(a) /\ TypesKept
    BY <2>1, <2>2, Types, Returning DEF Create, OthersKept, TypesKept, Place
  <2>4. CallInv(a)'
    BY <2>1, <2>2, Types, Returning DEF CallInv, beforeAnswer, Final
  <2> QED BY OwnStep, <2>3, <2>4 DEF Create
<1>2. CASE ~parentCancelled(a)
  <2>1. row' = [row EXCEPT ![a].status = "RUNNING"] /\ continues(a, "persist")
    BY <1>2 DEF Create
  <2>2. /\ row' \in [Exec -> RowRecord]
        /\ row'[a].status = "RUNNING" /\ ~row'[a].output /\ row'[a].cost = 0
    BY <2>1, Types DEF Create, RowRecord, CallInv, NoRow
  <2>3. OthersKept(a) /\ TypesKept
    BY <2>1, <2>2, Types
    DEF Create, continues, goto, stopVars, OthersKept, TypesKept, Place
  <2>4. CallInv(a)'
    BY <1>2, <2>1, <2>2, Types
    DEF Create, continues, goto, parentCancelled, CallInv, beforeAnswer
  <2> QED BY OwnStep, <2>3, <2>4 DEF Create
<1> QED BY <1>1, <1>2

LEMMA Keeps_Complete ==
  ASSUME IInv, ExecutionAssumption, NEW a \in Exec, Complete(a)
  PROVE  IInv'
<1> USE DEF IInv
<1>1. CASE parentCancelled(a)
  <2>1. row' = cancelled(row, {a}) /\ pc' = [pc EXCEPT ![a] = "reread"]
    BY <1>1 DEF Complete, goto
  <2>2. row' \in [Exec -> RowRecord] /\ \A b \in Exec \ {a} : row'[b] = row[b]
    BY <2>1, Claimed
  <2>3. row'[a].status = "CANCELLED"
    BY <2>1, ClaimOwn DEF Complete, CallInv
  <2>4. OthersKept(a) /\ TypesKept
    BY <2>1, <2>2, Types DEF Complete, stopVars, OthersKept, TypesKept, Place
  <2>5. CallInv(a)'
    BY <2>1, <2>3, Types DEF CallInv, beforeAnswer, Final
  <2> QED BY OwnStep, <2>4, <2>5 DEF Complete
<1>2. CASE ~parentCancelled(a) /\ row[a].status # "RUNNING"
  <2>1. OthersKept(a) /\ TypesKept
    BY <1>2, Types DEF Complete, goto, stopVars, OthersKept, TypesKept, Place
  <2>2. CallInv(a)'
    BY <1>2, Types DEF Complete, goto, CallInv, beforeAnswer, Final
  <2> QED BY OwnStep, <2>1, <2>2 DEF Complete
<1>3. CASE ~parentCancelled(a) /\ row[a].status = "RUNNING"
  <2>1. row' = [row EXCEPT ![a] = result(a)] /\ pc' = [pc EXCEPT ![a] = "usage"]
        /\ mem' = mem
    BY <1>3 DEF Complete, goto
  <2>2. result(a) \in RowRecord /\ result(a).status \in Final
        /\ result(a).status = mem[a].status
    BY Types DEF result, MemRecord, RowRecord
  <2>3. OthersKept(a) /\ TypesKept
    BY <2>1, <2>2, Types DEF Complete, stopVars, OthersKept, TypesKept, Place
  <2>4. CallInv(a)'
    BY <2>1, <2>2, Types DEF CallInv, beforeAnswer, Final
  <2> QED BY OwnStep, <2>3, <2>4 DEF Complete
<1> QED BY <1>1, <1>2, <1>3

LEMMA Keeps_Reread ==
  ASSUME IInv, ExecutionAssumption, NEW a \in Exec, Reread(a)
  PROVE  IInv'
<1> USE DEF IInv
<1>1. row[a].status \in Final /\ returns(a, row[a].status) BY DEF Reread, CallInv
<1>2. OthersKept(a) /\ TypesKept
  BY <1>1, Types, Returning DEF Reread, dbVars, OthersKept, TypesKept, Place
<1>3. CallInv(a)'
  BY <1>1, Types, Returning DEF Reread, dbVars, CallInv, beforeAnswer, Final
<1> QED BY OwnStep, <1>2, <1>3 DEF Reread, dbVars

LEMMA Keeps_RecordUsage ==
  ASSUME IInv, ExecutionAssumption, NEW a \in Exec, RecordUsage(a)
  PROVE  IInv'
<1> USE DEF IInv
<1>1. CASE mem[a].has
  <2>1. billed' = billed \cup {a} /\ continues(a, "bill") BY <1>1 DEF RecordUsage
  <2>2. OthersKept(a) /\ TypesKept
    BY <2>1, Types
    DEF RecordUsage, continues, goto, stopVars, OthersKept, TypesKept, Place
  <2>3. CallInv(a)'
    BY <2>1, Types DEF RecordUsage, continues, goto, CallInv, beforeAnswer
  <2> QED BY OwnStep, <2>2, <2>3 DEF RecordUsage
<1>2. CASE ~mem[a].has
  <2>1. /\ billed' = billed /\ returns(a, mem[a].status)
        /\ mem[a].status \in Final /\ row[a].status = mem[a].status
    BY <1>2, Types DEF RecordUsage, CallInv, MemRecord
  <2>2. OthersKept(a) /\ TypesKept
    BY <2>1, Types, Returning DEF RecordUsage, OthersKept, TypesKept, Place
  <2>3. CallInv(a)'
    BY <2>1, Types, Returning DEF RecordUsage, CallInv, beforeAnswer, Final
  <2> QED BY OwnStep, <2>2, <2>3 DEF RecordUsage
<1> QED BY <1>1, <1>2

LEMMA Keeps_Bill ==
  ASSUME IInv, ExecutionAssumption, NEW a \in Exec, Bill(a)
  PROVE  IInv'
<1> USE DEF IInv
<1>1. /\ returns(a, mem[a].status) /\ mem[a].status \in Final
      /\ row[a].status = mem[a].status /\ actualCost' \in Nat
  BY Types DEF Bill, CallInv, MemRecord
<1>2. OthersKept(a) /\ TypesKept
  BY <1>1, Types, Returning DEF Bill, OthersKept, TypesKept, Place
<1>3. CallInv(a)'
  BY <1>1, Types, Returning DEF Bill, CallInv, beforeAnswer, Final
<1> QED BY OwnStep, <1>2, <1>3 DEF Bill

LEMMA Keeps_Dies ==
  ASSUME IInv, ExecutionAssumption, NEW a \in Exec, Dies(a)
  PROVE  IInv'
<1> USE DEF IInv
<1>1. OthersKept(a) /\ TypesKept
  BY Types, NoMemType, TimerType
  DEF Dies, over, goto, pollEnds, dbVars, OthersKept, TypesKept, Place
<1>2. pc'[a] = "thrown" /\ UNCHANGED <<row, of, wf>>
  BY Types DEF Dies, over, goto, dbVars
<1>3. CallInv(a)'
  BY <1>2 DEF CallInv, beforeAnswer
<1> QED BY OwnStep, <1>1, <1>3 DEF Dies, dbVars

-----------------------------------------------------------------------------
(***************************************************************************)
(* The poll, the stops, and the other writers. None of them moves a call.  *)
(***************************************************************************)
CallsKept == UNCHANGED <<pc, of, mem, outcome, billed, actualCost, conf>>

\* A step that touches neither the rows nor the workflow runs.
LEMMA StopStep ==
  ASSUME IInv, CallsKept, UNCHANGED <<task, wf, row>>,
         poll' \in [Exec -> {"idle", "parents", "claim", "send", "sent"}],
         stopped' \subseteq Exec
  PROVE  IInv'
<1>1. TypeOK' BY DEF IInv, TypeOK, CallsKept, conf
<1>2. ASSUME NEW b \in Exec PROVE CallInv(b)'
  BY Frame DEF IInv, CallsKept
<1> QED BY <1>1, <1>2 DEF IInv

\* A step that claims the rows of S.
LEMMA ClaimStep ==
  ASSUME IInv, CallsKept, NEW S \in SUBSET Exec, row' = cancelled(row, S),
         task' \in {"OPEN", "CANCELLED"},
         wf' \in [Run -> {"NONE", "ACTIVE", "ENDED", "CANCELLED"}],
         S = Exec \/ wf' = wf,
         poll' \in [Exec -> {"idle", "parents", "claim", "send", "sent"}],
         stopped' \subseteq Exec
  PROVE  IInv'
<1>1. row' \in [Exec -> RowRecord] BY Claimed DEF IInv
<1>2. TypeOK' BY <1>1 DEF IInv, TypeOK, CallsKept, conf, RowRecord
<1>3. ASSUME NEW b \in Exec PROVE CallInv(b)'
  <2>1. CASE b \in S BY <2>1, ClaimKeeps DEF IInv, CallsKept
  <2>2. CASE b \notin S
    <3>1. row'[b] = row[b] BY <2>2, Claimed DEF IInv
    <3> QED BY <2>2, <3>1, Frame DEF IInv, CallsKept
  <2> QED BY <2>1, <2>2
<1> QED BY <1>2, <1>3 DEF IInv

LEMMA Keeps_Poll ==
  ASSUME IInv, ExecutionAssumption, NEW a \in Exec, Poll(a)
  PROVE  IInv'
<1> USE DEF IInv
<1>1. CASE PollRow(a) \/ PollParents(a) \/ PollSend(a)
  BY <1>1, StopStep
 
 DEF PollRow, PollParents, PollSend, pollTo, stopRun, CallsKept, dbVars, callVars,
     stopVars, conf, TypeOK
<1>2. CASE PollClaim(a)
  <2>1. /\ CallsKept /\ row' = cancelled(row, {a})
        /\ task' \in {"OPEN", "CANCELLED"} /\ wf' = wf
        /\ wf' \in [Run -> {"NONE", "ACTIVE", "ENDED", "CANCELLED"}]
        /\ poll' \in [Exec -> {"idle", "parents", "claim", "send", "sent"}]
        /\ stopped' \subseteq Exec
    BY <1>2 DEF PollClaim, pollTo, CallsKept, dbVars, callVars, stopVars, conf, TypeOK
  <2>2. {a} \in SUBSET Exec OBVIOUS
  <2> HIDE DEF IInv
  <2> QED BY <2>1, <2>2, ClaimStep
<1> QED BY <1>1, <1>2 DEF Poll

LEMMA Keeps_CancelJob ==
  ASSUME IInv, ExecutionAssumption, NEW a \in Exec, CancelJob(a)
  PROVE  IInv'
<1> USE DEF IInv
<1> QED BY StopStep
  DEF CancelJob, stopRun, CallsKept, dbVars, callVars, stopVars, conf, TypeOK

LEMMA Keeps_Shutdown ==
  ASSUME IInv, ExecutionAssumption, NEW a \in Exec, Shutdown(a)
  PROVE  IInv'
<1> USE DEF IInv
<1> QED BY StopStep
  DEF Shutdown, stopRun, CallsKept, dbVars, callVars, stopVars, conf, TypeOK

LEMMA Keeps_CancelAgent ==
  ASSUME IInv, ExecutionAssumption, NEW a \in Exec, CancelAgent(a)
  PROVE  IInv'
<1> USE DEF IInv
<1>1. /\ CallsKept /\ row' = cancelled(row, {a})
      /\ task' \in {"OPEN", "CANCELLED"} /\ wf' = wf
      /\ wf' \in [Run -> {"NONE", "ACTIVE", "ENDED", "CANCELLED"}]
      /\ poll' \in [Exec -> {"idle", "parents", "claim", "send", "sent"}]
      /\ stopped' \subseteq Exec
  BY DEF CancelAgent, CallsKept, dbVars, callVars, stopVars, conf, TypeOK
<1>2. {a} \in SUBSET Exec OBVIOUS
<1> HIDE DEF IInv
<1> QED BY <1>1, <1>2, ClaimStep

LEMMA Keeps_cancelWithWorkflows ==
  ASSUME IInv, ExecutionAssumption, cancelWithWorkflows
  PROVE  IInv'
<1> USE DEF IInv
<1>1. wf' \in [Run -> {"NONE", "ACTIVE", "ENDED", "CANCELLED"}]
  BY DEF cancelWithWorkflows, TypeOK
<1> QED BY <1>1, ClaimStep
  DEF cancelWithWorkflows, CallsKept, dbVars, callVars, stopVars, conf, TypeOK

LEMMA Keeps_finishWorkflow ==
  ASSUME IInv, ExecutionAssumption, NEW r \in Run, finishWorkflow(r)
  PROVE  IInv'
<1> USE DEF IInv
<1>1. wf' \in [Run -> {"NONE", "ACTIVE", "ENDED", "CANCELLED"}]
  BY DEF finishWorkflow, TypeOK
<1> QED BY <1>1, ClaimStep
  DEF finishWorkflow, CallsKept, dbVars, callVars, stopVars, conf, TypeOK

LEMMA Keeps_StartWorkflow ==
  ASSUME IInv, ExecutionAssumption, NEW r \in Run, StartWorkflow(r)
  PROVE  IInv'
<1> USE DEF IInv
<1>1. TypeOK'
  BY DEF StartWorkflow, CallsKept, dbVars, callVars, stopVars, conf, TypeOK
<1>2. ASSUME NEW b \in Exec PROVE CallInv(b)'
  <2>1. of[b] # NoRun /\ wf[of[b]] # "CANCELLED" => wf'[of[b]] # "CANCELLED"
    BY DEF StartWorkflow, TypeOK
  <2> QED BY <2>1 DEF StartWorkflow, callVars, CallInv
<1> QED BY <1>1, <1>2

LEMMA Keeps_HumanTransition ==
  ASSUME IInv, ExecutionAssumption, HumanTransition
  PROVE  IInv'
<1> USE DEF IInv
<1>1. TypeOK'
  BY DEF HumanTransition, CallsKept, dbVars, callVars, stopVars, conf, TypeOK
<1>2. ASSUME NEW b \in Exec PROVE CallInv(b)'
  BY Frame DEF HumanTransition, callVars
<1> QED BY <1>1, <1>2

-----------------------------------------------------------------------------
LEMMA InitInv ==
  ASSUME ExecutionAssumption, Init
  PROVE  IInv
<1>1. TypeOK
  BY DEF Init, TypeOK, NoRow, NoMem, Final, ExecutionAssumption
<1>2. ASSUME NEW a \in Exec PROVE CallInv(a)
  BY DEF Init, CallInv, NoRow, beforeAnswer
<1> QED BY <1>1, <1>2 DEF IInv

LEMMA NextInv ==
  ASSUME ExecutionAssumption, IInv, [Next]_vars
  PROVE  IInv'
<1>1. ASSUME NEW a \in Exec, Execute(a) PROVE IInv'
  BY <1>1, Keeps_Begin, Keeps_budgetExceeded, Keeps_Refuse, Keeps_Create,
     Keeps_Throws, Keeps_PersistContext, Keeps_CheckRow, Keeps_CheckParents,
     Keeps_CheckClaim, Keeps_Prepare, Keeps_Invoke, Keeps_Answer, Keeps_Release,
     Keeps_Complete, Keeps_Reread, Keeps_RecordUsage, Keeps_Bill
  DEF Execute
<1>2. ASSUME NEW a \in Exec,
             Dies(a) \/ Poll(a) \/ CancelJob(a) \/ Shutdown(a) \/ CancelAgent(a)
      PROVE  IInv'
  BY <1>2, Keeps_Dies, Keeps_Poll, Keeps_CancelJob, Keeps_Shutdown, Keeps_CancelAgent
<1>3. ASSUME NEW r \in Run, StartWorkflow(r) \/ finishWorkflow(r) PROVE IInv'
  BY <1>3, Keeps_StartWorkflow, Keeps_finishWorkflow
<1>4. CASE cancelWithWorkflows \/ HumanTransition
  BY <1>4, Keeps_cancelWithWorkflows, Keeps_HumanTransition
<1>5. CASE UNCHANGED vars
  <2>1. TypeOK' BY <1>5 DEF IInv, TypeOK, vars, dbVars, conf, callVars, stopVars
  <2>2. ASSUME NEW b \in Exec PROVE CallInv(b)'
    BY <1>5, Frame DEF IInv, vars, dbVars, callVars
  <2> QED BY <2>1, <2>2 DEF IInv
<1> QED BY <1>1, <1>2, <1>3, <1>4, <1>5 DEF Next

(***************************************************************************)
(* The inductive invariant holds in every reachable state of the executor  *)
(* and the writers around it.                                              *)
(***************************************************************************)
THEOREM Invariance == Spec => []IInv
<1>1. Init => IInv BY InitInv, ExecutionAssumption
<1>2. IInv /\ [Next]_vars => IInv' BY NextInv, ExecutionAssumption
<1> QED BY <1>1, <1>2, PTL DEF Spec

(***************************************************************************)
(* The variables of the executor, the poll and the rows keep their types.  *)
(***************************************************************************)
THEOREM TypeCorrect == Spec => []TypeOK
<1>1. IInv => TypeOK BY DEF IInv
<1> QED BY <1>1, Invariance, PTL

(***************************************************************************)
(* No agent is RUNNING under a cancelled workflow run, in every order of   *)
(* creations, completions, polls and cancellations: creation and every     *)
(* cancellation of a run exclude each other under the lock of the task.    *)
(***************************************************************************)
THEOREM NoLiveChild == Spec => []NoLiveChildOfCancelledRun
<1>1. IInv => NoLiveChildOfCancelledRun
  BY DEF IInv, CallInv, NoLiveChildOfCancelledRun
<1> QED BY <1>1, Invariance, PTL

(***************************************************************************)
(* The status that execute() returns to its step is the status of the row, *)
(* whoever wrote the row last.                                             *)
(***************************************************************************)
THEOREM OutcomeCorrect == Spec => []OutcomeMatchesRow
<1>1. IInv => OutcomeMatchesRow
  BY DEF IInv, CallInv, OutcomeMatchesRow
<1> QED BY <1>1, Invariance, PTL

(***************************************************************************)
(* What a step does to the rows: at most one of the four things below, to  *)
(* each row.                                                               *)
(***************************************************************************)
RowChange(a) ==
  \/ row'[a] = row[a]
  \/ row[a].status = "RUNNING" /\ row'[a] = [row[a] EXCEPT !.status = "CANCELLED"]
  \/ /\ row[a] = NoRow /\ pc[a] \in {"refuse", "create"}
     /\ row'[a].status \in {"RUNNING", "BUDGET_EXCEEDED", "CANCELLED"}
     /\ parentCancelled(a) => row'[a] = [NoRow EXCEPT !.status = "CANCELLED"]
  \/ row[a].status = "RUNNING" /\ ~parentCancelled(a)

LEMMA ClaimChange ==
  ASSUME TypeOK, NEW S \in SUBSET Exec, row' = cancelled(row, S), NEW b \in Exec
  PROVE  RowChange(b)
<1>1. CASE b \in S /\ row[b].status = "RUNNING" BY <1>1, Claimed DEF RowChange
<1>2. CASE ~(b \in S /\ row[b].status = "RUNNING") BY <1>2, Claimed DEF RowChange
<1> QED BY <1>1, <1>2

LEMMA RowStep ==
  ASSUME IInv, [Next]_vars, NEW b \in Exec
  PROVE  RowChange(b)
<1> USE DEF IInv
<1>1. ASSUME NEW a \in Exec, Execute(a) PROVE RowChange(b)
  <2>1. CASE row' = row BY <2>1 DEF RowChange
  <2>2. CASE CheckClaim(a) BY <2>2, ClaimChange DEF CheckClaim
  <2>3. CASE Refuse(a)
    <3>1. CASE a = b BY <2>3, <3>1, Types
  DEF Refuse, RowChange, CallInv, RowRecord, NoRow
    <3>2. CASE a # b BY <2>3, <3>2, Types DEF Refuse, RowChange
    <3> QED BY <3>1, <3>2
  <2>4. CASE Create(a)
    <3>1. CASE a = b BY <2>4, <3>1, Types
  DEF Create, RowChange, CallInv, RowRecord, NoRow
    <3>2. CASE a # b BY <2>4, <3>2, Types DEF Create, RowChange
    <3> QED BY <3>1, <3>2
  <2>5. CASE Complete(a)
    <3>1. CASE parentCancelled(a) BY <2>5, <3>1, ClaimChange DEF Complete
    <3>2. CASE ~parentCancelled(a) /\ row[a].status # "RUNNING"
      BY <2>5, <3>2 DEF Complete, RowChange
    <3>3. CASE ~parentCancelled(a) /\ row[a].status = "RUNNING"
      <4>1. CASE a = b BY <3>3, <4>1 DEF RowChange
      <4>2. CASE a # b BY <2>5, <3>3, <4>2, Types DEF Complete, RowChange
      <4> QED BY <4>1, <4>2
    <3> QED BY <3>1, <3>2, <3>3
  <2>6. \/ row' = row \/ CheckClaim(a) \/ Refuse(a) \/ Create(a) \/ Complete(a)
    BY <1>1 DEF Execute, Begin, budgetExceeded, Throws, PersistContext, CheckRow,
                CheckParents, Prepare, Invoke, Answer, Release, Reread, RecordUsage, Bill,
                dbVars
  <2> QED BY <2>1, <2>2, <2>3, <2>4, <2>5, <2>6
<1>2. ASSUME NEW a \in Exec,
             Dies(a) \/ Poll(a) \/ CancelJob(a) \/ Shutdown(a) \/ CancelAgent(a)
      PROVE  RowChange(b)
  <2>1. row' = row \/ row' = cancelled(row, {a})
    BY <1>2
    DEF Dies, Poll, PollRow, PollParents, PollClaim, PollSend, CancelJob, Shutdown,
                CancelAgent, dbVars
  <2>2. CASE row' = row BY <2>2 DEF RowChange
  <2>3. CASE row' = cancelled(row, {a}) BY <2>3, ClaimChange
  <2> QED BY <2>1, <2>2, <2>3
<1>3. CASE \/ cancelWithWorkflows \/ HumanTransition \/ UNCHANGED vars
           \/ \E r \in Run : StartWorkflow(r) \/ finishWorkflow(r)
  <2>1. row' = row \/ row' = cancelled(row, Exec)
    BY <1>3
    DEF cancelWithWorkflows, HumanTransition, StartWorkflow, finishWorkflow, vars,
                dbVars
  <2>2. CASE row' = row BY <2>2 DEF RowChange
  <2>3. CASE row' = cancelled(row, Exec) BY <2>3, ClaimChange
  <2> QED BY <2>1, <2>2, <2>3
<1> QED BY <1>1, <1>2, <1>3 DEF Next

(***************************************************************************)
(* No step changes the row of an agent run that has ended: neither a late  *)
(* answer, nor a late cancellation, nor a tick of the poll in flight.      *)
(***************************************************************************)
THEOREM EndedIsFinal == Spec => EndedAgentsAreFinal
<1>1. ASSUME IInv, [Next]_vars, NEW a \in Exec, row[a].status \in Final
      PROVE  row'[a] = row[a]
  <2>1. row[a].status # "RUNNING" /\ row[a].status # "NONE" BY <1>1 DEF Final
  <2>2. row[a] # NoRow BY <2>1 DEF NoRow
  <2>3. RowChange(a) BY <1>1, RowStep
  <2> QED BY <2>1, <2>2, <2>3 DEF RowChange
<1>2. IInv /\ [Next]_vars =>
        [\A a \in Exec : row[a].status \in Final => row'[a] = row[a]]_vars
  BY <1>1
<1> QED BY <1>2, Invariance, PTL DEF Spec, EndedAgentsAreFinal

(***************************************************************************)
(* Once the task or the workflow run is CANCELLED, its agent runs change   *)
(* in one way: they become CANCELLED, without output or cost.              *)
(***************************************************************************)
THEOREM StoppedIsStopped == Spec => StoppedStaysStopped
<1> DEFINE Stays ==
     \A a \in Exec : parentCancelled(a) /\ pc[a] # "none" /\ row'[a] # row[a] =>
       /\ row'[a].status = "CANCELLED"
       /\ ~row'[a].output /\ row'[a].cost = 0
<1>1. ASSUME IInv, [Next]_vars, NEW a \in Exec, parentCancelled(a), row'[a] # row[a]
      PROVE  row'[a].status = "CANCELLED" /\ ~row'[a].output /\ row'[a].cost = 0
  <2>1. \/ row[a].status = "RUNNING" /\ row'[a] = [row[a] EXCEPT !.status = "CANCELLED"]
        \/ row'[a] = [NoRow EXCEPT !.status = "CANCELLED"]
    BY <1>1, RowStep DEF RowChange
  <2>2. CASE row[a].status = "RUNNING" /\ row'[a] = [row[a] EXCEPT !.status = "CANCELLED"]
    <3>1. row[a] \in RowRecord /\ ~row[a].output /\ row[a].cost = 0
      BY <1>1, <2>2, Types DEF IInv, CallInv
    <3> QED BY <2>2, <3>1 DEF RowRecord
  <2>3. CASE row'[a] = [NoRow EXCEPT !.status = "CANCELLED"] BY <2>3 DEF NoRow
  <2> QED BY <2>1, <2>2, <2>3
<1>2. IInv /\ [Next]_vars => [Stays]_vars BY <1>1
<1> QED BY <1>2, Invariance, PTL DEF Spec, StoppedStaysStopped

(***************************************************************************)
(* Rows stand: ended they do not change, and stopped they gain nothing.    *)
(***************************************************************************)
THEOREM RowsAreKept == Spec => RowsStand
BY EndedIsFinal, StoppedIsStopped DEF RowsStand
-----------------------------------------------------------------------------
(***************************************************************************)
(* Spending. A call that has passed the gate and has not ended may yet add *)
(* MaxCost. Their number is bounded by the slots, and a call passes only   *)
(* while the recorded cost is below the budget: so the cost recorded and   *)
(* the cost to come together stay below the budget and one MaxCost a slot. *)
(***************************************************************************)
past == {a \in Exec : pc[a] \notin {"none", "gate", "refuse", "done", "thrown"}}

SpendInv ==
  /\ \A a \in Exec : mem[a].cost <= MaxCost
  /\ IsFiniteSet(busy) /\ Cardinality(busy) <= Slots
  /\ budget > 0 => actualCost + MaxCost * Cardinality(past) < budget + Slots * MaxCost

LEMMA PastIsBusy == past \subseteq busy
BY DEF past, busy

\* The cost of an answer is one of Costs; everybody else keeps the memory or
\* forgets it.
LEMMA LeavingCost ==
  ASSUME TypeOK, ExecutionAssumption, NEW a \in Exec, \A b \in Exec : mem[b].cost <= MaxCost,
         \/ fails(a)
         \/ \E s \in Final, o \in BOOLEAN, c \in Costs : answers(a, s, o, c)
  PROVE  \A b \in Exec : mem'[b].cost <= MaxCost
<1>1. mem \in [Exec -> MemRecord] BY DEF TypeOK, MemRecord
<1>2. CASE fails(a)
  BY <1>1, <1>2 DEF fails, leaves, NoMem, ExecutionAssumption
<1>3. CASE \E s \in Final, o \in BOOLEAN, c \in Costs : answers(a, s, o, c)
  BY <1>1, <1>3 DEF answers, leaves, ExecutionAssumption
<1> QED BY <1>2, <1>3

\* A step is a call that begins, one that passes the gate or is refused by it,
\* one that bills, or it neither adds to the calls nor to the cost.
Quiet == actualCost' = actualCost /\ past' \subseteq past /\ busy' \subseteq busy

LEMMA CostStep ==
  ASSUME IInv, ExecutionAssumption, [Next]_vars, \A b \in Exec : mem[b].cost <= MaxCost
  PROVE  /\ budget' = budget /\ \A b \in Exec : mem'[b].cost <= MaxCost
         /\ \/ \E a \in Exec : Begin(a) \/ budgetExceeded(a) \/ Bill(a)
            \/ Quiet
<1> USE DEF IInv
<1>m. mem \in [Exec -> MemRecord] /\ pc \in [Exec -> Place] BY Types
<1>n. NoMem.cost <= MaxCost BY DEF NoMem, ExecutionAssumption
<1>1. ASSUME NEW a \in Exec, Begin(a) \/ budgetExceeded(a)
      PROVE  budget' = budget /\ \A b \in Exec : mem'[b].cost <= MaxCost
  BY <1>1, <1>m DEF Begin, budgetExceeded, conf, MemRecord
<1>2. ASSUME NEW a \in Exec,
             Refuse(a) \/ Create(a) \/ Reread(a) \/ RecordUsage(a) \/ Bill(a) \/ Dies(a)
      PROVE  budget' = budget /\ \A b \in Exec : mem'[b].cost <= MaxCost
  BY <1>2, <1>m, <1>n
  DEF Refuse, Create, Reread, RecordUsage, Bill, Dies, returns, over, continues, conf
<1>3. ASSUME NEW a \in Exec,
             Refuse(a) \/ Create(a) \/ Reread(a) \/ RecordUsage(a) \/ Dies(a)
      PROVE  Quiet
  BY <1>3, <1>m
  DEF Refuse, Create, Reread, RecordUsage, Dies, returns, over, continues, goto, dbVars,
      Quiet, past, busy
<1>4. ASSUME NEW a \in Exec,
             Throws(a) \/ PersistContext(a) \/ CheckRow(a) \/ CheckClaim(a) \/ Invoke(a)
               \/ Answer(a)
      PROVE  budget' = budget /\ Quiet /\ \A b \in Exec : mem'[b].cost <= MaxCost
  <2>1. \/ fails(a)
        \/ \E s \in Final, o \in BOOLEAN, c \in Costs : answers(a, s, o, c)
        \/ mem' = mem
    BY <1>4 DEF Throws, PersistContext, CheckRow, CheckClaim, Invoke, Answer, Final
  <2>2. \A b \in Exec : mem'[b].cost <= MaxCost BY <2>1, LeavingCost
  <2>3. budget' = budget /\ actualCost' = actualCost
    BY <1>4
    DEF Throws, PersistContext, CheckRow, CheckClaim, Invoke, Answer, dbVars, conf
  <2>4. pc[a] \in beforeAnswer
    BY <1>4
    DEF Throws, PersistContext, CheckRow, CheckClaim, Invoke, Answer, beforeAnswer
  <2>5. \E place \in {"release", "check", "checkParents", "running"} : goto(a, place)
    BY <1>4 DEF Throws, PersistContext, CheckRow, CheckClaim, Invoke, Answer, fails,
                answers, leaves
  <2>6. past' \subseteq past /\ busy' \subseteq busy
    BY <2>4, <2>5, <1>m DEF goto, past, busy, beforeAnswer
  <2> QED BY <2>2, <2>3, <2>6 DEF Quiet
<1>5. ASSUME NEW a \in Exec,
             CheckParents(a) \/ Prepare(a) \/ Release(a) \/ Complete(a)
      PROVE  budget' = budget /\ Quiet /\ \A b \in Exec : mem'[b].cost <= MaxCost
  BY <1>5, <1>m, <1>n
  DEF CheckParents, Prepare, Release, Complete, goto, dbVars, conf, Quiet, past, busy
<1>6. ASSUME UNCHANGED <<budget, mem, pc, actualCost>>
      PROVE  budget' = budget /\ Quiet /\ \A b \in Exec : mem'[b].cost <= MaxCost
  BY <1>6 DEF Quiet, past, busy
<1>7. ASSUME NEW a \in Exec, Poll(a) \/ CancelJob(a) \/ Shutdown(a) \/ CancelAgent(a)
      PROVE  UNCHANGED <<budget, mem, pc, actualCost>>
  BY <1>7 DEF Poll, PollRow, PollParents, PollClaim, PollSend, CancelJob, Shutdown,
              CancelAgent, dbVars, conf, callVars
<1>8. ASSUME \/ cancelWithWorkflows \/ HumanTransition \/ UNCHANGED vars
             \/ \E r \in Run : StartWorkflow(r) \/ finishWorkflow(r)
      PROVE  UNCHANGED <<budget, mem, pc, actualCost>>
  BY <1>8 DEF cancelWithWorkflows, HumanTransition, StartWorkflow, finishWorkflow, vars,
              dbVars, conf, callVars
<1> QED
  BY <1>1, <1>2, <1>3, <1>4, <1>5, <1>6, <1>7, <1>8 DEF Next, Execute

LEMMA BudgetBound ==
  ASSUME TypeOK, NEW a \in Exec, budget > 0, ~exceeded(actualCost, limitOf(a))
  PROVE  actualCost < budget
BY DEF TypeOK, limitOf, snapshotted, smaller, exceeded

\* Arithmetic: one call fewer to come pays for its cost.
LEMMA OneLess ==
  ASSUME NEW n \in Nat, n > 0, NEW m \in Nat, NEW c \in Nat, c <= m, NEW x \in Nat
  PROVE  x + c + m * (n - 1) <= x + m * n
<1>1. m * (n - 1) = m * n - m OBVIOUS
<1>2. m * n \in Nat OBVIOUS
<1> QED BY <1>1, <1>2

LEMMA Scaled ==
  ASSUME NEW m \in Nat, NEW i \in Nat, NEW j \in Nat, i <= j
  PROVE  m * i \in Nat /\ m * j \in Nat /\ m * i <= m * j
OBVIOUS

LEMMA SpendStep ==
  ASSUME IInv, SpendInv, ExecutionAssumption, [Next]_vars
  PROVE  SpendInv'
<1>t. /\ actualCost \in Nat /\ budget \in Nat /\ Slots \in Nat /\ MaxCost \in Nat
      /\ pc \in [Exec -> Place] /\ mem \in [Exec -> MemRecord]
  BY Types DEF IInv, TypeOK, ExecutionAssumption
<1>c. budget' = budget /\ \A b \in Exec : mem'[b].cost <= MaxCost
  BY CostStep DEF SpendInv
<1>f. /\ IsFiniteSet(past) /\ Cardinality(past) \in Nat /\ Cardinality(busy) \in Nat
      /\ Cardinality(past) <= Cardinality(busy)
  BY PastIsBusy, FS_Subset, FS_CardinalityType DEF SpendInv
<1>1. CASE Quiet
  <2>1. IsFiniteSet(busy') /\ Cardinality(busy') <= Slots /\ Cardinality(busy') \in Nat
    BY <1>1, <1>f, <1>t, FS_Subset, FS_CardinalityType DEF Quiet, SpendInv
  <2>2. Cardinality(past') \in Nat /\ Cardinality(past') <= Cardinality(past)
    BY <1>1, <1>f, FS_Subset, FS_CardinalityType DEF Quiet
  <2>3. /\ MaxCost * Cardinality(past') <= MaxCost * Cardinality(past)
        /\ MaxCost * Cardinality(past') \in Nat /\ MaxCost * Cardinality(past) \in Nat
        /\ Slots * MaxCost \in Nat
    BY <2>2, <1>f, <1>t, Scaled
  <2>4. budget > 0 =>
          actualCost + MaxCost * Cardinality(past') < budget + Slots * MaxCost
    BY <2>3, <1>t DEF SpendInv
  <2> QED BY <2>1, <2>4, <1>1, <1>c DEF SpendInv, Quiet
<1>2. ASSUME NEW a \in Exec, Begin(a) PROVE SpendInv'
  <2>1. busy' = busy \cup {a} /\ past' = past /\ actualCost' = actualCost
    BY <1>2, <1>t DEF Begin, goto, busy, past, dbVars
  <2>2. Cardinality(busy) < Slots BY <1>2 DEF Begin
  <2>3. IsFiniteSet(busy') /\ Cardinality(busy') <= Slots
    <3>1. IsFiniteSet(busy) BY DEF SpendInv
    <3>2. /\ IsFiniteSet(busy \cup {a})
          /\ Cardinality(busy \cup {a}) =
               IF a \in busy THEN Cardinality(busy) ELSE Cardinality(busy) + 1
      BY <3>1, FS_AddElement, Zenon
    <3> QED BY <2>1, <2>2, <3>2, <1>f, <1>t
  <2> QED BY <2>1, <2>3, <1>c DEF SpendInv
<1>3. ASSUME NEW a \in Exec, budgetExceeded(a) PROVE SpendInv'
  <2>1. busy' = busy /\ actualCost' = actualCost
    BY <1>3, <1>t DEF budgetExceeded, goto, busy, dbVars
  <2>2. CASE exceeded(actualCost, limitOf(a))
    <3>1. past' = past BY <1>3, <2>2, <1>t DEF budgetExceeded, goto, past
    <3> QED BY <2>1, <3>1, <1>c DEF SpendInv
  <2>3. CASE ~exceeded(actualCost, limitOf(a))
    <3>1. past' \subseteq busy
      BY <2>1, PastIsBusy DEF past, busy
    <3>2. Cardinality(past') \in Nat /\ Cardinality(past') <= Slots
      BY <3>1, <1>f, <1>t, FS_Subset, FS_CardinalityType DEF SpendInv
    <3>3. /\ MaxCost * Cardinality(past') <= MaxCost * Slots
          /\ MaxCost * Cardinality(past') \in Nat /\ MaxCost * Slots \in Nat
      BY <3>2, <1>t, Scaled
    <3>4. MaxCost * Slots = Slots * MaxCost BY <1>t
    <3>5. budget > 0 => actualCost < budget BY <2>3, BudgetBound DEF IInv
    <3>6. budget > 0 =>
            actualCost + MaxCost * Cardinality(past') < budget + Slots * MaxCost
      BY <3>3, <3>4, <3>5, <1>t
    <3> QED BY <2>1, <3>6, <1>c DEF SpendInv
  <2> QED BY <2>2, <2>3
<1>4. ASSUME NEW a \in Exec, Bill(a) PROVE SpendInv'
  <2>1. past' = past \ {a} /\ busy' = busy \ {a} /\ a \in past
    BY <1>4, <1>t DEF Bill, returns, over, goto, past, busy
  <2>2. actualCost' = actualCost + mem[a].cost BY <1>4 DEF Bill
  <2>3. /\ IsFiniteSet(busy') /\ Cardinality(busy') <= Slots
        /\ Cardinality(past') = Cardinality(past) - 1 /\ Cardinality(past) > 0
    <3>1. Cardinality(past') = Cardinality(past) - 1
      BY <2>1, <1>f, FS_RemoveElement
    <3>2. Cardinality(past) > 0 BY <2>1, <1>f, FS_EmptySet
    <3>3. IsFiniteSet(busy') /\ Cardinality(busy') <= Cardinality(busy)
          /\ Cardinality(busy') \in Nat
      BY <2>1, <1>f, FS_Subset, FS_CardinalityType DEF SpendInv
    <3> QED BY <3>1, <3>2, <3>3, <1>f, <1>t DEF SpendInv
  <2>4. mem[a].cost \in Nat /\ mem[a].cost <= MaxCost
    BY <1>t DEF SpendInv, MemRecord
  <2>5. actualCost + mem[a].cost + MaxCost * (Cardinality(past) - 1)
          <= actualCost + MaxCost * Cardinality(past)
    BY <2>3, <2>4, <1>f, <1>t, OneLess
  <2>6. /\ MaxCost * Cardinality(past) \in Nat /\ Slots * MaxCost \in Nat
        /\ MaxCost * (Cardinality(past) - 1) \in Nat
    BY <2>3, <1>f, <1>t
  <2>7. budget > 0 =>
          actualCost' + MaxCost * Cardinality(past') < budget + Slots * MaxCost
    BY <2>2, <2>3, <2>4, <2>5, <2>6, <1>t DEF SpendInv
  <2> QED BY <2>3, <2>7, <1>c DEF SpendInv
<1> QED BY <1>1, <1>2, <1>3, <1>4, CostStep DEF SpendInv

(***************************************************************************)
(* The recorded cost passes the budget by less than MaxCost for each call  *)
(* that may run at once, for every budget, frozen or not, and any number   *)
(* of calls: the gate bounds what it cannot prevent.                       *)
(***************************************************************************)
THEOREM OverspendBounded == Spec => []OverspendIsBounded
<1>1. Init => SpendInv
  <2> SUFFICES ASSUME Init PROVE SpendInv OBVIOUS
  <2>1. busy = {} /\ past = {} BY DEF Init, busy, past
  <2>2. budget \in Nat /\ Slots \in Nat /\ MaxCost \in Nat /\ Slots * MaxCost \in Nat
    BY ExecutionAssumption DEF Init, ExecutionAssumption
  <2>3. MaxCost * 0 = 0 BY <2>2
  <2>4. \A a \in Exec : mem[a].cost <= MaxCost BY <2>2 DEF Init, NoMem
  <2> QED BY <2>1, <2>2, <2>3, <2>4, FS_EmptySet DEF Init, SpendInv
<1>2. IInv /\ SpendInv /\ [Next]_vars => SpendInv' BY SpendStep, ExecutionAssumption
<1>3. IInv /\ SpendInv => OverspendIsBounded
  <2> SUFFICES ASSUME IInv, SpendInv, budget > 0
               PROVE  actualCost < budget + Slots * MaxCost
    BY DEF OverspendIsBounded
  <2>1. Cardinality(past) \in Nat
    BY PastIsBusy, FS_Subset, FS_CardinalityType DEF SpendInv
  <2>2. /\ MaxCost \in Nat /\ Slots \in Nat /\ MaxCost * Cardinality(past) \in Nat
        /\ Slots * MaxCost \in Nat /\ actualCost \in Nat /\ budget \in Nat
    BY <2>1, ExecutionAssumption DEF IInv, TypeOK, ExecutionAssumption
  <2> QED BY <2>2 DEF SpendInv
<1> QED BY <1>1, <1>2, <1>3, Invariance, PTL DEF Spec

-----------------------------------------------------------------------------
(***************************************************************************)
(* AgentExecution implements AgentLedger. Besides the inductive invariant  *)
(* the proof needs two facts: a caller that has not returned was told      *)
(* nothing, and what a call is about to bill is the cost on its row.       *)
(***************************************************************************)
owes == {"usage", "bill"}

LedgerInv ==
  \A a \in Exec : /\ pc[a] # "done" => outcome[a] = "NONE"
                  /\ pc[a] \in owes => row[a].cost = mem[a].cost

\* The abstract variables.
status == [a \in Exec |-> row[a].status]
cost   == [a \in Exec |-> row[a].cost]
due    == {a \in Exec : pc[a] \in owes}

LEMMA Mapping ==
  /\ Ledger!ledger = <<task = "CANCELLED", status, cost, due, actualCost, outcome>>
  /\ Ledger!Final = Final
BY DEF Ledger!ledger, Ledger!Final, Final, status, cost, due, owes

-----------------------------------------------------------------------------
(***************************************************************************)
(* The extra invariant is kept.                                            *)
(***************************************************************************)
LEMMA LedgerInit ==
  ASSUME Init
  PROVE  LedgerInv
BY DEF Init, LedgerInv, owes

\* One call moves; the others keep row, place, memory and outcome.
LEMMA LedgerFrame ==
  ASSUME LedgerInv, NEW a \in Exec, OthersKept(a),
         pc'[a] # "done" => outcome'[a] = "NONE",
         pc'[a] \in owes => row'[a].cost = mem'[a].cost
  PROVE  LedgerInv'
<1> SUFFICES ASSUME NEW b \in Exec
             PROVE  /\ pc'[b] # "done" => outcome'[b] = "NONE"
                    /\ pc'[b] \in owes => row'[b].cost = mem'[b].cost
  BY DEF LedgerInv, owes
<1>1. CASE b = a BY <1>1
<1>2. CASE b # a BY <1>2 DEF LedgerInv, OthersKept
<1> QED BY <1>1, <1>2

\* A step that moves no call, and at most cancels rows.
LEMMA LedgerClaim ==
  ASSUME TypeOK, LedgerInv, UNCHANGED <<pc, mem, outcome>>,
         NEW S \in SUBSET Exec, row' = row \/ row' = cancelled(row, S)
  PROVE  LedgerInv'
<1>1. ASSUME NEW b \in Exec PROVE row'[b].cost = row[b].cost
  <2>1. CASE row' = row BY <2>1
  <2>2. CASE row' = cancelled(row, S)
    <3>1. row[b] \in RowRecord BY Types
    <3>2. CASE b \in S /\ row[b].status = "RUNNING"
      <4>1. row'[b] = [row[b] EXCEPT !.status = "CANCELLED"] BY <2>2, <3>2, Claimed
      <4> QED BY <3>1, <4>1 DEF RowRecord
    <3>3. CASE ~(b \in S /\ row[b].status = "RUNNING") BY <2>2, <3>3, Claimed
    <3> QED BY <3>2, <3>3
  <2> QED BY <2>1, <2>2
<1> QED BY <1>1 DEF LedgerInv, owes

\* A call that returns has paid and is told; one that dies owes nothing.
LEMMA LedgerReturn ==
  ASSUME TypeOK, LedgerInv, NEW a \in Exec, NEW s \in Final, returns(a, s), UNCHANGED of,
         \A b \in Exec \ {a} : row'[b] = row[b]
  PROVE  LedgerInv'
<1>1. OthersKept(a) /\ pc'[a] = "done" BY Returning, Types DEF OthersKept
<1> QED BY <1>1, LedgerFrame DEF owes

LEMMA LedgerLeave ==
  ASSUME TypeOK, ExecutionAssumption, LedgerInv, NEW a \in Exec, UNCHANGED <<of, outcome>>,
         \/ fails(a)
         \/ \E s \in Final, o \in BOOLEAN, c \in Costs : answers(a, s, o, c),
         \A b \in Exec \ {a} : row'[b] = row[b],
         pc[a] # "done"
  PROVE  LedgerInv'
<1>1. OthersKept(a) /\ pc'[a] = "release" BY Leaving, Types DEF OthersKept
<1> QED BY <1>1, LedgerFrame DEF LedgerInv, owes

\* A call that goes on to a place where nothing is owed.
LEMMA LedgerGoesOn ==
  ASSUME TypeOK, LedgerInv, NEW a \in Exec, NEW place, goto(a, place),
         place \notin owes \cup {"done"}, pc[a] # "done", UNCHANGED outcome,
         \A b \in Exec \ {a} : row'[b] = row[b] /\ mem'[b] = mem[b] /\ of'[b] = of[b]
  PROVE  LedgerInv'
<1>1. OthersKept(a) /\ pc'[a] = place BY Types DEF goto, OthersKept
<1> QED BY <1>1, LedgerFrame DEF LedgerInv, owes

LEMMA LedgerExecute ==
  ASSUME IInv, ExecutionAssumption, LedgerInv, NEW a \in Exec, Execute(a)
  PROVE  LedgerInv'
<1> USE Types DEF IInv
<1>1. CASE Begin(a)
  BY <1>1, LedgerGoesOn DEF Begin, dbVars, owes
<1>2. CASE budgetExceeded(a)
  <2>1. \E place \in {"refuse", "create"} : goto(a, place)
    BY <1>2 DEF budgetExceeded
  <2>2. /\ UNCHANGED <<row, of, outcome>> /\ pc[a] = "gate"
        /\ \A b \in Exec \ {a} : mem'[b] = mem[b]
    BY <1>2 DEF budgetExceeded, dbVars
  <2> QED BY <2>1, <2>2, LedgerGoesOn DEF owes
<1>3. CASE Refuse(a)
  <2>1. PICK s \in Final : returns(a, s) /\ row' = [row EXCEPT ![a].status = s]
    BY <1>3 DEF Refuse, Final
  <2>2. \A b \in Exec \ {a} : row'[b] = row[b] BY <2>1
  <2> QED BY <1>3, <2>1, <2>2, LedgerReturn DEF Refuse
<1>4. CASE Create(a)
  <2>1. of' = of /\ pc[a] = "create" /\ \A b \in Exec \ {a} : row'[b] = row[b]
    BY <1>4 DEF Create
  <2>2. CASE returns(a, "CANCELLED") BY <2>1, <2>2, LedgerReturn DEF Final
  <2>3. CASE continues(a, "persist")
    BY <2>1, <2>3, LedgerGoesOn DEF continues, owes
  <2> QED BY <1>4, <2>2, <2>3 DEF Create
<1>5. CASE Throws(a)
  BY <1>5, LedgerLeave DEF Throws, dbVars, beforeAnswer
<1>6. CASE PersistContext(a)
  <2>1. UNCHANGED <<row, of, outcome>> /\ pc[a] = "persist"
    BY <1>6 DEF PersistContext, dbVars
  <2>2. fails(a) \/ (goto(a, "check") /\ UNCHANGED mem) BY <1>6 DEF PersistContext
  <2> QED BY <2>1, <2>2, LedgerLeave, LedgerGoesOn DEF owes
<1>7. CASE CheckRow(a)
  <2>1. UNCHANGED <<row, of, outcome>> /\ pc[a] = "check" BY <1>7 DEF CheckRow, dbVars
  <2>2. fails(a) \/ (goto(a, "checkParents") /\ UNCHANGED mem) BY <1>7 DEF CheckRow
  <2> QED BY <2>1, <2>2, LedgerLeave, LedgerGoesOn DEF owes
<1>8. CASE CheckParents(a)
  <2>1. /\ UNCHANGED <<row, of, outcome, mem>> /\ pc[a] = "checkParents"
        /\ \E place \in {"checkClaim", "prepare"} : goto(a, place)
    BY <1>8 DEF CheckParents, dbVars
  <2> QED BY <2>1, LedgerGoesOn DEF owes
<1>9. CASE CheckClaim(a)
  <2>1. \A b \in Exec \ {a} : row'[b] = row[b] BY <1>9, Claimed DEF CheckClaim
  <2> QED BY <1>9, <2>1, LedgerLeave DEF CheckClaim
<1>10. CASE Prepare(a)
  BY <1>10, LedgerGoesOn DEF Prepare, dbVars, owes
<1>11. CASE Invoke(a)
  <2>1. UNCHANGED <<row, of, outcome>> /\ pc[a] = "start" BY <1>11 DEF Invoke, dbVars
  <2>2. \/ \E s \in Final, o \in BOOLEAN, c \in Costs : answers(a, s, o, c)
        \/ goto(a, "running") /\ UNCHANGED mem
    BY <1>11 DEF Invoke, Final
  <2> QED BY <2>1, <2>2, LedgerLeave, LedgerGoesOn DEF owes
<1>12. CASE Answer(a)
  <2>1. UNCHANGED <<row, of, outcome>> /\ pc[a] = "running" BY <1>12 DEF Answer, dbVars
  <2>2. \/ fails(a)
        \/ \E s \in Final, o \in BOOLEAN, c \in Costs : answers(a, s, o, c)
    BY <1>12 DEF Answer, Final
  <2> QED BY <2>1, <2>2, LedgerLeave
<1>13. CASE Release(a)
  <2>1. /\ UNCHANGED <<row, of, outcome>> /\ pc[a] = "release" /\ goto(a, "complete")
        /\ \A b \in Exec \ {a} : mem'[b] = mem[b]
    BY <1>13 DEF Release, dbVars
  <2> QED BY <2>1, LedgerGoesOn DEF owes
<1>14. CASE Complete(a)
  <2>1. UNCHANGED <<of, mem, outcome>> /\ pc[a] = "complete" BY <1>14 DEF Complete
  <2>2. CASE goto(a, "reread") /\ (row' = row \/ row' = cancelled(row, {a}))
    <3>1. \A b \in Exec \ {a} : row'[b] = row[b] BY <2>2, Claimed
    <3> QED BY <2>1, <2>2, <3>1, LedgerGoesOn DEF owes
  <2>3. CASE goto(a, "usage") /\ row' = [row EXCEPT ![a] = result(a)]
    <3>1. OthersKept(a) /\ pc'[a] = "usage" /\ outcome'[a] = "NONE"
      BY <2>1, <2>3 DEF OthersKept, goto, LedgerInv
    <3>2. row'[a].cost = mem'[a].cost BY <2>1, <2>3 DEF result
    <3> QED BY <3>1, <3>2, LedgerFrame
  <2> QED BY <1>14, <2>2, <2>3 DEF Complete
<1>15. CASE Reread(a)
  <2>1. row[a].status \in Final BY <1>15 DEF Reread, CallInv
  <2> QED BY <1>15, <2>1, LedgerReturn DEF Reread, dbVars
<1>16. CASE RecordUsage(a)
  <2>1. UNCHANGED <<row, of>> /\ pc[a] = "usage" BY <1>16 DEF RecordUsage
  <2>2. CASE continues(a, "bill")
    <3>1. OthersKept(a) /\ pc'[a] = "bill" /\ UNCHANGED <<row, mem, outcome>>
      BY <2>1, <2>2 DEF OthersKept, continues, goto
    <3> QED BY <2>1, <3>1, LedgerFrame DEF LedgerInv, owes
  <2>3. CASE returns(a, mem[a].status)
    <3>1. mem[a].status \in Final BY DEF MemRecord
    <3> QED BY <2>1, <2>3, <3>1, LedgerReturn
  <2> QED BY <1>16, <2>2, <2>3 DEF RecordUsage
<1>17. CASE Bill(a)
  <2>1. mem[a].status \in Final BY DEF MemRecord
  <2> QED BY <1>17, <2>1, LedgerReturn DEF Bill
<1> QED BY <1>1, <1>2, <1>3, <1>4, <1>5, <1>6, <1>7, <1>8, <1>9, <1>10, <1>11, <1>12,
           <1>13, <1>14, <1>15, <1>16, <1>17 DEF Execute

LEMMA LedgerNext ==
  ASSUME IInv, ExecutionAssumption, LedgerInv, [Next]_vars
  PROVE  LedgerInv'
<1>1. ASSUME NEW a \in Exec, Dies(a) PROVE LedgerInv'
  <2>1. /\ pc[a] # "done" /\ over(a, "thrown") /\ UNCHANGED <<row, of, outcome>>
    BY <1>1 DEF Dies, busy, dbVars
  <2> QED BY <2>1, LedgerGoesOn DEF over, owes, IInv
<1>2. CASE UNCHANGED <<pc, mem, outcome>> /\ \E S \in SUBSET Exec :
             row' = row \/ row' = cancelled(row, S)
  BY <1>2, LedgerClaim DEF IInv
<1>3. ASSUME NEW a \in Exec, Poll(a) \/ CancelJob(a) \/ Shutdown(a) \/ CancelAgent(a)
      PROVE  LedgerInv'
  <2>1. /\ UNCHANGED <<pc, mem, outcome>>
        /\ row' = row \/ row' = cancelled(row, {a})
    BY <1>3
    DEF Poll, PollRow, PollParents, PollClaim, PollSend, CancelJob, Shutdown, CancelAgent,
        dbVars, callVars
  <2> QED BY <1>2, <2>1
<1>4. CASE \/ cancelWithWorkflows \/ HumanTransition \/ UNCHANGED vars
           \/ \E r \in Run : StartWorkflow(r) \/ finishWorkflow(r)
  <2>1. /\ UNCHANGED <<pc, mem, outcome>>
        /\ row' = row \/ row' = cancelled(row, Exec)
    BY <1>4
    DEF cancelWithWorkflows, HumanTransition, StartWorkflow, finishWorkflow, vars, dbVars,
        callVars
  <2> QED BY <1>2, <2>1
<1> QED BY <1>1, <1>3, <1>4, LedgerExecute DEF Next
-----------------------------------------------------------------------------
(***************************************************************************)
(* Every step of the executor is a step of the ledger, or a stutter.       *)
(***************************************************************************)
LEMMA LedgerStarts ==
  ASSUME Init
  PROVE  Ledger!Init
BY DEF Init, Ledger!Init, NoRow

LEMMA Stutters ==
  ASSUME UNCHANGED <<task, row, actualCost, outcome>>,
         \A b \in Exec : pc'[b] \in owes <=> pc[b] \in owes
  PROVE  UNCHANGED Ledger!ledger
<1>1. status' = status /\ cost' = cost /\ due' = due BY DEF status, cost, due
<1> QED BY <1>1, Mapping DEF Ledger!ledger, status, cost, due, owes

\* Rows are cancelled: by the call itself, the poll, the API or a workflow.
LEMMA Stops ==
  ASSUME TypeOK, NEW S \in SUBSET Exec, row' = cancelled(row, S),
         UNCHANGED <<actualCost, outcome>>, task' \in {task, "CANCELLED"},
         \A b \in Exec : pc'[b] \in owes <=> pc[b] \in owes
  PROVE  Ledger!Next
<1>0. PICK T \in SUBSET Exec : T = {a \in S : row[a].status = "RUNNING"} OBVIOUS
<1>1. ASSUME NEW b \in Exec
      PROVE  /\ row'[b].status = IF b \in T THEN "CANCELLED" ELSE row[b].status
             /\ row'[b].cost = row[b].cost
  <2>1. row[b] \in RowRecord BY Types
  <2>2. CASE b \in T
    <3>1. row'[b] = [row[b] EXCEPT !.status = "CANCELLED"] BY <1>0, <2>2, Claimed
    <3> QED BY <2>1, <2>2, <3>1 DEF RowRecord
  <2>3. CASE b \notin T
    <3>1. row'[b] = row[b] BY <1>0, <2>3, Claimed
    <3> QED BY <2>3, <3>1
  <2> QED BY <2>2, <2>3
<1>2. \A a \in T : status[a] = "RUNNING" BY <1>0 DEF status
<1>3. /\ status' = [a \in Exec |-> IF a \in T THEN "CANCELLED" ELSE status[a]]
      /\ cost' = cost /\ due' = due
  BY <1>1 DEF status, cost, due
<1>4. (task' = "CANCELLED") \in {task = "CANCELLED", TRUE} OBVIOUS
<1>5. Ledger!Stop(T)
  BY <1>2, <1>3, <1>4 DEF Ledger!Stop, status, cost, due, owes
<1> QED BY <1>5 DEF Ledger!Next

\* The row a call creates when it may not start.
LEMMA TurnsAway ==
  ASSUME IInv, LedgerInv, NEW a \in Exec, NEW s \in {"CANCELLED", "BUDGET_EXCEEDED"},
         row[a] = NoRow, pc[a] \in {"refuse", "create"},
         row' = [row EXCEPT ![a].status = s], returns(a, s), UNCHANGED <<task, actualCost>>
  PROVE  Ledger!Next
<1> USE Types DEF IInv
<1>0. ASSUME NEW b \in Exec
      PROVE  /\ row'[b].cost = row[b].cost
             /\ row'[b].status = IF b = a THEN s ELSE row[b].status
  BY <1>0 DEF RowRecord
<1>1. /\ status[a] = "NONE" /\ status' = [status EXCEPT ![a] = s]
      /\ cost' = cost
  <2>1. status[a] = "NONE" BY DEF status, NoRow
  <2>2. cost' = cost BY <1>0 DEF cost
  <2>3. status' = [b \in Exec |-> row'[b].status] BY DEF status
  <2> QED BY <1>0, <2>1, <2>2, <2>3 DEF status
<1>2. due' = due BY DEF returns, over, goto, due, owes
<1>3. outcome[a] = "NONE" /\ outcome' = [outcome EXCEPT ![a] = s]
  BY DEF LedgerInv, returns
<1>4. status'[a] = s BY <1>1 DEF status
<1>5. Ledger!TurnAway(a)
  BY <1>1, <1>2, <1>3, <1>4, Mapping
  DEF Ledger!TurnAway, Ledger!tell, Final, status, cost, due, owes
<1> QED BY <1>5 DEF Ledger!Next

LEMMA Starts ==
  ASSUME IInv, NEW a \in Exec, row[a] = NoRow, task # "CANCELLED",
         pc[a] = "create", goto(a, "persist"),
         row' = [row EXCEPT ![a].status = "RUNNING"], UNCHANGED <<task, actualCost, outcome>>
  PROVE  Ledger!Next
<1> USE Types DEF IInv
<1>0. ASSUME NEW b \in Exec
      PROVE  /\ row'[b].cost = row[b].cost
             /\ row'[b].status = IF b = a THEN "RUNNING" ELSE row[b].status
  BY <1>0 DEF RowRecord
<1>1. /\ status[a] = "NONE" /\ status' = [status EXCEPT ![a] = "RUNNING"]
      /\ cost' = cost
  <2>1. status[a] = "NONE" BY DEF status, NoRow
  <2>2. cost' = cost BY <1>0 DEF cost
  <2>3. status' = [b \in Exec |-> row'[b].status] BY DEF status
  <2> QED BY <1>0, <2>1, <2>2, <2>3 DEF status
<1>2. due' = due BY DEF goto, due, owes
<1>3. Ledger!Start(a)
  BY <1>1, <1>2 DEF Ledger!Start, status, cost, due, owes
<1> QED BY <1>3 DEF Ledger!Next

\* The answer becomes the row's.
LEMMA Settles ==
  ASSUME IInv, NEW a \in Exec, row[a].status = "RUNNING", task # "CANCELLED",
         goto(a, "usage"), row' = [row EXCEPT ![a] = result(a)],
         UNCHANGED <<task, actualCost, outcome>>
  PROVE  Ledger!Next
<1> USE Types DEF IInv
<1>0. /\ result(a).status \in Final /\ result(a).cost \in Nat
      /\ row'[a] = result(a) /\ \A b \in Exec \ {a} : row'[b] = row[b]
  BY DEF result, MemRecord
<1>1. /\ status[a] = "RUNNING" /\ status'[a] \in Final /\ cost'[a] \in Nat
      /\ status' = [status EXCEPT ![a] = status'[a]]
      /\ cost' = [cost EXCEPT ![a] = cost'[a]]
  BY <1>0 DEF status, cost
<1>2. due' = due \cup {a} BY DEF goto, due, owes
<1>3. Ledger!Settle(a)
  BY <1>1, <1>2, Mapping DEF Ledger!Settle, status, cost, due, owes
<1> QED BY <1>3 DEF Ledger!Next

\* A call returns the status of its row: unpaid, paid, or with nothing to pay.
LEMMA Tells ==
  ASSUME IInv, LedgerInv, NEW a \in Exec, pc[a] # "done", row[a].status \in Final,
         returns(a, row[a].status), UNCHANGED <<task, row>>,
         \/ actualCost' = actualCost
         \/ pc[a] \in owes /\ actualCost' = actualCost + row[a].cost
  PROVE  Ledger!Next
<1> USE Types DEF IInv
<1>1. status' = status /\ cost' = cost /\ status'[a] = row[a].status
      /\ cost[a] = row[a].cost
  BY DEF status, cost
<1>2. due' = due \ {a} BY DEF returns, over, goto, due, owes
<1>3. outcome[a] = "NONE" /\ outcome' = [outcome EXCEPT ![a] = row[a].status]
  BY DEF LedgerInv, returns
<1>4. Ledger!tell(a)
  BY <1>1, <1>3, Mapping DEF Ledger!tell, status
<1>5. CASE pc[a] \notin owes
  <2>1. a \notin due /\ due' = due BY <1>2, <1>5 DEF due
  <2>2. Ledger!Tell(a)
    BY <1>1, <1>4, <1>5, <2>1 DEF Ledger!Tell, status, cost, due, owes
  <2> QED BY <2>2 DEF Ledger!Next
<1>6. CASE pc[a] \in owes /\ actualCost' = actualCost
  <2>1. a \in due BY <1>6 DEF due
  <2>2. Ledger!Forgo(a)
    BY <1>1, <1>2, <1>4, <1>6, <2>1 DEF Ledger!Forgo, status, cost, due, owes
  <2> QED BY <2>2 DEF Ledger!Next
<1>7. CASE pc[a] \in owes /\ actualCost' = actualCost + row[a].cost
  <2>1. a \in due BY <1>7 DEF due
  <2>2. Ledger!Charge(a)
    BY <1>1, <1>2, <1>4, <1>7, <2>1 DEF Ledger!Charge, status, cost, due, owes
  <2> QED BY <2>2 DEF Ledger!Next
<1> QED BY <1>5, <1>6, <1>7

\* A call dies, and with it what it owes.
LEMMA Forgets ==
  ASSUME IInv, NEW a \in Exec, pc[a] \in owes, goto(a, "thrown"),
         UNCHANGED <<task, row, actualCost, outcome>>
  PROVE  Ledger!Next
<1> USE Types DEF IInv
<1>1. a \in due /\ due' = due \ {a} /\ status' = status /\ cost' = cost
  BY DEF goto, due, owes, status, cost
<1>2. Ledger!Forgo(a)
  BY <1>1 DEF Ledger!Forgo, status, cost, due, owes
<1> QED BY <1>2 DEF Ledger!Next

LEMMA ExecuteImplements ==
  ASSUME IInv, LedgerInv, ExecutionAssumption, NEW a \in Exec, Execute(a)
  PROVE  Ledger!Next \/ UNCHANGED Ledger!ledger
<1> USE Types DEF IInv
<1>1. CASE \/ Begin(a) \/ budgetExceeded(a) \/ CheckParents(a) \/ Prepare(a) \/ Release(a)
  <2>1. /\ UNCHANGED <<task, row, actualCost, outcome>> /\ pc[a] \notin owes
        /\ \E place \in Place \ owes : pc' = [pc EXCEPT ![a] = place]
    BY <1>1
    DEF Begin, budgetExceeded, CheckParents, Prepare, Release, goto, dbVars, owes, Place
  <2> QED BY <2>1, Stutters
<1>2. CASE Throws(a) \/ PersistContext(a) \/ CheckRow(a) \/ Invoke(a) \/ Answer(a)
  <2>1. UNCHANGED <<task, row, actualCost, outcome>> /\ pc[a] \notin owes
    BY <1>2
    DEF Throws, PersistContext, CheckRow, Invoke, Answer, dbVars, beforeAnswer, owes
  <2>2. \/ \E place \in {"check", "checkParents", "running"} : goto(a, place)
        \/ fails(a)
        \/ \E s \in Final, o \in BOOLEAN, c \in Costs : answers(a, s, o, c)
    BY <1>2 DEF Throws, PersistContext, CheckRow, Invoke, Answer, Final
  <2>3. \E place \in Place \ owes : pc' = [pc EXCEPT ![a] = place]
    BY <2>2, Leaving DEF goto, Place, owes
  <2> QED BY <2>1, <2>3, Stutters
<1>3. CASE CheckClaim(a)
  <2>1. /\ UNCHANGED <<task, actualCost, outcome>> /\ row' = cancelled(row, {a})
        /\ pc[a] = "checkClaim" /\ pc' = [pc EXCEPT ![a] = "release"]
    BY <1>3, Leaving DEF CheckClaim
  <2> QED BY <2>1, Stops DEF owes
<1>4. CASE Refuse(a)
  <2>1. PICK s \in {"CANCELLED", "BUDGET_EXCEEDED"} :
          returns(a, s) /\ row' = [row EXCEPT ![a].status = s]
    BY <1>4 DEF Refuse
  <2>2. pc[a] = "refuse" /\ row[a] = NoRow /\ UNCHANGED <<task, actualCost>>
    BY <1>4 DEF Refuse, CallInv
  <2> HIDE DEF IInv
  <2> QED BY <2>1, <2>2, TurnsAway
<1>5. CASE Create(a)
  <2>1. pc[a] = "create" /\ row[a] = NoRow /\ UNCHANGED <<task, actualCost>>
    BY <1>5 DEF Create, CallInv
  <2>2. CASE parentCancelled(a)
    <3>1. returns(a, "CANCELLED") /\ row' = [row EXCEPT ![a].status = "CANCELLED"]
      BY <1>5, <2>2 DEF Create
    <3> HIDE DEF IInv
    <3> QED BY <2>1, <3>1, TurnsAway
  <2>3. CASE ~parentCancelled(a)
    <3>1. /\ goto(a, "persist") /\ outcome' = outcome /\ task # "CANCELLED"
          /\ row' = [row EXCEPT ![a].status = "RUNNING"]
      BY <1>5, <2>3 DEF Create, continues, parentCancelled
    <3> HIDE DEF IInv
    <3> QED BY <2>1, <3>1, Starts
  <2> QED BY <2>2, <2>3
<1>6. CASE Complete(a)
  <2>1. UNCHANGED <<task, actualCost, outcome>> /\ pc[a] = "complete"
    BY <1>6 DEF Complete
  <2>2. CASE goto(a, "reread") /\ row' = row
    BY <2>1, <2>2, Stutters DEF goto, owes
  <2>3. CASE goto(a, "reread") /\ row' = cancelled(row, {a})
    BY <2>1, <2>3, Stops DEF goto, owes
  <2>4. CASE /\ row[a].status = "RUNNING" /\ ~parentCancelled(a)
             /\ goto(a, "usage") /\ row' = [row EXCEPT ![a] = result(a)]
    <3>1. task # "CANCELLED" BY <2>4 DEF parentCancelled
    <3> HIDE DEF IInv
    <3> QED BY <2>1, <2>4, <3>1, Settles
  <2> QED BY <1>6, <2>2, <2>3, <2>4 DEF Complete
<1>7. CASE Reread(a)
  <2>1. /\ row[a].status \in Final /\ pc[a] = "reread"
        /\ returns(a, row[a].status) /\ UNCHANGED <<task, row, actualCost>>
    BY <1>7 DEF Reread, CallInv, dbVars
  <2> HIDE DEF IInv
  <2> QED BY <2>1, Tells
<1>8. CASE RecordUsage(a)
  <2>1. /\ row[a].status = mem[a].status /\ mem[a].status \in Final /\ pc[a] = "usage"
        /\ UNCHANGED <<task, row, actualCost>>
    BY <1>8 DEF RecordUsage, CallInv, MemRecord
  <2>2. CASE continues(a, "bill")
    BY <2>1, <2>2, Stutters DEF continues, goto, owes
  <2>3. CASE returns(a, mem[a].status)
    <3> HIDE DEF IInv
    <3> QED BY <2>1, <2>3, Tells
  <2> QED BY <1>8, <2>2, <2>3 DEF RecordUsage
<1>9. CASE Bill(a)
  <2>1. /\ row[a].status = mem[a].status /\ mem[a].status \in Final /\ pc[a] = "bill"
        /\ row[a].cost = mem[a].cost
        /\ returns(a, mem[a].status) /\ UNCHANGED <<task, row>>
        /\ actualCost' = actualCost + mem[a].cost
    BY <1>9 DEF Bill, CallInv, MemRecord, LedgerInv, owes
  <2>2. pc[a] \in owes BY <2>1 DEF owes
  <2> HIDE DEF IInv
  <2> QED BY <2>1, <2>2, Tells
<1> QED BY <1>1, <1>2, <1>3, <1>4, <1>5, <1>6, <1>7, <1>8, <1>9 DEF Execute

LEMMA StepImplements ==
  ASSUME IInv, LedgerInv, ExecutionAssumption, [Next]_vars
  PROVE  Ledger!Next \/ UNCHANGED Ledger!ledger
<1>1. TypeOK BY DEF IInv
<1>2. ASSUME NEW a \in Exec, Dies(a) PROVE Ledger!Next \/ UNCHANGED Ledger!ledger
  <2>1. goto(a, "thrown") /\ UNCHANGED <<task, row, actualCost, outcome>>
    BY <1>2 DEF Dies, over, dbVars
  <2>2. CASE pc[a] \in owes BY <2>1, <2>2, Forgets
  <2>3. CASE pc[a] \notin owes
    BY <1>1, <2>1, <2>3, Types, Stutters DEF goto, owes
  <2> QED BY <2>2, <2>3
<1>3. CASE /\ UNCHANGED <<pc, actualCost, outcome>> /\ task' \in {task, "CANCELLED"}
           /\ \E S \in SUBSET Exec : row' = cancelled(row, S)
  BY <1>1, <1>3, Stops
<1>4. CASE UNCHANGED <<pc, actualCost, outcome, task, row>>
  BY <1>4, Stutters
<1>5. ASSUME NEW a \in Exec, Poll(a) \/ CancelJob(a) \/ Shutdown(a) \/ CancelAgent(a)
      PROVE  Ledger!Next \/ UNCHANGED Ledger!ledger
  <2>1. /\ UNCHANGED <<pc, actualCost, outcome, task>>
        /\ row' = row \/ row' = cancelled(row, {a})
    BY <1>5
    DEF Poll, PollRow, PollParents, PollClaim, PollSend, CancelJob, Shutdown, CancelAgent,
        dbVars, callVars
  <2> QED BY <1>3, <1>4, <2>1
<1>6. CASE \/ cancelWithWorkflows \/ \E r \in Run : finishWorkflow(r)
  <2>1. /\ UNCHANGED <<pc, actualCost, outcome>> /\ task' \in {task, "CANCELLED"}
        /\ row' = cancelled(row, Exec)
    BY <1>6 DEF cancelWithWorkflows, finishWorkflow, callVars
  <2> QED BY <1>3, <2>1
<1>7. CASE HumanTransition
  <2>1. \A b \in Exec : cancelled(row, {})[b] = row[b] BY <1>1, Claimed
  <2>2. row = cancelled(row, {}) BY <1>1, <2>1, Types, Claimed
  <2>3. /\ UNCHANGED <<pc, actualCost, outcome>> /\ task' \in {task, "CANCELLED"}
        /\ row' = cancelled(row, {})
    BY <1>7, <2>2 DEF HumanTransition, callVars
  <2> QED BY <1>3, <2>3
<1>8. CASE UNCHANGED vars \/ \E r \in Run : StartWorkflow(r)
  <2>1. UNCHANGED <<pc, actualCost, outcome, task, row>>
    BY <1>8 DEF StartWorkflow, vars, dbVars, callVars
  <2> QED BY <1>4, <2>1
<1> QED BY <1>2, <1>5, <1>6, <1>7, <1>8, ExecuteImplements DEF Next

(***************************************************************************)
(* The executor implements the ledger: an agent run starts only while its  *)
(* task is open, ends once, is reported as it ended and charged its own    *)
(* cost at most once, whoever cancels and whenever the process dies.       *)
(***************************************************************************)
THEOREM Implementation == Spec => ImplementsLedger
<1>1. Init => Ledger!Init /\ LedgerInv BY LedgerStarts, LedgerInit
<1>2. IInv /\ LedgerInv /\ [Next]_vars => LedgerInv'
  BY LedgerNext, ExecutionAssumption
<1>3. IInv /\ LedgerInv /\ [Next]_vars => [Ledger!Next]_(Ledger!ledger)
  BY StepImplements, ExecutionAssumption
<1> QED BY <1>1, <1>2, <1>3, Invariance, PTL DEF Spec, Ledger!Spec, ImplementsLedger
=============================================================================
