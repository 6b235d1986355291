------------------------ MODULE WorkflowEngineProofs ------------------------
(***************************************************************************)
(* Proofs about WorkflowEngine, for every number of runs and workers, every*)
(* step table, every routing policy and every task state machine in which  *)
(* CANCELLED is final.                                                     *)
(***************************************************************************)
EXTENDS WorkflowEngine, SequenceTheorems, TLAPS

-----------------------------------------------------------------------------
(***************************************************************************)
(* The inductive invariant, part 1: what a worker's place p in the code    *)
(* says about its own job j and memory m.                                  *)
(***************************************************************************)
RunRecord == [status : RunStatus \cup {"NONE"}, cur : Key \cup {NoKey},
              st : Nat, rows : Seq(Row)]

JobRecord == [run : Run, kind : Kind]

\* A walk has a next hop and does not start from CANCELLED.
Walkable(s) == Len(s) >= 2 /\ \A i \in 1..Len(s) : i < Len(s) => s[i] # "CANCELLED"

\* A claim that takes a step over found it RUNNING under the same key, and no
\* claim reuses a row that SUCCEEDED.
Intent(m) ==
  /\ m.type = "RUN_STEP" /\ m.cur # NoKey =>
       m.reuse # 0 /\ m.cur = m.key /\ m.rstatus = "RUNNING"
  /\ m.reuse # 0 => m.rstatus # "SUCCEEDED"

Local(p, j, m) ==
  /\ p # "idle" => j \in JobRecord
  /\ m.type = "RUN_STEP" => m.key \in Key
  /\ p \in {"claim"} \cup Holding => m.type = "RUN_STEP"
  /\ p \in {"walk", "move"} => Walkable(m.trail)
  /\ p \in {"start", "reread", "claim"} => Intent(m)

LocalInv == \A w \in Worker : Local(pc[w], job[w], mem[w])

(***************************************************************************)
(* Part 2: a run x on its own. The first four parts are OneStepAtATime;    *)
(* the last says that only a step result changes the state.                *)
(***************************************************************************)
executing(x) == {i \in DOMAIN x.rows : x.rows[i].status = "RUNNING"}

Tidy(x) ==
  /\ x.status = "RUNNING" /\ x.cur # NoKey =>
       \E i \in DOMAIN x.rows : executing(x) = {i} /\ x.rows[i].key = x.cur
  /\ x.status \in {"RUNNING", "CANCELLED"} /\ x.cur = NoKey => executing(x) = {}
  /\ x.status \in {"NONE", "PENDING"} => x.rows = <<>> /\ x.cur = NoKey
  /\ x.status # "RUNNING" => x.cur = NoKey
  /\ x.rows = <<>> => x.st = 0

\* A run nobody created has no job.
Created ==
  \A r \in Run : runs[r].status = "NONE" =>
    /\ r \notin starting
    /\ \A k \in Kind : jobs[r][k] = 0
    /\ \A w \in Worker : pc[w] # "idle" => job[w].run # r

(***************************************************************************)
(* Part 3: what the workers know about the run.                            *)
(***************************************************************************)

\* A run that was read when PENDING was read empty, unless someone else has
\* started it since; and while nobody wrote to the run, the worker's picture
\* of it is right.
Picture(p, m, f, run) ==
  /\ p \in {"rows", "start", "reread", "claim"} /\ m.status = "PENDING" =>
       m.cur = NoKey /\ m.st = 0
  /\ p \in {"start", "reread"} => m.status = "PENDING"
  /\ \/ p \in {"reread", "claim"} /\ m.status = "PENDING"
     \/ p = "start" /\ run.status = "PENDING"
     => m.len = 0 /\ m.reuse = 0
  /\ f /\ \/ p = "rows"
          \/ p = "claim" /\ m.status # "PENDING"
     => m.cur = run.cur /\ m.st = run.st
  /\ p \in {"start", "reread", "claim"} /\ m.reuse # 0 =>
       m.reuse \in DOMAIN run.rows /\ run.rows[m.reuse].key = m.key

\* A claimed row is there, under its key, and its attempts only grow.
Claimed(p, m, run) ==
  p \in Holding =>
    /\ m.row \in DOMAIN run.rows
    /\ run.rows[m.row].key = m.key
    /\ m.attempt <= run.rows[m.row].attempt

Know(w) ==
  pc[w] # "idle" =>
    Picture(pc[w], mem[w], fresh[w], mine(w)) /\ Claimed(pc[w], mem[w], mine(w))

\* Whoever can still write a result has read the newest state.
Current(w) == pc[w] \in Holding /\ claimStands(w) => mem[w].st = mine(w).st

\* No two workers hold the same token.
UniqueTokens ==
  \A v, w \in Worker :
    /\ v # w /\ pc[v] \in Holding /\ pc[w] \in Holding /\ job[v].run = job[w].run
    => mem[v].row # mem[w].row \/ mem[v].attempt # mem[w].attempt

SharedInv ==
  /\ \A r \in Run : Tidy(runs[r])
  /\ Created
  /\ \A w \in Worker : Know(w) /\ Current(w)
  /\ UniqueTokens

IInv == TypeOK /\ LocalInv /\ SharedInv

-----------------------------------------------------------------------------
(***************************************************************************)
(* Types and the workers' own memory.                                      *)
(***************************************************************************)
LEMMA BlankType == Blank \in Memory
BY EngineAssumption
   DEF Blank, Memory, ActiveRun, RowStatus, DecisionType

LEMMA TypeInit == Init => TypeOK /\ LocalInv
<1> SUFFICES ASSUME Init PROVE TypeOK /\ LocalInv
  OBVIOUS
<1>1. runs \in [Run -> [status : RunStatus \cup {"NONE"}, cur : Key \cup {NoKey},
                        st : Nat, rows : Seq(Row)]]
  BY DEF Init, NoRun
<1>2. task \in Status /\ retry \in [at : {"idle", "read", "walk", "start"},
                                    trail : Seq(Status)]
  BY EngineAssumption DEF Init
<1>3. jobs \in [Run -> [Kind -> Nat]]
  BY DEF Init
<1>4. mem \in [Worker -> Memory]
  BY BlankType DEF Init
<1>5. TypeOK
  BY <1>1, <1>2, <1>3, <1>4 DEF Init, TypeOK, PC
<1>6. LocalInv
  BY DEF Init, LocalInv, Local, Holding, Blank
<1> QED
  BY <1>5, <1>6

\* What a worker that is done with its job leaves behind.
LEMMA FinishedType ==
  ASSUME TypeOK, LocalInv, NEW w \in Worker, finished(w)
  PROVE  /\ pc' \in [Worker -> PC]
         /\ job' \in [Worker -> JobRecord \cup {NoJob}]
         /\ mem' \in [Worker -> Memory]
         /\ LocalInv'
<1>1. Local("idle", NoJob, Blank)
  BY DEF Local, Holding, Blank
<1>2. LocalInv'
  BY <1>1 DEF finished, TypeOK, LocalInv
<1> QED
  BY <1>2, BlankType DEF finished, TypeOK, PC, JobRecord

\* A worker moves on in its job, to place p with memory m.
LEMMA MovedType ==
  ASSUME TypeOK, LocalInv, NEW w \in Worker, NEW p \in PC, NEW m \in Memory,
         pc' = [pc EXCEPT ![w] = p], job' = job, mem' = [mem EXCEPT ![w] = m],
         Local(p, job[w], m)
  PROVE  /\ pc' \in [Worker -> PC]
         /\ job' \in [Worker -> JobRecord \cup {NoJob}]
         /\ mem' \in [Worker -> Memory]
         /\ LocalInv'
BY DEF TypeOK, LocalInv, JobRecord

\* A worker moves on with the memory it has.
LEMMA GotoType ==
  ASSUME TypeOK, LocalInv, NEW w \in Worker, NEW p \in PC,
         goto(w, p), mem' = mem, Local(p, job[w], mem[w])
  PROVE  /\ pc' \in [Worker -> PC]
         /\ job' \in [Worker -> JobRecord \cup {NoJob}]
         /\ mem' \in [Worker -> Memory]
         /\ LocalInv'
BY DEF TypeOK, LocalInv, JobRecord, goto

\* A busy worker's run is a run.
LEMMA MineType ==
  ASSUME TypeOK, LocalInv, NEW w \in Worker, pc[w] # "idle"
  PROVE  /\ job[w] \in JobRecord /\ job[w].run \in Run /\ job[w].kind \in Kind
         /\ mine(w) \in RunRecord /\ mine(w) = runs[job[w].run]
         /\ mem[w] \in Memory /\ Local(pc[w], job[w], mem[w])
BY DEF TypeOK, LocalInv, Local, mine, RunRecord, JobRecord

LEMMA EnqueueType ==
  ASSUME TypeOK, NEW r \in Run, NEW k \in Kind, enqueue(r, k)
  PROVE  jobs' \in [Run -> [Kind -> Nat]]
BY DEF TypeOK, enqueue, Kind

LEMMA ThrowType ==
  ASSUME TypeOK, LocalInv, NEW w \in Worker, pc[w] # "idle", throw(w)
  PROVE  jobs' \in [Run -> [Kind -> Nat]] /\ finished(w)
BY MineType, EnqueueType DEF TypeOK, throw, Kind

LEMMA TouchType ==
  ASSUME TypeOK, NEW R, touch(R)
  PROVE  fresh' \in [Worker -> BOOLEAN]
BY DEF TypeOK, touch

LEMMA RunsType ==
  ASSUME TypeOK, NEW r \in Run, NEW x \in RunRecord, runs' = [runs EXCEPT ![r] = x]
  PROVE  runs' \in [Run -> RunRecord]
BY DEF TypeOK, RunRecord

-----------------------------------------------------------------------------
(***************************************************************************)
(* One lemma per action: it preserves the types and the workers' memory.   *)
(***************************************************************************)
LEMMA TakeJobType ==
  ASSUME TypeOK, LocalInv, NEW w \in Worker, TakeJob(w)
  PROVE  TypeOK' /\ LocalInv'
<1>1. PICK r \in Run, kind \in Kind :
        /\ jobs[r][kind] > 0
        /\ jobs' = [jobs EXCEPT ![r][kind] = @ - 1]
        /\ job' = [job EXCEPT ![w] = [run |-> r, kind |-> kind]]
  BY DEF TakeJob
<1>2. Local("load", [run |-> r, kind |-> kind], mem[w])
  BY DEF LocalInv, Local, JobRecord, Holding
<1>3. LocalInv'
  BY <1>1, <1>2 DEF TakeJob, TypeOK, LocalInv
<1> QED
  BY <1>1, <1>3 DEF TakeJob, TypeOK, PC, apiVars, bounds

LEMMA LoadRunType ==
  ASSUME TypeOK, LocalInv, NEW w \in Worker, LoadRun(w)
  PROVE  TypeOK' /\ LocalInv'
<1> USE DEF apiVars, bounds
<1>1. CASE mine(w).status \in FinishedRun
  BY <1>1, FinishedType DEF LoadRun, acknowledge, TypeOK, JobRecord
<1>2. CASE mine(w).status \notin FinishedRun
  <2> DEFINE m == [mem[w] EXCEPT !.status = mine(w).status, !.cur = mine(w).cur,
                                 !.st = mine(w).st]
  <2>1. pc' = [pc EXCEPT ![w] = "rows"] /\ job' = job /\ mem' = [mem EXCEPT ![w] = m]
    BY <1>2 DEF LoadRun, goto
  <2>2. m \in Memory /\ m.type = mem[w].type /\ m.key = mem[w].key
    <3>1. mem[w] \in Memory /\ mine(w) \in RunRecord
      BY <1>2, MineType DEF LoadRun
    <3>2. mine(w).status \in ActiveRun \cup {"NONE"} /\ mine(w).cur \in Key \cup {NoKey}
          /\ mine(w).st \in Nat
      BY <1>2, <3>1 DEF RunRecord, RunStatus
    <3> QED BY <3>1, <3>2 DEF Memory
  <2>3. Local("rows", job[w], m)
    BY <2>2, MineType DEF LoadRun, Local, Holding
  <2> HIDE DEF m
  <2>4. "rows" \in PC /\ m \in Memory
    BY <2>2 DEF PC
  <2>5. /\ pc' \in [Worker -> PC] /\ job' \in [Worker -> JobRecord \cup {NoJob}]
        /\ mem' \in [Worker -> Memory] /\ LocalInv'
    BY ONLY TypeOK, LocalInv, <2>1, <2>3, <2>4, MovedType
  <2> QED
    BY <1>2, <2>5 DEF LoadRun, TypeOK, JobRecord, PC
<1> QED
  BY <1>1, <1>2

\* What a worker remembers of the rows it read.
LEMMA IntentionType ==
  ASSUME TypeOK, LocalInv, NEW w \in Worker, pc[w] # "idle",
         NEW d \in Decision, NEW i \in 0..Len(mine(w).rows)
  PROVE  /\ intention(w, d, i) \in Memory
         /\ intention(w, d, i).type = d.type /\ intention(w, d, i).key = d.key
         /\ intention(w, d, i).reuse = i /\ intention(w, d, i).len = Len(mine(w).rows)
         /\ intention(w, d, i).status = mem[w].status
         /\ intention(w, d, i).cur = mem[w].cur /\ intention(w, d, i).st = mem[w].st
         /\ i # 0 => /\ intention(w, d, i).rstatus = mine(w).rows[i].status
                     /\ intention(w, d, i).rattempt = mine(w).rows[i].attempt
<1> DEFINE rs == IF i = 0 THEN mem[w].rstatus ELSE mine(w).rows[i].status
           ra == IF i = 0 THEN mem[w].rattempt ELSE mine(w).rows[i].attempt
           n  == Len(mine(w).rows)
<1>1. mem[w] \in Memory /\ mine(w).rows \in Seq(Row)
  BY MineType DEF RunRecord
<1>2. i # 0 => mine(w).rows[i] \in Row
  BY <1>1
<1>3. rs \in RowStatus /\ ra \in Nat /\ n \in Nat /\ i \in Nat
  BY <1>1, <1>2 DEF Memory, Row
<1>4. d.type \in DecisionType /\ d.key \in Key \cup {NoKey}
  BY DEF Decision, DecisionType
<1>5. intention(w, d, i) = [mem[w] EXCEPT !.type = d.type, !.key = d.key, !.len = n,
                              !.reuse = i, !.rstatus = rs, !.rattempt = ra]
  BY DEF intention
<1>6. i # 0 => rs = mine(w).rows[i].status /\ ra = mine(w).rows[i].attempt
  OBVIOUS
<1>7. n = Len(mine(w).rows)
  OBVIOUS
<1> HIDE DEF rs, ra, n
<1>8. /\ intention(w, d, i) \in Memory
      /\ intention(w, d, i).type = d.type /\ intention(w, d, i).key = d.key
      /\ intention(w, d, i).reuse = i /\ intention(w, d, i).len = n
      /\ intention(w, d, i).rstatus = rs /\ intention(w, d, i).rattempt = ra
      /\ intention(w, d, i).status = mem[w].status
      /\ intention(w, d, i).cur = mem[w].cur /\ intention(w, d, i).st = mem[w].st
  <2> DEFINE t == d.type
             k == d.key
  <2>1. t \in DecisionType /\ k \in Key \cup {NoKey}
    BY <1>4
  <2>2. intention(w, d, i) = [mem[w] EXCEPT !.type = t, !.key = k, !.len = n,
                              !.reuse = i, !.rstatus = rs, !.rattempt = ra]
    BY <1>5
  <2>3. t = d.type /\ k = d.key
    OBVIOUS
  <2> HIDE DEF t, k
  <2>4. intention(w, d, i) \in Memory
    <3>1. mem[w] \in Memory /\ n \in Nat /\ i \in Nat /\ rs \in RowStatus /\ ra \in Nat
      BY <1>1, <1>3
    <3>3. intention(w, d, i) = [mem[w] EXCEPT !.type = t, !.key = k, !.len = n,
                                !.reuse = i, !.rstatus = rs, !.rattempt = ra]
      BY <2>2
    <3> QED BY ONLY <2>1, <3>1, <3>3, ZenonT(40) DEF Memory
  <2> QED
    BY <1>1, <2>2, <2>3, <2>4 DEF Memory
<1> QED
  BY <1>6, <1>7, <1>8

LEMMA LoadRowsType ==
  ASSUME TypeOK, LocalInv, NEW w \in Worker, LoadRows(w)
  PROVE  TypeOK' /\ LocalInv'
<1> USE DEF apiVars, bounds
<1>1. PICK d \in Decisions(mine(w).rows) \cap Decision, expired \in BOOLEAN :
        IF d.type = "RUN_STEP" /\ leased(mine(w).rows, mem[w].cur, d.key, expired)
        THEN acknowledge(w) /\ fresh' = [fresh EXCEPT ![w] = FALSE]
        ELSE \E i \in 0..Len(mine(w).rows) :
               /\ IF d.type = "RUN_STEP"
                  THEN reusable(mine(w).rows, mem[w].cur, d.key, i) ELSE i = 0
               /\ mem' = [mem EXCEPT ![w] = intention(w, d, i)]
               /\ goto(w, afterDecision(d.type, mem[w].status))
               /\ UNCHANGED <<jobs, fresh>>
  BY DEF LoadRows
<1>2. CASE d.type = "RUN_STEP" /\ leased(mine(w).rows, mem[w].cur, d.key, expired)
  BY <1>1, <1>2, FinishedType DEF LoadRows, acknowledge, TypeOK, JobRecord
<1>3. CASE ~(d.type = "RUN_STEP" /\ leased(mine(w).rows, mem[w].cur, d.key, expired))
  <2>1. PICK i \in 0..Len(mine(w).rows) :
          /\ IF d.type = "RUN_STEP"
             THEN reusable(mine(w).rows, mem[w].cur, d.key, i) ELSE i = 0
          /\ mem' = [mem EXCEPT ![w] = intention(w, d, i)]
          /\ goto(w, afterDecision(d.type, mem[w].status))
          /\ UNCHANGED <<jobs, fresh>>
    BY <1>1, <1>3
  <2> DEFINE m == intention(w, d, i)
             p == afterDecision(d.type, mem[w].status)
  <2>2. /\ m \in Memory /\ m.type = d.type /\ m.key = d.key /\ m.reuse = i
        /\ m.cur = mem[w].cur /\ (i # 0 => m.rstatus = mine(w).rows[i].status)
    BY IntentionType DEF LoadRows
  <2>3. Intent(m)
    <3>1. CASE d.type = "RUN_STEP"
      <4>1. d.key \in Key /\ mem[w].cur \in Key \cup {NoKey} /\ mine(w).rows \in Seq(Row)
        BY <3>1, MineType DEF LoadRows, Decision, Memory, RunRecord
      <4>2. ~leased(mine(w).rows, mem[w].cur, d.key, expired)
        BY <1>3, <3>1
      <4>3. reusable(mine(w).rows, mem[w].cur, d.key, i)
        BY <2>1, <3>1
      <4>4. /\ mem[w].cur # NoKey =>
                 i # 0 /\ mem[w].cur = d.key /\ mine(w).rows[i].status = "RUNNING"
            /\ i # 0 => mine(w).rows[i].status # "SUCCEEDED"
        BY <4>1, <4>2, <4>3, EngineAssumption DEF leased, reusable, abandoned, unfinished
      <4> QED
        BY <2>2, <4>4 DEF Intent
    <3>2. CASE d.type # "RUN_STEP"
      BY <2>1, <2>2, <3>2 DEF Intent
    <3> QED
      BY <3>1, <3>2
  <2>4. p \in PC /\ Local(p, job[w], m)
    BY <2>2, <2>3, MineType DEF LoadRows, Local, Holding, afterDecision, PC, Decision
  <2>5. pc' = [pc EXCEPT ![w] = p] /\ job' = job /\ mem' = [mem EXCEPT ![w] = m]
    BY <2>1 DEF goto
  <2> HIDE DEF m, p
  <2> QED
    BY <2>1, <2>2, <2>4, <2>5, MovedType DEF LoadRows, TypeOK, JobRecord
<1> QED
  BY <1>2, <1>3

LEMMA StartRunType ==
  ASSUME TypeOK, LocalInv, NEW w \in Worker, StartRun(w)
  PROVE  TypeOK' /\ LocalInv'
<1> USE DEF apiVars, bounds
<1>1. CASE mine(w).status # "PENDING"
  BY <1>1, FinishedType DEF StartRun, acknowledge, TypeOK, JobRecord
<1>2. CASE mine(w).status = "PENDING"
  <2>1. Local("reread", job[w], mem[w])
    BY MineType DEF StartRun, Local, Holding
  <2>2. runs' \in [Run -> RunRecord]
    <3> DEFINE x == [mine(w) EXCEPT !.status = "RUNNING"]
    <3>1. x \in RunRecord
      BY MineType DEF StartRun, RunRecord, RunStatus, ActiveRun
    <3>2. runs' = [runs EXCEPT ![job[w].run] = x] /\ job[w].run \in Run
      BY <1>2, MineType DEF StartRun
    <3> HIDE DEF x
    <3> QED
      BY <3>1, <3>2, RunsType
  <2> QED
    BY <1>2, <2>1, <2>2, GotoType, TouchType
       DEF StartRun, TypeOK, JobRecord, RunRecord, PC
<1> QED
  BY <1>1, <1>2

LEMMA RereadType ==
  ASSUME TypeOK, LocalInv, NEW w \in Worker, Reread(w)
  PROVE  TypeOK' /\ LocalInv'
<1> USE DEF apiVars, bounds
<1>1. CASE mine(w).status # "RUNNING"
  BY <1>1, FinishedType DEF Reread, acknowledge, TypeOK, JobRecord
<1>2. CASE mine(w).status = "RUNNING"
  <2> DEFINE p == IF mem[w].type = "RUN_STEP" THEN "claim" ELSE "finish"
  <2>1. p \in PC /\ Local(p, job[w], mem[w])
    BY MineType DEF Reread, Local, Holding, PC
  <2>2. goto(w, p) /\ mem' = mem
    BY <1>2 DEF Reread
  <2> HIDE DEF p
  <2> QED
    BY <1>2, <2>1, <2>2, GotoType DEF Reread, TypeOK, JobRecord
<1> QED
  BY <1>1, <1>2

\* Writing one row.
LEMMA SetRow ==
  ASSUME NEW rows \in Seq(Row), NEW i, NEW y \in Row
  PROVE  /\ [rows EXCEPT ![i] = y] \in Seq(Row)
         /\ Len([rows EXCEPT ![i] = y]) = Len(rows)
         /\ \A j \in DOMAIN rows : [rows EXCEPT ![i] = y][j] = IF j = i THEN y ELSE rows[j]
<1>1. CASE i \in DOMAIN rows
  BY <1>1, ExceptSeq
<1>2. CASE i \notin DOMAIN rows
  <2>1. [rows EXCEPT ![i] = y] = [j \in 1..Len(rows) |-> rows[j]]
    BY <1>2
  <2>2. rows = [j \in 1..Len(rows) |-> rows[j]]
    OBVIOUS
  <2> QED
    BY <1>2, <2>1, <2>2
<1> QED
  BY <1>1, <1>2

\* The rows a claim writes, and the token it takes.
LEMMA ClaimedRowsType ==
  ASSUME TypeOK, LocalInv, NEW w \in Worker, pc[w] = "claim"
  PROVE  claimedRows(w) \in Seq(Row) /\ mem[w].key \in Key
<1> DEFINE rows == mine(w).rows
<1>1. mem[w].key \in Key /\ mem[w].rattempt + 1 \in Nat \ {0} /\ rows \in Seq(Row)
  BY MineType DEF Local, Memory, RunRecord
<1>2. CASE mem[w].reuse = 0
  BY <1>1, <1>2 DEF claimedRows, Row, RowStatus
<1>3. CASE mem[w].reuse # 0
  <2> DEFINE i == mem[w].reuse
             y == [rows[i] EXCEPT !.status = "RUNNING", !.attempt = mem[w].rattempt + 1]
  <2>1. claimedRows(w) = [rows EXCEPT ![i] = y]
    BY <1>3 DEF claimedRows
  <2> HIDE DEF rows
  <2>2. CASE i \in DOMAIN rows
    <3>1. rows[i] \in Row
      BY <1>1, <2>2
    <3>2. y \in Row
      BY <1>1, <3>1 DEF Row, RowStatus
    <3> HIDE DEF y, i
    <3> QED
      BY <1>1, <2>1, <3>2, SetRow
  <2>3. CASE i \notin DOMAIN rows
    <3>1. [rows EXCEPT ![i] = y] = rows
      BY <1>1, <2>3
    <3> QED
      BY <1>1, <2>1, <3>1
  <2> QED
    BY <2>2, <2>3
<1> QED
  BY <1>1, <1>2, <1>3

LEMMA TokenType ==
  ASSUME TypeOK, LocalInv, NEW w \in Worker, pc[w] # "idle"
  PROVE  /\ token(w) \in Memory
         /\ \A f \in DOMAIN mem[w] \ {"row", "attempt"} : token(w)[f] = mem[w][f]
         /\ token(w).row = IF mem[w].reuse = 0 THEN mem[w].len + 1 ELSE mem[w].reuse
         /\ token(w).attempt = IF mem[w].reuse = 0 THEN 1 ELSE mem[w].rattempt + 1
<1> DEFINE i == IF mem[w].reuse = 0 THEN mem[w].len + 1 ELSE mem[w].reuse
           a == IF mem[w].reuse = 0 THEN 1 ELSE mem[w].rattempt + 1
<1>1. mem[w] \in Memory
  BY MineType
<1>2. i \in Nat /\ a \in Nat
  BY SMTT(20), <1>1 DEF Memory
<1>3. token(w) = [mem[w] EXCEPT !.row = i, !.attempt = a]
  BY DEF token
<1> HIDE DEF i, a
<1>4. token(w) \in Memory /\ token(w).row = i /\ token(w).attempt = a
  BY <1>1, <1>2, <1>3 DEF Memory
<1>5. \A f \in DOMAIN mem[w] \ {"row", "attempt"} : token(w)[f] = mem[w][f]
  BY <1>1, <1>3 DEF Memory
<1> QED
  BY <1>4, <1>5 DEF i, a

LEMMA ClaimType ==
  ASSUME TypeOK, LocalInv, NEW w \in Worker, Claim(w)
  PROVE  TypeOK' /\ LocalInv'
<1> USE DEF apiVars, bounds
<1>1. pc[w] = "claim" /\ pc[w] # "idle"
  BY DEF Claim
<1>2. CASE ~mayClaim(w)
  BY <1>2, FinishedType DEF Claim, acknowledge, TypeOK, JobRecord
<1>3. CASE mayClaim(w) /\ mem[w].reuse = 0 /\ Len(mine(w).rows) # mem[w].len
  BY <1>1, <1>3, ThrowType, FinishedType DEF Claim, TypeOK, JobRecord
<1>4. CASE mayClaim(w) /\ ~(mem[w].reuse = 0 /\ Len(mine(w).rows) # mem[w].len)
  <2> DEFINE m == token(w)
             x == [mine(w) EXCEPT !.cur = mem[w].key, !.rows = claimedRows(w)]
  <2>1. pc' = [pc EXCEPT ![w] = "enter"] /\ job' = job /\ mem' = [mem EXCEPT ![w] = m]
    BY <1>4 DEF Claim, goto
  <2>2. m \in Memory /\ m.type = mem[w].type /\ m.key = mem[w].key
    BY <1>1, MineType, TokenType DEF Memory
  <2>3. Local("enter", job[w], m)
    BY <1>1, <2>2, MineType DEF Local, Holding
  <2>4. x \in RunRecord
    BY <1>1, MineType, ClaimedRowsType DEF RunRecord
  <2>5. runs' = [runs EXCEPT ![job[w].run] = x] /\ job[w].run \in Run
    BY <1>1, <1>4, MineType DEF Claim
  <2> HIDE DEF m, x
  <2>6. runs' \in [Run -> RunRecord]
    BY <2>4, <2>5, RunsType
  <2> QED
    BY <1>4, <2>1, <2>2, <2>3, <2>6, MovedType, TouchType
       DEF Claim, TypeOK, JobRecord, RunRecord, PC
<1> QED
  BY <1>2, <1>3, <1>4

\* A walk that is begun can be walked.
LEMMA RouteWalkable ==
  ASSUME NEW f \in Status, NEW t \in Status, f # t, route(f, t) # <<>>
  PROVE  route(f, t) \in Seq(Status) /\ Walkable(route(f, t))
BY PathAssumption DEF Walkable

\* One hop leaves a walk or ends it.
LEMMA TailWalkable ==
  ASSUME NEW s \in Seq(Status), Walkable(s), Len(s) # 2
  PROVE  Tail(s) \in Seq(Status) /\ Walkable(Tail(s))
<1>1. Len(Tail(s)) = Len(s) - 1 /\ Tail(s) \in Seq(Status) /\ Len(s) \in Nat
  BY DEF Walkable
<1>2. \A i \in 1..Len(Tail(s)) : Tail(s)[i] = s[i + 1]
  BY DEF Walkable
<1> QED
  BY <1>1, <1>2 DEF Walkable

LEMMA WalkToType ==
  ASSUME TypeOK, LocalInv, NEW w \in Worker, pc[w] \in {"enter", "handle"},
         NEW target \in Status \cup {NoStatus}, NEW arrived \in {"handle", "moved"},
         NEW walking \in {"walk", "move"}, NEW lost \in {"release", "thrown"},
         walkTo(w, target, arrived, walking, lost)
  PROVE  /\ pc' \in [Worker -> PC]
         /\ job' \in [Worker -> JobRecord \cup {NoJob}]
         /\ mem' \in [Worker -> Memory]
         /\ LocalInv'
<1>1. /\ job[w] \in JobRecord /\ mem[w] \in Memory /\ mem[w].type = "RUN_STEP"
      /\ Local(pc[w], job[w], mem[w])
  BY MineType DEF Local, Holding
<1>2. CASE target = NoStatus \/ task = target
  <2>1. arrived \in PC /\ Local(arrived, job[w], mem[w])
    BY <1>1 DEF Local, Holding, PC
  <2> QED
    BY <1>2, <2>1, GotoType DEF walkTo
<1>3. CASE ~(target = NoStatus \/ task = target) /\ route(task, target) = <<>>
  <2>1. lost \in PC /\ Local(lost, job[w], mem[w])
    BY <1>1 DEF Local, Holding, PC
  <2> QED
    BY <1>3, <2>1, GotoType DEF walkTo
<1>4. CASE ~(target = NoStatus \/ task = target) /\ route(task, target) # <<>>
  <2> DEFINE s == route(task, target)
             m == [mem[w] EXCEPT !.trail = s]
  <2>1. s \in Seq(Status) /\ Walkable(s)
    BY <1>4, RouteWalkable DEF TypeOK
  <2>2. pc' = [pc EXCEPT ![w] = walking] /\ job' = job /\ mem' = [mem EXCEPT ![w] = m]
    BY <1>4 DEF walkTo, goto
  <2> HIDE DEF s
  <2>3. m \in Memory /\ m.type = mem[w].type /\ m.key = mem[w].key /\ m.trail = s
    BY <1>1, <2>1 DEF Memory
  <2> HIDE DEF m
  <2>4. walking \in PC /\ Local(walking, job[w], m)
    BY <1>1, <2>1, <2>3 DEF Local, Holding, PC
  <2> QED
    BY <2>2, <2>3, <2>4, MovedType
<1> QED
  BY <1>2, <1>3, <1>4

LEMMA EnterType ==
  ASSUME TypeOK, LocalInv, NEW w \in Worker, Enter(w)
  PROVE  TypeOK' /\ LocalInv'
<1>1. entryStatus[mem[w].key] \in Status \cup {NoStatus}
  BY MineType, EngineAssumption DEF Enter, Local, Holding
<1> QED
  BY <1>1, WalkToType DEF Enter, TypeOK, JobRecord, apiVars, bounds

LEMMA HandlerMoveType ==
  ASSUME TypeOK, LocalInv, NEW w \in Worker, HandlerMove(w)
  PROVE  TypeOK' /\ LocalInv'
<1>1. PICK s \in Moves(mem[w].key) : walkTo(w, s, "moved", "move", "thrown")
  BY DEF HandlerMove
<1>2. s \in Status
  BY MineType, EngineAssumption DEF HandlerMove, Local, Holding
<1> QED
  BY <1>1, <1>2, WalkToType DEF HandlerMove, TypeOK, JobRecord, apiVars, bounds

LEMMA HopType ==
  ASSUME TypeOK, LocalInv, NEW w \in Worker, NEW walking \in {"walk", "move"},
         NEW arrived \in {"handle", "moved"}, NEW lost \in {"release", "thrown"},
         hop(w, walking, arrived, lost)
  PROVE  TypeOK' /\ LocalInv'
<1> USE DEF apiVars, bounds
<1>1. /\ job[w] \in JobRecord /\ mem[w] \in Memory /\ mem[w].type = "RUN_STEP"
      /\ Local(pc[w], job[w], mem[w]) /\ Walkable(mem[w].trail)
      /\ mem[w].trail \in Seq(Status)
  BY MineType DEF hop, Local, Holding, Memory
<1>2. CASE task = mem[w].trail[1]
  <2> DEFINE s == IF Len(mem[w].trail) = 2 THEN <<>> ELSE Tail(mem[w].trail)
             p == IF Len(mem[w].trail) = 2 THEN arrived ELSE walking
             m == [mem[w] EXCEPT !.trail = s]
  <2>1. s \in Seq(Status) /\ (p = walking => Walkable(s))
    <3>1. CASE Len(mem[w].trail) = 2
      BY <3>1
    <3>2. CASE Len(mem[w].trail) # 2
      BY <1>1, <3>2, TailWalkable
    <3> QED
      BY <3>1, <3>2
  <2>2. p \in {walking, arrived}
    OBVIOUS
  <2>3. task' = mem[w].trail[2] /\ goto(w, p) /\ mem' = [mem EXCEPT ![w] = m]
    BY <1>2 DEF hop
  <2>4. task' \in Status
    BY <1>1, <2>3 DEF Walkable
  <2> HIDE DEF s, p
  <2>5. m \in Memory /\ m.type = mem[w].type /\ m.key = mem[w].key /\ m.trail = s
    BY <1>1, <2>1 DEF Memory
  <2> HIDE DEF m
  <2>6. p \in PC /\ Local(p, job[w], m)
    BY <1>1, <2>1, <2>2, <2>5 DEF Local, Holding, PC
  <2> QED
    BY <2>3, <2>4, <2>5, <2>6, MovedType DEF hop, goto, TypeOK, JobRecord
<1>3. CASE task # mem[w].trail[1]
  <2> DEFINE s == <<>>
             m == [mem[w] EXCEPT !.trail = s]
  <2>1. goto(w, lost) /\ mem' = [mem EXCEPT ![w] = m] /\ task' = task
    BY <1>3 DEF hop
  <2>2. m \in Memory /\ m.type = mem[w].type /\ m.key = mem[w].key
    <3>1. s \in Seq(Status)
      OBVIOUS
    <3> HIDE DEF s
    <3> QED
      BY <1>1, <3>1 DEF Memory
  <2> HIDE DEF m
  <2>3. lost \in PC /\ Local(lost, job[w], m)
    BY <1>1, <2>2 DEF Local, Holding, PC
  <2> QED
    BY <2>1, <2>2, <2>3, MovedType DEF hop, goto, TypeOK, JobRecord
<1> QED
  BY <1>2, <1>3

LEMMA HeartbeatType ==
  ASSUME TypeOK, LocalInv, NEW w \in Worker, Heartbeat(w)
  PROVE  TypeOK' /\ LocalInv'
BY TouchType DEF Heartbeat, TypeOK, LocalInv, apiVars, bounds

\* The rows a result or a release writes.
LEMMA StatusWritten ==
  ASSUME NEW rows \in Seq(Row), NEW i \in DOMAIN rows, NEW status \in RowStatus
  PROVE  /\ [rows EXCEPT ![i].status = status] \in Seq(Row)
         /\ DOMAIN [rows EXCEPT ![i].status = status] = DOMAIN rows
         /\ \A j \in DOMAIN rows :
              [rows EXCEPT ![i].status = status][j] =
                IF j = i THEN [rows[i] EXCEPT !.status = status] ELSE rows[j]
<1> DEFINE y == [rows[i] EXCEPT !.status = status]
<1>1. y \in Row
  <2>1. rows[i] \in Row
    OBVIOUS
  <2> QED
    BY <2>1 DEF Row
<1> HIDE DEF y
<1>2. [rows EXCEPT ![i].status = status] = [rows EXCEPT ![i] = y]
  BY DEF y
<1>3. /\ [rows EXCEPT ![i] = y] \in Seq(Row)
      /\ DOMAIN [rows EXCEPT ![i] = y] = DOMAIN rows
      /\ \A j \in DOMAIN rows : [rows EXCEPT ![i] = y][j] = IF j = i THEN y ELSE rows[j]
  BY <1>1, SetRow
<1> QED
  BY <1>2, <1>3 DEF y

LEMMA PersistType ==
  ASSUME TypeOK, LocalInv, NEW w \in Worker, Persist(w)
  PROVE  TypeOK' /\ LocalInv'
<1> USE DEF apiVars, bounds
<1>1. /\ pc[w] # "idle" /\ pc[w] \in {"handle", "moved", "thrown"}
      /\ job[w].run \in Run /\ mine(w) \in RunRecord /\ mem[w] \in Memory
      /\ Local(pc[w], job[w], mem[w]) /\ mine(w) = runs[job[w].run]
  BY MineType DEF Persist
<1>2. CASE stale(w)
  BY <1>2, FinishedType DEF Persist, acknowledge, TypeOK, JobRecord
<1>3. CASE ~stale(w)
  <2>1. PICK outcome \in {"SUCCEEDED", "SKIPPED", "FAILED"} :
          runs' = [runs EXCEPT ![job[w].run] =
                    [@ EXCEPT !.st = mem[w].st + 1, !.cur = NoKey,
                              !.rows[mem[w].row].status = settled(w, outcome)]]
    BY <1>3 DEF Persist
  <2> DEFINE rows == [mine(w).rows EXCEPT ![mem[w].row].status = settled(w, outcome)]
             x == [mine(w) EXCEPT !.st = mem[w].st + 1, !.cur = NoKey, !.rows = rows]
  <2>2. rows \in Seq(Row)
    <3>1. mem[w].row \in DOMAIN mine(w).rows
      BY <1>3 DEF stale, claimStands
    <3>2. settled(w, outcome) \in RowStatus
      BY DEF settled, RowStatus
    <3>3. mine(w).rows \in Seq(Row)
      BY <1>1 DEF RunRecord
    <3> QED
      BY <3>1, <3>2, <3>3, StatusWritten
  <2>3. runs' = [runs EXCEPT ![job[w].run] = x]
    BY <1>1, <2>1 DEF RunRecord
  <2>4. mem[w].st + 1 \in Nat
    BY <1>1 DEF Memory
  <2> HIDE DEF rows
  <2>5. x \in RunRecord
    BY <1>1, <2>2, <2>4 DEF RunRecord
  <2> HIDE DEF x
  <2>6. runs' \in [Run -> RunRecord]
    BY <1>1, <2>3, <2>5, RunsType
  <2>7. "next" \in PC /\ Local("next", job[w], mem[w])
    BY <1>1 DEF Local, Holding, PC
  <2> QED
    BY <1>3, <2>6, <2>7, GotoType, TouchType DEF Persist, TypeOK, JobRecord, RunRecord
<1> QED
  BY <1>2, <1>3

LEMMA StepFailsType ==
  ASSUME TypeOK, LocalInv, NEW w \in Worker, StepFails(w)
  PROVE  TypeOK' /\ LocalInv'
<1> DEFINE s == <<>>
           m == [mem[w] EXCEPT !.trail = s]
           p == IF pc[w] = "move" THEN "thrown" ELSE "release"
<1>1. /\ job[w] \in JobRecord /\ mem[w] \in Memory /\ mem[w].type = "RUN_STEP"
      /\ Local(pc[w], job[w], mem[w])
  BY MineType DEF StepFails, Local, Holding
<1>2. goto(w, p) /\ mem' = [mem EXCEPT ![w] = m]
  BY DEF StepFails
<1>3. p \in {"thrown", "release"}
  OBVIOUS
<1>4. m \in Memory /\ m.type = mem[w].type /\ m.key = mem[w].key
  <2>1. s \in Seq(Status)
    OBVIOUS
  <2> HIDE DEF s
  <2> QED
    BY <1>1, <2>1 DEF Memory
<1> HIDE DEF m, p
<1>5. p \in PC /\ Local(p, job[w], m)
  BY <1>1, <1>3, <1>4 DEF Local, Holding, PC
<1>6. /\ pc' \in [Worker -> PC] /\ mem' \in [Worker -> Memory]
      /\ job' \in [Worker -> JobRecord \cup {NoJob}] /\ LocalInv'
  BY <1>2, <1>4, <1>5, MovedType DEF goto
<1> QED
  BY <1>6 DEF StepFails, TypeOK, JobRecord, apiVars

LEMMA ReleaseType ==
  ASSUME TypeOK, LocalInv, NEW w \in Worker, Release(w)
  PROVE  TypeOK' /\ LocalInv'
<1> USE DEF apiVars, bounds
<1>1. /\ pc[w] # "idle" /\ job[w].run \in Run /\ mine(w) \in RunRecord
      /\ mem[w] \in Memory /\ mine(w) = runs[job[w].run]
  BY MineType DEF Release
<1>2. jobs' \in [Run -> [Kind -> Nat]] /\ finished(w)
  BY <1>1, ThrowType DEF Release
<1>3. CASE ~claimStands(w)
  BY <1>2, <1>3, FinishedType DEF Release, TypeOK, JobRecord
<1>4. CASE claimStands(w)
  <2> DEFINE rows == [mine(w).rows EXCEPT ![mem[w].row].status = "PENDING"]
             x == [mine(w) EXCEPT !.cur = NoKey, !.rows = rows]
  <2>1. rows \in Seq(Row)
    <3>1. mem[w].row \in DOMAIN mine(w).rows
      BY <1>4 DEF claimStands
    <3>2. "PENDING" \in RowStatus
      BY DEF RowStatus
    <3>3. mine(w).rows \in Seq(Row)
      BY <1>1 DEF RunRecord
    <3> QED
      BY <3>1, <3>2, <3>3, StatusWritten
  <2>2. runs' = [runs EXCEPT ![job[w].run] = x]
    BY <1>1, <1>4 DEF Release, RunRecord
  <2> HIDE DEF rows
  <2>3. x \in RunRecord
    BY <1>1, <2>1 DEF RunRecord
  <2> HIDE DEF x
  <2>4. runs' \in [Run -> RunRecord]
    BY <1>1, <2>2, <2>3, RunsType
  <2> QED
    BY <1>2, <1>4, <2>4, FinishedType, TouchType DEF Release, TypeOK, JobRecord, RunRecord
<1> QED
  BY <1>3, <1>4

LEMMA EnqueueNextType ==
  ASSUME TypeOK, LocalInv, NEW w \in Worker, EnqueueNext(w)
  PROVE  TypeOK' /\ LocalInv'
<1>1. jobs' \in [Run -> [Kind -> Nat]]
  BY MineType, EnqueueType DEF EnqueueNext, Kind
<1> QED
  BY <1>1, FinishedType DEF EnqueueNext, TypeOK, JobRecord, apiVars, bounds

LEMMA JobFailsType ==
  ASSUME TypeOK, LocalInv, NEW w \in Worker, JobFails(w)
  PROVE  TypeOK' /\ LocalInv'
<1>1. jobs' \in [Run -> [Kind -> Nat]] /\ finished(w)
  BY ThrowType DEF JobFails
<1> QED
  BY SMTT(20), <1>1, FinishedType DEF JobFails, TypeOK, JobRecord, apiVars

\* Cancelling a run.
LEMMA CancelRunType ==
  ASSUME NEW x \in RunRecord
  PROVE  /\ cancelRun(x) \in RunRecord
         /\ cancelRun(x).status = "CANCELLED" /\ cancelRun(x).cur = NoKey
         /\ cancelRun(x).st = x.st
         /\ cancelRun(x).rows = cancelRows(x.rows)
<1> DEFINE rows == cancelRows(x.rows)
<1>1. rows \in Seq(Row)
  <2>1. x.rows \in Seq(Row) /\ DOMAIN x.rows = 1..Len(x.rows) /\ Len(x.rows) \in Nat
    BY DEF RunRecord
  <2>2. \A i \in 1..Len(x.rows) :
          IF x.rows[i].status = "RUNNING"
          THEN [x.rows[i] EXCEPT !.status = "CANCELLED"] \in Row ELSE x.rows[i] \in Row
    <3>1. \A i \in 1..Len(x.rows) : x.rows[i] \in Row
      BY <2>1
    <3>2. \A y \in Row : [y EXCEPT !.status = "CANCELLED"] \in Row
      BY DEF Row, RowStatus
    <3> QED
      BY <3>1, <3>2
  <2>3. rows \in [1..Len(x.rows) -> Row]
    BY <2>1, <2>2 DEF cancelRows
  <2> QED
    BY <2>1, <2>3
<1>2. cancelRun(x) = [x EXCEPT !.status = "CANCELLED", !.cur = NoKey, !.rows = rows]
  BY DEF cancelRun
<1> HIDE DEF rows
<1>3. /\ cancelRun(x) \in RunRecord
      /\ cancelRun(x).status = "CANCELLED" /\ cancelRun(x).cur = NoKey
      /\ cancelRun(x).st = x.st /\ cancelRun(x).rows = rows
  BY <1>1, <1>2 DEF RunRecord, RunStatus, FinishedRun
<1> QED
  BY <1>3 DEF rows

\* Every start, cancellation and supersession of several runs at once.
LEMMA CancelActiveType ==
  ASSUME TypeOK, NEW r \in Run
  PROVE  runs[r] \in RunRecord /\ cancelRun(runs[r]) \in RunRecord
BY CancelRunType DEF TypeOK, RunRecord

LEMMA FinalType ==
  ASSUME NEW type \in DecisionType
  PROVE  /\ finalStatus(type) \in RunStatus \ {"PENDING", "RUNNING", "CANCELLED"}
         /\ finalTask(type) \in Status \ {"CANCELLED"}
BY EngineAssumption
   DEF finalStatus, finalTask, DecisionType, RunStatus, ActiveRun, FinishedRun

LEMMA FinishType ==
  ASSUME TypeOK, LocalInv, NEW w \in Worker, Finish(w)
  PROVE  TypeOK' /\ LocalInv'
<1> USE DEF apiVars, bounds
<1>1. /\ pc[w] # "idle" /\ job[w].run \in Run /\ mine(w) \in RunRecord
      /\ mem[w] \in Memory /\ mine(w) = runs[job[w].run]
      /\ mem[w].type \in DecisionType /\ Local(pc[w], job[w], mem[w]) /\ pc[w] = "finish"
  BY MineType DEF Finish, Memory
<1>2. CASE mem[w].type = "ABORT"
  <2> DEFINE x == [mine(w) EXCEPT !.status = "FAILED", !.cur = NoKey]
  <2>1. x \in RunRecord
    BY <1>1 DEF RunRecord, RunStatus, FinishedRun
  <2>2. runs' = [runs EXCEPT ![job[w].run] = x] \/ runs' = runs
    BY <1>1, <1>2 DEF Finish, finishRun
  <2> HIDE DEF x
  <2>3. runs' \in [Run -> RunRecord]
    BY <1>1, <2>1, <2>2, RunsType DEF TypeOK, RunRecord
  <2>4. fresh' \in [Worker -> BOOLEAN]
    BY <1>2, TouchType DEF Finish, finishRun, TypeOK
  <2> QED
    BY <1>2, <2>3, <2>4, FinishedType
       DEF Finish, finishRun, acknowledge, TypeOK, JobRecord, RunRecord
<1>3. CASE mem[w].type # "ABORT" /\ mine(w).status \notin ActiveRun
  BY <1>3, FinishedType DEF Finish, finishWorkflow, acknowledge, TypeOK, JobRecord
<1>4. CASE /\ mem[w].type # "ABORT" /\ mine(w).status \in ActiveRun
           /\ route(task, finalTask(mem[w].type)) = <<>>
  BY <1>1, <1>4, FinishedType, ThrowType DEF Finish, finishWorkflow, TypeOK, JobRecord
<1>5. CASE /\ mem[w].type # "ABORT" /\ mine(w).status \in ActiveRun
           /\ route(task, finalTask(mem[w].type)) # <<>>
  <2> DEFINE x == [mine(w) EXCEPT !.status = finalStatus(mem[w].type), !.cur = NoKey]
  <2>1. x \in RunRecord
    BY <1>1, FinalType DEF RunRecord
  <2>2. runs' = [r \in Run |-> IF r = job[w].run THEN x
                               ELSE IF r \in activeRuns THEN cancelRun(runs[r]) ELSE runs[r]]
    BY <1>1, <1>5 DEF Finish, finishWorkflow
  <2> HIDE DEF x
  <2>3. runs' \in [Run -> RunRecord]
    BY <2>1, <2>2, CancelActiveType
  <2>4. task' \in Status /\ fresh' \in [Worker -> BOOLEAN]
    BY <1>1, <1>5, FinalType, TouchType DEF Finish, finishWorkflow
  <2>5. CASE mem[w].type = "WAIT_FOR_HUMAN"
    <3>1. "approve" \in PC /\ Local("approve", job[w], mem[w])
      BY <1>1 DEF Local, Holding, PC
    <3> QED
      BY <1>5, <2>3, <2>4, <2>5, <3>1, GotoType
         DEF Finish, finishWorkflow, TypeOK, JobRecord, RunRecord
  <2>6. CASE mem[w].type # "WAIT_FOR_HUMAN"
    BY <1>5, <2>3, <2>4, <2>6, FinishedType
       DEF Finish, finishWorkflow, acknowledge, TypeOK, JobRecord, RunRecord
  <2> QED
    BY <2>5, <2>6
<1> QED
  BY <1>2, <1>3, <1>4, <1>5

LEMMA RequestApprovalType ==
  ASSUME TypeOK, LocalInv, NEW w \in Worker, RequestApproval(w)
  PROVE  TypeOK' /\ LocalInv'
BY FinishedType DEF RequestApproval, acknowledge, TypeOK, JobRecord, apiVars, bounds

LEMMA CrashType ==
  ASSUME TypeOK, LocalInv, NEW w \in Worker, Crash(w)
  PROVE  TypeOK' /\ LocalInv'
<1>1. jobs' \in [Run -> [Kind -> Nat]]
  BY MineType, EnqueueType DEF Crash
<1> QED
  BY <1>1, FinishedType DEF Crash, TypeOK, JobRecord, apiVars

LEMMA StallType ==
  ASSUME TypeOK, LocalInv, NEW w \in Worker, Stall(w)
  PROVE  TypeOK' /\ LocalInv'
<1>1. jobs' \in [Run -> [Kind -> Nat]]
  BY MineType, EnqueueType DEF Stall
<1> QED
  BY <1>1 DEF Stall, TypeOK, LocalInv, apiVars

\* What the API does leaves the workers' memory alone.
LEMMA ApiLocal ==
  ASSUME LocalInv, UNCHANGED <<pc, job, mem>>
  PROVE  LocalInv'
BY DEF LocalInv

\* A run is a run with another status.
LEMMA StatusSet ==
  ASSUME NEW x \in RunRecord, NEW s \in RunStatus \cup {"NONE"}
  PROVE  [x EXCEPT !.status = s] \in RunRecord
BY DEF RunRecord

\* A new run, by a start or a retry.
LEMMA CreateRunType ==
  ASSUME TypeOK, NEW r \in Run, NEW force, createRun(r, force)
  PROVE  runs' \in [Run -> RunRecord] /\ starting' \in SUBSET Run
<1> DEFINE x == [runs[r] EXCEPT !.status = "PENDING"]
<1>1. x \in RunRecord
  <2>1. runs[r] \in RunRecord BY DEF TypeOK, RunRecord
  <2>2. "PENDING" \in RunStatus \cup {"NONE"} BY DEF RunStatus, ActiveRun
  <2> QED BY <2>1, <2>2, StatusSet
<1>2. runs' = [runs EXCEPT ![r] = x]
  BY DEF createRun
<1> HIDE DEF x
<1> QED
  BY <1>1, <1>2, RunsType DEF createRun, TypeOK

LEMMA StartWorkflowType ==
  ASSUME TypeOK, LocalInv, StartWorkflow
  PROVE  TypeOK' /\ LocalInv'
BY CreateRunType, ApiLocal DEF StartWorkflow, TypeOK, RunRecord, bounds

LEMMA EnqueueStartType ==
  ASSUME TypeOK, LocalInv, NEW r \in Run,
         EnqueueStart(r) \/ EnqueueStartFails(r) \/ ApiCrash(r)
  PROVE  TypeOK' /\ LocalInv'
<1>1. LocalInv'
  BY ApiLocal DEF EnqueueStart, EnqueueStartFails, ApiCrash
<1>2. CASE EnqueueStart(r)
  <2>1. jobs' \in [Run -> [Kind -> Nat]]
    BY <1>2, EnqueueType DEF EnqueueStart, Kind
  <2> QED
    BY <1>1, <1>2, <2>1 DEF EnqueueStart, TypeOK, bounds
<1>3. CASE EnqueueStartFails(r)
  <2> DEFINE s == IF runs[r].status = "PENDING" THEN "FAILED" ELSE runs[r].status
             x == [runs[r] EXCEPT !.status = s]
  <2>1. s \in RunStatus \cup {"NONE"}
    BY DEF TypeOK, RunStatus, FinishedRun
  <2>2. runs' = [runs EXCEPT ![r] = x]
    BY <1>3 DEF EnqueueStartFails
  <2> HIDE DEF s
  <2>3. x \in RunRecord
    <3>1. runs[r] \in RunRecord BY DEF TypeOK, RunRecord
    <3> QED BY <2>1, <3>1, StatusSet
  <2> HIDE DEF x
  <2>4. runs' \in [Run -> RunRecord] /\ fresh' \in [Worker -> BOOLEAN]
    BY <1>3, <2>2, <2>3, RunsType, TouchType DEF EnqueueStartFails
  <2> QED
    BY SMTT(20), <1>1, <1>3, <2>4 DEF EnqueueStartFails, TypeOK, RunRecord
<1>4. CASE ApiCrash(r)
  BY <1>1, <1>4 DEF ApiCrash, TypeOK
<1> QED
  BY <1>2, <1>3, <1>4

LEMMA CancelTaskType ==
  ASSUME TypeOK, LocalInv, CancelTask
  PROVE  TypeOK' /\ LocalInv'
<1>1. runs' \in [Run -> RunRecord]
  BY CancelActiveType DEF CancelTask
<1>2. task' \in Status
  BY EngineAssumption DEF CancelTask
<1> QED
  BY <1>1, <1>2, ApiLocal, TouchType DEF CancelTask, TypeOK, RunRecord, apiVars, bounds

LEMMA HumanTransitionType ==
  ASSUME TypeOK, LocalInv, HumanTransition
  PROVE  TypeOK' /\ LocalInv'
<1>1. task' \in Status
  BY EngineAssumption DEF HumanTransition
<1> QED
  BY <1>1, ApiLocal DEF HumanTransition, TypeOK, apiVars, bounds

LEMMA RetryType ==
  ASSUME TypeOK, LocalInv, RetryRequest \/ RetryRead \/ RetryHop \/ RetryStart
  PROVE  TypeOK' /\ LocalInv'
<1> DEFINE Retry == [at : {"idle", "read", "walk", "start"}, trail : Seq(Status)]
<1>1. LocalInv'
  BY ApiLocal DEF RetryRequest, RetryRead, RetryHop, RetryStart
<1>2. \A a \in {"idle", "read", "walk", "start"} : [at |-> a, trail |-> <<>>] \in Retry
  OBVIOUS
<1>3. CASE RetryRequest
  <2>1. retry' \in Retry
    BY <1>2, <1>3 DEF RetryRequest
  <2> QED
    BY <1>1, <1>3, <2>1 DEF RetryRequest, TypeOK, bounds
<1>4. CASE RetryRead
  <2>1. route(task, "QUEUED") \in Seq(Status)
    BY PathAssumption, EngineAssumption DEF TypeOK
  <2>2. route(task, "QUEUED") # <<>> => Tail(route(task, "QUEUED")) \in Seq(Status)
    BY <2>1
  <2>3. retry' \in Retry
    BY <1>2, <1>4, <2>2 DEF RetryRead
  <2> QED
    BY <1>1, <1>4, <2>3 DEF RetryRead, TypeOK, bounds
<1>5. CASE RetryHop
  <2>1. retry.trail \in Seq(Status) /\ retry \in Retry
    BY DEF TypeOK
  <2>2. retry.trail # <<>> => Tail(retry.trail) \in Seq(Status) /\ Head(retry.trail) \in Status
    BY <2>1
  <2>3. retry' \in Retry /\ task' \in Status
    BY <1>2, <1>5, <2>1, <2>2 DEF RetryHop, TypeOK
  <2> QED
    BY <1>1, <1>5, <2>3 DEF RetryHop, TypeOK, bounds
<1>6. CASE RetryStart
  <2>1. retry' \in Retry
    BY <1>2, <1>6 DEF RetryStart
  <2>2. runs' \in [Run -> RunRecord] /\ starting' \in SUBSET Run
    BY <1>6, CreateRunType DEF RetryStart, TypeOK, RunRecord
  <2> QED
    BY <1>1, <1>6, <2>1, <2>2 DEF RetryStart, TypeOK, RunRecord, bounds
<1> QED
  BY <1>3, <1>4, <1>5, <1>6

LEMMA TypeNext ==
  ASSUME TypeOK, LocalInv, [Next]_vars
  PROVE  TypeOK' /\ LocalInv'
<1>1. CASE \E w \in Worker :
             \/ TakeJob(w) \/ Work(w) \/ HandlerMove(w) \/ Heartbeat(w)
             \/ StepFails(w) \/ JobFails(w) \/ Crash(w) \/ Stall(w)
  <2> PICK w \in Worker :
             \/ TakeJob(w) \/ Work(w) \/ HandlerMove(w) \/ Heartbeat(w)
             \/ StepFails(w) \/ JobFails(w) \/ Crash(w) \/ Stall(w)
    BY <1>1
  <2>1. CASE Work(w)
    BY <2>1, LoadRunType, LoadRowsType, StartRunType, RereadType, ClaimType, EnterType,
       HopType, PersistType, ReleaseType, EnqueueNextType, FinishType, RequestApprovalType
       DEF Work, EntryHop, HandlerHop
  <2> QED
    BY <2>1, TakeJobType, HandlerMoveType, HeartbeatType, StepFailsType,
       JobFailsType, CrashType, StallType
<1>2. CASE \E r \in Run : EnqueueStart(r) \/ EnqueueStartFails(r) \/ ApiCrash(r)
  BY <1>2, EnqueueStartType
<1>3. CASE StartWorkflow \/ CancelTask \/ HumanTransition
  BY <1>3, StartWorkflowType, CancelTaskType, HumanTransitionType
<1>4. CASE RetryRequest \/ RetryRead \/ RetryHop \/ RetryStart
  BY <1>4, RetryType
<1>5. CASE UNCHANGED vars
  BY <1>5 DEF vars, TypeOK, LocalInv
<1> QED
  BY <1>1, <1>2, <1>3, <1>4, <1>5 DEF Next

\* Tables, queue and worker memories keep their types, whatever the policy.
THEOREM TypeCorrect == Spec => []TypeOK
<1>1. Init => TypeOK /\ LocalInv
  BY TypeInit
<1>2. TypeOK /\ LocalInv /\ [Next]_vars => (TypeOK /\ LocalInv)'
  BY TypeNext
<1> QED
  BY <1>1, <1>2, PTL DEF Spec

-----------------------------------------------------------------------------
(***************************************************************************)
(* The shared part. Evolves(x, y): what one write may do to a run that     *)
(* other workers are looking at.                                           *)
(***************************************************************************)
Evolves(x, y) ==
  /\ y.status \in {"NONE", "PENDING"} => x.status = y.status
  /\ DOMAIN x.rows \subseteq DOMAIN y.rows
  /\ \A i \in DOMAIN x.rows : /\ y.rows[i].key = x.rows[i].key
                              /\ x.rows[i].attempt <= y.rows[i].attempt

LEMMA SharedInit == Init => SharedInv
<1> SUFFICES ASSUME Init PROVE SharedInv
  OBVIOUS
<1>1. \A r \in Run : Tidy(runs[r])
  BY DEF Init, Tidy, NoRun, executing
<1>2. Created /\ UniqueTokens /\ \A w \in Worker : Know(w) /\ Current(w)
  BY DEF Init, Created, UniqueTokens, Know, Current, Holding
<1> QED
  BY <1>1, <1>2 DEF SharedInv

\* A worker that did nothing, when its run did not change or evolved.
LEMMA Bystander ==
  ASSUME TypeOK, LocalInv, SharedInv, TypeOK', NEW u \in Worker,
         pc'[u] = pc[u], job'[u] = job[u], mem'[u] = mem[u],
         pc[u] # "idle" =>
           \/ mine(u)' = mine(u) /\ (fresh'[u] => fresh[u])
           \/ /\ Evolves(mine(u), mine(u)') /\ ~fresh'[u]
              /\ pc[u] \in Holding => ~claimStands(u)'
  PROVE  Know(u)' /\ Current(u)'
<1>1. CASE pc[u] = "idle"
  BY <1>1 DEF Know, Current, Holding
<1>2. CASE pc[u] # "idle" /\ mine(u)' = mine(u) /\ (fresh'[u] => fresh[u])
  <2>1. Know(u) /\ Current(u)
    BY DEF SharedInv
  <2>2. claimStands(u)' => claimStands(u)
    BY <1>2 DEF claimStands
  <2> QED
    BY <1>2, <2>1, <2>2 DEF Know, Current, Picture, Claimed
<1>3. CASE /\ pc[u] # "idle" /\ Evolves(mine(u), mine(u)')
           /\ ~fresh'[u] /\ (pc[u] \in Holding => ~claimStands(u)')
  <2>1. Know(u) /\ mem[u] \in Memory /\ mine(u) \in RunRecord
    BY <1>3, MineType DEF SharedInv
  <2>2. Picture(pc[u], mem[u], fresh[u], mine(u)) /\ Claimed(pc[u], mem[u], mine(u))
    BY <1>3, <2>1 DEF Know
  <2>3. Picture(pc[u], mem[u], fresh'[u], mine(u)')
    BY <1>3, <2>2 DEF Picture, Evolves
  <2>4. Claimed(pc[u], mem[u], mine(u)')
    <3> SUFFICES ASSUME pc[u] \in Holding PROVE Claimed(pc[u], mem[u], mine(u)')
      BY DEF Claimed
    <3> DEFINE i == mem[u].row
    <3>1. /\ i \in DOMAIN mine(u).rows /\ mine(u).rows[i].key = mem[u].key
          /\ mem[u].attempt <= mine(u).rows[i].attempt
      BY <2>2 DEF Claimed
    <3>2. i \in DOMAIN mine(u)'.rows /\ mine(u)'.rows[i].key = mem[u].key
      BY <1>3, <3>1 DEF Evolves
    <3>3. mem[u].attempt <= mine(u)'.rows[i].attempt
      <4>1. mine(u)' \in RunRecord
        BY <1>3, MineType DEF mine, TypeOK, RunRecord
      <4>2. mine(u).rows[i] \in Row /\ mine(u)'.rows[i] \in Row
        BY <2>1, <3>1, <3>2, <4>1 DEF RunRecord
      <4>3. /\ mem[u].attempt \in Nat /\ mine(u).rows[i].attempt \in Nat
            /\ mine(u)'.rows[i].attempt \in Nat
        BY <2>1, <4>2 DEF Row, Memory
      <4>4. mine(u).rows[i].attempt <= mine(u)'.rows[i].attempt
        BY <1>3, <3>1 DEF Evolves
      <4> QED
        BY <3>1, <4>3, <4>4
    <3> QED
      BY <3>2, <3>3 DEF Claimed
  <2> QED
    BY <1>3, <2>3, <2>4 DEF Know, Current
<1> QED
  BY <1>1, <1>2, <1>3

\* Tokens stay unique as long as nobody claims.
LEMMA TokensKept ==
  ASSUME UniqueTokens,
         \A u \in Worker : pc'[u] \in Holding =>
           /\ pc[u] \in Holding /\ job'[u].run = job[u].run
           /\ mem'[u].row = mem[u].row /\ mem'[u].attempt = mem[u].attempt
  PROVE  UniqueTokens'
BY DEF UniqueTokens

\* Jobs come only for runs that exist.
LEMMA CreatedKept ==
  ASSUME Created,
         \A r \in Run : runs'[r].status = "NONE" =>
           /\ runs[r].status = "NONE"
           /\ r \in starting' => r \in starting
           /\ \A k \in Kind : jobs[r][k] = 0 => jobs'[r][k] = 0
           /\ \A u \in Worker : pc'[u] # "idle" /\ job'[u].run = r =>
                                  pc[u] # "idle" /\ job[u].run = r
  PROVE  Created'
BY DEF Created

\* The run of a busy worker exists.
LEMMA MineExists ==
  ASSUME TypeOK, LocalInv, SharedInv, NEW w \in Worker, pc[w] # "idle"
  PROVE  mine(w).status # "NONE"
BY MineType DEF SharedInv, Created

\* A worker in none of the places where it knows something.
LEMMA Ignorant ==
  ASSUME NEW w \in Worker, pc'[w] \in {"idle", "load", "finish", "approve", "next"}
  PROVE  Know(w)' /\ Current(w)' /\ pc'[w] \notin Holding
BY DEF Know, Current, Picture, Claimed, Holding

\* A job that is over and changed no run.
LEMMA FinishedShared ==
  ASSUME TypeOK, LocalInv, SharedInv, TypeOK', NEW w \in Worker, pc[w] # "idle",
         finished(w), runs' = runs, starting' = starting,
         \A u \in Worker \ {w} : fresh'[u] => fresh[u],
         jobs' = jobs \/ \E k \in Kind : enqueue(job[w].run, k)
  PROVE  SharedInv'
<1>1. pc'[w] = "idle" /\ \A u \in Worker \ {w} :
        pc'[u] = pc[u] /\ job'[u] = job[u] /\ mem'[u] = mem[u] /\ mine(u)' = mine(u)
  BY DEF finished, TypeOK, mine
<1>2. \A u \in Worker : Know(u)' /\ Current(u)'
  BY <1>1, Bystander, Ignorant
<1>3. UniqueTokens'
  BY <1>1, TokensKept DEF SharedInv, Holding
<1>4. \A r \in Run : runs[r].status = "NONE" => \A k \in Kind : jobs'[r][k] = jobs[r][k]
  <2>1. job[w].run \in Run /\ runs[job[w].run].status # "NONE"
    BY MineType, MineExists
  <2> QED
    BY <2>1 DEF enqueue, TypeOK
<1>5. Created'
  BY <1>1, <1>4, CreatedKept DEF SharedInv
<1> QED
  BY <1>2, <1>3, <1>5 DEF SharedInv

\* A worker that moves on in its job and changed no run.
LEMMA MovedShared ==
  ASSUME TypeOK, LocalInv, SharedInv, TypeOK', NEW w \in Worker, pc[w] # "idle",
         runs' = runs, starting' = starting, jobs' = jobs, job' = job,
         \A u \in Worker \ {w} : pc'[u] = pc[u] /\ mem'[u] = mem[u] /\ fresh'[u] = fresh[u],
         Know(w)', Current(w)',
         pc'[w] \in Holding =>
           /\ pc[w] \in Holding
           /\ mem'[w].row = mem[w].row /\ mem'[w].attempt = mem[w].attempt
  PROVE  SharedInv'
<1>1. \A u \in Worker : mine(u)' = mine(u)
  BY DEF mine
<1>2. \A u \in Worker : Know(u)' /\ Current(u)'
  BY <1>1, Bystander
<1>3. UniqueTokens'
  BY TokensKept DEF SharedInv
<1>4. Created'
  BY CreatedKept DEF SharedInv
<1> QED
  BY <1>2, <1>3, <1>4 DEF SharedInv

\* A worker goes on holding its claim.
LEMMA HolderShared ==
  ASSUME TypeOK, LocalInv, SharedInv, TypeOK', NEW w \in Worker,
         pc[w] \in Holding, pc'[w] \in Holding,
         runs' = runs, starting' = starting, jobs' = jobs, job' = job, fresh' = fresh,
         \A u \in Worker \ {w} : pc'[u] = pc[u] /\ mem'[u] = mem[u],
         /\ mem'[w].key = mem[w].key /\ mem'[w].st = mem[w].st
         /\ mem'[w].row = mem[w].row /\ mem'[w].attempt = mem[w].attempt
  PROVE  SharedInv'
<1>1. mine(w)' = mine(w) /\ pc[w] # "idle" /\ pc'[w] # "idle"
  BY DEF mine, Holding
<1>2. Know(w) /\ Current(w)
  BY DEF SharedInv
<1>3. Know(w)'
  <2>1. Claimed(pc'[w], mem'[w], mine(w)')
    BY <1>1, <1>2 DEF Know, Claimed
  <2>2. Picture(pc'[w], mem'[w], fresh'[w], mine(w)')
    BY DEF Picture, Holding
  <2> QED
    BY <2>1, <2>2 DEF Know
<1>4. Current(w)'
  BY <1>1, <1>2 DEF Current, claimStands
<1> QED
  BY <1>1, <1>3, <1>4, MovedShared

-----------------------------------------------------------------------------
(***************************************************************************)
(* One lemma per action: it preserves the shared part. First the actions   *)
(* that write no run.                                                      *)
(***************************************************************************)
LEMMA TakeJobShared ==
  ASSUME TypeOK, LocalInv, SharedInv, TypeOK', NEW w \in Worker, TakeJob(w)
  PROVE  SharedInv'
<1>1. PICK r \in Run, kind \in Kind :
        /\ jobs[r][kind] > 0
        /\ jobs' = [jobs EXCEPT ![r][kind] = @ - 1]
        /\ job' = [job EXCEPT ![w] = [run |-> r, kind |-> kind]]
  BY DEF TakeJob
<1>2. runs[r].status # "NONE"
  <2>1. jobs[r][kind] # 0
    BY <1>1 DEF TypeOK
  <2> QED
    BY <2>1 DEF SharedInv, Created
<1>3. /\ pc'[w] = "load" /\ job'[w].run = r
      /\ \A u \in Worker \ {w} : /\ pc'[u] = pc[u] /\ job'[u] = job[u] /\ mem'[u] = mem[u]
                                 /\ mine(u)' = mine(u) /\ fresh'[u] = fresh[u]
  BY <1>1 DEF TakeJob, TypeOK, mine
<1>4. \A u \in Worker : Know(u)' /\ Current(u)'
  BY <1>3, Bystander, Ignorant
<1>5. UniqueTokens'
  BY <1>3, TokensKept DEF SharedInv, Holding
<1>6. \A q \in Run : runs[q].status = "NONE" => \A k \in Kind : jobs'[q][k] = jobs[q][k]
  BY <1>1, <1>2 DEF TypeOK
<1>7. Created'
  BY <1>2, <1>3, <1>6, CreatedKept DEF SharedInv, TakeJob, apiVars
<1> QED
  BY <1>4, <1>5, <1>7 DEF SharedInv, TakeJob

LEMMA LoadRunShared ==
  ASSUME TypeOK, LocalInv, SharedInv, TypeOK', NEW w \in Worker, LoadRun(w)
  PROVE  SharedInv'
<1> USE DEF apiVars, bounds
<1>1. CASE mine(w).status \in FinishedRun
  BY <1>1, FinishedShared DEF LoadRun, acknowledge
<1>2. CASE mine(w).status \notin FinishedRun
  <2> DEFINE m == [mem[w] EXCEPT !.status = mine(w).status, !.cur = mine(w).cur,
                                 !.st = mine(w).st]
  <2>1. /\ pc[w] # "idle" /\ pc' = [pc EXCEPT ![w] = "rows"] /\ job' = job
        /\ mem' = [mem EXCEPT ![w] = m] /\ fresh' = [fresh EXCEPT ![w] = TRUE]
        /\ runs' = runs /\ starting' = starting /\ jobs' = jobs
    BY <1>2 DEF LoadRun, goto
  <2>2. m.status = mine(w).status /\ m.cur = mine(w).cur /\ m.st = mine(w).st
    BY <2>1, MineType DEF Memory
  <2> HIDE DEF m
  <2>3. pc'[w] = "rows" /\ mem'[w] = m /\ mine(w)' = mine(w) /\ mine(w) = runs[job[w].run]
    BY <2>1 DEF TypeOK, mine
  <2>4. Tidy(mine(w))
    BY <2>1, <2>3, MineType DEF SharedInv
  <2>5. Know(w)' /\ Current(w)'
    BY <2>2, <2>3, <2>4 DEF Know, Current, Picture, Claimed, Holding, Tidy
  <2> QED
    BY <2>1, <2>3, <2>5, MovedShared DEF TypeOK, Holding
<1> QED
  BY <1>1, <1>2

LEMMA LoadRowsShared ==
  ASSUME TypeOK, LocalInv, SharedInv, TypeOK', NEW w \in Worker, LoadRows(w)
  PROVE  SharedInv'
<1> USE DEF apiVars, bounds
<1>1. PICK d \in Decisions(mine(w).rows) \cap Decision, expired \in BOOLEAN :
        IF d.type = "RUN_STEP" /\ leased(mine(w).rows, mem[w].cur, d.key, expired)
        THEN acknowledge(w) /\ fresh' = [fresh EXCEPT ![w] = FALSE]
        ELSE \E i \in 0..Len(mine(w).rows) :
               /\ IF d.type = "RUN_STEP"
                  THEN reusable(mine(w).rows, mem[w].cur, d.key, i) ELSE i = 0
               /\ mem' = [mem EXCEPT ![w] = intention(w, d, i)]
               /\ goto(w, afterDecision(d.type, mem[w].status))
               /\ UNCHANGED <<jobs, fresh>>
  BY DEF LoadRows
<1>2. CASE d.type = "RUN_STEP" /\ leased(mine(w).rows, mem[w].cur, d.key, expired)
  <2>1. finished(w) /\ jobs' = jobs /\ \A u \in Worker \ {w} : fresh'[u] = fresh[u]
    BY <1>1, <1>2 DEF acknowledge, TypeOK
  <2> QED
    BY <2>1, FinishedShared DEF LoadRows
<1>3. CASE ~(d.type = "RUN_STEP" /\ leased(mine(w).rows, mem[w].cur, d.key, expired))
  <2>1. PICK i \in 0..Len(mine(w).rows) :
          /\ IF d.type = "RUN_STEP"
             THEN reusable(mine(w).rows, mem[w].cur, d.key, i) ELSE i = 0
          /\ mem' = [mem EXCEPT ![w] = intention(w, d, i)]
          /\ goto(w, afterDecision(d.type, mem[w].status))
          /\ UNCHANGED <<jobs, fresh>>
    BY <1>1, <1>3
  <2> DEFINE m == intention(w, d, i)
             p == afterDecision(d.type, mem[w].status)
             x == mine(w)
  <2>2. pc[w] = "rows" /\ pc[w] # "idle" /\ runs' = runs /\ starting' = starting
    BY DEF LoadRows
  <2>3. /\ m.type = d.type /\ m.key = d.key /\ m.reuse = i /\ m.len = Len(x.rows)
        /\ m.status = mem[w].status /\ m.cur = mem[w].cur /\ m.st = mem[w].st
    BY <2>2, IntentionType
  <2>4. x \in RunRecord /\ Tidy(x) /\ Picture("rows", mem[w], fresh[w], x)
    BY <2>2, MineType DEF SharedInv, Know
  <2>5. p \in {"start", "claim", "finish"} /\ (p = "start" <=> mem[w].status = "PENDING")
    BY DEF afterDecision
  <2>6. i # 0 => i \in DOMAIN x.rows
    BY <2>4 DEF RunRecord
  <2>7. i # 0 => x.rows[i].key = d.key
    <3>1. CASE d.type = "RUN_STEP"
      BY <2>1, <3>1 DEF reusable, abandoned, unfinished
    <3>2. CASE d.type # "RUN_STEP"
      BY <2>1, <3>2
    <3> QED
      BY <3>1, <3>2
  <2>8. x.status = "PENDING" => Len(x.rows) = 0 /\ i = 0
    BY <2>4 DEF Tidy
  <2>9. /\ pc'[w] = p /\ mem'[w] = m /\ mine(w)' = x /\ job' = job /\ fresh' = fresh
        /\ \A u \in Worker \ {w} : pc'[u] = pc[u] /\ mem'[u] = mem[u]
    BY <2>1, <2>2 DEF goto, mine, TypeOK
  <2> HIDE DEF m, p, x
  <2>10. Picture(p, m, fresh[w], x)
    BY <2>3, <2>4, <2>5, <2>6, <2>7, <2>8 DEF Picture
  <2>11. p \notin Holding /\ p # "idle"
    BY <2>5 DEF Holding
  <2>12. Know(w)' /\ Current(w)'
    BY <2>9, <2>10, <2>11 DEF Know, Current, Claimed
  <2> QED
    BY <2>1, <2>2, <2>9, <2>11, <2>12, MovedShared
<1> QED
  BY <1>2, <1>3

LEMMA RereadShared ==
  ASSUME TypeOK, LocalInv, SharedInv, TypeOK', NEW w \in Worker, Reread(w)
  PROVE  SharedInv'
<1> USE DEF apiVars, bounds
<1>1. CASE mine(w).status # "RUNNING"
  BY <1>1, FinishedShared DEF Reread, acknowledge
<1>2. CASE mine(w).status = "RUNNING"
  <2>1. /\ pc[w] = "reread" /\ pc'[w] \in {"claim", "finish"} /\ mem' = mem /\ job' = job
        /\ runs' = runs /\ starting' = starting /\ jobs' = jobs
        /\ \A u \in Worker \ {w} : pc'[u] = pc[u] /\ fresh'[u] = fresh[u]
    BY <1>2 DEF Reread, goto, TypeOK
  <2>2. Picture("reread", mem[w], fresh[w], mine(w)) /\ mine(w)' = mine(w)
    BY <2>1 DEF SharedInv, Know, mine
  <2>3. Picture(pc'[w], mem[w], fresh'[w], mine(w))
    BY <2>1, <2>2 DEF Picture
  <2>4. pc'[w] \notin Holding
    BY <2>1 DEF Holding
  <2>5. Know(w)' /\ Current(w)'
    BY <2>1, <2>2, <2>3, <2>4 DEF Know, Current, Claimed
  <2> QED
    BY <2>1, <2>4, <2>5, MovedShared
<1> QED
  BY <1>1, <1>2

\* A walk concerns the trail alone.
LEMMA TrailOnly ==
  ASSUME TypeOK, NEW w \in Worker, NEW s, mem' = [mem EXCEPT ![w] = [@ EXCEPT !.trail = s]]
  PROVE  /\ mem'[w].key = mem[w].key /\ mem'[w].st = mem[w].st
         /\ mem'[w].row = mem[w].row /\ mem'[w].attempt = mem[w].attempt
<1>1. mem[w] \in Memory /\ mem'[w] = [mem[w] EXCEPT !.trail = s]
  BY DEF TypeOK
<1> QED
  BY <1>1 DEF Memory

\* Entering a status, moving the task, and failing to write: w keeps its claim.
LEMMA WalkToShared ==
  ASSUME TypeOK, LocalInv, SharedInv, TypeOK', NEW w \in Worker, pc[w] \in Holding,
         NEW target, NEW arrived \in Holding, NEW walking \in Holding, NEW lost \in Holding,
         walkTo(w, target, arrived, walking, lost),
         runs' = runs, starting' = starting, jobs' = jobs, fresh' = fresh
  PROVE  SharedInv'
<1>1. /\ pc'[w] \in Holding /\ job' = job
      /\ \A u \in Worker \ {w} : pc'[u] = pc[u] /\ mem'[u] = mem[u]
  BY DEF walkTo, goto, TypeOK
<1>2. /\ mem'[w].key = mem[w].key /\ mem'[w].st = mem[w].st
      /\ mem'[w].row = mem[w].row /\ mem'[w].attempt = mem[w].attempt
  <2>1. mem' = mem \/ mem' = [mem EXCEPT ![w] = [@ EXCEPT !.trail = route(task, target)]]
    BY DEF walkTo
  <2> QED
    BY <2>1, TrailOnly
<1> QED
  BY <1>1, <1>2, HolderShared

LEMMA HopShared ==
  ASSUME TypeOK, LocalInv, SharedInv, TypeOK', NEW w \in Worker,
         NEW arrived \in Holding, NEW walking \in Holding, NEW lost \in Holding,
         hop(w, walking, arrived, lost)
  PROVE  SharedInv'
<1>1. /\ pc'[w] \in Holding /\ job' = job /\ pc[w] \in Holding
      /\ \A u \in Worker \ {w} : pc'[u] = pc[u] /\ mem'[u] = mem[u]
  BY DEF hop, goto, TypeOK
<1>2. /\ mem'[w].key = mem[w].key /\ mem'[w].st = mem[w].st
      /\ mem'[w].row = mem[w].row /\ mem'[w].attempt = mem[w].attempt
  <2>1. \/ mem' = [mem EXCEPT ![w] = [@ EXCEPT !.trail = <<>>]]
        \/ mem' = [mem EXCEPT ![w] = [@ EXCEPT !.trail =
                      IF Len(mem[w].trail) = 2 THEN <<>> ELSE Tail(mem[w].trail)]]
    BY DEF hop
  <2> QED
    BY <2>1, TrailOnly
<1> QED
  BY <1>1, <1>2, HolderShared DEF hop, apiVars

LEMMA HoldingShared ==
  ASSUME TypeOK, LocalInv, SharedInv, TypeOK', NEW w \in Worker,
         Enter(w) \/ HandlerMove(w) \/ EntryHop(w) \/ HandlerHop(w) \/ StepFails(w)
  PROVE  SharedInv'
<1>1. CASE Enter(w)
  BY <1>1, WalkToShared DEF Enter, Holding, apiVars
<1>2. CASE HandlerMove(w)
  BY <1>2, WalkToShared DEF HandlerMove, Holding, apiVars
<1>3. CASE EntryHop(w)
  BY <1>3, HopShared DEF EntryHop, Holding
<1>4. CASE HandlerHop(w)
  BY <1>4, HopShared DEF HandlerHop, Holding
<1>5. CASE StepFails(w)
  <2>1. /\ pc[w] \in Holding /\ pc'[w] \in Holding
        /\ \A u \in Worker \ {w} : pc'[u] = pc[u] /\ mem'[u] = mem[u]
    BY <1>5 DEF StepFails, goto, Holding, TypeOK
  <2>2. mem' = [mem EXCEPT ![w] = [@ EXCEPT !.trail = <<>>]]
    BY <1>5 DEF StepFails
  <2>3. /\ mem'[w].key = mem[w].key /\ mem'[w].st = mem[w].st
        /\ mem'[w].row = mem[w].row /\ mem'[w].attempt = mem[w].attempt
    BY <2>2, TrailOnly
  <2> QED
    BY <1>5, <2>1, <2>3, HolderShared DEF StepFails, goto, apiVars
<1> QED
  BY <1>1, <1>2, <1>3, <1>4, <1>5

\* A run that is touched, by nobody's step.
LEMMA UntouchedShared ==
  ASSUME TypeOK, LocalInv, SharedInv, TypeOK', runs' = runs,
         UNCHANGED <<pc, job, mem>>, \A u \in Worker : fresh'[u] => fresh[u], Created'
  PROVE  SharedInv'
<1>1. \A u \in Worker : mine(u)' = mine(u)
  BY DEF mine
<1>2. \A u \in Worker : Know(u)' /\ Current(u)'
  BY <1>1, Bystander
<1>3. UniqueTokens'
  BY TokensKept DEF SharedInv
<1> QED
  BY <1>2, <1>3 DEF SharedInv

LEMMA HeartbeatShared ==
  ASSUME TypeOK, LocalInv, SharedInv, TypeOK', NEW w \in Worker, Heartbeat(w)
  PROVE  SharedInv'
<1>1. \A u \in Worker : fresh'[u] => fresh[u]
  BY DEF Heartbeat, touch
<1>2. Created'
  BY CreatedKept DEF SharedInv, Heartbeat, apiVars
<1> QED
  BY <1>1, <1>2, UntouchedShared DEF Heartbeat

LEMMA StallShared ==
  ASSUME TypeOK, LocalInv, SharedInv, TypeOK', NEW w \in Worker, Stall(w)
  PROVE  SharedInv'
<1>1. \A r \in Run : runs[r].status = "NONE" => \A k \in Kind : jobs'[r][k] = jobs[r][k]
  <2>1. job[w].run \in Run /\ runs[job[w].run].status # "NONE"
    BY MineType, MineExists DEF Stall
  <2> QED
    BY <2>1 DEF Stall, enqueue, TypeOK
<1>2. Created'
  BY <1>1, CreatedKept DEF SharedInv, Stall, apiVars
<1> QED
  BY <1>2, UntouchedShared DEF Stall

LEMMA JobOverShared ==
  ASSUME TypeOK, LocalInv, SharedInv, TypeOK', NEW w \in Worker,
         EnqueueNext(w) \/ JobFails(w) \/ RequestApproval(w) \/ Crash(w)
  PROVE  SharedInv'
<1>1. pc[w] # "idle" /\ finished(w) /\ runs' = runs /\ starting' = starting
  BY DEF EnqueueNext, JobFails, RequestApproval, Crash, throw, acknowledge, apiVars
<1>2. \A u \in Worker \ {w} : fresh'[u] = fresh[u]
  BY DEF EnqueueNext, JobFails, RequestApproval, Crash, TypeOK
<1>3. jobs' = jobs \/ \E k \in Kind : enqueue(job[w].run, k)
  BY MineType DEF EnqueueNext, JobFails, RequestApproval, Crash, throw,
                  acknowledge, Kind
<1> QED
  BY <1>1, <1>2, <1>3, FinishedShared

-----------------------------------------------------------------------------
(***************************************************************************)
(* The actions that write runs.                                            *)
(***************************************************************************)

\* Everything about other workers, when one write evolves or keeps each run.
LEMMA OthersShared ==
  ASSUME TypeOK, LocalInv, SharedInv, TypeOK', NEW W \in SUBSET Worker,
         \A r \in Run : runs'[r] = runs[r] \/ Evolves(runs[r], runs'[r]),
         \A u \in Worker \ W :
           /\ pc'[u] = pc[u] /\ job'[u] = job[u] /\ mem'[u] = mem[u]
           /\ fresh'[u] => fresh[u]
           /\ pc[u] # "idle" /\ mine(u)' # mine(u) =>
                ~fresh'[u] /\ (pc[u] \in Holding => ~claimStands(u)')
  PROVE  \A u \in Worker \ W : Know(u)' /\ Current(u)'
<1> SUFFICES ASSUME NEW u \in Worker \ W PROVE Know(u)' /\ Current(u)'
  OBVIOUS
<1>1. pc[u] # "idle" => mine(u)' = mine(u) \/ Evolves(mine(u), mine(u)')
  <2>1. pc[u] # "idle" => job[u].run \in Run
    BY MineType
  <2> QED
    BY <2>1 DEF mine
<1> QED
  BY <1>1, Bystander

\* A run that evolves is not created or uncreated.
LEMMA EvolvedCreated ==
  ASSUME SharedInv, \A r \in Run : runs'[r] = runs[r] \/ Evolves(runs[r], runs'[r]),
         starting' \subseteq starting, jobs' = jobs,
         \A u \in Worker : pc'[u] # "idle" => pc[u] # "idle" /\ job'[u] = job[u]
  PROVE  Created'
<1>1. \A r \in Run : runs'[r].status = "NONE" => runs[r].status = "NONE"
  BY DEF Evolves
<1> QED
  BY <1>1, CreatedKept DEF SharedInv

LEMMA StartRunShared ==
  ASSUME TypeOK, LocalInv, SharedInv, TypeOK', NEW w \in Worker, StartRun(w)
  PROVE  SharedInv'
<1> USE DEF apiVars, bounds
<1> DEFINE r == job[w].run
           x == runs[r]
           y == runs'[r]
<1>1. /\ pc[w] = "start" /\ pc[w] # "idle" /\ r \in Run /\ x = mine(w)
      /\ x \in RunRecord /\ Tidy(x) /\ Picture("start", mem[w], fresh[w], x)
  BY MineType DEF StartRun, SharedInv, Know
<1>2. CASE mine(w).status # "PENDING"
  <2>1. finished(w) /\ jobs' = jobs /\ \A u \in Worker \ {w} : fresh'[u] = fresh[u]
    BY <1>2 DEF StartRun, acknowledge, TypeOK
  <2> QED
    BY <1>1, <1>2, <2>1, FinishedShared DEF StartRun
<1>3. CASE mine(w).status = "PENDING"
  <2>1. /\ runs' = [runs EXCEPT ![r] = [x EXCEPT !.status = "RUNNING"]]
        /\ fresh' = [u \in Worker |-> fresh[u] /\ job[u].run \notin {r}]
        /\ pc' = [pc EXCEPT ![w] = "reread"] /\ job' = job /\ mem' = mem
        /\ jobs' = jobs /\ starting' = starting
    BY <1>3 DEF StartRun, touch, goto
  <2>2. /\ y.status = "RUNNING" /\ y.rows = <<>> /\ y.cur = NoKey /\ y.st = x.st
        /\ x.rows = <<>> /\ \A q \in Run \ {r} : runs'[q] = runs[q]
    BY <1>1, <1>3, <2>1 DEF TypeOK, RunRecord, Tidy
  <2>3. Tidy(y) /\ Evolves(x, y)
    BY <1>1, <2>2 DEF Tidy, executing, Evolves
  <2> HIDE DEF x, y
  <2>4. \A q \in Run : Tidy(runs'[q]) /\ (runs'[q] = runs[q] \/ Evolves(runs[q], runs'[q]))
    BY <2>2, <2>3 DEF SharedInv, x, y
  <2>5. \A u \in Worker \ {w} : pc[u] # "idle" /\ mine(u)' # mine(u) =>
          ~fresh'[u] /\ ~claimStands(u)'
    <3> SUFFICES ASSUME NEW u \in Worker \ {w}, pc[u] # "idle", mine(u)' # mine(u)
                 PROVE  ~fresh'[u] /\ ~claimStands(u)'
      OBVIOUS
    <3>1. job[u].run = r /\ mine(u)' = y
      BY <2>1, <2>2, MineType DEF mine, x, y
    <3>2. ~fresh'[u]
      BY <2>1, <3>1
    <3>3. DOMAIN mine(u)'.rows = {}
      BY <2>2, <3>1
    <3>4. ~claimStands(u)'
      BY <3>3 DEF claimStands
    <3> QED
      BY <3>2, <3>4
  <2>6. /\ pc'[w] = "reread" /\ ~fresh'[w] /\ mem'[w] = mem[w]
        /\ \A u \in Worker \ {w} : pc'[u] = pc[u] /\ mem'[u] = mem[u] /\ job'[u] = job[u]
        /\ \A u \in Worker : fresh'[u] => fresh[u]
    BY <2>1 DEF TypeOK
  <2>7. \A u \in Worker \ {w} : Know(u)' /\ Current(u)'
    BY <2>4, <2>5, <2>6, OthersShared
  <2>8. Know(w)' /\ Current(w)'
    BY <1>1, <1>3, <2>6 DEF Know, Current, Picture, Claimed, Holding
  <2>9. UniqueTokens'
    BY <2>1, <2>6, TokensKept DEF SharedInv, Holding, TypeOK
  <2>10. Created'
    BY <1>1, <2>1, <2>4, EvolvedCreated DEF TypeOK
  <2> QED
    BY <2>4, <2>7, <2>8, <2>9, <2>10 DEF SharedInv
<1> QED
  BY <1>2, <1>3

\* What a claim writes: one row, RUNNING, under a new attempt; no other row
\* of the run was RUNNING.
LEMMA ClaimWrites ==
  ASSUME TypeOK, LocalInv, SharedInv, NEW w \in Worker, pc[w] = "claim", mayClaim(w),
         ~(mem[w].reuse = 0 /\ Len(mine(w).rows) # mem[w].len)
  PROVE  /\ DOMAIN claimedRows(w) = DOMAIN mine(w).rows \cup {token(w).row}
         /\ claimedRows(w)[token(w).row].key = mem[w].key
         /\ claimedRows(w)[token(w).row].status = "RUNNING"
         /\ claimedRows(w)[token(w).row].attempt = token(w).attempt
         /\ \A j \in DOMAIN mine(w).rows \ {token(w).row} :
              claimedRows(w)[j] = mine(w).rows[j]
         /\ token(w).row \in DOMAIN mine(w).rows =>
              /\ mine(w).rows[token(w).row].key = mem[w].key
              /\ mine(w).rows[token(w).row].attempt < token(w).attempt
         /\ \A j \in executing(mine(w)) : j = token(w).row
         /\ mem[w].st = mine(w).st
<1> DEFINE t    == token(w).row
           a    == token(w).attempt
           old  == mine(w).rows
           rows == claimedRows(w)
           x    == mine(w)
<1>1. /\ x \in RunRecord /\ Tidy(x) /\ Picture("claim", mem[w], fresh[w], x)
      /\ mem[w] \in Memory /\ Intent(mem[w]) /\ mem[w].key \in Key
      /\ mem[w].type = "RUN_STEP" /\ old \in Seq(Row)
  BY MineType DEF SharedInv, Know, Local, RunRecord
<1>2. /\ t = (IF mem[w].reuse = 0 THEN mem[w].len + 1 ELSE mem[w].reuse)
      /\ a = (IF mem[w].reuse = 0 THEN 1 ELSE mem[w].rattempt + 1)
  BY TokenType
<1>3. x.status = "RUNNING" /\ x.cur = mem[w].cur /\ fresh[w]
  BY DEF mayClaim
<1>4. CASE mem[w].reuse = 0
  <2>1. Len(old) = mem[w].len /\ t = Len(old) + 1 /\ a = 1
    BY <1>2, <1>4
  <2>2. rows = Append(old, [key |-> mem[w].key, status |-> "RUNNING", attempt |-> 1])
    BY <1>4 DEF claimedRows
  <2>3. executing(x) = {}
    BY <1>1, <1>3, <1>4 DEF Intent, Tidy
  <2>4. mem[w].st = x.st
    <3>1. CASE mem[w].status = "PENDING"
      <4>1. mem[w].len = 0 /\ mem[w].st = 0
        BY <1>1, <3>1 DEF Picture
      <4>2. old = <<>>
        BY <1>1, <2>1, <4>1
      <4> QED
        BY <1>1, <4>1, <4>2 DEF Tidy
    <3>2. CASE mem[w].status # "PENDING"
      BY <1>1, <1>3, <3>2 DEF Picture
    <3> QED
      BY <3>1, <3>2
  <2> HIDE DEF t, a, old, rows, x
  <2>5. /\ DOMAIN rows = DOMAIN old \cup {t} /\ t \notin DOMAIN old
        /\ rows[t].key = mem[w].key /\ rows[t].status = "RUNNING" /\ rows[t].attempt = a
        /\ \A j \in DOMAIN old \ {t} : rows[j] = old[j]
    BY <1>1, <2>1, <2>2
  <2> QED
    BY <2>3, <2>4, <2>5 DEF t, a, old, rows, x
<1>5. CASE mem[w].reuse # 0
  <2>1. t = mem[w].reuse /\ a = mem[w].rattempt + 1
    BY <1>2, <1>5
  <2>2. mem[w].st = x.st
    BY <1>1, <1>3, <1>5 DEF Picture
  <2>3. t \in DOMAIN old /\ old[t].key = mem[w].key
    BY <1>1, <1>5, <2>1 DEF Picture
  <2>4. old[t].status = mem[w].rstatus /\ old[t].attempt = mem[w].rattempt
    BY <1>5, <2>1 DEF mayClaim
  <2>5. \A j \in executing(x) : j = t
    <3>1. CASE x.cur = NoKey
      BY <1>1, <1>3, <3>1 DEF Tidy
    <3>2. CASE x.cur # NoKey
      <4>1. mem[w].rstatus = "RUNNING"
        BY <1>1, <1>3, <3>2 DEF Intent
      <4>2. t \in executing(x)
        BY <2>3, <2>4, <4>1 DEF executing
      <4> QED
        BY <1>1, <1>3, <3>2, <4>2 DEF Tidy
    <3> QED
      BY <3>1, <3>2
  <2> DEFINE y == [old[t] EXCEPT !.status = "RUNNING", !.attempt = a]
  <2>6. rows = [old EXCEPT ![t] = y]
    BY <1>5, <2>1 DEF claimedRows
  <2>7. old[t] \in Row /\ a \in Nat \ {0} /\ old[t].attempt < a
    BY <1>1, <2>1, <2>3, <2>4 DEF Memory
  <2> HIDE DEF t, a, old, rows, x
  <2>8. y.key = mem[w].key /\ y.status = "RUNNING" /\ y.attempt = a /\ y \in Row
    BY <1>1, <2>3, <2>7 DEF Row, RowStatus
  <2> HIDE DEF y
  <2>9. DOMAIN rows = DOMAIN old /\ \A j \in DOMAIN old : rows[j] = IF j = t THEN y ELSE old[j]
    BY <1>1, <2>6, <2>8, SetRow
  <2> QED
    BY <2>2, <2>3, <2>5, <2>7, <2>8, <2>9 DEF t, a, old, rows, x
<1> QED
  BY <1>4, <1>5

LEMMA ClaimShared ==
  ASSUME TypeOK, LocalInv, SharedInv, TypeOK', NEW w \in Worker, Claim(w)
  PROVE  SharedInv'
<1> USE DEF apiVars, bounds
<1> DEFINE r == job[w].run
           x == runs[r]
           y == runs'[r]
<1>1. /\ pc[w] = "claim" /\ pc[w] # "idle" /\ r \in Run /\ x = mine(w)
      /\ x \in RunRecord /\ mem[w] \in Memory /\ mem[w].key \in Key
  BY MineType DEF Claim, Local
<1>2. CASE ~mayClaim(w)
  <2>1. finished(w) /\ jobs' = jobs /\ \A u \in Worker \ {w} : fresh'[u] = fresh[u]
    BY <1>2 DEF Claim, acknowledge, TypeOK
  <2> QED
    BY <1>1, <1>2, <2>1, FinishedShared DEF Claim
<1>3. CASE mayClaim(w) /\ mem[w].reuse = 0 /\ Len(mine(w).rows) # mem[w].len
  <2>1. finished(w) /\ \A u \in Worker \ {w} : fresh'[u] = fresh[u]
    BY <1>3 DEF Claim, throw, TypeOK
  <2>2. jobs' = jobs \/ \E k \in Kind : enqueue(job[w].run, k)
    BY <1>3 DEF Claim, throw, Kind
  <2> QED
    BY <1>1, <1>3, <2>1, <2>2, FinishedShared DEF Claim
<1>4. CASE mayClaim(w) /\ ~(mem[w].reuse = 0 /\ Len(mine(w).rows) # mem[w].len)
  <2> DEFINE t == token(w).row
             a == token(w).attempt
  <2>1. /\ runs' = [runs EXCEPT ![r] = [x EXCEPT !.cur = mem[w].key, !.rows = claimedRows(w)]]
        /\ fresh' = [u \in Worker |-> fresh[u] /\ job[u].run \notin {r}]
        /\ pc' = [pc EXCEPT ![w] = "enter"] /\ job' = job
        /\ mem' = [mem EXCEPT ![w] = token(w)] /\ jobs' = jobs /\ starting' = starting
    BY <1>1, <1>4 DEF Claim, touch, goto
  <2>2. /\ y.status = x.status /\ y.cur = mem[w].key /\ y.st = x.st
        /\ y.rows = claimedRows(w) /\ x.status = "RUNNING"
        /\ \A q \in Run \ {r} : runs'[q] = runs[q]
    BY <1>1, <1>4, <2>1 DEF TypeOK, RunRecord, mayClaim
  <2>3. /\ DOMAIN y.rows = DOMAIN x.rows \cup {t}
        /\ y.rows[t].key = mem[w].key /\ y.rows[t].status = "RUNNING"
        /\ y.rows[t].attempt = a
        /\ \A j \in DOMAIN x.rows \ {t} : y.rows[j] = x.rows[j]
        /\ t \in DOMAIN x.rows => x.rows[t].key = mem[w].key /\ x.rows[t].attempt < a
        /\ \A j \in executing(x) : j = t
        /\ mem[w].st = x.st
    <3>1. /\ DOMAIN claimedRows(w) = DOMAIN mine(w).rows \cup {token(w).row}
          /\ claimedRows(w)[token(w).row].key = mem[w].key
          /\ claimedRows(w)[token(w).row].status = "RUNNING"
          /\ claimedRows(w)[token(w).row].attempt = token(w).attempt
          /\ \A j \in DOMAIN mine(w).rows \ {token(w).row} :
               claimedRows(w)[j] = mine(w).rows[j]
          /\ token(w).row \in DOMAIN mine(w).rows =>
               /\ mine(w).rows[token(w).row].key = mem[w].key
               /\ mine(w).rows[token(w).row].attempt < token(w).attempt
          /\ \A j \in executing(mine(w)) : j = token(w).row
          /\ mem[w].st = mine(w).st
      <4> HIDE DEF r, x, y, t, a
      <4> QED BY ONLY TypeOK, LocalInv, SharedInv, <1>1, <1>4, ClaimWrites
    <3>2. x = mine(w) /\ y.rows = claimedRows(w)
      BY <1>1, <2>2
    <3> HIDE DEF x, y
    <3> QED BY ONLY <3>1, <3>2
  <2>4. /\ token(w).key = mem[w].key /\ token(w).st = mem[w].st /\ a \in Nat
        /\ NoKey \notin Key
    BY <1>1, TokenType, EngineAssumption DEF Memory
  <2>5. \A j \in DOMAIN x.rows : x.rows[j].attempt \in Nat
    <3>1. \A j \in DOMAIN x.rows : x.rows[j] \in Row
      BY <1>1 DEF RunRecord
    <3> QED
      BY <3>1 DEF Row
  <2> HIDE DEF x, y, t, a, r
  <2>6. executing(y) = {t}
    BY <2>3 DEF executing
  <2>7. y.rows # <<>>
    <3>1. DOMAIN y.rows # {}
      BY <2>3
    <3> QED
      BY <3>1
  <2>8. Tidy(y)
    BY <1>1, <2>2, <2>3, <2>4, <2>6, <2>7 DEF Tidy
  <2>9. Evolves(x, y)
    BY <2>2, <2>3, <2>4, <2>5 DEF Evolves
  <2>10. \A q \in Run : Tidy(runs'[q]) /\ (runs'[q] = runs[q] \/ Evolves(runs[q], runs'[q]))
    BY <2>2, <2>8, <2>9 DEF SharedInv, x, y
  <2>11. pc'[w] = "enter" /\ mem'[w] = token(w) /\ mine(w)' = y
         /\ \A u \in Worker \ {w} : pc'[u] = pc[u] /\ mem'[u] = mem[u]
    BY <2>1 DEF TypeOK, mine, y, r
  <2>12. \A u \in Worker \ {w} : pc[u] \in Holding /\ job[u].run = r =>
           /\ mem[u].row \in DOMAIN x.rows
           /\ mem[u].row = t => mem[u].attempt < a
    <3> SUFFICES ASSUME NEW u \in Worker \ {w}, pc[u] \in Holding, job[u].run = r
                 PROVE  /\ mem[u].row \in DOMAIN x.rows
                        /\ mem[u].row = t => mem[u].attempt < a
      OBVIOUS
    <3>1. pc[u] # "idle" /\ mine(u) = x /\ mem[u].attempt \in Nat
      BY DEF Holding, mine, x, TypeOK, Memory
    <3>2. mem[u].row \in DOMAIN x.rows /\ mem[u].attempt <= x.rows[mem[u].row].attempt
      BY <3>1 DEF SharedInv, Know, Claimed
    <3> QED
      BY <2>3, <2>4, <2>5, <3>1, <3>2
  <2>13. \A u \in Worker \ {w} : pc[u] # "idle" /\ mine(u)' # mine(u) =>
           ~fresh'[u] /\ (pc[u] \in Holding => ~claimStands(u)')
    <3> SUFFICES ASSUME NEW u \in Worker \ {w}, pc[u] # "idle", mine(u)' # mine(u)
                 PROVE  ~fresh'[u] /\ (pc[u] \in Holding => ~claimStands(u)')
      OBVIOUS
    <3>1. job[u].run = r /\ mine(u)' = y
      BY <2>1, <2>2, MineType DEF mine, x, y
    <3>2. ~fresh'[u]
      BY <2>1, <3>1
    <3>3. ASSUME pc[u] \in Holding, claimStands(u)' PROVE FALSE
      <4>1. mem[u].row \in executing(y) /\ y.rows[mem[u].row].attempt = mem[u].attempt
        BY <2>11, <3>1, <3>3 DEF claimStands, executing
      <4>2. mem[u].row = t /\ mem[u].attempt = a
        BY <2>3, <2>6, <4>1
      <4>3. mem[u].attempt < a
        BY <2>12, <3>1, <3>3, <4>2
      <4> QED
        BY <2>4, <4>2, <4>3
    <3> QED
      BY <3>2, <3>3
  <2>14. \A u \in Worker \ {w} : Know(u)' /\ Current(u)'
    BY <2>1, <2>10, <2>11, <2>13, OthersShared
  <2>15. Know(w)' /\ Current(w)'
    <3>1. Claimed("enter", token(w), y)
      BY <2>3, <2>4 DEF Claimed, t, a
    <3>2. Picture("enter", token(w), fresh'[w], y)
      BY DEF Picture
    <3>3. token(w).st = y.st
      BY <2>2, <2>3, <2>4
    <3> QED
      BY <2>11, <3>1, <3>2, <3>3 DEF Know, Current
  <2>16. UniqueTokens'
    <3> SUFFICES ASSUME NEW u \in Worker, NEW v \in Worker, u # v,
                        pc'[u] \in Holding, pc'[v] \in Holding, job[u].run = job[v].run
                 PROVE  mem'[u].row # mem'[v].row \/ mem'[u].attempt # mem'[v].attempt
      BY <2>1 DEF UniqueTokens
    <3>1. CASE u # w /\ v # w
      BY <2>11, <3>1 DEF SharedInv, UniqueTokens
    <3>2. CASE u = w
      BY <2>4, <2>11, <2>12, <3>2 DEF t, a, r
    <3>3. CASE v = w
      BY <2>4, <2>11, <2>12, <3>3 DEF t, a, r
    <3> QED
      BY <3>1, <3>2, <3>3
  <2>17. Created'
    BY <1>1, <2>1, <2>10, <2>11, EvolvedCreated
  <2> QED
    BY <2>10, <2>14, <2>15, <2>16, <2>17 DEF SharedInv
<1> QED
  BY <1>2, <1>3, <1>4

\* Nobody's claim on run x stands.
Quiet(x) == x.status # "RUNNING" \/ executing(x) = {}

(***************************************************************************)
(* Any write that leaves the runs it touches quiet, by workers W that then *)
(* have no claim to defend.                                                *)
(***************************************************************************)
LEMMA QuietShared ==
  ASSUME TypeOK, LocalInv, SharedInv, TypeOK', NEW W \in SUBSET Worker,
         \A r \in Run : \/ runs'[r] = runs[r]
                        \/ /\ Evolves(runs[r], runs'[r]) /\ Tidy(runs'[r]) /\ Quiet(runs'[r])
                           /\ \A u \in Worker : job[u].run = r => ~fresh'[u],
         \A u \in W : pc'[u] \in {"idle", "load", "finish", "approve", "next"},
         \A u \in Worker \ W : /\ pc'[u] = pc[u] /\ job'[u] = job[u] /\ mem'[u] = mem[u]
                               /\ fresh'[u] => fresh[u],
         Created'
  PROVE  SharedInv'
<1>1. \A r \in Run : Tidy(runs'[r])
  BY DEF SharedInv
<1>2. \A u \in Worker \ W : pc[u] # "idle" /\ mine(u)' # mine(u) =>
        ~fresh'[u] /\ (pc[u] \in Holding => ~claimStands(u)')
  <2> SUFFICES ASSUME NEW u \in Worker \ W, pc[u] # "idle", mine(u)' # mine(u)
               PROVE  ~fresh'[u] /\ ~claimStands(u)'
    OBVIOUS
  <2>1. /\ job[u].run \in Run /\ mine(u)' = runs'[job[u].run]
        /\ runs'[job[u].run] # runs[job[u].run]
    BY MineType DEF mine
  <2>2. ~fresh'[u] /\ Quiet(mine(u)')
    BY <2>1
  <2>3. ~claimStands(u)'
    BY <2>2 DEF Quiet, executing, claimStands
  <2> QED
    BY <2>2, <2>3
<1>3. \A u \in Worker \ W : Know(u)' /\ Current(u)'
  BY <1>2, OthersShared
<1>4. \A u \in W : Know(u)' /\ Current(u)' /\ pc'[u] \notin Holding
  BY Ignorant
<1>5. UniqueTokens'
  BY <1>4, TokensKept DEF SharedInv
<1> QED
  BY <1>1, <1>3, <1>4, <1>5 DEF SharedInv

\* Giving up the claimed row, for a result or to be claimed again.
LEMMA GiveUp ==
  ASSUME TypeOK, LocalInv, SharedInv, NEW w \in Worker, pc[w] \in Holding, claimStands(w),
         NEW status \in RowStatus \ {"RUNNING"}, NEW y \in RunRecord,
         y.status = mine(w).status, y.cur = NoKey,
         y.rows = [mine(w).rows EXCEPT ![mem[w].row].status = status]
  PROVE  Evolves(mine(w), y) /\ Tidy(y) /\ Quiet(y)
<1> DEFINE x == mine(w)
           t == mem[w].row
<1>1. /\ x \in RunRecord /\ Tidy(x) /\ mem[w].key \in Key /\ NoKey \notin Key
      /\ x.rows \in Seq(Row)
  BY SMTT(20), MineType, EngineAssumption DEF Holding, SharedInv, Local, RunRecord
<1>2. /\ x.status = "RUNNING" /\ x.cur = mem[w].key /\ t \in DOMAIN x.rows
      /\ x.rows[t].status = "RUNNING"
  BY DEF claimStands
<1>3. executing(x) = {t}
  BY <1>1, <1>2 DEF Tidy, executing
<1>4. /\ DOMAIN y.rows = DOMAIN x.rows
      /\ \A j \in DOMAIN x.rows :
           y.rows[j] = IF j = t THEN [x.rows[t] EXCEPT !.status = status] ELSE x.rows[j]
  BY <1>1, <1>2, StatusWritten
<1>5. \A j \in DOMAIN x.rows : x.rows[j] \in Row
  BY <1>1
<1>6. \A j \in DOMAIN x.rows :
        /\ y.rows[j].key = x.rows[j].key /\ y.rows[j].attempt = x.rows[j].attempt
        /\ y.rows[j].status = IF j = t THEN status ELSE x.rows[j].status
  BY <1>4, <1>5 DEF Row
<1> HIDE DEF x, t
<1>7. executing(y) = {}
  BY <1>3, <1>4, <1>6 DEF executing
<1>8. y.rows # <<>>
  BY <1>2, <1>4
<1>9. \A j \in DOMAIN x.rows : x.rows[j].attempt \in Nat
  BY <1>5 DEF Row
<1>10. Evolves(x, y)
  BY <1>2, <1>4, <1>6, <1>9 DEF Evolves, x
<1> QED
  BY <1>2, <1>7, <1>8, <1>10 DEF Tidy, Quiet, x

LEMMA PersistShared ==
  ASSUME TypeOK, LocalInv, SharedInv, TypeOK', NEW w \in Worker, Persist(w)
  PROVE  SharedInv'
<1> USE DEF apiVars, bounds
<1> DEFINE r == job[w].run
<1>1. /\ pc[w] # "idle" /\ pc[w] \in Holding /\ r \in Run /\ mine(w) \in RunRecord
      /\ mem[w] \in Memory /\ mine(w) = runs[r]
  BY MineType DEF Persist, Holding
<1>2. CASE stale(w)
  BY <1>1, <1>2, FinishedShared DEF Persist, acknowledge
<1>3. CASE ~stale(w)
  <2>1. PICK outcome \in {"SUCCEEDED", "SKIPPED", "FAILED"} :
          runs' = [runs EXCEPT ![job[w].run] =
                    [@ EXCEPT !.st = mem[w].st + 1, !.cur = NoKey,
                              !.rows[mem[w].row].status = settled(w, outcome)]]
    BY <1>3 DEF Persist
  <2> DEFINE s == settled(w, outcome)
             rows == [mine(w).rows EXCEPT ![mem[w].row].status = s]
             y == runs'[r]
  <2>2. s \in RowStatus \ {"RUNNING"} /\ claimStands(w)
    BY <1>3 DEF settled, RowStatus, stale
  <2>3. y = [mine(w) EXCEPT !.st = mem[w].st + 1, !.cur = NoKey, !.rows = rows]
    BY <1>1, <2>1 DEF RunRecord, TypeOK
  <2>4. y \in RunRecord
    BY <1>1 DEF TypeOK, RunRecord
  <2> HIDE DEF s, rows
  <2>5. y.status = mine(w).status /\ y.cur = NoKey /\ y.rows = rows
    BY <1>1, <2>3 DEF RunRecord
  <2>6. \A q \in Run \ {r} : runs'[q] = runs[q]
    BY <2>1 DEF TypeOK
  <2> HIDE DEF y
  <2>7. Evolves(mine(w), y) /\ Tidy(y) /\ Quiet(y)
    BY <1>1, <2>2, <2>4, <2>5, GiveUp DEF rows
  <2>8. /\ pc'[w] = "next" /\ job' = job /\ mem' = mem /\ jobs' = jobs /\ starting' = starting
        /\ \A u \in Worker \ {w} : pc'[u] = pc[u]
        /\ \A u \in Worker : (job[u].run = r => ~fresh'[u]) /\ (fresh'[u] => fresh[u])
    BY <1>3 DEF Persist, goto, touch, TypeOK
  <2>9. \A q \in Run : \/ runs'[q] = runs[q]
                       \/ /\ Evolves(runs[q], runs'[q]) /\ Tidy(runs'[q]) /\ Quiet(runs'[q])
                          /\ \A u \in Worker : job[u].run = q => ~fresh'[u]
    BY <1>1, <2>6, <2>7, <2>8 DEF y
  <2>10. Created'
    BY <1>1, <2>8, <2>9, EvolvedCreated
  <2>11. /\ {w} \in SUBSET Worker
         /\ \A u \in {w} : pc'[u] \in {"idle", "load", "finish", "approve", "next"}
         /\ \A u \in Worker \ {w} : /\ pc'[u] = pc[u] /\ job'[u] = job[u] /\ mem'[u] = mem[u]
                                    /\ fresh'[u] => fresh[u]
    BY <2>8
  <2> QED
    BY <2>9, <2>10, <2>11, QuietShared
<1> QED
  BY <1>2, <1>3

LEMMA ReleaseShared ==
  ASSUME TypeOK, LocalInv, SharedInv, TypeOK', NEW w \in Worker, Release(w)
  PROVE  SharedInv'
<1> USE DEF apiVars, bounds
<1> DEFINE r == job[w].run
<1>1. /\ pc[w] # "idle" /\ pc[w] \in Holding /\ r \in Run /\ mine(w) \in RunRecord
      /\ mem[w] \in Memory /\ mine(w) = runs[r] /\ runs[r].status # "NONE"
  BY MineType, MineExists DEF Release, Holding
<1>2. jobs' = jobs \/ \E k \in Kind : enqueue(job[w].run, k)
  BY DEF Release, throw, Kind
<1>3. finished(w) /\ starting' = starting
  BY DEF Release, throw
<1>4. CASE ~claimStands(w)
  BY <1>1, <1>2, <1>3, <1>4, FinishedShared DEF Release
<1>5. CASE claimStands(w)
  <2> DEFINE rows == [mine(w).rows EXCEPT ![mem[w].row].status = "PENDING"]
             y == runs'[r]
  <2>1. runs' = [runs EXCEPT ![r] = [mine(w) EXCEPT !.cur = NoKey, !.rows = rows]]
    BY <1>1, <1>5 DEF Release, RunRecord
  <2> HIDE DEF rows
  <2>2. y.status = mine(w).status /\ y.cur = NoKey /\ y.rows = rows
    BY <1>1, <2>1 DEF RunRecord, TypeOK
  <2>3. y \in RunRecord
    BY <1>1 DEF TypeOK, RunRecord
  <2>4. \A q \in Run \ {r} : runs'[q] = runs[q]
    BY <2>1 DEF TypeOK
  <2> HIDE DEF y
  <2>5. Evolves(mine(w), y) /\ Tidy(y) /\ Quiet(y)
    BY <1>1, <1>5, <2>2, <2>3, GiveUp DEF rows, RowStatus
  <2>6. /\ pc'[w] = "idle"
        /\ \A u \in Worker \ {w} : pc'[u] = pc[u] /\ job'[u] = job[u] /\ mem'[u] = mem[u]
        /\ \A u \in Worker : (job[u].run = r => ~fresh'[u]) /\ (fresh'[u] => fresh[u])
    BY <1>3, <1>5 DEF Release, finished, touch, TypeOK
  <2>7. \A q \in Run : \/ runs'[q] = runs[q]
                       \/ /\ Evolves(runs[q], runs'[q]) /\ Tidy(runs'[q]) /\ Quiet(runs'[q])
                          /\ \A u \in Worker : job[u].run = q => ~fresh'[u]
    BY <1>1, <2>4, <2>5, <2>6 DEF y
  <2>8. \A q \in Run : runs'[q].status = "NONE" =>
          runs[q].status = "NONE" /\ \A k \in Kind : jobs'[q][k] = jobs[q][k]
    BY <1>1, <1>2, <2>2, <2>4 DEF enqueue, TypeOK, y
  <2>9. Created'
    BY <1>3, <2>6, <2>8, CreatedKept DEF SharedInv
  <2>10. /\ {w} \in SUBSET Worker
         /\ \A u \in {w} : pc'[u] \in {"idle", "load", "finish", "approve", "next"}
         /\ \A u \in Worker \ {w} : /\ pc'[u] = pc[u] /\ job'[u] = job[u] /\ mem'[u] = mem[u]
                                    /\ fresh'[u] => fresh[u]
    BY <2>6
  <2> QED
    BY <2>7, <2>9, <2>10, QuietShared
<1> QED
  BY <1>4, <1>5

\* A write spoils what others read of the run; a worker leaves its place.
LEMMA TouchFrame ==
  ASSUME TypeOK, NEW R, touch(R)
  PROVE  \A u \in Worker : (job[u].run \in R => ~fresh'[u]) /\ (fresh'[u] => fresh[u])
BY DEF touch

LEMMA LeftFrame ==
  ASSUME TypeOK, NEW w \in Worker, pc[w] # "idle",
         finished(w) \/ (goto(w, "approve") /\ mem' = mem)
  PROVE  /\ pc'[w] \in {"idle", "approve"}
         /\ \A u \in Worker \ {w} : pc'[u] = pc[u] /\ job'[u] = job[u] /\ mem'[u] = mem[u]
         /\ \A u \in Worker : pc'[u] # "idle" => pc[u] # "idle" /\ job'[u] = job[u]
<1>1. CASE finished(w)
  BY <1>1 DEF finished, TypeOK
<1>2. CASE goto(w, "approve") /\ mem' = mem
  BY <1>2 DEF goto, TypeOK
<1> QED
  BY <1>1, <1>2

\* Ending a run, and cancelling one.
LEMMA Ended ==
  ASSUME NEW x \in RunRecord, Tidy(x), x.status # "NONE",
         NEW y \in RunRecord, y.status \in {"SUCCEEDED", "FAILED", "WAITING_FOR_HUMAN"},
         y.cur = NoKey, y.rows = x.rows, y.st = x.st
  PROVE  Evolves(x, y) /\ Tidy(y) /\ Quiet(y)
<1>1. \A j \in DOMAIN x.rows : x.rows[j] \in Row
  BY DEF RunRecord
<1>2. \A j \in DOMAIN x.rows : x.rows[j].attempt <= x.rows[j].attempt
  BY <1>1 DEF Row
<1> QED
  BY <1>2 DEF Evolves, Tidy, Quiet

LEMMA Cancelled ==
  ASSUME NEW x \in RunRecord, Tidy(x), x.status # "NONE"
  PROVE  Evolves(x, cancelRun(x)) /\ Tidy(cancelRun(x)) /\ Quiet(cancelRun(x))
<1> DEFINE y == cancelRun(x)
<1>1. /\ y \in RunRecord /\ y.status = "CANCELLED" /\ y.cur = NoKey /\ y.st = x.st
      /\ y.rows = cancelRows(x.rows)
  BY CancelRunType
<1>2. \A j \in DOMAIN x.rows : x.rows[j] \in Row
  BY DEF RunRecord
<1>3. DOMAIN y.rows = DOMAIN x.rows
  BY <1>1 DEF cancelRows
<1>4. \A j \in DOMAIN x.rows :
        /\ y.rows[j].key = x.rows[j].key /\ y.rows[j].attempt = x.rows[j].attempt
        /\ x.rows[j].attempt \in Nat /\ y.rows[j].status # "RUNNING"
  <2>1. \A z \in Row : /\ [z EXCEPT !.status = "CANCELLED"].key = z.key
                       /\ [z EXCEPT !.status = "CANCELLED"].attempt = z.attempt
                       /\ [z EXCEPT !.status = "CANCELLED"].status = "CANCELLED"
                       /\ z.attempt \in Nat
    BY DEF Row
  <2>2. \A j \in DOMAIN x.rows : y.rows[j] = IF x.rows[j].status = "RUNNING"
                                  THEN [x.rows[j] EXCEPT !.status = "CANCELLED"] ELSE x.rows[j]
    BY <1>1 DEF cancelRows
  <2> QED
    BY <1>2, <2>1, <2>2
<1> HIDE DEF y
<1>5. executing(y) = {}
  BY <1>3, <1>4 DEF executing
<1>6. y.rows = <<>> => x.rows = <<>>
  <2>1. x.rows \in Seq(Row)
    BY DEF RunRecord
  <2> SUFFICES ASSUME y.rows = <<>> PROVE x.rows = <<>>
    OBVIOUS
  <2>2. DOMAIN x.rows = {}
    BY <1>3
  <2>3. Len(x.rows) = 0
    <3>1. DOMAIN x.rows = 1..Len(x.rows) /\ Len(x.rows) \in Nat
      BY <2>1
    <3>2. Len(x.rows) # 0 => 1 \in 1..Len(x.rows)
      BY <3>1
    <3> QED
      BY <2>2, <3>1, <3>2
  <2> QED
    BY <2>1, <2>3
<1>7. Evolves(x, y)
  BY <1>1, <1>3, <1>4 DEF Evolves
<1>8. Tidy(y) /\ Quiet(y)
  BY <1>1, <1>5, <1>6 DEF Tidy, Quiet
<1> QED
  BY <1>7, <1>8 DEF y

LEMMA FinishShared ==
  ASSUME TypeOK, LocalInv, SharedInv, TypeOK', NEW w \in Worker, Finish(w)
  PROVE  SharedInv'
<1> USE DEF apiVars, bounds
<1> DEFINE r == job[w].run
           final(y, s) == y = [runs[r] EXCEPT !.status = s, !.cur = NoKey]
           Calm(q) == \/ runs'[q] = runs[q]
                      \/ /\ Evolves(runs[q], runs'[q]) /\ Tidy(runs'[q]) /\ Quiet(runs'[q])
                         /\ \A u \in Worker : job[u].run = q => ~fresh'[u]
<1>1. /\ pc[w] = "finish" /\ pc[w] # "idle" /\ r \in Run /\ mine(w) \in RunRecord
      /\ mem[w] \in Memory /\ mine(w) = runs[r] /\ Tidy(runs[r])
      /\ mem[w].type \in DecisionType /\ runs[r].status # "NONE"
      /\ starting' = starting
  BY MineType, MineExists DEF Finish, Memory, SharedInv
<1>2. \A y, s : /\ final(y, s) /\ y \in RunRecord
                /\ s \in {"SUCCEEDED", "FAILED", "WAITING_FOR_HUMAN"}
                => Evolves(runs[r], y) /\ Tidy(y) /\ Quiet(y)
  <2> SUFFICES ASSUME NEW y \in RunRecord, NEW s \in {"SUCCEEDED", "FAILED", "WAITING_FOR_HUMAN"},
                      final(y, s)
               PROVE  Evolves(runs[r], y) /\ Tidy(y) /\ Quiet(y)
    OBVIOUS
  <2>1. /\ y.status = s /\ y.cur = NoKey /\ y.rows = runs[r].rows /\ y.st = runs[r].st
        /\ runs[r] \in RunRecord
    BY <1>1 DEF RunRecord
  <2> QED
    BY <1>1, <2>1, Ended
<1>3. runs'[r] \in RunRecord
  BY <1>1 DEF TypeOK, RunRecord
<1>4. CASE mine(w).status \notin ActiveRun
  <2>1. acknowledge(w) /\ runs' = runs /\ fresh' = fresh
    BY <1>4 DEF Finish, finishRun, finishWorkflow
  <2> QED
    BY <1>1, <2>1, FinishedShared DEF acknowledge
<1>5. CASE mine(w).status \in ActiveRun /\ mem[w].type = "ABORT"
  <2>1. /\ runs' = [runs EXCEPT ![r] = [runs[r] EXCEPT !.status = "FAILED", !.cur = NoKey]]
        /\ touch({r}) /\ finished(w) /\ jobs' = jobs
    BY <1>1, <1>5 DEF Finish, finishRun, acknowledge
  <2>2. final(runs'[r], "FAILED") /\ \A q \in Run \ {r} : runs'[q] = runs[q]
    BY <1>1, <2>1 DEF TypeOK
  <2>3. /\ {w} \in SUBSET Worker
        /\ \A u \in {w} : pc'[u] \in {"idle", "load", "finish", "approve", "next"}
        /\ \A u \in Worker \ {w} : /\ pc'[u] = pc[u] /\ job'[u] = job[u] /\ mem'[u] = mem[u]
                                   /\ fresh'[u] => fresh[u]
        /\ \A u \in Worker : job[u].run = r => ~fresh'[u]
        /\ \A u \in Worker : pc'[u] # "idle" => pc[u] # "idle" /\ job'[u] = job[u]
    BY <1>1, <2>1, TouchFrame, LeftFrame
  <2> HIDE DEF final
  <2>4. \A q \in Run : Calm(q)
    BY <1>2, <1>3, <2>2, <2>3
  <2>5. Created'
    BY <1>1, <2>1, <2>3, <2>4, EvolvedCreated
  <2> QED
    BY <2>3, <2>4, <2>5, QuietShared
<1>6. CASE /\ mine(w).status \in ActiveRun /\ mem[w].type # "ABORT"
           /\ route(task, finalTask(mem[w].type)) = <<>>
  <2>1. throw(w) /\ runs' = runs /\ fresh' = fresh
    BY <1>6 DEF Finish, finishWorkflow
  <2>2. finished(w) /\ (jobs' = jobs \/ \E k \in Kind : enqueue(job[w].run, k))
    BY <2>1 DEF throw, Kind
  <2> QED
    BY <1>1, <2>1, <2>2, FinishedShared
<1>7. CASE /\ mine(w).status \in ActiveRun /\ mem[w].type # "ABORT"
           /\ route(task, finalTask(mem[w].type)) # <<>>
  <2> DEFINE s == finalStatus(mem[w].type)
  <2>1. /\ runs' = [q \in Run |-> IF q = r THEN [runs[q] EXCEPT !.status = s, !.cur = NoKey]
                               ELSE IF q \in activeRuns THEN cancelRun(runs[q]) ELSE runs[q]]
        /\ touch(activeRuns) /\ jobs' = jobs
        /\ finished(w) \/ (goto(w, "approve") /\ mem' = mem)
    BY <1>7 DEF Finish, finishWorkflow, acknowledge
  <2>2. s \in {"SUCCEEDED", "FAILED", "WAITING_FOR_HUMAN"}
    BY DEF finalStatus
  <2>3. /\ final(runs'[r], s)
        /\ \A q \in Run \ {r} : \/ runs'[q] = runs[q]
                                \/ q \in activeRuns /\ runs'[q] = cancelRun(runs[q])
    BY <1>1, <2>1
  <2>4. /\ {w} \in SUBSET Worker
        /\ \A u \in {w} : pc'[u] \in {"idle", "load", "finish", "approve", "next"}
        /\ \A u \in Worker \ {w} : /\ pc'[u] = pc[u] /\ job'[u] = job[u] /\ mem'[u] = mem[u]
                                   /\ fresh'[u] => fresh[u]
        /\ \A u \in Worker : pc'[u] # "idle" => pc[u] # "idle" /\ job'[u] = job[u]
    BY <1>1, <2>1, TouchFrame, LeftFrame
  <2>5. \A u \in Worker : job[u].run \in activeRuns => ~fresh'[u]
    BY <2>1 DEF touch
  <2>6. r \in activeRuns
    BY <1>1, <1>7 DEF activeRuns
  <2> HIDE DEF final, s
  <2>7. Calm(r)
    BY <1>2, <1>3, <2>2, <2>3, <2>5, <2>6
  <2>8. ASSUME NEW q \in Run \ {r} PROVE Calm(q)
    <3>1. q \in activeRuns => runs[q] \in RunRecord /\ Tidy(runs[q]) /\ runs[q].status # "NONE"
      BY DEF activeRuns, ActiveRun, SharedInv, TypeOK, RunRecord
    <3> QED
      BY <2>3, <2>5, <3>1, Cancelled
  <2>9. \A q \in Run : Calm(q)
    BY <2>7, <2>8
  <2>10. Created'
    BY <1>1, <2>1, <2>4, <2>9, EvolvedCreated
  <2> QED
    BY <2>4, <2>9, <2>10, QuietShared
<1> QED
  BY <1>4, <1>5, <1>6, <1>7

\* The API.
LEMMA CreateRunShared ==
  ASSUME TypeOK, LocalInv, SharedInv, TypeOK', NEW r \in Run, NEW force, createRun(r, force),
         UNCHANGED <<jobs, pc, job, mem, fresh>>
  PROVE  SharedInv'
<1> DEFINE y == runs'[r]
<1>1. /\ runs[r].status = "NONE" /\ runs[r] \in RunRecord /\ Tidy(runs[r])
      /\ runs' = [runs EXCEPT ![r] = [runs[r] EXCEPT !.status = "PENDING"]]
      /\ starting' = starting \cup {r}
  BY DEF createRun, TypeOK, RunRecord, SharedInv
<1>2. /\ y.status = "PENDING" /\ y.rows = runs[r].rows /\ y.cur = runs[r].cur
      /\ y.st = runs[r].st /\ \A q \in Run \ {r} : runs'[q] = runs[q]
  BY <1>1 DEF TypeOK, RunRecord
<1>3. \A q \in Run : Tidy(runs'[q])
  BY <1>1, <1>2 DEF SharedInv, Tidy
<1>4. \A u \in Worker : pc[u] # "idle" => mine(u)' = mine(u)
  <2>1. \A u \in Worker : pc[u] # "idle" => job[u].run \in Run /\ job[u].run # r
    BY <1>1, MineType DEF SharedInv, Created
  <2> QED
    BY <1>2, <2>1 DEF mine
<1>5. \A u \in Worker : Know(u)' /\ Current(u)'
  BY <1>4, Bystander
<1>6. UniqueTokens'
  BY TokensKept DEF SharedInv
<1>7. Created'
  BY <1>1, <1>2, CreatedKept DEF SharedInv
<1> QED
  BY <1>3, <1>5, <1>6, <1>7 DEF SharedInv

LEMMA EnqueueStartShared ==
  ASSUME TypeOK, LocalInv, SharedInv, TypeOK', NEW r \in Run,
         EnqueueStart(r) \/ EnqueueStartFails(r) \/ ApiCrash(r)
  PROVE  SharedInv'
<1>1. r \in starting /\ runs[r].status # "NONE" /\ UNCHANGED <<pc, job, mem>>
      /\ starting' \subseteq starting
  BY DEF EnqueueStart, EnqueueStartFails, ApiCrash, SharedInv, Created
<1>2. CASE EnqueueStart(r)
  <2>1. \A q \in Run : runs[q].status = "NONE" => \A k \in Kind : jobs'[q][k] = jobs[q][k]
    BY <1>1, <1>2 DEF EnqueueStart, enqueue, TypeOK
  <2>2. Created'
    BY <1>1, <1>2, <2>1, CreatedKept DEF SharedInv, EnqueueStart
  <2> QED
    BY <1>2, <2>2, UntouchedShared DEF EnqueueStart
<1>3. CASE ApiCrash(r)
  <2>1. Created'
    BY <1>1, <1>3, CreatedKept DEF SharedInv, ApiCrash
  <2> QED
    BY <1>3, <2>1, UntouchedShared DEF ApiCrash
<1>4. CASE EnqueueStartFails(r)
  <2> DEFINE y == runs'[r]
  <2>1. /\ runs' = [runs EXCEPT ![r].status = IF @ = "PENDING" THEN "FAILED" ELSE @]
        /\ jobs' = jobs
        /\ \A u \in Worker : (job[u].run = r => ~fresh'[u]) /\ (fresh'[u] => fresh[u])
    BY <1>4 DEF EnqueueStartFails, touch
  <2>2. /\ \A q \in Run \ {r} : runs'[q] = runs[q]
        /\ runs[r] \in RunRecord /\ Tidy(runs[r]) /\ y \in RunRecord
    BY <2>1 DEF TypeOK, RunRecord, SharedInv
  <2>3. CASE runs[r].status # "PENDING"
    <3>1. runs' = runs
      BY <2>1, <2>3 DEF TypeOK, RunRecord
    <3>2. Created'
      BY <1>1, <2>1, <3>1, CreatedKept DEF SharedInv
    <3> QED
      BY <1>1, <2>1, <3>1, <3>2, UntouchedShared
  <2>4. CASE runs[r].status = "PENDING"
    <3>1. y.status = "FAILED" /\ y.rows = runs[r].rows /\ y.cur = NoKey /\ y.st = runs[r].st
      BY <2>1, <2>2, <2>4 DEF TypeOK, RunRecord, Tidy
    <3> HIDE DEF y
    <3>2. Evolves(runs[r], y) /\ Tidy(y) /\ Quiet(y)
      BY <1>1, <2>2, <3>1, Ended
    <3>3. \A q \in Run : \/ runs'[q] = runs[q]
                         \/ /\ Evolves(runs[q], runs'[q]) /\ Tidy(runs'[q]) /\ Quiet(runs'[q])
                            /\ \A u \in Worker : job[u].run = q => ~fresh'[u]
      BY <2>1, <2>2, <3>2 DEF y
    <3>4. Created'
      BY <1>1, <2>1, <3>3, EvolvedCreated
    <3>5. {} \in SUBSET Worker /\ \A u \in Worker \ {} :
            pc'[u] = pc[u] /\ job'[u] = job[u] /\ mem'[u] = mem[u] /\ (fresh'[u] => fresh[u])
      BY <1>1, <2>1
    <3> QED
      BY <3>3, <3>4, <3>5, QuietShared
  <2> QED
    BY <2>3, <2>4
<1> QED
  BY <1>2, <1>3, <1>4

LEMMA CancelTaskShared ==
  ASSUME TypeOK, LocalInv, SharedInv, TypeOK', CancelTask
  PROVE  SharedInv'
<1>1. UNCHANGED <<jobs, starting, pc, job, mem>>
  BY DEF CancelTask, apiVars
<1>2. \A u \in Worker : (job[u].run \in activeRuns => ~fresh'[u]) /\ (fresh'[u] => fresh[u])
  BY TouchFrame DEF CancelTask
<1>3. ASSUME NEW q \in Run
      PROVE  \/ runs'[q] = runs[q]
             \/ /\ Evolves(runs[q], runs'[q]) /\ Tidy(runs'[q]) /\ Quiet(runs'[q])
                /\ \A u \in Worker : job[u].run = q => ~fresh'[u]
  <2>1. runs'[q] = IF q \in activeRuns THEN cancelRun(runs[q]) ELSE runs[q]
    BY DEF CancelTask
  <2>2. q \in activeRuns => runs[q] \in RunRecord /\ Tidy(runs[q]) /\ runs[q].status # "NONE"
    BY DEF activeRuns, ActiveRun, SharedInv, TypeOK, RunRecord
  <2> QED
    BY <1>2, <2>1, <2>2, Cancelled
<1>4. Created'
  BY <1>1, <1>3, EvolvedCreated
<1>5. {} \in SUBSET Worker /\ \A u \in Worker \ {} :
        pc'[u] = pc[u] /\ job'[u] = job[u] /\ mem'[u] = mem[u] /\ (fresh'[u] => fresh[u])
  BY <1>1, <1>2
<1> QED
  BY <1>3, <1>4, <1>5, QuietShared

LEMMA ApiShared ==
  ASSUME TypeOK, LocalInv, SharedInv, TypeOK',
         \/ StartWorkflow \/ HumanTransition \/ UNCHANGED vars
         \/ RetryRequest \/ RetryRead \/ RetryHop \/ RetryStart
  PROVE  SharedInv'
<1>1. CASE UNCHANGED <<runs, starting, jobs, pc, job, mem, fresh>>
  <2>1. Created'
    BY <1>1, CreatedKept DEF SharedInv
  <2> QED
    BY <1>1, <2>1, UntouchedShared
<1>2. CASE \E r \in Run : \E force : createRun(r, force) /\ UNCHANGED <<jobs, pc, job, mem, fresh>>
  BY <1>2, CreateRunShared
<1> QED
  BY <1>1, <1>2 DEF StartWorkflow, HumanTransition, RetryRequest, RetryRead, RetryHop,
                    RetryStart, vars, apiVars

-----------------------------------------------------------------------------
(***************************************************************************)
(* The invariant is inductive, and what follows from it.                   *)
(***************************************************************************)
LEMMA Inductive ==
  ASSUME IInv, [Next]_vars
  PROVE  IInv'
<1> USE DEF IInv
<1>1. TypeOK' /\ LocalInv'
  BY TypeNext
<1>2. CASE \E w \in Worker :
             \/ TakeJob(w) \/ Work(w) \/ HandlerMove(w) \/ Heartbeat(w)
             \/ StepFails(w) \/ JobFails(w) \/ Crash(w) \/ Stall(w)
  <2> PICK w \in Worker :
             \/ TakeJob(w) \/ Work(w) \/ HandlerMove(w) \/ Heartbeat(w)
             \/ StepFails(w) \/ JobFails(w) \/ Crash(w) \/ Stall(w)
    BY <1>2
  <2>1. CASE Work(w)
    BY <1>1, <2>1, LoadRunShared, LoadRowsShared, StartRunShared, RereadShared, ClaimShared,
       HoldingShared, PersistShared, ReleaseShared, JobOverShared, FinishShared
       DEF Work
  <2> QED
    BY <1>1, <2>1, TakeJobShared, HoldingShared, HeartbeatShared, JobOverShared, StallShared
<1>3. CASE \E r \in Run : EnqueueStart(r) \/ EnqueueStartFails(r) \/ ApiCrash(r)
  BY <1>1, <1>3, EnqueueStartShared
<1>4. CASE CancelTask
  BY <1>1, <1>4, CancelTaskShared
<1>5. CASE \/ StartWorkflow \/ HumanTransition \/ UNCHANGED vars
           \/ RetryRequest \/ RetryRead \/ RetryHop \/ RetryStart
  BY <1>1, <1>5, ApiShared
<1> QED
  BY <1>2, <1>3, <1>4, <1>5 DEF Next

LEMMA Invariance == Spec => []IInv
<1>1. Init => IInv
  BY TypeInit, SharedInit DEF IInv
<1>2. IInv /\ [Next]_vars => IInv'
  BY Inductive
<1> QED
  BY <1>1, <1>2, PTL DEF Spec

\* A run executes one step at a time, and says which (executeStep's claim).
THEOREM StepExclusion == Spec => []OneStepAtATime
<1>1. IInv => OneStepAtATime
  <2> SUFFICES ASSUME IInv, NEW r \in Run
               PROVE  /\ runs[r].status = "RUNNING" /\ runs[r].cur # NoKey =>
                           \E i \in DOMAIN runs[r].rows :
                             running(r) = {i} /\ runs[r].rows[i].key = runs[r].cur
                      /\ runs[r].status \in {"RUNNING", "CANCELLED"} /\ runs[r].cur = NoKey =>
                           running(r) = {}
                      /\ runs[r].status \in {"NONE", "PENDING"} =>
                           runs[r].rows = <<>> /\ runs[r].cur = NoKey
                      /\ runs[r].status \notin {"RUNNING"} => runs[r].cur = NoKey
    BY DEF OneStepAtATime
  <2>1. Tidy(runs[r]) /\ running(r) = executing(runs[r])
    BY DEF IInv, SharedInv, running, executing
  <2> QED
    BY <2>1 DEF Tidy
<1> QED
  BY <1>1, Invariance, PTL

\* The (row, attempt) token fences: of the workers that believe they execute a
\* step of a run, at most one can still write (claim, persist and release).
THEOREM Fencing == Spec => []AtMostOneClaimStands
<1>1. IInv => AtMostOneClaimStands
  <2> SUFFICES ASSUME IInv, NEW v \in Worker, NEW w \in Worker, v # w,
                      pc[v] \in Holding, pc[w] \in Holding, job[v].run = job[w].run,
                      claimStands(v), claimStands(w)
               PROVE  FALSE
    BY DEF AtMostOneClaimStands
  <2> DEFINE x == mine(w)
  <2>1. x = mine(v) /\ x = runs[job[w].run] /\ job[w].run \in Run /\ mem[w].key \in Key
    BY MineType DEF IInv, mine, Holding, Local
  <2>2. Tidy(x) /\ NoKey \notin Key
    BY <2>1, EngineAssumption DEF IInv, SharedInv
  <2>3. /\ x.status = "RUNNING" /\ x.cur = mem[w].key
        /\ mem[v].row \in executing(x) /\ mem[w].row \in executing(x)
        /\ x.rows[mem[v].row].attempt = mem[v].attempt
        /\ x.rows[mem[w].row].attempt = mem[w].attempt
    BY <2>1 DEF claimStands, executing
  <2>4. mem[v].row = mem[w].row
    BY <2>1, <2>2, <2>3 DEF Tidy
  <2> QED
    BY <2>3, <2>4 DEF IInv, SharedInv, UniqueTokens
<1> QED
  BY <1>1, Invariance, PTL

\* Whoever can still write a result has read the newest state of the run, so
\* persisting it loses no other result (the patch merged into run.state).
THEOREM NoResultIsLost == Spec => []NoLostResult
<1>1. IInv => NoLostResult
  BY DEF IInv, SharedInv, Current, NoLostResult, mine
<1> QED
  BY <1>1, Invariance, PTL

-----------------------------------------------------------------------------
(***************************************************************************)
(* What one step may never do to a run.                                    *)
(***************************************************************************)
Final(x, y) ==
  /\ x.status \in FinishedRun => y = x
  /\ \A i \in DOMAIN x.rows : x.rows[i].status = "SUCCEEDED" =>
       i \in DOMAIN y.rows /\ y.rows[i] = x.rows[i]

\* A write to one active run that keeps the rows that SUCCEEDED.
LEMMA OneFinal ==
  ASSUME TypeOK, NEW r \in Run, NEW y, runs' = [runs EXCEPT ![r] = y],
         runs[r].status \notin FinishedRun,
         \A i \in DOMAIN runs[r].rows : runs[r].rows[i].status = "SUCCEEDED" =>
           i \in DOMAIN y.rows /\ y.rows[i] = runs[r].rows[i]
  PROVE  \A q \in Run : Final(runs[q], runs'[q])
<1>1. runs'[r] = y /\ \A q \in Run \ {r} : runs'[q] = runs[q]
  BY DEF TypeOK
<1>2. Final(runs[r], runs'[r])
  BY <1>1 DEF Final
<1>3. \A q \in Run \ {r} : Final(runs[q], runs'[q])
  BY <1>1 DEF Final
<1> QED
  BY <1>2, <1>3

\* Cancelling an active run.
LEMMA CancelFinal ==
  ASSUME NEW x \in RunRecord, x.status \in ActiveRun
  PROVE  Final(x, cancelRun(x))
<1>1. cancelRun(x).rows = cancelRows(x.rows)
  BY CancelRunType
<1>2. \A i \in DOMAIN x.rows : x.rows[i].status = "SUCCEEDED" =>
        i \in DOMAIN cancelRows(x.rows) /\ cancelRows(x.rows)[i] = x.rows[i]
  BY DEF cancelRows
<1>3. x.status \notin FinishedRun
  BY DEF ActiveRun, FinishedRun
<1> QED
  BY <1>1, <1>2, <1>3 DEF Final

LEMMA WorkerFinal ==
  ASSUME IInv, NEW w \in Worker, TakeJob(w) \/ Work(w) \/ HandlerMove(w) \/ Heartbeat(w)
           \/ StepFails(w) \/ JobFails(w) \/ Crash(w) \/ Stall(w)
  PROVE  \A q \in Run : Final(runs[q], runs'[q])
<1> USE DEF IInv
<1> DEFINE r == job[w].run
           x == runs[r]
<1>1. CASE runs' = runs
  BY <1>1 DEF Final
<1>2. pc[w] # "idle" => /\ r \in Run /\ x \in RunRecord /\ x = mine(w) /\ mem[w] \in Memory
                        /\ x.rows \in Seq(Row)
  BY MineType DEF RunRecord
<1>3. CASE StartRun(w) /\ mine(w).status = "PENDING"
  <2> DEFINE y == [x EXCEPT !.status = "RUNNING"]
  <2>1. runs' = [runs EXCEPT ![r] = y] /\ r \in Run /\ x.status \notin FinishedRun
    BY <1>2, <1>3 DEF StartRun, FinishedRun
  <2>2. y.rows = x.rows
    BY <1>2, <1>3 DEF StartRun, RunRecord
  <2> HIDE DEF y
  <2> QED
    BY <2>1, <2>2, OneFinal
<1>4. CASE /\ Claim(w) /\ mayClaim(w)
           /\ ~(mem[w].reuse = 0 /\ Len(mine(w).rows) # mem[w].len)
  <2> DEFINE y == [x EXCEPT !.cur = mem[w].key, !.rows = claimedRows(w)]
             t == token(w).row
  <2>1. /\ pc[w] = "claim" /\ pc[w] # "idle" /\ runs' = [runs EXCEPT ![r] = y] /\ r \in Run
        /\ x.status \notin FinishedRun
    BY <1>2, <1>4 DEF Claim, FinishedRun, mayClaim
  <2>2. y.rows = claimedRows(w)
    BY <1>2, <2>1 DEF RunRecord
  <2>3. /\ DOMAIN claimedRows(w) = DOMAIN x.rows \cup {t}
        /\ \A j \in DOMAIN x.rows \ {t} : claimedRows(w)[j] = x.rows[j]
    BY <1>2, <1>4, <2>1, ClaimWrites
  <2>4. t \in DOMAIN x.rows => x.rows[t].status # "SUCCEEDED"
    <3>1. CASE mem[w].reuse = 0
      <4>1. t = Len(x.rows) + 1 /\ DOMAIN x.rows = 1..Len(x.rows) /\ Len(x.rows) \in Nat
        <5>1. t = mem[w].len + 1 /\ Len(mine(w).rows) = mem[w].len
          BY <1>4, <2>1, <3>1, TokenType
        <5>2. x.rows \in Seq(Row) /\ mine(w).rows = x.rows
          BY <1>2, <2>1
        <5>3. DOMAIN x.rows = 1..Len(x.rows) /\ Len(x.rows) \in Nat
          BY <5>2
        <5> QED
          BY <5>1, <5>2, <5>3
      <4>2. t \notin DOMAIN x.rows
        <5> HIDE DEF t, x
        <5> QED BY ONLY <4>1
      <4> QED
        BY <4>2
    <3>2. CASE mem[w].reuse # 0
      <4>1. t = mem[w].reuse /\ Intent(mem[w]) /\ x.rows[mem[w].reuse].status = mem[w].rstatus
        BY <1>2, <1>4, <2>1, <3>2, TokenType, MineType DEF mayClaim, Local
      <4> QED
        BY <3>2, <4>1 DEF Intent
    <3> QED
      BY <3>1, <3>2
  <2> HIDE DEF y, t
  <2> QED
    BY <2>1, <2>2, <2>3, <2>4, OneFinal
<1>5. CASE Persist(w) /\ ~stale(w)
  <2>1. PICK outcome \in {"SUCCEEDED", "SKIPPED", "FAILED"} :
          runs' = [runs EXCEPT ![job[w].run] =
                    [@ EXCEPT !.st = mem[w].st + 1, !.cur = NoKey,
                              !.rows[mem[w].row].status = settled(w, outcome)]]
    BY <1>5 DEF Persist
  <2> DEFINE s == settled(w, outcome)
             rows == [x.rows EXCEPT ![mem[w].row].status = s]
             y == [x EXCEPT !.st = mem[w].st + 1, !.cur = NoKey, !.rows = rows]
  <2>2. pc[w] # "idle" /\ claimStands(w) /\ s \in RowStatus
    BY <1>5 DEF Persist, stale, settled, RowStatus
  <2>3. r \in Run /\ runs' = [runs EXCEPT ![r] = y]
    BY <1>2, <2>1, <2>2 DEF RunRecord
  <2>4. /\ mem[w].row \in DOMAIN x.rows /\ x.rows[mem[w].row].status = "RUNNING"
        /\ x.status \notin FinishedRun
    BY <1>2, <2>2 DEF claimStands, FinishedRun
  <2> HIDE DEF s
  <2>5. DOMAIN rows = DOMAIN x.rows /\ \A j \in DOMAIN x.rows \ {mem[w].row} : rows[j] = x.rows[j]
    BY <1>2, <2>2, <2>4, StatusWritten
  <2> HIDE DEF rows
  <2>6. y.rows = rows
    BY <1>2, <2>2 DEF RunRecord
  <2> HIDE DEF y
  <2> QED
    BY <2>3, <2>4, <2>5, <2>6, OneFinal
<1>6. CASE Release(w) /\ claimStands(w)
  <2> DEFINE rows == [x.rows EXCEPT ![mem[w].row].status = "PENDING"]
             y == [x EXCEPT !.cur = NoKey, !.rows = rows]
  <2>1. pc[w] # "idle" /\ "PENDING" \in RowStatus
    BY <1>6 DEF Release, RowStatus
  <2>2. r \in Run /\ runs' = [runs EXCEPT ![r] = y]
    BY <1>2, <1>6, <2>1 DEF Release, RunRecord
  <2>3. /\ mem[w].row \in DOMAIN x.rows /\ x.rows[mem[w].row].status = "RUNNING"
        /\ x.status \notin FinishedRun
    BY <1>2, <1>6, <2>1 DEF claimStands, FinishedRun
  <2>4. DOMAIN rows = DOMAIN x.rows /\ \A j \in DOMAIN x.rows \ {mem[w].row} : rows[j] = x.rows[j]
    BY <1>2, <2>1, <2>3, StatusWritten
  <2> HIDE DEF rows
  <2>5. y.rows = rows
    BY <1>2, <2>1 DEF RunRecord
  <2> HIDE DEF y
  <2> QED
    BY <2>2, <2>3, <2>4, <2>5, OneFinal
<1>7. CASE Finish(w) /\ runs' # runs
  <2>1. pc[w] # "idle" /\ x.status \in ActiveRun /\ x.status \notin FinishedRun
    BY <1>2, <1>7 DEF Finish, finishRun, finishWorkflow, ActiveRun, FinishedRun
  <2>2. CASE mem[w].type = "ABORT"
    <3> DEFINE y == [x EXCEPT !.status = "FAILED", !.cur = NoKey]
    <3>1. runs' = [runs EXCEPT ![r] = y] /\ y.rows = x.rows
      BY <1>2, <1>7, <2>1, <2>2 DEF Finish, finishRun, RunRecord
    <3> HIDE DEF y
    <3> QED
      BY <1>2, <2>1, <3>1, OneFinal
  <2>3. CASE mem[w].type # "ABORT"
    <3> DEFINE y == [x EXCEPT !.status = finalStatus(mem[w].type), !.cur = NoKey]
    <3>1. runs' = [q \in Run |-> IF q = r THEN y
                               ELSE IF q \in activeRuns THEN cancelRun(runs[q]) ELSE runs[q]]
      BY <1>7, <2>3 DEF Finish, finishWorkflow
    <3>2. y.rows = x.rows
      BY <1>2, <2>1 DEF RunRecord
    <3> HIDE DEF y
    <3>3. Final(x, y)
      BY <2>1, <3>2 DEF Final
    <3>4. \A q \in Run : Final(runs[q], runs[q]) /\
            (q \in activeRuns => Final(runs[q], cancelRun(runs[q])))
      BY CancelFinal, CancelActiveType DEF activeRuns, Final
    <3> QED
      BY <3>1, <3>3, <3>4
  <2> QED
    BY <2>2, <2>3
<1>8. CASE runs' # runs
  <2>1. TakeJob(w) \/ HandlerMove(w) \/ Heartbeat(w) \/ StepFails(w)
        \/ JobFails(w) \/ Crash(w) \/ Stall(w) => runs' = runs
    BY DEF TakeJob, HandlerMove, Heartbeat, StepFails, JobFails, Crash, Stall
  <2>2. LoadRun(w) \/ LoadRows(w) \/ Reread(w) \/ Enter(w) \/ EntryHop(w) \/ HandlerHop(w)
        \/ EnqueueNext(w) \/ RequestApproval(w) => runs' = runs
    BY DEF LoadRun, LoadRows, Reread, Enter, EntryHop, HandlerHop, hop, EnqueueNext,
           RequestApproval
  <2>3. CASE StartRun(w)
    BY <1>3, <1>8, <2>3 DEF StartRun
  <2>4. CASE Claim(w)
    BY <1>4, <1>8, <2>4 DEF Claim
  <2>5. CASE Persist(w)
    BY <1>5, <1>8, <2>5 DEF Persist
  <2>6. CASE Release(w)
    BY <1>6, <1>8, <2>6 DEF Release
  <2>7. CASE Finish(w)
    BY <1>7, <1>8, <2>7
  <2>8. StartRun(w) \/ Claim(w) \/ Persist(w) \/ Release(w) \/ Finish(w)
    BY <1>8, <2>1, <2>2 DEF Work
  <2> QED
    BY <2>3, <2>4, <2>5, <2>6, <2>7, <2>8
<1> QED
  BY <1>1, <1>8

LEMMA NextFinal ==
  ASSUME IInv, Next
  PROVE  \A q \in Run : Final(runs[q], runs'[q])
<1>1. CASE \E w \in Worker :
             \/ TakeJob(w) \/ Work(w) \/ HandlerMove(w) \/ Heartbeat(w)
             \/ StepFails(w) \/ JobFails(w) \/ Crash(w) \/ Stall(w)
  BY <1>1, WorkerFinal
<1>2. CASE runs' = runs
  BY <1>2 DEF Final
<1>3. CASE \E r \in Run : EnqueueStartFails(r)
  <2> PICK r \in Run : EnqueueStartFails(r)
    BY <1>3
  <2> DEFINE y == [runs[r] EXCEPT !.status = "FAILED"]
  <2>1. runs' = [runs EXCEPT ![r].status = IF @ = "PENDING" THEN "FAILED" ELSE @]
    BY DEF EnqueueStartFails
  <2>2. CASE runs[r].status # "PENDING"
    <3>1. runs' = runs
      BY <2>1, <2>2 DEF IInv, TypeOK, RunRecord
    <3> QED
      BY <3>1 DEF Final
  <2>3. CASE runs[r].status = "PENDING"
    <3>1. runs' = [runs EXCEPT ![r] = y] /\ y.rows = runs[r].rows
      BY <2>1, <2>3 DEF IInv, TypeOK, RunRecord
    <3>2. runs[r].status \notin FinishedRun
      BY <2>3 DEF FinishedRun
    <3> HIDE DEF y
    <3> QED
      BY <3>1, <3>2, OneFinal DEF IInv
  <2> QED
    BY <2>2, <2>3
<1>4. CASE \E r \in Run : \E force : createRun(r, force)
  <2> PICK r \in Run : \E force : createRun(r, force)
    BY <1>4
  <2> DEFINE y == [runs[r] EXCEPT !.status = "PENDING"]
  <2>1. runs' = [runs EXCEPT ![r] = y] /\ runs[r].status \notin FinishedRun
    BY DEF createRun, FinishedRun
  <2>2. y.rows = runs[r].rows
    BY DEF IInv, TypeOK
  <2> HIDE DEF y
  <2> QED
    BY <2>1, <2>2, OneFinal DEF IInv
<1>5. CASE CancelTask
  <2>1. \A q \in Run : Final(runs[q], runs[q]) /\
          (q \in activeRuns => Final(runs[q], cancelRun(runs[q])))
    BY CancelFinal, CancelActiveType DEF IInv, activeRuns, Final
  <2> QED
    BY <1>5, <2>1 DEF CancelTask
<1> QED
  BY <1>1, <1>2, <1>3, <1>4, <1>5
     DEF Next, StartWorkflow, EnqueueStart, ApiCrash, HumanTransition, RetryRequest,
         RetryRead, RetryHop, RetryStart

\* A finished run and a row that SUCCEEDED never change again.
THEOREM HistoryPreserved == Spec => HistoryIsFinal
<1>1. ASSUME IInv, [Next]_vars
      PROVE  [\A r \in Run :
                /\ runs[r].status \in FinishedRun => runs'[r] = runs[r]
                /\ \A i \in DOMAIN runs[r].rows :
                     runs[r].rows[i].status = "SUCCEEDED" =>
                       i \in DOMAIN runs'[r].rows /\ runs'[r].rows[i] = runs[r].rows[i]]_vars
  BY <1>1, NextFinal DEF Final
<1> QED
  BY <1>1, Invariance, PTL DEF Spec, HistoryIsFinal

(***************************************************************************)
(* Cancellation. Nothing walks away from CANCELLED: a walk on its way does *)
(* not pass it, and no new one starts from it.                             *)
(***************************************************************************)
LEMMA NoWayOut ==
  ASSUME NEW t \in Status, t # "CANCELLED"
  PROVE  route("CANCELLED", t) = <<>>
<1> SUFFICES ASSUME route("CANCELLED", t) # <<>> PROVE FALSE
  OBVIOUS
<1>1. "CANCELLED" \in Status
  BY EngineAssumption
<1>2. /\ route("CANCELLED", t) \in Seq(Status) /\ route("CANCELLED", t)[1] = "CANCELLED"
      /\ Len(route("CANCELLED", t)) >= 2
  BY <1>1, PathAssumption
<1>3. 1 \in 1..Len(route("CANCELLED", t)) /\ 1 < Len(route("CANCELLED", t))
  BY <1>2
<1> QED
  BY <1>1, <1>2, <1>3, PathAssumption

\* No result and no claim.
Dormant(x, y) == y.st = x.st /\ y.cur \in {x.cur, NoKey}

LEMMA WorkerCancelled ==
  ASSUME IInv, task = "CANCELLED", NEW w \in Worker,
         TakeJob(w) \/ Work(w) \/ HandlerMove(w) \/ Heartbeat(w)
           \/ StepFails(w) \/ JobFails(w) \/ Crash(w) \/ Stall(w)
  PROVE  task' = "CANCELLED" /\ \A q \in Run : Dormant(runs[q], runs'[q])
<1> USE DEF IInv
<1> DEFINE r == job[w].run
           x == runs[r]
<1>1. ASSUME hop(w, "walk", "handle", "release") \/ hop(w, "move", "moved", "thrown")
      PROVE  task' = task
  <2>1. Walkable(mem[w].trail) /\ mem[w].trail \in Seq(Status)
    BY <1>1, MineType DEF hop, Local, Memory
  <2>2. mem[w].trail[1] # "CANCELLED"
    BY <2>1 DEF Walkable
  <2> QED
    BY <1>1, <2>2 DEF hop
<1>2. pc[w] # "idle" => /\ r \in Run /\ x \in RunRecord /\ x = mine(w) /\ mem[w] \in Memory
                        /\ mem[w].type \in DecisionType
  BY MineType DEF Memory
<1>3. Finish(w) => \/ runs' = runs /\ task' = task
                   \/ mem[w].type = "ABORT" /\ task' = task
  <2> SUFFICES ASSUME Finish(w), mem[w].type # "ABORT" PROVE runs' = runs /\ task' = task
    BY DEF Finish, finishRun
  <2>1. route(task, finalTask(mem[w].type)) = <<>>
    BY <1>2, FinalType, NoWayOut DEF Finish
  <2> QED
    BY <2>1 DEF Finish, finishWorkflow
<1>4. task' = task
  <2>1. TakeJob(w) \/ HandlerMove(w) \/ Heartbeat(w) \/ StepFails(w)
        \/ JobFails(w) \/ Crash(w) \/ Stall(w) => task' = task
    BY DEF TakeJob, HandlerMove, Heartbeat, StepFails, JobFails, Crash, Stall
  <2>2. LoadRun(w) \/ LoadRows(w) \/ StartRun(w) \/ Reread(w) \/ Claim(w) \/ Enter(w)
        \/ Persist(w) \/ Release(w) \/ EnqueueNext(w) \/ RequestApproval(w) => task' = task
    BY DEF LoadRun, LoadRows, StartRun, Reread, Claim, Enter, Persist, Release, EnqueueNext,
           RequestApproval
  <2> QED
    BY <1>1, <1>3, <2>1, <2>2 DEF Work, EntryHop, HandlerHop
<1>5. ASSUME NEW y, runs' = [runs EXCEPT ![r] = y], r \in Run, Dormant(x, y)
      PROVE  \A q \in Run : Dormant(runs[q], runs'[q])
  <2>1. runs'[r] = y /\ \A q \in Run \ {r} : runs'[q] = runs[q]
    BY <1>5 DEF TypeOK
  <2> QED
    BY <1>5, <2>1 DEF Dormant
<1>6. CASE runs' = runs
  BY <1>4, <1>6 DEF Dormant
<1>7. CASE StartRun(w) /\ runs' # runs
  <2> DEFINE y == [x EXCEPT !.status = "RUNNING"]
  <2>1. runs' = [runs EXCEPT ![r] = y] /\ r \in Run /\ x \in RunRecord
    BY <1>2, <1>7 DEF StartRun
  <2>2. Dormant(x, y)
    BY <2>1 DEF RunRecord, Dormant
  <2> HIDE DEF y
  <2> QED
    BY <1>4, <1>5, <2>1, <2>2
<1>8. CASE Release(w) /\ runs' # runs
  <2> DEFINE rows == [x.rows EXCEPT ![mem[w].row].status = "PENDING"]
             y == [x EXCEPT !.cur = NoKey, !.rows = rows]
  <2>1. runs' = [runs EXCEPT ![r] = y] /\ r \in Run /\ x \in RunRecord
    BY <1>2, <1>8 DEF Release, RunRecord
  <2> HIDE DEF rows
  <2>2. Dormant(x, y)
    BY <2>1 DEF RunRecord, Dormant
  <2> HIDE DEF y
  <2> QED
    BY <1>4, <1>5, <2>1, <2>2
<1>9. CASE Finish(w) /\ runs' # runs
  <2> DEFINE y == [x EXCEPT !.status = "FAILED", !.cur = NoKey]
  <2>1. runs' = [runs EXCEPT ![r] = y] /\ r \in Run /\ x \in RunRecord
    BY <1>2, <1>3, <1>9 DEF Finish, finishRun
  <2>2. Dormant(x, y)
    BY <2>1 DEF RunRecord, Dormant
  <2> HIDE DEF y
  <2> QED
    BY <1>4, <1>5, <2>1, <2>2
<1>10. runs' = runs \/ StartRun(w) \/ Release(w) \/ Finish(w)
  <2>1. TakeJob(w) \/ HandlerMove(w) \/ Heartbeat(w) \/ StepFails(w)
        \/ JobFails(w) \/ Crash(w) \/ Stall(w) => runs' = runs
    BY DEF TakeJob, HandlerMove, Heartbeat, StepFails, JobFails, Crash, Stall
  <2>2. LoadRun(w) \/ LoadRows(w) \/ Reread(w) \/ Enter(w) \/ EntryHop(w) \/ HandlerHop(w)
        \/ EnqueueNext(w) \/ RequestApproval(w) => runs' = runs
    BY DEF LoadRun, LoadRows, Reread, Enter, EntryHop, HandlerHop, hop, EnqueueNext,
           RequestApproval
  <2>3. Claim(w) \/ Persist(w) => runs' = runs
    BY DEF Claim, mayClaim, Persist, stale
  <2> QED
    BY <2>1, <2>2, <2>3 DEF Work
<1> QED
  BY <1>6, <1>7, <1>8, <1>9, <1>10

LEMMA NextCancelled ==
  ASSUME IInv, Next, task = "CANCELLED"
  PROVE  task' = "CANCELLED" /\ \A q \in Run : Dormant(runs[q], runs'[q])
<1>1. CASE \E w \in Worker :
             \/ TakeJob(w) \/ Work(w) \/ HandlerMove(w) \/ Heartbeat(w)
             \/ StepFails(w) \/ JobFails(w) \/ Crash(w) \/ Stall(w)
  BY <1>1, WorkerCancelled
<1>2. CASE runs' = runs /\ task' = task
  BY <1>2 DEF Dormant
<1>3. CASE \E r \in Run : EnqueueStartFails(r)
  <2> PICK r \in Run : EnqueueStartFails(r)
    BY <1>3
  <2>1. task' = task
    BY DEF EnqueueStartFails
  <2>2. ASSUME NEW q \in Run PROVE runs'[q].st = runs[q].st /\ runs'[q].cur = runs[q].cur
    BY DEF EnqueueStartFails, IInv, TypeOK
  <2> QED
    BY <2>1, <2>2 DEF Dormant
<1>4. ~\E r \in Run : \E force : createRun(r, force)
  BY DEF createRun
<1>5. CASE CancelTask
  <2>1. task' = "CANCELLED"
    BY <1>5 DEF CancelTask
  <2>2. ASSUME NEW q \in Run PROVE Dormant(runs[q], runs'[q])
    <3>1. runs'[q] = runs[q] \/ runs'[q] = cancelRun(runs[q])
      BY <1>5 DEF CancelTask
    <3>2. Dormant(runs[q], cancelRun(runs[q]))
      BY CancelActiveType, CancelRunType DEF IInv, Dormant
    <3> QED
      BY <3>1, <3>2 DEF Dormant
  <2> QED
    BY <2>1, <2>2
<1>6. ~HumanTransition
  BY PathAssumption, EngineAssumption DEF HumanTransition, IInv, TypeOK
<1>7. CASE RetryHop
  <2>1. retry.trail # <<>> => Head(retry.trail) \in Status
    BY DEF IInv, TypeOK
  <2>2. ~(retry.trail # <<>> /\ legal(task, Head(retry.trail)))
    BY <2>1, PathAssumption, EngineAssumption
  <2>3. runs' = runs /\ task' = "CANCELLED"
    BY <1>7, <2>2 DEF RetryHop
  <2> QED
    BY <2>3 DEF Dormant
<1> QED
  BY <1>1, <1>2, <1>3, <1>4, <1>5, <1>6, <1>7
     DEF Next, StartWorkflow, EnqueueStart, ApiCrash, RetryRequest, RetryRead, RetryStart

\* A cancelled task stays cancelled and no step of it is claimed or recorded
\* (the task lock of claim and persist, the compare-and-set of every walk).
THEOREM CancellationHolds == Spec => CancellationIsFinal
<1>1. ASSUME IInv, [Next]_vars
      PROVE  [task = "CANCELLED" =>
                /\ task' = "CANCELLED"
                /\ \A r \in Run : /\ runs'[r].st = runs[r].st
                                  /\ runs'[r].cur \in {runs[r].cur, NoKey}]_vars
  BY <1>1, NextCancelled DEF Dormant
<1> QED
  BY <1>1, Invariance, PTL DEF Spec, CancellationIsFinal
=============================================================================
