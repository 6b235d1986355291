------------------------- MODULE ConfigurationEdits -------------------------
(***************************************************************************)
(* How people edit what later runs execute with: a task's planning inputs, *)
(* an agent's settings, the project's team, a prompt template and the      *)
(* project's contract.                                                     *)
(*                                                                         *)
(* A form keeps the version and the text it was opened with while the page *)
(* behind it is refreshed. A save carries that version; the service locks  *)
(* the rows and refuses a save whose version is not the current one. Only  *)
(* the contract has no version. An answer may be lost or come too late, so *)
(* a form may send a second save while its first is still on its way.      *)
(*                                                                         *)
(* A team edit, and an agent edit that changes how it executes, hold the   *)
(* locks of the project and of its tasks from their check for live work to *)
(* their commit; these are kept apart here. Every save has a content of    *)
(* its own (its number). op_word next to op is a faulty variant of op.     *)
(***************************************************************************)
EXTENDS Naturals

CONSTANTS
  Client,    \* browsers
  Kinds,     \* the kinds of resource that are explored, of AllKinds
  MaxSaves,  \* bound: saves that are sent
  MaxClock   \* bound: the clock, in milliseconds

VARIABLES
  row,    \* each resource: its version, content, and for an agent the content
          \* of its last structural save
  form,   \* each browser's form
  sent,   \* saves that have not been handled yet
  tx,     \* the transaction that holds the project's and its tasks' locks
  work,   \* whether work of the project is live, and the inputs it started with
  proof,  \* the task has implementation evidence, or a status past planning
  blind,  \* kinds of which a save replaced content its author had not seen
  saves,  \* saves sent so far
  clock

editVars == <<row, form, sent, tx, work, proof, blind, saves, clock>>

AllKinds == {"task", "agent", "team", "prompt", "contract"}
Row == [ver : Nat, content : 0..MaxSaves, inputs : 0..MaxSaves]
Save == [n : 1..MaxSaves, by : Client, kind : Kinds, base : Nat, seen : 0..MaxSaves,
         content : 0..MaxSaves, structural : BOOLEAN]
Closed == [state |-> "closed", kind |-> "none", base |-> 0, seen |-> 0, save |-> 0]
NoWork == [live |-> FALSE, agent |-> 0, team |-> 0, task |-> 0]
NoTx == [by |-> "nobody"]

Init ==
  /\ row = [k \in Kinds |-> [ver |-> 0, content |-> 0, inputs |-> 0]]
  /\ form = [c \in Client |-> Closed]
  /\ sent = {}
  /\ tx = NoTx
  /\ work = NoWork
  /\ proof = FALSE
  /\ blind = {}
  /\ saves = 0
  /\ clock = 1

-----------------------------------------------------------------------------
(***************************************************************************)
(* The forms.                                                              *)
(***************************************************************************)
opened(k) == [state |-> "editing", kind |-> k, base |-> row[k].ver,
              seen |-> row[k].content, save |-> 0]

open(c, k) ==
  /\ k \in Kinds /\ form[c].state = "closed"
  /\ form' = [form EXCEPT ![c] = opened(k)]
  /\ UNCHANGED <<row, sent, tx, work, proof, blind, saves, clock>>

OpenTask(c) == open(c, "task")
OpenAgent(c) == open(c, "agent")
OpenTeam(c) == open(c, "team")
OpenPrompt(c) == open(c, "prompt")
OpenContract(c) == open(c, "contract")

Cancel(c) ==
  /\ form[c].state = "editing"
  /\ form' = [form EXCEPT ![c] = Closed]
  /\ UNCHANGED <<row, sent, tx, work, proof, blind, saves, clock>>

\* "Reload saved" replaces the baseline and the draft.
reload(c, k) ==
  /\ form[c].state = "editing" /\ form[c].kind = k
  /\ form' = [form EXCEPT ![c] = opened(k)]
  /\ UNCHANGED <<row, sent, tx, work, proof, blind, saves, clock>>

ReloadTask(c) == reload(c, "task")
ReloadAgent(c) == reload(c, "agent")

submit(c, k, structural, content) ==
  LET f == form[c] IN
  /\ f.state = "editing" /\ f.kind = k /\ saves < MaxSaves
  /\ saves' = saves + 1
  /\ sent' = sent \cup {[n |-> saves + 1, by |-> c, kind |-> k, base |-> f.base,
                         seen |-> f.seen, structural |-> structural,
                         content |-> content]}
  /\ form' = [form EXCEPT ![c].state = "saving", ![c].save = saves + 1]
  /\ UNCHANGED <<row, tx, work, proof, blind, clock>>

edited == saves + 1

\* The dialogs of a task and of an agent refuse a draft without changes, and a
\* revision of a prompt is always new. A team or a contract may be saved as it
\* was loaded.
SubmitTask(c) == submit(c, "task", FALSE, edited)
SubmitAgent(c) == \E structural \in BOOLEAN : submit(c, "agent", structural, edited)
SubmitTeam(c) ==
  \E content \in {edited, form[c].seen} : submit(c, "team", FALSE, content)
SubmitPrompt(c) == submit(c, "prompt", FALSE, edited)
SubmitContract(c) ==
  \E content \in {edited, form[c].seen} : submit(c, "contract", FALSE, content)

\* The request fails for the browser; it may still arrive.
GiveUp(c) ==
  /\ form[c].state = "saving"
  /\ form' = [form EXCEPT ![c].state = "editing", ![c].save = 0]
  /\ UNCHANGED <<row, sent, tx, work, proof, blind, saves, clock>>

\* The answer closes the form that waits for it, or brings it back to its
\* draft.
answer(q, ok) ==
  form' = [form EXCEPT ![q.by] =
    IF @.state = "saving" /\ @.save = q.n
    THEN IF ok THEN Closed ELSE [@ EXCEPT !.state = "editing", !.save = 0]
    ELSE @]

-----------------------------------------------------------------------------
(***************************************************************************)
(* The services.                                                           *)
(***************************************************************************)
free == tx = NoTx

stamp_clock(prev) == clock

\* max(now, prev + 1): two edits within a millisecond get two versions.
stamp(prev) == IF clock > prev THEN clock ELSE prev + 1

nextVersion(k) ==
  IF k \in {"task", "agent"} THEN stamp(row[k].ver) ELSE row[k].ver + 1

\* A contract is replaced whatever it has become.
current(q) == q.kind = "contract" \/ q.base = row[q.kind].ver

\* isEditable of a team, and the five queries of a structural agent edit.
idle == ~work.live

\* An idle planning task without evidence.
editable == ~work.live /\ ~proof

unchanged(q) == q.kind \in {"team", "contract"} /\ q.content = row[q.kind].content

\* What a save that is accepted writes.
write(q) ==
  /\ row' = [row EXCEPT ![q.kind] =
       IF unchanged(q) THEN @
       ELSE [ver |-> nextVersion(q.kind), content |-> q.content,
             inputs |-> IF q.structural THEN q.content ELSE @.inputs]]
  /\ blind' = IF row[q.kind].content = q.seen \/ unchanged(q) THEN blind
              ELSE blind \cup {q.kind}

\* One transaction.
save(q, k) ==
  /\ q \in sent /\ q.kind = k /\ free /\ current(q)
  /\ write(q)
  /\ sent' = sent \ {q}
  /\ answer(q, TRUE)
  /\ UNCHANGED <<tx, work, proof, saves, clock>>

UpdateTask(q) == editable /\ save(q, "task")
UpdateAgent(q) == ~q.structural /\ save(q, "agent")
RevisePrompt(q) == save(q, "prompt")
ReplaceContract(q) == save(q, "contract")

\* The locks of the project and its tasks are taken and the checks made.
begin(q, k) ==
  /\ q \in sent /\ q.kind = k /\ free
  /\ idle /\ current(q)
  /\ tx' = q
  /\ sent' = sent \ {q}
  /\ UNCHANGED <<row, form, work, proof, blind, saves, clock>>

BeginTeam(q) == begin(q, "team")
BeginAgent(q) == q.structural /\ begin(q, "agent")

Commit ==
  /\ ~free
  /\ write(tx)
  /\ answer(tx, TRUE)
  /\ tx' = NoTx
  /\ UNCHANGED <<sent, work, proof, saves, clock>>

Refuse(q) ==
  /\ q \in sent /\ free
  /\ \/ ~current(q)
     \/ q.kind = "task" /\ ~editable
     \/ (q.kind = "team" \/ q.structural) /\ ~idle
  /\ sent' = sent \ {q}
  /\ answer(q, FALSE)
  /\ UNCHANGED <<row, tx, work, proof, blind, saves, clock>>

\* The budget dialog changes an agent's limits without a version. The settings
\* stay, the version moves on. One such edit per millisecond is explored.
LimitAgent ==
  /\ "agent" \in Kinds /\ free
  /\ row["agent"].ver < clock
  /\ row' = [row EXCEPT !["agent"].ver = stamp(@)]
  /\ UNCHANGED <<form, sent, tx, work, proof, blind, saves, clock>>

-----------------------------------------------------------------------------
(***************************************************************************)
(* The work the edits must not disturb. A start and every transition of a  *)
(* task hold the task's lock and set updatedAt to the time of the write.   *)
(***************************************************************************)
taskWritten ==
  IF "task" \in Kinds THEN row' = [row EXCEPT !["task"].ver = clock] ELSE row' = row

taskDue == "task" \in Kinds => clock > row["task"].ver

now_(k, field) == IF k \in Kinds THEN row[k][field] ELSE 0

StartWork_unlocked ==
  /\ idle /\ taskDue
  /\ work' = [live |-> TRUE, agent |-> now_("agent", "inputs"),
              team |-> now_("team", "content"), task |-> now_("task", "content")]
  /\ taskWritten
  /\ UNCHANGED <<form, sent, tx, proof, blind, saves, clock>>

StartWork ==
  /\ free /\ idle /\ taskDue
  /\ work' = [live |-> TRUE, agent |-> now_("agent", "inputs"),
              team |-> now_("team", "content"), task |-> now_("task", "content")]
  /\ taskWritten
  /\ UNCHANGED <<form, sent, tx, proof, blind, saves, clock>>

FinishWork(evidence) ==
  /\ free /\ work.live /\ taskDue
  /\ work' = NoWork
  /\ proof' = (proof \/ evidence)
  /\ taskWritten
  /\ UNCHANGED <<form, sent, tx, blind, saves, clock>>

Tick ==
  /\ clock < MaxClock
  /\ clock' = clock + 1
  /\ UNCHANGED <<row, form, sent, tx, work, proof, blind, saves>>

Browser ==
  \E c \in Client :
    \/ OpenTask(c) \/ OpenAgent(c) \/ OpenTeam(c) \/ OpenPrompt(c) \/ OpenContract(c)
    \/ SubmitTask(c) \/ SubmitAgent(c) \/ SubmitTeam(c)
    \/ SubmitPrompt(c) \/ SubmitContract(c)
    \/ ReloadTask(c) \/ ReloadAgent(c)
    \/ Cancel(c)
    \/ GiveUp(c)

Service ==
  \/ \E q \in sent :
       \/ UpdateTask(q) \/ UpdateAgent(q) \/ RevisePrompt(q) \/ ReplaceContract(q)
       \/ BeginTeam(q) \/ BeginAgent(q)
       \/ Refuse(q)
  \/ Commit
  \/ LimitAgent

Next ==
  \/ Browser
  \/ Service
  \/ StartWork
  \/ \E evidence \in BOOLEAN : FinishWork(evidence)
  \/ Tick

-----------------------------------------------------------------------------
TypeOK ==
  /\ row \in [Kinds -> Row]
  /\ \A c \in Client :
       /\ form[c].state \in {"closed", "editing", "saving"}
       /\ form[c].state = "closed" \/ form[c].kind \in Kinds
  /\ sent \subseteq Save
  /\ tx = NoTx \/ tx \in Save
  /\ blind \subseteq Kinds
  /\ saves \in 0..MaxSaves /\ clock \in 0..MaxClock
  /\ work.live \in BOOLEAN /\ proof \in BOOLEAN

\* No save of a task, an agent, a team or a prompt replaces content its author
\* had not seen, however long a form stays open, whatever is retried after a
\* lost answer and however close together two edits are (expectedUpdatedAt,
\* expectedVersion and expectedRevision). A contract's save may.
EditsReplaceWhatWasSeen == blind \subseteq {"contract"}

\* Live work goes on with the team and the agent it started with, and an
\* edited task is never live: an edit that found nothing live commits before
\* the next start (isEditable and the structural checks under the task locks).
LiveWorkKeepsItsInputs ==
  work.live =>
    /\ work.agent = now_("agent", "inputs")
    /\ work.team = now_("team", "content")
    /\ work.task = now_("task", "content")
=============================================================================
