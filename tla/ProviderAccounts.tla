-------------------------- MODULE ProviderAccounts --------------------------
(***************************************************************************)
(* One agent provider of an organization: its row with the stored API key, *)
(* the agents bound to it, the dialog that sets or clears the key, and the *)
(* worker's cache of the decrypted key.                                    *)
(*                                                                         *)
(* Providers are written without a lock and without a version. Removing    *)
(* one counts its agents first and deletes it later; creating an agent     *)
(* looks at the provider first and inserts later. The foreign key of       *)
(* agents (ON DELETE RESTRICT) is the database's. A key is a number; NoKey *)
(* makes the CLI use its own login. op_word next to op is a faulty variant *)
(* of op.                                                                  *)
(***************************************************************************)
EXTENDS Naturals

CONSTANTS
  Admin,     \* browsers of administrators
  MaxKeys,   \* bound: keys that are stored
  TTL,       \* how long the worker reuses a decrypted key
  ReadTime,  \* bound: how long the worker's read of the row takes
  MaxTime    \* bound: the clock

VARIABLES
  provider,   \* the row: exists, enabled, key
  agents,     \* agents bound to the provider
  dialog,     \* what each administrator's page shows of the provider
  removing,   \* administrators whose removal has counted no agents
  creating,   \* agents that are created and have seen an enabled provider
  readable,   \* SECRETS_ENCRYPTION_KEY is the one the key was stored with
  cache,      \* the worker's entry: key, expiresAt, and whether there is one
  reading,    \* a read of the row whose answer is not stored yet
  using,      \* the key an execution is given now, if one is
  retired,    \* when each key, or the lack of one, was last replaced
  keys, time

accountVars == <<provider, agents, dialog, removing, creating, readable, cache,
                 reading, using, retired, keys, time>>

NoKey == 0
Key == 0..MaxKeys
Idle == [on |-> FALSE, key |-> NoKey, at |-> 0]
unseen == [exists |-> FALSE, enabled |-> FALSE]

Init ==
  /\ provider = [exists |-> TRUE, enabled |-> TRUE, key |-> NoKey]
  /\ agents = 0
  /\ dialog = [c \in Admin |-> unseen]
  /\ removing = {} /\ creating = FALSE /\ readable = TRUE
  /\ cache = Idle /\ reading = Idle
  /\ using = Idle
  /\ retired = [k \in Key |-> 0]
  /\ keys = 0 /\ time = 0

-----------------------------------------------------------------------------
(***************************************************************************)
(* AgentProvidersService and the credential dialog.                        *)
(***************************************************************************)
Load(c) ==
  /\ provider.exists
  /\ dialog' = [dialog EXCEPT ![c] = [exists |-> TRUE, enabled |-> provider.enabled]]
  /\ UNCHANGED <<provider, agents, removing, creating, readable, cache, reading,
                 using, retired, keys, time>>

\* The row with another key; the old one is retired now.
rekey(k) == retired' = IF k = provider.key THEN retired
                       ELSE [retired EXCEPT ![provider.key] = time]

\* An upsert writes every field the page holds, so also enabled as it was when
\* the page was loaded, and creates the row again when it has been removed.
upsert(c, k, enabled) ==
  /\ dialog[c].exists
  /\ provider' = [exists |-> TRUE, enabled |-> enabled, key |-> k]
  /\ rekey(k)
  /\ UNCHANGED <<agents, dialog, removing, creating, readable, cache, reading,
                 using, time>>

SetKey(c) ==
  /\ keys < MaxKeys /\ keys' = keys + 1
  /\ upsert(c, keys + 1, dialog[c].enabled)

ClearKey(c) == UNCHANGED keys /\ upsert(c, NoKey, dialog[c].enabled)

\* A change of other fields leaves the columns of the key alone.
Enable(c, enabled) ==
  UNCHANGED keys /\ upsert(c, IF provider.exists THEN provider.key ELSE NoKey, enabled)

Count(c) ==
  /\ provider.exists /\ agents = 0
  /\ removing' = removing \cup {c}
  /\ UNCHANGED <<provider, agents, dialog, creating, readable, cache, reading,
                 using, retired, keys, time>>

\* The delete fails when an agent has been bound since, or the row is gone.
Remove(c) ==
  /\ c \in removing
  /\ removing' = removing \ {c}
  /\ IF provider.exists /\ agents = 0
     THEN /\ provider' = [exists |-> FALSE, enabled |-> FALSE, key |-> NoKey]
          /\ rekey(NoKey)
     ELSE UNCHANGED <<provider, retired>>
  /\ UNCHANGED <<agents, dialog, creating, readable, cache, reading, using, keys, time>>

FindProvider ==
  /\ provider.exists /\ provider.enabled /\ ~creating
  /\ creating' = TRUE
  /\ UNCHANGED <<provider, agents, dialog, removing, readable, cache, reading,
                 using, retired, keys, time>>

InsertAgent_unreferenced ==
  /\ creating /\ creating' = FALSE
  /\ agents' = 1
  /\ UNCHANGED <<provider, dialog, removing, readable, cache, reading, using,
                 retired, keys, time>>

InsertAgent ==
  /\ creating /\ creating' = FALSE
  /\ agents' = IF provider.exists THEN 1 ELSE agents
  /\ UNCHANGED <<provider, dialog, removing, readable, cache, reading, using,
                 retired, keys, time>>

-----------------------------------------------------------------------------
(***************************************************************************)
(* CredentialResolver: a fresh entry is used as it is; otherwise the row   *)
(* is read, and what was read is stored and used when the answer is there. *)
(***************************************************************************)
fresh_forever == cache.on

fresh == cache.on /\ cache.at > time

give(k) == using' = [on |-> TRUE, key |-> k, at |-> time]

Hit ==
  /\ fresh /\ ~reading.on
  /\ give(cache.key)
  /\ UNCHANGED <<provider, agents, dialog, removing, creating, readable, cache,
                 reading, retired, keys, time>>

Read ==
  /\ ~fresh /\ ~reading.on
  /\ reading' = [on |-> TRUE, key |-> provider.key, at |-> time]
  /\ UNCHANGED <<provider, agents, dialog, removing, creating, readable, cache,
                 using, retired, keys, time>>

\* A key that cannot be decrypted stops the execution; nothing is cached.
Store ==
  /\ reading.on
  /\ reading' = Idle
  /\ IF reading.key # NoKey /\ ~readable
     THEN UNCHANGED <<cache, using>>
     ELSE /\ cache' = [on |-> TRUE, key |-> reading.key, at |-> time + TTL]
          /\ give(reading.key)
  /\ UNCHANGED <<provider, agents, dialog, removing, creating, readable, retired,
                 keys, time>>

\* The worker restarts, with this or another encryption key.
Restart ==
  /\ \E b \in BOOLEAN : readable' = b
  /\ cache' = Idle /\ reading' = Idle
  /\ UNCHANGED <<provider, agents, dialog, removing, creating, using, retired,
                 keys, time>>

Tick ==
  /\ time < MaxTime
  /\ reading.on => time < reading.at + ReadTime
  /\ time' = time + 1
  /\ using' = Idle
  /\ UNCHANGED <<provider, agents, dialog, removing, creating, readable, cache,
                 reading, retired, keys>>

Administer ==
  \/ \E c \in Admin :
       \/ Load(c) \/ SetKey(c) \/ ClearKey(c)
       \/ \E enabled \in BOOLEAN : Enable(c, enabled)
       \/ Count(c) \/ Remove(c)
  \/ FindProvider \/ InsertAgent

Next == Administer \/ Hit \/ Read \/ Store \/ Restart \/ Tick

-----------------------------------------------------------------------------
TypeOK ==
  /\ provider \in [exists : BOOLEAN, enabled : BOOLEAN, key : Key]
  /\ agents \in 0..1 /\ creating \in BOOLEAN /\ readable \in BOOLEAN
  /\ dialog \in [Admin -> [exists : BOOLEAN, enabled : BOOLEAN]]
  /\ removing \subseteq Admin
  /\ \A e \in {cache, reading, using} : e.on \in BOOLEAN /\ e.key \in Key /\ e.at \in Nat
  /\ retired \in [Key -> Nat] /\ keys \in Key /\ time \in 0..MaxTime

\* No agent is left without its provider, whichever way a removal that has
\* counted no agents and a creation that has seen the provider interleave.
AgentsHaveProviders == agents > 0 => provider.exists

\* A key that has been replaced or cleared (and the CLI's own login, once a key
\* has been stored) is given to an execution for at most the TTL and the time
\* one read takes after that.
RetiredKeysFade ==
  (using.on /\ using.key # provider.key) =>
    time <= retired[using.key] + TTL + ReadTime
=============================================================================
