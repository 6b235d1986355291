------------------------ MODULE ConfigurationProofs ------------------------
(***************************************************************************)
(* The four parts of MCConfiguration for every value of their constants:   *)
(* accounts, edits, executions and phases, each with its own inductive     *)
(* invariant.                                                              *)
(* A step of one part leaves the variables of the others alone, so MCSpec  *)
(* is followed part by part.                                               *)
(***************************************************************************)
EXTENDS MCConfiguration, WellFoundedInduction, FiniteSetTheorems, TLAPS

-----------------------------------------------------------------------------
(***************************************************************************)
(* Accounts. A key that is cached, or being read, and is the provider's no *)
(* more went out of use no earlier than it was read.                       *)
(***************************************************************************)
Until(k) == retired[k] + TTL + ReadTime

ReadInv ==
  reading.on =>
    /\ reading.at <= time /\ time <= reading.at + ReadTime
    /\ reading.key # provider.key => reading.at <= retired[reading.key]

CacheInv ==
  cache.on =>
    /\ cache.at <= time + TTL
    /\ cache.key # provider.key => cache.at <= Until(cache.key)

UseInv ==
  using.on =>
    /\ using.at = time
    /\ using.key # provider.key => time <= Until(using.key)

Entry == [on : BOOLEAN, key : 0..MaxKeys, at : Nat]

AccountTypes ==
  /\ A!TypeOK
  /\ cache \in Entry /\ reading \in Entry /\ using \in Entry
  /\ \A k \in 0..MaxKeys : retired[k] <= time

AccountInv == AccountTypes /\ A!AgentsHaveProviders /\ ReadInv /\ CacheInv /\ UseInv

LEMMA AccountInit == A!Init => AccountInv
<1> SUFFICES ASSUME A!Init PROVE AccountInv OBVIOUS
<1> USE ConfigurationAssumption DEF A!Init, A!Idle, A!NoKey, A!Key, A!unseen
<1>1. cache \in Entry /\ reading \in Entry /\ using \in Entry BY DEF Entry
<1>2. A!TypeOK
  <2>1. \A e \in {cache, reading, using} :
          e.on \in BOOLEAN /\ e.key \in 0..MaxKeys /\ e.at \in Nat
    BY <1>1 DEF Entry
  <2>2. provider \in [exists : BOOLEAN, enabled : BOOLEAN, key : 0..MaxKeys] OBVIOUS
  <2>3. dialog \in [Admin -> [exists : BOOLEAN, enabled : BOOLEAN]] OBVIOUS
  <2>4. retired \in [0..MaxKeys -> Nat] /\ time \in 0..MaxTime /\ keys \in 0..MaxKeys OBVIOUS
  <2>5. agents \in 0..1 /\ removing \subseteq Admin OBVIOUS
  <2>6. creating \in BOOLEAN /\ readable \in BOOLEAN OBVIOUS
  <2> HIDE ConfigurationAssumption DEF A!Init
  <2> QED BY <2>1, <2>2, <2>3, <2>4, <2>5, <2>6 DEF A!TypeOK
<1>3. AccountTypes BY <1>1, <1>2 DEF AccountTypes
<1>4. A!AgentsHaveProviders /\ ReadInv /\ CacheInv /\ UseInv
  BY DEF A!AgentsHaveProviders, ReadInv, CacheInv, UseInv
<1> QED BY <1>3, <1>4 DEF AccountInv

LEMMA UntilNat ==
  ASSUME AccountTypes, NEW k \in 0..MaxKeys
  PROVE  retired[k] \in Nat /\ Until(k) \in Nat
<1>1. retired[k] \in Nat BY DEF AccountTypes, A!TypeOK, A!Key
<1> QED BY <1>1, ConfigurationAssumption DEF Until

\* A key that is given up is retired now.
LEMMA Rekeyed ==
  ASSUME AccountInv, NEW k \in 0..MaxKeys, A!rekey(k), provider'.key = k,
         UNCHANGED <<cache, reading, using, time>>
  PROVE  /\ retired' \in [0..MaxKeys -> Nat] /\ \A j \in 0..MaxKeys : retired'[j] <= time
         /\ ReadInv' /\ CacheInv' /\ UseInv'
<1>0. retired \in [0..MaxKeys -> Nat] /\ time \in Nat
      /\ \A j \in 0..MaxKeys : retired[j] <= time
  BY ConfigurationAssumption DEF AccountInv, AccountTypes, A!TypeOK, A!Key
<1> USE ConfigurationAssumption DEF AccountInv, AccountTypes, A!TypeOK, A!Key
<1>1. CASE k = provider.key
  BY <1>1 DEF A!rekey, ReadInv, CacheInv, UseInv, Until
<1>2. CASE k # provider.key
  <2>1. retired' = [retired EXCEPT ![provider.key] = time] BY <1>2 DEF A!rekey
  <2>2. retired' \in [0..MaxKeys -> Nat] /\ \A j \in 0..MaxKeys : retired'[j] <= time
    <3> HIDE ConfigurationAssumption DEF AccountInv, AccountTypes, A!TypeOK, A!Key
    <3>1. \A j \in 0..MaxKeys :
            retired'[j] = IF j = provider.key THEN time ELSE retired[j]
      BY <1>0, <2>1
    <3>2. retired' \in [0..MaxKeys -> Nat] BY <1>0, <2>1
    <3>3. time <= time BY <1>0
    <3> QED BY <1>0, <3>1, <3>2, <3>3
  <2>3. \A j \in 0..MaxKeys : retired[j] <= retired'[j] BY <2>1
  <2>4. provider.key \in 0..MaxKeys /\ retired'[provider.key] = time BY <2>1
  <2>5. cache.key \in 0..MaxKeys /\ reading.key \in 0..MaxKeys /\ using.key \in 0..MaxKeys
    BY DEF Entry
  <2>6. cache.at \in Nat /\ reading.at \in Nat /\ time \in Nat BY DEF Entry
  <2>a. \A j \in 0..MaxKeys : retired[j] \in Nat /\ retired'[j] \in Nat BY <2>2
  <2>b. ReadInv /\ CacheInv /\ UseInv /\ TTL \in Nat /\ ReadTime \in Nat OBVIOUS
  <2>c. cache' = cache /\ reading' = reading /\ using' = using /\ time' = time OBVIOUS
  <2> HIDE ConfigurationAssumption DEF AccountInv, AccountTypes, A!TypeOK, A!Key
  <2>7. ReadInv'
    <3>1. CASE reading.key = provider.key BY <3>1, <2>4, <2>6, <2>b, <2>c DEF ReadInv
    <3>2. CASE reading.key # provider.key
      BY <3>2, <2>3, <2>5, <2>6, <2>a, <2>b, <2>c DEF ReadInv
    <3> QED BY <3>1, <3>2
  <2>8. CacheInv'
    <3>1. CASE cache.key = provider.key BY <3>1, <2>4, <2>6, <2>b, <2>c DEF CacheInv, Until
    <3>2. CASE cache.key # provider.key
      <4>1. retired[cache.key] <= retired'[cache.key] BY <2>3, <2>5
      <4>2. retired[cache.key] \in Nat /\ retired'[cache.key] \in Nat BY <2>5, <2>a
      <4> QED BY <3>2, <4>1, <4>2, <2>6, <2>b, <2>c DEF CacheInv, Until
    <3> QED BY <3>1, <3>2
  <2>9. UseInv'
    <3>1. CASE using.key = provider.key BY <3>1, <2>4, <2>6, <2>b, <2>c DEF UseInv, Until
    <3>2. CASE using.key # provider.key
      <4>1. retired[using.key] <= retired'[using.key] BY <2>3, <2>5
      <4>2. retired[using.key] \in Nat /\ retired'[using.key] \in Nat BY <2>5, <2>a
      <4> QED BY <3>2, <4>1, <4>2, <2>6, <2>b, <2>c DEF UseInv, Until
    <3> QED BY <3>1, <3>2
  <2> QED BY <2>2, <2>7, <2>8, <2>9
<1> QED BY <1>1, <1>2

\* The types of what a read, a use or a tick leaves alone stay.
LEMMA SameAccount ==
  ASSUME AccountTypes, cache' \in Entry, reading' \in Entry, using' \in Entry,
         UNCHANGED <<provider, agents, dialog, removing, creating, readable, retired, keys>>,
         time' \in 0..MaxTime, time <= time'
  PROVE  AccountTypes'
<1>1. \A e \in {cache', reading', using'} : e.on \in BOOLEAN /\ e.key \in A!Key /\ e.at \in Nat
  BY DEF Entry, A!Key
<1>2. A!TypeOK' BY <1>1 DEF AccountTypes, A!TypeOK, A!Key
<1>3. \A k \in 0..MaxKeys : retired'[k] <= time'
  <2>1. \A k \in 0..MaxKeys : retired[k] \in Nat /\ retired[k] <= time
    BY DEF AccountTypes, A!TypeOK, A!Key
  <2>2. time \in Nat /\ time' \in Nat BY DEF AccountTypes, A!TypeOK
  <2>3. retired' = retired OBVIOUS
  <2> QED BY ONLY <2>1, <2>2, <2>3, time <= time'
<1> QED BY <1>2, <1>3 DEF AccountTypes

LEMMA Upserted ==
  ASSUME AccountInv, NEW c \in Admin, NEW k \in 0..MaxKeys, NEW e \in BOOLEAN,
         A!upsert(c, k, e), keys' \in 0..MaxKeys
  PROVE  AccountInv'
<1> USE DEF AccountInv, AccountTypes, A!TypeOK, A!Key
<1>1. /\ provider' = [exists |-> TRUE, enabled |-> e, key |-> k] /\ A!rekey(k)
      /\ UNCHANGED <<agents, dialog, removing, creating, readable, cache, reading, using,
                     time>>
  BY DEF A!upsert
<1>2. provider'.key = k /\ provider'.exists BY <1>1
<1>3. /\ retired' \in [0..MaxKeys -> Nat] /\ \A j \in 0..MaxKeys : retired'[j] <= time
      /\ ReadInv' /\ CacheInv' /\ UseInv'
  <2> HIDE DEF AccountInv
  <2>1. A!rekey(k) BY <1>1
  <2>2. UNCHANGED <<cache, reading, using, time>> BY <1>1
  <2> QED BY <2>1, <2>2, <1>2, Rekeyed
<1>4. AccountTypes' BY <1>1, <1>3
<1>5. A!AgentsHaveProviders' BY <1>2 DEF A!AgentsHaveProviders
<1> QED BY <1>3, <1>4, <1>5

LEMMA AccountNext ==
  ASSUME AccountInv, [A!Next]_account
  PROVE  AccountInv'
<1> USE ConfigurationAssumption DEF AccountInv, AccountTypes, A!TypeOK, A!Key
<1>1. ASSUME NEW c \in Admin, A!Load(c) PROVE AccountInv'
  BY <1>1 DEF A!Load, A!AgentsHaveProviders, ReadInv, CacheInv, UseInv, Until
<1>2. ASSUME NEW c \in Admin, A!SetKey(c) PROVE AccountInv'
  <2>1. /\ keys + 1 \in 0..MaxKeys /\ keys' = keys + 1 /\ dialog[c].enabled \in BOOLEAN
        /\ A!upsert(c, keys + 1, dialog[c].enabled)
    BY <1>2 DEF A!SetKey
  <2> HIDE DEF AccountInv
  <2> QED BY <2>1, Upserted
<1>3. ASSUME NEW c \in Admin, A!ClearKey(c) PROVE AccountInv'
  <2>1. /\ A!NoKey \in 0..MaxKeys /\ keys' \in 0..MaxKeys /\ dialog[c].enabled \in BOOLEAN
        /\ A!upsert(c, A!NoKey, dialog[c].enabled)
    BY <1>3 DEF A!ClearKey, A!NoKey
  <2> HIDE DEF AccountInv
  <2> QED BY <2>1, Upserted
<1>4. ASSUME NEW c \in Admin, NEW e \in BOOLEAN, A!Enable(c, e) PROVE AccountInv'
  <2> DEFINE k == IF provider.exists THEN provider.key ELSE A!NoKey
  <2>1. k \in 0..MaxKeys /\ keys' \in 0..MaxKeys /\ A!upsert(c, k, e)
    BY <1>4 DEF A!Enable, A!NoKey
  <2> HIDE DEF AccountInv, k
  <2> QED BY <2>1, Upserted
<1>5. ASSUME NEW c \in Admin, A!Count(c) PROVE AccountInv'
  BY <1>5 DEF A!Count, A!AgentsHaveProviders, ReadInv, CacheInv, UseInv, Until
<1>6. ASSUME NEW c \in Admin, A!Remove(c) PROVE AccountInv'
  <2>0. /\ removing' = removing \ {c}
        /\ UNCHANGED <<agents, dialog, creating, readable, cache, reading, using, keys, time>>
    BY <1>6 DEF A!Remove
  <2>1. CASE provider.exists /\ agents = 0
    <3>1. /\ provider' = [exists |-> FALSE, enabled |-> FALSE, key |-> 0] /\ A!rekey(0)
      BY <1>6, <2>1 DEF A!Remove, A!NoKey
    <3>2. provider'.key = 0 /\ 0 \in 0..MaxKeys BY <3>1
    <3>3. /\ retired' \in [0..MaxKeys -> Nat] /\ \A j \in 0..MaxKeys : retired'[j] <= time
          /\ ReadInv' /\ CacheInv' /\ UseInv'
      <4> HIDE DEF AccountInv
      <4>1. UNCHANGED <<cache, reading, using, time>> BY <2>0
      <4> QED BY <4>1, <3>1, <3>2, Rekeyed
    <3>4. provider' \in [exists : BOOLEAN, enabled : BOOLEAN, key : 0..MaxKeys]
      BY <3>1, <3>2
    <3>6. AccountTypes' BY <2>0, <3>4, <3>3
    <3>5. A!AgentsHaveProviders' BY <2>0, <2>1 DEF A!AgentsHaveProviders
    <3> QED BY <3>3, <3>6, <3>5
  <2>2. CASE ~(provider.exists /\ agents = 0)
    <3>1. UNCHANGED <<provider, retired>> BY <1>6, <2>2 DEF A!Remove
    <3> QED BY <3>1, <2>0 DEF A!AgentsHaveProviders, ReadInv, CacheInv, UseInv, Until
  <2> QED BY <2>1, <2>2
<1>7. CASE A!FindProvider
  BY <1>7 DEF A!FindProvider, A!AgentsHaveProviders, ReadInv, CacheInv, UseInv, Until
<1>8. CASE A!InsertAgent
  <2>1. /\ creating' = FALSE /\ agents' \in 0..1 /\ (agents' > 0 => provider.exists)
        /\ UNCHANGED <<provider, dialog, removing, readable, cache, reading, using, retired,
                       keys, time>>
    BY <1>8 DEF A!InsertAgent, A!AgentsHaveProviders
  <2> QED BY <2>1 DEF A!AgentsHaveProviders, ReadInv, CacheInv, UseInv, Until
<1>9. CASE A!Hit
  <2>1. /\ cache.on /\ cache.at > time /\ using' = [on |-> TRUE, key |-> cache.key, at |-> time]
        /\ UNCHANGED <<provider, agents, dialog, removing, creating, readable, cache, reading,
                       retired, keys, time>>
    BY <1>9 DEF A!Hit, A!fresh, A!give
  <2>2. AccountTypes' BY <2>1 DEF Entry
  <2>3. UseInv'
    <3>1. cache.key \in 0..MaxKeys /\ cache.at \in Nat /\ time \in Nat BY DEF Entry
    <3> HIDE DEF AccountTypes
    <3>2. Until(cache.key) \in Nat BY <3>1, UntilNat
    <3> QED BY <2>1, <3>1, <3>2 DEF CacheInv, UseInv, Until
  <2> QED BY <2>1, <2>2, <2>3 DEF A!AgentsHaveProviders, ReadInv, CacheInv, Until
<1>10. CASE A!Read
  BY <1>10 DEF A!Read, A!AgentsHaveProviders, ReadInv, CacheInv, UseInv, Until, Entry
<1>11. CASE A!Store
  <2>0. /\ reading.on /\ reading' = [on |-> FALSE, key |-> 0, at |-> 0]
        /\ UNCHANGED <<provider, agents, dialog, removing, creating, readable, retired, keys,
                       time>>
    BY <1>11 DEF A!Store, A!Idle, A!NoKey
  <2>1. CASE UNCHANGED <<cache, using>>
    <3>1. AccountTypes'
      <4>1. cache' \in Entry /\ reading' \in Entry /\ using' \in Entry BY <2>0, <2>1 DEF Entry
      <4>2. time' \in 0..MaxTime /\ time <= time' BY <2>0
      <4> HIDE DEF AccountTypes
      <4> QED BY <2>0, <4>1, <4>2, SameAccount
    <3>2. ReadInv' /\ CacheInv' BY <2>0, <2>1 DEF ReadInv, CacheInv, Until
    <3>3. UseInv' BY <2>0, <2>1 DEF UseInv, Until
    <3> QED BY <2>0, <3>1, <3>2, <3>3 DEF A!AgentsHaveProviders
  <2>2. CASE /\ cache' = [on |-> TRUE, key |-> reading.key, at |-> time + TTL]
             /\ using' = [on |-> TRUE, key |-> reading.key, at |-> time]
    <3>1. reading.key \in 0..MaxKeys /\ reading.at \in Nat /\ time \in Nat /\ TTL \in Nat
      BY DEF Entry
    <3>2. AccountTypes'
      <4>1. cache' \in Entry /\ using' \in Entry BY <2>2, <3>1 DEF Entry
      <4>2. reading' \in Entry BY <2>0 DEF Entry
      <4>3. time' \in 0..MaxTime /\ time <= time' BY <2>0
      <4> HIDE DEF AccountTypes
      <4> QED BY <2>0, <4>1, <4>2, <4>3, SameAccount
    <3>3. retired[reading.key] \in Nat BY <3>1
    <3>4. CacheInv'
      <4>1. ReadInv OBVIOUS
      <4> HIDE DEF AccountInv, AccountTypes, A!TypeOK
      <4> QED BY <2>0, <2>2, <3>1, <3>3, <4>1 DEF CacheInv, ReadInv, Until
    <3>5. UseInv' BY <2>0, <2>2, <3>1, <3>3 DEF UseInv, ReadInv, Until
    <3> QED BY <2>0, <3>2, <3>4, <3>5 DEF A!AgentsHaveProviders, ReadInv
  <2> QED BY <1>11, <2>1, <2>2 DEF A!Store, A!give
<1>12. CASE A!Restart
  BY <1>12 DEF A!Restart, A!Idle, A!NoKey, A!AgentsHaveProviders, ReadInv, CacheInv, UseInv,
               Until, Entry
<1>13. CASE A!Tick
  <2>1. /\ time < MaxTime /\ (reading.on => time < reading.at + ReadTime) /\ time' = time + 1
        /\ using' = [on |-> FALSE, key |-> 0, at |-> 0]
        /\ UNCHANGED <<provider, agents, dialog, removing, creating, readable, cache, reading,
                       retired, keys>>
    BY <1>13 DEF A!Tick, A!Idle, A!NoKey
  <2>2. AccountTypes'
    <3>1. cache' \in Entry /\ using' \in Entry /\ reading' \in Entry BY <2>1 DEF Entry
    <3>2. time' \in 0..MaxTime /\ time <= time' BY <2>1
    <3> HIDE DEF AccountTypes
    <3> QED BY <2>1, <3>1, <3>2, SameAccount
  <2>3. ReadInv' BY <2>1 DEF ReadInv, Entry
  <2>4. CacheInv' BY <2>1 DEF CacheInv, Entry, Until
  <2> QED BY <2>1, <2>2, <2>3, <2>4 DEF A!AgentsHaveProviders, UseInv
<1>14. CASE UNCHANGED account
  BY <1>14 DEF account, A!AgentsHaveProviders, ReadInv, CacheInv, UseInv, Until
<1> HIDE DEF AccountInv
<1> QED BY <1>1, <1>2, <1>3, <1>4, <1>5, <1>6, <1>7, <1>8, <1>9, <1>10, <1>11, <1>12, <1>13,
           <1>14 DEF A!Next, A!Administer

LEMMA AccountSafe == AccountInv => AccountsStayUsable
<1> SUFFICES ASSUME AccountInv PROVE A!RetiredKeysFade
  BY DEF AccountInv, AccountTypes, AccountsStayUsable
<1> QED BY DEF AccountInv, UseInv, Until, A!RetiredKeysFade

(***************************************************************************)
(* AccountsStayUsable (AgentProvidersService, AgentsService.create, the    *)
(* credential resolver): no agent is left without its provider, and a key  *)
(* that was replaced is given out for at most the TTL and one read more;   *)
(* for any number of administrators and keys.                              *)
(***************************************************************************)
THEOREM AccountsStayUsableAlways == MCSpec => []AccountsStayUsable
<1>1. MCInit => AccountInv
  BY AccountInit DEF MCInit
<1>2. ASSUME AccountInv, [MCNext]_MCvars PROVE AccountInv'
  <2>1. [A!Next]_account BY <1>2 DEF MCNext, MCvars
  <2> QED BY <1>2, <2>1, AccountNext
<1> QED BY <1>1, <1>2, AccountSafe, PTL DEF MCSpec

-----------------------------------------------------------------------------
(***************************************************************************)
(* Edits. What a form or a request knows of a row is of a version that is  *)
(* not ahead of it, and is the row's content when the version is the same. *)
(* Who holds the locks has found its version current and nothing live.     *)
(***************************************************************************)
FormRow == [state : {"closed", "editing", "saving"}, kind : Kinds \cup {"none"}, base : Nat,
            seen : 0..MaxSaves, save : 0..MaxSaves]

EditTypes == E!TypeOK /\ form \in [Client -> FormRow]

Known(e) ==
  /\ e.base <= row[e.kind].ver
  /\ e.base = row[e.kind].ver => e.seen = row[e.kind].content

FormInv == \A c \in Client : form[c].state # "closed" => Known(form[c])
SentInv == \A q \in sent : Known(q) /\ (q.structural => q.kind = "agent")
LockInv ==
  ~E!free =>
    /\ tx.kind \in {"team", "agent"} /\ (tx.structural => tx.kind = "agent")
    /\ tx.base = row[tx.kind].ver /\ tx.seen = row[tx.kind].content
    /\ ~work.live

EditInv ==
  /\ EditTypes /\ FormInv /\ SentInv /\ LockInv
  /\ E!EditsReplaceWhatWasSeen /\ E!LiveWorkKeepsItsInputs

LEMMA EditInit == E!Init => EditInv
<1> SUFFICES ASSUME E!Init PROVE EditInv OBVIOUS
<1> USE ConfigurationAssumption DEF E!Init, E!Closed, E!NoWork, E!NoTx
<1>1. E!TypeOK
  <2>1. row \in [Kinds -> E!Row] BY DEF E!Row
  <2>2. \A c \in Client : form[c].state \in {"closed", "editing", "saving"}
                          /\ (form[c].state = "closed" \/ form[c].kind \in Kinds)
    OBVIOUS
  <2>3. work.live \in BOOLEAN /\ proof \in BOOLEAN OBVIOUS
  <2> QED BY <2>1, <2>2, <2>3 DEF E!TypeOK
<1>2. form \in [Client -> FormRow] BY DEF FormRow
<1>3. FormInv /\ SentInv /\ LockInv BY DEF FormInv, SentInv, LockInv, E!free
<1>4. E!EditsReplaceWhatWasSeen /\ E!LiveWorkKeepsItsInputs
  BY DEF E!EditsReplaceWhatWasSeen, E!LiveWorkKeepsItsInputs
<1> QED BY <1>1, <1>2, <1>3, <1>4 DEF EditInv, EditTypes

\* No version goes back, and none stands for two contents.
Grows ==
  /\ row' \in [Kinds -> E!Row]
  /\ \A k \in Kinds :
       /\ row[k].ver <= row'[k].ver
       /\ row[k].ver = row'[k].ver => row[k].content = row'[k].content

LEMMA Later ==
  ASSUME row \in [Kinds -> E!Row], Grows,
         NEW e, e.kind \in Kinds, e.base \in Nat, Known(e)
  PROVE  /\ e.base <= row'[e.kind].ver
         /\ e.base = row'[e.kind].ver => e.seen = row'[e.kind].content
<1>1. /\ row[e.kind].ver <= row'[e.kind].ver
      /\ row[e.kind].ver = row'[e.kind].ver => row[e.kind].content = row'[e.kind].content
  BY DEF Grows
<1>2. row[e.kind].ver \in Nat /\ row'[e.kind].ver \in Nat BY DEF E!Row, Grows
<1> QED BY <1>1, <1>2 DEF Known

LEMMA LaterForms ==
  ASSUME EditInv, Grows,
         \A c \in Client : \/ form'[c] = form[c] \/ form'[c].state = "closed"
                           \/ form[c].state # "closed" /\ form'[c].kind = form[c].kind
                              /\ form'[c].base = form[c].base /\ form'[c].seen = form[c].seen
  PROVE  FormInv'
<1> SUFFICES ASSUME NEW c \in Client, form'[c].state # "closed"
             PROVE  /\ form'[c].base <= row'[form'[c].kind].ver
                    /\ form'[c].base = row'[form'[c].kind].ver
                         => form'[c].seen = row'[form'[c].kind].content
  BY DEF FormInv, Known
<1>0. /\ form[c].state # "closed" /\ form'[c].kind = form[c].kind
      /\ form'[c].base = form[c].base /\ form'[c].seen = form[c].seen
  OBVIOUS
<1>1. Known(form[c]) /\ form[c].kind \in Kinds /\ form[c].base \in Nat
  BY <1>0 DEF EditInv, EditTypes, FormInv, E!TypeOK, FormRow
<1>2. row \in [Kinds -> E!Row] BY DEF EditInv, EditTypes, E!TypeOK
<1> HIDE DEF EditInv
<1>3. PICK e : e = form[c] OBVIOUS
<1>4. e.kind \in Kinds /\ e.base \in Nat /\ Known(e) BY <1>1, <1>3
<1>5. /\ e.base <= row'[e.kind].ver
      /\ e.base = row'[e.kind].ver => e.seen = row'[e.kind].content
  BY <1>2, <1>4, Later
<1> QED BY <1>0, <1>3, <1>5

LEMMA LaterSent ==
  ASSUME EditInv, Grows, sent' \subseteq sent
  PROVE  SentInv'
<1> SUFFICES ASSUME NEW q \in sent, q \in sent'
             PROVE  /\ q.base <= row'[q.kind].ver
                    /\ q.base = row'[q.kind].ver => q.seen = row'[q.kind].content
                    /\ q.structural => q.kind = "agent"
  BY DEF SentInv, Known
<1>1. Known(q) /\ (q.structural => q.kind = "agent") BY DEF EditInv, SentInv
<1>2. q.kind \in Kinds /\ q.base \in Nat BY DEF EditInv, EditTypes, E!TypeOK, E!Save
<1>3. row \in [Kinds -> E!Row] BY DEF EditInv, EditTypes, E!TypeOK
<1> QED BY <1>1, <1>2, <1>3, Later

\* What a write does to the row of its kind.
LEMMA Written ==
  ASSUME EditInv, NEW q \in E!Save, E!write(q)
  PROVE  /\ Grows
         /\ \A k \in Kinds \ {q.kind} : row'[k] = row[k]
         /\ ~q.structural => row'[q.kind].inputs = row[q.kind].inputs
<1> USE DEF EditInv, EditTypes, E!TypeOK
<1>0. q.kind \in Kinds /\ q.content \in 0..MaxSaves BY DEF E!Save
<1>1. row[q.kind] \in E!Row BY <1>0
<1> DEFINE v == E!nextVersion(q.kind)
           new == [ver |-> v, content |-> q.content,
                   inputs |-> IF q.structural THEN q.content ELSE row[q.kind].inputs]
<1>2. v \in Nat /\ row[q.kind].ver < v
  <2>1. row[q.kind].ver \in Nat /\ clock \in Nat BY <1>1 DEF E!Row
  <2> QED BY <2>1 DEF E!nextVersion, E!stamp
<1>3. new \in E!Row
  <2>1. row[q.kind].inputs \in 0..MaxSaves BY <1>1 DEF E!Row
  <2> HIDE DEF v
  <2> QED BY <2>1, <1>2, <1>0 DEF E!Row
<1>4. new.ver = v /\ new.content = q.content
      /\ (~q.structural => new.inputs = row[q.kind].inputs)
  OBVIOUS
<1>5. row' = [row EXCEPT ![q.kind] = row[q.kind]] \/ row' = [row EXCEPT ![q.kind] = new]
  BY DEF E!write
<1> HIDE DEF new, v
<1>6. row' \in [Kinds -> E!Row] BY <1>0, <1>1, <1>3, <1>5
<1>7. \A k \in Kinds \ {q.kind} : row'[k] = row[k] BY <1>0, <1>5
<1>8. row'[q.kind] = row[q.kind] \/ row'[q.kind] = new BY <1>0, <1>5
<1>9. \A k \in Kinds : row[k].ver \in Nat BY DEF E!Row
<1> QED BY <1>0, <1>2, <1>4, <1>6, <1>7, <1>8, <1>9 DEF Grows

LEMMA Blind ==
  ASSUME EditInv, NEW q, q.kind = "contract" \/ row[q.kind].content = q.seen, E!write(q),
         q.kind \in Kinds
  PROVE  E!EditsReplaceWhatWasSeen' /\ blind' \subseteq Kinds
BY DEF EditInv, EditTypes, E!TypeOK, E!write, E!EditsReplaceWhatWasSeen

LEMMA RowSaved ==
  ASSUME NEW f \in FormRow, NEW s \in {"editing", "saving"}, NEW n \in 0..MaxSaves
  PROVE  [f EXCEPT !.state = s, !.save = n] \in FormRow
<1>1. [f EXCEPT !.state = s] \in FormRow BY DEF FormRow
<1>2. [[f EXCEPT !.state = s] EXCEPT !.save = n] \in FormRow BY <1>1 DEF FormRow
<1> QED BY <1>2

\* Answers.
LEMMA Answered ==
  ASSUME EditInv, NEW q, NEW ok \in BOOLEAN, E!answer(q, ok)
  PROVE  /\ form' \in [Client -> FormRow]
         /\ \A c \in Client : \/ form'[c] = form[c] \/ form'[c].state = "closed"
                              \/ form[c].state # "closed" /\ form'[c].kind = form[c].kind
                                 /\ form'[c].base = form[c].base
                                 /\ form'[c].seen = form[c].seen
         /\ \A c \in Client : form'[c].state = "closed" \/ form'[c].kind \in Kinds
<1> USE DEF EditInv, EditTypes, E!TypeOK
<1>1. E!Closed \in FormRow BY ConfigurationAssumption DEF E!Closed, FormRow
<1>2. \A c \in Client :
        \/ form'[c] = form[c] \/ form'[c] = E!Closed
        \/ form[c].state = "saving"
           /\ form'[c] = [form[c] EXCEPT !.state = "editing", !.save = 0]
  BY DEF E!answer
<1>3. DOMAIN form' = Client /\ form' = [c \in Client |-> form'[c]] BY DEF E!answer
<1>4. ASSUME NEW c \in Client
      PROVE  /\ form'[c] \in FormRow
             /\ \/ form'[c] = form[c] \/ form'[c].state = "closed"
                \/ form[c].state # "closed" /\ form'[c].kind = form[c].kind
                   /\ form'[c].base = form[c].base /\ form'[c].seen = form[c].seen
             /\ form'[c].state = "closed" \/ form'[c].kind \in Kinds
  <2>1. CASE form'[c] = form[c] BY <2>1
  <2>2. CASE form'[c] = E!Closed BY <2>2, <1>1 DEF E!Closed
  <2>3. CASE form[c].state = "saving"
             /\ form'[c] = [form[c] EXCEPT !.state = "editing", !.save = 0]
    <3>1. form[c] \in FormRow OBVIOUS
    <3>2. form[c].kind \in Kinds BY <2>3
    <3> HIDE DEF EditInv
    <3>0. 0 \in 0..MaxSaves BY ConfigurationAssumption
    <3>3. form'[c] \in FormRow BY <2>3, <3>0, <3>1, RowSaved
    <3>4. /\ form'[c].kind = form[c].kind /\ form'[c].base = form[c].base
          /\ form'[c].seen = form[c].seen
      BY <2>3, <3>1 DEF FormRow
    <3> QED BY <2>3, <3>2, <3>3, <3>4
  <2> QED BY <1>2, <2>1, <2>2, <2>3
<1> QED BY <1>3, <1>4

\* A save within one transaction.
LEMMA Saved ==
  ASSUME EditInv, NEW q, NEW k, E!save(q, k), ~q.structural,
         k = "task" => ~work.live, k # "team"
  PROVE  EditInv'
<1>0. /\ q \in sent /\ q.kind = k /\ E!free /\ E!current(q) /\ E!write(q)
      /\ sent' = sent \ {q} /\ E!answer(q, TRUE)
      /\ tx' = tx /\ work' = work /\ proof' = proof /\ saves' = saves /\ clock' = clock
  BY DEF E!save
<1>1. q \in E!Save BY <1>0 DEF EditInv, EditTypes, E!TypeOK
<1>2. /\ Grows /\ \A j \in Kinds \ {q.kind} : row'[j] = row[j]
      /\ row'[q.kind].inputs = row[q.kind].inputs
  BY <1>0, <1>1, Written
<1>3. /\ form' \in [Client -> FormRow]
      /\ \A c \in Client : \/ form'[c] = form[c] \/ form'[c].state = "closed"
                           \/ form[c].state # "closed" /\ form'[c].kind = form[c].kind
                              /\ form'[c].base = form[c].base /\ form'[c].seen = form[c].seen
      /\ \A c \in Client : form'[c].state = "closed" \/ form'[c].kind \in Kinds
  BY <1>0, Answered
<1>4. q.kind \in Kinds BY <1>1 DEF E!Save
<1>5. q.kind = "contract" \/ row[q.kind].content = q.seen
  BY <1>0 DEF E!current, EditInv, SentInv, Known
<1>6. E!EditsReplaceWhatWasSeen' /\ blind' \subseteq Kinds BY <1>0, <1>4, <1>5, Blind
<1>7. FormInv' BY <1>2, <1>3, LaterForms
<1>8. SentInv' BY <1>0, <1>2, LaterSent
<1>9. LockInv' BY <1>0 DEF LockInv, E!free
<1>10. E!LiveWorkKeepsItsInputs'
  <2> SUFFICES ASSUME work.live PROVE E!LiveWorkKeepsItsInputs'
    BY <1>0 DEF E!LiveWorkKeepsItsInputs
  <2>1. E!LiveWorkKeepsItsInputs BY DEF EditInv
  <2>2. k \notin {"task", "team"} BY DEF EditInv
  <2> QED BY <1>0, <1>2, <2>1, <2>2 DEF E!LiveWorkKeepsItsInputs, E!now_
<1>11. EditTypes'
  <2>1. E!TypeOK BY DEF EditInv, EditTypes
  <2>2. row' \in [Kinds -> E!Row] BY <1>2 DEF Grows
  <2>3. \A c \in Client : form'[c].state \in {"closed", "editing", "saving"}
    BY <1>3 DEF FormRow
  <2> QED BY <1>0, <1>3, <1>6, <2>1, <2>2, <2>3 DEF EditTypes, E!TypeOK
<1> QED BY <1>6, <1>7, <1>8, <1>9, <1>10, <1>11 DEF EditInv

LEMMA Committed ==
  ASSUME EditInv, E!Commit
  PROVE  EditInv'
<1>0. /\ ~E!free /\ E!write(tx) /\ E!answer(tx, TRUE) /\ tx' = E!NoTx
      /\ sent' = sent /\ work' = work /\ proof' = proof /\ saves' = saves /\ clock' = clock
  BY DEF E!Commit
<1>1. tx \in E!Save BY <1>0 DEF EditInv, EditTypes, E!TypeOK, E!free
<1>a. PICK q : q = tx OBVIOUS
<1>b. q \in E!Save /\ E!write(q) /\ E!answer(q, TRUE) BY <1>0, <1>1, <1>a
<1>2. Grows BY <1>b, Written
<1>3. /\ form' \in [Client -> FormRow]
      /\ \A c \in Client : \/ form'[c] = form[c] \/ form'[c].state = "closed"
                           \/ form[c].state # "closed" /\ form'[c].kind = form[c].kind
                              /\ form'[c].base = form[c].base /\ form'[c].seen = form[c].seen
      /\ \A c \in Client : form'[c].state = "closed" \/ form'[c].kind \in Kinds
  BY <1>b, Answered
<1>4. q.kind \in Kinds BY <1>b DEF E!Save
<1>5. row[q.kind].content = q.seen /\ ~work.live BY <1>0, <1>a DEF EditInv, LockInv
<1>6. E!EditsReplaceWhatWasSeen' /\ blind' \subseteq Kinds BY <1>b, <1>4, <1>5, Blind
<1>7. FormInv' BY <1>2, <1>3, LaterForms
<1>8. SentInv' BY <1>0, <1>2, LaterSent
<1>9. LockInv' BY <1>0 DEF LockInv, E!free
<1>10. E!LiveWorkKeepsItsInputs' BY <1>0, <1>5 DEF E!LiveWorkKeepsItsInputs
<1>11. EditTypes'
  <2>1. E!TypeOK BY DEF EditInv, EditTypes
  <2>2. row' \in [Kinds -> E!Row] BY <1>2 DEF Grows
  <2>3. \A c \in Client : form'[c].state \in {"closed", "editing", "saving"}
    BY <1>3 DEF FormRow
  <2> QED BY <1>0, <1>3, <1>6, <2>1, <2>2, <2>3 DEF EditTypes, E!TypeOK
<1> QED BY <1>6, <1>7, <1>8, <1>9, <1>10, <1>11 DEF EditInv

\* What changes only the version of one row, and perhaps the work and its evidence.
LEMMA Stamped ==
  ASSUME EditInv, Grows, E!free, UNCHANGED <<form, sent, tx, blind, saves, clock>>,
         work'.live \in BOOLEAN, proof' \in BOOLEAN, E!LiveWorkKeepsItsInputs'
  PROVE  EditInv'
<1>1. FormInv' BY LaterForms
<1>2. SentInv' BY LaterSent
<1>3. EditTypes'
  <2>1. E!TypeOK /\ form \in [Client -> FormRow] BY DEF EditInv, EditTypes
  <2>2. row' \in [Kinds -> E!Row] BY DEF Grows
  <2> QED BY <2>1, <2>2 DEF EditTypes, E!TypeOK
<1>4. LockInv' BY DEF LockInv, E!free
<1>5. E!EditsReplaceWhatWasSeen' BY DEF EditInv, E!EditsReplaceWhatWasSeen
<1> QED BY <1>1, <1>2, <1>3, <1>4, <1>5 DEF EditInv

LEMMA TaskWritten ==
  ASSUME EditInv, E!taskDue, E!taskWritten
  PROVE  /\ Grows
         /\ \A k \in Kinds : row'[k].content = row[k].content /\ row'[k].inputs = row[k].inputs
<1>0. row \in [Kinds -> E!Row] /\ clock \in Nat BY DEF EditInv, EditTypes, E!TypeOK
<1>1. \A k \in Kinds : row[k].ver \in Nat BY <1>0 DEF E!Row
<1>2. CASE "task" \notin Kinds BY <1>0, <1>1, <1>2 DEF Grows, E!taskWritten
<1>3. CASE "task" \in Kinds
  <2>1. row' = [row EXCEPT !["task"].ver = clock] /\ clock > row["task"].ver
    BY <1>3 DEF E!taskWritten, E!taskDue
  <2>2. row["task"] \in E!Row BY <1>0, <1>3
  <2>3. [row["task"] EXCEPT !.ver = clock] \in E!Row
    BY <2>2, <1>0 DEF E!Row
  <2>4. row' \in [Kinds -> E!Row] BY <1>0, <2>1, <2>3
  <2>5. \A k \in Kinds \ {"task"} : row'[k] = row[k] BY <1>0, <2>1
  <2>6. row'["task"] = [row["task"] EXCEPT !.ver = clock] BY <1>0, <1>3, <2>1
  <2>7. /\ row'["task"].ver = clock /\ row'["task"].content = row["task"].content
        /\ row'["task"].inputs = row["task"].inputs
    BY <2>2, <2>6 DEF E!Row
  <2> QED BY <1>0, <1>1, <2>1, <2>4, <2>5, <2>7 DEF Grows
<1> QED BY <1>2, <1>3

\* What happens in a browser: one form changes, and a request may be sent.
LEMMA Opened ==
  ASSUME EditInv, NEW c \in Client, NEW k \in Kinds,
         form' = [form EXCEPT ![c] = E!opened(k)],
         UNCHANGED <<row, sent, tx, work, proof, blind, saves, clock>>
  PROVE  EditInv'
<1>0. E!TypeOK /\ form \in [Client -> FormRow] BY DEF EditInv, EditTypes
<1>1. E!opened(k) \in FormRow
  <2>1. row[k].ver \in Nat /\ row[k].content \in 0..MaxSaves
    BY <1>0 DEF E!TypeOK, E!Row
  <2> QED BY <2>1, ConfigurationAssumption DEF E!opened, FormRow
<1>2. \A d \in Client : form'[d] = IF d = c THEN E!opened(k) ELSE form[d]
  BY <1>0
<1>3. form' \in [Client -> FormRow] BY <1>0, <1>1
<1>4. /\ E!opened(k).state = "editing" /\ E!opened(k).kind = k
      /\ E!opened(k).base = row[k].ver /\ E!opened(k).seen = row[k].content
  BY DEF E!opened
<1>5. EditTypes'
  <2>1. \A d \in Client : form'[d].state \in {"closed", "editing", "saving"}
                          /\ (form'[d].state = "closed" \/ form'[d].kind \in Kinds)
    BY <1>0, <1>2, <1>4 DEF E!TypeOK
  <2> QED BY <1>0, <1>3, <2>1 DEF E!TypeOK, EditTypes
<1>6. FormInv'
  <2> SUFFICES ASSUME NEW d \in Client, form'[d].state # "closed" PROVE Known(form[d])'
    BY DEF FormInv
  <2>1. CASE d = c
    <3>1. row[k].ver \in Nat BY <1>0 DEF E!TypeOK, E!Row
    <3> QED BY <2>1, <1>2, <1>4, <3>1 DEF Known
  <2>2. CASE d # c BY <2>2, <1>2 DEF Known, FormInv, EditInv
  <2> QED BY <2>1, <2>2
<1>7. SentInv' /\ LockInv' BY DEF EditInv, SentInv, LockInv, E!free, Known
<1>8. E!EditsReplaceWhatWasSeen' /\ E!LiveWorkKeepsItsInputs'
  BY DEF EditInv, E!EditsReplaceWhatWasSeen, E!LiveWorkKeepsItsInputs, E!now_
<1> QED BY <1>5, <1>6, <1>7, <1>8 DEF EditInv

LEMMA Submitted ==
  ASSUME EditInv, NEW c \in Client, NEW k, NEW s \in BOOLEAN, NEW x \in 0..MaxSaves,
         E!submit(c, k, s, x), s => k = "agent"
  PROVE  EditInv'
<1>0. E!TypeOK /\ form \in [Client -> FormRow] BY DEF EditInv, EditTypes
<1> DEFINE q == [n |-> saves + 1, by |-> c, kind |-> k, base |-> form[c].base,
                 seen |-> form[c].seen, structural |-> s, content |-> x]
           f == [form[c] EXCEPT !.state = "saving", !.save = saves + 1]
<1>1. /\ form[c].state = "editing" /\ form[c].kind = k /\ saves < MaxSaves
      /\ saves' = saves + 1 /\ sent' = sent \cup {q}
      /\ UNCHANGED <<row, tx, work, proof, blind, clock>>
  BY DEF E!submit
<1>2. form' = [form EXCEPT ![c] = f] BY <1>0 DEF E!submit
<1>3. saves + 1 \in 1..MaxSaves /\ saves + 1 \in 0..MaxSaves /\ k \in Kinds
  BY <1>0, <1>1, ConfigurationAssumption DEF E!TypeOK
<1>4. form[c] \in FormRow BY <1>0
<1>5. q \in E!Save BY <1>3, <1>4 DEF E!Save, FormRow
<1>6. f \in FormRow BY <1>3, <1>4, RowSaved
<1>7. f.state = "saving" /\ f.kind = k /\ f.base = form[c].base /\ f.seen = form[c].seen
  BY <1>1, <1>4 DEF FormRow
<1>8. q.kind = k /\ q.base = form[c].base /\ q.seen = form[c].seen /\ q.structural = s
  OBVIOUS
<1> HIDE DEF q, f
<1>9. form' \in [Client -> FormRow] BY <1>0, <1>2, <1>6
<1>10. \A d \in Client : form'[d] = IF d = c THEN f ELSE form[d] BY <1>0, <1>2
<1>11. EditTypes'
  <2>1. \A d \in Client : form'[d].state \in {"closed", "editing", "saving"}
                          /\ (form'[d].state = "closed" \/ form'[d].kind \in Kinds)
    BY <1>0, <1>3, <1>7, <1>10 DEF E!TypeOK
  <2>2. sent' \subseteq E!Save BY <1>0, <1>1, <1>5 DEF E!TypeOK
  <2>3. saves' \in 0..MaxSaves BY <1>1, <1>3
  <2> QED BY <1>0, <1>1, <1>9, <2>1, <2>2, <2>3 DEF E!TypeOK, EditTypes
<1>12. /\ form[c].base <= row[k].ver
       /\ form[c].base = row[k].ver => form[c].seen = row[k].content
  BY <1>1 DEF EditInv, FormInv, Known
<1>13. FormInv'
  <2> SUFFICES ASSUME NEW d \in Client, form'[d].state # "closed" PROVE Known(form[d])'
    BY DEF FormInv
  <2>1. CASE d = c BY <2>1, <1>1, <1>7, <1>10, <1>12 DEF Known
  <2>2. CASE d # c BY <2>2, <1>1, <1>10 DEF Known, FormInv, EditInv
  <2> QED BY <2>1, <2>2
<1>14. SentInv'
  <2> SUFFICES ASSUME NEW p \in sent'
               PROVE  /\ p.base <= row[p.kind].ver
                      /\ p.base = row[p.kind].ver => p.seen = row[p.kind].content
                      /\ p.structural => p.kind = "agent"
    BY <1>1 DEF SentInv, Known
  <2>1. CASE p = q BY <2>1, <1>8, <1>12
  <2>2. CASE p \in sent BY <2>2 DEF EditInv, SentInv, Known
  <2> QED BY <1>1, <2>1, <2>2
<1>15. LockInv' BY <1>1 DEF EditInv, LockInv, E!free
<1>16. E!EditsReplaceWhatWasSeen' /\ E!LiveWorkKeepsItsInputs'
  BY <1>1 DEF EditInv, E!EditsReplaceWhatWasSeen, E!LiveWorkKeepsItsInputs, E!now_
<1> QED BY <1>11, <1>13, <1>14, <1>15, <1>16 DEF EditInv

LEMMA WorkBegun ==
  ASSUME EditInv, NEW q, NEW k \in {"team", "agent"}, E!begin(q, k)
  PROVE  EditInv'
<1>0. /\ q \in sent /\ q.kind = k /\ E!idle /\ E!current(q) /\ tx' = q /\ sent' = sent \ {q}
      /\ UNCHANGED <<row, form, work, proof, blind, saves, clock>>
  BY DEF E!begin
<1>1. E!TypeOK /\ form \in [Client -> FormRow] BY DEF EditInv, EditTypes
<1>2. q \in E!Save BY <1>0, <1>1 DEF E!TypeOK
<1>3. EditTypes' BY <1>0, <1>1, <1>2 DEF E!TypeOK, EditTypes
<1>4. FormInv' /\ SentInv' BY <1>0 DEF EditInv, FormInv, SentInv, Known
<1>5. LockInv'
  <2>1. Known(q) /\ (q.structural => q.kind = "agent") BY <1>0 DEF EditInv, SentInv
  <2>2. q.base = row[q.kind].ver BY <1>0 DEF E!current
  <2>3. ~work.live BY <1>0 DEF E!idle
  <2> QED BY <1>0, <2>1, <2>2, <2>3 DEF LockInv, Known
<1>6. E!EditsReplaceWhatWasSeen' /\ E!LiveWorkKeepsItsInputs'
  BY <1>0 DEF EditInv, E!EditsReplaceWhatWasSeen, E!LiveWorkKeepsItsInputs, E!now_
<1> QED BY <1>3, <1>4, <1>5, <1>6 DEF EditInv

LEMMA Refused ==
  ASSUME EditInv, NEW q, E!Refuse(q)
  PROVE  EditInv'
<1>0. /\ E!answer(q, FALSE) /\ sent' = sent \ {q}
      /\ UNCHANGED <<row, tx, work, proof, blind, saves, clock>>
  BY DEF E!Refuse
<1>1. E!TypeOK BY DEF EditInv, EditTypes
<1>2. Grows
  <2>1. \A k \in Kinds : row[k].ver \in Nat BY <1>1 DEF E!TypeOK, E!Row
  <2> QED BY <1>0, <1>1, <2>1 DEF Grows, E!TypeOK
<1>3. /\ form' \in [Client -> FormRow]
      /\ \A c \in Client : \/ form'[c] = form[c] \/ form'[c].state = "closed"
                           \/ form[c].state # "closed" /\ form'[c].kind = form[c].kind
                              /\ form'[c].base = form[c].base /\ form'[c].seen = form[c].seen
      /\ \A c \in Client : form'[c].state = "closed" \/ form'[c].kind \in Kinds
  BY <1>0, Answered
<1>4. FormInv' BY <1>2, <1>3, LaterForms
<1>5. SentInv' BY <1>0, <1>2, LaterSent
<1>6. EditTypes'
  <2>1. \A c \in Client : form'[c].state \in {"closed", "editing", "saving"}
    BY <1>3 DEF FormRow
  <2> QED BY <1>0, <1>1, <1>3, <2>1 DEF EditTypes, E!TypeOK
<1>7. LockInv' BY <1>0 DEF EditInv, LockInv, E!free
<1>8. E!EditsReplaceWhatWasSeen' /\ E!LiveWorkKeepsItsInputs'
  BY <1>0 DEF EditInv, E!EditsReplaceWhatWasSeen, E!LiveWorkKeepsItsInputs, E!now_
<1> QED BY <1>4, <1>5, <1>6, <1>7, <1>8 DEF EditInv

\* A form that is closed, or goes back to its draft.
LEMMA Left ==
  ASSUME EditInv, NEW c \in Client, NEW f \in FormRow, form' = [form EXCEPT ![c] = f],
         \/ f.state = "closed"
         \/ /\ form[c].state # "closed" /\ f.kind = form[c].kind
            /\ f.base = form[c].base /\ f.seen = form[c].seen,
         UNCHANGED <<row, sent, tx, work, proof, blind, saves, clock>>
  PROVE  EditInv'
<1>1. E!TypeOK /\ form \in [Client -> FormRow] BY DEF EditInv, EditTypes
<1>2. Grows
  <2>1. \A k \in Kinds : row[k].ver \in Nat BY <1>1 DEF E!TypeOK, E!Row
  <2> QED BY <1>1, <2>1 DEF Grows, E!TypeOK
<1>3. \A d \in Client : form'[d] = IF d = c THEN f ELSE form[d] BY <1>1
<1>4. FormInv' BY <1>2, <1>3, LaterForms
<1>5. SentInv' BY <1>2, LaterSent
<1>6. EditTypes'
  <2>1. form' \in [Client -> FormRow] BY <1>1
  <2>2. \A d \in Client : form'[d].state \in {"closed", "editing", "saving"}
    BY <2>1 DEF FormRow
  <2>3. \A d \in Client : form'[d].state = "closed" \/ form'[d].kind \in Kinds
    BY <1>1, <1>3 DEF E!TypeOK
  <2> QED BY <1>1, <2>1, <2>2, <2>3 DEF EditTypes, E!TypeOK
<1>7. LockInv' BY DEF EditInv, LockInv, E!free
<1>8. E!EditsReplaceWhatWasSeen' /\ E!LiveWorkKeepsItsInputs'
  BY DEF EditInv, E!EditsReplaceWhatWasSeen, E!LiveWorkKeepsItsInputs, E!now_
<1> QED BY <1>4, <1>5, <1>6, <1>7, <1>8 DEF EditInv

LEMMA EditBrowser ==
  ASSUME EditInv, E!Browser
  PROVE  EditInv'
<1>0. PICK c \in Client :
        \/ E!OpenTask(c) \/ E!OpenAgent(c) \/ E!OpenTeam(c) \/ E!OpenPrompt(c)
        \/ E!OpenContract(c)
        \/ E!SubmitTask(c) \/ E!SubmitAgent(c) \/ E!SubmitTeam(c)
        \/ E!SubmitPrompt(c) \/ E!SubmitContract(c)
        \/ E!ReloadTask(c) \/ E!ReloadAgent(c) \/ E!Cancel(c) \/ E!GiveUp(c)
  BY DEF E!Browser
<1>a. /\ E!TypeOK /\ form \in [Client -> FormRow] /\ saves \in 0..MaxSaves
      /\ MaxSaves \in Nat
  BY ConfigurationAssumption DEF EditInv, EditTypes, E!TypeOK
<1>b. form[c] \in FormRow /\ form[c].seen \in 0..MaxSaves BY <1>a DEF FormRow
<1>1. ASSUME NEW k, E!open(c, k) PROVE EditInv'
  BY <1>1, Opened DEF E!open
<1>2. ASSUME NEW k, E!reload(c, k) PROVE EditInv'
  <2>1. k \in Kinds BY <1>2, <1>a DEF E!reload, E!TypeOK
  <2> QED BY <1>2, <2>1, Opened DEF E!reload
<1>3. ASSUME NEW k, NEW s \in BOOLEAN, NEW x \in {E!edited, form[c].seen},
             E!submit(c, k, s, x), s => k = "agent"
      PROVE  EditInv'
  <2>1. x \in 0..MaxSaves
    <3>1. saves < MaxSaves BY <1>3 DEF E!submit
    <3>2. E!edited \in 0..MaxSaves BY <3>1, <1>a DEF E!edited
    <3> QED BY <3>2, <1>b, <1>3
  <2> QED BY <1>3, <2>1, Submitted
<1>4. CASE E!Cancel(c)
  <2>1. E!Closed \in FormRow /\ E!Closed.state = "closed"
    BY <1>a DEF E!Closed, FormRow
  <2>2. /\ form' = [form EXCEPT ![c] = E!Closed]
        /\ UNCHANGED <<row, sent, tx, work, proof, blind, saves, clock>>
    BY <1>4 DEF E!Cancel
  <2> QED BY <2>1, <2>2, Left
<1>5. CASE E!GiveUp(c)
  <2> DEFINE f == [form[c] EXCEPT !.state = "editing", !.save = 0]
  <2>1. /\ form' = [form EXCEPT ![c] = f] /\ form[c].state = "saving"
        /\ UNCHANGED <<row, sent, tx, work, proof, blind, saves, clock>>
    BY <1>5, <1>a DEF E!GiveUp
  <2>0. 0 \in 0..MaxSaves BY ConfigurationAssumption
  <2>2. f \in FormRow BY <1>b, <2>0, RowSaved
  <2>3. f.kind = form[c].kind /\ f.base = form[c].base /\ f.seen = form[c].seen
    BY <1>b DEF FormRow
  <2> HIDE DEF f
  <2> QED BY <2>1, <2>2, <2>3, Left
<1>6. CASE E!SubmitTask(c) \/ E!SubmitPrompt(c) BY <1>6, <1>3 DEF E!SubmitTask, E!SubmitPrompt
<1>7. CASE E!SubmitAgent(c) BY <1>7, <1>3 DEF E!SubmitAgent
<1>8. CASE E!SubmitTeam(c) \/ E!SubmitContract(c)
  BY <1>8, <1>3 DEF E!SubmitTeam, E!SubmitContract
<1> QED BY <1>0, <1>1, <1>2, <1>4, <1>5, <1>6, <1>7, <1>8
  DEF E!OpenTask, E!OpenAgent, E!OpenTeam, E!OpenPrompt, E!OpenContract, E!ReloadTask,
      E!ReloadAgent

LEMMA EditNext ==
  ASSUME EditInv, [E!Next]_edited
  PROVE  EditInv'
<1>a. E!TypeOK /\ clock \in Nat BY DEF EditInv, EditTypes, E!TypeOK
<1>b. \A k \in Kinds : row[k].ver \in Nat BY <1>a DEF E!TypeOK, E!Row
<1>1. ASSUME NEW q, E!UpdateTask(q) \/ E!UpdateAgent(q) \/ E!RevisePrompt(q)
                    \/ E!ReplaceContract(q)
      PROVE  EditInv'
  <2>1. PICK k \in {"task", "agent", "prompt", "contract"} :
          E!save(q, k) /\ (k = "task" => ~work.live) /\ (k = "agent" => ~q.structural)
    BY <1>1 DEF E!UpdateTask, E!UpdateAgent, E!RevisePrompt, E!ReplaceContract, E!editable
  <2>2. q \in sent /\ q.kind = k BY <2>1 DEF E!save
  <2>3. ~q.structural BY <2>1, <2>2 DEF EditInv, SentInv
  <2> QED BY <2>1, <2>3, Saved
<1>2. ASSUME NEW q, E!BeginTeam(q) \/ E!BeginAgent(q) PROVE EditInv'
  BY <1>2, WorkBegun DEF E!BeginTeam, E!BeginAgent
<1>3. CASE E!LimitAgent
  <2>1. /\ "agent" \in Kinds /\ E!free
        /\ row' = [row EXCEPT !["agent"].ver = E!stamp(row["agent"].ver)]
        /\ UNCHANGED <<form, sent, tx, work, proof, blind, saves, clock>>
    BY <1>3, <1>a DEF E!LimitAgent, E!TypeOK
  <2>2. PICK v : v = E!stamp(row["agent"].ver) OBVIOUS
  <2>3. v \in Nat /\ row["agent"].ver < v BY <1>a, <1>b, <2>1, <2>2 DEF E!stamp
  <2>4. row["agent"] \in E!Row BY <1>a, <2>1 DEF E!TypeOK
  <2>5. row' = [row EXCEPT !["agent"].ver = v] BY <2>1, <2>2
  <2>6. [row["agent"] EXCEPT !.ver = v] \in E!Row BY <2>3, <2>4 DEF E!Row
  <2>7. row' \in [Kinds -> E!Row] BY <1>a, <2>5, <2>6 DEF E!TypeOK
  <2>8. \A k \in Kinds \ {"agent"} : row'[k] = row[k] BY <1>a, <2>5 DEF E!TypeOK
  <2>9. row'["agent"] = [row["agent"] EXCEPT !.ver = v]
    BY <1>a, <2>1, <2>5 DEF E!TypeOK
  <2>10. /\ row'["agent"].ver = v /\ row'["agent"].content = row["agent"].content
         /\ row'["agent"].inputs = row["agent"].inputs
    BY <2>4, <2>9 DEF E!Row
  <2>11. Grows BY <1>b, <2>3, <2>7, <2>8, <2>10 DEF Grows
  <2>12. E!LiveWorkKeepsItsInputs'
    <3>1. E!LiveWorkKeepsItsInputs BY DEF EditInv
    <3> QED BY <2>1, <2>8, <2>10, <3>1 DEF E!LiveWorkKeepsItsInputs, E!now_
  <2>13. work'.live \in BOOLEAN /\ proof' \in BOOLEAN BY <1>a, <2>1 DEF E!TypeOK
  <2> QED BY <2>1, <2>11, <2>12, <2>13, Stamped
<1>4. CASE E!StartWork
  <2>1. /\ E!free /\ E!taskDue /\ E!taskWritten
        /\ work' = [live |-> TRUE, agent |-> E!now_("agent", "inputs"),
                    team |-> E!now_("team", "content"), task |-> E!now_("task", "content")]
        /\ UNCHANGED <<form, sent, tx, proof, blind, saves, clock>>
    BY <1>4 DEF E!StartWork
  <2>2. /\ Grows
        /\ \A k \in Kinds : row'[k].content = row[k].content /\ row'[k].inputs = row[k].inputs
    BY <2>1, TaskWritten
  <2>3. E!LiveWorkKeepsItsInputs' BY <2>1, <2>2 DEF E!LiveWorkKeepsItsInputs, E!now_
  <2>4. work'.live \in BOOLEAN /\ proof' \in BOOLEAN BY <1>a, <2>1 DEF E!TypeOK
  <2> QED BY <2>1, <2>2, <2>3, <2>4, Stamped
<1>5. ASSUME NEW e \in BOOLEAN, E!FinishWork(e) PROVE EditInv'
  <2>1. /\ E!free /\ E!taskDue /\ E!taskWritten /\ work' = E!NoWork /\ proof' = (proof \/ e)
        /\ UNCHANGED <<form, sent, tx, blind, saves, clock>>
    BY <1>5 DEF E!FinishWork
  <2>2. Grows BY <2>1, TaskWritten
  <2>3. work'.live = FALSE BY <2>1 DEF E!NoWork
  <2>4. E!LiveWorkKeepsItsInputs' BY <2>3 DEF E!LiveWorkKeepsItsInputs
  <2>5. proof' \in BOOLEAN BY <2>1
  <2> QED BY <2>1, <2>2, <2>3, <2>4, <2>5, Stamped
<1>6. CASE E!Tick
  <2>1. /\ clock' \in 0..MaxClock
        /\ UNCHANGED <<row, form, sent, tx, work, proof, blind, saves>>
    BY <1>6, ConfigurationAssumption DEF E!Tick, EditInv, EditTypes, E!TypeOK
  <2> QED BY <2>1 DEF EditInv, EditTypes, E!TypeOK, FormInv, SentInv, LockInv, Known, E!free,
                      E!EditsReplaceWhatWasSeen, E!LiveWorkKeepsItsInputs, E!now_
<1>7. CASE UNCHANGED edited
  BY <1>7 DEF edited, EditInv, EditTypes, E!TypeOK, FormInv, SentInv, LockInv, Known, E!free,
              E!EditsReplaceWhatWasSeen, E!LiveWorkKeepsItsInputs, E!now_
<1> QED BY <1>1, <1>2, <1>3, <1>4, <1>5, <1>6, <1>7, EditBrowser, Committed, Refused
  DEF E!Next, E!Service

(***************************************************************************)
(* EditsAreSeen (the dialogs of tasks, agents, teams and prompts with      *)
(* their services): no save replaces what its author had not seen, except  *)
(* of a contract, and live work keeps the inputs it started with; for any  *)
(* number of browsers, saves and milliseconds.                             *)
(***************************************************************************)
THEOREM EditsAreSeenAlways == MCSpec => []EditsAreSeen
<1>1. MCInit => EditInv
  BY EditInit DEF MCInit
<1>2. ASSUME EditInv, [MCNext]_MCvars PROVE EditInv'
  <2>1. [E!Next]_edited BY <1>2 DEF MCNext, MCvars
  <2> QED BY <1>2, <2>1, EditNext
<1>3. EditInv => EditsAreSeen
  BY DEF EditInv, EditTypes, EditsAreSeen
<1> QED BY <1>1, <1>2, <1>3, PTL DEF MCSpec

-----------------------------------------------------------------------------
\* Every set of numbers has a least one.
LEMMA Least ==
  ASSUME NEW S \in SUBSET Nat, S # {}
  PROVE  \E m \in S : \A n \in S : m <= n
<1> DEFINE R == {ss \in Nat \X Nat : ss[1] < ss[2]}
<1>1. IsWellFoundedOn(R, Nat)
  BY NatLessThanWellFounded DEF OpToRel
<1>2. \E m \in S : \A n \in S : ~ (<<n, m>> \in R)
  <2> HIDE DEF R
  <2> QED BY <1>1, WFMin, Zenon
<1>3. PICK m \in S : \A n \in S : ~ (<<n, m>> \in R) BY <1>2
<1>4. ASSUME NEW n \in S PROVE m <= n
  <2>1. n \in Nat /\ m \in Nat OBVIOUS
  <2>2. <<n, m>> \notin R BY <1>3
  <2>3. <<n, m>>[1] = n /\ <<n, m>>[2] = m OBVIOUS
  <2>4. <<n, m>> \in Nat \X Nat BY <2>1
  <2>5. ~(n < m) BY <2>2, <2>3, <2>4
  <2> QED BY <2>1, <2>5
<1> QED BY <1>4

-----------------------------------------------------------------------------
(***************************************************************************)
(* Executions. While one is under way peak has been at least what project  *)
(* and agent allow now, and what the execution has read of them was within *)
(* it. What is invoked fits the captured budget with what is spent.        *)
(***************************************************************************)
Someone == Agents \cup {0}
Limits == [level : 0..MaxLevel, cost : 0..MaxCost, narrow : BOOLEAN]
FrozenRun == [state : {"frozen"}, agent : Someone, codex : BOOLEAN, budget : 0..MaxCost,
              level : 0..MaxLevel, cost : 0..MaxCost, narrow : BOOLEAN]
PlainRun == [state |-> "plain"]
Begun == [stage : {"begun"}, level : 0..MaxLevel]
Checked == [stage : {"checked"}, level : 0..MaxLevel, agent : Someone, row : Limits]
Running == [stage : {"running"}, agent : Someone, with : Limits]

ExecTypes ==
  /\ conf \in X!Conf /\ spent \in Nat /\ accepted \in BOOLEAN
  /\ snap = X!NoRun \/ snap = PlainRun \/ snap \in FrozenRun
  /\ exec = X!NoExec \/ exec \in Begun \/ exec \in Checked \/ exec \in Running
  /\ peak \in [level : 0..MaxLevel, agentLevel : 0..MaxLevel, cost : 0..MaxCost]
  /\ snap = X!NoRun => exec = X!NoExec /\ spent = 0

PeakInv ==
  snap \in FrozenRun /\ exec # X!NoExec =>
    /\ conf.level <= peak.level
    /\ IF snap.agent = 0 THEN peak.agentLevel = MaxLevel /\ peak.cost = MaxCost
       ELSE /\ conf.agent[snap.agent].level <= peak.agentLevel
            /\ conf.agent[snap.agent].cost <= peak.cost

ReadingInv ==
  snap \in FrozenRun =>
    /\ exec \in Begun \cup Checked => exec.level <= peak.level
    /\ exec \in Checked => /\ exec.agent = snap.agent
                           /\ exec.row.level <= peak.agentLevel
                           /\ exec.row.cost <= peak.cost
    /\ exec \in Running => X!FrozenRunsOnlyNarrow

SpendInv ==
  snap \in FrozenRun /\ snap.budget > 0 =>
    /\ accepted => spent <= snap.budget
    /\ exec \in Running => spent < snap.budget /\ spent + exec.with.cost <= snap.budget

ExecInv == ExecTypes /\ PeakInv /\ ReadingInv /\ SpendInv

\* Which kind a record is of is told by its first field.
LEMMA Stages ==
  /\ \A r \in FrozenRun : r.state = "frozen" /\ r # X!NoRun /\ r # PlainRun
  /\ \A e \in Begun : e.stage = "begun" /\ e # X!NoExec
  /\ \A e \in Checked : e.stage = "checked" /\ e # X!NoExec
  /\ \A e \in Running : e.stage = "running" /\ e # X!NoExec
  /\ X!NoExec.stage = "idle" /\ X!NoRun.state = "none" /\ PlainRun.state = "plain"
<1>1. X!NoExec.stage = "idle" /\ X!NoRun.state = "none" /\ PlainRun.state = "plain"
  BY DEF X!NoExec, X!NoRun, PlainRun
<1>2. \A r \in FrozenRun : r.state = "frozen" BY DEF FrozenRun
<1>3. \A e \in Begun : e.stage = "begun" BY DEF Begun
<1>4. \A e \in Checked : e.stage = "checked" BY DEF Checked
<1>5. \A e \in Running : e.stage = "running" BY DEF Running
<1> QED BY <1>1, <1>2, <1>3, <1>4, <1>5

LEMMA Told ==
  ASSUME ExecTypes
  PROVE  /\ snap \in FrozenRun <=> snap.state = "frozen"
         /\ snap = PlainRun <=> snap.state = "plain"
         /\ exec \in Begun <=> exec.stage = "begun"
         /\ exec \in Checked <=> exec.stage = "checked"
         /\ exec \in Running <=> exec.stage = "running"
         /\ exec = X!NoExec <=> exec.stage = "idle"
BY Stages DEF ExecTypes

LEMMA MinMax ==
  ASSUME NEW a \in Nat, NEW b \in Nat
  PROVE  /\ X!min(a, b) \in Nat /\ X!min(a, b) <= a /\ X!min(a, b) <= b
         /\ (X!min(a, b) = a \/ X!min(a, b) = b)
         /\ X!max(a, b) \in Nat /\ a <= X!max(a, b) /\ b <= X!max(a, b)
         /\ (X!max(a, b) = a \/ X!max(a, b) = b)
BY DEF X!min, X!max

(***************************************************************************)
(* Selection.                                                              *)
(***************************************************************************)
LEMMA FirstIsMember ==
  ASSUME NEW S \in SUBSET Agents, S # {}
  PROVE  X!first(S) \in S
<1>1. S \in SUBSET Nat BY ConfigurationAssumption
<1>2. \E m \in S : \A n \in S : m <= n BY <1>1, Least
<1> QED BY <1>2 DEF X!first

LEMMA Selection ==
  ASSUME NEW S \in SUBSET Agents, S = {a \in Agents : X!eligible(a)}
  PROVE  /\ X!captured \in Someone
         /\ X!captured # 0 => X!captured \in S
         /\ \A a \in X!resolveRoleProvider : a \in Someone
         /\ X!SelectionsAgree
<1>0. OfProject \subseteq Agents BY ConfigurationAssumption
<1>1. X!captured = IF conf.assigned \in S THEN conf.assigned
                   ELSE IF S \cap OfProject # {} THEN X!first(S \cap OfProject)
                   ELSE IF S # {} THEN X!first(S) ELSE 0
  BY DEF X!captured, X!None
<1>2. X!resolveRoleProvider =
        LET scope == IF S \cap OfProject # {} THEN S \cap OfProject ELSE S
        IN IF conf.assigned \in S THEN {conf.assigned}
           ELSE IF scope = {} THEN {0}
           ELSE IF conf.configured THEN {X!first(scope)} ELSE scope
  BY DEF X!resolveRoleProvider, X!None
<1>3. S \cap OfProject # {} => X!first(S \cap OfProject) \in S \cap OfProject
  BY FirstIsMember
<1>4. S # {} => X!first(S) \in S BY FirstIsMember
<1>5. CASE conf.assigned \in S
  BY <1>1, <1>2, <1>5 DEF Someone, X!SelectionsAgree
<1>6. CASE conf.assigned \notin S /\ S \cap OfProject # {}
  BY <1>1, <1>2, <1>3, <1>6 DEF Someone, X!SelectionsAgree
<1>7. CASE conf.assigned \notin S /\ S \cap OfProject = {} /\ S # {}
  BY <1>1, <1>2, <1>4, <1>7 DEF Someone, X!SelectionsAgree
<1>8. CASE conf.assigned \notin S /\ S = {}
  BY <1>1, <1>2, <1>8 DEF Someone, X!SelectionsAgree
<1> QED BY <1>5, <1>6, <1>7, <1>8

LEMMA Selected ==
  /\ X!captured \in Someone
  /\ \A a \in X!resolveRoleProvider : a \in Someone
  /\ X!SelectionsAgree
<1>1. PICK S \in SUBSET Agents : S = {a \in Agents : X!eligible(a)} OBVIOUS
<1> QED BY <1>1, Selection

(***************************************************************************)
(* The steps.                                                              *)
(***************************************************************************)
LEMMA ExecInit == X!Init => ExecInv
<1> SUFFICES ASSUME X!Init PROVE ExecInv OBVIOUS
<1> USE ConfigurationAssumption
<1>1. conf \in X!Conf
  <2>1. PICK g \in [Agents -> X!AgentRow], b \in {0, MaxCost}, t \in BOOLEAN,
             s \in Agents \cup {X!None}, x \in BOOLEAN :
          conf = [agent |-> g, level |-> MaxLevel, budget |-> b, configured |-> t,
                  assigned |-> s, provider |-> TRUE, codex |-> x]
    <3> DEFINE g0 == [a \in Agents |-> [enabled |-> TRUE, member |-> TRUE, level |-> MaxLevel,
                                        cost |-> MaxCost, narrow |-> FALSE]]
    <3>1. g0 \in [Agents -> X!AgentRow] BY DEF X!AgentRow
    <3>2. conf \in [agent : {g0}, level : {MaxLevel}, budget : {0, MaxCost},
                    configured : BOOLEAN, assigned : Agents \cup {X!None}, provider : {TRUE},
                    codex : BOOLEAN]
      BY DEF X!Init
    <3> HIDE DEF g0
    <3> QED BY <3>1, <3>2
  <2> QED BY <2>1 DEF X!Conf
<1>2. ExecTypes
  <2>1. spent = 0 /\ accepted = TRUE /\ snap = X!NoRun /\ exec = X!NoExec BY DEF X!Init
  <2>2. peak \in [level : 0..MaxLevel, agentLevel : 0..MaxLevel, cost : 0..MaxCost]
    BY DEF X!Init, X!NoPeak
  <2>3. spent \in Nat /\ accepted \in BOOLEAN BY <2>1
  <2> QED BY <1>1, <2>1, <2>2, <2>3 DEF ExecTypes
<1>3. snap \notin FrozenRun BY Stages DEF X!Init
<1> QED BY <1>2, <1>3 DEF ExecInv, PeakInv, ReadingInv, SpendInv

LEMMA ExecStart ==
  ASSUME ExecInv, X!Start
  PROVE  ExecInv'
<1>1. /\ snap = X!NoRun /\ snap' = PlainRun
      /\ UNCHANGED <<conf, exec, peak, spent, accepted, edits, executions>>
  BY DEF X!Start, PlainRun
<1>2. snap' # X!NoRun /\ snap' \notin FrozenRun BY <1>1, Stages
<1>3. ExecTypes' BY <1>1, <1>2 DEF ExecInv, ExecTypes
<1> QED BY <1>2, <1>3 DEF ExecInv, PeakInv, ReadingInv, SpendInv

LEMMA ExecFreeze ==
  ASSUME ExecInv, X!Freeze
  PROVE  ExecInv'
<1> USE ConfigurationAssumption
<1> DEFINE a == X!captured
           l == IF a = 0 THEN conf.level ELSE X!min(conf.agent[a].level, conf.level)
           k == X!min(IF conf.budget > 0 THEN conf.budget ELSE MaxCost,
                      X!min(EnvCost, IF a = 0 THEN EnvCost ELSE conf.agent[a].cost))
           w == a # 0 /\ conf.agent[a].narrow
<1>1. /\ snap = X!NoRun
      /\ snap' = [state |-> "frozen", agent |-> a, codex |-> conf.codex, budget |-> conf.budget,
                  level |-> l, cost |-> k, narrow |-> w]
      /\ UNCHANGED <<conf, exec, peak, spent, accepted, edits, executions>>
  BY DEF X!Freeze, X!None
<1>2. a \in Someone BY Selected
<1>3. conf \in X!Conf BY DEF ExecInv, ExecTypes
<1>4. /\ conf.level \in 0..MaxLevel /\ conf.budget \in 0..MaxCost /\ conf.codex \in BOOLEAN
      /\ conf.agent \in [Agents -> X!AgentRow]
  BY <1>3 DEF X!Conf
<1>5. a # 0 => /\ conf.agent[a].level \in 0..MaxLevel /\ conf.agent[a].cost \in 0..MaxCost
               /\ conf.agent[a].narrow \in BOOLEAN
  BY <1>2, <1>4 DEF Someone, X!AgentRow
<1> HIDE DEF a
<1>6. l \in 0..MaxLevel BY <1>4, <1>5 DEF X!min
<1>7. k \in 0..MaxCost BY <1>4, <1>5 DEF X!min
<1>8. w \in BOOLEAN BY <1>5
<1> HIDE DEF l, k, w
<1>9. snap' \in FrozenRun BY <1>1, <1>2, <1>4, <1>6, <1>7, <1>8 DEF FrozenRun
<1>10. exec = X!NoExec /\ spent = 0 BY <1>1 DEF ExecInv, ExecTypes
<1>11. ExecTypes' BY <1>1, <1>9, Stages DEF ExecInv, ExecTypes
<1>12. exec \notin Begun /\ exec \notin Checked /\ exec \notin Running BY <1>10, Stages
<1>13. snap'.budget \in 0..MaxCost BY <1>9 DEF FrozenRun
<1> QED BY <1>1, <1>10, <1>11, <1>12, <1>13 DEF ExecInv, PeakInv, ReadingInv, SpendInv

\* The edit of one agent, or of anything else of the project.
LEMMA ExecEdit ==
  ASSUME ExecInv, NEW c \in X!Conf, X!Edit(c)
  PROVE  ExecInv'
<1> USE ConfigurationAssumption
<1>0. ExecTypes /\ conf \in X!Conf /\ peak \in [level : 0..MaxLevel, agentLevel : 0..MaxLevel,
                                               cost : 0..MaxCost]
  BY DEF ExecInv, ExecTypes
<1>1. conf' = c /\ X!widen(c) /\ UNCHANGED <<snap, exec, spent, accepted, executions>>
  BY DEF X!Edit
<1>2. /\ c.level \in 0..MaxLevel
      /\ \A a \in Agents : c.agent[a].level \in 0..MaxLevel /\ c.agent[a].cost \in 0..MaxCost
  BY DEF X!Conf, X!AgentRow
<1>3. peak.level \in 0..MaxLevel /\ peak.agentLevel \in 0..MaxLevel /\ peak.cost \in 0..MaxCost
  BY <1>0
<1>4. CASE exec = X!NoExec \/ snap \notin FrozenRun
  <2>1. peak' = peak BY <1>0, <1>1, <1>4, Told DEF X!widen
  <2>2. ExecTypes' BY <1>0, <1>1, <2>1 DEF ExecTypes
  <2>3. PeakInv' BY <1>1, <1>4 DEF PeakInv
  <2>4. ReadingInv' BY <1>1, <2>1 DEF ExecInv, ReadingInv, X!FrozenRunsOnlyNarrow
  <2>5. SpendInv' BY <1>1 DEF ExecInv, SpendInv
  <2> QED BY <2>2, <2>3, <2>4, <2>5 DEF ExecInv
<1>5. CASE exec # X!NoExec /\ snap \in FrozenRun
  <2> DEFINE al == IF snap.agent = 0 THEN MaxLevel
                   ELSE X!max(peak.agentLevel, c.agent[snap.agent].level)
             ac == IF snap.agent = 0 THEN MaxCost
                   ELSE X!max(peak.cost, c.agent[snap.agent].cost)
             pl == X!max(peak.level, c.level)
  <2>0. snap.agent \in Someone BY <1>5 DEF FrozenRun
  <2>a. snap.state = "frozen" BY <1>5, Stages
  <2>1. peak' = [level |-> pl, agentLevel |-> al, cost |-> ac]
    BY <1>1, <1>5, <2>a DEF X!widen, X!None
  <2>2. /\ pl \in 0..MaxLevel /\ peak.level <= pl /\ c.level <= pl
    BY <1>2, <1>3 DEF X!max
  <2>3. /\ al \in 0..MaxLevel /\ peak.agentLevel <= al
        /\ ac \in 0..MaxCost /\ peak.cost <= ac
        /\ snap.agent = 0 => al = MaxLevel /\ ac = MaxCost
        /\ snap.agent # 0 => /\ c.agent[snap.agent].level <= al
                             /\ c.agent[snap.agent].cost <= ac
    <3>1. CASE snap.agent = 0 BY <3>1, <1>3
    <3>2. CASE snap.agent # 0
      <4>1. snap.agent \in Agents BY <2>0, <3>2 DEF Someone
      <4>2. /\ c.agent[snap.agent].level \in 0..MaxLevel
            /\ c.agent[snap.agent].cost \in 0..MaxCost
        BY <4>1, <1>2
      <4> QED BY <3>2, <4>2, <1>3 DEF X!max
    <3> QED BY <3>1, <3>2
  <2> HIDE DEF pl, al, ac
  <2>4. ExecTypes'
    <3>1. peak' \in [level : 0..MaxLevel, agentLevel : 0..MaxLevel, cost : 0..MaxCost]
      BY <2>1, <2>2, <2>3
    <3> QED BY <1>0, <1>1, <3>1 DEF ExecTypes
  <2>5. peak'.level = pl /\ peak'.agentLevel = al /\ peak'.cost = ac BY <2>1
  <2>6. PeakInv' BY <1>1, <2>2, <2>3, <2>5 DEF PeakInv
  <2>7. ReadingInv'
    <3>1. ReadingInv BY DEF ExecInv
    <3>2. /\ exec \in Begun \cup Checked => exec.level <= pl
          /\ exec \in Checked => /\ exec.agent = snap.agent
                                 /\ exec.row.level <= al /\ exec.row.cost <= ac
      <4>1. exec \in Begun \cup Checked => exec.level \in 0..MaxLevel BY DEF Begun, Checked
      <4>2. exec \in Checked => exec.row.level \in 0..MaxLevel /\ exec.row.cost \in 0..MaxCost
        BY DEF Checked, Limits
      <4> QED BY <1>3, <1>5, <2>2, <2>3, <3>1, <4>1, <4>2 DEF ReadingInv
    <3>3. exec \in Running => X!FrozenRunsOnlyNarrow'
      <4> SUFFICES ASSUME exec \in Running PROVE X!FrozenRunsOnlyNarrow' OBVIOUS
      <4>1. X!FrozenRunsOnlyNarrow BY <1>5, <3>1 DEF ReadingInv
      <4>2. exec.with.level \in 0..MaxLevel /\ exec.with.cost \in 0..MaxCost
        BY DEF Running, Limits
      <4>3. snap.level \in 0..MaxLevel /\ snap.cost \in 0..MaxCost BY <1>5 DEF FrozenRun
      <4> QED BY <4>1, <4>2, <4>3, <1>1, <1>3, <2>2, <2>3, <2>5
        DEF X!FrozenRunsOnlyNarrow, X!min
    <3> QED BY <1>1, <2>5, <3>2, <3>3 DEF ReadingInv
  <2>8. SpendInv' BY <1>1 DEF ExecInv, SpendInv
  <2> QED BY <2>4, <2>6, <2>7, <2>8 DEF ExecInv
<1> QED BY <1>4, <1>5

LEMMA EditedConf ==
  ASSUME conf \in X!Conf, NEW a \in Agents
  PROVE  /\ [conf EXCEPT !.agent[a].enabled = ~@] \in X!Conf
         /\ [conf EXCEPT !.agent[a].narrow = ~@] \in X!Conf
         /\ \A l \in 0..MaxLevel : [conf EXCEPT !.agent[a].level = l] \in X!Conf
         /\ \A m \in 0..MaxCost : [conf EXCEPT !.agent[a].cost = m] \in X!Conf
         /\ [conf EXCEPT !.agent[a].member = ~@, !.configured = TRUE] \in X!Conf
<1>1. conf.agent \in [Agents -> X!AgentRow] /\ conf.agent[a] \in X!AgentRow BY DEF X!Conf
<1>2. ASSUME NEW r \in X!AgentRow PROVE [conf EXCEPT !.agent[a] = r] \in X!Conf
  BY <1>1 DEF X!Conf
<1>3. [conf.agent[a] EXCEPT !.enabled = ~@] \in X!AgentRow BY <1>1 DEF X!AgentRow
<1>4. [conf.agent[a] EXCEPT !.narrow = ~@] \in X!AgentRow BY <1>1 DEF X!AgentRow
<1>5. \A l \in 0..MaxLevel : [conf.agent[a] EXCEPT !.level = l] \in X!AgentRow
  BY <1>1 DEF X!AgentRow
<1>6. \A m \in 0..MaxCost : [conf.agent[a] EXCEPT !.cost = m] \in X!AgentRow
  BY <1>1 DEF X!AgentRow
<1>7. [conf.agent[a] EXCEPT !.member = ~@] \in X!AgentRow BY <1>1 DEF X!AgentRow
<1>8. [conf EXCEPT !.agent[a].member = ~@, !.configured = TRUE] \in X!Conf
  <2>1. [conf EXCEPT !.agent[a].member = ~@] \in X!Conf BY <1>2, <1>7
  <2> QED BY <2>1 DEF X!Conf
<1> QED BY <1>2, <1>3, <1>4, <1>5, <1>6, <1>8
LEMMA ExecBegin ==
  ASSUME ExecInv, X!Begin
  PROVE  ExecInv'
<1> USE ConfigurationAssumption
<1>0. /\ ExecTypes /\ conf \in X!Conf BY DEF ExecInv, ExecTypes
<1>1. /\ snap # X!NoRun /\ exec' = [stage |-> "begun", level |-> conf.level]
      /\ UNCHANGED <<conf, snap, spent, accepted, edits>>
  BY DEF X!Begin
<1>2. conf.level \in 0..MaxLevel BY <1>0 DEF X!Conf
<1>3. exec' \in Begun BY <1>1, <1>2 DEF Begun
<1>4. exec'.level = conf.level /\ exec' \notin Checked /\ exec' \notin Running
  BY <1>1, <1>3, Stages
<1>5. CASE snap \notin FrozenRun
  <2>1. peak' = [level |-> 0, agentLevel |-> 0, cost |-> 0]
    BY <1>0, <1>5, Told DEF X!Begin, X!NoPeak
  <2>2. peak' \in [level : 0..MaxLevel, agentLevel : 0..MaxLevel, cost : 0..MaxCost]
    BY <2>1
  <2>3. ExecTypes' BY <1>0, <1>1, <1>3, <2>2 DEF ExecTypes
  <2> QED BY <1>1, <1>5, <2>3 DEF ExecInv, PeakInv, ReadingInv, SpendInv
<1>6. CASE snap \in FrozenRun
  <2> DEFINE al == IF snap.agent = 0 THEN MaxLevel ELSE conf.agent[snap.agent].level
             ac == IF snap.agent = 0 THEN MaxCost ELSE conf.agent[snap.agent].cost
  <2>1. snap.state = "frozen" /\ snap.agent \in Someone BY <1>6, Stages DEF FrozenRun
  <2>2. peak' = [level |-> conf.level, agentLevel |-> al, cost |-> ac]
    BY <2>1 DEF X!Begin, X!None
  <2>3. al \in 0..MaxLevel /\ ac \in 0..MaxCost
    <3>1. MaxLevel \in 0..MaxLevel /\ MaxCost \in 0..MaxCost
      BY ConfigurationAssumption
    <3>2. CASE snap.agent = 0 BY <3>1, <3>2
    <3>3. CASE snap.agent # 0
      <4>1. snap.agent \in Agents BY <2>1, <3>3 DEF Someone
      <4>2. conf.agent \in [Agents -> X!AgentRow] BY <1>0 DEF X!Conf
      <4>3. conf.agent[snap.agent] \in X!AgentRow BY <4>1, <4>2
      <4> QED BY <3>3, <4>3 DEF X!AgentRow
    <3> QED BY <3>2, <3>3
  <2>a. /\ snap.agent = 0 => al = MaxLevel /\ ac = MaxCost
        /\ snap.agent # 0 => /\ conf.agent[snap.agent].level = al
                             /\ conf.agent[snap.agent].cost = ac
    OBVIOUS
  <2> HIDE DEF al, ac
  <2>4. peak'.level = conf.level /\ peak'.agentLevel = al /\ peak'.cost = ac BY <2>2
  <2>5. peak' \in [level : 0..MaxLevel, agentLevel : 0..MaxLevel, cost : 0..MaxCost]
    BY <1>2, <2>2, <2>3
  <2>6. ExecTypes' BY <1>0, <1>1, <1>3, <2>5 DEF ExecTypes
  <2>7. PeakInv' BY <1>1, <1>2, <2>3, <2>4, <2>a DEF PeakInv
  <2>8. ReadingInv' BY <1>1, <1>2, <1>4, <2>4 DEF ReadingInv
  <2>9. SpendInv' BY <1>1, <1>4 DEF ExecInv, SpendInv
  <2> QED BY <2>6, <2>7, <2>8, <2>9 DEF ExecInv
<1> QED BY <1>5, <1>6

\* An execution that is over, with what it has cost.
LEMMA ExecStops ==
  ASSUME ExecInv, X!Stop, UNCHANGED <<conf, snap>>, spent' \in Nat, accepted' \in BOOLEAN,
         snap # X!NoRun \/ spent' = 0,
         snap \in FrozenRun /\ snap.budget > 0 => (accepted' => spent' <= snap.budget)
  PROVE  ExecInv'
<1>1. exec' = X!NoExec /\ peak' = [level |-> 0, agentLevel |-> 0, cost |-> 0]
  BY DEF X!Stop, X!NoPeak
<1>2. exec' \notin Begun /\ exec' \notin Checked /\ exec' \notin Running BY <1>1, Stages
<1>3. peak' \in [level : 0..MaxLevel, agentLevel : 0..MaxLevel, cost : 0..MaxCost]
  BY <1>1, ConfigurationAssumption
<1>4. ExecTypes' BY <1>1, <1>3 DEF ExecInv, ExecTypes
<1> QED BY <1>1, <1>2, <1>4 DEF ExecInv, PeakInv, ReadingInv, SpendInv

LEMMA ExecCheck ==
  ASSUME ExecInv, X!Check
  PROVE  ExecInv'
<1> USE ConfigurationAssumption
<1>0. /\ ExecTypes /\ conf \in X!Conf /\ spent \in Nat /\ accepted \in BOOLEAN
      /\ PeakInv /\ ReadingInv /\ SpendInv
  BY DEF ExecInv, ExecTypes
<1>1. /\ exec \in Begun /\ snap \in FrozenRun
      /\ UNCHANGED <<conf, snap, spent, accepted, edits, executions>>
  BY <1>0, Told DEF X!Check
<1>2. CASE X!Stop
  <2>1. snap # X!NoRun BY <1>1, Stages
  <2> QED BY <1>0, <1>1, <1>2, <2>1, ExecStops DEF SpendInv
<1>3. CASE ~X!Stop
  <2> DEFINE rl == IF snap.agent = 0 THEN snap.level ELSE conf.agent[snap.agent].level
             rc == IF snap.agent = 0 THEN MaxCost ELSE conf.agent[snap.agent].cost
             rn == IF snap.agent = 0 THEN FALSE ELSE conf.agent[snap.agent].narrow
  <2>1. /\ exec' = [stage |-> "checked", level |-> exec.level, agent |-> snap.agent,
                    row |-> [level |-> rl, cost |-> rc, narrow |-> rn]]
        /\ peak' = peak
    BY <1>3 DEF X!Check, X!agentOf, X!None
  <2>2. snap.agent \in Someone /\ snap.level \in 0..MaxLevel /\ exec.level \in 0..MaxLevel
    BY <1>1 DEF FrozenRun, Begun
  <2>3. snap.agent # 0 => conf.agent[snap.agent] \in X!AgentRow
    BY <1>0, <2>2 DEF X!Conf, Someone
  <2>4. rl \in 0..MaxLevel BY <2>2, <2>3 DEF X!AgentRow
  <2>5. rc \in 0..MaxCost BY <2>3 DEF X!AgentRow
  <2>6. rn \in BOOLEAN BY <2>3 DEF X!AgentRow
  <2>7. exec # X!NoExec BY <1>1, Stages
  <2>8. peak.level \in 0..MaxLevel /\ peak.agentLevel \in 0..MaxLevel /\ peak.cost \in 0..MaxCost
    BY <1>0 DEF ExecTypes
  <2>9. rl <= peak.agentLevel /\ rc <= peak.cost BY <1>0, <1>1, <2>2, <2>7, <2>8 DEF PeakInv
  <2> HIDE DEF rl, rc, rn
  <2>10. [level |-> rl, cost |-> rc, narrow |-> rn] \in Limits BY <2>4, <2>5, <2>6 DEF Limits
  <2>11. exec' \in Checked BY <2>1, <2>2, <2>10 DEF Checked
  <2>12. exec' \notin Running /\ exec' \notin Begun /\ exec' # X!NoExec BY <2>11, Stages
  <2>13. ExecTypes'
    <3>1. snap # X!NoRun BY <1>1, Stages
    <3> QED BY <1>0, <1>1, <2>1, <2>11, <3>1 DEF ExecTypes
  <2>14. PeakInv' BY <1>0, <1>1, <2>1, <2>7 DEF PeakInv
  <2>15. ReadingInv'
    <3>1. exec.level <= peak.level BY <1>0, <1>1 DEF ReadingInv
    <3>2. /\ exec'.level = exec.level /\ exec'.agent = snap.agent /\ exec'.row.level = rl
          /\ exec'.row.cost = rc
      BY <2>1
    <3> QED BY <1>1, <2>1, <2>9, <2>12, <3>1, <3>2 DEF ReadingInv
  <2>16. SpendInv' BY <1>0, <1>1, <2>12 DEF SpendInv
  <2> QED BY <2>13, <2>14, <2>15, <2>16 DEF ExecInv
<1> QED BY <1>2, <1>3

LEMMA ExecResolve ==
  ASSUME ExecInv, NEW a \in Someone, X!Resolve(a)
  PROVE  ExecInv'
<1> USE ConfigurationAssumption
<1>0. /\ ExecTypes /\ conf \in X!Conf /\ spent \in Nat /\ accepted \in BOOLEAN
  BY DEF ExecInv, ExecTypes
<1>1. /\ exec \in Begun /\ snap = PlainRun
      /\ UNCHANGED <<conf, snap, spent, accepted, edits, executions>>
  BY <1>0, Told DEF X!Resolve
<1>2. snap \notin FrozenRun /\ snap # X!NoRun BY <1>1, Stages
<1>3. CASE X!Stop BY <1>0, <1>1, <1>2, <1>3, ExecStops
<1>4. CASE ~X!Stop
  <2> DEFINE rc == IF a = 0 THEN EnvCost ELSE conf.agent[a].cost
  <2>1. /\ exec' = [stage |-> "checked", level |-> exec.level, agent |-> a,
                    row |-> [cost |-> rc, level |-> exec.level, narrow |-> FALSE]]
        /\ peak' = peak
    BY <1>4 DEF X!Resolve, X!None
  <2>2. exec.level \in 0..MaxLevel BY <1>1 DEF Begun
  <2>3. rc \in 0..MaxCost BY <1>0 DEF X!Conf, Someone, X!AgentRow
  <2> HIDE DEF rc
  <2>4. [cost |-> rc, level |-> exec.level, narrow |-> FALSE] \in Limits
    BY <2>2, <2>3 DEF Limits
  <2>5. exec' \in Checked BY <2>1, <2>2, <2>4 DEF Checked
  <2>6. ExecTypes' BY <1>0, <1>1, <1>2, <2>1, <2>5 DEF ExecTypes
  <2> QED BY <1>1, <1>2, <2>6 DEF ExecInv, PeakInv, ReadingInv, SpendInv
<1> QED BY <1>3, <1>4

\* The limit of a frozen run is the lower of the budgets there are.
LEMMA Limit ==
  ASSUME conf \in X!Conf, snap \in FrozenRun \/ snap = PlainRun
  PROVE  /\ X!limitOf \in 0..MaxCost
         /\ snap \in FrozenRun /\ snap.budget > 0 =>
              X!limitOf > 0 /\ X!limitOf <= snap.budget
<1> USE ConfigurationAssumption
<1>1. conf.budget \in 0..MaxCost BY DEF X!Conf
<1>2. CASE snap = PlainRun BY <1>1, <1>2, Stages DEF X!limitOf
<1>3. CASE snap \in FrozenRun
  <2>1. snap.state # "plain" /\ snap.budget \in 0..MaxCost BY <1>3, Stages DEF FrozenRun
  <2> DEFINE P == {b \in {snap.budget, conf.budget} : b > 0}
  <2>2. X!limitOf = IF P = {} THEN 0 ELSE CHOOSE b \in P : \A d \in P : b <= d
    BY <2>1 DEF X!limitOf
  <2>3. P # {} => \E b \in P : \A d \in P : b <= d
    <3>1. CASE snap.budget <= conf.budget /\ snap.budget > 0 BY <3>1, <1>1, <2>1
    <3>2. CASE conf.budget <= snap.budget /\ conf.budget > 0 BY <3>2, <1>1, <2>1
    <3>3. CASE ~(snap.budget > 0) \/ ~(conf.budget > 0)
      <4>1. \A b, d \in P : b = d BY <3>3, <1>1, <2>1
      <4>2. \A b \in P : b \in Nat BY <1>1, <2>1
      <4> QED BY <4>1, <4>2
    <3> QED BY <3>1, <3>2, <3>3, <1>1, <2>1
  <2>4. \A b \in P : b \in 0..MaxCost /\ b > 0 BY <1>1, <2>1
  <2>5. snap.budget > 0 => snap.budget \in P OBVIOUS
  <2> HIDE DEF P
  <2>6. CASE P = {} BY <2>2, <2>5, <2>6
  <2>7. CASE P # {}
    <3>1. X!limitOf \in P /\ \A d \in P : X!limitOf <= d BY <2>2, <2>3, <2>7
    <3> QED BY <2>4, <2>5, <3>1
  <2> QED BY <2>6, <2>7
<1> QED BY <1>2, <1>3

LEMMA ExecInvoke ==
  ASSUME ExecInv, X!Invoke
  PROVE  ExecInv'
<1> USE ConfigurationAssumption
<1>0. /\ ExecTypes /\ conf \in X!Conf /\ spent \in Nat /\ accepted \in BOOLEAN
      /\ PeakInv /\ ReadingInv /\ SpendInv
  BY DEF ExecInv, ExecTypes
<1>1. /\ exec \in Checked /\ UNCHANGED <<conf, snap, spent, accepted, edits, executions>>
  BY <1>0, Told DEF X!Invoke
<1>2. snap # X!NoRun /\ (snap \in FrozenRun \/ snap = PlainRun) /\ exec # X!NoExec
  BY <1>0, <1>1, Stages DEF ExecTypes
<1>3. CASE X!Stop BY <1>0, <1>1, <1>2, <1>3, ExecStops DEF SpendInv
<1>4. CASE ~X!Stop
  <2> DEFINE limit == X!limitOf
             with == IF snap.state = "frozen" THEN X!invocation(limit) ELSE exec.row
  <2>1. /\ exec' = [stage |-> "running", agent |-> exec.agent, with |-> with] /\ peak' = peak
        /\ ~(limit > 0 /\ spent >= limit)
        /\ snap.state = "frozen" => X!enforceable(with.narrow)
    BY <1>4 DEF X!Invoke
  <2>2. /\ limit \in 0..MaxCost
        /\ snap \in FrozenRun /\ snap.budget > 0 => limit > 0 /\ limit <= snap.budget
    BY <1>0, <1>2, Limit
  <2>3. /\ exec.agent \in Someone /\ exec.row \in Limits /\ exec.level \in 0..MaxLevel
        /\ exec.row.level \in 0..MaxLevel /\ exec.row.cost \in 0..MaxCost
        /\ exec.row.narrow \in BOOLEAN
    BY <1>1 DEF Checked, Limits
  <2> HIDE DEF limit
  <2>4. CASE snap \notin FrozenRun
    <3>1. with = exec.row BY <1>0, <2>4, Told
    <3>2. exec' \in Running BY <2>1, <2>3, <3>1 DEF Running
    <3>3. ExecTypes' BY <1>0, <1>1, <1>2, <2>1, <3>2 DEF ExecTypes
    <3> QED BY <1>1, <2>4, <3>3 DEF ExecInv, PeakInv, ReadingInv, SpendInv
  <2>5. CASE snap \in FrozenRun
    <3>0. /\ snap.level \in 0..MaxLevel /\ snap.cost \in 0..MaxCost /\ snap.narrow \in BOOLEAN
          /\ snap.budget \in 0..MaxCost
      BY <2>5 DEF FrozenRun
    <3> DEFINE left == IF limit > 0 THEN limit - spent ELSE MaxCost
               l == X!min(snap.level, X!min(exec.level, exec.row.level))
               k == X!min(X!min(snap.cost, EnvCost), X!min(exec.row.cost, left))
               w == snap.narrow \/ exec.row.narrow
    <3>1. with = [level |-> l, cost |-> k, narrow |-> w]
      BY <2>5, Stages DEF X!invocation
    <3>2. left \in Nat /\ (limit > 0 => spent < limit /\ spent + left <= limit)
      BY <1>0, <2>1, <2>2
    <3> HIDE DEF left
    <3>3. l \in 0..MaxLevel /\ l <= snap.level /\ l <= exec.level /\ l <= exec.row.level
      BY <2>3, <3>0 DEF X!min
    <3>4. k \in 0..MaxCost /\ k <= snap.cost /\ k <= exec.row.cost /\ k <= left
      BY <2>3, <3>0, <3>2 DEF X!min
    <3>5. w \in BOOLEAN BY <2>3, <3>0
    <3> HIDE DEF l, k, w, with
    <3>6. with \in Limits /\ with.level = l /\ with.cost = k /\ with.narrow = w
      BY <3>1, <3>3, <3>4, <3>5 DEF Limits
    <3>7. exec' \in Running /\ exec'.with = with /\ exec'.agent = exec.agent
      BY <2>1, <2>3, <3>6 DEF Running
    <3>8. exec' \notin Begun /\ exec' \notin Checked BY <3>7, Stages
    <3>9. ExecTypes' BY <1>0, <1>1, <1>2, <2>1, <3>7 DEF ExecTypes
    <3>10. PeakInv' BY <1>0, <1>1, <1>2, <2>1 DEF PeakInv
    <3>11. X!FrozenRunsOnlyNarrow'
      <4>1. /\ exec.level <= peak.level /\ exec.agent = snap.agent
            /\ exec.row.level <= peak.agentLevel /\ exec.row.cost <= peak.cost
        BY <1>0, <1>1, <2>5 DEF ReadingInv
      <4>2. /\ peak.level \in 0..MaxLevel /\ peak.agentLevel \in 0..MaxLevel
            /\ peak.cost \in 0..MaxCost
        BY <1>0 DEF ExecTypes
      <4>3. l <= X!min(snap.level, X!min(peak.level, peak.agentLevel))
        BY <2>3, <3>0, <3>3, <4>1, <4>2 DEF X!min
      <4>4. k <= X!min(snap.cost, peak.cost) BY <2>3, <3>0, <3>4, <4>1, <4>2 DEF X!min
      <4>5. snap.codex => ~with.narrow BY <2>1, <2>5, Stages DEF X!enforceable
      <4> QED BY <1>1, <2>1, <3>6, <3>7, <4>1, <4>3, <4>4, <4>5 DEF X!FrozenRunsOnlyNarrow
    <3>12. ReadingInv' BY <3>8, <3>11 DEF ReadingInv
    <3>13. SpendInv'
      <4> SUFFICES ASSUME snap.budget > 0
                   PROVE  spent < snap.budget /\ spent + k <= snap.budget
        BY <1>0, <1>1, <2>5, <3>6, <3>7 DEF SpendInv
      <4> QED BY <1>0, <2>2, <2>5, <3>0, <3>2, <3>4
    <3> QED BY <3>9, <3>10, <3>12, <3>13 DEF ExecInv
  <2> QED BY <2>4, <2>5
<1> QED BY <1>3, <1>4

LEMMA ExecFinish ==
  ASSUME ExecInv, NEW cost \in 0..MaxCost, X!Finish(cost)
  PROVE  ExecInv'
<1> USE ConfigurationAssumption
<1>0. /\ ExecTypes /\ spent \in Nat /\ SpendInv BY DEF ExecInv, ExecTypes
<1>1. /\ exec \in Running /\ spent' = spent + cost /\ accepted' = (cost <= exec.with.cost)
      /\ X!Stop /\ UNCHANGED <<conf, snap, edits, executions>>
  BY <1>0, Told DEF X!Finish
<1>2. snap # X!NoRun BY <1>0, <1>1, Stages DEF ExecTypes
<1>3. exec.with.cost \in 0..MaxCost BY <1>1 DEF Running, Limits
<1>4. ASSUME snap \in FrozenRun, snap.budget > 0, accepted' PROVE spent' <= snap.budget
  <2>1. spent + exec.with.cost <= snap.budget BY <1>0, <1>1, <1>4 DEF SpendInv
  <2>2. snap.budget \in Nat BY <1>4 DEF FrozenRun
  <2>3. cost <= exec.with.cost BY <1>1, <1>4
  <2>4. spent' = spent + cost BY <1>1
  <2>5. cost \in Nat /\ exec.with.cost \in Nat BY <1>3
  <2> HIDE DEF ExecInv, ExecTypes
  <2> QED BY ONLY <1>0, <2>1, <2>2, <2>3, <2>4, <2>5
<1>5. spent' \in Nat BY <1>0, <1>1
<1>6. accepted' \in BOOLEAN BY <1>1
<1> QED BY <1>1, <1>2, <1>4, <1>5, <1>6, ExecStops

LEMMA ExecNext ==
  ASSUME ExecInv, [X!Next]_executed
  PROVE  ExecInv'
<1>0. conf \in X!Conf BY DEF ExecInv, ExecTypes
<1>1. ASSUME NEW a \in Agents, X!EditAgent(a) \/ X!EditTeam(a) PROVE ExecInv'
  <2>1. \A m \in 1..MaxCost : m \in 0..MaxCost BY ConfigurationAssumption
  <2> QED BY <1>0, <1>1, <2>1, EditedConf, ExecEdit DEF X!EditAgent, X!EditTeam
<1>2. CASE X!EditProject \/ X!EditProvider
  <2>1. \A l \in 0..MaxLevel : [conf EXCEPT !.level = l] \in X!Conf BY <1>0 DEF X!Conf
  <2>2. \A m \in 0..MaxCost : [conf EXCEPT !.budget = m] \in X!Conf BY <1>0 DEF X!Conf
  <2>3. \A a \in Agents \cup {X!None} : [conf EXCEPT !.assigned = a] \in X!Conf
    BY <1>0 DEF X!Conf
  <2>4. [conf EXCEPT !.provider = ~@] \in X!Conf BY <1>0 DEF X!Conf
  <2> QED BY <1>2, <2>1, <2>2, <2>3, <2>4, ExecEdit DEF X!EditProject, X!EditProvider
<1>3. CASE X!Execute
  <2>1. ASSUME NEW a \in Agents \cup {X!None}, X!Resolve(a) PROVE ExecInv'
    <3>1. a \in Someone BY DEF Someone, X!None
    <3> QED BY <2>1, <3>1, ExecResolve
  <2> QED BY <1>3, <2>1, ExecBegin, ExecCheck, ExecInvoke, ExecFinish DEF X!Execute
<1>4. CASE UNCHANGED executed
  BY <1>4 DEF executed, ExecInv, ExecTypes, PeakInv, ReadingInv, SpendInv,
              X!FrozenRunsOnlyNarrow
<1> QED BY <1>1, <1>2, <1>3, <1>4, ExecStart, ExecFreeze DEF X!Next

LEMMA ExecSafe == ExecInv => FrozenInputsBind
<1> SUFFICES ASSUME ExecInv PROVE FrozenInputsBind OBVIOUS
<1>0. ExecTypes /\ ReadingInv /\ SpendInv BY DEF ExecInv
<1>1. X!TypeOK
  <2>1. snap.state \in {"none", "plain", "frozen"} BY <1>0, Stages DEF ExecTypes
  <2>2. snap.state = "frozen" => snap.agent \in Agents \cup {X!None} /\ snap.level \in 0..MaxLevel
    BY <1>0, Told DEF FrozenRun, Someone, X!None
  <2>3. exec.stage \in {"idle", "begun", "checked", "running"} BY <1>0, Stages DEF ExecTypes
  <2>4. exec.stage = "running" => exec.with.cost \in 0..MaxCost
    BY <1>0, Told DEF Running, Limits
  <2> QED BY <1>0, <2>1, <2>2, <2>3, <2>4 DEF ExecTypes, X!TypeOK
<1>2. X!FrozenRunsOnlyNarrow
  BY <1>0, Told DEF ReadingInv, X!FrozenRunsOnlyNarrow
<1>3. X!FrozenSpendFitsTheBudget
  BY <1>0, Told DEF SpendInv, X!FrozenSpendFitsTheBudget
<1> QED BY <1>1, <1>2, <1>3, Selected DEF FrozenInputsBind

(***************************************************************************)
(* FrozenInputsBind (execution snapshots, AgentExecutor.execute): whatever *)
(* is edited meanwhile, a frozen run runs its captured agent with no more  *)
(* than it captured and what was allowed during the execution, no result   *)
(* goes beyond the captured budget, and API and worker select alike; for   *)
(* any agents, levels, costs and number of edits and executions.           *)
(***************************************************************************)
THEOREM FrozenInputsBindAlways == MCSpec => []FrozenInputsBind
<1>1. MCInit => ExecInv
  BY ExecInit DEF MCInit
<1>2. ASSUME ExecInv, [MCNext]_MCvars PROVE ExecInv'
  <2>1. [X!Next]_executed BY <1>2 DEF MCNext, MCvars
  <2> QED BY <1>2, <2>1, ExecNext
<1> QED BY <1>1, <1>2, ExecSafe, PTL DEF MCSpec

-----------------------------------------------------------------------------
(***************************************************************************)
(* Phases. A reordering has a goal, a bijection onto 0..n-1, and a base o  *)
(* above all goals and old positions: every phase is at its goal, or at    *)
(* its old position, or waits at o plus its goal. Dependencies are well    *)
(* founded. What a run knows of a phase is of a version not ahead of it.   *)
(***************************************************************************)
Existing(ph) == {p \in Phase : ph[p].exists}
Places(ph) == 0..(Cardinality(Existing(ph)) - 1)

Bijective(ph, goal) ==
  /\ goal \in [Existing(ph) -> Places(ph)]
  /\ \A p, q \in Existing(ph) : p # q => goal[p] # goal[q]
  /\ \A n \in Places(ph) : \E p \in Existing(ph) : goal[p] = n

Fits(ph, wr, goal, o) ==
  /\ \A s \in wr.home :
       s[1] \in Existing(ph) /\ s[2] = goal[s[1]] /\ ph[s[1]].status = "DRAFT"
  /\ \A s \in wr.aside : s[2] = o + goal[s[1]] /\ <<s[1], goal[s[1]]>> \in wr.home
  /\ \A p \in Existing(ph) :
       /\ goal[p] < o
       /\ \/ <<p, goal[p]>> \notin wr.home /\ ph[p].position = goal[p]
          \/ /\ <<p, goal[p]>> \in wr.home /\ <<p, o + goal[p]>> \in wr.aside
             /\ ph[p].position < o
          \/ /\ <<p, goal[p]>> \in wr.home /\ <<p, o + goal[p]>> \notin wr.aside
             /\ ph[p].position = o + goal[p]

Ordered(ph, wr) ==
  \E goal \in [Existing(ph) -> Places(ph)], o \in Nat :
    Bijective(ph, goal) /\ Fits(ph, wr, goal, o)

Distinct(ph) == \A p, q \in Existing(ph) : p # q => ph[p].position # ph[q].position

PlaceInv == Ordered(phase, writing) /\ Distinct(phase)

Founded(g, nodes) ==
  \A C \in SUBSET nodes : C # {} => \E p \in C : g[p] \cap C = {}

DepsInv ==
  /\ \A p \in Phase \ Phases : deps[p] = {}
  /\ Founded(deps, Phases)

Fresh(p) == ~phase[p].exists /\ phase[p].ver = 0

Knows(s) ==
  /\ s.phase = NoPhase => s = NoScope
  /\ s.phase # NoPhase =>
       /\ ~Fresh(s.phase)
       /\ s.phase \in Phases =>
            /\ s.ver <= phase[s.phase].ver
            /\ s.ver = phase[s.phase].ver => s.content = phase[s.phase].content

RunInv ==
  \A r \in Run :
    /\ run[r].status = "none" => run[r].stage = "none" /\ ~run[r].frozen
    /\ Knows(run[r].snapshot) /\ Knows(run[r].scope)

PlanInv ==
  /\ TypeOK /\ PlaceInv /\ DepsInv /\ RunInv
  /\ PrerequisitesStayAccepted /\ LivePlansStayCurrent /\ ChildrenFollowTheContract

LEMMA OneLess ==
  ASSUME NEW S, IsFiniteSet(S), NEW x \in S
  PROVE  IsFiniteSet(S \ {x}) /\ Cardinality(S \ {x}) = Cardinality(S) - 1
BY FS_RemoveElement

LEMMA OneMore ==
  ASSUME NEW S, IsFiniteSet(S), NEW x, x \notin S
  PROVE  IsFiniteSet(S \cup {x}) /\ Cardinality(S \cup {x}) = Cardinality(S) + 1
BY FS_AddElement

-----------------------------------------------------------------------------
(***************************************************************************)
(* What validatePhaseDependencies decides. walk is a recursive function:   *)
(* that one exists is proved with its least solution, the intersection of  *)
(* all sets closed under the equation.                                     *)
(***************************************************************************)
Turn(g, nodes, walk) ==
  [active \in SUBSET nodes |->
     {id \in nodes : \/ id \in active
                     \/ \E target \in g[id] : target \in walk[active \cup {id}]}]

Closes(g, S, id, active) ==
  id \in active \/ \E target \in g[id] : <<target, active \cup {id}>> \in S

Closed(g, nodes, S) ==
  \A id \in nodes, active \in SUBSET nodes :
    Closes(g, S, id, active) => <<id, active>> \in S

LEMMA WalkExists ==
  ASSUME NEW nodes, NEW g, \A id \in nodes : g[id] \subseteq nodes
  PROVE  \E walk : walk = Turn(g, nodes, walk)
<1> DEFINE D == nodes \X (SUBSET nodes)
           L == {x \in D : \A S \in SUBSET D : Closed(g, nodes, S) => x \in S}
           w == [active \in SUBSET nodes |-> {id \in nodes : <<id, active>> \in L}]
<1>1. ASSUME NEW id \in nodes, NEW active \in SUBSET nodes, Closes(g, L, id, active)
      PROVE  <<id, active>> \in L
  <2>1. ASSUME NEW S \in SUBSET D, Closed(g, nodes, S) PROVE <<id, active>> \in S
    <3>1. L \subseteq S BY <2>1
    <3>2. Closes(g, S, id, active) BY <1>1, <3>1 DEF Closes
    <3> QED BY <2>1, <3>2 DEF Closed
  <2>2. <<id, active>> \in D OBVIOUS
  <2> QED BY <2>1, <2>2
<1>2. ASSUME NEW id \in nodes, NEW active \in SUBSET nodes, <<id, active>> \in L
      PROVE  Closes(g, L, id, active)
  <2> SUFFICES ASSUME ~Closes(g, L, id, active) PROVE FALSE OBVIOUS
  <2> DEFINE S == L \ {<<id, active>>}
  <2>1. Closed(g, nodes, S)
    <3> SUFFICES ASSUME NEW i \in nodes, NEW a \in SUBSET nodes, Closes(g, S, i, a)
                 PROVE  <<i, a>> \in S
      BY DEF Closed
    <3>1. Closes(g, L, i, a) BY DEF Closes
    <3>2. <<i, a>> \in L BY <1>1, <3>1
    <3>3. i # id \/ a # active BY <3>1
    <3>4. <<i, a>> # <<id, active>> BY <3>3
    <3> QED BY <3>2, <3>4
  <2>2. S \in SUBSET D OBVIOUS
  <2>3. <<id, active>> \in S BY <1>2, <2>1, <2>2
  <2> QED BY <2>3
<1> HIDE DEF L
<1>3. w = Turn(g, nodes, w)
  <2>1. ASSUME NEW active \in SUBSET nodes, NEW id \in nodes
        PROVE  <<id, active>> \in L <=>
                 \/ id \in active
                 \/ \E target \in g[id] : target \in w[active \cup {id}]
    <3>1. active \cup {id} \in SUBSET nodes OBVIOUS
    <3>2. w[active \cup {id}] = {t \in nodes : <<t, active \cup {id}>> \in L} BY <3>1
    <3>3. g[id] \subseteq nodes OBVIOUS
    <3>4. (\E target \in g[id] : target \in w[active \cup {id}])
            <=> \E target \in g[id] : <<target, active \cup {id}>> \in L
      BY <3>2, <3>3
    <3>5. <<id, active>> \in L <=> Closes(g, L, id, active) BY <1>1, <1>2
    <3> QED BY <3>4, <3>5 DEF Closes
  <2>2. ASSUME NEW active \in SUBSET nodes
        PROVE  {id \in nodes : <<id, active>> \in L}
                 = {id \in nodes : \/ id \in active
                                   \/ \E target \in g[id] : target \in w[active \cup {id}]}
    BY <2>1
  <2> QED BY <2>2 DEF Turn
<1> QED BY <1>3

(***************************************************************************)
(* validatePhaseDependencies lets no set of phases through in which each   *)
(* depends on another of the set: from such a set every path can go on     *)
(* until it comes upon itself.                                             *)
(***************************************************************************)
LEMMA NoCycleIsFounded ==
  ASSUME NEW nodes, NEW g, \A id \in nodes : g[id] \subseteq nodes,
         IsFiniteSet(nodes), ~cycle(g, nodes)
  PROVE  Founded(g, nodes)
<1> DEFINE w == CHOOSE walk : walk = Turn(g, nodes, walk)
<1>1. w = Turn(g, nodes, w) BY WalkExists
<1>2. w[{}] = {} BY DEF cycle, Turn
<1> HIDE DEF w
<1> SUFFICES ASSUME NEW C \in SUBSET nodes, C # {}, \A p \in C : g[p] \cap C # {}
             PROVE  FALSE
  BY DEF Founded
<1> DEFINE Missing(a) == Cardinality(nodes \ a)
           Bad == {k \in Nat : \E a \in SUBSET nodes, id \in C : id \notin w[a] /\ k = Missing(a)}
<1>3. \A a \in SUBSET nodes : IsFiniteSet(nodes \ a) /\ Missing(a) \in Nat
  BY FS_Difference, FS_CardinalityType
<1>4. ASSUME NEW a \in SUBSET nodes, NEW id \in C, id \notin w[a]
      PROVE  \E k \in Bad : k < Missing(a)
  <2>1. w[a] = {i \in nodes : i \in a \/ \E t \in g[i] : t \in w[a \cup {i}]}
    BY <1>1 DEF Turn
  <2>2. id \notin a /\ \A t \in g[id] : t \notin w[a \cup {id}] BY <1>4, <2>1
  <2>3. PICK t \in C : t \in g[id] OBVIOUS
  <2>4. a \cup {id} \in SUBSET nodes /\ t \notin w[a \cup {id}] BY <2>2, <2>3
  <2>5. nodes \ (a \cup {id}) = (nodes \ a) \ {id} /\ id \in nodes \ a BY <2>2
  <2>6. Missing(a \cup {id}) = Missing(a) - 1
    <3>1. IsFiniteSet(nodes \ a) BY <1>3
    <3>2. Cardinality((nodes \ a) \ {id}) = Cardinality(nodes \ a) - 1
      BY ONLY <2>5, <3>1, OneLess
    <3> QED BY <2>5, <3>2
  <2>7. Missing(a) \in Nat /\ Missing(a \cup {id}) \in Nat BY <1>3, <2>4
  <2>8. Missing(a \cup {id}) \in Bad BY <2>4, <2>7
  <2> HIDE DEF Bad, Missing
  <2> QED BY <2>6, <2>7, <2>8
<1>5. PICK id \in C : TRUE OBVIOUS
<1>6. {} \in SUBSET nodes /\ id \notin w[{}] BY <1>2
<1>7. Bad # {} BY <1>4, <1>6
<1>8. PICK m \in Bad : \A n \in Bad : m <= n
  <2>1. Bad \in SUBSET Nat OBVIOUS
  <2> HIDE DEF Bad
  <2> QED BY <1>7, <2>1, Least
<1>9. \E k \in Bad : k < m BY <1>4
<1>10. m \in Nat /\ \A k \in Bad : k \in Nat OBVIOUS
<1> HIDE DEF Bad
<1>11. PICK k \in Bad : k < m BY <1>9
<1>12. k \in Nat /\ m <= k BY <1>8, <1>10
<1> QED BY <1>10, <1>11, <1>12

(***************************************************************************)
(* Phases that are founded can be worked off: the largest set that can be  *)
(* ranked is all of them, for of the rest one depends on ranked ones only. *)
(***************************************************************************)
Ranks(g, S, rank) ==
  /\ rank \in [S -> 1..Cardinality(S)]
  /\ \A p \in S : \A q \in g[p] : q \in S /\ rank[q] < rank[p]

LEMMA FoundedIsRanked ==
  ASSUME NEW nodes, NEW g, IsFiniteSet(nodes), Founded(g, nodes),
         \A p \in nodes : g[p] \subseteq nodes
  PROVE  \E rank : Ranks(g, nodes, rank)
<1> DEFINE Rest == {k \in Nat : \E S \in SUBSET nodes :
                      k = Cardinality(nodes \ S) /\ \E rank : Ranks(g, S, rank)}
<1>1. \A S \in SUBSET nodes : /\ IsFiniteSet(S) /\ Cardinality(S) \in Nat
                              /\ Cardinality(nodes \ S) \in Nat /\ IsFiniteSet(nodes \ S)
  BY FS_Difference, FS_CardinalityType, FS_Subset
<1>2. Rest # {}
  <2> DEFINE none == [p \in {} |-> 1]
  <2>1. Ranks(g, {}, none) BY DEF Ranks
  <2>2. {} \in SUBSET nodes OBVIOUS
  <2>3. Cardinality(nodes \ {}) \in Nat BY <1>1, <2>2
  <2>4. Cardinality(nodes \ {}) \in Rest BY <2>1, <2>2, <2>3
  <2> QED BY <2>4
<1>3. PICK m \in Rest : \A n \in Rest : m <= n
  <2>1. Rest \in SUBSET Nat OBVIOUS
  <2> HIDE DEF Rest
  <2> QED BY <1>2, <2>1, Least
<1>4. PICK S \in SUBSET nodes : m = Cardinality(nodes \ S) /\ \E rank : Ranks(g, S, rank)
  OBVIOUS
<1>5. PICK rank : Ranks(g, S, rank) BY <1>4
<1>6. CASE S = nodes BY <1>5, <1>6
<1>7. CASE S # nodes
  <2>1. PICK p \in nodes \ S : g[p] \cap (nodes \ S) = {} BY <1>7 DEF Founded
  <2>2. g[p] \subseteq S BY <2>1
  <2> DEFINE T == S \cup {p}
             c == Cardinality(S)
             more == [q \in T |-> IF q = p THEN c + 1 ELSE rank[q]]
  <2>3. T \in SUBSET nodes /\ Cardinality(T) = c + 1 /\ c \in Nat
    BY <1>1, <2>1, FS_AddElement
  <2>4. rank \in [S -> 1..c] /\ \A o \in S : \A q \in g[o] : q \in S /\ rank[q] < rank[o]
    BY <1>5 DEF Ranks
  <2> HIDE DEF c
  <2>5. more \in [T -> 1..(c + 1)]
    <3> SUFFICES ASSUME NEW q \in T
                 PROVE  (IF q = p THEN c + 1 ELSE rank[q]) \in 1..(c + 1)
      OBVIOUS
    <3>1. CASE q = p BY <2>3, <3>1
    <3>2. CASE q # p
      <4>1. rank[q] \in 1..c BY <2>4, <3>2
      <4> QED BY <2>3, <3>2, <4>1
    <3> QED BY <3>1, <3>2
  <2>6. ASSUME NEW o \in T, NEW q \in g[o] PROVE q \in T /\ more[q] < more[o]
    <3>1. q \in S /\ q # p BY <2>1, <2>2, <2>4
    <3>2. more[q] = rank[q] /\ rank[q] \in 1..c BY <2>4, <3>1
    <3>3. CASE o = p BY <2>3, <3>1, <3>2, <3>3
    <3>4. CASE o # p BY <2>4, <3>1, <3>2, <3>4
    <3> QED BY <3>3, <3>4
  <2>7. Ranks(g, T, more) BY <2>3, <2>5, <2>6 DEF Ranks
  <2>8. nodes \ T = (nodes \ S) \ {p} /\ p \in nodes \ S OBVIOUS
  <2>9. Cardinality(nodes \ T) = Cardinality(nodes \ S) - 1
    <3>1. IsFiniteSet(nodes \ S) BY <1>1
    <3>2. Cardinality((nodes \ S) \ {p}) = Cardinality(nodes \ S) - 1
      BY ONLY <2>8, <3>1, OneLess
    <3> QED BY <2>8, <3>2
  <2>10. Cardinality(nodes \ T) \in Nat /\ m \in Nat BY <1>1, <2>3
  <2>11. Cardinality(nodes \ T) \in Rest BY <2>3, <2>7, <2>10
  <2> HIDE DEF Rest
  <2>12. m <= Cardinality(nodes \ T) BY <1>3, <2>11
  <2> QED BY <1>4, <2>9, <2>10, <2>12
<1> QED BY <1>6, <1>7

-----------------------------------------------------------------------------
(***************************************************************************)
(* Types, and what a writer finds that holds the lock.                     *)
(***************************************************************************)
PhaseRow == [exists : BOOLEAN, position : Nat, status : PhaseStatus, ver : Nat,
             content : Nat]
RunRow == [status : {"none", "active", "ended"}, task : Task, frozen : BOOLEAN,
           snapshot : Scope, stage : Stage, scope : Scope]
ChildRow == [phase : Phase \cup {NoPhase}, saw : Nat, was : Nat]
Statements == SUBSET (Phases \X Nat)

LEMMA PlanTypes ==
  TypeOK <=> /\ phase \in [Phase -> PhaseRow] /\ deps \in [Phase -> SUBSET Phases]
             /\ link \in [Task -> Phases \cup {NoPhase}] /\ run \in [Run -> RunRow]
             /\ children \in [Run -> SUBSET ChildRow]
             /\ writing \in [aside : Statements, home : Statements] /\ now \in Nat
BY DEF TypeOK, PhaseRow, RunRow, ChildRow, Statements

LEMMA Counted ==
  ASSUME NEW ph
  PROVE  /\ Existing(ph) \subseteq Phase /\ NoPhase \notin Existing(ph)
         /\ IsFiniteSet(Existing(ph)) /\ Cardinality(Existing(ph)) \in Nat
         /\ Places(ph) \subseteq Nat
<1>1. Existing(ph) \subseteq Phase BY DEF Existing
<1>2. IsFiniteSet(Existing(ph)) BY <1>1, PlanningAssumption, FS_Subset
<1>3. Cardinality(Existing(ph)) \in Nat BY <1>2, FS_CardinalityType
<1> QED BY <1>1, <1>2, <1>3, PlanningAssumption DEF Places

LEMMA PhasesExist == Phases = Existing(phase)
BY DEF Phases, Existing

\* Whoever finds nothing being written finds the phases at 0..n-1, and leaves
\* an order if it leaves them so.
InPlace(ph) ==
  /\ \A p \in Existing(ph) : ph[p].position \in Places(ph)
  /\ \A p, q \in Existing(ph) : p # q => ph[p].position # ph[q].position
  /\ \A n \in Places(ph) : \E p \in Existing(ph) : ph[p].position = n

NoWriting == [aside |-> {}, home |-> {}]

LEMMA FoundInPlace ==
  ASSUME NEW ph, NEW wr \in [aside : SUBSET (Phase \X Nat), home : SUBSET (Phase \X Nat)],
         Ordered(ph, wr), wr.home = {}
  PROVE  wr = NoWriting /\ InPlace(ph)
<1>1. PICK goal \in [Existing(ph) -> Places(ph)], o \in Nat :
        Bijective(ph, goal) /\ Fits(ph, wr, goal, o)
  BY DEF Ordered
<1>2. wr.aside = {} BY <1>1 DEF Fits
<1>3. \A p \in Existing(ph) : ph[p].position = goal[p] BY <1>1 DEF Fits
<1> QED BY <1>1, <1>2, <1>3 DEF Bijective, InPlace, NoWriting

LEMMA LeftInPlace ==
  ASSUME NEW ph, InPlace(ph)
  PROVE  Ordered(ph, NoWriting) /\ Distinct(ph)
<1> DEFINE goal == [p \in Existing(ph) |-> ph[p].position]
           n == Cardinality(Existing(ph))
<1>1. goal \in [Existing(ph) -> Places(ph)] BY DEF InPlace
<1>2. Bijective(ph, goal) BY <1>1 DEF Bijective, InPlace
<1>3. n \in Nat BY Counted
<1>4. ASSUME NEW p \in Existing(ph) PROVE goal[p] < n
  <2>1. goal[p] \in Places(ph) BY <1>1
  <2> QED BY <1>3, <2>1 DEF Places
<1>5. Fits(ph, NoWriting, goal, n) BY <1>4 DEF Fits, NoWriting
<1> QED BY <1>1, <1>2, <1>3, <1>5 DEF Ordered, Distinct, InPlace

LEMMA Offset ==
  ASSUME NEW ph \in [Phase -> PhaseRow], NEW m \in Nat,
         \E p \in Existing(ph) : ph[p].position = m,
         \A p \in Existing(ph) : ph[p].position <= m
  PROVE  offset(ph) = m + 1
<1> DEFINE taken == {ph[p].position : p \in {q \in Phase : ph[q].exists}}
           top == CHOOSE k \in taken : \A n \in taken : n <= k
<1>1. m \in taken /\ \A n \in taken : n <= m BY DEF Existing
<1>2. taken \subseteq Nat BY DEF PhaseRow
<1>3. offset(ph) = 1 + top BY <1>1 DEF offset
<1> HIDE DEF taken
<1>4. top \in taken /\ \A n \in taken : n <= top BY <1>1
<1> HIDE DEF top
<1>5. top \in Nat /\ top <= m /\ m <= top BY <1>1, <1>2, <1>4
<1>6. top = m BY <1>5
<1> QED BY <1>3, <1>6

\* A transaction that begins a reordering, from its phases and their goal on.
LEMMA Begins ==
  ASSUME NEW ph, NEW place \in [Existing(ph) -> Places(ph)], NEW o \in Nat,
         Bijective(ph, place), Existing(ph) # {} => offset(ph) = o,
         \A p \in Existing(ph) :
           /\ place[p] < o /\ ph[p].position < o
           /\ ph[p].position # place[p] => ph[p].status = "DRAFT"
  PROVE  Ordered(ph, writeOrder(place, ph))
<1> DEFINE wr == writeOrder(place, ph)
<1>1. wr.home = {<<p, place[p]>> : p \in {q \in Existing(ph) : ph[q].position # place[q]}}
  BY DEF writeOrder, moves
<1>2. wr.aside = {<<c[1], offset(ph) + c[2]>> : c \in wr.home} BY DEF writeOrder
<1> HIDE DEF wr
<1>3. \A s \in wr.home : /\ s[1] \in Existing(ph) /\ s[2] = place[s[1]]
                         /\ s = <<s[1], place[s[1]]>> /\ ph[s[1]].status = "DRAFT"
  BY <1>1
<1>4. wr.aside = {<<c[1], o + c[2]>> : c \in wr.home} BY <1>2, <1>3
<1>5. \A s \in wr.aside : s[2] = o + place[s[1]] /\ <<s[1], place[s[1]]>> \in wr.home
  BY <1>3, <1>4
<1>6. ASSUME NEW p \in Existing(ph)
      PROVE  \/ <<p, place[p]>> \notin wr.home /\ ph[p].position = place[p]
             \/ <<p, place[p]>> \in wr.home /\ <<p, o + place[p]>> \in wr.aside
  <2>1. CASE ph[p].position = place[p] BY <1>1, <2>1
  <2>2. CASE ph[p].position # place[p]
    <3>1. <<p, place[p]>> \in wr.home BY <1>1, <2>2
    <3> QED BY <1>4, <3>1
  <2> QED BY <2>1, <2>2
<1>7. Fits(ph, wr, place, o) BY <1>3, <1>5, <1>6 DEF Fits
<1> QED BY <1>7 DEF Ordered, wr

\* A statement moves one phase, aside or to its goal.
LEMMA MovesAside ==
  ASSUME NEW ph \in [Phase -> PhaseRow], NEW wr, Ordered(ph, wr), Distinct(ph),
         NEW s \in wr.aside, NEW x \in PhaseRow, x.exists, x.position = s[2],
         x.status = ph[s[1]].status, wr.aside \subseteq Phase \X Nat,
         NEW wr2, wr2.home = wr.home, wr2.aside = wr.aside \ {s},
         NEW ph2, ph2 = [ph EXCEPT ![s[1]] = x]
  PROVE  Ordered(ph2, wr2) /\ Distinct(ph2)
<1>1. PICK goal \in [Existing(ph) -> Places(ph)], o \in Nat :
        Bijective(ph, goal) /\ Fits(ph, wr, goal, o)
  BY DEF Ordered
<1> DEFINE p == s[1]
<1>2. p \in Existing(ph) /\ s = <<p, o + goal[p]>> /\ <<p, goal[p]>> \in wr.home
  BY <1>1 DEF Fits
<1>3. \A q \in Phase : ph2[q] = IF q = p THEN x ELSE ph[q] BY <1>2, Counted
<1>4. Existing(ph2) = Existing(ph) BY <1>2, <1>3 DEF Existing
<1>5. Places(ph2) = Places(ph) /\ Bijective(ph2, goal) BY <1>1, <1>4 DEF Places, Bijective
<1>6. ASSUME NEW h \in wr.home PROVE ph2[h[1]].status = "DRAFT"
  <2>1. h[1] \in Phase /\ ph[h[1]].status = "DRAFT" BY <1>1, Counted DEF Fits
  <2> QED BY <1>3, <2>1
<1>7. \A q \in Existing(ph) : q \in Phase /\ goal[q] \in Nat BY <1>1, Counted
<1>8. Fits(ph2, wr2, goal, o)
  <2>1. ASSUME NEW q \in Existing(ph)
        PROVE  \/ <<q, goal[q]>> \notin wr.home /\ ph2[q].position = goal[q]
               \/ /\ <<q, goal[q]>> \in wr.home /\ <<q, o + goal[q]>> \in wr2.aside
                  /\ ph2[q].position < o
               \/ /\ <<q, goal[q]>> \in wr.home /\ <<q, o + goal[q]>> \notin wr2.aside
                  /\ ph2[q].position = o + goal[q]
    <3>1. CASE q = p BY <1>2, <1>3, <1>7, <3>1
    <3>2. CASE q # p
      <4>1. ph2[q] = ph[q] /\ <<q, o + goal[q]>> # s BY <1>2, <1>3, <1>7, <3>2
      <4> QED BY <1>1, <4>1 DEF Fits
    <3> QED BY <3>1, <3>2
  <2> QED BY <1>1, <1>4, <1>6, <2>1 DEF Fits
<1>9. ASSUME NEW q \in Existing(ph), q # p PROVE ph[q].position # o + goal[p]
  <2>1. goal[q] # goal[p] /\ goal[q] \in Nat /\ goal[p] \in Nat
    BY <1>1, <1>2, <1>7, <1>9 DEF Bijective
  <2>2. ph[q].position < o \/ ph[q].position = o + goal[q] BY <1>1 DEF Fits
  <2>3. ph[q].position \in Nat BY <1>7 DEF PhaseRow
  <2> QED BY <2>1, <2>2, <2>3
<1>10. Distinct(ph2) BY <1>2, <1>3, <1>4, <1>7, <1>9 DEF Distinct
<1> QED BY <1>1, <1>4, <1>5, <1>8, <1>10 DEF Ordered

LEMMA MovesHome ==
  ASSUME NEW ph \in [Phase -> PhaseRow], NEW wr, Ordered(ph, wr), Distinct(ph),
         NEW s \in wr.home, wr.aside = {}, NEW x \in PhaseRow, x.exists,
         x.position = s[2], x.status = ph[s[1]].status, wr.home \subseteq Phase \X Nat,
         NEW wr2, wr2.home = wr.home \ {s}, wr2.aside = {},
         NEW ph2, ph2 = [ph EXCEPT ![s[1]] = x]
  PROVE  Ordered(ph2, wr2) /\ Distinct(ph2)
<1>1. PICK goal \in [Existing(ph) -> Places(ph)], o \in Nat :
        Bijective(ph, goal) /\ Fits(ph, wr, goal, o)
  BY DEF Ordered
<1> DEFINE p == s[1]
<1>2. p \in Existing(ph) /\ s = <<p, goal[p]>> BY <1>1 DEF Fits
<1>3. \A q \in Phase : ph2[q] = IF q = p THEN x ELSE ph[q] BY <1>2, Counted
<1>4. Existing(ph2) = Existing(ph) BY <1>2, <1>3 DEF Existing
<1>5. Places(ph2) = Places(ph) /\ Bijective(ph2, goal) BY <1>1, <1>4 DEF Places, Bijective
<1>6. ASSUME NEW h \in wr.home PROVE ph2[h[1]].status = "DRAFT"
  <2>1. h[1] \in Phase /\ ph[h[1]].status = "DRAFT" BY <1>1, Counted DEF Fits
  <2> QED BY <1>3, <2>1
<1>7. \A q \in Existing(ph) : q \in Phase /\ goal[q] \in Nat BY <1>1, Counted
<1>8. Fits(ph2, wr2, goal, o)
  <2>1. ASSUME NEW q \in Existing(ph)
        PROVE  \/ <<q, goal[q]>> \notin wr2.home /\ ph2[q].position = goal[q]
               \/ <<q, goal[q]>> \in wr2.home /\ ph2[q].position = o + goal[q]
    <3>1. CASE q = p BY <1>2, <1>3, <1>7, <3>1
    <3>2. CASE q # p
      <4>1. ph2[q] = ph[q] /\ <<q, goal[q]>> # s BY <1>2, <1>3, <1>7, <3>2
      <4> QED BY <1>1, <4>1 DEF Fits
    <3> QED BY <3>1, <3>2
  <2> QED BY <1>1, <1>4, <1>6, <2>1 DEF Fits
<1>9. ASSUME NEW q \in Existing(ph), q # p PROVE ph[q].position # goal[p]
  <2>1. goal[q] # goal[p] /\ goal[q] \in Nat /\ goal[p] \in Nat /\ goal[p] < o
    BY <1>1, <1>2, <1>7, <1>9 DEF Bijective, Fits
  <2>2. ph[q].position = goal[q] \/ ph[q].position = o + goal[q] BY <1>1 DEF Fits
  <2> QED BY <1>1, <2>1, <2>2
<1>10. Distinct(ph2) BY <1>2, <1>3, <1>4, <1>7, <1>9 DEF Distinct
<1> QED BY <1>1, <1>4, <1>5, <1>8, <1>10 DEF Ordered

-----------------------------------------------------------------------------
(***************************************************************************)
(* What the actions leave alone.                                           *)
(***************************************************************************)
LEMMA PhasesKept ==
  ASSUME PlanInv, UNCHANGED <<phase, deps, writing>>
  PROVE  PlaceInv' /\ DepsInv' /\ PrerequisitesStayAccepted' /\ Phases' = Phases
<1>1. Phases' = Phases BY DEF Phases
<1>2. PlaceInv' BY DEF PlanInv, PlaceInv
<1>3. DepsInv' BY <1>1 DEF PlanInv, DepsInv, Founded
<1>4. PrerequisitesStayAccepted' BY <1>1 DEF PlanInv, PrerequisitesStayAccepted
<1> QED BY <1>1, <1>2, <1>3, <1>4

\* Every write of a phase raises its version, a deleted one is never fresh.
Ages(q) ==
  \/ Fresh(q) \/ phase'[q] = phase[q]
  \/ ~phase'[q].exists /\ phase'[q].ver # 0
  \/ phase[q].exists /\ phase'[q].exists /\ phase'[q].ver > phase[q].ver

LEMMA KnowledgeKept ==
  ASSUME TypeOK, TypeOK', RunInv, UNCHANGED run, \A q \in Phase : Ages(q)
  PROVE  RunInv'
<1> SUFFICES ASSUME NEW r \in Run, NEW s \in {run[r].snapshot, run[r].scope}
             PROVE  Knows(s)'
  BY DEF RunInv
<1>1. Knows(s) /\ s \in Scope BY PlanTypes DEF RunInv, RunRow
<1>2. CASE s.phase = NoPhase BY <1>1, <1>2 DEF Knows
<1>3. CASE s.phase # NoPhase
  <2> DEFINE q == s.phase
  <2>1. q \in Phase /\ ~Fresh(q) /\ s.ver \in Nat BY <1>1, <1>3 DEF Knows, Scope
  <2>8. phase \in [Phase -> PhaseRow] /\ phase' \in [Phase -> PhaseRow]
    BY DEF TypeOK, PhaseRow
  <2>2. phase[q] \in PhaseRow /\ phase'[q] \in PhaseRow BY <2>1, <2>8
  <2>3. phase[q].ver \in Nat /\ phase'[q].ver \in Nat BY <2>2 DEF PhaseRow
  <2>4. Ages(q) BY <2>1
  <2>5. CASE phase'[q] = phase[q]
    BY <1>1, <1>3, <2>1, <2>5 DEF Knows, Fresh, Phases
  <2>6. CASE ~phase'[q].exists /\ phase'[q].ver # 0
    BY <1>3, <2>6 DEF Knows, Fresh, Phases
  <2>7. CASE phase[q].exists /\ phase'[q].exists /\ phase'[q].ver > phase[q].ver
    <3>1. q \in Phases BY <2>1, <2>7 DEF Phases
    <3>2. s.ver <= phase[q].ver BY <1>1, <1>3, <3>1 DEF Knows
    <3>3. s.ver <= phase'[q].ver /\ s.ver # phase'[q].ver BY <2>1, <2>3, <2>7, <3>2
    <3>4. ~Fresh(q)' BY <2>7 DEF Fresh
    <3> QED BY <1>3, <3>3, <3>4 DEF Knows
  <2> QED BY <2>1, <2>4, <2>5, <2>6, <2>7 DEF Ages
<1> QED BY <1>2, <1>3

\* What a live run relies upon is left alone.
LEMMA LiveKept ==
  ASSUME PlanInv, TypeOK', UNCHANGED run,
         \A r \in ActiveRuns :
           LET t == run[r].task
           IN /\ link'[t] = link[t]
              /\ link[t] # NoPhase /\ phase[link[t]].status = "ACTIVE" =>
                   phase'[link[t]] = phase[link[t]]
  PROVE  LivePlansStayCurrent'
<1>1. ActiveRuns' = ActiveRuns BY DEF ActiveRuns
<1> SUFFICES ASSUME NEW r \in ActiveRuns,
                    NEW s \in (IF run[r].frozen THEN {run[r].snapshot} ELSE {})
                                \cup (IF run[r].stage # "none" THEN {run[r].scope} ELSE {})
             PROVE  /\ link'[run[r].task] = s.phase
                    /\ s.phase # NoPhase => /\ s.phase \in Phases'
                                            /\ phase'[s.phase].status = "ACTIVE"
                                            /\ phase'[s.phase].ver = s.ver
  BY <1>1 DEF LivePlansStayCurrent
<1>2. /\ link[run[r].task] = s.phase
      /\ s.phase # NoPhase => /\ s.phase \in Phases
                              /\ phase[s.phase].status = "ACTIVE"
                              /\ phase[s.phase].ver = s.ver
  BY DEF PlanInv, LivePlansStayCurrent
<1>3. link'[run[r].task] = s.phase BY <1>2
<1>4. ASSUME s.phase # NoPhase PROVE phase'[s.phase] = phase[s.phase] BY <1>2, <1>4
<1> QED BY <1>2, <1>3, <1>4 DEF Phases

(***************************************************************************)
(* Runs and their planners.                                                *)
(***************************************************************************)
LEMMA ContextIsKnown ==
  ASSUME TypeOK, NEW t \in Task
  PROVE  /\ context(t) \in Scope /\ Knows(context(t)) /\ context(t).phase = link[t]
         /\ link[t] # NoPhase => /\ link[t] \in Phases
                                 /\ context(t).ver = phase[link[t]].ver
<1>1. link[t] \in Phases \cup {NoPhase} BY PlanTypes
<1>2. CASE link[t] = NoPhase BY <1>2 DEF context, NoScope, Scope, Knows
<1>3. CASE link[t] # NoPhase
  <2>1. link[t] \in Phase /\ phase[link[t]].exists BY <1>1, <1>3 DEF Phases
  <2>2. phase[link[t]] \in PhaseRow BY <2>1, PlanTypes
  <2>3. phase[link[t]].ver \in Nat /\ phase[link[t]].content \in Nat BY <2>2 DEF PhaseRow
  <2>4. context(t) = [phase |-> link[t], ver |-> phase[link[t]].ver,
                      content |-> phase[link[t]].content]
    BY <1>3 DEF context
  <2>5. context(t) \in Scope BY <2>1, <2>3, <2>4 DEF Scope
  <2>6. Knows(context(t)) BY <1>3, <2>1, <2>3, <2>4 DEF Knows, Fresh
  <2> QED BY <1>1, <1>3, <2>4, <2>5, <2>6
<1> QED BY <1>2, <1>3

\* A run's own step, judged by what its row becomes.
LEMMA RunWritten ==
  ASSUME PlanInv, NEW r \in Run, NEW x \in RunRow, run' = [run EXCEPT ![r] = x],
         UNCHANGED <<phase, deps, link, writing, now>>,
         children' \in [Run -> SUBSET ChildRow], ChildrenFollowTheContract',
         x.status = "none" => x.stage = "none" /\ ~x.frozen,
         Knows(x.snapshot), Knows(x.scope),
         x.status = "active" =>
           \A s \in (IF x.frozen THEN {x.snapshot} ELSE {})
                      \cup (IF x.stage # "none" THEN {x.scope} ELSE {}) :
             /\ link[x.task] = s.phase
             /\ s.phase # NoPhase => /\ s.phase \in Phases
                                     /\ phase[s.phase].status = "ACTIVE"
                                     /\ phase[s.phase].ver = s.ver
  PROVE  PlanInv'
<1>1. /\ phase \in [Phase -> PhaseRow] /\ deps \in [Phase -> SUBSET Phases]
      /\ link \in [Task -> Phases \cup {NoPhase}] /\ run \in [Run -> RunRow]
      /\ writing \in [aside : Statements, home : Statements] /\ now \in Nat
  BY PlanTypes DEF PlanInv
<1>2. PlaceInv' /\ DepsInv' /\ PrerequisitesStayAccepted' /\ Phases' = Phases
  BY PhasesKept
<1>3. run' \in [Run -> RunRow] BY <1>1
<1>4. TypeOK' BY <1>1, <1>2, <1>3, PlanTypes DEF TypeOK, PhaseRow, RunRow, ChildRow, Statements
<1>5. \A q \in Run : run'[q] = IF q = r THEN x ELSE run[q] BY <1>1
<1>6. \A s : Knows(s)' <=> Knows(s) BY <1>2 DEF Knows, Fresh
<1>7. RunInv' BY <1>5, <1>6 DEF RunInv, PlanInv
<1>8. LivePlansStayCurrent'
  <2> SUFFICES ASSUME NEW q \in ActiveRuns',
                      NEW s \in (IF run'[q].frozen THEN {run'[q].snapshot} ELSE {})
                                 \cup (IF run'[q].stage # "none" THEN {run'[q].scope} ELSE {})
               PROVE  /\ link'[run'[q].task] = s.phase
                      /\ s.phase # NoPhase => /\ s.phase \in Phases'
                                              /\ phase'[s.phase].status = "ACTIVE"
                                              /\ phase'[s.phase].ver = s.ver
    BY DEF LivePlansStayCurrent
  <2>1. q \in Run /\ run'[q].status = "active" BY DEF ActiveRuns
  <2>2. CASE q = r BY <1>2, <1>5, <2>1, <2>2
  <2>3. CASE q # r
    <3>1. run'[q] = run[q] /\ q \in ActiveRuns BY <1>5, <2>1, <2>3 DEF ActiveRuns
    <3> QED BY <1>2, <3>1 DEF PlanInv, LivePlansStayCurrent
  <2> QED BY <2>2, <2>3
<1> QED BY <1>2, <1>4, <1>7, <1>8 DEF PlanInv, PlaceInv

LEMMA RunStarts ==
  ASSUME PlanInv, NEW r \in Run, NEW t \in Task, StartFrozen(r, t) \/ Start(r, t)
  PROVE  PlanInv'
<1> USE DEF startable
<1>1. run \in [Run -> RunRow] /\ children \in [Run -> SUBSET ChildRow] /\ TypeOK
  BY PlanTypes DEF PlanInv
<1>2. /\ run[r] \in RunRow /\ run[r].stage = "none" /\ ~run[r].frozen
      /\ Knows(run[r].snapshot) /\ Knows(run[r].scope)
  BY <1>1 DEF StartFrozen, Start, PlanInv, RunInv
<1>3. /\ context(t) \in Scope /\ Knows(context(t)) /\ context(t).phase = link[t]
      /\ link[t] # NoPhase => link[t] \in Phases /\ context(t).ver = phase[link[t]].ver
  BY <1>1, ContextIsKnown
<1>4. ChildrenFollowTheContract'
  BY DEF StartFrozen, Start, PlanInv, ChildrenFollowTheContract
<1>5. CASE StartFrozen(r, t)
  <2>1. PICK x : x = [run[r] EXCEPT !.status = "active", !.task = t, !.frozen = TRUE,
                                    !.snapshot = context(t)]
    OBVIOUS
  <2>2. /\ x \in RunRow /\ x.status = "active" /\ x.task = t /\ x.frozen
        /\ x.snapshot = context(t) /\ x.stage = "none" /\ x.scope = run[r].scope
    BY <1>2, <1>3, <2>1 DEF RunRow
  <2>3. /\ run' = [run EXCEPT ![r] = x] /\ hasContext(t)
        /\ UNCHANGED <<phase, deps, link, children, writing, now>>
    BY <1>5, <2>1 DEF StartFrozen
  <2> HIDE DEF PlanInv
  <2>4. \A s \in (IF x.frozen THEN {x.snapshot} ELSE {})
                   \cup (IF x.stage # "none" THEN {x.scope} ELSE {}) : s = context(t)
    BY <2>2
  <2> QED BY <1>1, <1>2, <1>3, <1>4, <2>2, <2>3, <2>4, RunWritten DEF hasContext
<1>6. CASE Start(r, t)
  <2>1. PICK x : x = [run[r] EXCEPT !.status = "active", !.task = t] OBVIOUS
  <2>2. /\ x \in RunRow /\ x.status = "active" /\ x.task = t /\ ~x.frozen
        /\ x.snapshot = run[r].snapshot /\ x.stage = "none" /\ x.scope = run[r].scope
    BY <1>2, <2>1 DEF RunRow
  <2>3. /\ run' = [run EXCEPT ![r] = x]
        /\ UNCHANGED <<phase, deps, link, children, writing, now>>
    BY <1>6, <2>1 DEF Start
  <2> QED BY <1>1, <1>2, <1>4, <2>2, <2>3, RunWritten
<1> QED BY <1>5, <1>6

\* What a live run relies upon, in the form a single run has it.
LEMMA LiveRun ==
  ASSUME PlanInv, NEW r \in ActiveRuns,
         NEW s \in (IF run[r].frozen THEN {run[r].snapshot} ELSE {})
                    \cup (IF run[r].stage # "none" THEN {run[r].scope} ELSE {})
  PROVE  /\ link[run[r].task] = s.phase
         /\ s.phase # NoPhase => /\ s.phase \in Phases
                                 /\ phase[s.phase].status = "ACTIVE"
                                 /\ phase[s.phase].ver = s.ver
BY DEF PlanInv, LivePlansStayCurrent

LEMMA RunPlans ==
  ASSUME PlanInv, NEW r \in Run, Plan(r)
  PROVE  PlanInv'
<1>1. run \in [Run -> RunRow] /\ children \in [Run -> SUBSET ChildRow] /\ TypeOK
  BY PlanTypes DEF PlanInv
<1>2. /\ run[r] \in RunRow /\ r \in ActiveRuns /\ run[r].status = "active"
      /\ Knows(run[r].snapshot) /\ Knows(run[r].scope)
  BY <1>1 DEF Plan, PlanInv, RunInv, ActiveRuns
<1>3. PICK t \in Task : t = run[r].task BY <1>2 DEF RunRow
<1>4. /\ context(t) \in Scope /\ Knows(context(t)) /\ context(t).phase = link[t]
      /\ link[t] # NoPhase => link[t] \in Phases /\ context(t).ver = phase[link[t]].ver
  BY <1>1, ContextIsKnown
<1>5. PICK scope : scope = IF run[r].frozen THEN run[r].snapshot ELSE context(t) OBVIOUS
<1>6. scope \in Scope /\ Knows(scope) BY <1>2, <1>4, <1>5 DEF RunRow
<1>7. PICK x : x = [run[r] EXCEPT !.stage = "planned", !.scope = scope] OBVIOUS
<1>8. /\ x \in RunRow /\ x.status = "active" /\ x.task = t /\ x.frozen = run[r].frozen
      /\ x.snapshot = run[r].snapshot /\ x.stage = "planned" /\ x.scope = scope
  BY <1>2, <1>3, <1>6, <1>7 DEF RunRow, Stage
<1>9. /\ run' = [run EXCEPT ![r] = x]
      /\ ~run[r].frozen => hasContext(t)
      /\ UNCHANGED <<phase, deps, link, children, writing, now>>
  BY <1>3, <1>5, <1>7 DEF Plan
<1>10. ChildrenFollowTheContract' BY <1>9 DEF PlanInv, ChildrenFollowTheContract
<1>11. ASSUME NEW s \in (IF x.frozen THEN {x.snapshot} ELSE {})
                        \cup (IF x.stage # "none" THEN {x.scope} ELSE {})
       PROVE  /\ link[t] = s.phase
              /\ s.phase # NoPhase => /\ s.phase \in Phases
                                      /\ phase[s.phase].status = "ACTIVE"
                                      /\ phase[s.phase].ver = s.ver
  <2>1. CASE run[r].frozen
    <3>1. s = run[r].snapshot BY <1>5, <1>8, <2>1
    <3> HIDE DEF PlanInv
    <3> QED BY <1>2, <1>3, <2>1, <3>1, LiveRun
  <2>2. CASE ~run[r].frozen
    <3>1. s = context(t) BY <1>5, <1>8, <2>2
    <3> QED BY <1>4, <1>9, <2>2, <3>1 DEF hasContext
  <2> QED BY <2>1, <2>2
<1> HIDE DEF PlanInv
<1> QED BY <1>1, <1>2, <1>6, <1>8, <1>9, <1>10, <1>11, RunWritten

\* Neither the claim nor the end of a run changes what it relies upon.
LEMMA RunGoesOn ==
  ASSUME PlanInv, NEW r \in Run, ClaimCreateTasks(r) \/ EndRun(r)
  PROVE  PlanInv'
<1>1. run \in [Run -> RunRow] /\ children \in [Run -> SUBSET ChildRow] /\ TypeOK
  BY PlanTypes DEF PlanInv
<1>2. /\ run[r] \in RunRow /\ r \in ActiveRuns /\ run[r].status = "active"
      /\ Knows(run[r].snapshot) /\ Knows(run[r].scope)
  BY <1>1 DEF ClaimCreateTasks, EndRun, PlanInv, RunInv, ActiveRuns
<1>3. ChildrenFollowTheContract'
  BY DEF ClaimCreateTasks, EndRun, PlanInv, ChildrenFollowTheContract
<1>4. CASE ClaimCreateTasks(r)
  <2>1. PICK x : x = [run[r] EXCEPT !.stage = "creating"] OBVIOUS
  <2>2. /\ x \in RunRow /\ x.status = "active" /\ x.task = run[r].task
        /\ x.frozen = run[r].frozen /\ x.snapshot = run[r].snapshot
        /\ x.stage = "creating" /\ x.scope = run[r].scope /\ run[r].stage = "planned"
    BY <1>2, <1>4, <2>1 DEF RunRow, Stage, ClaimCreateTasks
  <2>3. /\ run' = [run EXCEPT ![r] = x]
        /\ UNCHANGED <<phase, deps, link, children, writing, now>>
    BY <1>1, <1>4, <2>1 DEF ClaimCreateTasks
  <2>4. \A s \in (IF x.frozen THEN {x.snapshot} ELSE {})
                   \cup (IF x.stage # "none" THEN {x.scope} ELSE {}) :
           s \in (IF run[r].frozen THEN {run[r].snapshot} ELSE {})
                   \cup (IF run[r].stage # "none" THEN {run[r].scope} ELSE {})
    BY <2>2
  <2> HIDE DEF PlanInv
  <2>5. \A s \in (IF x.frozen THEN {x.snapshot} ELSE {})
                   \cup (IF x.stage # "none" THEN {x.scope} ELSE {}) :
           /\ link[x.task] = s.phase
           /\ s.phase # NoPhase => /\ s.phase \in Phases
                                   /\ phase[s.phase].status = "ACTIVE"
                                   /\ phase[s.phase].ver = s.ver
    BY <1>2, <2>2, <2>4, LiveRun
  <2> QED BY <1>1, <1>2, <1>3, <2>2, <2>3, <2>5, RunWritten
<1>5. CASE EndRun(r)
  <2>1. PICK x : x = [run[r] EXCEPT !.status = "ended"] OBVIOUS
  <2>2. /\ x \in RunRow /\ x.status = "ended" /\ x.snapshot = run[r].snapshot
        /\ x.scope = run[r].scope
    BY <1>2, <2>1 DEF RunRow
  <2>3. /\ run' = [run EXCEPT ![r] = x]
        /\ UNCHANGED <<phase, deps, link, children, writing, now>>
    BY <1>1, <1>5, <2>1 DEF EndRun
  <2> HIDE DEF PlanInv
  <2> QED BY <1>1, <1>2, <1>3, <2>2, <2>3, RunWritten
<1> QED BY <1>4, <1>5

(***************************************************************************)
(* Children are made only if the phase has the version the planner saw,    *)
(* and then it has the content the planner saw.                            *)
(***************************************************************************)
LEMMA RunMaterializes ==
  ASSUME PlanInv, NEW r \in Run, Materialize(r)
  PROVE  PlanInv'
<1>1. run \in [Run -> RunRow] /\ children \in [Run -> SUBSET ChildRow] /\ TypeOK
  BY PlanTypes DEF PlanInv
<1>2. /\ run[r] \in RunRow /\ Knows(run[r].snapshot) /\ Knows(run[r].scope)
      /\ run[r].stage = "creating" /\ run[r].status # "none"
  BY <1>1 DEF Materialize, PlanInv, RunInv
<1>3. PICK t \in Task : t = run[r].task BY <1>2 DEF RunRow
<1>4. /\ context(t) \in Scope /\ Knows(context(t)) /\ context(t).phase = link[t]
      /\ link[t] # NoPhase => link[t] \in Phases /\ context(t).ver = phase[link[t]].ver
      /\ link[t] \in Phases \cup {NoPhase}
  BY <1>1, ContextIsKnown, PlanTypes
<1>5. PICK x : x = [run[r] EXCEPT !.stage = "done"] OBVIOUS
<1>6. /\ x \in RunRow /\ x.status = run[r].status /\ x.task = t
      /\ x.frozen = run[r].frozen /\ x.snapshot = run[r].snapshot
      /\ x.stage = "done" /\ x.scope = run[r].scope
  BY <1>2, <1>3, <1>5 DEF RunRow, Stage
<1>7. run' = [run EXCEPT ![r] = x] /\ UNCHANGED <<phase, deps, link, writing, now>>
  BY <1>1, <1>5 DEF Materialize
<1>8. children' \in [Run -> SUBSET ChildRow] /\ ChildrenFollowTheContract'
  <2>1. CASE children' = children
    BY <1>1, <2>1 DEF PlanInv, ChildrenFollowTheContract
  <2>2. CASE children' # children
    <3>1. PICK c : c = [phase |-> link[t], saw |-> run[r].scope.content,
                        was |-> context(t).content]
      OBVIOUS
    <3>2. /\ assertPlannerPhaseScope(run[r].scope, context(t))
          /\ children' = [children EXCEPT ![r] = @ \cup {c}]
      BY <1>3, <2>2, <3>1 DEF Materialize
    <3>3. run[r].scope \in Scope /\ run[r].scope.phase = context(t).phase
          /\ run[r].scope.ver = context(t).ver
      BY <1>2, <3>2 DEF assertPlannerPhaseScope, RunRow
    <3>4. run[r].scope.content = context(t).content
      <4>1. CASE link[t] = NoPhase BY <1>2, <1>4, <3>3, <4>1 DEF Knows
      <4>2. CASE link[t] # NoPhase
        <5>1. run[r].scope.content = phase[link[t]].content
          BY <1>2, <1>4, <3>3, <4>2 DEF Knows
        <5> QED BY <4>2, <5>1 DEF context
      <4> QED BY <4>1, <4>2
    <3>5. c \in ChildRow /\ c.saw = c.was
      <4>1. link[t] \in Phase \cup {NoPhase} BY <1>4 DEF Phases
      <4> QED BY <1>4, <3>1, <3>3, <3>4, <4>1 DEF ChildRow, Scope
    <3> HIDE DEF PlanInv
    <3>6. \A q \in Run : children'[q] = IF q = r THEN children[r] \cup {c} ELSE children[q]
      BY <1>1, <3>2
    <3>7. ChildrenFollowTheContract BY DEF PlanInv
    <3> QED BY <1>1, <3>2, <3>5, <3>6, <3>7 DEF ChildrenFollowTheContract
  <2> QED BY <2>1, <2>2
<1> HIDE DEF PlanInv
<1>9. ASSUME x.status = "active",
             NEW s \in (IF x.frozen THEN {x.snapshot} ELSE {})
                        \cup (IF x.stage # "none" THEN {x.scope} ELSE {})
      PROVE  /\ link[x.task] = s.phase
             /\ s.phase # NoPhase => /\ s.phase \in Phases
                                     /\ phase[s.phase].status = "ACTIVE"
                                     /\ phase[s.phase].ver = s.ver
  <2>1. r \in ActiveRuns BY <1>6, <1>9 DEF ActiveRuns
  <2>2. s \in (IF run[r].frozen THEN {run[r].snapshot} ELSE {})
               \cup (IF run[r].stage # "none" THEN {run[r].scope} ELSE {})
    BY <1>2, <1>6
  <2> QED BY <1>3, <1>6, <2>1, <2>2, LiveRun
<1> QED BY <1>2, <1>6, <1>7, <1>8, <1>9, RunWritten

-----------------------------------------------------------------------------
(***************************************************************************)
(* Writers of phases and links.                                            *)
(***************************************************************************)
LEMMA PhasesWritten ==
  ASSUME PlanInv, UNCHANGED <<run, children>>,
         phase' \in [Phase -> PhaseRow], deps' \in [Phase -> SUBSET Phases'],
         link' \in [Task -> Phases' \cup {NoPhase}],
         writing' \in [aside : Statements', home : Statements'], now' \in Nat,
         Ordered(phase', writing'), Distinct(phase'),
         \A q \in Phase \ Phases' : deps'[q] = {}, Founded(deps', Phases'),
         PrerequisitesStayAccepted', \A q \in Phase : Ages(q),
         \A r \in ActiveRuns :
           LET t == run[r].task
           IN /\ link'[t] = link[t]
              /\ link[t] # NoPhase /\ phase[link[t]].status = "ACTIVE" =>
                   phase'[link[t]] = phase[link[t]]
  PROVE  PlanInv'
<1>1. run \in [Run -> RunRow] /\ children \in [Run -> SUBSET ChildRow] /\ TypeOK
  BY PlanTypes DEF PlanInv
<1>2. TypeOK' BY <1>1 DEF TypeOK, PhaseRow, RunRow, ChildRow, Statements
<1>3. PlaceInv' BY DEF PlaceInv
<1>4. DepsInv' BY DEF DepsInv
<1>5. RunInv' BY <1>1, <1>2, KnowledgeKept DEF PlanInv
<1>6. LivePlansStayCurrent' BY <1>2, LiveKept
<1>7. ChildrenFollowTheContract' BY DEF PlanInv, ChildrenFollowTheContract
<1> QED BY <1>2, <1>3, <1>4, <1>5, <1>6, <1>7 DEF PlanInv

LEMMA Holder ==
  ASSUME PlanInv, Unlocked
  PROVE  /\ writing = NoWriting /\ InPlace(phase) /\ phase \in [Phase -> PhaseRow]
         /\ deps \in [Phase -> SUBSET Phases] /\ link \in [Task -> Phases \cup {NoPhase}]
         /\ now \in Nat /\ Phases = Existing(phase)
<1>1. /\ writing \in [aside : Statements, home : Statements] /\ phase \in [Phase -> PhaseRow]
      /\ deps \in [Phase -> SUBSET Phases] /\ link \in [Task -> Phases \cup {NoPhase}]
      /\ now \in Nat
  BY PlanTypes DEF PlanInv
<1>2. writing \in [aside : SUBSET (Phase \X Nat), home : SUBSET (Phase \X Nat)]
  BY <1>1 DEF Statements, Phases
<1>3. Ordered(phase, writing) /\ writing.home = {} BY DEF PlanInv, PlaceInv, Unlocked
<1> QED BY <1>1, <1>2, <1>3, FoundInPlace, PhasesExist

LEMMA LinkMoves ==
  ASSUME PlanInv, NEW p \in Phase, NEW t \in Task, NEW linked \in BOOLEAN,
         Membership(p, t, linked)
  PROVE  PlanInv'
<1> DEFINE target == IF linked THEN p ELSE NoPhase
<1>1. /\ link \in [Task -> Phases \cup {NoPhase}] /\ TypeOK
  BY PlanTypes DEF PlanInv
<1>2. /\ p \in Phases /\ editable(t) /\ link' = [link EXCEPT ![t] = target]
      /\ UNCHANGED <<phase, deps, run, children, writing, now>>
  BY DEF Membership
<1>3. PlaceInv' /\ DepsInv' /\ PrerequisitesStayAccepted' /\ Phases' = Phases
  BY <1>2, PhasesKept
<1>4. link' \in [Task -> Phases \cup {NoPhase}] BY <1>1, <1>2
<1>5. TypeOK' BY <1>1, <1>2, <1>3, <1>4 DEF TypeOK
<1>6. ASSUME NEW r \in ActiveRuns PROVE link'[run[r].task] = link[run[r].task]
  <2>1. run[r].task # t BY <1>2 DEF editable
  <2>2. run[r].task \in Task BY <1>1 DEF TypeOK, ActiveRuns
  <2> QED BY <1>1, <1>2, <2>1, <2>2
<1>7. LivePlansStayCurrent' BY <1>2, <1>5, <1>6, LiveKept
<1>8. RunInv' BY <1>2, <1>3 DEF PlanInv, RunInv, Knows, Fresh
<1>9. ChildrenFollowTheContract' BY <1>2 DEF PlanInv, ChildrenFollowTheContract
<1> QED BY <1>3, <1>5, <1>7, <1>8, <1>9 DEF PlanInv

\* One phase gets new contents, its place and its life aside.
LEMMA RowWritten ==
  ASSUME PlanInv, Unlocked, NEW p \in Phases, NEW x \in PhaseRow, x.exists,
         x.position = phase[p].position, x.ver > phase[p].ver,
         phase' = [phase EXCEPT ![p] = x],
         UNCHANGED <<link, run, children, writing>>, now' \in Nat,
         deps' \in [Phase -> SUBSET Phases],
         \A q \in Phase \ Phases : deps'[q] = {}, Founded(deps', Phases),
         PrerequisitesStayAccepted',
         \A r \in ActiveRuns : link[run[r].task] = p => phase[p].status # "ACTIVE"
  PROVE  PlanInv'
<1>1. /\ writing = NoWriting /\ InPlace(phase) /\ phase \in [Phase -> PhaseRow]
      /\ deps \in [Phase -> SUBSET Phases] /\ link \in [Task -> Phases \cup {NoPhase}]
      /\ now \in Nat /\ Phases = Existing(phase)
  BY Holder
<1>2. PICK ph : ph = phase' OBVIOUS
<1>3. \A q \in Phase : ph[q] = IF q = p THEN x ELSE phase[q] BY <1>1, <1>2
<1>4. p \in Phase /\ phase[p].exists BY DEF Phases
<1>5. Existing(ph) = Phases BY <1>3, <1>4 DEF Phases, Existing
<1>6. Places(ph) = Places(phase) BY <1>1, <1>5 DEF Places
<1>7. InPlace(ph)
  <2>1. \A q \in Phases : ph[q].position = phase[q].position BY <1>3, <1>4 DEF Phases
  <2> QED BY <1>1, <1>5, <1>6, <2>1 DEF InPlace
<1>8. Ordered(ph, NoWriting) /\ Distinct(ph) BY <1>7, LeftInPlace
<1>9. Phases' = Phases BY <1>2, <1>5 DEF Phases, Existing
<1>10. phase' \in [Phase -> PhaseRow] BY <1>1
<1>11. writing' \in [aside : Statements', home : Statements']
  BY <1>1 DEF NoWriting, Statements
<1>12. \A q \in Phase : Ages(q) BY <1>2, <1>3, <1>4 DEF Ages
<1>13. ASSUME NEW r \in ActiveRuns, link[run[r].task] # NoPhase,
              phase[link[run[r].task]].status = "ACTIVE"
       PROVE  phase'[link[run[r].task]] = phase[link[run[r].task]]
  <2>1. link[run[r].task] # p BY <1>13
  <2>2. link[run[r].task] \in Phase
    <3>1. run[r].task \in Task BY DEF PlanInv, TypeOK, ActiveRuns
    <3> QED BY <1>1, <1>13, <3>1 DEF Phases
  <2> QED BY <1>2, <1>3, <2>1, <2>2
<1> HIDE DEF PlanInv
<1> QED BY <1>1, <1>2, <1>8, <1>9, <1>10, <1>11, <1>12, <1>13, PhasesWritten

LEMMA Validated ==
  ASSUME PlanInv, NEW nodes \in SUBSET Phase, Phases \subseteq nodes, NEW id, NEW ids,
         validatePhaseDependencies(nodes, id, ids), deps' = [deps EXCEPT ![id] = ids]
  PROVE  /\ Founded(deps', nodes) /\ id \in nodes /\ ids \subseteq nodes /\ id \notin ids
         /\ deps' \in [Phase -> SUBSET nodes]
         /\ \A q \in Phase : deps'[q] = IF q = id THEN ids ELSE deps[q]
<1> PICK g : g = deps' OBVIOUS
<1>1. deps \in [Phase -> SUBSET Phases] BY DEF PlanInv, TypeOK
<1>2. id \in nodes /\ ids \subseteq nodes /\ id \notin ids /\ ~cycle(g, nodes)
  BY DEF validatePhaseDependencies
<1>3. \A q \in Phase : g[q] = IF q = id THEN ids ELSE deps[q] BY <1>1
<1>4. g \in [Phase -> SUBSET nodes] BY <1>1, <1>2
<1>5. \A q \in nodes : g[q] \subseteq nodes BY <1>4
<1>6. IsFiniteSet(nodes) BY PlanningAssumption, FS_Subset
<1>7. Founded(g, nodes) BY <1>2, <1>5, <1>6, NoCycleIsFounded
<1> QED BY <1>2, <1>3, <1>4, <1>7

LEMMA PhaseCreated ==
  ASSUME PlanInv, NEW p \in Phase, NEW ids \in SUBSET Phase, Create(p, ids)
  PROVE  PlanInv'
<1> DEFINE n == Cardinality(Phases)
<1>1. /\ writing = NoWriting /\ InPlace(phase) /\ phase \in [Phase -> PhaseRow]
      /\ deps \in [Phase -> SUBSET Phases] /\ link \in [Task -> Phases \cup {NoPhase}]
      /\ now \in Nat /\ Phases = Existing(phase)
  BY Holder DEF Create
<1>2. /\ ~phase[p].exists /\ phase[p].ver = 0 /\ now' = now + 1
      /\ validatePhaseDependencies(Phases \cup {p}, p, ids)
      /\ deps' = [deps EXCEPT ![p] = ids] /\ UNCHANGED <<link, run, children, writing>>
  BY DEF Create, Tick
<1>3. PICK x : x = [NoRow EXCEPT !.exists = TRUE, !.position = n, !.ver = 1] OBVIOUS
<1>4. phase' = [phase EXCEPT ![p] = x] BY <1>3 DEF Create
<1>5. n \in Nat /\ IsFiniteSet(Phases) BY <1>1, Counted
<1>6. x \in PhaseRow /\ x.exists /\ x.position = n /\ x.status = "DRAFT" /\ x.ver = 1
  BY <1>3, <1>5 DEF NoRow, PhaseRow, PhaseStatus
<1>7. PICK ph : ph = phase' OBVIOUS
<1>8. \A q \in Phase : ph[q] = IF q = p THEN x ELSE phase[q] BY <1>1, <1>4, <1>7
<1>9. p \notin Phases BY <1>2 DEF Phases
<1>10. Existing(ph) = Phases \cup {p} BY <1>6, <1>8 DEF Existing, Phases
<1>11. Cardinality(Existing(ph)) = n + 1 BY <1>5, <1>9, <1>10, OneMore
<1>12. Places(ph) = 0..n /\ Places(phase) = 0..(n - 1) BY <1>1, <1>5, <1>11 DEF Places
<1>13. InPlace(ph)
  <2>1. \A q \in Phases : /\ ph[q] = phase[q] /\ ph[q].position \in 0..(n - 1)
                          /\ ph[q].position \in Nat /\ ph[q].position < n
    <3> SUFFICES ASSUME NEW q \in Phases
                 PROVE  ph[q] = phase[q] /\ phase[q].position \in 0..(n - 1)
      BY <1>5
    <3>1. ph[q] = phase[q] BY <1>8, <1>9 DEF Phases
    <3> QED BY <1>1, <1>12, <3>1 DEF InPlace
  <2>2. ph[p].position = n BY <1>6, <1>8
  <2>3. \A q \in Existing(ph) : ph[q].position \in Places(ph)
    BY <1>5, <1>10, <1>12, <2>1, <2>2
  <2>4. \A q, o \in Existing(ph) : q # o => ph[q].position # ph[o].position
    <3> SUFFICES ASSUME NEW q \in Phases \cup {p}, NEW o \in Phases \cup {p}, q # o
                 PROVE  ph[q].position # ph[o].position
      BY <1>10
    <3>1. CASE q = p BY <1>5, <2>1, <2>2, <3>1
    <3>2. CASE o = p BY <1>5, <2>1, <2>2, <3>2
    <3>3. CASE q # p /\ o # p BY <1>1, <2>1, <3>3 DEF InPlace
    <3> QED BY <3>1, <3>2, <3>3
  <2>5. \A k \in Places(ph) : \E q \in Existing(ph) : ph[q].position = k
    <3> SUFFICES ASSUME NEW k \in 0..n PROVE \E q \in Phases \cup {p} : ph[q].position = k
      BY <1>10, <1>12
    <3>1. CASE k = n BY <2>2, <3>1
    <3>2. CASE k # n
      <4>1. k \in Places(phase) BY <1>5, <1>12, <3>2
      <4> QED BY <1>1, <2>1, <4>1 DEF InPlace
    <3> QED BY <3>1, <3>2
  <2> QED BY <2>3, <2>4, <2>5 DEF InPlace
<1>14. Ordered(ph, NoWriting) /\ Distinct(ph) BY <1>13, LeftInPlace
<1>15. Phases' = Phases \cup {p} BY <1>7, <1>10 DEF Phases, Existing
<1>16. PICK g : g = deps' OBVIOUS
<1>17. /\ Founded(g, Phases \cup {p}) /\ ids \subseteq Phases \cup {p} /\ p \notin ids
       /\ g \in [Phase -> SUBSET (Phases \cup {p})]
       /\ \A q \in Phase : g[q] = IF q = p THEN ids ELSE deps[q]
  <2>5. PICK nodes : nodes = Phases \cup {p} OBVIOUS
  <2>1. nodes \in SUBSET Phase /\ Phases \subseteq nodes BY <2>5 DEF Phases
  <2>2. deps' = [deps EXCEPT ![p] = ids] BY <1>2
  <2>3. validatePhaseDependencies(nodes, p, ids) BY <1>2, <2>5
  <2> HIDE DEF PlanInv
  <2>4. /\ Founded(deps', nodes) /\ ids \subseteq nodes /\ p \notin ids
        /\ deps' \in [Phase -> SUBSET nodes]
        /\ \A q \in Phase : deps'[q] = IF q = p THEN ids ELSE deps[q]
    BY <2>1, <2>2, <2>3, Validated
  <2> QED BY <1>16, <2>4, <2>5
<1>18. PrerequisitesStayAccepted'
  <2> SUFFICES ASSUME NEW q \in Phases', phase'[q].status = "ACTIVE", NEW d \in deps'[q]
               PROVE  d \in Phases' /\ phase'[d].status = "ACCEPTED"
    BY DEF PrerequisitesStayAccepted
  <2>1. q \in Phases /\ q # p /\ q \in Phase
    <3>1. q \in Phase BY DEF Phases
    <3> QED BY <1>6, <1>7, <1>8, <1>15, <3>1
  <2>2. d \in deps[q] /\ phase[q].status = "ACTIVE"
    BY <1>7, <1>8, <1>16, <1>17, <2>1
  <2>3. d \in Phases /\ phase[d].status = "ACCEPTED"
    BY <2>1, <2>2 DEF PlanInv, PrerequisitesStayAccepted
  <2> QED BY <1>7, <1>8, <1>9, <1>15, <2>3 DEF Phases
<1>19. \A q \in Phase : Ages(q) BY <1>2, <1>7, <1>8 DEF Ages, Fresh
<1>20. \A q \in Phase \ Phases' : deps'[q] = {}
  BY <1>15, <1>16, <1>17 DEF PlanInv, DepsInv
<1>21. \A q \in Phases : phase'[q] = phase[q] BY <1>7, <1>8, <1>9 DEF Phases
<1>22. ASSUME NEW r \in ActiveRuns, link[run[r].task] # NoPhase
       PROVE  phase'[link[run[r].task]] = phase[link[run[r].task]]
  <2>1. run[r].task \in Task BY DEF PlanInv, TypeOK, ActiveRuns
  <2> QED BY <1>1, <1>21, <1>22, <2>1
<1>23. phase' \in [Phase -> PhaseRow] BY <1>1, <1>4, <1>6
<1>24. /\ writing' \in [aside : Statements', home : Statements'] /\ now' \in Nat
       /\ link' \in [Task -> Phases' \cup {NoPhase}]
       /\ deps' \in [Phase -> SUBSET Phases']
  BY <1>1, <1>2, <1>15, <1>16, <1>17 DEF NoWriting, Statements
<1>25. Ordered(phase', writing') /\ Distinct(phase') BY <1>1, <1>2, <1>7, <1>14
<1>26. Founded(deps', Phases') BY <1>15, <1>16, <1>17
<1> HIDE DEF PlanInv
<1> QED
  BY <1>2, <1>18, <1>19, <1>20, <1>22, <1>23, <1>24, <1>25, <1>26, PhasesWritten

LEMMA Touched ==
  ASSUME NEW y \in PhaseRow
  PROVE  /\ touch(y) \in PhaseRow /\ touch(y).exists = y.exists
         /\ touch(y).position = y.position /\ touch(y).status = y.status
         /\ touch(y).content = y.content /\ touch(y).ver > y.ver
BY DEF touch, PhaseRow

LEMMA PhaseUpdated ==
  ASSUME PlanInv, NEW p \in Phase, NEW ids \in SUBSET Phase, NEW metadata \in BOOLEAN,
         Update(p, ids, metadata)
  PROVE  PlanInv'
<1>1. /\ Unlocked /\ p \in Phases /\ phase[p].status = "DRAFT" /\ now' = now + 1
      /\ validatePhaseDependencies(Phases, p, ids) /\ deps' = [deps EXCEPT ![p] = ids]
      /\ UNCHANGED <<link, run, children, writing>>
  BY DEF Update, assertDraftPhase, Tick
<1>2. /\ phase \in [Phase -> PhaseRow] /\ deps \in [Phase -> SUBSET Phases] /\ now \in Nat
  BY <1>1, Holder
<1>3. PICK x : x = [touch(phase[p]) EXCEPT !.content = IF metadata THEN @ + 1 ELSE @]
  OBVIOUS
<1>4. phase' = [phase EXCEPT ![p] = x]
  <2>1. phase' = [phase EXCEPT ![p] =
                    [touch(phase[p]) EXCEPT !.content = IF metadata THEN @ + 1 ELSE @]]
    BY DEF Update
  <2> QED BY <1>3, <2>1
<1>5. phase[p] \in PhaseRow BY <1>2
<1>6. /\ x \in PhaseRow /\ x.exists = phase[p].exists /\ x.position = phase[p].position
      /\ x.status = phase[p].status /\ x.ver > phase[p].ver
  <2>1. PICK y : y = touch(phase[p]) OBVIOUS
  <2>2. /\ y \in PhaseRow /\ y.exists = phase[p].exists
        /\ y.position = phase[p].position /\ y.status = phase[p].status
        /\ y.ver > phase[p].ver
    BY <1>5, <2>1, Touched
  <2>3. y.content \in Nat /\ y.content + 1 \in Nat BY <2>2 DEF PhaseRow
  <2>4. PICK c \in Nat : c = IF metadata THEN y.content + 1 ELSE y.content
    BY <2>3
  <2>5. x = [y EXCEPT !.content = c] BY <1>3, <2>1, <2>4
  <2> QED BY <2>2, <2>5 DEF PhaseRow
<1>7. x.exists BY <1>1, <1>6 DEF Phases
<1>8. PICK g : g = deps' OBVIOUS
<1>9. /\ Founded(g, Phases) /\ g \in [Phase -> SUBSET Phases]
      /\ \A q \in Phase : g[q] = IF q = p THEN ids ELSE deps[q]
  <2> PICK nodes : nodes = Phases OBVIOUS
  <2>1. nodes \in SUBSET Phase /\ Phases \subseteq nodes BY DEF Phases
  <2>2. deps' = [deps EXCEPT ![p] = ids] BY <1>1
  <2>3. validatePhaseDependencies(nodes, p, ids) BY <1>1
  <2> HIDE DEF PlanInv
  <2>4. /\ Founded(deps', nodes) /\ deps' \in [Phase -> SUBSET nodes]
        /\ \A q \in Phase : deps'[q] = IF q = p THEN ids ELSE deps[q]
    BY <2>1, <2>2, <2>3, Validated
  <2> QED BY <1>8, <2>4
<1>10. \A q \in Phase \ Phases : deps'[q] = {} BY <1>1, <1>8, <1>9 DEF PlanInv, DepsInv
<1>11. PrerequisitesStayAccepted'
  <2>1. \A q \in Phase : /\ phase'[q].status = phase[q].status
                         /\ phase'[q].exists = phase[q].exists
    BY <1>2, <1>4, <1>6
  <2>2. Phases' = Phases BY <2>1 DEF Phases
  <2>3. \A q \in Phases : phase'[q].status = "ACTIVE" => deps'[q] = deps[q]
    BY <1>1, <1>8, <1>9, <2>1 DEF Phases
  <2>4. \A q \in Phases : phase'[q].status = phase[q].status BY <2>1 DEF Phases
  <2> QED BY <2>2, <2>3, <2>4 DEF PlanInv, PrerequisitesStayAccepted
<1>12. now' \in Nat /\ deps' \in [Phase -> SUBSET Phases] /\ Founded(deps', Phases)
  BY <1>1, <1>2, <1>8, <1>9
<1> HIDE DEF PlanInv
<1> QED BY <1>1, <1>4, <1>6, <1>7, <1>10, <1>11, <1>12, RowWritten

LEMMA PhaseMoves ==
  ASSUME PlanInv, NEW p \in Phase, Activate(p) \/ Reopen(p)
  PROVE  PlanInv'
<1>1. /\ Unlocked /\ p \in Phases /\ now' = now + 1
      /\ UNCHANGED <<deps, link, run, children, writing>>
  BY DEF Activate, Reopen, Tick
<1>2. /\ phase \in [Phase -> PhaseRow] /\ deps \in [Phase -> SUBSET Phases] /\ now \in Nat
  BY <1>1, Holder
<1>3. PICK s \in {"ACTIVE", "DRAFT"} :
        /\ phase' = [phase EXCEPT ![p] = [touch(@) EXCEPT !.status = s]]
        /\ s = "ACTIVE" => /\ phase[p].status = "DRAFT"
                           /\ \A q \in deps[p] : phase[q].status = "ACCEPTED"
        /\ s = "DRAFT" => /\ phase[p].status = "ACTIVE"
                          /\ \A t \in Task : link[t] = p => editable(t)
  BY DEF Activate, Reopen, assertDraftPhase
<1>4. PICK x : x = [touch(phase[p]) EXCEPT !.status = s] OBVIOUS
<1>5. phase' = [phase EXCEPT ![p] = x] BY <1>2, <1>3, <1>4
<1>6. phase[p] \in PhaseRow BY <1>2
<1>7. /\ x \in PhaseRow /\ x.exists = phase[p].exists /\ x.position = phase[p].position
      /\ x.status = s /\ x.ver > phase[p].ver
  <2>1. PICK y : y = touch(phase[p]) OBVIOUS
  <2>2. /\ y \in PhaseRow /\ y.exists = phase[p].exists
        /\ y.position = phase[p].position /\ y.ver > phase[p].ver
    BY <1>6, <2>1, Touched
  <2>3. x = [y EXCEPT !.status = s] BY <1>4, <2>1
  <2> QED BY <1>3, <2>2, <2>3 DEF PhaseRow, PhaseStatus
<1>8. x.exists BY <1>1, <1>7 DEF Phases
<1>9. PrerequisitesStayAccepted'
  <2>1. \A q \in Phase : /\ phase'[q].status = IF q = p THEN s ELSE phase[q].status
                         /\ phase'[q].exists = phase[q].exists
    BY <1>2, <1>5, <1>7
  <2>2. Phases' = Phases BY <2>1 DEF Phases
  <2> SUFFICES ASSUME NEW q \in Phases, phase'[q].status = "ACTIVE", NEW d \in deps[q]
               PROVE  d \in Phases /\ phase'[d].status = "ACCEPTED"
    BY <1>1, <2>2 DEF PrerequisitesStayAccepted
  <2>3. q \in Phase /\ d \in Phases /\ d \in Phase BY <1>2 DEF Phases
  <2>4. phase[d].status = "ACCEPTED"
    <3>1. CASE q = p BY <1>3, <2>1, <2>3, <3>1
    <3>2. CASE q # p BY <2>1, <2>3, <3>2 DEF PlanInv, PrerequisitesStayAccepted
    <3> QED BY <3>1, <3>2
  <2>5. d # p BY <1>3, <2>4
  <2> QED BY <2>1, <2>3, <2>4, <2>5
<1>10. ASSUME NEW r \in ActiveRuns, link[run[r].task] = p PROVE phase[p].status # "ACTIVE"
  <2>1. run[r].task \in Task BY DEF PlanInv, TypeOK, ActiveRuns
  <2> QED BY <1>3, <1>10, <2>1 DEF editable
<1>11. /\ \A q \in Phase \ Phases : deps'[q] = {}
       /\ Founded(deps', Phases) /\ now' \in Nat /\ deps' \in [Phase -> SUBSET Phases]
  BY <1>1, <1>2 DEF PlanInv, DepsInv
<1> HIDE DEF PlanInv
<1> QED BY <1>1, <1>5, <1>7, <1>8, <1>9, <1>10, <1>11, RowWritten

-----------------------------------------------------------------------------
(***************************************************************************)
(* Reorderings and deletions.                                              *)
(***************************************************************************)
LEMMA Typed ==
  ASSUME NEW ph, NEW place \in [Existing(ph) -> Places(ph)], NEW o \in Nat,
         Existing(ph) # {} => offset(ph) = o
  PROVE  writeOrder(place, ph) \in [aside : SUBSET (Existing(ph) \X Nat),
                                    home : SUBSET (Existing(ph) \X Nat)]
<1>1. Places(ph) \subseteq Nat BY Counted
<1>2. moves(place, ph) \in SUBSET (Existing(ph) \X Nat) BY <1>1 DEF moves
<1>3. ASSUME NEW c \in moves(place, ph)
      PROVE  <<c[1], offset(ph) + c[2]>> \in Existing(ph) \X Nat
  <2>1. c[1] \in Existing(ph) /\ c[2] \in Nat BY <1>2
  <2>2. offset(ph) = o BY <2>1
  <2>3. o + c[2] \in Nat BY <2>1
  <2> QED BY <2>1, <2>2, <2>3
<1> QED BY <1>2, <1>3 DEF writeOrder

LEMMA Onto ==
  ASSUME NEW S, IsFiniteSet(S), NEW f \in [S -> 0..(Cardinality(S) - 1)],
         \A p, q \in S : p # q => f[p] # f[q]
  PROVE  \A n \in 0..(Cardinality(S) - 1) : \E p \in S : f[p] = n
<1> DEFINE c == Cardinality(S)
<1>1. c \in Nat BY FS_CardinalityType
<1>2. IsFiniteSet(0..(c - 1)) /\ Cardinality(0..(c - 1)) = c
  <2>1. 0 \in Int /\ c - 1 \in Int BY <1>1
  <2> HIDE DEF c
  <2>2. /\ IsFiniteSet(0..(c - 1))
        /\ Cardinality(0..(c - 1)) = IF 0 > c - 1 THEN 0 ELSE (c - 1) - 0 + 1
    BY <2>1, FS_Interval
  <2> QED BY <1>1, <2>2
<1>3. f \in Injection(S, 0..(c - 1)) BY DEF Injection, IsInjective
<1> HIDE DEF c
<1>4. f \in Surjection(S, 0..(c - 1)) BY <1>2, <1>3, FS_Injection DEF c
<1> QED BY <1>4 DEF Surjection, c

\* Between transactions a position counts the phases before it.
LEMMA Before ==
  ASSUME NEW ph, InPlace(ph), NEW q \in Existing(ph)
  PROVE  LET B == {o \in Existing(ph) : ph[o].position < ph[q].position}
         IN  IsFiniteSet(B) /\ Cardinality(B) = ph[q].position
<1> DEFINE B == {o \in Existing(ph) : ph[o].position < ph[q].position}
           n == Cardinality(Existing(ph))
<1>1. PICK b : b = ph[q].position OBVIOUS
<1>2. n \in Nat /\ IsFiniteSet(Existing(ph)) BY Counted
<1>3. b \in 0..(n - 1) BY <1>1 DEF InPlace, Places
<1>4. IsFiniteSet(B) BY <1>2, FS_Subset
<1> DEFINE f == [o \in B |-> ph[o].position]
<1>5. ASSUME NEW o \in B PROVE ph[o].position \in 0..(b - 1)
  <2>1. ph[o].position \in 0..(n - 1) BY DEF InPlace, Places
  <2> QED BY <1>1, <1>2, <1>3, <2>1
<1>6. ASSUME NEW k \in 0..(b - 1) PROVE \E o \in B : ph[o].position = k
  <2>1. k \in 0..(n - 1) /\ k < b BY <1>2, <1>3
  <2>2. PICK o \in Existing(ph) : ph[o].position = k BY <2>1 DEF InPlace, Places
  <2> QED BY <1>1, <2>1, <2>2
<1>7. \A o, u \in B : o # u => ph[o].position # ph[u].position BY DEF InPlace
<1>8. f \in Bijection(B, 0..(b - 1))
  <2>1. f \in [B -> 0..(b - 1)] BY <1>5
  <2>2. \A o, u \in B : f[o] = f[u] => o = u BY <1>7
  <2>3. \A k \in 0..(b - 1) : \E o \in B : f[o] = k BY <1>6
  <2> HIDE DEF f, B
  <2> QED BY <2>1, <2>2, <2>3 DEF Bijection, Injection, Surjection, IsInjective
<1> HIDE DEF f, B
<1>9. ExistsBijection(B, 0..(b - 1)) BY <1>8 DEF ExistsBijection
<1>10. Cardinality(0..(b - 1)) = Cardinality(B) BY <1>4, <1>9, FS_Bijection
<1>11. Cardinality(0..(b - 1)) = b
  <2>1. 0 \in Int /\ b - 1 \in Int BY <1>2, <1>3
  <2>2. Cardinality(0..(b - 1)) = IF 0 > b - 1 THEN 0 ELSE (b - 1) - 0 + 1
    BY <2>1, FS_Interval
  <2> QED BY <1>2, <1>3, <2>2
<1> QED BY <1>1, <1>4, <1>10, <1>11 DEF B

LEMMA OrderBegins ==
  ASSUME PlanInv, NEW place \in Orders, Order(place)
  PROVE  PlanInv'
<1> DEFINE n == Cardinality(Phases)
<1>1. /\ writing = NoWriting /\ InPlace(phase) /\ phase \in [Phase -> PhaseRow]
      /\ deps \in [Phase -> SUBSET Phases] /\ link \in [Task -> Phases \cup {NoPhase}]
      /\ now \in Nat /\ Phases = Existing(phase)
  BY Holder DEF Order
<1>2. /\ \A p \in Phases : phase[p].position # place[p] => phase[p].status = "DRAFT"
      /\ writing' = writeOrder(place, phase)
      /\ UNCHANGED <<phase, deps, link, run, children, now>>
  BY DEF Order, assertDraftPhase
<1>3. n \in Nat /\ IsFiniteSet(Phases) BY <1>1, Counted
<1>4. /\ place \in [Phases -> 0..(n - 1)]
      /\ \A p, q \in Phases : p # q => place[p] # place[q]
  BY DEF Orders
<1>5. Bijective(phase, place)
  <2>1. \A k \in 0..(n - 1) : \E p \in Phases : place[p] = k BY <1>3, <1>4, Onto
  <2> QED BY <1>1, <1>4, <2>1 DEF Bijective, Places
<1>6. place \in [Existing(phase) -> Places(phase)] BY <1>1, <1>4 DEF Places
<1>7. ASSUME NEW p \in Phases
      PROVE  place[p] < n /\ phase[p].position < n /\ phase[p].position <= n - 1
  <2>1. place[p] \in 0..(n - 1) /\ phase[p].position \in 0..(n - 1)
    BY <1>1, <1>4 DEF InPlace, Places
  <2> QED BY <1>3, <2>1
<1>8. ASSUME Phases # {} PROVE offset(phase) = n
  <2>1. PICK p \in Phases : TRUE BY <1>8
  <2>2. n - 1 \in Nat
    <3>1. phase[p].position \in 0..(n - 1) BY <1>1 DEF InPlace, Places
    <3> QED BY <1>3, <3>1
  <2>3. n - 1 \in Places(phase) BY <1>1, <1>3, <2>2 DEF Places
  <2>4. \E q \in Existing(phase) : phase[q].position = n - 1 BY <1>1, <2>3 DEF InPlace
  <2>5. \A q \in Existing(phase) : phase[q].position <= n - 1 BY <1>1, <1>7
  <2>6. offset(phase) = (n - 1) + 1 BY <1>1, <2>2, <2>4, <2>5, Offset
  <2> QED BY <1>3, <2>6
<1>9. PICK o \in Nat : o = n BY <1>3
<1>10. Existing(phase) # {} => offset(phase) = o BY <1>1, <1>8, <1>9
<1>11. PICK ph : ph = phase OBVIOUS
<1>12. \A p \in Existing(ph) : /\ place[p] < o /\ ph[p].position < o
                               /\ ph[p].position # place[p] => ph[p].status = "DRAFT"
  BY <1>1, <1>2, <1>7, <1>9, <1>11
<1>13. Ordered(phase, writing')
  <2>1. /\ place \in [Existing(ph) -> Places(ph)] /\ Bijective(ph, place)
        /\ Existing(ph) # {} => offset(ph) = o
    BY <1>5, <1>6, <1>10, <1>11
  <2> QED BY <1>2, <1>11, <1>12, <2>1, Begins
<1>14. writing' \in [aside : Statements', home : Statements']
  <2>1. writing' \in [aside : SUBSET (Existing(ph) \X Nat),
                      home : SUBSET (Existing(ph) \X Nat)]
    BY <1>2, <1>6, <1>10, <1>11, Typed
  <2>2. Phases' = Existing(ph) BY <1>1, <1>2, <1>11 DEF Phases
  <2> QED BY <2>1, <2>2 DEF Statements
<1>15. Phases' = Phases BY <1>2 DEF Phases
<1>16. /\ \A q \in Phase \ Phases : deps[q] = {}
       /\ Founded(deps, Phases) /\ Distinct(phase) /\ PrerequisitesStayAccepted
  BY DEF PlanInv, DepsInv, PlaceInv
<1>17. /\ \A q \in Phase \ Phases' : deps'[q] = {}
       /\ Founded(deps', Phases') /\ PrerequisitesStayAccepted'
       /\ phase' \in [Phase -> PhaseRow] /\ deps' \in [Phase -> SUBSET Phases']
       /\ link' \in [Task -> Phases' \cup {NoPhase}] /\ now' \in Nat
  BY <1>1, <1>2, <1>15, <1>16 DEF PrerequisitesStayAccepted
<1>18. \A q \in Phase : Ages(q) BY <1>2 DEF Ages
<1>19. Ordered(phase', writing') /\ Distinct(phase') BY <1>2, <1>13, <1>16
<1> HIDE DEF PlanInv
<1> QED BY <1>2, <1>14, <1>17, <1>18, <1>19, PhasesWritten

\* A statement writes the place of one phase that is a DRAFT.
LEMMA PlaceWritten ==
  ASSUME PlanInv, NEW p \in Phases, NEW x \in PhaseRow, x.exists,
         phase[p].status = "DRAFT", x.status = "DRAFT", x.ver > phase[p].ver,
         phase' = [phase EXCEPT ![p] = x], UNCHANGED <<deps, link, run, children>>,
         now' \in Nat, writing' \in [aside : Statements, home : Statements],
         Ordered(phase', writing'), Distinct(phase')
  PROVE  PlanInv'
<1>1. /\ phase \in [Phase -> PhaseRow] /\ deps \in [Phase -> SUBSET Phases]
      /\ link \in [Task -> Phases \cup {NoPhase}]
  BY PlanTypes DEF PlanInv
<1>2. p \in Phase /\ phase[p].exists BY DEF Phases
<1>3. \A q \in Phase : phase'[q] = IF q = p THEN x ELSE phase[q] BY <1>1
<1>4. Phases' = Phases BY <1>2, <1>3 DEF Phases
<1>5. /\ phase' \in [Phase -> PhaseRow] /\ deps' \in [Phase -> SUBSET Phases']
      /\ link' \in [Task -> Phases' \cup {NoPhase}]
      /\ writing' \in [aside : Statements', home : Statements']
  BY <1>1, <1>4 DEF Statements
<1>6. (\A q \in Phase \ Phases' : deps'[q] = {}) /\ Founded(deps', Phases')
  BY <1>4 DEF PlanInv, DepsInv
<1>7. PrerequisitesStayAccepted'
  <2>1. \A q \in Phases : q \in Phase /\ phase'[q].status = phase[q].status
    BY <1>3 DEF Phases
  <2> QED BY <1>4, <2>1 DEF PlanInv, PrerequisitesStayAccepted
<1>8. \A q \in Phase : Ages(q) BY <1>2, <1>3 DEF Ages
<1>9. ASSUME NEW r \in ActiveRuns, link[run[r].task] # NoPhase,
             phase[link[run[r].task]].status = "ACTIVE"
      PROVE  phase'[link[run[r].task]] = phase[link[run[r].task]]
  <2>1. run[r].task \in Task BY DEF PlanInv, TypeOK, ActiveRuns
  <2>2. link[run[r].task] \in Phase BY <1>1, <1>9, <2>1 DEF Phases
  <2> QED BY <1>3, <1>9, <2>2
<1> HIDE DEF PlanInv
<1> QED BY <1>5, <1>6, <1>7, <1>8, <1>9, PhasesWritten

LEMMA PositionWritten ==
  ASSUME PlanInv, WritePosition
  PROVE  PlanInv'
<1>1. /\ writing \in [aside : Statements, home : Statements]
      /\ phase \in [Phase -> PhaseRow] /\ now \in Nat
  BY PlanTypes DEF PlanInv
<1>2. Ordered(phase, writing) /\ Distinct(phase) BY DEF PlanInv, PlaceInv
<1>3. PICK goal \in [Existing(phase) -> Places(phase)], o \in Nat :
        Bijective(phase, goal) /\ Fits(phase, writing, goal, o)
  BY <1>2 DEF Ordered
<1>4. PICK s \in (IF writing.aside # {} THEN writing.aside ELSE writing.home) :
        /\ now' = now + 1
        /\ phase' = [phase EXCEPT ![s[1]] = [touch(phase[s[1]]) EXCEPT !.position = s[2]]]
        /\ writing' = IF writing.aside # {}
                      THEN [writing EXCEPT !.aside = writing.aside \ {s}]
                      ELSE [writing EXCEPT !.home = writing.home \ {s}]
        /\ UNCHANGED <<deps, link, run, children>>
  BY DEF WritePosition, Tick
<1>5. PICK p : p = s[1] OBVIOUS
<1>6. p \in Phases /\ phase[p].status = "DRAFT" /\ s \in Phases \X Nat
  <2>1. s \in Phases \X Nat BY <1>1 DEF Statements
  <2>2. CASE s \in writing.home BY <1>3, <1>5, <2>1, <2>2 DEF Fits
  <2>3. CASE s \in writing.aside
    <3>1. <<p, goal[p]>> \in writing.home BY <1>3, <1>5, <2>3 DEF Fits
    <3> QED BY <1>3, <1>5, <2>1, <3>1 DEF Fits
  <2> QED BY <2>2, <2>3
<1>7. PICK y : y = touch(phase[p]) OBVIOUS
<1>8. phase[p] \in PhaseRow /\ phase[p].exists BY <1>1, <1>6 DEF Phases
<1>9. /\ y \in PhaseRow /\ y.exists = phase[p].exists /\ y.status = phase[p].status
      /\ y.ver > phase[p].ver
  BY <1>7, <1>8, Touched
<1>10. PICK x : x = [y EXCEPT !.position = s[2]] OBVIOUS
<1>11. /\ x \in PhaseRow /\ x.exists /\ x.position = s[2] /\ x.status = "DRAFT"
       /\ x.ver > phase[p].ver
  BY <1>6, <1>8, <1>9, <1>10 DEF PhaseRow
<1>12. phase' = [phase EXCEPT ![p] = x] BY <1>4, <1>5, <1>7, <1>10
<1>13. PICK ph : ph = phase OBVIOUS
<1>14. PICK ph2 : ph2 = phase' OBVIOUS
<1>15. PICK wr : wr = writing OBVIOUS
<1>16. PICK wr2 : wr2 = writing' OBVIOUS
<1>17. /\ ph \in [Phase -> PhaseRow] /\ Ordered(ph, wr) /\ Distinct(ph)
       /\ x.status = ph[s[1]].status /\ ph2 = [ph EXCEPT ![s[1]] = x]
       /\ wr.aside \subseteq Phase \X Nat /\ wr.home \subseteq Phase \X Nat
  BY <1>1, <1>2, <1>5, <1>6, <1>11, <1>12, <1>13, <1>14, <1>15 DEF Statements, Phases
<1>18. Ordered(ph2, wr2) /\ Distinct(ph2)
  <2>1. CASE writing.aside # {}
    <3>1. s \in wr.aside /\ wr2.home = wr.home /\ wr2.aside = wr.aside \ {s}
      BY <1>1, <1>4, <1>15, <1>16, <2>1
    <3> QED BY <1>11, <1>17, <3>1, MovesAside
  <2>2. CASE writing.aside = {}
    <3>1. s \in wr.home /\ wr.aside = {} /\ wr2.home = wr.home \ {s} /\ wr2.aside = {}
      BY <1>1, <1>4, <1>15, <1>16, <2>2
    <3> QED BY <1>11, <1>17, <3>1, MovesHome
  <2> QED BY <2>1, <2>2
<1>19. writing' \in [aside : Statements, home : Statements] BY <1>1, <1>4 DEF Statements
<1>20. now' \in Nat /\ Ordered(phase', writing') /\ Distinct(phase')
  BY <1>1, <1>4, <1>14, <1>16, <1>18
<1> HIDE DEF PlanInv
<1> QED BY <1>4, <1>6, <1>11, <1>12, <1>19, <1>20, PlaceWritten

\* The phases that a deletion leaves, each with its new place.
Removed(ph, p) == [ph EXCEPT ![p] = [NoRow EXCEPT !.ver = 1]]
Closer(ph, p) ==
  [q \in Existing(ph) \ {p} |->
     Cardinality({o \in Existing(ph) \ {p} : ph[o].position < ph[q].position})]

LEMMA Closing ==
  ASSUME NEW ph \in [Phase -> PhaseRow], InPlace(ph), NEW p \in Existing(ph),
         \A q \in Existing(ph) : ph[q].position > ph[p].position => ph[q].status = "DRAFT"
  PROVE  LET rest == Removed(ph, p)
             place == Closer(ph, p)
         IN  /\ rest \in [Phase -> PhaseRow] /\ Existing(rest) = Existing(ph) \ {p}
             /\ rest[p] = [NoRow EXCEPT !.ver = 1]
             /\ \A q \in Phase : q # p => rest[q] = ph[q]
             /\ Ordered(rest, writeOrder(place, rest)) /\ Distinct(rest)
             /\ writeOrder(place, rest) \in [aside : SUBSET (Existing(rest) \X Nat),
                                             home : SUBSET (Existing(rest) \X Nat)]
<1>20. PICK rest : rest = Removed(ph, p) OBVIOUS
<1>21. PICK place : place = Closer(ph, p) OBVIOUS
<1> DEFINE P == Existing(ph)
           n == Cardinality(P)
           k == ph[p].position
<1>1. n \in Nat /\ IsFiniteSet(P) /\ P \subseteq Phase BY Counted
<1>2. [NoRow EXCEPT !.ver = 1] \in PhaseRow /\ ~[NoRow EXCEPT !.ver = 1].exists
  BY DEF NoRow, PhaseRow, PhaseStatus
<1>3. /\ rest \in [Phase -> PhaseRow] /\ rest[p] = [NoRow EXCEPT !.ver = 1]
      /\ \A q \in Phase : q # p => rest[q] = ph[q]
  BY <1>1, <1>2, <1>20 DEF Removed
<1>4. Existing(rest) = P \ {p} BY <1>2, <1>3 DEF Existing
<1>5. \A q \in P : ph[q].position \in 0..(n - 1) BY DEF InPlace, Places
<1>6. Cardinality(P \ {p}) = n - 1 BY <1>1, OneLess
<1>7. Places(rest) = 0..(n - 2)
  <2>1. Places(rest) = 0..((n - 1) - 1) BY <1>4, <1>6 DEF Places
  <2> HIDE DEF n
  <2>2. (n - 1) - 1 = n - 2 BY <1>1
  <2> QED BY <2>1, <2>2
<1>8. ASSUME NEW q \in P \ {p}
      PROVE  /\ ph[q].position # k
             /\ place[q] = IF ph[q].position < k THEN ph[q].position
                           ELSE ph[q].position - 1
  <2> DEFINE B == {o \in P : ph[o].position < ph[q].position}
             C == {o \in P \ {p} : ph[o].position < ph[q].position}
  <2>1. IsFiniteSet(B) /\ Cardinality(B) = ph[q].position BY Before
  <2>2. ph[q].position # k BY DEF InPlace
  <2>3. place[q] = Cardinality(C) BY <1>21 DEF Closer
  <2>4. ph[q].position \in Nat /\ k \in Nat BY <1>1, <1>5
  <2>5. CASE ph[q].position < k
    <3>1. C = B BY <2>4, <2>5
    <3> QED BY <2>1, <2>2, <2>3, <2>5, <3>1
  <2>6. CASE ~(ph[q].position < k)
    <3>1. C = B \ {p} /\ p \in B BY <2>2, <2>4, <2>6
    <3>2. Cardinality(B \ {p}) = Cardinality(B) - 1 BY ONLY <2>1, <3>1, OneLess
    <3> QED BY <2>1, <2>2, <2>3, <2>6, <3>1, <3>2
  <2> QED BY <2>5, <2>6
<1>9. place \in [P \ {p} -> 0..(n - 2)]
  <2>1. ASSUME NEW q \in P \ {p} PROVE place[q] \in 0..(n - 2)
    <3>1. ph[q].position \in 0..(n - 1) /\ k \in 0..(n - 1) BY <1>5
    <3> HIDE DEF k, n
    <3> QED BY <1>1, <1>8, <3>1
  <2> QED BY <1>21, <2>1 DEF Closer
<1> HIDE DEF n
<1>10. ASSUME NEW q \in P \ {p}, NEW o \in P \ {p}, q # o PROVE place[q] # place[o]
  <2>1. ph[q].position # ph[o].position BY <1>10 DEF InPlace
  <2>2. ph[q].position \in Nat /\ ph[o].position \in Nat /\ k \in Nat BY <1>1, <1>5
  <2>3. ph[q].position # k /\ ph[o].position # k BY <1>8
  <2>4. place[q] = IF ph[q].position < k THEN ph[q].position ELSE ph[q].position - 1
    BY <1>8
  <2>5. place[o] = IF ph[o].position < k THEN ph[o].position ELSE ph[o].position - 1
    BY <1>8
  <2> HIDE DEF k
  <2> QED BY <2>1, <2>2, <2>3, <2>4, <2>5
<1>11. ASSUME NEW j \in 0..(n - 2) PROVE \E q \in P \ {p} : place[q] = j
  <2>1. k \in 0..(n - 1) BY <1>5
  <2>2. PICK i : i = IF j < k THEN j ELSE j + 1 OBVIOUS
  <2>3. i \in 0..(n - 1) /\ i # k BY <1>1, <2>1, <2>2
  <2>4. PICK q \in P : ph[q].position = i BY <2>3 DEF InPlace, Places, n
  <2>5. q # p BY <2>3, <2>4
  <2>6. place[q] = IF i < k THEN i ELSE i - 1 BY <1>8, <2>4, <2>5
  <2>7. place[q] = j BY <1>1, <2>1, <2>2, <2>6
  <2> QED BY <2>5, <2>7
<1>12. Bijective(rest, place) BY <1>4, <1>7, <1>9, <1>10, <1>11 DEF Bijective
<1>13. place \in [Existing(rest) -> Places(rest)] BY <1>4, <1>7, <1>9
<1>14. PICK o \in Nat : o = IF k = n - 1 THEN n - 1 ELSE n
  <2>1. k \in 0..(n - 1) BY <1>5
  <2> QED BY <1>1, <2>1
<1>15. ASSUME NEW q \in P \ {p}
       PROVE  /\ place[q] < o /\ rest[q].position < o
              /\ rest[q].position # place[q] => rest[q].status = "DRAFT"
  <2>1. rest[q] = ph[q] BY <1>1, <1>3
  <2>2. ph[q].position \in 0..(n - 1) /\ k \in 0..(n - 1) BY <1>5
  <2>3. place[q] \in 0..(n - 2) BY <1>9
  <2>4. ph[q].position # k /\ (ph[q].position # place[q] => ph[q].position > k)
    BY <1>1, <1>8, <2>2
  <2>5. place[q] < o /\ ph[q].position < o
    <3> HIDE DEF k
    <3> QED BY <1>1, <1>14, <2>2, <2>3, <2>4
  <2> QED BY <2>1, <2>4, <2>5
<1>16. ASSUME Existing(rest) # {} PROVE offset(rest) = o
  <2>1. PICK q \in P \ {p} : TRUE BY <1>4, <1>16
  <2>2. ph[q].position \in 0..(n - 1) /\ k \in 0..(n - 1) /\ ph[q].position # k
    BY <1>5, <1>8
  <2>3. PICK m \in Nat : m = o - 1
    <3> HIDE DEF k
    <3> QED BY <1>1, <1>14, <2>2
  <2>4. m \in 0..(n - 1) /\ m # k
    <3> HIDE DEF k
    <3> QED BY <1>1, <1>14, <2>2, <2>3
  <2>5. PICK u \in P : ph[u].position = m BY <2>4 DEF InPlace, Places, n
  <2>6. u # p BY <2>4, <2>5
  <2>7. rest[u].position = m /\ u \in Existing(rest) BY <1>1, <1>3, <1>4, <2>5, <2>6
  <2>8. \A v \in Existing(rest) : rest[v].position <= m
    <3> SUFFICES ASSUME NEW v \in P \ {p} PROVE rest[v].position <= m BY <1>4
    <3>1. rest[v].position < o BY <1>15
    <3>2. rest[v].position \in Nat BY <1>1, <1>3 DEF PhaseRow
    <3> QED BY <2>3, <3>1, <3>2
  <2>9. offset(rest) = m + 1 BY <1>3, <2>7, <2>8, Offset
  <2> QED BY <2>3, <2>9
<1>17. Ordered(rest, writeOrder(place, rest))
  BY <1>4, <1>12, <1>13, <1>15, <1>16, Begins
<1>18. Distinct(rest) BY <1>1, <1>3, <1>4 DEF Distinct, InPlace
<1>19. writeOrder(place, rest) \in [aside : SUBSET (Existing(rest) \X Nat),
                                    home : SUBSET (Existing(rest) \X Nat)]
  BY <1>13, <1>16, Typed
<1> QED BY <1>3, <1>4, <1>17, <1>18, <1>19, <1>20, <1>21

LEMMA PhaseDeleted ==
  ASSUME PlanInv, NEW p \in Phase, Delete(p)
  PROVE  PlanInv'
<1>1. /\ writing = NoWriting /\ InPlace(phase) /\ phase \in [Phase -> PhaseRow]
      /\ deps \in [Phase -> SUBSET Phases] /\ link \in [Task -> Phases \cup {NoPhase}]
      /\ now \in Nat /\ Phases = Existing(phase)
  BY Holder DEF Delete
<1>2. PICK ph : ph = phase OBVIOUS
<1>3. PICK rest : rest = Removed(ph, p) OBVIOUS
<1>4. PICK place : place = Closer(ph, p) OBVIOUS
<1>5. /\ p \in Phases /\ now' = now + 1
      /\ \A q \in Phases : phase[q].position > phase[p].position => phase[q].status = "DRAFT"
      /\ \A q \in Phases : p \notin deps[q]
      /\ \A t \in Task : link[t] = p => editable(t)
      /\ link' = [t \in Task |-> IF link[t] = p THEN NoPhase ELSE link[t]]
      /\ deps' = [deps EXCEPT ![p] = {}]
      /\ UNCHANGED <<run, children>>
  BY DEF Delete, Tick, assertDraftPhase
<1>6. phase' = rest /\ writing' = writeOrder(place, rest)
  BY <1>1, <1>2, <1>3, <1>4 DEF Delete, Removed, Closer
<1>7. /\ rest \in [Phase -> PhaseRow] /\ Existing(rest) = Existing(ph) \ {p}
      /\ rest[p] = [NoRow EXCEPT !.ver = 1]
      /\ \A q \in Phase : q # p => rest[q] = ph[q]
      /\ Ordered(rest, writeOrder(place, rest)) /\ Distinct(rest)
      /\ writeOrder(place, rest) \in [aside : SUBSET (Existing(rest) \X Nat),
                                      home : SUBSET (Existing(rest) \X Nat)]
  <2>1. /\ ph \in [Phase -> PhaseRow] /\ InPlace(ph) /\ p \in Existing(ph)
        /\ \A q \in Existing(ph) : ph[q].position > ph[p].position => ph[q].status = "DRAFT"
    BY <1>1, <1>2, <1>5
  <2> QED BY <1>3, <1>4, <2>1, Closing
<1>8. Phases' = Phases \ {p} BY <1>1, <1>2, <1>6, <1>7 DEF Phases, Existing
<1>9. \A q \in Phases' : q \in Phase /\ q # p /\ q \in Phases /\ phase'[q] = phase[q]
  BY <1>2, <1>6, <1>7, <1>8 DEF Phases
<1>10. writing' \in [aside : Statements', home : Statements']
  <2>1. Existing(rest) = Phases' BY <1>1, <1>2, <1>7, <1>8
  <2> QED BY <1>6, <1>7, <2>1 DEF Statements
<1>11. \A q \in Phase \ Phases : deps[q] = {} BY DEF PlanInv, DepsInv
<1>12. \A q \in Phase : deps'[q] = IF q = p THEN {} ELSE deps[q] BY <1>1, <1>5
<1>13. \A q \in Phase : deps'[q] \in SUBSET Phases' BY <1>1, <1>5, <1>8, <1>11, <1>12
<1>14. deps' \in [Phase -> SUBSET Phases'] BY <1>1, <1>5, <1>13
<1>15. \A q \in Phase \ Phases' : deps'[q] = {} BY <1>8, <1>11, <1>12
<1>16. Founded(deps', Phases')
  <2>1. Founded(deps, Phases) BY DEF PlanInv, DepsInv
  <2> SUFFICES ASSUME NEW C \in SUBSET Phases', C # {}
               PROVE  \E q \in C : deps'[q] \cap C = {}
    BY DEF Founded
  <2>2. PICK q \in C : deps[q] \cap C = {} BY <1>8, <2>1 DEF Founded
  <2>3. deps'[q] = deps[q] BY <1>9, <1>12
  <2> QED BY <2>2, <2>3
<1>17. link' \in [Task -> Phases' \cup {NoPhase}] BY <1>1, <1>5, <1>8
<1>18. PrerequisitesStayAccepted'
  <2> SUFFICES ASSUME NEW q \in Phases', phase'[q].status = "ACTIVE", NEW d \in deps'[q]
               PROVE  d \in Phases' /\ phase'[d].status = "ACCEPTED"
    BY DEF PrerequisitesStayAccepted
  <2>1. q \in Phases /\ phase[q].status = "ACTIVE" /\ d \in deps[q] BY <1>9, <1>12
  <2>2. phase[d].status = "ACCEPTED" BY <2>1 DEF PlanInv, PrerequisitesStayAccepted
  <2>3. d \in Phases' BY <1>9, <1>13
  <2> QED BY <1>9, <2>2, <2>3
<1>19. \A q \in Phase : Ages(q)
  <2> SUFFICES ASSUME NEW q \in Phase PROVE Ages(q) OBVIOUS
  <2>1. CASE q = p BY <1>6, <1>7, <2>1 DEF Ages, NoRow
  <2>2. CASE q # p BY <1>2, <1>6, <1>7, <2>2 DEF Ages
  <2> QED BY <2>1, <2>2
<1>20. ASSUME NEW r \in ActiveRuns
       PROVE  /\ link'[run[r].task] = link[run[r].task]
              /\ link[run[r].task] # NoPhase =>
                   phase'[link[run[r].task]] = phase[link[run[r].task]]
  <2>1. run[r].task \in Task BY DEF PlanInv, TypeOK, ActiveRuns
  <2>2. link[run[r].task] # p BY <1>5, <2>1 DEF editable
  <2>3. link[run[r].task] # NoPhase => link[run[r].task] \in Phases' BY <1>1, <1>8, <2>1, <2>2
  <2> QED BY <1>5, <1>9, <2>1, <2>2, <2>3
<1>23. phase' \in [Phase -> PhaseRow] BY <1>6, <1>7
<1>21. now' \in Nat BY <1>1, <1>5
<1>22. Ordered(phase', writing') /\ Distinct(phase') BY <1>6, <1>7
<1> HIDE DEF PlanInv
<1> QED
  BY <1>5, <1>10, <1>14, <1>15, <1>16, <1>17, <1>18, <1>19, <1>20, <1>21, <1>22,
     <1>23, PhasesWritten

-----------------------------------------------------------------------------
LEMMA PlanInit == Init => PlanInv
<1> SUFFICES ASSUME Init PROVE PlanInv OBVIOUS
<1> DEFINE n == Len(First)
           at(p) == CHOOSE i \in 1..n : First[i] = p
<1>1. n \in Nat /\ First \in [1..n -> Phase] /\ \A i, j \in 1..n : i # j => First[i] # First[j]
  BY PlanningAssumption
<1>2. PICK accepted0 \in SUBSET Accepted : phase = [p \in Phase |->
        IF \E i \in 1..n : First[i] = p
        THEN [exists |-> TRUE, ver |-> 0, content |-> 0, position |-> at(p) - 1,
              status |-> IF p \in accepted0 THEN "ACCEPTED" ELSE "DRAFT"]
        ELSE NoRow]
  BY DEF Init
<1>3. ASSUME NEW i \in 1..n PROVE at(First[i]) = i
  <2>1. at(First[i]) \in 1..n /\ First[at(First[i])] = First[i] OBVIOUS
  <2> QED BY <1>1, <2>1
<1> HIDE DEF at
<1>4. ASSUME NEW i \in 1..n
      PROVE  /\ First[i] \in Phase /\ phase[First[i]].exists
             /\ phase[First[i]].position = i - 1
             /\ phase[First[i]].status \in {"ACCEPTED", "DRAFT"}
             /\ phase[First[i]] \in PhaseRow
  <2>1. First[i] \in Phase BY <1>1
  <2>2. phase[First[i]] =
          [exists |-> TRUE, ver |-> 0, content |-> 0, position |-> at(First[i]) - 1,
           status |-> IF First[i] \in accepted0 THEN "ACCEPTED" ELSE "DRAFT"]
    BY <1>2, <2>1
  <2>3. i - 1 \in Nat BY <1>1
  <2> QED BY <1>3, <2>1, <2>2, <2>3 DEF PhaseRow, PhaseStatus
<1>5. ASSUME NEW p \in Phase, \A i \in 1..n : First[i] # p PROVE phase[p] = NoRow
  BY <1>2, <1>5
<1>6. Existing(phase) = {First[i] : i \in 1..n} BY <1>4, <1>5 DEF Existing, NoRow
<1>7. Cardinality(Existing(phase)) = n
  <2>1. First \in Bijection(1..n, Existing(phase))
    <3>1. First \in [1..n -> Existing(phase)] BY <1>1, <1>6
    <3>2. \A i, j \in 1..n : First[i] = First[j] => i = j BY <1>1
    <3>3. \A p \in Existing(phase) : \E i \in 1..n : First[i] = p BY <1>6
    <3> QED BY <3>1, <3>2, <3>3 DEF Bijection, Injection, Surjection, IsInjective
  <2>2. IsFiniteSet(1..n) /\ Cardinality(1..n) = n
    <3>1. 1 \in Int /\ n \in Int BY <1>1
    <3>2. IsFiniteSet(1..n) /\ Cardinality(1..n) = IF 1 > n THEN 0 ELSE n - 1 + 1
      BY <3>1, FS_Interval
    <3> QED BY <1>1, <3>2
  <2>3. ExistsBijection(1..n, Existing(phase)) BY <2>1 DEF ExistsBijection
  <2> QED BY <2>2, <2>3, FS_Bijection
<1>8. Places(phase) = 0..(n - 1) BY <1>7 DEF Places
<1> HIDE DEF n
<1>9. InPlace(phase)
  <2>1. \A p \in Existing(phase) : phase[p].position \in Places(phase)
    <3> SUFFICES ASSUME NEW i \in 1..n PROVE i - 1 \in 0..(n - 1)
      BY <1>4, <1>6, <1>8
    <3> QED BY <1>1
  <2>2. \A p, q \in Existing(phase) : p # q => phase[p].position # phase[q].position
    <3> SUFFICES ASSUME NEW i \in 1..n, NEW j \in 1..n, i # j PROVE i - 1 # j - 1
      BY <1>4, <1>6
    <3> QED BY <1>1
  <2>3. ASSUME NEW k \in Places(phase)
        PROVE  \E p \in Existing(phase) : phase[p].position = k
    <3>1. k + 1 \in 1..n /\ (k + 1) - 1 = k BY <1>1, <1>8
    <3>2. phase[First[k + 1]].position = k /\ First[k + 1] \in Existing(phase)
      BY <1>4, <1>6, <3>1
    <3> QED BY <3>2
  <2> QED BY <2>1, <2>2, <2>3 DEF InPlace
<1>10. /\ deps = [p \in Phase |-> {}] /\ link = [t \in Task |-> NoPhase]
       /\ run = [r \in Run |-> [status |-> "none", task |-> CHOOSE t \in Task : TRUE,
                                frozen |-> FALSE, snapshot |-> NoScope,
                                stage |-> "none", scope |-> NoScope]]
       /\ children = [r \in Run |-> {}] /\ writing = NoWriting /\ now = 0
  BY DEF Init, NoWriting
<1>11. PlaceInv
  <2>1. PICK ph : ph = phase OBVIOUS
  <2>2. Ordered(ph, NoWriting) /\ Distinct(ph) BY <1>9, <2>1, LeftInPlace
  <2> QED BY <1>10, <2>1, <2>2 DEF PlaceInv
<1>12. \A p \in Phase : deps[p] = {} BY <1>10
<1>13. DepsInv BY <1>12 DEF DepsInv, Founded, Phases
<1>14. \A p \in Phases : phase[p].status # "ACTIVE"
  BY <1>4, <1>6, PhasesExist
<1>15. PrerequisitesStayAccepted BY <1>14 DEF PrerequisitesStayAccepted
<1>16. ASSUME NEW r \in Run
       PROVE  /\ run[r].status = "none" /\ run[r].stage = "none" /\ ~run[r].frozen
              /\ run[r].snapshot = NoScope /\ run[r].scope = NoScope
              /\ run[r] \in RunRow
  <2>1. (CHOOSE t \in Task : TRUE) \in Task BY PlanningAssumption
  <2>2. NoScope \in Scope BY DEF NoScope, Scope
  <2> QED BY <1>10, <2>1, <2>2 DEF RunRow, Stage
<1>17. RunInv BY <1>16 DEF RunInv, Knows, NoScope
<1>18. LivePlansStayCurrent BY <1>16 DEF LivePlansStayCurrent, ActiveRuns
<1>19. ChildrenFollowTheContract BY <1>10 DEF ChildrenFollowTheContract
<1>20. TypeOK
  <2>1. ASSUME NEW p \in Phase PROVE phase[p] \in PhaseRow
    <3>1. CASE \E i \in 1..n : First[i] = p BY <1>4, <3>1
    <3>2. CASE \A i \in 1..n : First[i] # p
      <4>1. phase[p] = NoRow BY <1>5, <3>2
      <4> QED BY <4>1 DEF NoRow, PhaseRow, PhaseStatus
    <3> QED BY <3>1, <3>2
  <2>2. phase \in [Phase -> PhaseRow] BY <1>2, <2>1
  <2>3. deps \in [Phase -> SUBSET Phases] /\ link \in [Task -> Phases \cup {NoPhase}]
    BY <1>10
  <2>4. run \in [Run -> RunRow] BY <1>10, <1>16
  <2>5. children \in [Run -> SUBSET ChildRow] BY <1>10
  <2>6. writing \in [aside : Statements, home : Statements] BY <1>10 DEF NoWriting, Statements
  <2>7. now \in Nat BY <1>10
  <2> QED BY <2>2, <2>3, <2>4, <2>5, <2>6, <2>7, PlanTypes
<1> QED BY <1>11, <1>13, <1>15, <1>17, <1>18, <1>19, <1>20 DEF PlanInv

LEMMA PlanNext ==
  ASSUME PlanInv, [Next]_vars
  PROVE  PlanInv'
<1>1. CASE UNCHANGED vars
  <2>1. UNCHANGED <<phase, deps, link, run, children, writing, now>> BY <1>1 DEF vars
  <2>2. PlaceInv' /\ DepsInv' /\ PrerequisitesStayAccepted' /\ Phases' = Phases
    BY <2>1, PhasesKept
  <2>3. TypeOK' BY <2>1, <2>2 DEF PlanInv, TypeOK
  <2>4. RunInv' BY <2>1, <2>2 DEF PlanInv, RunInv, Knows, Fresh
  <2>5. LivePlansStayCurrent'
    BY <2>1, <2>2 DEF PlanInv, LivePlansStayCurrent, ActiveRuns
  <2>6. ChildrenFollowTheContract' BY <2>1 DEF PlanInv, ChildrenFollowTheContract
  <2> QED BY <2>2, <2>3, <2>4, <2>5, <2>6 DEF PlanInv
<1>2. CASE Next
  <2> HIDE DEF PlanInv
  <2>1. ASSUME NEW p \in Phase, NEW ids \in SUBSET Phase, Create(p, ids) PROVE PlanInv'
    BY <2>1, PhaseCreated
  <2>2. ASSUME NEW p \in Phase, NEW ids \in SUBSET Phase, NEW m \in BOOLEAN, Update(p, ids, m)
        PROVE  PlanInv'
    BY <2>2, PhaseUpdated
  <2>3. ASSUME NEW p \in Phase, NEW t \in Task, NEW linked \in BOOLEAN,
               Membership(p, t, linked)
        PROVE  PlanInv'
    BY <2>3, LinkMoves
  <2>4. ASSUME NEW p \in Phase, Delete(p) PROVE PlanInv' BY <2>4, PhaseDeleted
  <2>5. ASSUME NEW p \in Phase, Activate(p) \/ Reopen(p) PROVE PlanInv'
    BY <2>5, PhaseMoves
  <2>6. ASSUME NEW place \in Orders, Order(place) PROVE PlanInv' BY <2>6, OrderBegins
  <2>7. CASE WritePosition BY <2>7, PositionWritten
  <2>8. ASSUME NEW r \in Run, NEW t \in Task, StartFrozen(r, t) \/ Start(r, t) PROVE PlanInv'
    BY <2>8, RunStarts
  <2>9. ASSUME NEW r \in Run, Plan(r) PROVE PlanInv' BY <2>9, RunPlans
  <2>10. ASSUME NEW r \in Run, ClaimCreateTasks(r) \/ EndRun(r) PROVE PlanInv'
    BY <2>10, RunGoesOn
  <2>11. ASSUME NEW r \in Run, Materialize(r) PROVE PlanInv' BY <2>11, RunMaterializes
  <2> QED
    BY <1>2, <2>1, <2>2, <2>3, <2>4, <2>5, <2>6, <2>7, <2>8, <2>9, <2>10, <2>11 DEF Next
<1> QED BY <1>1, <1>2

LEMMA PlanSafe == PlanInv => PlansStaySound
<1> SUFFICES ASSUME PlanInv PROVE PlansStaySound OBVIOUS
<1>1. PositionsAreSound
  <2>1. \A p, q \in Phases : p # q => phase[p].position # phase[q].position
    BY PhasesExist DEF PlanInv, PlaceInv, Distinct
  <2>2. ASSUME Unlocked PROVE {phase[p].position : p \in Phases} = 0..(Cardinality(Phases) - 1)
    <3>1. InPlace(phase) /\ Phases = Existing(phase) BY <2>2, Holder
    <3> QED BY <3>1 DEF InPlace, Places
  <2> QED BY <2>1, <2>2 DEF PositionsAreSound
<1>2. PhasesCanBeOrdered
  <2>1. PICK nodes : nodes = Phases OBVIOUS
  <2>2. PICK g : g = deps OBVIOUS
  <2>3. IsFiniteSet(nodes) BY <2>1, Counted, PhasesExist
  <2>4. /\ Founded(g, nodes) /\ \A p \in nodes : g[p] \subseteq nodes
    BY <2>1, <2>2 DEF PlanInv, DepsInv, TypeOK, Phases
  <2>5. PICK rank : Ranks(g, nodes, rank) BY <2>3, <2>4, FoundedIsRanked
  <2> QED BY <2>1, <2>2, <2>5 DEF Ranks, PhasesCanBeOrdered
<1> QED BY <1>1, <1>2 DEF PlanInv, PlansStaySound

(***************************************************************************)
(* Phases stay sound, as the run `configuration` checks it: positions and  *)
(* dependencies leave an order to work in, prerequisites stay accepted,    *)
(* live plans stay current and children follow the contract.               *)
(***************************************************************************)
THEOREM PlansStaySoundAlways == MCSpec => []PlansStaySound
<1>1. MCInit => PlanInv
  BY PlanInit DEF MCInit
<1>2. ASSUME PlanInv, [MCNext]_MCvars PROVE PlanInv'
  <2>1. [Next]_vars BY <1>2 DEF MCNext, MCvars
  <2> QED BY <1>2, <2>1, PlanNext
<1> QED BY <1>1, <1>2, PlanSafe, PTL DEF MCSpec
=============================================================================
