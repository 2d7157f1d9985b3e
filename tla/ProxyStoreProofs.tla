-------------------------- MODULE ProxyStoreProofs --------------------------
(***************************************************************************)
(* What holds of the proxy's configuration store for any number of         *)
(* processes, callers, services, roles, keys and writes.                   *)
(***************************************************************************)
EXTENDS ProxyStore, TLAPS

\* A process that is up has its key, and only such a process has calls.
Keyed ==
    /\ \A p \in Processes : phase[p] # "down" => key[p] \in SecretKeys
    /\ \A c \in Callers : call[c] # Idle => phase[Of[c]] # "down"

\* A start works through the script of what it was given: it has inserted what
\* was missing of the statements behind it, and nobody else has stored that.
InStep(p) ==
    /\ own[p] # {} => phase[p] = "starting"
    /\ \A item \in own[p] : item \in Script(given[p]) /\ ~Stored(item)
    /\ phase[p] = "starting" =>
        /\ given[p] \in Defaults /\ todo[p] \subseteq Script(given[p])
        /\ \A item \in Script(given[p]) \ todo[p] : Stored(item) \/ item \in own[p]

StartsInStep ==
    /\ \A p \in Processes : InStep(p)
    /\ \A p, q \in Processes : p # q => own[p] \cap own[q] = {}

Value(f) == services[f[1]][f[2]]

\* No row is of a write to come, and what a call has set is of its write or later.
WritesInOrder ==
    /\ \A f \in Fields : services[f[1]] # NoRow => Value(f) <= commits
    /\ \A c \in Callers : call[c].at = "done" =>
        /\ call[c].write <= commits
        /\ \A f \in call[c].sets : services[f[1]] # NoRow /\ Value(f) >= call[c].write

\* The inductive invariant.
Inv ==
    /\ TypeOK /\ Keyed /\ StartsInStep /\ WritesInOrder
    /\ DefaultsTogether /\ AcknowledgedWritesStay /\ KeyIsOfConfig

-----------------------------------------------------------------------------
LEMMA RowIsThere == \A row \in Rows : row # NoRow
<1> SUFFICES ASSUME NEW row \in Rows PROVE row # NoRow
  OBVIOUS
<1>1. "config" \in DOMAIN row
  BY DEF Rows
<1>2. "config" \notin DOMAIN NoRow
  BY DEF NoRow
<1>. QED BY <1>1, <1>2

LEMMA FieldsOfRows ==
    ASSUME NEW row \in Rows
    PROVE  /\ row.config \in 0 .. MaxCommits /\ row.token \in 0 .. MaxCommits
           /\ row.sealed \in Envelopes /\ row.role \in Roles
BY DEF Rows

LEMMA FieldsAreTwo ==
    ASSUME NEW f \in Fields
    PROVE  f[1] \in Services /\ (f[2] = "config" \/ f[2] = "token")
BY DEF Fields

\* A row that is written now has the write in every field.
LEMMA RowOfWrite ==
    ASSUME NEW p, key[p] \in SecretKeys, NEW s \in Services, NEW r \in Roles,
           NEW w \in 0 .. MaxCommits
    PROVE  /\ Row(p, s, r, w) \in Rows
           /\ Row(p, s, r, w).config = w /\ Row(p, s, r, w).token = w
           /\ Row(p, s, r, w).sealed.name = s /\ Row(p, s, r, w).sealed.secret = w
BY DEF Row, Sealed, Rows, Envelopes

LEMMA CallsAreApart ==
    /\ Idle # Running /\ Idle.at = "idle" /\ Running.at = "running"
    /\ \A sets, n, returns : /\ Done(sets, n, returns).at = "done"
                             /\ Done(sets, n, returns).sets = sets
                             /\ Done(sets, n, returns).write = n
                             /\ Done(sets, n, returns).returns = returns
                             /\ Done(sets, n, returns) # Idle /\ Done(sets, n, returns) # Running
BY DEF Idle, Running, Done

LEMMA CallTypes ==
    /\ Idle \in Calls /\ Running \in Calls
    /\ \A sets \in SUBSET Fields, n \in 0 .. MaxCommits, returns \in SUBSET Services :
        Done(sets, n, returns) \in Calls
    /\ \A x \in Calls : x.at = "done" =>
        x.sets \in SUBSET Fields /\ x.write \in 0 .. MaxCommits /\ x.returns \in SUBSET Services
BY DEF Calls, Idle, Running, Done

LEMMA CreateIsApart == Create \notin Services /\ Create \notin Roles
BY NamesAssumption DEF Create

\* What is stored is told by its kind.
LEMMA StoredKinds ==
    ASSUME Inv
    PROVE  /\ Stored(Create) <=> tables
           /\ \A r \in Roles : Stored(r) <=> r \in roles
           /\ \A s \in Services : Stored(s) <=> services[s] # NoRow
<1>1. roles \subseteq Roles
  BY DEF Inv, TypeOK
<1>2. Stored(Create) <=> tables
  BY <1>1, CreateIsApart DEF Stored
<1>3. \A r \in Roles : Stored(r) <=> r \in roles
  BY NamesAssumption, CreateIsApart DEF Stored
<1>4. \A s \in Services : Stored(s) <=> services[s] # NoRow
  BY <1>1, NamesAssumption, CreateIsApart DEF Stored
<1>. QED BY <1>2, <1>3, <1>4

LEMMA ScriptItems ==
    ASSUME NEW D \in Defaults
    PROVE  Script(D) \subseteq Items /\ Create \in Script(D) /\ D \subseteq Script(D)
BY DefaultsAssumption DEF Script, Items
-----------------------------------------------------------------------------
(* The database: what one step does to its rows.                             *)

DatabaseOk ==
    /\ tables \in BOOLEAN /\ commits \in 0 .. MaxCommits
    /\ roles \subseteq Roles /\ services \in [Services -> Rows \cup {NoRow}]
    /\ \A s \in Services : services[s] # NoRow =>
        services[s].config <= commits /\ services[s].token <= commits
    /\ KeyIsOfConfig

\* Nothing that is stored goes away, and no field goes back to an earlier write.
Grows ==
    /\ commits <= commits' /\ (tables => tables')
    /\ roles \subseteq roles'
    /\ \A s \in Services : services[s] # NoRow =>
        /\ services'[s] # NoRow
        /\ services'[s].config >= services[s].config /\ services'[s].token >= services[s].token

LEMMA InvDatabase == Inv => DatabaseOk
<1> SUFFICES ASSUME Inv PROVE DatabaseOk
  OBVIOUS
<1>1. ASSUME NEW s \in Services, services[s] # NoRow
      PROVE  services[s].config <= commits /\ services[s].token <= commits
  <2>1. <<s, "config">> \in Fields /\ <<s, "token">> \in Fields
    BY DEF Fields
  <2>. QED BY <1>1, <2>1 DEF Inv, WritesInOrder, Value
<1>. QED BY <1>1 DEF Inv, TypeOK, DatabaseOk

LEMMA SameDatabase ==
    ASSUME DatabaseOk, UNCHANGED database
    PROVE  DatabaseOk' /\ Grows
<1>1. UNCHANGED <<tables, roles, services, commits>>
  BY DEF database
<1>2. DatabaseOk'
  BY <1>1 DEF DatabaseOk, KeyIsOfConfig
<1>3. ASSUME NEW s \in Services, services[s] # NoRow
      PROVE  services[s].config \in Nat /\ services[s].token \in Nat
  BY <1>3, FieldsOfRows DEF DatabaseOk
<1>. QED BY <1>1, <1>2, <1>3 DEF Grows, DatabaseOk

\* One row replaced by that of the next write.
LEMMA RowReplaced ==
    ASSUME DatabaseOk, UNCHANGED <<tables, roles>>, commits < MaxCommits, commits' = commits + 1,
           NEW s \in Services, NEW row \in Rows, services' = [services EXCEPT ![s] = row],
           row.token = commits + 1,
           row.config = commits + 1 \/ (services[s] # NoRow /\ row.config = services[s].config),
           row.sealed.name = s => row.sealed.secret = row.config
    PROVE  DatabaseOk' /\ Grows
<1>1. services'[s] = row /\ \A t \in Services : t # s => services'[t] = services[t]
  BY DEF DatabaseOk
<1>2. /\ services' \in [Services -> Rows \cup {NoRow}]
      /\ commits' \in 0 .. MaxCommits /\ commits \in Nat
  BY NumbersAssumption DEF DatabaseOk
<1>3. ASSUME NEW t \in Services, services[t] # NoRow
      PROVE  services[t].config \in Nat /\ services[t].token \in Nat
  BY <1>3, FieldsOfRows DEF DatabaseOk
<1>4. ASSUME NEW t \in Services, services'[t] # NoRow
      PROVE  services'[t].config <= commits' /\ services'[t].token <= commits'
  BY <1>1, <1>2, <1>3, <1>4 DEF DatabaseOk
<1>5. KeyIsOfConfig'
  BY <1>1 DEF DatabaseOk, KeyIsOfConfig
<1>6. ASSUME NEW t \in Services, services[t] # NoRow
      PROVE  /\ services'[t] # NoRow
             /\ services'[t].config >= services[t].config /\ services'[t].token >= services[t].token
  BY <1>1, <1>2, <1>3, <1>6, RowIsThere DEF DatabaseOk
<1>. QED BY <1>2, <1>4, <1>5, <1>6 DEF DatabaseOk, Grows

LEMMA UpsertEffect ==
    ASSUME Inv, NEW c \in Callers, UpsertService(c)
    PROVE  DatabaseOk' /\ Grows
<1>1. PICK s \in Services, r \in Roles :
        services' = [services EXCEPT ![s] = Row(Of[c], s, r, commits + 1)]
  BY DEF UpsertService, Upserted
<1>2. /\ UNCHANGED <<tables, roles>> /\ commits < MaxCommits /\ commits' = commits + 1
      /\ call[c] = Running
  BY DEF UpsertService, Ran, NextWrite
<1>3. key[Of[c]] \in SecretKeys
  BY <1>2, CallersAssumption, CallsAreApart DEF Inv, Keyed
<1>4. commits + 1 \in 0 .. MaxCommits
  BY <1>2, NumbersAssumption DEF Inv, TypeOK
<1>5. PICK row \in Rows : row = Row(Of[c], s, r, commits + 1)
  BY <1>3, <1>4, RowOfWrite
<1>6. row.config = commits + 1 /\ row.token = commits + 1 /\ row.sealed.secret = row.config
  BY <1>3, <1>4, <1>5, RowOfWrite
<1>7. services' = [services EXCEPT ![s] = row]
  BY <1>1, <1>5
<1>8. DatabaseOk
  BY InvDatabase
<1>. QED BY <1>2, <1>6, <1>7, <1>8, RowReplaced

LEMMA TokenEffect ==
    ASSUME Inv, NEW c \in Callers, UpdateServiceToken(c)
    PROVE  DatabaseOk' /\ Grows
<1>1. PICK s \in Services :
        \/ /\ Stored(s) /\ services' = [services EXCEPT ![s].token = commits + 1]
           /\ NextWrite
        \/ UNCHANGED <<services, commits>>
  BY DEF UpdateServiceToken
<1>2. UNCHANGED <<tables, roles>>
  BY DEF UpdateServiceToken, Ran
<1>3. CASE UNCHANGED <<services, commits>>
  BY <1>2, <1>3, InvDatabase, SameDatabase DEF database
<1>4. CASE /\ Stored(s) /\ services' = [services EXCEPT ![s].token = commits + 1]
           /\ NextWrite
  <2>1. commits < MaxCommits /\ commits' = commits + 1 /\ commits + 1 \in 0 .. MaxCommits
    BY <1>4, NumbersAssumption DEF NextWrite, Inv, TypeOK
  <2>2. services[s] \in Rows /\ services[s] # NoRow
    BY <1>4, NamesAssumption, CreateIsApart DEF Stored, Inv, TypeOK
  <2> DEFINE row == [services[s] EXCEPT !.token = commits + 1]
  <2>3. services' = [services EXCEPT ![s] = row]
    BY <1>4
  <2>4. /\ row \in Rows /\ row.token = commits + 1
        /\ row.config = services[s].config /\ row.sealed = services[s].sealed
    BY <2>1, <2>2 DEF Rows
  <2> HIDE DEF row
  <2>5. row.sealed.name = s => row.sealed.secret = row.config
    BY <2>2, <2>4 DEF Inv, KeyIsOfConfig
  <2>. QED BY <1>2, <2>1, <2>2, <2>3, <2>4, <2>5, RowReplaced, InvDatabase
<1>. QED BY <1>1, <1>3, <1>4

LEMMA RoleEffect ==
    ASSUME Inv, NEW c \in Callers, UpsertRole(c)
    PROVE  DatabaseOk' /\ Grows
<1>1. PICK r \in Roles : roles' = roles \cup {r}
  BY DEF UpsertRole
<1>2. UNCHANGED <<tables, services, commits>>
  BY DEF UpsertRole, Ran
<1>3. DatabaseOk
  BY InvDatabase
<1>4. ASSUME NEW t \in Services, services[t] # NoRow
      PROVE  services[t].config \in Nat /\ services[t].token \in Nat
  BY <1>3, <1>4, FieldsOfRows DEF DatabaseOk
<1>5. KeyIsOfConfig'
  BY <1>2, <1>3 DEF DatabaseOk, KeyIsOfConfig
<1>. QED BY <1>1, <1>2, <1>3, <1>4, <1>5 DEF DatabaseOk, Grows

\* What the transaction of a start leaves are rows that were not there.
LEMMA LeaveEffect ==
    ASSUME Inv, NEW p \in Processes, NEW items \in SUBSET Items, Leave(p, items),
           phase[p] # "down", \A item \in items : ~Stored(item)
    PROVE  DatabaseOk' /\ Grows
<1>1. DatabaseOk /\ UNCHANGED commits /\ commits \in Nat /\ 0 \in 0 .. MaxCommits
  BY InvDatabase, NumbersAssumption DEF Leave, DatabaseOk
<1>2. tables' \in BOOLEAN /\ (tables => tables')
  BY <1>1 DEF Leave, DatabaseOk
<1>3. roles' \subseteq Roles /\ roles \subseteq roles'
  BY <1>1 DEF Leave, DatabaseOk
<1>4. ASSUME NEW s \in Services, s \in items
      PROVE  /\ services[s] = NoRow /\ services'[s] = Row(p, s, RoleOf[s], 0)
             /\ Row(p, s, RoleOf[s], 0) \in Rows
             /\ services'[s].config = 0 /\ services'[s].token = 0
             /\ services'[s].sealed.secret = 0
  <2>1. services[s] = NoRow /\ services'[s] = Row(p, s, RoleOf[s], 0)
    BY <1>4 DEF Leave, Stored
  <2>2. RoleOf[s] \in Roles /\ key[p] \in SecretKeys
    BY DefaultsAssumption DEF Inv, Keyed
  <2>. QED BY <1>1, <2>1, <2>2, RowOfWrite
<1>5. \A s \in Services : s \notin items => services'[s] = services[s]
  BY DEF Leave
<1>6. ASSUME NEW s \in Services
      PROVE  services'[s] \in Rows \cup {NoRow}
  BY <1>1, <1>4, <1>5 DEF DatabaseOk
<1>7. services' \in [Services -> Rows \cup {NoRow}]
  BY <1>6 DEF Leave
<1>8. ASSUME NEW t \in Services, services[t] # NoRow
      PROVE  /\ services'[t] = services[t]
             /\ services[t].config \in Nat /\ services[t].token \in Nat
  BY <1>1, <1>4, <1>5, <1>8, FieldsOfRows DEF DatabaseOk
<1>9. ASSUME NEW t \in Services, services'[t] # NoRow
      PROVE  /\ services'[t].config <= commits /\ services'[t].token <= commits
             /\ services'[t].sealed.name = t => services'[t].sealed.secret = services'[t].config
  BY <1>1, <1>4, <1>5, <1>9 DEF DatabaseOk, KeyIsOfConfig
<1>. QED BY <1>1, <1>2, <1>3, <1>7, <1>8, <1>9 DEF DatabaseOk, KeyIsOfConfig, Grows

\* Two rows that lose their own keys lose them both.
LEMMA ExchangeEffect ==
    ASSUME Inv, Exchanged
    PROVE  DatabaseOk' /\ Grows
<1>1. PICK s \in Services, t \in Services :
        /\ s # t /\ Stored(s) /\ Stored(t)
        /\ services[s].sealed.name = s /\ services[t].sealed.name = t
        /\ services' = [services EXCEPT ![s].sealed = services[t].sealed,
                                        ![t].sealed = services[s].sealed]
  BY DEF Exchanged
<1>2. DatabaseOk /\ UNCHANGED <<tables, roles, commits>> /\ commits \in Nat
  BY InvDatabase DEF Exchanged, DatabaseOk
<1>3. services[s] \in Rows /\ services[t] \in Rows
  BY <1>1, <1>2, CreateIsApart, NamesAssumption DEF DatabaseOk, Stored
<1> DEFINE a == [services[s] EXCEPT !.sealed = services[t].sealed]
           b == [services[t] EXCEPT !.sealed = services[s].sealed]
<1>4. services' = [services EXCEPT ![s] = a, ![t] = b]
  BY <1>1, <1>2 DEF DatabaseOk
<1>5. /\ a \in Rows /\ a.config = services[s].config /\ a.token = services[s].token
      /\ a.sealed = services[t].sealed
      /\ b \in Rows /\ b.config = services[t].config /\ b.token = services[t].token
      /\ b.sealed = services[s].sealed
  BY <1>3 DEF Rows
<1> HIDE DEF a, b
<1>6. /\ services'[s] = a /\ services'[t] = b
      /\ \A u \in Services : u # s /\ u # t => services'[u] = services[u]
      /\ services' \in [Services -> Rows \cup {NoRow}]
  BY <1>1, <1>2, <1>4, <1>5 DEF DatabaseOk
<1>7. ASSUME NEW u \in Services, services[u] # NoRow
      PROVE  services[u].config \in Nat /\ services[u].token \in Nat
  BY <1>2, <1>7, FieldsOfRows DEF DatabaseOk
<1>8. a # NoRow /\ b # NoRow /\ services[s] # NoRow /\ services[t] # NoRow
  BY <1>3, <1>5, RowIsThere
<1>9. ASSUME NEW u \in Services, services[u] # NoRow \/ services'[u] # NoRow
      PROVE  /\ services[u] # NoRow /\ services'[u] # NoRow
             /\ services'[u].config = services[u].config /\ services'[u].token = services[u].token
  BY <1>5, <1>6, <1>8, <1>9
<1>10. KeyIsOfConfig'
  <2> SUFFICES ASSUME NEW u \in Services, services'[u] # NoRow, services'[u].sealed.name = u
               PROVE  services'[u].sealed.secret = services'[u].config
    BY DEF KeyIsOfConfig
  <2>1. u # s /\ u # t
    BY <1>1, <1>5, <1>6
  <2>. QED BY <1>2, <1>6, <2>1 DEF DatabaseOk, KeyIsOfConfig
<1>. QED BY <1>2, <1>6, <1>7, <1>9, <1>10 DEF DatabaseOk, Grows

-----------------------------------------------------------------------------
(* What each step leaves alone.                                              *)

\* A step of a caller that writes nothing.
CallerOnly(c) ==
    Request(c) \/ ReadServices(c) \/ ReadOther(c) \/ Acknowledge(c) \/ CallFails(c)

Writes(c) == UpsertService(c) \/ UpdateServiceToken(c) \/ UpsertRole(c)

LEMMA DatabaseStep == Inv /\ [Next]_vars => DatabaseOk' /\ Grows
<1> SUFFICES ASSUME Inv, [Next]_vars PROVE DatabaseOk' /\ Grows
  OBVIOUS
<1>1. ASSUME NEW p \in Processes, Commit(p)
      PROVE  DatabaseOk' /\ Grows
  <2>1. own[p] \in SUBSET Items /\ \A item \in own[p] : ~Stored(item)
    BY DEF Inv, TypeOK, StartsInStep, InStep
  <2>2. Leave(p, own[p]) /\ phase[p] # "down"
    BY <1>1 DEF Commit
  <2>. QED BY <2>1, <2>2, LeaveEffect
<1>2. ASSUME NEW p \in Processes, StartFails(p)
      PROVE  DatabaseOk' /\ Grows
  BY <1>2, LeaveEffect DEF StartFails, AfterFailure
<1>3. ASSUME NEW p \in Processes,
             CreatePool(p) \/ Insert(p) \/ Close(p) \/ Closed(p) \/ Killed(p)
      PROVE  UNCHANGED database
  BY <1>3 DEF CreatePool, Insert, Close, Closed, Killed, database
<1>4. ASSUME NEW c \in Callers, CallerOnly(c)
      PROVE  UNCHANGED database
  BY <1>4 DEF CallerOnly, Request, ReadServices, ReadOther, Acknowledge, CallFails, Ran, database
<1>5. CASE UNCHANGED vars
  BY <1>5, InvDatabase, SameDatabase DEF vars
<1>. QED
  BY <1>1, <1>2, <1>3, <1>4, <1>5, UpsertEffect, TokenEffect, RoleEffect, ExchangeEffect,
     InvDatabase, SameDatabase
     DEF Next, CallerOnly

LEMMA StoredGrows ==
    ASSUME Inv, [Next]_vars, NEW item, Stored(item)
    PROVE  Stored(item)'
BY DatabaseStep DEF Stored, Grows

-----------------------------------------------------------------------------
(* The starts.                                                               *)

\* A start that does not move stays in step while nobody stores its rows.
LEMMA StartStays ==
    ASSUME Inv, [Next]_vars, NEW p \in Processes,
           own'[p] = own[p], todo'[p] = todo[p], phase'[p] = phase[p], given'[p] = given[p],
           \A item \in own[p] : ~Stored(item)'
    PROVE  InStep(p)'
<1>1. InStep(p)
  BY DEF Inv, StartsInStep
<1>. QED BY <1>1, StoredGrows DEF InStep, Script

\* Steps in which every transaction stays as it is, or is over.
LEMMA StartsEnd ==
    ASSUME Inv, [Next]_vars,
           \A p \in Processes :
            \/ /\ own'[p] = own[p] /\ todo'[p] = todo[p] /\ phase'[p] = phase[p]
               /\ given'[p] = given[p]
            \/ own'[p] = {} /\ phase'[p] # "starting"
            \/ /\ own'[p] = {} /\ given'[p] \in Defaults /\ todo'[p] = Script(given'[p]),
           \A p \in Processes : \A item \in own[p] : ~Stored(item)'
    PROVE  StartsInStep'
<1>1. ASSUME NEW p \in Processes
      PROVE  InStep(p)'
  <2>1. CASE /\ own'[p] = own[p] /\ todo'[p] = todo[p] /\ phase'[p] = phase[p]
             /\ given'[p] = given[p]
    BY <2>1, StartStays
  <2>2. CASE own'[p] = {} /\ phase'[p] # "starting"
    BY <2>2 DEF InStep
  <2>3. CASE /\ own'[p] = {} /\ given'[p] \in Defaults /\ todo'[p] = Script(given'[p])
    BY <2>3 DEF InStep, Script
  <2>. QED BY <2>1, <2>2, <2>3
<1>2. \A p, q \in Processes : p # q => own'[p] \cap own'[q] = {}
  BY DEF Inv, StartsInStep
<1>. QED BY <1>1, <1>2 DEF StartsInStep

LEMMA UnstoredSame ==
    ASSUME Inv, UNCHANGED <<tables, roles>>,
           \A s \in Services : services'[s] # NoRow => services[s] # NoRow
    PROVE  \A p \in Processes : \A item \in own[p] : ~Stored(item)'
BY DEF Stored, Inv, StartsInStep, InStep

\* A write waits for the row when a start has inserted it, and changes no other.
LEMMA WritesWait ==
    ASSUME Inv, NEW c \in Callers, Writes(c)
    PROVE  \A p \in Processes : \A item \in own[p] : ~Stored(item)'
<1> SUFFICES ASSUME NEW p \in Processes, NEW item \in own[p]
             PROVE  ~Stored(item)'
  OBVIOUS
<1>1. ~Stored(item)
  BY DEF Inv, StartsInStep, InStep
<1>2. CASE UpsertService(c)
  <2>1. PICK s \in Services : ~Held(s) /\ \E row : services' = [services EXCEPT ![s] = row]
    BY <1>2 DEF UpsertService
  <2>2. UNCHANGED <<tables, roles>>
    BY <1>2 DEF UpsertService, Ran
  <2>3. item # s
    BY <2>1 DEF Held
  <2>. QED BY <1>1, <2>1, <2>2, <2>3 DEF Stored, Inv, TypeOK
<1>3. CASE UpdateServiceToken(c)
  <2>1. PICK s \in Services :
          \/ Stored(s) /\ services' = [services EXCEPT ![s].token = commits + 1]
          \/ UNCHANGED services
    BY <1>3 DEF UpdateServiceToken
  <2>2. UNCHANGED <<tables, roles>>
    BY <1>3 DEF UpdateServiceToken, Ran
  <2>3. CASE UNCHANGED services
    BY <1>1, <2>2, <2>3 DEF Stored
  <2>4. CASE Stored(s) /\ services' = [services EXCEPT ![s].token = commits + 1]
    BY <1>1, <2>2, <2>4 DEF Stored, Inv, TypeOK
  <2>. QED BY <2>1, <2>3, <2>4
<1>4. CASE UpsertRole(c)
  <2>1. PICK r \in Roles : ~Held(r) /\ roles' = roles \cup {r}
    BY <1>4 DEF UpsertRole
  <2>2. UNCHANGED <<tables, services>>
    BY <1>4 DEF UpsertRole, Ran
  <2>3. item # r
    BY <2>1 DEF Held
  <2>. QED BY <1>1, <2>1, <2>2, <2>3 DEF Stored
<1>. QED BY <1>2, <1>3, <1>4 DEF Writes

\* What another transaction has inserted is not inserted again.
LEMMA InsertKeeps ==
    ASSUME Inv, [Next]_vars, NEW p \in Processes, Insert(p)
    PROVE  StartsInStep' /\ own' \in [Processes -> SUBSET Items] /\ todo' \in [Processes -> SUBSET Items]
<1>1. PICK item \in Due(p) :
        /\ ~Locked(p, item)
        /\ todo' = [todo EXCEPT ![p] = @ \ {item}]
        /\ own' = [own EXCEPT ![p] = IF Stored(item) THEN @ ELSE @ \cup {item}]
  BY DEF Insert
<1>2. phase[p] = "starting" /\ UNCHANGED <<phase, given, tables, roles, services>>
  BY DEF Insert, database
<1>3. InStep(p) /\ item \in todo[p] /\ item \in Script(given[p]) /\ item \in Items
  BY <1>1, <1>2 DEF Due, Inv, TypeOK, StartsInStep, InStep
<1>4. \A i : Stored(i)' <=> Stored(i)
  BY <1>2 DEF Stored
<1>5. /\ own'[p] = IF Stored(item) THEN own[p] ELSE own[p] \cup {item}
      /\ todo'[p] = todo[p] \ {item}
      /\ \A q \in Processes : q # p => own'[q] = own[q] /\ todo'[q] = todo[q]
  BY <1>1 DEF Inv, TypeOK
<1>6. ASSUME NEW q \in Processes
      PROVE  InStep(q)'
  <2>1. CASE q = p
    BY <1>2, <1>3, <1>4, <1>5, <2>1 DEF InStep, Script
  <2>2. CASE q # p
    <3>1. InStep(q)
      BY DEF Inv, StartsInStep
    <3>. QED BY <1>2, <1>4, <1>5, <2>2, <3>1 DEF InStep, Script
  <2>. QED BY <2>1, <2>2
<1>7. ASSUME NEW q \in Processes, NEW r \in Processes, q # r
      PROVE  own'[q] \cap own'[r] = {}
  <2>1. \A s \in Processes : s # p => item \notin own[s]
    BY <1>1 DEF Locked
  <2>2. own[q] \cap own[r] = {}
    BY <1>7 DEF Inv, StartsInStep
  <2>3. own'[q] \subseteq own[q] \cup {item} /\ own'[r] \subseteq own[r] \cup {item}
    BY <1>5
  <2>4. (item \in own'[q] => q = p \/ item \in own[q]) /\ (item \in own'[r] => r = p \/ item \in own[r])
    BY <1>5
  <2>. QED BY <1>7, <2>1, <2>2, <2>3, <2>4
<1>8. own' \in [Processes -> SUBSET Items] /\ todo' \in [Processes -> SUBSET Items]
  BY <1>1, <1>3 DEF Inv, TypeOK
<1>. QED BY <1>6, <1>7, <1>8 DEF StartsInStep

\* A commit leaves all that the start was given and only that, and nobody else
\* was at its rows.
LEMMA CommitKeeps ==
    ASSUME Inv, [Next]_vars, NEW p \in Processes, Commit(p)
    PROVE  /\ StartsInStep' /\ tables' /\ given[p] \in Defaults
           /\ \A item \in given[p] : Stored(item)'
<1>1. /\ phase[p] = "starting" /\ todo[p] = {} /\ Leave(p, own[p])
      /\ own' = [own EXCEPT ![p] = {}] /\ phase' = [phase EXCEPT ![p] = "ready"]
      /\ UNCHANGED <<given, todo>>
  BY DEF Commit, Become
<1>2. InStep(p)
  BY DEF Inv, StartsInStep
<1>3. given[p] \in Defaults /\ \A item \in Script(given[p]) : Stored(item) \/ item \in own[p]
  BY <1>1, <1>2 DEF InStep
<1>4. tables'
  BY <1>1, <1>3, ScriptItems, StoredKinds DEF Leave
<1>5. ASSUME NEW item \in own[p], item # Create
      PROVE  Stored(item)'
  <2>1. item \in Roles \cup Services
    BY <1>5 DEF Inv, TypeOK, Items
  <2>2. CASE item \in Roles
    BY <1>1, <2>2 DEF Leave, Stored
  <2>3. CASE item \in Services
    <3>1. services'[item] = Row(p, item, RoleOf[item], 0)
      BY <1>1, <2>3 DEF Leave
    <3>2. Row(p, item, RoleOf[item], 0) \in Rows
      BY <1>1, <2>3, DefaultsAssumption, NumbersAssumption, RowOfWrite DEF Inv, Keyed
    <3>. QED BY <2>3, <3>1, <3>2, RowIsThere DEF Stored
  <2>. QED BY <2>1, <2>2, <2>3
<1>6. \A item \in given[p] : Stored(item)'
  <2> SUFFICES ASSUME NEW item \in given[p] PROVE Stored(item)'
    OBVIOUS
  <2>1. item # Create /\ item \in Script(given[p])
    BY <1>3, ScriptItems, DefaultsAssumption, CreateIsApart
  <2>. QED BY <1>3, <1>5, <2>1, StoredGrows
<1>7. ASSUME NEW q \in Processes, q # p, NEW item \in own[q]
      PROVE  ~Stored(item)'
  <2>1. item \notin own[p] /\ ~Stored(item)
    BY <1>7 DEF Inv, StartsInStep, InStep
  <2>. QED BY <1>1, <2>1 DEF Leave, Stored
<1>8. ASSUME NEW q \in Processes
      PROVE  InStep(q)'
  <2>1. CASE q = p
    BY <1>1, <2>1 DEF InStep, Inv, TypeOK
  <2>2. CASE q # p
    <3>1. own'[q] = own[q] /\ todo'[q] = todo[q] /\ phase'[q] = phase[q] /\ given'[q] = given[q]
      BY <1>1, <2>2
    <3>. QED BY <1>7, <2>2, <3>1, StartStays
  <2>. QED BY <2>1, <2>2
<1>9. \A q, r \in Processes : q # r => own'[q] \cap own'[r] = {}
  BY <1>1 DEF Inv, TypeOK, StartsInStep
<1>. QED BY <1>3, <1>4, <1>6, <1>8, <1>9 DEF StartsInStep

\* A rollback leaves nothing.
LEMMA StartFailsKeeps ==
    ASSUME Inv, [Next]_vars, NEW p \in Processes, StartFails(p)
    PROVE  StartsInStep' /\ UNCHANGED <<tables, roles, services, commits>>
<1>1. /\ Leave(p, {}) /\ own' = [own EXCEPT ![p] = {}] /\ todo' = [todo EXCEPT ![p] = {}]
      /\ phase' = [phase EXCEPT ![p] = "failed"] /\ given' = [given EXCEPT ![p] = {}]
  BY DEF StartFails, AfterFailure, Become
<1>2. tables' = tables /\ commits' = commits /\ roles' = roles
  BY <1>1 DEF Leave, Inv, TypeOK
<1>3. services' = services
  BY <1>1 DEF Leave, Inv, TypeOK
<1>4. \A q \in Processes :
        \/ /\ own'[q] = own[q] /\ todo'[q] = todo[q] /\ phase'[q] = phase[q]
           /\ given'[q] = given[q]
        \/ own'[q] = {} /\ phase'[q] # "starting"
  BY <1>1 DEF Inv, TypeOK
<1>5. StartsInStep'
  BY <1>2, <1>3, <1>4, UnstoredSame, StartsEnd
<1>. QED BY <1>2, <1>3, <1>5

LEMMA StartsStep == Inv /\ [Next]_vars => StartsInStep'
<1> SUFFICES ASSUME Inv, [Next]_vars PROVE StartsInStep'
  OBVIOUS
<1>1. ASSUME NEW p \in Processes, CreatePool(p) \/ Close(p) \/ Closed(p) \/ Killed(p)
      PROVE  StartsInStep'
  <2>1. UNCHANGED <<tables, roles, services>>
    BY <1>1 DEF CreatePool, Close, Closed, Killed, database
  <2>2. own[p] # {} => phase[p] = "starting"
    BY DEF Inv, StartsInStep, InStep
  <2>3. ASSUME NEW q \in Processes
        PROVE  \/ /\ own'[q] = own[q] /\ todo'[q] = todo[q] /\ phase'[q] = phase[q]
                  /\ given'[q] = given[q]
               \/ own'[q] = {} /\ phase'[q] # "starting"
               \/ /\ own'[q] = {} /\ given'[q] \in Defaults /\ todo'[q] = Script(given'[q])
    <3>1. CASE CreatePool(p)
      <4>1. PICK D \in Defaults :
              given' = [given EXCEPT ![p] = D] /\ todo' = [todo EXCEPT ![p] = Script(D)]
        BY <3>1 DEF CreatePool
      <4>. QED BY <2>2, <3>1, <4>1 DEF CreatePool, Become, Inv, TypeOK
    <3>2. CASE Close(p)
      BY <2>2, <3>2 DEF Close, Become, Inv, TypeOK
    <3>3. CASE Closed(p)
      BY <2>2, <3>3 DEF Closed, Become, Inv, TypeOK
    <3>4. CASE Killed(p)
      BY <2>2, <3>4 DEF Killed, Become, Inv, TypeOK
    <3>. QED BY <1>1, <3>1, <3>2, <3>3, <3>4
  <2>. QED BY <2>1, <2>3, UnstoredSame, StartsEnd
<1>2. ASSUME UNCHANGED starts, \A p \in Processes : \A item \in own[p] : ~Stored(item)'
      PROVE  StartsInStep'
  BY <1>2, StartsEnd DEF starts
<1>3. ASSUME NEW c \in Callers, CallerOnly(c)
      PROVE  StartsInStep'
  <2>1. UNCHANGED starts /\ UNCHANGED <<tables, roles, services>>
    BY <1>3 DEF CallerOnly, Request, ReadServices, ReadOther, Acknowledge, CallFails, Ran, database
  <2>. QED BY <1>2, <2>1, UnstoredSame
<1>4. ASSUME NEW c \in Callers, Writes(c)
      PROVE  StartsInStep'
  <2>1. UNCHANGED starts
    BY <1>4 DEF Writes, UpsertService, UpdateServiceToken, UpsertRole, Ran
  <2>. QED BY <1>2, <1>4, <2>1, WritesWait
<1>5. CASE Exchanged
  <2>1. UNCHANGED starts /\ UNCHANGED <<tables, roles>>
    BY <1>5 DEF Exchanged
  <2>2. PICK s \in Services, t \in Services :
          /\ Stored(s) /\ Stored(t)
          /\ services' = [services EXCEPT ![s].sealed = services[t].sealed,
                                          ![t].sealed = services[s].sealed]
    BY <1>5 DEF Exchanged
  <2>3. services[s] # NoRow /\ services[t] # NoRow
    BY <2>2, StoredKinds
  <2>4. \A u \in Services : u # s /\ u # t => services'[u] = services[u]
    BY <2>2 DEF Inv, TypeOK
  <2>. QED BY <1>2, <2>1, <2>3, <2>4, UnstoredSame
<1>6. CASE UNCHANGED vars
  BY <1>2, <1>6, UnstoredSame DEF vars, database
<1>. QED
  BY <1>1, <1>3, <1>4, <1>5, <1>6, InsertKeeps, CommitKeeps, StartFailsKeeps
     DEF Next, CallerOnly, Writes
-----------------------------------------------------------------------------
(* The types, the processes and their callers.                               *)

LEMMA StartTypes ==
    ASSUME Inv, [Next]_vars
    PROVE  /\ phase' \in [Processes -> {"down", "starting", "ready", "failed", "closing"}]
           /\ key' \in [Processes -> SecretKeys \cup {"none"}]
           /\ given' \in [Processes -> Defaults \cup {{}}]
           /\ todo' \in [Processes -> SUBSET Items] /\ own' \in [Processes -> SUBSET Items]
<1>1. ASSUME NEW p \in Processes,
             CreatePool(p) \/ Commit(p) \/ StartFails(p) \/ Close(p) \/ Closed(p) \/ Killed(p)
      PROVE  /\ phase' = [phase EXCEPT ![p] = phase'[p]]
             /\ phase'[p] \in {"down", "starting", "ready", "failed", "closing"}
             /\ key' = [key EXCEPT ![p] = key'[p]] /\ key'[p] \in SecretKeys \cup {"none"}
             /\ given' = [given EXCEPT ![p] = given'[p]] /\ given'[p] \in Defaults \cup {{}}
             /\ todo' = [todo EXCEPT ![p] = todo'[p]] /\ todo'[p] \subseteq Items
             /\ own' = [own EXCEPT ![p] = own'[p]] /\ own'[p] \in {own[p], {}}
  <2>1. CASE CreatePool(p)
    <3>1. PICK D \in Defaults :
            given' = [given EXCEPT ![p] = D] /\ todo' = [todo EXCEPT ![p] = Script(D)]
      BY <2>1 DEF CreatePool
    <3>2. Script(D) \subseteq Items
      BY ScriptItems
    <3>. QED BY <2>1, <3>1, <3>2 DEF CreatePool, Become, Inv, TypeOK
  <2>2. CASE ~CreatePool(p)
    BY <1>1, <2>2 DEF Commit, StartFails, Close, Closed, Killed, Become, Inv, TypeOK
  <2>. QED BY <2>1, <2>2
<1>2. ASSUME NEW p \in Processes, Insert(p)
      PROVE  UNCHANGED <<phase, key, given>>
  BY <1>2 DEF Insert
<1>3. ASSUME NEW c \in Callers, CallerOnly(c) \/ Writes(c)
      PROVE  UNCHANGED starts
  BY <1>3 DEF CallerOnly, Writes, Request, ReadServices, ReadOther, Acknowledge, CallFails,
              UpsertService, UpdateServiceToken, UpsertRole, Ran
<1>4. CASE Exchanged \/ UNCHANGED vars
  BY <1>4 DEF Exchanged, vars, starts, Inv, TypeOK
<1>5. ASSUME UNCHANGED starts
      PROVE  UNCHANGED <<phase, key, given, todo, own>>
  BY <1>5 DEF starts
<1>6. CASE \E p \in Processes :
        CreatePool(p) \/ Commit(p) \/ StartFails(p) \/ Close(p) \/ Closed(p) \/ Killed(p)
  BY <1>1, <1>6 DEF Inv, TypeOK
<1>7. CASE \E p \in Processes : Insert(p)
  BY <1>2, <1>7, InsertKeeps DEF Inv, TypeOK
<1>8. CASE \E c \in Callers : CallerOnly(c) \/ Writes(c)
  BY <1>3, <1>5, <1>8 DEF Inv, TypeOK
<1>. QED BY <1>4, <1>6, <1>7, <1>8 DEF Next, CallerOnly, Writes

\* A caller's own steps are the only ones that end its call, but for a kill.
LEMMA CallsOfStarts ==
    ASSUME Inv, [Next]_vars, NEW p \in Processes,
           CreatePool(p) \/ Insert(p) \/ Commit(p) \/ StartFails(p) \/ Close(p) \/ Closed(p) \/ Killed(p)
    PROVE  /\ call' \in [Callers -> Calls] /\ UNCHANGED acked
           /\ \A c \in Callers : call'[c] = call[c] \/ call'[c] = Idle
           /\ Keyed'
<1>1. /\ call' \in [Callers -> Calls]
      /\ \A c \in Callers : call'[c] = call[c] \/ call'[c] = Idle
      /\ \A c \in Callers : Killed(p) /\ Of[c] = p => call'[c] = Idle
  <2>1. CASE Killed(p)
    BY <2>1, CallTypes DEF Killed, Inv, TypeOK
  <2>2. CASE ~Killed(p)
    BY <2>2 DEF CreatePool, Insert, Commit, StartFails, Close, Closed, Inv, TypeOK
  <2>. QED BY <2>1, <2>2
<1>2. UNCHANGED acked
  BY DEF CreatePool, Insert, Commit, StartFails, Close, Closed, Killed
<1>3. /\ \A q \in Processes : q # p => phase'[q] = phase[q] /\ key'[q] = key[q]
      /\ phase'[p] # "down" => key'[p] \in SecretKeys
  BY DEF CreatePool, Insert, Commit, StartFails, Close, Closed, Killed, Become, Inv, TypeOK, Keyed
<1>4. ASSUME NEW c \in Callers, call'[c] # Idle
      PROVE  phase'[Of[c]] # "down"
  <2>1. Of[c] \in Processes /\ call[c] # Idle /\ phase[Of[c]] # "down"
    BY <1>1, <1>4, CallersAssumption DEF Inv, Keyed
  <2>2. CASE Of[c] # p
    BY <1>3, <2>1, <2>2
  <2>3. CASE Of[c] = p
    BY <1>1, <1>4, <2>1, <2>3 DEF CreatePool, Insert, Commit, StartFails, Close, Closed, Become, Inv, TypeOK
  <2>. QED BY <2>2, <2>3
<1>. QED BY <1>1, <1>2, <1>3, <1>4 DEF Inv, Keyed

LEMMA KeyedSame ==
    ASSUME Inv, UNCHANGED starts,
           \A c \in Callers : call'[c] = Idle \/ call[c] # Idle \/ phase[Of[c]] # "down"
    PROVE  Keyed'
<1>1. UNCHANGED <<phase, key>>
  BY DEF starts
<1>. QED BY <1>1 DEF Inv, Keyed

LEMMA FieldsGrow ==
    ASSUME Inv, [Next]_vars, NEW f \in Fields
    PROVE  /\ services[f[1]] # NoRow => services'[f[1]] # NoRow /\ Value(f)' >= Value(f)
           /\ services[f[1]] # NoRow => Value(f) \in Nat
           /\ services'[f[1]] # NoRow => Value(f)' \in Nat /\ Value(f)' <= commits'
<1>1. DatabaseOk /\ DatabaseOk' /\ Grows
  BY InvDatabase, DatabaseStep
<1>2. /\ services[f[1]] # NoRow => services[f[1]] \in Rows
      /\ services'[f[1]] # NoRow => services'[f[1]] \in Rows
  BY <1>1, FieldsAreTwo DEF DatabaseOk
<1>3. CASE f[2] = "config"
  BY <1>1, <1>2, <1>3, FieldsAreTwo, FieldsOfRows DEF DatabaseOk, Grows, Value
<1>4. CASE f[2] = "token"
  BY <1>1, <1>2, <1>4, FieldsAreTwo, FieldsOfRows DEF DatabaseOk, Grows, Value
<1>. QED BY <1>3, <1>4, FieldsAreTwo
-----------------------------------------------------------------------------
(* The calls and their answers.                                              *)

\* What a call has set is there when it has run.
Answerable(x) ==
    x.at = "done" =>
        /\ x.write <= commits
        /\ \A f \in x.sets : services[f[1]] # NoRow /\ Value(f) >= x.write

\* A call that stays as it is remains answerable: fields only grow.
LEMMA AnswerableStays ==
    ASSUME Inv, [Next]_vars, NEW x \in Calls, Answerable(x)
    PROVE  Answerable(x)'
<1> SUFFICES ASSUME x.at = "done"
             PROVE  /\ x.write <= commits'
                    /\ \A f \in x.sets : services'[f[1]] # NoRow /\ Value(f)' >= x.write
  BY DEF Answerable
<1>1. x.sets \in SUBSET Fields /\ x.write \in Nat
  BY CallTypes
<1>2. x.write <= commits /\ \A f \in x.sets : services[f[1]] # NoRow /\ Value(f) >= x.write
  BY DEF Answerable
<1>3. commits <= commits' /\ commits \in Nat /\ commits' \in Nat
  BY DatabaseStep, InvDatabase DEF Grows, DatabaseOk
<1>4. ASSUME NEW f \in x.sets
      PROVE  services'[f[1]] # NoRow /\ Value(f)' >= x.write
  BY <1>1, <1>2, <1>4, FieldsGrow
<1>. QED BY <1>1, <1>2, <1>3, <1>4

LEMMA RanKeeps ==
    ASSUME Inv, NEW c \in Callers, NEW sets \in SUBSET Fields, NEW n \in 0 .. MaxCommits,
           NEW returns \in SUBSET Services, Ran(c, sets, n, returns), n <= commits',
           \A f \in sets : services'[f[1]] # NoRow /\ Value(f)' >= n
    PROVE  /\ call' \in [Callers -> Calls] /\ \A d \in Callers : d # c => call'[d] = call[d]
           /\ call[c] = Running /\ Answerable(call[c])'
<1>1. call[c] = Running /\ call' = [call EXCEPT ![c] = Done(sets, n, returns)]
  BY DEF Ran
<1>2. Done(sets, n, returns) \in Calls
  BY CallTypes
<1>3. call'[c] = Done(sets, n, returns)
  BY <1>1 DEF Inv, TypeOK
<1>4. /\ call'[c].write = n /\ call'[c].sets = sets
  BY <1>3, CallsAreApart
<1>5. Answerable(call[c])'
  BY <1>4 DEF Answerable
<1>. QED BY <1>1, <1>2, <1>5 DEF Inv, TypeOK

LEMMA CallsOfCallers ==
    ASSUME Inv, [Next]_vars, NEW c \in Callers, CallerOnly(c) \/ Writes(c)
    PROVE  /\ call' \in [Callers -> Calls] /\ \A d \in Callers : d # c => call'[d] = call[d]
           /\ Answerable(call[c])'
           /\ call[c] # Idle \/ phase[Of[c]] # "down"
<1>1. \A n \in {0} : n \in 0 .. MaxCommits /\ n <= commits /\ commits \in Nat
  BY NumbersAssumption DEF Inv, TypeOK
<1>2. {} \in SUBSET Fields /\ {} \in SUBSET Services
  OBVIOUS
<1>3. ASSUME NEW returns \in SUBSET Services, Ran(c, {}, 0, returns)
      PROVE  /\ call' \in [Callers -> Calls] /\ \A d \in Callers : d # c => call'[d] = call[d]
             /\ Answerable(call[c])' /\ call[c] = Running
  <2>1. 0 <= commits' /\ 0 \in 0 .. MaxCommits
    BY <1>1, DatabaseStep DEF DatabaseOk
  <2>. QED BY <1>2, <1>3, <2>1, RanKeeps
<1>4. CASE Request(c) \/ Acknowledge(c) \/ CallFails(c)
  <2>1. call' = [call EXCEPT ![c] = Running] \/ call' = [call EXCEPT ![c] = Idle]
    BY <1>4 DEF Request, Acknowledge, CallFails
  <2>2. call'[c] \in {Idle, Running} /\ call'[c].at # "done"
    BY <2>1, CallsAreApart DEF Inv, TypeOK
  <2>3. Answerable(call[c])'
    BY <2>2 DEF Answerable
  <2>4. call[c] # Idle \/ phase[Of[c]] # "down"
    BY <1>4, CallsAreApart DEF Request, Acknowledge, CallFails
  <2>. QED BY <2>1, <2>3, <2>4, CallTypes DEF Inv, TypeOK
<1>5. CASE ReadServices(c) \/ ReadOther(c)
  <2>1. PICK returns \in SUBSET Services : Ran(c, {}, 0, returns)
    BY <1>5 DEF ReadServices, ReadOther
  <2>. QED BY <1>3, <2>1, CallsAreApart
<1>6. CASE UpsertRole(c)
  BY <1>2, <1>3, <1>6, CallsAreApart DEF UpsertRole
<1>7. CASE UpsertService(c)
  <2>1. PICK s \in Services, r \in Roles :
          /\ services' = [services EXCEPT ![s] = Row(Of[c], s, r, commits + 1)]
          /\ Ran(c, {s} \X {"config", "token"}, commits + 1, {})
    BY <1>7 DEF UpsertService, Upserted
  <2>2. commits' = commits + 1 /\ commits + 1 \in 0 .. MaxCommits
    BY <1>1, <1>7, NumbersAssumption DEF UpsertService, NextWrite
  <2>3. key[Of[c]] \in SecretKeys
    BY <2>1, CallersAssumption, CallsAreApart DEF Ran, Inv, Keyed
  <2>4. PICK row \in Rows : row = Row(Of[c], s, r, commits + 1)
    BY <2>2, <2>3, RowOfWrite
  <2>5. services'[s] = row /\ row.config = commits + 1 /\ row.token = commits + 1
    BY <2>1, <2>2, <2>3, <2>4, RowOfWrite DEF Inv, TypeOK
  <2>6. ASSUME NEW f \in {s} \X {"config", "token"}
        PROVE  services'[f[1]] # NoRow /\ Value(f)' >= commits + 1
    <3>1. f[1] = s /\ (f[2] = "config" \/ f[2] = "token")
      OBVIOUS
    <3>. QED BY <1>1, <2>5, <3>1, RowIsThere DEF Value
  <2>7. {s} \X {"config", "token"} \in SUBSET Fields
    BY DEF Fields
  <2>8. /\ call' \in [Callers -> Calls] /\ \A d \in Callers : d # c => call'[d] = call[d]
        /\ call[c] = Running /\ Answerable(call[c])'
    BY <1>1, <1>2, <2>1, <2>2, <2>6, <2>7, RanKeeps
  <2>. QED BY <2>8, CallsAreApart
<1>8. CASE UpdateServiceToken(c)
  <2>1. PICK s \in Services :
          \/ /\ Stored(s) /\ services' = [services EXCEPT ![s].token = commits + 1]
             /\ NextWrite /\ Ran(c, {<<s, "token">>}, commits + 1, {})
          \/ Ran(c, {}, 0, {})
    BY <1>8 DEF UpdateServiceToken
  <2>2. CASE Ran(c, {}, 0, {})
    BY <1>2, <1>3, <2>2, CallsAreApart
  <2>3. CASE /\ Stored(s) /\ services' = [services EXCEPT ![s].token = commits + 1]
             /\ NextWrite /\ Ran(c, {<<s, "token">>}, commits + 1, {})
    <3>1. commits' = commits + 1 /\ commits + 1 \in 0 .. MaxCommits
      BY <1>1, <2>3, NumbersAssumption DEF NextWrite
    <3>2. services[s] \in Rows
      BY <2>3, NamesAssumption, CreateIsApart DEF Stored, Inv, TypeOK
    <3>3. services'[s] = [services[s] EXCEPT !.token = commits + 1]
      BY <2>3 DEF Inv, TypeOK
    <3>4. services'[s] \in Rows /\ services'[s].token = commits + 1
      BY <3>1, <3>2, <3>3 DEF Rows
    <3>5. <<s, "token">> \in Fields /\ <<s, "token">>[1] = s /\ <<s, "token">>[2] = "token"
      BY DEF Fields
    <3>6. \A f \in {<<s, "token">>} : services'[f[1]] # NoRow /\ Value(f)' >= commits + 1
      BY <1>1, <3>4, <3>5, RowIsThere DEF Value
    <3>7. /\ {<<s, "token">>} \in SUBSET Fields /\ commits + 1 <= commits'
          /\ Ran(c, {<<s, "token">>}, commits + 1, {})
      BY <1>1, <2>3, <3>1, <3>5
    <3>8. /\ call' \in [Callers -> Calls] /\ \A d \in Callers : d # c => call'[d] = call[d]
          /\ call[c] = Running /\ Answerable(call[c])'
      BY <1>2, <3>1, <3>6, <3>7, RanKeeps
    <3>. QED BY <3>8, CallsAreApart
  <2>. QED BY <2>1, <2>2, <2>3
<1>. QED BY <1>4, <1>5, <1>6, <1>7, <1>8 DEF CallerOnly, Writes
-----------------------------------------------------------------------------
(* The invariant is inductive.                                               *)

LEMMA AckedSame ==
    ASSUME Inv, [Next]_vars, UNCHANGED acked
    PROVE  AcknowledgedWritesStay' /\ acked' \in [Fields -> 0 .. MaxCommits]
<1>1. ASSUME NEW f \in Fields, acked[f] # 0
      PROVE  services'[f[1]] # NoRow /\ Value(f)' >= acked[f]
  <2>1. services[f[1]] # NoRow /\ Value(f) >= acked[f] /\ acked[f] \in Nat
    BY <1>1 DEF Inv, TypeOK, AcknowledgedWritesStay, Value
  <2>. QED BY <2>1, FieldsGrow
<1>. QED BY <1>1 DEF Inv, TypeOK, AcknowledgedWritesStay, Value

LEMMA AcknowledgeKeeps ==
    ASSUME Inv, [Next]_vars, NEW c \in Callers, Acknowledge(c)
    PROVE  AcknowledgedWritesStay' /\ acked' \in [Fields -> 0 .. MaxCommits]
<1>1. /\ call[c].at = "done" /\ call[c] \in Calls /\ Answerable(call[c])
      /\ acked' = [f \in Fields |->
                    IF f \in call[c].sets /\ acked[f] < call[c].write THEN call[c].write
                    ELSE acked[f]]
  BY DEF Acknowledge, Inv, TypeOK, WritesInOrder, Answerable
<1>2. call[c].write \in 0 .. MaxCommits
  BY <1>1, CallTypes
<1>3. acked' \in [Fields -> 0 .. MaxCommits]
  BY <1>1, <1>2 DEF Inv, TypeOK
<1>4. ASSUME NEW f \in Fields, acked'[f] # 0
      PROVE  services'[f[1]] # NoRow /\ Value(f)' >= acked'[f]
  <2>1. services[f[1]] # NoRow /\ Value(f) >= acked'[f]
    <3>1. CASE f \in call[c].sets /\ acked[f] < call[c].write
      BY <1>1, <3>1 DEF Answerable
    <3>2. CASE ~(f \in call[c].sets /\ acked[f] < call[c].write)
      BY <1>1, <1>4, <3>2 DEF Inv, AcknowledgedWritesStay, Value
    <3>. QED BY <3>1, <3>2
  <2>2. acked'[f] \in Nat
    BY <1>3
  <2>. QED BY <2>1, <2>2, FieldsGrow
<1>. QED BY <1>3, <1>4 DEF AcknowledgedWritesStay, Value

LEMMA AckedStep ==
    ASSUME Inv, [Next]_vars
    PROVE  AcknowledgedWritesStay' /\ acked' \in [Fields -> 0 .. MaxCommits]
<1>1. ASSUME NEW c \in Callers, CallerOnly(c) \/ Writes(c), ~Acknowledge(c)
      PROVE  UNCHANGED acked
  BY <1>1 DEF CallerOnly, Writes, Request, ReadServices, ReadOther, CallFails,
              UpsertService, UpdateServiceToken, UpsertRole, Ran
<1>2. CASE Exchanged \/ UNCHANGED vars
  BY <1>2, AckedSame DEF Exchanged, vars
<1>. QED BY <1>1, <1>2, AckedSame, AcknowledgeKeeps, CallsOfStarts DEF Next, CallerOnly, Writes

LEMMA CallsStep ==
    ASSUME Inv, [Next]_vars
    PROVE  /\ call' \in [Callers -> Calls] /\ Keyed'
           /\ \A c \in Callers : Answerable(call[c])'
<1>1. \A c \in Callers : call[c] \in Calls /\ Answerable(call[c])
  BY DEF Inv, TypeOK, WritesInOrder, Answerable
<1>2. ASSUME NEW c \in Callers, call'[c] = call[c] \/ call'[c] = Idle
      PROVE  Answerable(call[c])'
  <2>1. Answerable(Idle)' /\ Answerable(call[c])
    BY <1>1, CallsAreApart DEF Answerable
  <2>2. CASE call'[c] = call[c]
    <3>1. PICK x \in Calls : x = call[c]
      BY <1>1
    <3>2. Answerable(x)'
      BY <2>1, <3>1, AnswerableStays
    <3>. QED BY <2>2, <3>1, <3>2 DEF Answerable
  <2>3. CASE call'[c] = Idle
    BY <2>3, CallsAreApart DEF Answerable
  <2>. QED BY <1>2, <2>2, <2>3
<1>3. ASSUME NEW c \in Callers, CallerOnly(c) \/ Writes(c)
      PROVE  /\ call' \in [Callers -> Calls] /\ Keyed'
             /\ \A d \in Callers : Answerable(call[d])'
  <2>1. /\ call' \in [Callers -> Calls] /\ \A d \in Callers : d # c => call'[d] = call[d]
        /\ Answerable(call[c])' /\ (call[c] # Idle \/ phase[Of[c]] # "down")
    BY <1>3, CallsOfCallers
  <2>2. UNCHANGED starts
    BY <1>3 DEF CallerOnly, Writes, Request, ReadServices, ReadOther, Acknowledge, CallFails,
                UpsertService, UpdateServiceToken, UpsertRole, Ran
  <2>3. Keyed'
    BY <2>1, <2>2, KeyedSame
  <2>. QED BY <1>2, <2>1, <2>3
<1>4. ASSUME NEW p \in Processes,
             CreatePool(p) \/ Insert(p) \/ Commit(p) \/ StartFails(p) \/ Close(p) \/ Closed(p) \/ Killed(p)
      PROVE  /\ call' \in [Callers -> Calls] /\ Keyed'
             /\ \A d \in Callers : Answerable(call[d])'
  BY <1>2, <1>4, CallsOfStarts
<1>5. CASE Exchanged \/ UNCHANGED vars
  <2>1. UNCHANGED starts /\ UNCHANGED call
    BY <1>5 DEF Exchanged, vars
  <2>2. Keyed'
    BY <2>1, KeyedSame
  <2>. QED BY <1>2, <2>1, <2>2 DEF Inv, TypeOK
<1>. QED BY <1>3, <1>4, <1>5 DEF Next, CallerOnly, Writes

\* Once all of it is stored, what a start was given stays.
LEMMA DefaultsStay ==
    ASSUME Inv, [Next]_vars,
           tables' => tables,
           \A p \in Processes :
            phase'[p] = "ready" => phase[p] = "ready" /\ given'[p] = given[p]
    PROVE  DefaultsTogether'
<1>1. tables' => \E D \in Defaults : \A item \in D : Stored(item)'
  BY StoredGrows DEF Inv, DefaultsTogether
<1>2. ASSUME NEW p \in Processes, phase'[p] = "ready"
      PROVE  tables' /\ \A item \in given'[p] : Stored(item)'
  BY <1>2, StoredGrows, DatabaseStep DEF Inv, DefaultsTogether, Grows
<1>. QED BY <1>1, <1>2 DEF DefaultsTogether

LEMMA DefaultsStep ==
    ASSUME Inv, [Next]_vars
    PROVE  DefaultsTogether'
<1>1. ASSUME NEW p \in Processes, Commit(p)
      PROVE  DefaultsTogether'
  <2>1. /\ tables' /\ given[p] \in Defaults /\ \A item \in given[p] : Stored(item)'
        /\ UNCHANGED given
    BY <1>1, CommitKeeps DEF Commit
  <2>2. ASSUME NEW q \in Processes, phase'[q] = "ready"
        PROVE  \A item \in given'[q] : Stored(item)'
    <3>1. CASE q = p
      BY <2>1, <3>1
    <3>2. CASE q # p
      <4>1. phase[q] = "ready"
        BY <1>1, <2>2, <3>2 DEF Commit, Become, Inv, TypeOK
      <4>. QED BY <2>1, <4>1, StoredGrows DEF Inv, DefaultsTogether
    <3>. QED BY <3>1, <3>2
  <2>. QED BY <2>1, <2>2 DEF DefaultsTogether
<1>2. ASSUME NEW p \in Processes,
             CreatePool(p) \/ Insert(p) \/ StartFails(p) \/ Close(p) \/ Closed(p) \/ Killed(p)
      PROVE  DefaultsTogether'
  <2>1. tables' = tables
    BY <1>2, StartFailsKeeps DEF CreatePool, Insert, Close, Closed, Killed, database
  <2>2. /\ phase'[p] = "ready" => phase[p] = "ready" /\ given'[p] = given[p]
        /\ \A q \in Processes : q # p => phase'[q] = phase[q] /\ given'[q] = given[q]
    <3>1. CASE CreatePool(p)
      <4>1. PICK D \in Defaults : given' = [given EXCEPT ![p] = D]
        BY <3>1 DEF CreatePool
      <4>. QED BY <3>1, <4>1 DEF CreatePool, Become, Inv, TypeOK
    <3>2. CASE ~CreatePool(p)
      BY <1>2, <3>2 DEF Insert, StartFails, Close, Closed, Killed, Become, Inv, TypeOK
    <3>. QED BY <3>1, <3>2
  <2>. QED BY <2>1, <2>2, DefaultsStay
<1>3. ASSUME UNCHANGED <<phase, given, tables>>
      PROVE  DefaultsTogether'
  BY <1>3, DefaultsStay
<1>4. ASSUME NEW c \in Callers, CallerOnly(c) \/ Writes(c)
      PROVE  UNCHANGED <<phase, given, tables>>
  BY <1>4 DEF CallerOnly, Writes, Request, ReadServices, ReadOther, Acknowledge, CallFails,
              UpsertService, UpdateServiceToken, UpsertRole, Ran, starts, database
<1>5. Exchanged \/ UNCHANGED vars => UNCHANGED <<phase, given, tables>>
  BY DEF Exchanged, vars, starts, database
<1>. QED BY <1>1, <1>2, <1>3, <1>4, <1>5 DEF Next, CallerOnly, Writes

LEMMA InvInit == Init => Inv
<1> SUFFICES ASSUME Init PROVE Inv
  OBVIOUS
<1>1. TypeOK
  <2>1. 0 \in 0 .. MaxCommits
    BY NumbersAssumption
  <2>. QED BY <2>1, CallTypes DEF Init, TypeOK
<1>2. \A c \in Callers : call[c] = Idle
  BY DEF Init
<1>3. Keyed /\ StartsInStep
  BY <1>2 DEF Init, Keyed, StartsInStep, InStep
<1>4. \A s \in Services : services[s] = NoRow
  BY DEF Init
<1>5. WritesInOrder /\ KeyIsOfConfig
  BY <1>2, <1>4, CallsAreApart, FieldsAreTwo DEF WritesInOrder, KeyIsOfConfig
<1>6. DefaultsTogether /\ AcknowledgedWritesStay
  BY DEF Init, DefaultsTogether, AcknowledgedWritesStay
<1>. QED BY <1>1, <1>3, <1>5, <1>6 DEF Inv

\* The inductive invariant of the two tables holds in every state
\* (proxy_store.py).
THEOREM Invariance == Spec => []Inv
<1>1. Init => Inv
  BY InvInit
<1>2. ASSUME Inv, [Next]_vars
      PROVE  Inv'
  <2>1. DatabaseOk'
    BY <1>2, DatabaseStep
  <2>2. /\ call' \in [Callers -> Calls] /\ Keyed'
        /\ \A c \in Callers : Answerable(call[c])'
    BY <1>2, CallsStep
  <2>3. TypeOK'
    BY <1>2, <2>1, <2>2, StartTypes, AckedStep DEF TypeOK, DatabaseOk
  <2>4. WritesInOrder'
    BY <1>2, <2>2, FieldsGrow DEF WritesInOrder, Answerable
  <2>. QED BY <1>2, <2>1, <2>2, <2>3, <2>4, StartsStep, DefaultsStep, AckedStep DEF Inv, DatabaseOk
<1>. QED BY <1>1, <1>2, PTL DEF Spec

-----------------------------------------------------------------------------
\* The variables of the store keep their types (proxy_store.py).
THEOREM TypeCorrectness == Spec => []TypeOK
<1>1. Inv => TypeOK
  BY DEF Inv
<1>. QED BY <1>1, Invariance, PTL

\* The tables never stand without all that some start was given, and a started
\* process has all of its own, whatever each start is given (proxy_store.py:151-211).
THEOREM DefaultsAtomicity == Spec => []DefaultsTogether
<1>1. Inv => DefaultsTogether
  BY DEF Inv
<1>. QED BY <1>1, Invariance, PTL

\* What a write was answered for stays until a later write (proxy_store.py:192-211,
\* 258-300).
THEOREM WriteDurability == Spec => []AcknowledgedWritesStay
<1>1. Inv => AcknowledgedWritesStay
  BY DEF Inv
<1>. QED BY <1>1, Invariance, PTL

\* A row's key is of the same write as its configuration (proxy_store.py:258-300).
THEOREM KeyConsistency == Spec => []KeyIsOfConfig
<1>1. Inv => KeyIsOfConfig
  BY DEF Inv
<1>. QED BY <1>1, Invariance, PTL

\* What a read returns of a service is the key and the configuration of one
\* write, none older than the last that was answered (proxy_store.py:3-6, 56-83,
\* 221-256).
THEOREM ReadConsistency == Spec => ReadsAreOfOneWrite
<1> DEFINE Current(s) ==
            /\ services[s].sealed.secret = services[s].config
            /\ services[s].config >= acked[<<s, "config">>]
           Sound(c) ==
            call[c] = Running /\ call'[c].at = "done" => \A s \in call'[c].returns : Current(s)
<1>1. ASSUME Inv, NEW s \in Services, services[s] # NoRow, services[s].sealed.name = s
      PROVE  Current(s)
  <2>1. services[s].sealed.secret = services[s].config
    BY <1>1 DEF Inv, KeyIsOfConfig
  <2>2. <<s, "config">> \in Fields /\ services[s].config \in Nat
    BY <1>1, FieldsOfRows DEF Fields, Inv, TypeOK
  <2>3. /\ acked[<<s, "config">>] \in Nat
        /\ acked[<<s, "config">>] # 0 => services[s].config >= acked[<<s, "config">>]
    BY <1>1, <2>2 DEF Inv, TypeOK, AcknowledgedWritesStay
  <2>. QED BY <2>1, <2>2, <2>3
<1>2. ASSUME Inv, [Next]_vars, NEW c \in Callers
      PROVE  Sound(c)
  <2>1. ASSUME call'[c] = call[c] \/ call'[c] = Idle \/ call'[c] = Running
        PROVE  Sound(c)
    BY <2>1, CallsAreApart
  <2>2. ASSUME NEW sets, NEW n, NEW returns, Ran(c, sets, n, returns),
               \A s \in returns : Current(s)
        PROVE  Sound(c)
    <3>1. call'[c].returns = returns
      BY <1>2, <2>2, CallsAreApart DEF Ran, Inv, TypeOK
    <3>. QED BY <2>2, <3>1
  <2> HIDE DEF Sound, Current
  <2>3. ASSUME NEW d \in Callers, d # c, CallerOnly(d) \/ Writes(d)
        PROVE  call'[c] = call[c]
    BY <1>2, <2>3, CallsOfCallers
  <2>4. CASE CallerOnly(c) \/ Writes(c)
    <3>1. CASE Request(c) \/ Acknowledge(c) \/ CallFails(c)
      BY <1>2, <2>1, <3>1 DEF Request, Acknowledge, CallFails, Inv, TypeOK
    <3>2. CASE ReadOther(c) \/ Writes(c)
      <4>1. PICK sets, n : Ran(c, sets, n, {})
        BY <3>2 DEF ReadOther, Writes, UpsertService, UpdateServiceToken, UpsertRole
      <4>. QED BY <2>2, <4>1
    <3>3. CASE ReadServices(c)
      <4>1. PICK found \in SUBSET Services :
              /\ Ran(c, {}, 0, found)
              /\ \A s \in found : Stored(s) /\ Opens(Of[c], s)
        BY <3>3 DEF ReadServices
      <4>2. \A s \in found : services[s] # NoRow /\ services[s].sealed.name = s
        BY <1>2, <4>1, StoredKinds DEF Opens
      <4>3. \A s \in found : Current(s)
        BY <1>1, <1>2, <4>1, <4>2
      <4>. QED BY <2>2, <4>1, <4>3
    <3>. QED BY <2>4, <3>1, <3>2, <3>3 DEF CallerOnly
  <2>5. CASE \E p \in Processes :
          CreatePool(p) \/ Insert(p) \/ Commit(p) \/ StartFails(p) \/ Close(p) \/ Closed(p) \/ Killed(p)
    BY <1>2, <2>1, <2>5, CallsOfStarts
  <2>6. CASE Exchanged \/ UNCHANGED vars
    BY <2>1, <2>6 DEF Exchanged, vars
  <2>. QED BY <1>2, <2>1, <2>3, <2>4, <2>5, <2>6 DEF Next, CallerOnly, Writes
<1>3. Inv /\ [Next]_vars => \A c \in Callers : Sound(c)
  BY <1>2
<1>4. Inv /\ [Next]_vars => [\A c \in Callers : Sound(c)]_vars
  BY <1>3
<1>. QED BY <1>4, Invariance, PTL DEF Spec, ReadsAreOfOneWrite

-----------------------------------------------------------------------------
(* The store is one table of services and roles.                             *)

Listed == {s \in Services : services[s] # NoRow}
Version == [f \in Fields |-> IF services[f[1]] = NoRow THEN 0 ELSE services[f[1]][f[2]]]

registry == <<tables, roles, Listed, Version, commits, acked>>

\* The versions when the next write has set the fields F.
Written(F) == [f \in Fields |-> IF f \in F THEN commits + 1 ELSE Version[f]]

LEMMA SameRegistry ==
    ASSUME UNCHANGED <<database, acked>>
    PROVE  UNCHANGED registry
BY DEF database, registry, Listed, Version

LEMMA VersionSame ==
    ASSUME Inv, UNCHANGED <<commits, services>>
    PROVE  Listed' = Listed /\ Version' = Version
BY DEF Listed, Version

\* The steps that touch neither the tables nor an answer.
LEMMA QuietSteps ==
    ASSUME Inv
    PROVE  /\ \A p \in Processes :
                CreatePool(p) \/ Insert(p) \/ Close(p) \/ Closed(p) \/ Killed(p)
                    => UNCHANGED <<database, acked>>
           /\ \A c \in Callers :
                Request(c) \/ ReadServices(c) \/ ReadOther(c) \/ CallFails(c)
                    => UNCHANGED <<database, acked>>
<1>1. ASSUME NEW p \in Processes, CreatePool(p) \/ Insert(p) \/ Close(p) \/ Closed(p) \/ Killed(p)
      PROVE  UNCHANGED <<database, acked>>
  BY <1>1 DEF CreatePool, Insert, Close, Closed, Killed, database
<1>2. ASSUME NEW c \in Callers, Request(c) \/ ReadServices(c) \/ ReadOther(c) \/ CallFails(c)
      PROVE  UNCHANGED <<database, acked>>
  BY <1>2 DEF Request, ReadServices, ReadOther, CallFails, Ran, database
<1>. QED BY <1>1, <1>2

\* A start that commits adds what is missing of all that it was given.
LEMMA CommitSeeds ==
    ASSUME Inv, NEW p \in Processes, Commit(p)
    PROVE  \E D \in Defaults : Registry!Seed(D)
<1>1. /\ phase[p] = "starting" /\ todo[p] = {} /\ Leave(p, own[p])
      /\ UNCHANGED <<acked, commits>>
  BY DEF Commit, Leave
<1>2. PICK D \in Defaults : D = given[p]
  BY <1>1 DEF Inv, StartsInStep, InStep
<1>3. /\ \A item \in Script(D) : Stored(item) \/ item \in own[p]
      /\ \A item \in own[p] : item \in Script(D) /\ ~Stored(item)
  BY <1>1, <1>2 DEF Inv, StartsInStep, InStep
<1>4. Create \in Script(D) /\ D \subseteq Script(D)
  BY ScriptItems
<1>5. tables'
  BY <1>1, <1>3, <1>4, StoredKinds DEF Leave
<1>6. \A r \in Roles : r \in own[p] => r \in D
  BY <1>3, CreateIsApart DEF Script
<1>7. \A s \in Services : s \in own[p] => s \in D /\ services[s] = NoRow
  BY <1>3, CreateIsApart, StoredKinds DEF Script
<1>8. \A r \in Roles : r \in D => r \in roles \/ r \in own[p]
  BY <1>3, <1>4, StoredKinds
<1>9. \A s \in Services : s \in D => services[s] # NoRow \/ s \in own[p]
  BY <1>3, <1>4, StoredKinds
<1>10. roles' = roles \cup (D \cap Roles)
  BY <1>1, <1>6, <1>8 DEF Leave
<1>11. ASSUME NEW s \in Services
       PROVE  IF s \in own[p]
              THEN /\ services'[s] # NoRow /\ services'[s].config = 0 /\ services'[s].token = 0
              ELSE services'[s] = services[s]
  <2>1. services'[s] = IF s \in own[p] THEN Row(p, s, RoleOf[s], 0) ELSE services[s]
    BY <1>1 DEF Leave
  <2>2. RoleOf[s] \in Roles /\ 0 \in 0 .. MaxCommits /\ key[p] \in SecretKeys
    BY <1>1, DefaultsAssumption, NumbersAssumption DEF Inv, Keyed
  <2>. QED BY <2>1, <2>2, RowOfWrite, RowIsThere
<1>12. Listed' = Listed \cup (D \cap Services)
  BY <1>7, <1>9, <1>11 DEF Listed
<1>13. Version' = Version
  <2>1. ASSUME NEW f \in Fields PROVE Version'[f] = Version[f]
    <3>1. CASE f[1] \notin own[p]
      BY <1>11, <3>1, FieldsAreTwo DEF Version
    <3>2. CASE f[1] \in own[p] /\ f[2] = "config"
      BY <1>7, <1>11, <3>2, FieldsAreTwo DEF Version
    <3>3. CASE f[1] \in own[p] /\ f[2] = "token"
      BY <1>7, <1>11, <3>3, FieldsAreTwo DEF Version
    <3>. QED BY <3>1, <3>2, <3>3, FieldsAreTwo
  <2>2. Version = [f \in Fields |-> Version[f]] /\ Version' = [f \in Fields |-> Version'[f]]
    BY DEF Version
  <2> HIDE DEF Version
  <2>. QED BY <2>1, <2>2
<1>14. Registry!Seed(D)
  BY <1>1, <1>5, <1>10, <1>12, <1>13 DEF Registry!Seed, Listed, Version
<1>. QED BY <1>14

\* One row replaced: the fields F of service s are of the next write now.
LEMMA RowWritten ==
    ASSUME Inv, NEW s \in Services, NEW row \in Rows, services' = [services EXCEPT ![s] = row],
           NEW F \in SUBSET {<<s, "config">>, <<s, "token">>}, <<s, "token">> \in F,
           row.token = commits + 1,
           \/ <<s, "config">> \in F /\ row.config = commits + 1
           \/ <<s, "config">> \notin F /\ services[s] # NoRow /\ row.config = services[s].config
    PROVE  /\ Listed' = Listed \cup {s}
           /\ Version' = Written(F)
<1>1. services'[s] = row /\ \A t \in Services : t # s => services'[t] = services[t]
  BY DEF Inv, TypeOK
<1>2. row # NoRow
  BY RowIsThere
<1>3. Listed' = Listed \cup {s}
  BY <1>1, <1>2 DEF Listed
<1>4. ASSUME NEW f \in Fields
      PROVE  Version'[f] = IF f \in F THEN commits + 1 ELSE Version[f]
  <2>1. f = <<f[1], f[2]>>
    BY DEF Fields
  <2>2. CASE f[1] # s
    BY <1>1, <2>2, FieldsAreTwo DEF Version
  <2>3. CASE f[1] = s /\ f[2] = "token"
    BY <1>1, <1>2, <2>1, <2>3 DEF Version
  <2>4. CASE f[1] = s /\ f[2] = "config"
    BY <1>1, <1>2, <2>1, <2>4 DEF Version
  <2>. QED BY <2>2, <2>3, <2>4, FieldsAreTwo
<1>5. Version' = [f \in Fields |-> Version'[f]]
  BY DEF Version
<1>. HIDE DEF Version
<1>. QED BY <1>3, <1>4, <1>5 DEF Written

LEMMA UpsertPuts ==
    ASSUME Inv, NEW c \in Callers, UpsertService(c)
    PROVE  \E s \in Services : Registry!PutService(s)
<1>1. PICK s \in Services, r \in Roles :
        /\ Stored(r) /\ services' = [services EXCEPT ![s] = Row(Of[c], s, r, commits + 1)]
  BY DEF UpsertService, Upserted
<1>2. /\ tables /\ UNCHANGED <<tables, roles, acked>> /\ commits < MaxCommits /\ commits' = commits + 1
      /\ call[c] = Running
  BY DEF UpsertService, Ran, NextWrite
<1>3. key[Of[c]] \in SecretKeys /\ commits + 1 \in 0 .. MaxCommits
  BY <1>2, CallersAssumption, CallsAreApart, NumbersAssumption DEF Inv, Keyed, TypeOK
<1>4. PICK row \in Rows : row = Row(Of[c], s, r, commits + 1)
  BY <1>3, RowOfWrite
<1>5. row.config = commits + 1 /\ row.token = commits + 1
  BY <1>3, <1>4, RowOfWrite
<1>6. services' = [services EXCEPT ![s] = row]
  BY <1>1, <1>4
<1> DEFINE F == {s} \X {"config", "token"}
<1>7. /\ F \in SUBSET {<<s, "config">>, <<s, "token">>}
      /\ <<s, "token">> \in F /\ <<s, "config">> \in F
  OBVIOUS
<1> HIDE DEF F
<1>8. /\ Listed' = Listed \cup {s}
      /\ Version' = Written(F)
  BY <1>5, <1>6, <1>7, RowWritten
<1>9. roles # {}
  BY <1>1, StoredKinds
<1>10. Registry!PutService(s)
  BY <1>2, <1>8, <1>9
     DEF Registry!PutService, Registry!Write, Registry!FieldsOf, F, Written, Fields, Listed, Version
<1>. QED BY <1>10

LEMMA TokenRotates ==
    ASSUME Inv, NEW c \in Callers, UpdateServiceToken(c)
    PROVE  (\E s \in Services : Registry!Rotate(s)) \/ UNCHANGED registry
<1>1. PICK s \in Services :
        \/ /\ Stored(s) /\ services' = [services EXCEPT ![s].token = commits + 1]
           /\ NextWrite
        \/ UNCHANGED <<services, commits>>
  BY DEF UpdateServiceToken
<1>2. tables /\ UNCHANGED <<tables, roles, acked>>
  BY DEF UpdateServiceToken, Ran
<1>3. CASE UNCHANGED <<services, commits>>
  BY <1>2, <1>3, SameRegistry DEF database
<1>4. CASE /\ Stored(s) /\ services' = [services EXCEPT ![s].token = commits + 1]
           /\ NextWrite
  <2>1. commits' = commits + 1 /\ commits + 1 \in 0 .. MaxCommits
    BY <1>4, NumbersAssumption DEF NextWrite, Inv, TypeOK
  <2>2. services[s] \in Rows /\ services[s] # NoRow
    BY <1>4, NamesAssumption, CreateIsApart DEF Stored, Inv, TypeOK
  <2> DEFINE row == [services[s] EXCEPT !.token = commits + 1]
             F == {<<s, "token">>}
  <2>3. services' = [services EXCEPT ![s] = row]
    BY <1>4
  <2>4. row \in Rows /\ row.token = commits + 1 /\ row.config = services[s].config
    BY <2>1, <2>2 DEF Rows
  <2>5. /\ F \in SUBSET {<<s, "config">>, <<s, "token">>}
        /\ <<s, "token">> \in F /\ <<s, "config">> \notin F
    OBVIOUS
  <2> HIDE DEF row, F
  <2>6. /\ Listed' = Listed \cup {s}
        /\ Version' = Written(F)
    BY <2>2, <2>3, <2>4, <2>5, RowWritten
  <2>7. s \in Listed /\ Listed' = Listed
    BY <2>2, <2>6 DEF Listed
  <2>8. Registry!Rotate(s)
    BY <1>2, <2>1, <2>6, <2>7
       DEF Registry!Rotate, Registry!Write, Registry!FieldsOf, F, Written, Fields, Listed, Version
  <2>. QED BY <2>8
<1>. QED BY <1>1, <1>3, <1>4

LEMMA RolePuts ==
    ASSUME Inv, NEW c \in Callers, UpsertRole(c)
    PROVE  \E r \in Roles : Registry!PutRole(r)
<1>1. PICK r \in Roles : roles' = roles \cup {r}
  BY DEF UpsertRole
<1>2. tables /\ UNCHANGED <<tables, services, commits, acked>>
  BY DEF UpsertRole, Ran
<1>3. Listed' = Listed /\ Version' = Version
  BY <1>2 DEF Listed, Version
<1>4. Registry!PutRole(r)
  BY <1>1, <1>2, <1>3 DEF Registry!PutRole, Listed, Version
<1>. QED BY <1>4

\* An answer is of a write that is stored, or has been replaced by a later one.
LEMMA AcknowledgeAnswers ==
    ASSUME Inv, NEW c \in Callers, Acknowledge(c)
    PROVE  \E F \in SUBSET Fields, n \in 0 .. commits : Registry!Answer(F, n)
<1> DEFINE F == call[c].sets
           n == call[c].write
<1>1. /\ call[c].at = "done" /\ call[c] \in Calls /\ UNCHANGED database
      /\ acked' = [f \in Fields |-> IF f \in F /\ acked[f] < n THEN n ELSE acked[f]]
  BY DEF Acknowledge, Inv, TypeOK
<1>2. F \in SUBSET Fields /\ n \in 0 .. commits /\ commits \in Nat
  BY <1>1, CallTypes DEF Inv, TypeOK, WritesInOrder
<1>3. ASSUME NEW f \in F
      PROVE  f[1] \in Listed /\ n <= Version[f]
  <2>1. services[f[1]] # NoRow /\ Value(f) >= n /\ f \in Fields
    BY <1>1, <1>2, <1>3 DEF Inv, WritesInOrder
  <2>2. f[1] \in Services
    BY <2>1, FieldsAreTwo
  <2>3. Version[f] = Value(f)
    BY <2>1 DEF Version, Value
  <2>4. Value(f) \in Nat
    <3>1. services[f[1]] \in Rows
      BY <2>1, <2>2 DEF Inv, TypeOK
    <3>. QED BY <3>1, <2>1, FieldsAreTwo, FieldsOfRows DEF Value
  <2>. QED BY <1>2, <2>1, <2>2, <2>3, <2>4 DEF Listed
<1>4. UNCHANGED <<tables, roles, Listed, Version, commits>>
  BY <1>1 DEF database, Listed, Version
<1> HIDE DEF F, n
<1>5. Registry!Answer(F, n)
  BY <1>1, <1>3, <1>4 DEF Registry!Answer, Registry!FieldsOf, Fields, Listed, Version
<1>. QED BY <1>2, <1>5

\* Exchanged keys are of no account to it: the fields are of the same writes.
LEMMA ExchangeStutters ==
    ASSUME Inv, Exchanged
    PROVE  UNCHANGED registry
<1>1. PICK s \in Services, t \in Services :
        /\ s # t /\ Stored(s) /\ Stored(t)
        /\ services' = [services EXCEPT ![s].sealed = services[t].sealed,
                                        ![t].sealed = services[s].sealed]
  BY DEF Exchanged
<1>2. UNCHANGED <<tables, roles, commits, acked>>
  BY DEF Exchanged
<1>3. services[s] \in Rows /\ services[t] \in Rows
  BY <1>1, CreateIsApart, NamesAssumption DEF Inv, TypeOK, Stored
<1> DEFINE a == [services[s] EXCEPT !.sealed = services[t].sealed]
           b == [services[t] EXCEPT !.sealed = services[s].sealed]
<1>4. services' = [services EXCEPT ![s] = a, ![t] = b]
  BY <1>1 DEF Inv, TypeOK
<1>5. /\ a \in Rows /\ a.config = services[s].config /\ a.token = services[s].token
      /\ b \in Rows /\ b.config = services[t].config /\ b.token = services[t].token
  BY <1>3 DEF Rows
<1> HIDE DEF a, b
<1>6. /\ services'[s] = a /\ services'[t] = b
      /\ \A u \in Services : u # s /\ u # t => services'[u] = services[u]
  BY <1>1, <1>4 DEF Inv, TypeOK
<1>7. a # NoRow /\ b # NoRow /\ services[s] # NoRow /\ services[t] # NoRow
  BY <1>3, <1>5, RowIsThere
<1>8. Listed' = Listed
  BY <1>6, <1>7 DEF Listed
<1>9. ASSUME NEW f \in Fields
      PROVE  Version'[f] = Version[f]
  <2>1. CASE f[1] \notin {s, t}
    BY <1>6, <2>1, FieldsAreTwo DEF Version
  <2>2. CASE f[1] \in {s, t} /\ f[2] = "config"
    BY <1>5, <1>6, <1>7, <2>2 DEF Version
  <2>3. CASE f[1] \in {s, t} /\ f[2] = "token"
    BY <1>5, <1>6, <1>7, <2>3 DEF Version
  <2>. QED BY <2>1, <2>2, <2>3, FieldsAreTwo
<1>10. Version = [f \in Fields |-> Version[f]] /\ Version' = [f \in Fields |-> Version'[f]]
  BY DEF Version
<1>11. Version' = Version
  <2> HIDE DEF Version
  <2>. QED BY <1>9, <1>10
<1>. QED BY <1>2, <1>8, <1>11 DEF registry

LEMMA StepRefines ==
    ASSUME Inv, [Next]_vars
    PROVE  Registry!RegistryNext \/ UNCHANGED registry
<1>1. ASSUME NEW p \in Processes, Commit(p)
      PROVE  \E D \in Defaults : Registry!Seed(D)
  BY <1>1, CommitSeeds
<1>2. ASSUME NEW p \in Processes, StartFails(p)
      PROVE  UNCHANGED registry
  <2>1. UNCHANGED acked
    BY <1>2 DEF StartFails
  <2>. QED BY <1>2, <2>1, StartFailsKeeps, SameRegistry DEF database
<1>3. UNCHANGED vars => UNCHANGED registry
  BY SameRegistry DEF vars
<1>4. ASSUME NEW c \in Callers, Acknowledge(c)
      PROVE  \E F \in SUBSET Registry!FieldsOf(Services), n \in 0 .. commits : Registry!Answer(F, n)
  <2>1. Registry!FieldsOf(Services) = Fields
    BY DEF Registry!FieldsOf, Fields
  <2>. QED BY <1>4, <2>1, AcknowledgeAnswers
<1>5. ASSUME NEW c \in Callers, UpdateServiceToken(c)
      PROVE  (\E s \in Services : Registry!Rotate(s)) \/ UNCHANGED registry
  BY <1>5, TokenRotates
<1>6. ASSUME NEW c \in Callers, UpsertService(c) \/ UpsertRole(c)
      PROVE  \/ \E s \in Services : Registry!PutService(s)
             \/ \E r \in Roles : Registry!PutRole(r)
  BY <1>6, UpsertPuts, RolePuts
<1>7. Exchanged => UNCHANGED registry
  BY ExchangeStutters
<1>8. ASSUME UNCHANGED <<database, acked>>
      PROVE  UNCHANGED registry
  BY <1>8, SameRegistry
<1>. QED BY <1>1, <1>2, <1>3, <1>4, <1>5, <1>6, <1>7, <1>8, QuietSteps DEF Next, Registry!RegistryNext

(* Every behaviour of the store is one of a single table of services and     *)
(* roles to which each start adds what it misses in one step and which is    *)
(* written one call at a time, for any number of processes and callers and   *)
(* whatever defaults each start is given (proxy_store.py:136-356).           *)
THEOREM ImplementsServiceRegistry == Spec => ImplementsRegistry
<1>1. Init => Registry!RegistryInit
  <2> SUFFICES ASSUME Init PROVE Registry!RegistryInit
    OBVIOUS
  <2>1. Listed = {}
    BY DEF Init, Listed
  <2>2. Version = [f \in Fields |-> 0]
    BY FieldsAreTwo DEF Init, Version
  <2>. QED BY <2>1, <2>2
           DEF Init, Registry!RegistryInit, Registry!FieldsOf, Fields, Listed, Version
<1>2. Inv /\ [Next]_vars => [Registry!RegistryNext]_registry
  BY StepRefines
<1>. QED BY <1>1, <1>2, Invariance, PTL
     DEF Spec, ImplementsRegistry, Registry!RegistrySpec, registry, Listed, Version
=============================================================================
