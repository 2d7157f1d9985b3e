----------------------------- MODULE ProxyStore -----------------------------
(***************************************************************************)
(* PostgresProxyStore (centralwatch_security/proxy_store.py): the services *)
(* and roles of the proxy in PostgreSQL, with the upstream keys encrypted. *)
(*                                                                         *)
(* Several processes share the tables.  start creates them and inserts the *)
(* defaults it is given in one transaction; each other call is one         *)
(* statement on a connection of the pool.  The writes of services are      *)
(* numbered as they commit and 0 names a default: a write stands for the   *)
(* fields it sets.  Of a role only that it is there matters.  PostgreSQL   *)
(* is external: an uncommitted row is not seen, and whoever writes the     *)
(* same row waits; as rows are never deleted, "on conflict do nothing"     *)
(* decided at the insert is still right at the commit.  When two           *)
(* transactions wait for each other one of them raises.                    *)
(***************************************************************************)
EXTENDS Naturals, FiniteSets

CONSTANTS
    Processes, Callers,
    Of,                           \* the process of each caller
    Services, Roles, SecretKeys,
    Defaults,                     \* the sets of services and roles a start may be given
    RoleOf,                       \* the role of each service in them
    MaxCommits                    \* bound of the model: writes that commit

ASSUME DefaultsAssumption ==
    /\ Defaults \subseteq SUBSET (Services \cup Roles)
    /\ RoleOf \in [Services -> Roles]
ASSUME CallersAssumption == Of \in [Callers -> Processes]
\* The rows of the two tables are told apart by their names.
ASSUME NamesAssumption ==
    Services \cap Roles = {} /\ "create tables" \notin Services \cup Roles
ASSUME NumbersAssumption == MaxCommits \in Nat

VARIABLES
    phase,    \* of each process; there is a pool unless it is "down"
    key,      \* the PROXY_SECRET_ENCRYPTION_KEY of each process
    given,    \* the defaults its start was given
    todo,     \* the statements left of its start
    own,      \* what its open transaction has inserted
    tables,   \* both tables exist
    roles,    \* the committed roles
    services, \* the committed services
    commits,  \* writes of services so far
    call,     \* the call of each caller
    acked     \* ghost: the last write of each field that was answered

starts == <<phase, key, given, todo, own>>
database == <<tables, roles, services, commits>>
vars == <<starts, database, call, acked>>

Create == "create tables"
Items == {Create} \cup Roles \cup Services
Script(D) == {Create} \cup D
NoRow == [role |-> "none"]

\* What _SecretCipher.encrypt makes of the secret of a write.
Sealed(p, s, w) == [key |-> key[p], name |-> s, secret |-> w]

Row(p, s, r, w) == [role |-> r, config |-> w, token |-> w, sealed |-> Sealed(p, s, w)]

Envelopes == [key : SecretKeys, name : Services, secret : 0 .. MaxCommits]
Rows == [role : Roles, config : 0 .. MaxCommits, token : 0 .. MaxCommits, sealed : Envelopes]

\* The fields a write may set; the address, IPs, key and timeout are "config".
Fields == Services \X {"config", "token"}

Idle == [at |-> "idle"]
Running == [at |-> "running"]

\* A call that has run: the fields it has set and the services it returns.
Done(sets, n, returns) == [at |-> "done", sets |-> sets, write |-> n, returns |-> returns]
Calls == {Idle, Running}
            \cup [at : {"done"}, sets : SUBSET Fields, write : 0 .. MaxCommits, returns : SUBSET Services]

TypeOK ==
    /\ phase \in [Processes -> {"down", "starting", "ready", "failed", "closing"}]
    /\ key \in [Processes -> SecretKeys \cup {"none"}]
    /\ given \in [Processes -> Defaults \cup {{}}]
    /\ todo \in [Processes -> SUBSET Items] /\ own \in [Processes -> SUBSET Items]
    /\ tables \in BOOLEAN /\ commits \in 0 .. MaxCommits
    /\ roles \subseteq Roles /\ services \in [Services -> Rows \cup {NoRow}]
    /\ call \in [Callers -> Calls]
    /\ acked \in [Fields -> 0 .. MaxCommits]

Init ==
    /\ phase = [p \in Processes |-> "down"]
    /\ key = [p \in Processes |-> "none"]
    /\ given = [p \in Processes |-> {}]
    /\ todo = [p \in Processes |-> {}] /\ own = [p \in Processes |-> {}]
    /\ tables = FALSE /\ commits = 0
    /\ roles = {} /\ services = [s \in Services |-> NoRow]
    /\ call = [c \in Callers |-> Idle]
    /\ acked = [f \in Fields |-> 0]

Become(p, next) == phase' = [phase EXCEPT ![p] = next]

\* Mutant of Locked: the uncommitted rows of others are ignored.
LockedNever(p, item) == FALSE

\* Another start has inserted the row, or creates the tables, and is not over.
Locked(p, item) == \E q \in Processes \ {p} : item \in own[q]

\* Mutant of Held: a write takes the row whoever has inserted it.
HeldNever(item) == FALSE

\* Any start has, for a write on a connection of its own.
Held(item) == \E q \in Processes : item \in own[q]

Stored(item) ==
    \/ item = Create /\ tables
    \/ item \in roles
    \/ item \in Services /\ services[item] # NoRow

----------------------------------------------------------------------------
(* start and close                                                         *)

\* The pool is made by a process that may have another key and other defaults.
CreatePool(p) ==
    /\ phase[p] = "down"
    /\ Become(p, "starting")
    /\ \E k \in SecretKeys : key' = [key EXCEPT ![p] = k]
    /\ \E D \in Defaults :
        /\ given' = [given EXCEPT ![p] = D]
        /\ todo' = [todo EXCEPT ![p] = Script(D)]
    /\ UNCHANGED <<own, database, call, acked>>

\* The statements that come next; the dictionaries' order is left open.
Due(p) ==
    IF Create \in todo[p] THEN {Create}
    ELSE IF todo[p] \cap Roles # {} THEN todo[p] \cap Roles
    ELSE todo[p]

Referenced(p, r) == Stored(r) \/ r \in own[p]

Insert(p) ==
    /\ phase[p] = "starting"
    /\ \E item \in Due(p) :
        /\ ~Locked(p, item)
        /\ item \in Services => Referenced(p, RoleOf[item])
        /\ todo' = [todo EXCEPT ![p] = @ \ {item}]
        /\ own' = [own EXCEPT ![p] = IF Stored(item) THEN @ ELSE @ \cup {item}]
    /\ UNCHANGED <<phase, key, given, database, call, acked>>

\* The rows a transaction leaves when it has inserted the items.
Leave(p, items) ==
    /\ tables' = (tables \/ Create \in items)
    /\ roles' = roles \cup (items \cap Roles)
    /\ services' =
        [s \in Services |-> IF s \in items THEN Row(p, s, RoleOf[s], 0) ELSE services[s]]
    /\ UNCHANGED commits

Commit(p) ==
    /\ phase[p] = "starting" /\ todo[p] = {}
    /\ Leave(p, own[p])
    /\ own' = [own EXCEPT ![p] = {}]
    /\ Become(p, "ready")
    /\ UNCHANGED <<key, given, todo, call, acked>>

\* Mutant of AfterFailure: each insert has been committed on its own.
AfterFailureKept(p) == own[p]

AfterFailure(p) == {}

\* Any statement of it raises, a wait of command_timeout included: the
\* transaction is rolled back and the pool stays.
StartFails(p) ==
    /\ phase[p] = "starting"
    /\ Leave(p, AfterFailure(p))
    /\ own' = [own EXCEPT ![p] = {}] /\ todo' = [todo EXCEPT ![p] = {}]
    /\ given' = [given EXCEPT ![p] = {}]
    /\ Become(p, "failed")
    /\ UNCHANGED <<key, call, acked>>

Close(p) ==
    /\ phase[p] \in {"ready", "failed"}
    /\ Become(p, "closing") /\ given' = [given EXCEPT ![p] = {}]
    /\ UNCHANGED <<key, todo, own, database, call, acked>>

\* pool.close() waits for every connection that is lent.
Closed(p) ==
    /\ phase[p] = "closing" /\ \A c \in Callers : Of[c] = p => call[c] = Idle
    /\ Become(p, "down") /\ key' = [key EXCEPT ![p] = "none"]
    /\ UNCHANGED <<given, todo, own, database, call, acked>>

\* The process is killed; PostgreSQL rolls its transaction back.
Killed(p) ==
    /\ phase[p] # "down"
    /\ Become(p, "down") /\ key' = [key EXCEPT ![p] = "none"]
    /\ given' = [given EXCEPT ![p] = {}]
    /\ own' = [own EXCEPT ![p] = {}] /\ todo' = [todo EXCEPT ![p] = {}]
    /\ call' = [c \in Callers |-> IF Of[c] = p THEN Idle ELSE call[c]]
    /\ UNCHANGED <<database, acked>>

----------------------------------------------------------------------------
(* the calls of a store that has a pool                                    *)

\* The call waits for a connection, and then for its statement.
Request(c) ==
    /\ call[c] = Idle /\ phase[Of[c]] \notin {"down", "closing"}
    /\ call' = [call EXCEPT ![c] = Running]
    /\ UNCHANGED <<starts, database, acked>>

\* The statement has run, and its answer is on the way.
Ran(c, sets, n, returns) ==
    /\ call[c] = Running
    /\ call' = [call EXCEPT ![c] = Done(sets, n, returns)]
    /\ UNCHANGED <<starts, tables, acked>>

NextWrite == commits < MaxCommits /\ commits' = commits + 1

\* Mutant of Upserted: an existing row keeps its encrypted key.
UpsertedButKey(c, s, r, w) ==
    [Row(Of[c], s, r, w) EXCEPT !.sealed = IF Stored(s) THEN services[s].sealed ELSE @]

Upserted(c, s, r, w) == Row(Of[c], s, r, w)

\* It waits for the row when a start has inserted it.  The role is a foreign
\* key: a missing one raises, which CallFails covers.
UpsertService(c) ==
    \E s \in Services, r \in Roles :
        /\ tables /\ Stored(r) /\ ~Held(s)
        /\ services' = [services EXCEPT ![s] = Upserted(c, s, r, commits + 1)]
        /\ NextWrite /\ Ran(c, {s} \X {"config", "token"}, commits + 1, {})
        /\ UNCHANGED roles

\* It answers whether the service exists: result == "UPDATE 1".  A row of a
\* start that is not over does not, yet.
UpdateServiceToken(c) ==
    \E s \in Services :
        /\ tables
        /\ \/ /\ Stored(s) /\ services' = [services EXCEPT ![s].token = commits + 1]
              /\ NextWrite /\ Ran(c, {<<s, "token">>}, commits + 1, {})
           \/ /\ ~Stored(s)
              /\ Ran(c, {}, 0, {}) /\ UNCHANGED <<services, commits>>
        /\ UNCHANGED roles

UpsertRole(c) ==
    \E r \in Roles :
        /\ tables /\ ~Held(r)
        /\ roles' = roles \cup {r}
        /\ Ran(c, {}, 0, {})
        /\ UNCHANGED <<services, commits>>

\* Mutant of Opens: the name is not authenticated.
OpensByKey(p, s) == services[s].sealed.key = key[p]

\* _SecretCipher.decrypt: the key is the same and so is the name.
Opens(p, s) == services[s].sealed.key = key[p] /\ services[s].sealed.name = s

\* list_services and get_service; one row that does not open fails the call.
ReadServices(c) ==
    \E S \in {Services} \cup {{s} : s \in Services} :
        LET found == {s \in S : Stored(s)}
        IN  /\ tables /\ \A s \in found : Opens(Of[c], s)
            /\ Ran(c, {}, 0, found) /\ UNCHANGED <<roles, services, commits>>

\* list_roles, get_role and ping, which does not need the tables.
ReadOther(c) == Ran(c, {}, 0, {}) /\ UNCHANGED <<roles, services, commits>>

Acknowledge(c) ==
    /\ call[c].at = "done"
    /\ call' = [call EXCEPT ![c] = Idle]
    /\ acked' = [f \in Fields |->
                    IF f \in call[c].sets /\ acked[f] < call[c].write THEN call[c].write
                    ELSE acked[f]]
    /\ UNCHANGED <<starts, database>>

\* The call raises: a table or the role is missing, a row does not open, the
\* time is over, or the answer to a statement that has run is lost.
CallFails(c) ==
    /\ call[c] # Idle
    /\ call' = [call EXCEPT ![c] = Idle]
    /\ UNCHANGED <<starts, database, acked>>

\* Outside the program, the encrypted keys of two rows are exchanged.
Exchanged ==
    /\ \E s, t \in Services :
        /\ s # t /\ Stored(s) /\ Stored(t)
        /\ services[s].sealed.name = s /\ services[t].sealed.name = t
        /\ services' = [services EXCEPT ![s].sealed = services[t].sealed,
                                        ![t].sealed = services[s].sealed]
    /\ UNCHANGED <<starts, tables, roles, commits, call, acked>>

----------------------------------------------------------------------------
Next ==
    \/ \E p \in Processes :
        CreatePool(p) \/ Insert(p) \/ Commit(p) \/ StartFails(p) \/ Close(p) \/ Closed(p) \/ Killed(p)
    \/ \E c \in Callers :
        \/ Request(c) \/ UpsertService(c) \/ UpdateServiceToken(c) \/ UpsertRole(c)
        \/ ReadServices(c) \/ ReadOther(c) \/ Acknowledge(c) \/ CallFails(c)
    \/ Exchanged

Spec == Init /\ [][Next]_vars

----------------------------------------------------------------------------
(* Properties.                                                             *)

(* The defaults of a start appear together: the tables never stand without  *)
(* all that some start was given, a process that has started finds all of   *)
(* its own there, and a row that appears as a default comes with the rest   *)
(* of those, whichever starts fail, are killed or run at once and whatever  *)
(* they were given (proxy_store.py:151-211).                                *)
DefaultsTogether ==
    /\ tables => \E D \in Defaults : \A item \in D : Stored(item)
    /\ \A p \in Processes : phase[p] = "ready" =>
        tables /\ \A item \in given[p] : Stored(item)

(* A configuration or a token whose write was answered is replaced only by  *)
(* a later write, never by the defaults of a start that began before or     *)
(* after it (proxy_store.py:192-211, 258-300).                              *)
AcknowledgedWritesStay ==
    \A f \in Fields : acked[f] # 0 => services[f[1]] # NoRow /\ services[f[1]][f[2]] >= acked[f]

(* A row whose encrypted key is its own has the upstream key of the same    *)
(* write as its other configuration: a new token changes neither, an        *)
(* upsert heals a row of an older key (proxy_store.py:258-300).             *)
KeyIsOfConfig ==
    \A s \in Services : services[s] # NoRow /\ services[s].sealed.name = s
        => services[s].sealed.secret = services[s].config

(* What list_services or get_service answers is, of each service, the      *)
(* upstream key and the configuration of one and the same write, and that  *)
(* is no write before the last one answered: starts, rotations, upserts    *)
(* under another key and exchanged values in the table make the call raise *)
(* or change nothing of this ("encrypted values cannot be swapped between  *)
(* service records unnoticed", proxy_store.py:3-6, 56-83, 221-256).        *)
ReadsAreOfOneWrite ==
    [][\A c \in Callers :
        call[c] = Running /\ call'[c].at = "done" =>
            \A s \in call'[c].returns :
                /\ services[s].sealed.secret = services[s].config
                /\ services[s].config >= acked[<<s, "config">>]]_vars

Registry == INSTANCE ServiceRegistry WITH
    seeded <- tables,
    known <- roles,
    listed <- {s \in Services : services[s] # NoRow},
    version <- [f \in Fields |-> IF services[f[1]] = NoRow THEN 0 ELSE services[f[1]][f[2]]],
    last <- commits,
    answered <- acked

(* To its callers the store is one table to which each start adds what it   *)
(* misses of its defaults in one step and which each write changes in one   *)
(* step, though starts overlap and fail, and answers get lost               *)
(* (proxy_store.py:136-356).                                                *)
ImplementsRegistry == Registry!RegistrySpec
=============================================================================
