-------------------------- MODULE ServiceRegistry --------------------------
(***************************************************************************)
(* What the proxy's configuration store promises its callers, however many *)
(* processes start, fail or write at once: the defaults of a start appear  *)
(* together and replace nothing, each write sets its fields in one step,   *)
(* and what has been answered is at most as new as what is stored.         *)
(***************************************************************************)
EXTENDS Naturals

CONSTANTS Services, Roles, Defaults

VARIABLES
    seeded,   \* whether any start has added its defaults
    known,    \* the roles
    listed,   \* the services
    version,  \* the write that each field of a service is of, 0 for a default
    last,     \* the last write
    answered  \* the last write of each field that was answered

FieldsOf(S) == S \X {"config", "token"}

RegistryInit ==
    /\ seeded = FALSE /\ known = {} /\ listed = {} /\ last = 0
    /\ version = [f \in FieldsOf(Services) |-> 0]
    /\ answered = [f \in FieldsOf(Services) |-> 0]

\* A start commits: what it misses of its defaults is there at once.
Seed(D) ==
    /\ seeded' = TRUE
    /\ known' = known \cup (D \cap Roles) /\ listed' = listed \cup (D \cap Services)
    /\ UNCHANGED <<version, last, answered>>

Write(F) ==
    /\ seeded /\ last' = last + 1
    /\ version' = [f \in FieldsOf(Services) |-> IF f \in F THEN last + 1 ELSE version[f]]
    /\ UNCHANGED <<seeded, answered>>

PutRole(r) ==
    /\ seeded /\ known' = known \cup {r}
    /\ UNCHANGED <<seeded, listed, version, last, answered>>

PutService(s) ==
    /\ known # {}
    /\ Write(FieldsOf({s})) /\ listed' = listed \cup {s}
    /\ UNCHANGED known

Rotate(s) == s \in listed /\ Write({<<s, "token">>}) /\ UNCHANGED <<known, listed>>

\* The answer to write n, which is stored or has been replaced by a later one.
Answer(F, n) ==
    /\ \A f \in F : f[1] \in listed /\ n <= version[f]
    /\ answered' = [f \in FieldsOf(Services) |->
                        IF f \in F /\ answered[f] < n THEN n ELSE answered[f]]
    /\ UNCHANGED <<seeded, known, listed, version, last>>

RegistryNext ==
    \/ \E D \in Defaults : Seed(D)
    \/ \E r \in Roles : PutRole(r)
    \/ \E s \in Services : PutService(s) \/ Rotate(s)
    \/ \E F \in SUBSET FieldsOf(Services), n \in 0 .. last : Answer(F, n)

RegistrySpec ==
    RegistryInit /\ [][RegistryNext]_<<seeded, known, listed, version, last, answered>>
=============================================================================
