---------------------------- MODULE PlanRegistry ----------------------------
(***************************************************************************)
(* The memoized plan registry (services/plan-registry.ts): a cache with a  *)
(* time to live, one query that concurrent callers share, and an epoch     *)
(* that keeps a query which was overtaken by an edit out of the cache.     *)
(* The tables `plan` and `plan_price` are reduced to a version, which each *)
(* committed edit of an administrator increases.                           *)
(***************************************************************************)
EXTENDS Naturals

CONSTANTS
    Callers,        \* requests that read the registry
    Editors,        \* administrators who edit a plan or its price
    MaxVersion,     \* bound on the edits of a behaviour
    None            \* no query, or an empty cache

ASSUME RegistryAssumption ==
    MaxVersion \in Nat /\ None \notin Nat /\ None \notin Callers

VARIABLES
    table,      \* the version in the database
    cache,      \* the version in the cache, or None
    inFlight,   \* the caller whose query others join, or None
    epoch,      \* the number of invalidations
    calls,      \* what each caller is doing
    edits,      \* what each editor is doing
    settled     \* the version at the last invalidation

registryVars == <<table, cache, inFlight, epoch, calls, edits, settled>>

-----------------------------------------------------------------------------

Versions == 0..MaxVersion

\* A caller that runs a query ("query", then "loaded" once the database has
\* answered), or that waits for the query of `owner`.
Call ==
    [pc: {"idle", "query", "loaded", "wait", "returned"},
     owner: Callers \cup {None}, epoch: Nat, data: Versions, floor: Versions]

NoCall == [pc |-> "idle", owner |-> None, epoch |-> 0, data |-> 0, floor |-> 0]

RegistryTypeOK ==
    /\ table \in Versions
    /\ cache \in Versions \cup {None}
    /\ inFlight \in Callers \cup {None}
    /\ epoch \in Nat
    /\ calls \in [Callers -> Call]
    /\ edits \in [Editors -> {"idle", "committed"}]
    /\ settled \in Versions

RegistryInit ==
    /\ table = 0
    /\ cache = None
    /\ inFlight = None
    /\ epoch = 0
    /\ calls = [c \in Callers |-> NoCall]
    /\ edits = [e \in Editors |-> "idle"]
    /\ settled = 0

-----------------------------------------------------------------------------

\* The caller returns `version`; what was settled when it called is `floor`.
Returned(floor, version) ==
    [pc |-> "returned", owner |-> None, epoch |-> 0, data |-> version, floor |-> floor]

\* A call that finds a fresh cache.
Hit(c) ==
    /\ calls[c].pc = "idle"
    /\ cache # None
    /\ calls' = [calls EXCEPT ![c] = Returned(settled, cache)]
    /\ UNCHANGED <<table, cache, inFlight, epoch, edits, settled>>

\* A call with the client of a transaction: what it reads is not shared.
ReadInTransaction(c) ==
    /\ calls[c].pc = "idle"
    /\ cache = None
    /\ calls' = [calls EXCEPT ![c] = Returned(settled, table)]
    /\ UNCHANGED <<table, cache, inFlight, epoch, edits, settled>>

\* A call that joins the query in flight.
Join(c) ==
    /\ calls[c].pc = "idle"
    /\ cache = None
    /\ inFlight # None
    /\ calls' = [calls EXCEPT ![c] = [pc |-> "wait", owner |-> inFlight,
                                      epoch |-> 0, data |-> 0, floor |-> settled]]
    /\ UNCHANGED <<table, cache, inFlight, epoch, edits, settled>>

\* A call that starts a query.
Miss(c) ==
    /\ calls[c].pc = "idle"
    /\ cache = None
    /\ inFlight = None
    /\ calls' = [calls EXCEPT ![c] = [pc |-> "query", owner |-> None,
                                      epoch |-> epoch, data |-> 0, floor |-> settled]]
    /\ inFlight' = c
    /\ UNCHANGED <<table, cache, epoch, edits, settled>>

\* The database reads the tables for a query.
Load(c) ==
    /\ calls[c].pc = "query"
    /\ calls' = [calls EXCEPT ![c].pc = "loaded", ![c].data = table]
    /\ UNCHANGED <<table, cache, inFlight, epoch, edits, settled>>

\* A late answer is cached although the registry was invalidated meanwhile.
DeliverAnyEpoch(c) ==
    /\ calls[c].pc = "loaded"
    /\ cache' = calls[c].data
    /\ inFlight' = None
    /\ calls' = [d \in Callers |->
                   IF d = c \/ (calls[d].pc = "wait" /\ calls[d].owner = c)
                   THEN Returned(calls[d].floor, calls[c].data) ELSE calls[d]]
    /\ UNCHANGED <<table, epoch, edits, settled>>

\* The answer arrives: it is cached unless the registry was invalidated since
\* the query began, and whoever waits for it gets it.
Deliver(c) ==
    /\ calls[c].pc = "loaded"
    /\ cache' = IF calls[c].epoch = epoch THEN calls[c].data ELSE cache
    /\ inFlight' = None
    /\ calls' = [d \in Callers |->
                   IF d = c \/ (calls[d].pc = "wait" /\ calls[d].owner = c)
                   THEN Returned(calls[d].floor, calls[c].data) ELSE calls[d]]
    /\ UNCHANGED <<table, epoch, edits, settled>>

\* The query fails, and all who wait for it fail.
LoadFails(c) ==
    /\ calls[c].pc = "query"
    /\ inFlight' = None
    /\ calls' = [d \in Callers |->
                   IF d = c \/ (calls[d].pc = "wait" /\ calls[d].owner = c)
                   THEN NoCall ELSE calls[d]]
    /\ UNCHANGED <<table, cache, epoch, edits, settled>>

\* The caller goes on with what it got.
Finish(c) ==
    /\ calls[c].pc = "returned"
    /\ calls' = [calls EXCEPT ![c] = NoCall]
    /\ UNCHANGED <<table, cache, inFlight, epoch, edits, settled>>

\* PLAN_CACHE_TTL_SECONDS are over.
Expire ==
    /\ cache # None
    /\ cache' = None
    /\ UNCHANGED <<table, inFlight, epoch, calls, edits, settled>>

\* An edit of a plan commits; the handler has yet to learn of it.
CommitEdit(e) ==
    /\ edits[e] = "idle"
    /\ table < MaxVersion
    /\ table' = table + 1
    /\ edits' = [edits EXCEPT ![e] = "committed"]
    /\ UNCHANGED <<cache, inFlight, epoch, calls, settled>>

\* The invalidation leaves the query in flight for others to join.
InvalidateCacheOnly(e) ==
    /\ edits[e] = "committed"
    /\ epoch' = epoch + 1
    /\ cache' = None
    /\ settled' = table
    /\ edits' = [edits EXCEPT ![e] = "idle"]
    /\ UNCHANGED <<table, inFlight, calls>>

\* The handler goes on after its commit and invalidates the registry.
Invalidate(e) ==
    /\ edits[e] = "committed"
    /\ epoch' = epoch + 1
    /\ cache' = None
    /\ inFlight' = None
    /\ settled' = table
    /\ edits' = [edits EXCEPT ![e] = "idle"]
    /\ UNCHANGED <<table, calls>>

\* The process stops: everything but the database is gone.
RestartServer ==
    /\ cache' = None
    /\ inFlight' = None
    /\ epoch' = 0
    /\ calls' = [c \in Callers |-> NoCall]
    /\ edits' = [e \in Editors |-> "idle"]
    /\ settled' = table
    /\ UNCHANGED table

RegistryNext ==
    \/ \E c \in Callers :
         \/ Hit(c) \/ ReadInTransaction(c) \/ Join(c) \/ Miss(c)
         \/ Load(c) \/ Deliver(c) \/ LoadFails(c) \/ Finish(c)
    \/ \E e \in Editors : CommitEdit(e) \/ Invalidate(e)
    \/ Expire
    \/ RestartServer

RegistrySpec == RegistryInit /\ [][RegistryNext]_registryVars

-----------------------------------------------------------------------------

\* A call never returns what an edit replaced, once that edit has invalidated
\* the registry before the call: not from the cache, and not from a query that
\* it joined (plan-registry.ts:207 "the very next call is guaranteed to issue a
\* fresh query rather than reuse a read that may predate the write").
ReadsAreFresh == \A c \in Callers : calls[c].pc = "returned" => calls[c].data >= calls[c].floor

\* What makes it so.  Nobody asks for more than the tables hold.
FloorsAreSettled ==
    /\ settled <= table
    /\ \A c \in Callers : calls[c].floor <= settled

\* A query of this epoch has not been overtaken, so neither is what it leaves in the cache.
CacheIsFresh ==
    /\ cache # None => cache >= settled
    /\ \A c \in Callers : calls[c].pc \in {"query", "loaded"} =>
           /\ calls[c].epoch <= epoch
           /\ calls[c].pc = "loaded" => calls[c].data >= calls[c].floor
           /\ calls[c].pc = "loaded" /\ calls[c].epoch = epoch => calls[c].data >= settled
    /\ inFlight # None => calls[inFlight].pc \in {"query", "loaded"} /\ calls[inFlight].epoch = epoch

\* Whoever waits, waits for a query, and for one that is new enough.
WaitersAreServed ==
    \A c \in Callers : calls[c].pc = "wait" =>
        /\ calls[c].owner \in Callers
        /\ calls[calls[c].owner].pc \in {"query", "loaded"}
        /\ calls[calls[c].owner].pc = "loaded" => calls[calls[c].owner].data >= calls[c].floor

RegistryInv == RegistryTypeOK /\ FloorsAreSettled /\ CacheIsFresh /\ WaitersAreServed /\ ReadsAreFresh

=============================================================================
