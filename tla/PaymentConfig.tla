---------------------------- MODULE PaymentConfig ----------------------------
(***************************************************************************)
(* The payment configuration: one row (id 1), the entity cached from it    *)
(* for a minute, the getters that read it and updateConfig, which changes  *)
(* the cached entity itself (payment-config.service.ts).                   *)
(*                                                                         *)
(* An await of a value that is already there resumes before any callback   *)
(* of the database, so that a read that hits the cache, and the part of an *)
(* update from its hit to its save, are single steps.  repository.save     *)
(* first selects the row, compares it with the entity and then writes the  *)
(* columns that differ: Snapshot and Write.                                *)
(***************************************************************************)
EXTENDS Integers

CONSTANTS
  Readers,     \* callers of the getters; each reads again and again
  Updates,     \* calls of updateConfig
  Fields,      \* columns of the row
  Values, Blank,  \* what a column holds; Blank on a new row
  Objects,     \* entities in memory
  None,        \* no cached entity
  TTL,         \* CACHE_TTL
  MaxFailures  \* bound on the failed awaits and restarts of one behaviour

ASSUME CallsAssumption == Readers \cap Updates = {}

ASSUME ValuesAssumption ==
  Blank \in Values /\ Objects # {} /\ None \notin [object : Objects, age : 0 .. TTL]

ASSUME BoundsAssumption == TTL \in Nat \ {0} /\ MaxFailures \in Nat

VARIABLES
  row,      \* the stored configuration
  entity,   \* what each entity in memory holds
  cache,    \* None, or the cached entity and its age
  call,     \* local state of each read and update
  tainted,  \* history: entities a late reply or a failed update left wrong
  failures

vars == <<row, entity, cache, call, tainted, failures>>

Calls == Readers \cup Updates

Config == [Fields -> Values]

\* What updateConfig is passed: a value for some of the fields.
Dtos == UNION {[S -> Values] : S \in SUBSET Fields}

\* loaded is the row as the last answer of the database gave it, object the
\* entity an update is saving.
CallState ==
  [pc : {"idle", "querying", "loaded", "saving", "comparing", "saved", "done"},
   dto : Dtos, loaded : Config, object : Objects]

TypeOK ==
  /\ row \in Config
  /\ entity \in [Objects -> Config]
  /\ cache \in {None} \cup [object : Objects, age : 0 .. TTL]
  /\ call \in [Calls -> CallState]
  /\ tainted \subseteq Objects
  /\ failures \in 0 .. MaxFailures

NewRow == [f \in Fields |-> Blank]

NewCall == [pc |-> "idle", dto |-> [f \in {} |-> Blank], loaded |-> NewRow,
            object |-> CHOOSE o \in Objects : TRUE]

\* onModuleInit has created the row on a new database and cached it.
Init ==
  /\ row = NewRow
  /\ entity = [o \in Objects |-> NewRow]
  /\ cache \in [object : Objects, age : {0}]
  /\ call = [c \in Calls |-> NewCall]
  /\ tainted = {}
  /\ failures = 0

-----------------------------------------------------------------------------
Valid == cache # None /\ cache.age < TTL

\* Mutation: a field that is not passed becomes undefined.
ApplyAll(config, dto) == dto

\* Only the fields that were passed change.
Apply(config, dto) == [f \in Fields |-> IF f \in DOMAIN dto THEN dto[f] ELSE config[f]]

\* An entity no update is saving; the cached one is about to be replaced.
Free(o) == \A u \in Updates : call[u].pc \in {"saving", "comparing"} => o # call[u].object

At(c, pc) == call[c].pc = pc

\* Mutation: a hit makes the cached entity young again.
ReadHitSliding(r) ==
  /\ At(r, "idle") /\ Valid
  /\ cache' = [cache EXCEPT !.age = 0]
  /\ UNCHANGED <<row, entity, call, tainted, failures>>

\* A getter that finds the cache valid answers from it; one that does not
\* selects the row.
ReadHit(r) ==
  /\ At(r, "idle") /\ Valid
  /\ UNCHANGED vars

ReadMiss(r) ==
  /\ At(r, "idle") /\ ~Valid
  /\ call' = [call EXCEPT ![r].pc = "querying"]
  /\ UNCHANGED <<row, entity, cache, tainted, failures>>

\* The database answers a select.
Reply(c) ==
  /\ At(c, "querying")
  /\ call' = [call EXCEPT ![c].pc = "loaded", ![c].loaded = row]
  /\ UNCHANGED <<row, entity, cache, tainted, failures>>

\* The answer becomes a new entity, cached from now on, whatever has
\* happened since the database gave it.
Cached(o, c) ==
  /\ Free(o)
  /\ cache' = [object |-> o, age |-> 0]
  /\ tainted' = IF call[c].loaded = row THEN tainted \ {o} ELSE tainted \cup {o}

FillRead(r) ==
  \E o \in Objects :
    /\ At(r, "loaded")
    /\ Cached(o, r)
    /\ entity' = [entity EXCEPT ![o] = call[r].loaded]
    /\ call' = [call EXCEPT ![r] = NewCall]
    /\ UNCHANGED <<row, failures>>

\* updateConfig on a valid cache changes the cached entity and saves it.
UpdateHit(u, dto) ==
  /\ At(u, "idle") /\ Valid
  /\ entity' = [entity EXCEPT ![cache.object] = Apply(@, dto)]
  /\ call' = [call EXCEPT ![u].pc = "saving", ![u].dto = dto, ![u].object = cache.object]
  /\ UNCHANGED <<row, cache, tainted, failures>>

UpdateMiss(u, dto) ==
  /\ At(u, "idle") /\ ~Valid
  /\ call' = [call EXCEPT ![u].pc = "querying", ![u].dto = dto]
  /\ UNCHANGED <<row, entity, cache, tainted, failures>>

FillUpdate(u) ==
  \E o \in Objects :
    /\ At(u, "loaded")
    /\ Cached(o, u)
    /\ entity' = [entity EXCEPT ![o] = Apply(call[u].loaded, call[u].dto)]
    /\ call' = [call EXCEPT ![u].pc = "saving", ![u].object = o]
    /\ UNCHANGED <<row, failures>>

Snapshot(u) ==
  /\ At(u, "saving")
  /\ call' = [call EXCEPT ![u].pc = "comparing", ![u].loaded = row]
  /\ UNCHANGED <<row, entity, cache, tainted, failures>>

\* The columns in which the entity differs from the snapshot are written.
Merge(config, new, old) == [f \in Fields |-> IF new[f] # old[f] THEN new[f] ELSE config[f]]

Write(u) ==
  /\ At(u, "comparing")
  /\ row' = Merge(row, entity[call[u].object], call[u].loaded)
  /\ call' = [call EXCEPT ![u].pc = "saved"]
  /\ UNCHANGED <<entity, cache, tainted, failures>>

\* Mutation: the cache is left alone, since the entity in it was changed too.
FinishKeepsCache(u) ==
  /\ At(u, "saved")
  /\ call' = [call EXCEPT ![u] = [NewCall EXCEPT !.pc = "done"]]
  /\ UNCHANGED <<row, entity, cache, tainted, failures>>

\* clearCache, and the answer to the administrator.
Finish(u) ==
  /\ At(u, "saved")
  /\ cache' = None
  /\ call' = [call EXCEPT ![u] = [NewCall EXCEPT !.pc = "done"]]
  /\ UNCHANGED <<row, entity, tainted, failures>>

Tick ==
  /\ Valid
  /\ cache' = [cache EXCEPT !.age = @ + 1]
  /\ UNCHANGED <<row, entity, call, tainted, failures>>

\* A call that failed or that the process took with it.
Ended(c) == IF c \in Updates THEN [NewCall EXCEPT !.pc = "done"] ELSE NewCall

\* The select, the snapshot, the write or its acknowledgement fails: the
\* caller gets an error, and the entity keeps what the update put in it.
AwaitFails(c) ==
  /\ call[c].pc \in {"querying", "saving", "comparing", "saved"}
  /\ failures < MaxFailures
  /\ failures' = failures + 1
  /\ tainted' =
       CASE call[c].pc = "querying" -> tainted
         [] call[c].pc \in {"saving", "comparing"} -> tainted \cup {call[c].object}
         [] call[c].pc = "saved" -> tainted \cup {o \in Objects : cache # None /\ o = cache.object}
  /\ call' = [call EXCEPT ![c] = Ended(c)]
  /\ UNCHANGED <<row, entity, cache>>

\* The process stops and starts again: nothing in memory survives, and
\* onModuleInit caches the row before the first request.
Restart ==
  /\ failures < MaxFailures
  /\ failures' = failures + 1
  /\ entity' = [o \in Objects |-> row]
  /\ cache' \in [object : Objects, age : {0}]
  /\ call' = [c \in Calls |-> IF call[c].pc = "idle" THEN NewCall ELSE Ended(c)]
  /\ tainted' = {}
  /\ UNCHANGED row

CallStep(c) ==
  \/ Reply(c)
  \/ c \in Readers /\ FillRead(c)
  \/ c \in Updates /\ (FillUpdate(c) \/ Snapshot(c) \/ Write(c) \/ Finish(c))

Next ==
  \/ \E r \in Readers : ReadHit(r) \/ ReadMiss(r)
  \/ \E u \in Updates, dto \in Dtos : UpdateHit(u, dto) \/ UpdateMiss(u, dto)
  \/ \E c \in Calls : CallStep(c) \/ AwaitFails(c)
  \/ Tick
  \/ Restart

Spec == Init /\ [][Next]_vars

\* The database answers, and time passes.  Nobody has to read or update.
FairSpec == Spec /\ WF_vars(Tick) /\ \A c \in Calls : WF_vars(CallStep(c))

-----------------------------------------------------------------------------
\* u has changed the row or is about to, and will clear the cache.
WillClear(u) ==
  \/ At(u, "saved")
  \/ call[u].pc \in {"saving", "comparing"} /\ cache # None /\ call[u].object = cache.object

\* Whatever the order of reads and updates, a cached entity that differs from
\* the row (clearCache after the save, updateConfig) is either about to be
\* cleared by an update in progress, or was left wrong by a select answered
\* before an update and cached after it or by an update that failed half way:
\* no other interleaving makes the cache stale.
CacheIsCurrent ==
  cache # None /\ cache.object \notin tainted /\ entity[cache.object] # row
    => \E u \in Updates : WillClear(u)

\* When the updates are over, the getters stop answering from a stale entity
\* (CACHE_TTL in ensureConfig), however often they are called, and whatever
\* failed on the way.
StaleEnds == <>[](Valid => entity[cache.object] = row)

\* updateConfig says that it only updates the fields that are passed: a field
\* of the row only takes a value that an update in progress was passed for it.
OnlyPassedFields ==
  [][\A f \in Fields : row'[f] # row[f] =>
       \E u \in Updates : f \in DOMAIN call[u].dto /\ call[u].dto[f] = row'[f]]_vars
=============================================================================
