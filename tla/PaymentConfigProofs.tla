------------------------- MODULE PaymentConfigProofs -------------------------
(***************************************************************************)
(* Safety of PaymentConfig for every number of readers, updates, fields    *)
(* and values.                                                             *)
(***************************************************************************)
EXTENDS PaymentConfig, TLAPS

-----------------------------------------------------------------------------
\* updateConfig makes a configuration of a configuration, whatever it is
\* passed, and so does the write of the columns that differ.
LEMMA ApplyType ==
  ASSUME NEW config \in Config, NEW dto \in Dtos
  PROVE  Apply(config, dto) \in Config
<1>1. PICK S \in SUBSET Fields : dto \in [S -> Values]
  BY DEF Dtos
<1>2. \A f \in Fields : f \in DOMAIN dto => dto[f] \in Values
  BY <1>1
<1>3. QED
  BY <1>2 DEF Apply, Config

LEMMA MergeType ==
  ASSUME NEW config \in Config, NEW new \in Config, NEW old \in Config
  PROVE  Merge(config, new, old) \in Config
BY DEF Merge, Config

LEMMA NewRowType == NewRow \in Config
BY ValuesAssumption DEF NewRow, Config

\* A call that has not begun, or that is over, is a call.
LEMMA NewCallType == NewCall \in CallState /\ [NewCall EXCEPT !.pc = "done"] \in CallState
<1>1. [f \in {} |-> Blank] \in Dtos
  <2>1. [f \in {} |-> Blank] \in [{} -> Values] /\ {} \in SUBSET Fields
    OBVIOUS
  <2>2. QED
    BY <2>1 DEF Dtos
<1>2. (CHOOSE o \in Objects : TRUE) \in Objects
  BY ValuesAssumption
<1>3. QED
  BY <1>1, <1>2, NewRowType DEF NewCall, CallState

LEMMA EndedType == \A c \in Calls : Ended(c) \in CallState
BY NewCallType DEF Ended

\* The fields of the calls and of the cache.
LEMMA FieldTypes ==
  ASSUME TypeOK
  PROVE  /\ \A c \in Calls : /\ call[c] \in CallState /\ call[c].dto \in Dtos
                             /\ call[c].loaded \in Config /\ call[c].object \in Objects
         /\ cache # None => /\ cache \in [object : Objects, age : 0 .. TTL]
                            /\ cache.object \in Objects /\ cache.age \in 0 .. TTL
BY DEF TypeOK, CallState

LEMMA TypeInit == Init => TypeOK
<1> SUFFICES ASSUME Init PROVE TypeOK
  OBVIOUS
<1>1. cache \in [object : Objects, age : 0 .. TTL]
  BY BoundsAssumption DEF Init
<1>2. QED
  BY <1>1, NewRowType, NewCallType, BoundsAssumption DEF Init, TypeOK

\* A loaded row becomes a cached entity with its type.
LEMMA CachedType ==
  ASSUME TypeOK, NEW o \in Objects, NEW c \in Calls, Cached(o, c)
  PROVE  cache' \in {None} \cup [object : Objects, age : 0 .. TTL] /\ tainted' \subseteq Objects
BY BoundsAssumption DEF TypeOK, Cached

\* Every step of the configuration keeps the types.
LEMMA TypeStep == TypeOK /\ [Next]_vars => TypeOK'
<1> SUFFICES ASSUME TypeOK, [Next]_vars PROVE TypeOK'
  OBVIOUS
<1>0. /\ \A c \in Calls : /\ call[c] \in CallState /\ call[c].dto \in Dtos
                          /\ call[c].loaded \in Config /\ call[c].object \in Objects
      /\ cache # None => /\ cache \in [object : Objects, age : 0 .. TTL]
                         /\ cache.object \in Objects /\ cache.age \in 0 .. TTL
  BY FieldTypes
<1>1. ASSUME NEW r \in Readers, ReadHit(r) PROVE TypeOK'
  BY <1>1 DEF ReadHit, vars, TypeOK
<1>2. ASSUME NEW r \in Readers, ReadMiss(r) PROVE TypeOK'
  <2>1. call' \in [Calls -> CallState]
    BY <1>0, <1>2 DEF ReadMiss, TypeOK, CallState, Calls
  <2>2. QED
    BY <1>2, <2>1 DEF ReadMiss, TypeOK
<1>3. ASSUME NEW c \in Calls, Reply(c) PROVE TypeOK'
  <2>1. call' \in [Calls -> CallState]
    <3>1. /\ call \in [Calls -> CallState] /\ call[c] \in CallState
          /\ call' = [call EXCEPT ![c] = [call[c] EXCEPT !.pc = "loaded", !.loaded = row]]
          /\ row \in Config
      BY <1>0, <1>3 DEF Reply, TypeOK
    <3>2. [call[c] EXCEPT !.pc = "loaded", !.loaded = row] \in CallState
      BY <3>1 DEF CallState
    <3>3. QED
      BY <3>1, <3>2
  <2>2. QED
    BY <1>3, <2>1 DEF Reply, TypeOK
<1>4. ASSUME NEW r \in Readers, FillRead(r) PROVE TypeOK'
  <2>1. PICK o \in Objects : /\ Cached(o, r)
                             /\ entity' = [entity EXCEPT ![o] = call[r].loaded]
                             /\ call' = [call EXCEPT ![r] = NewCall]
    BY <1>4 DEF FillRead
  <2>2. r \in Calls
    BY DEF Calls
  <2>3. entity' \in [Objects -> Config] /\ call' \in [Calls -> CallState]
    BY <1>0, <2>1, <2>2, NewCallType DEF TypeOK
  <2>4. QED
    BY <1>4, <2>1, <2>2, <2>3, CachedType DEF FillRead, TypeOK
<1>5. ASSUME NEW u \in Updates, NEW dto \in Dtos, UpdateHit(u, dto) PROVE TypeOK'
  <2>1. Apply(entity[cache.object], dto) \in Config
    BY <1>0, <1>5, ApplyType DEF UpdateHit, Valid, TypeOK
  <2>2. entity' \in [Objects -> Config]
    BY <1>0, <1>5, <2>1 DEF UpdateHit, Valid, TypeOK
  <2>3. call' \in [Calls -> CallState]
    <3>1. u \in Calls /\ cache.object \in Objects
      BY <1>0, <1>5 DEF UpdateHit, Valid, Calls
    <3>2. call \in [Calls -> CallState] /\ call[u] \in CallState
      BY <1>0, <3>1 DEF TypeOK
    <3>3. call' = [call EXCEPT ![u] = [call[u] EXCEPT !.pc = "saving", !.dto = dto,
                                                      !.object = cache.object]]
      BY <1>5, <3>1, <3>2 DEF UpdateHit
    <3>4. [call[u] EXCEPT !.pc = "saving", !.dto = dto, !.object = cache.object] \in CallState
      BY <3>1, <3>2 DEF CallState
    <3>5. QED
      BY <3>1, <3>2, <3>3, <3>4
  <2>4. QED
    BY <1>5, <2>2, <2>3 DEF UpdateHit, TypeOK
<1>6. ASSUME NEW u \in Updates, NEW dto \in Dtos, UpdateMiss(u, dto) PROVE TypeOK'
  <2>1. call' \in [Calls -> CallState]
    <3>1. /\ call \in [Calls -> CallState] /\ u \in Calls /\ call[u] \in CallState
          /\ call' = [call EXCEPT ![u] = [call[u] EXCEPT !.pc = "querying", !.dto = dto]]
      BY <1>0, <1>6 DEF UpdateMiss, TypeOK, Calls
    <3>2. [call[u] EXCEPT !.pc = "querying", !.dto = dto] \in CallState
      BY <3>1 DEF CallState
    <3>3. QED
      BY <3>1, <3>2
  <2>2. QED
    BY <1>6, <2>1 DEF UpdateMiss, TypeOK
<1>7. ASSUME NEW u \in Updates, FillUpdate(u) PROVE TypeOK'
  <2>1. PICK o \in Objects :
          /\ Cached(o, u)
          /\ entity' = [entity EXCEPT ![o] = Apply(call[u].loaded, call[u].dto)]
          /\ call' = [call EXCEPT ![u].pc = "saving", ![u].object = o]
    BY <1>7 DEF FillUpdate
  <2>2. u \in Calls
    BY DEF Calls
  <2>3. Apply(call[u].loaded, call[u].dto) \in Config
    BY <1>0, <2>2, ApplyType
  <2>4. entity' \in [Objects -> Config]
    BY <2>1, <2>3 DEF TypeOK
  <2>5. call' \in [Calls -> CallState]
    <3>1. call \in [Calls -> CallState] /\ call[u] \in CallState
      BY <1>0, <2>2 DEF TypeOK
    <3>2. call' = [call EXCEPT ![u] = [call[u] EXCEPT !.pc = "saving", !.object = o]]
      BY <2>1, <2>2, <3>1
    <3>3. [call[u] EXCEPT !.pc = "saving", !.object = o] \in CallState
      BY <3>1 DEF CallState
    <3>4. QED
      BY <2>2, <3>1, <3>2, <3>3
  <2>6. QED
    BY <1>7, <2>1, <2>2, <2>4, <2>5, CachedType DEF FillUpdate, TypeOK
<1>8. ASSUME NEW u \in Updates, Snapshot(u) PROVE TypeOK'
  <2>1. call' \in [Calls -> CallState]
    <3>1. /\ call \in [Calls -> CallState] /\ u \in Calls /\ call[u] \in CallState
          /\ call' = [call EXCEPT ![u] = [call[u] EXCEPT !.pc = "comparing", !.loaded = row]]
          /\ row \in Config
      BY <1>0, <1>8 DEF Snapshot, TypeOK, Calls
    <3>2. [call[u] EXCEPT !.pc = "comparing", !.loaded = row] \in CallState
      BY <3>1 DEF CallState
    <3>3. QED
      BY <3>1, <3>2
  <2>2. QED
    BY <1>8, <2>1 DEF Snapshot, TypeOK
<1>9. ASSUME NEW u \in Updates, Write(u) PROVE TypeOK'
  <2>1. u \in Calls
    BY DEF Calls
  <2>2. row' \in Config
    BY <1>0, <1>9, <2>1, MergeType DEF Write, TypeOK
  <2>3. call' \in [Calls -> CallState]
    BY <1>0, <1>9, <2>1 DEF Write, TypeOK, CallState
  <2>4. QED
    BY <1>9, <2>2, <2>3 DEF Write, TypeOK
<1>10. ASSUME NEW u \in Updates, Finish(u) PROVE TypeOK'
  BY <1>10, NewCallType DEF Finish, TypeOK
<1>11. ASSUME Tick PROVE TypeOK'
  <2>1. cache' \in [object : Objects, age : 0 .. TTL]
    BY <1>0, <1>11, BoundsAssumption DEF Tick, Valid
  <2>2. QED
    BY <1>11, <2>1 DEF Tick, TypeOK
<1>12. ASSUME NEW c \in Calls, AwaitFails(c) PROVE TypeOK'
  <2>1. call' \in [Calls -> CallState]
    BY <1>12, EndedType DEF AwaitFails, TypeOK
  <2>2. tainted' \subseteq Objects
    BY <1>0, <1>12 DEF AwaitFails, TypeOK
  <2>3. failures' \in 0 .. MaxFailures
    BY <1>12, BoundsAssumption DEF AwaitFails, TypeOK
  <2>4. QED
    BY <1>12, <2>1, <2>2, <2>3 DEF AwaitFails, TypeOK
<1>13. ASSUME Restart PROVE TypeOK'
  <2>1. call' \in [Calls -> CallState]
    BY <1>13, EndedType, NewCallType DEF Restart
  <2>2. cache' \in [object : Objects, age : 0 .. TTL]
    BY <1>13, BoundsAssumption DEF Restart
  <2>3. entity' \in [Objects -> Config] /\ failures' \in 0 .. MaxFailures
    BY <1>13, BoundsAssumption DEF Restart, TypeOK
  <2>4. QED
    BY <1>13, <2>1, <2>2, <2>3 DEF Restart, TypeOK
<1>14. CASE UNCHANGED vars
  BY <1>14 DEF vars, TypeOK
<1>15. QED
  BY <1>1, <1>2, <1>3, <1>4, <1>5, <1>6, <1>7, <1>8, <1>9, <1>10, <1>11, <1>12, <1>13, <1>14
  DEF Next, CallStep

\* TypeOK holds in every reachable state: in particular updateConfig leaves no
\* field undefined, in the entity or in the row.
THEOREM TypeCorrect == Spec => []TypeOK
BY TypeInit, TypeStep, PTL DEF Spec

-----------------------------------------------------------------------------
\* An update that is about to clear the cache still is, when neither the cached
\* entity nor the update's own state change.
LEMMA WillClearKept ==
  ASSUME NEW u \in Updates, WillClear(u), cache # None,
         cache' # None, cache'.object = cache.object, call'[u] = call[u]
  PROVE  WillClear(u)'
BY DEF WillClear, At

\* A row that has just been loaded is cached clean only if it is still the row.
LEMMA CachedClean ==
  ASSUME NEW o \in Objects, NEW c \in Calls, Cached(o, c),
         cache'.object \notin tainted'
  PROVE  cache'.object = o /\ call[c].loaded = row
BY DEF Cached

\* No step leaves a clean cached entity behind the row without an update that
\* is going to clear the cache.
LEMMA CurrentStep == TypeOK /\ CacheIsCurrent /\ [Next]_vars => CacheIsCurrent'
<1> SUFFICES ASSUME TypeOK, CacheIsCurrent, [Next]_vars,
                    cache' # None, cache'.object \notin tainted',
                    entity'[cache'.object] # row'
             PROVE  \E u \in Updates : WillClear(u)'
  BY DEF CacheIsCurrent
<1>0. /\ \A c \in Calls : call[c] \in CallState
      /\ cache # None => cache \in [object : Objects, age : 0 .. TTL] /\ cache.object \in Objects
  BY FieldTypes
<1>a. ASSUME cache # None, cache.object \notin tainted, entity[cache.object] # row
      PROVE  \E u \in Updates : WillClear(u)
  BY <1>a DEF CacheIsCurrent
<1>1. ASSUME NEW r \in Readers, ReadHit(r) PROVE \E u \in Updates : WillClear(u)'
  BY <1>a, <1>1 DEF ReadHit, vars, WillClear, At
<1>2. ASSUME NEW r \in Readers, ReadMiss(r) PROVE \E u \in Updates : WillClear(u)'
  <2>1. PICK u \in Updates : WillClear(u)
    BY <1>a, <1>2 DEF ReadMiss
  <2>2. call'[u] = call[u]
    BY <1>2, CallsAssumption DEF ReadMiss, TypeOK, Calls
  <2>3. QED
    BY <1>2, <2>1, <2>2, WillClearKept DEF ReadMiss
<1>3. ASSUME NEW c \in Calls, Reply(c) PROVE \E u \in Updates : WillClear(u)'
  <2>1. PICK u \in Updates : WillClear(u)
    BY <1>a, <1>3 DEF Reply
  <2>2. u # c
    BY <1>3, <2>1 DEF Reply, WillClear, At
  <2>3. call'[u] = call[u]
    BY <1>3, <2>2 DEF Reply, TypeOK, Calls
  <2>4. QED
    BY <1>3, <2>1, <2>3, WillClearKept DEF Reply
<1>4. ASSUME NEW r \in Readers, FillRead(r) PROVE \E u \in Updates : WillClear(u)'
  <2>1. PICK o \in Objects : /\ Cached(o, r)
                             /\ entity' = [entity EXCEPT ![o] = call[r].loaded]
    BY <1>4 DEF FillRead
  <2>2. cache'.object = o /\ call[r].loaded = row
    BY <2>1, CachedClean DEF Calls
  <2>3. entity'[cache'.object] = row'
    BY <1>4, <2>1, <2>2 DEF FillRead, TypeOK
  <2>4. QED
    BY <2>3
<1>5. ASSUME NEW u \in Updates, NEW dto \in Dtos, UpdateHit(u, dto)
      PROVE  \E v \in Updates : WillClear(v)'
  <2>1. call'[u].pc = "saving" /\ call'[u].object = cache'.object
    BY <1>0, <1>5 DEF UpdateHit, TypeOK, CallState, Calls
  <2>2. QED
    BY <2>1 DEF WillClear
<1>6. ASSUME NEW u \in Updates, NEW dto \in Dtos, UpdateMiss(u, dto)
      PROVE  \E v \in Updates : WillClear(v)'
  <2>1. PICK v \in Updates : WillClear(v)
    BY <1>a, <1>6 DEF UpdateMiss
  <2>2. u # v
    BY <1>6, <2>1 DEF UpdateMiss, WillClear, At
  <2>3. call'[v] = call[v]
    BY <1>6, <2>2 DEF UpdateMiss, TypeOK, Calls
  <2>4. QED
    BY <1>6, <2>1, <2>3, WillClearKept DEF UpdateMiss
<1>7. ASSUME NEW u \in Updates, FillUpdate(u) PROVE \E v \in Updates : WillClear(v)'
  <2>1. PICK o \in Objects : /\ Cached(o, u)
                             /\ call' = [call EXCEPT ![u].pc = "saving", ![u].object = o]
    BY <1>7 DEF FillUpdate
  <2>2. call'[u].pc = "saving" /\ call'[u].object = o
    BY <1>0, <2>1 DEF TypeOK, CallState, Calls
  <2>3. cache'.object = o
    BY <2>1 DEF Cached
  <2>4. QED
    BY <2>2, <2>3 DEF WillClear
<1>8. ASSUME NEW u \in Updates, Snapshot(u) PROVE \E v \in Updates : WillClear(v)'
  <2>1. PICK v \in Updates : WillClear(v)
    BY <1>a, <1>8 DEF Snapshot
  <2>2. CASE u # v
    <3>1. call'[v] = call[v]
      BY <1>8, <2>2 DEF Snapshot, TypeOK, Calls
    <3>2. QED
      BY <1>8, <2>1, <3>1, WillClearKept DEF Snapshot
  <2>3. CASE u = v
    <3>1. call'[v].pc = "comparing" /\ call'[v].object = call[v].object
      BY <1>0, <1>8, <2>3 DEF Snapshot, TypeOK, CallState, Calls
    <3>2. QED
      BY <1>8, <2>1, <2>3, <3>1 DEF Snapshot, WillClear, At
  <2>4. QED
    BY <2>2, <2>3
<1>9. ASSUME NEW u \in Updates, Write(u) PROVE \E v \in Updates : WillClear(v)'
  <2>1. call'[u].pc = "saved"
    BY <1>0, <1>9 DEF Write, TypeOK, CallState, Calls
  <2>2. QED
    BY <2>1 DEF WillClear, At
<1>10. ASSUME NEW u \in Updates, Finish(u) PROVE \E v \in Updates : WillClear(v)'
  BY <1>10 DEF Finish
<1>11. ASSUME Tick PROVE \E u \in Updates : WillClear(u)'
  <2>1. cache # None /\ cache'.object = cache.object
    BY <1>0, <1>11 DEF Tick, Valid
  <2>2. PICK u \in Updates : WillClear(u)
    BY <1>a, <1>11, <2>1 DEF Tick
  <2>3. QED
    BY <1>11, <2>1, <2>2, WillClearKept DEF Tick
<1>12. ASSUME NEW c \in Calls, AwaitFails(c) PROVE \E u \in Updates : WillClear(u)'
  <2>1. tainted \subseteq tainted'
    BY <1>12 DEF AwaitFails
  <2>2. PICK u \in Updates : WillClear(u)
    BY <1>a, <1>12, <2>1 DEF AwaitFails
  <2>3. u # c
    <3>1. SUFFICES ASSUME u = c PROVE FALSE
      OBVIOUS
    <3>2. CASE call[c].pc = "saved"
      BY <1>0, <1>12, <3>2 DEF AwaitFails
    <3>3. CASE call[c].pc \in {"saving", "comparing"} /\ call[c].object = cache.object
      BY <1>0, <1>12, <3>3 DEF AwaitFails
    <3>4. QED
      BY <2>2, <3>1, <3>2, <3>3 DEF WillClear, At
  <2>4. call'[u] = call[u]
    BY <1>12, <2>3 DEF AwaitFails, TypeOK, Calls
  <2>5. QED
    BY <1>12, <2>2, <2>4, WillClearKept DEF AwaitFails
<1>13. ASSUME Restart PROVE \E u \in Updates : WillClear(u)'
  <2>1. entity'[cache'.object] = row'
    BY <1>13 DEF Restart
  <2>2. QED
    BY <2>1
<1>14. CASE UNCHANGED vars
  BY <1>a, <1>14 DEF vars, WillClear, At
<1>15. QED
  BY <1>1, <1>2, <1>3, <1>4, <1>5, <1>6, <1>7, <1>8, <1>9, <1>10, <1>11, <1>12, <1>13, <1>14
  DEF Next, CallStep

LEMMA CurrentInit == Init => CacheIsCurrent
<1> SUFFICES ASSUME Init PROVE CacheIsCurrent
  OBVIOUS
<1>1. entity[cache.object] = row
  BY DEF Init
<1>2. QED
  BY <1>1 DEF CacheIsCurrent

\* A cached entity is behind the row only while an update is about to clear the
\* cache, or where a late answer or a failed update has left it so.
THEOREM CacheIsCurrentCorrect == Spec => []CacheIsCurrent
BY TypeInit, TypeStep, CurrentInit, CurrentStep, PTL DEF Spec
=============================================================================
