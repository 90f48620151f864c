----------------------------- MODULE RolesProofs -----------------------------
(***************************************************************************)
(* Safety of Roles for every number of users, calls, codes, permissions    *)
(* and rows.                                                               *)
(***************************************************************************)
EXTENDS Roles, TLAPS

-----------------------------------------------------------------------------
(***************************************************************************)
(* Types, with what a call must have at hand for the rest of its operation *)
(***************************************************************************)
Pcs == {"idle", "seedFind", "seedSave", "createFind", "createSave", "updateSave",
        "deleteGrants", "deleteRow", "assignFind", "assignCheck", "assignSave",
        "aggregate", "aggregateRoles", "findRegular", "sign",
        "checkGrants", "checkRoles", "issued", "admitted", "refused"}
Seeding == {"seedFind", "seedSave"}
Creating == {"createFind", "createSave"}
Assigning == {"assignFind", "assignCheck", "assignSave"}
Deleting == {"deleteGrants", "deleteRow"}
ForUser == {"assignFind", "assignCheck", "assignSave", "aggregate", "aggregateRoles",
            "findRegular", "checkGrants", "checkRoles"}
OnRole == {"assignFind", "assignCheck", "assignSave", "deleteGrants", "deleteRow", "updateSave"}

\* What is known of the local state l of a call.
Known(l) ==
  /\ l.pc \in ForUser => l.user \in Users
  /\ l.pc \in OnRole => l.id \in Ids
  /\ l.pc \in Seeding => l.op \in {"list", "create"}
  /\ l.pc \in Creating => l.op = "create"
  /\ l.op = "create" => l.id \in Ids /\ l.row.exists /\ ~ l.row.system
  /\ l.pc = "seedSave" => l.ids \subseteq SystemCodes
  /\ l.pc \in {"aggregateRoles", "checkRoles"} => l.ids \subseteq Ids
  /\ l.pc = "updateSave" => l.row.exists
  /\ l.pc \in {"aggregate", "aggregateRoles", "findRegular"} => l.op = "login"

TypeInv == TypeOK /\ \A c \in Calls : Known(call[c])

LEMMA PatternsOf ==
  /\ \A code \in SystemCodes : Seeds[code] \in SUBSET Patterns
  /\ \A body \in Bodies : body \in SUBSET Patterns
BY DEF Patterns

LEMMA MergedType ==
  ASSUME TypeOK, NEW ids \in SUBSET Ids PROVE Merged(ids) \in SUBSET Patterns
BY DEF TypeOK, Merged, Rows

LEMMA NoRoleType == NoRole \in Rows /\ ~ NoRole.exists /\ ~ NoRole.system
BY DEF NoRole, Rows

LEMMA IdleType == Idle \in Local /\ Idle.pc = "idle" /\ Idle.op = "none" /\ Known(Idle)
BY NoRoleType DEF Idle, Local, Known, ForUser, OnRole, Seeding, Creating

\* The fields of a local state.
LEMMA Fields ==
  ASSUME NEW l \in Local
  PROVE  /\ l.pc \in Pcs
         /\ l.op \in {"none", "list", "create", "assign", "login", "check"}
         /\ l.user \in Users \cup {"nobody"}
         /\ l.id \in Ids \cup {<<"none", 0>>}
         /\ l.ids \in SUBSET (Ids \cup Codes)
         /\ l.row \in Rows
         /\ l.required \in Required \cup {<<>>}
BY DEF Local, Pcs

LEMMA RowFields ==
  ASSUME NEW r \in Rows, NEW perms \in SUBSET Patterns
  PROVE  /\ r.perms \in SUBSET Patterns /\ r.exists \in BOOLEAN /\ r.system \in BOOLEAN
         /\ [r EXCEPT !.perms = perms] \in Rows
         /\ [r EXCEPT !.perms = perms].perms = perms
         /\ [r EXCEPT !.perms = perms].exists = r.exists
         /\ [r EXCEPT !.perms = perms].system = r.system
BY DEF Rows

\* The local states that steps build; opaque in what follows.
ToPc(l, pc) == [l EXCEPT !.pc = pc]
ToIds(l, pc, ids) == [l EXCEPT !.pc = pc, !.ids = ids]
Signed(user, perms) == [Idle EXCEPT !.pc = "issued", !.user = user, !.row.perms = perms]
Judged(user, required, pc) == [Idle EXCEPT !.user = user, !.required = required, !.pc = pc]

LEMMA Moved ==
  ASSUME NEW l \in Local, NEW pc \in Pcs
  PROVE  LET q == ToPc(l, pc)
         IN /\ q \in Local /\ q.pc = pc /\ q.op = l.op /\ q.user = l.user /\ q.id = l.id
            /\ q.ids = l.ids /\ q.row = l.row /\ q.required = l.required
<1>1. ToPc(l, pc) \in Local
  BY DEF Local, Pcs, ToPc
<1>2. LET q == ToPc(l, pc)
      IN /\ q.pc = pc /\ q.op = l.op /\ q.user = l.user /\ q.id = l.id
         /\ q.ids = l.ids /\ q.row = l.row /\ q.required = l.required
  BY DEF Local, ToPc
<1>3. QED
  BY <1>1, <1>2

LEMMA MovedIds ==
  ASSUME NEW l \in Local, NEW pc \in Pcs, NEW ids \in SUBSET (Ids \cup Codes)
  PROVE  LET q == ToIds(l, pc, ids)
         IN /\ q \in Local /\ q.pc = pc /\ q.op = l.op /\ q.user = l.user /\ q.id = l.id
            /\ q.ids = ids /\ q.row = l.row /\ q.required = l.required
<1>1. ToIds(l, pc, ids) \in Local
  BY DEF Local, Pcs, ToIds
<1>2. LET q == ToIds(l, pc, ids)
      IN /\ q.pc = pc /\ q.op = l.op /\ q.user = l.user /\ q.id = l.id
         /\ q.ids = ids /\ q.row = l.row /\ q.required = l.required
  BY DEF Local, ToIds
<1>3. QED
  BY <1>1, <1>2

\* A call moves on to the local state l.
LEMMA MoveOn ==
  ASSUME TypeInv, NEW c \in Calls, NEW l \in Local, Known(l), call' = [call EXCEPT ![c] = l]
  PROVE  /\ call' \in [Calls -> Local]
         /\ \A d \in Calls : Known(call'[d])
         /\ call'[c] = l
         /\ \A d \in Calls \ {c} : call'[d] = call[d]
BY DEF TypeInv, TypeOK

\* issueSession's last state, the guard's, and what follows the seeding.
LEMMA SignedType ==
  ASSUME NEW user \in Users, NEW perms \in SUBSET Patterns
  PROVE  LET q == Signed(user, perms)
         IN /\ q \in Local /\ Known(q) /\ q.pc = "issued" /\ q.op = "none" /\ q.user = user
            /\ q.row.perms = perms
<1> DEFINE q == Signed(user, perms)
<1>1. [Idle.row EXCEPT !.perms = perms] \in Rows /\ [Idle.row EXCEPT !.perms = perms].perms = perms
  BY IdleType, RowFields, Fields
<1>2. q \in Local
  BY <1>1, IdleType DEF Local, Signed
<1>3. q.pc = "issued" /\ q.op = "none" /\ q.user = user /\ q.row = [Idle.row EXCEPT !.perms = perms]
  BY IdleType DEF Local, Signed
<1> HIDE DEF q
<1>4. Known(q)
  BY <1>3 DEF Known, ForUser, OnRole, Seeding, Creating
<1>5. QED
  BY <1>1, <1>2, <1>3, <1>4 DEF q

LEMMA JudgedType ==
  ASSUME NEW l \in Local, NEW pc \in {"admitted", "refused"}
  PROVE  LET q == Judged(l.user, l.required, pc)
         IN /\ q \in Local /\ Known(q) /\ q.pc = pc /\ q.op = "none" /\ q.user = l.user
            /\ q.required = l.required
<1> DEFINE q == Judged(l.user, l.required, pc)
<1>1. q \in Local
  BY IdleType DEF Local, Judged
<1>2. q.pc = pc /\ q.op = "none" /\ q.user = l.user /\ q.required = l.required
  BY IdleType DEF Local, Judged
<1> HIDE DEF q
<1>3. Known(q)
  BY <1>2 DEF Known, ForUser, OnRole, Seeding, Creating
<1>4. QED
  BY <1>1, <1>2, <1>3 DEF q

LEMMA AfterSeedType ==
  ASSUME TypeInv, NEW c \in Calls, call[c].pc \in Seeding
  PROVE  /\ AfterSeed(c) \in Local /\ Known(AfterSeed(c))
         /\ \/ AfterSeed(c) = Idle
            \/ /\ AfterSeed(c).pc = "createFind" /\ AfterSeed(c).op = call[c].op
               /\ AfterSeed(c).id = call[c].id /\ AfterSeed(c).row = call[c].row
<1>1. call[c] \in Local /\ Known(call[c])
  BY DEF TypeInv, TypeOK
<1>2. CASE call[c].op = "list"
  BY <1>2, IdleType DEF AfterSeed
<1>3. CASE call[c].op # "list"
  <2> DEFINE q == ToPc(call[c], "createFind")
  <2>1. AfterSeed(c) = q
    BY <1>3 DEF AfterSeed, ToPc
  <2>2. q \in Local /\ q.pc = "createFind" /\ q.op = call[c].op /\ q.id = call[c].id
        /\ q.row = call[c].row
    BY <1>1, Moved DEF Pcs
  <2> HIDE DEF q
  <2>3. call[c].op = "create"
    BY <1>1, <1>3 DEF Known, Seeding
  <2>4. Known(q)
    BY <1>1, <2>2, <2>3 DEF Known, ForUser, OnRole, Seeding, Creating
  <2>5. QED
    BY <2>1, <2>2, <2>4
<1>4. QED
  BY <1>2, <1>3

\* What starts an operation.
LEMMA StartType ==
  ASSUME NEW q \in Local, NEW op, NEW pc, q.pc = pc, q.op = op, op # "create",
         pc \in ForUser => q.user \in Users, pc \in OnRole => q.id \in Ids,
         pc \in Seeding => op = "list", pc = "updateSave" => q.row.exists,
         pc \in {"aggregate", "findRegular"} => op = "login",
         pc \notin Creating, pc \notin {"seedSave", "aggregateRoles", "checkRoles"}
  PROVE  Known(q)
BY DEF Known

LEMMA InsertedType ==
  ASSUME TypeOK, NEW code \in Codes, inserted[code] < MaxInserts
  PROVE  inserted[code] + 1 \in 0 .. MaxInserts /\ NextId(code) \in Ids
BY BoundsAssumption DEF TypeOK, NextId, Ids

-----------------------------------------------------------------------------
(***************************************************************************)
(* The local state each step leaves its call in: its fields, as far as the *)
(* rest of the operation needs them.                                       *)
(***************************************************************************)
\* The variables apart from call.
OthersType ==
  /\ roles \in [Ids -> Rows]
  /\ inserted \in [Codes -> 0 .. MaxInserts]
  /\ grants \subseteq Users \X Ids
  /\ tokens \subseteq Users \X SUBSET Patterns
  /\ seeded \in BOOLEAN
  /\ quiet \subseteq Calls
  /\ failures \in 0 .. MaxFailures

\* The other calls stand still.
Frame(c) == \A d \in Calls \ {c} : call'[d] = call[d]

LEMMA OthersOf == TypeInv => OthersType
BY DEF TypeInv, TypeOK, OthersType

LEMMA Moving ==
  ASSUME TypeInv, NEW c \in Calls, NEW l \in Local, Known(l), call' = [call EXCEPT ![c] = l],
         OthersType'
  PROVE  TypeInv' /\ Frame(c) /\ call'[c] = l
BY MoveOn DEF TypeInv, TypeOK, OthersType, Frame

LEMMA GoingIdle ==
  ASSUME TypeInv, NEW c \in Calls, call' = [call EXCEPT ![c] = Idle], OthersType'
  PROVE  TypeInv' /\ Frame(c) /\ call'[c] = Idle /\ call'[c].pc = "idle" /\ call'[c].op = "none"
BY Moving, IdleType

LEMMA Signing ==
  ASSUME TypeInv, NEW c \in Calls, call[c].user \in Users, NEW perms \in SUBSET Patterns,
         Sign(c, perms)
  PROVE  /\ \E q \in Local : /\ Known(q) /\ call' = [call EXCEPT ![c] = q] /\ call'[c] = q
                             /\ q.pc = "issued" /\ q.op = "none" /\ q.user = call[c].user
                             /\ q.row.perms = perms
         /\ tokens' \subseteq Users \X SUBSET Patterns
<1> DEFINE q == Signed(call[c].user, perms)
<1>1. q \in Local /\ Known(q) /\ q.pc = "issued" /\ q.op = "none" /\ q.user = call[c].user
      /\ q.row.perms = perms
  BY SignedType
<1>2. call' = [call EXCEPT ![c] = q]
  BY DEF Sign, Signed
<1>3. tokens' \subseteq Users \X SUBSET Patterns
  BY DEF Sign, TypeInv, TypeOK
<1> HIDE DEF q
<1>4. call'[c] = q
  BY <1>1, <1>2, MoveOn
<1>5. QED
  BY <1>1, <1>2, <1>3, <1>4

LEMMA Judging ==
  ASSUME TypeInv, NEW c \in Calls, NEW perms, Verdict(c, perms)
  PROVE  \E q \in Local : /\ Known(q) /\ call' = [call EXCEPT ![c] = q] /\ call'[c] = q
                          /\ q.pc = IF Match(perms, call[c].required) THEN "admitted" ELSE "refused"
                          /\ q.op = "none" /\ q.user = call[c].user
                          /\ q.required = call[c].required
<1> DEFINE pc == IF Match(perms, call[c].required) THEN "admitted" ELSE "refused"
           q == Judged(call[c].user, call[c].required, pc)
<1>1. pc \in {"admitted", "refused"} /\ call[c] \in Local
  BY DEF TypeInv, TypeOK
<1>2. call' = [call EXCEPT ![c] = q]
  BY DEF Verdict, Judged
<1> HIDE DEF pc
<1>3. q \in Local /\ Known(q) /\ q.pc = pc /\ q.op = "none" /\ q.user = call[c].user
      /\ q.required = call[c].required
  BY <1>1, JudgedType
<1> HIDE DEF q
<1>4. call'[c] = q
  BY <1>2, <1>3, MoveOn
<1>5. QED
  BY <1>2, <1>3, <1>4 DEF pc

LEMMA ListAllStep ==
  ASSUME TypeInv, NEW c \in Calls, ListAll(c)
  PROVE  TypeInv' /\ Frame(c) /\ call'[c].pc \in {"idle", "seedFind"}
<1>1. OthersType'
  BY OthersOf DEF ListAll, OthersType
<1> DEFINE q == [Idle EXCEPT !.pc = "seedFind", !.op = "list"]
<1>2. q \in Local /\ q.pc = "seedFind" /\ q.op = "list"
  BY IdleType DEF Local
<1>3. call' = [call EXCEPT ![c] = Idle] \/ call' = [call EXCEPT ![c] = q]
  BY DEF ListAll
<1> HIDE DEF q
<1>4. Known(q)
  BY <1>2, StartType DEF ForUser, OnRole, Seeding, Creating
<1>5. QED
  BY <1>1, <1>2, <1>3, <1>4, Moving, GoingIdle

LEMMA CreateStep ==
  ASSUME TypeInv, NEW c \in Calls, Create(c)
  PROVE  TypeInv' /\ Frame(c) /\ call'[c].pc \in {"createFind", "seedFind"}
         /\ (call'[c].pc = "createFind" => seeded)
<1>1. OthersType'
  BY OthersOf DEF Create, OthersType
<1>2. PICK code \in Codes, body \in Bodies :
        call' = [call EXCEPT ![c] =
                  [Idle EXCEPT !.op = "create", !.id = <<code, 1>>,
                     !.row = [exists |-> TRUE, perms |-> body, system |-> FALSE],
                     !.pc = IF seeded THEN "createFind" ELSE "seedFind"]]
  BY DEF Create
<1> DEFINE row == [exists |-> TRUE, perms |-> body, system |-> FALSE]
           pc == IF seeded THEN "createFind" ELSE "seedFind"
           id == <<code, 1>>
           q == [Idle EXCEPT !.op = "create", !.id = id, !.row = row, !.pc = pc]
<1>3. row \in Rows /\ row.exists /\ ~ row.system
  BY PatternsOf DEF Rows
<1>4. id \in Ids
  BY BoundsAssumption DEF Ids
<1>5. call' = [call EXCEPT ![c] = q]
  BY <1>2
<1>6. pc \in {"createFind", "seedFind"} /\ (pc = "createFind" => seeded)
  OBVIOUS
<1> HIDE DEF row, pc, id
<1>7. q \in Local /\ q.pc = pc /\ q.op = "create" /\ q.id = id /\ q.row = row
  BY <1>3, <1>4, <1>6, IdleType DEF Local
<1> HIDE DEF q
<1>8. Known(q)
  BY <1>3, <1>4, <1>6, <1>7 DEF Known, ForUser, OnRole, Seeding, Creating
<1>9. QED
  BY <1>1, <1>5, <1>6, <1>7, <1>8, Moving

LEMMA SeedFindStep ==
  ASSUME TypeInv, NEW c \in Calls, SeedFind(c)
  PROVE  /\ TypeInv' /\ Frame(c)
         /\ \/ /\ call'[c] = Idle \/ call'[c].pc = "createFind"
               /\ \A code \in SystemCodes : Present(code) # {}
            \/ /\ call'[c].pc = "seedSave" /\ \E code \in SystemCodes : Present(code) = {}
               /\ call'[c].ids = {code \in SystemCodes : Present(code) = {}}
               /\ call'[c].id = call[c].id /\ call'[c].op = call[c].op
               /\ seeded' = seeded
<1>1. OthersType'
  BY OthersOf DEF SeedFind, OthersType
<1>2. call[c] \in Local /\ Known(call[c]) /\ call[c].pc = "seedFind"
  BY DEF SeedFind, At, TypeInv, TypeOK
<1> DEFINE toSeed == {code \in SystemCodes : Present(code) = {}}
           q == ToIds(call[c], "seedSave", toSeed)
<1>3. CASE toSeed = {}
  <2>1. call' = [call EXCEPT ![c] = AfterSeed(c)]
    BY <1>3 DEF SeedFind
  <2>2. \A code \in SystemCodes : Present(code) # {}
    BY <1>3
  <2>3. QED
    BY <1>1, <1>2, <2>1, <2>2, AfterSeedType, Moving DEF Seeding
<1>4. CASE toSeed # {}
  <2>0. \E code \in SystemCodes : Present(code) = {}
    BY <1>4
  <2>1. call' = [call EXCEPT ![c] = q] /\ seeded' = seeded
    BY <1>4 DEF SeedFind, ToIds, TypeInv, TypeOK
  <2>2. q \in Local /\ q.pc = "seedSave" /\ q.op = call[c].op /\ q.id = call[c].id
        /\ q.ids = toSeed /\ q.row = call[c].row
    BY <1>2, MovedIds DEF Pcs, Codes
  <2> HIDE DEF q
  <2>3. Known(q)
    BY <1>2, <2>2 DEF Known, ForUser, OnRole, Seeding, Creating
  <2>4. QED
    BY <1>1, <2>0, <2>1, <2>2, <2>3, Moving
<1>5. QED
  BY <1>3, <1>4

LEMMA SeedSaveStep ==
  ASSUME TypeInv, NEW c \in Calls, SeedSave(c)
  PROVE  /\ TypeInv' /\ Frame(c)
         /\ call[c].ids \subseteq SystemCodes
         /\ call'[c].pc \in {"idle", "createFind"}
<1>1. call[c] \in Local /\ Known(call[c]) /\ call[c].pc = "seedSave"
  BY DEF SeedSave, At, TypeInv, TypeOK
<1>2. call[c].ids \subseteq SystemCodes
  BY <1>1 DEF Known
<1> DEFINE q == ToIds(AfterSeed(c), AfterSeed(c).pc, {})
<1>3. AfterSeed(c) \in Local /\ Known(AfterSeed(c)) /\ AfterSeed(c).pc \in {"idle", "createFind"}
  BY <1>1, AfterSeedType, IdleType DEF Seeding
<1>4. [AfterSeed(c) EXCEPT !.ids = {}] = q
  BY <1>3 DEF ToIds, Local
<1>5. call' = [call EXCEPT ![c] = q]
  BY <1>4 DEF SeedSave
<1>6. q \in Local /\ q.pc = AfterSeed(c).pc /\ q.op = AfterSeed(c).op /\ q.id = AfterSeed(c).id
      /\ q.ids = {} /\ q.row = AfterSeed(c).row
  BY <1>3, MovedIds DEF Pcs
<1> HIDE DEF q
<1>7. Known(q)
  BY <1>3, <1>6 DEF Known, ForUser, OnRole, Seeding, Creating
<1>8. roles' \in [Ids -> Rows]
  <2>1. \A code \in SystemCodes : [exists |-> TRUE, perms |-> Seeds[code], system |-> TRUE] \in Rows
    BY PatternsOf DEF Rows
  <2>2. CASE UNCHANGED roles
    BY <2>2 DEF TypeInv, TypeOK
  <2>3. CASE roles' = [i \in Ids |-> IF i \in {NextId(code) : code \in call[c].ids}
                                       THEN [exists |-> TRUE, perms |-> Seeds[i[1]], system |-> TRUE]
                                       ELSE roles[i]]
    <3> SUFFICES ASSUME NEW i \in Ids PROVE roles'[i] \in Rows
      BY <2>3
    <3>1. CASE i \in {NextId(code) : code \in call[c].ids}
      <4>1. i[1] \in SystemCodes
        BY <1>2, <3>1 DEF NextId
      <4>2. QED
        BY <2>1, <2>3, <3>1, <4>1
    <3>2. CASE i \notin {NextId(code) : code \in call[c].ids}
      BY <2>3, <3>2 DEF TypeInv, TypeOK
    <3>3. QED
      BY <3>1, <3>2
  <2>4. QED
    BY <2>2, <2>3 DEF SeedSave
<1>9. inserted' \in [Codes -> 0 .. MaxInserts]
  <2>1. \A code \in call[c].ids : inserted[code] + 1 \in 0 .. MaxInserts
    BY <1>2, InsertedType DEF SeedSave, TypeInv, Codes
  <2>2. CASE UNCHANGED inserted
    BY <2>2 DEF TypeInv, TypeOK
  <2>3. CASE inserted' = [code \in Codes |-> IF code \in call[c].ids THEN inserted[code] + 1
                                                                  ELSE inserted[code]]
    BY <2>1, <2>3 DEF TypeInv, TypeOK
  <2>4. QED
    BY <2>2, <2>3 DEF SeedSave
<1>10. OthersType'
  BY <1>8, <1>9, OthersOf DEF SeedSave, OthersType, Disturb
<1>11. QED
  BY <1>2, <1>3, <1>5, <1>6, <1>7, <1>10, Moving

LEMMA CreateFindStep ==
  ASSUME TypeInv, NEW c \in Calls, CreateFind(c)
  PROVE  /\ TypeInv' /\ Frame(c)
         /\ call'[c].pc \in {"idle", "createSave"}
<1>1. OthersType'
  BY OthersOf DEF CreateFind, OthersType
<1>2. call[c] \in Local /\ Known(call[c]) /\ call[c].pc = "createFind"
  BY DEF CreateFind, At, TypeInv, TypeOK
<1> DEFINE q == ToPc(call[c], "createSave")
<1>3. call' = [call EXCEPT ![c] = Idle] \/ call' = [call EXCEPT ![c] = q]
  BY DEF CreateFind, ToPc
<1>4. q \in Local /\ q.pc = "createSave" /\ q.op = call[c].op /\ q.id = call[c].id
      /\ q.row = call[c].row
  BY <1>2, Moved DEF Pcs
<1> HIDE DEF q
<1>5. Known(q)
  BY <1>2, <1>4 DEF Known, ForUser, OnRole, Seeding, Creating
<1>6. QED
  BY <1>1, <1>3, <1>4, <1>5, Moving, GoingIdle

LEMMA CreateSaveStep ==
  ASSUME TypeInv, NEW c \in Calls, CreateSave(c)
  PROVE  /\ TypeInv' /\ Frame(c) /\ call'[c].pc = "idle"
         /\ call[c].id \in Ids /\ call[c].id[1] \in Codes /\ NextId(call[c].id[1]) \in Ids
         /\ call[c].row \in Rows /\ call[c].row.exists /\ ~ call[c].row.system
<1>1. call[c] \in Local /\ Known(call[c]) /\ call[c].pc = "createSave"
  BY DEF CreateSave, At, TypeInv, TypeOK
<1>2. call[c].id \in Ids /\ call[c].row \in Rows /\ call[c].row.exists /\ ~ call[c].row.system
  BY <1>1, Fields DEF Known, Creating
<1>3. call[c].id[1] \in Codes
  BY <1>2 DEF Ids
<1>4. NextId(call[c].id[1]) \in Ids /\ inserted[call[c].id[1]] + 1 \in 0 .. MaxInserts
  BY <1>3, InsertedType DEF CreateSave, TypeInv
<1>5. OthersType'
  BY <1>2, <1>3, <1>4, OthersOf DEF CreateSave, OthersType, Disturb
<1>6. call' = [call EXCEPT ![c] = Idle]
  BY DEF CreateSave
<1>7. QED
  BY <1>2, <1>3, <1>4, <1>5, <1>6, GoingIdle

LEMMA UpdateFindStep ==
  ASSUME TypeInv, NEW c \in Calls, UpdateFind(c)
  PROVE  /\ TypeInv' /\ Frame(c) /\ call'[c].pc = "updateSave"
         /\ call'[c].id \in Ids /\ roles[call'[c].id].exists
         /\ call'[c].row.exists /\ call'[c].row.system = roles[call'[c].id].system
<1>1. OthersType'
  BY OthersOf DEF UpdateFind, OthersType
<1>0. PICK i \in Ids : \E perms \in Bodies \cup {roles[i].perms} :
        /\ roles[i].exists
        /\ call' = [call EXCEPT ![c] = [Idle EXCEPT !.pc = "updateSave", !.id = i,
                                          !.row = [roles[i] EXCEPT !.perms = perms]]]
  BY DEF UpdateFind
<1>2. PICK perms \in Bodies \cup {roles[i].perms} :
        /\ roles[i].exists
        /\ call' = [call EXCEPT ![c] = [Idle EXCEPT !.pc = "updateSave", !.id = i,
                                          !.row = [roles[i] EXCEPT !.perms = perms]]]
  BY <1>0
<1>3. roles[i] \in Rows
  BY DEF TypeInv, TypeOK
<1>4. perms \in SUBSET Patterns
  BY <1>3, PatternsOf DEF Rows
<1> DEFINE row == [roles[i] EXCEPT !.perms = perms]
           q == [Idle EXCEPT !.pc = "updateSave", !.id = i, !.row = row]
<1>5. row \in Rows /\ row.exists = roles[i].exists /\ row.system = roles[i].system
  BY <1>3, <1>4, RowFields
<1>6. call' = [call EXCEPT ![c] = q]
  BY <1>2
<1> HIDE DEF row
<1>7. q \in Local /\ q.pc = "updateSave" /\ q.op = "none" /\ q.id = i /\ q.row = row
  BY <1>5, IdleType DEF Local
<1> HIDE DEF q
<1>8. Known(q)
  BY <1>2, <1>5, <1>7 DEF Known, ForUser, OnRole, Seeding, Creating
<1>9. TypeInv' /\ Frame(c) /\ call'[c] = q
  BY <1>1, <1>6, <1>7, <1>8, Moving
<1>10. QED
  BY <1>2, <1>5, <1>7, <1>9

LEMMA UpdateSaveStep ==
  ASSUME TypeInv, NEW c \in Calls, UpdateSave(c)
  PROVE  /\ TypeInv' /\ Frame(c) /\ call'[c].pc = "idle"
         /\ call[c].id \in Ids /\ call[c].row \in Rows /\ call[c].row.exists
<1>1. call[c] \in Local /\ Known(call[c]) /\ call[c].pc = "updateSave"
  BY DEF UpdateSave, At, TypeInv, TypeOK
<1>2. call[c].id \in Ids /\ call[c].row \in Rows /\ call[c].row.exists
  BY <1>1, Fields DEF Known, OnRole
<1>3. OthersType'
  BY <1>2, OthersOf DEF UpdateSave, OthersType, Disturb
<1>4. call' = [call EXCEPT ![c] = Idle]
  BY DEF UpdateSave
<1>5. QED
  BY <1>2, <1>3, <1>4, GoingIdle

LEMMA DeleteFindStep ==
  ASSUME TypeInv, NEW c \in Calls, DeleteFind(c)
  PROVE  /\ TypeInv' /\ Frame(c) /\ call'[c].pc = "deleteGrants" /\ call'[c].id \in Ids
         /\ roles[call'[c].id].exists /\ ~ roles[call'[c].id].system
<1>1. OthersType'
  BY OthersOf DEF DeleteFind, OthersType
<1>2. PICK i \in Ids :
        /\ roles[i].exists /\ ~ roles[i].system
        /\ call' = [call EXCEPT ![c] = [Idle EXCEPT !.pc = "deleteGrants", !.id = i]]
  BY DEF DeleteFind
<1> DEFINE q == [Idle EXCEPT !.pc = "deleteGrants", !.id = i]
<1>3. q \in Local /\ q.pc = "deleteGrants" /\ q.op = "none" /\ q.id = i
  BY IdleType DEF Local
<1>4. call' = [call EXCEPT ![c] = q]
  BY <1>2
<1> HIDE DEF q
<1>5. Known(q)
  BY <1>3 DEF Known, ForUser, OnRole, Seeding, Creating
<1>6. TypeInv' /\ Frame(c) /\ call'[c] = q
  BY <1>1, <1>3, <1>4, <1>5, Moving
<1>7. QED
  BY <1>2, <1>3, <1>6

LEMMA DeleteGrantsStep ==
  ASSUME TypeInv, NEW c \in Calls, DeleteGrants(c)
  PROVE  TypeInv' /\ Frame(c) /\ call'[c].pc = "deleteRow" /\ call'[c].id = call[c].id
<1>1. OthersType'
  BY OthersOf DEF DeleteGrants, OthersType, Disturb
<1>2. call[c] \in Local /\ Known(call[c]) /\ call[c].pc = "deleteGrants"
  BY DEF DeleteGrants, At, TypeInv, TypeOK
<1> DEFINE q == ToPc(call[c], "deleteRow")
<1>3. call' = [call EXCEPT ![c] = q]
  BY DEF DeleteGrants, ToPc, TypeInv, TypeOK
<1>4. q \in Local /\ q.pc = "deleteRow" /\ q.op = call[c].op /\ q.id = call[c].id
      /\ q.row = call[c].row
  BY <1>2, Moved DEF Pcs
<1> HIDE DEF q
<1>5. Known(q)
  BY <1>2, <1>4 DEF Known, ForUser, OnRole, Seeding, Creating
<1>6. QED
  BY <1>1, <1>3, <1>4, <1>5, Moving

LEMMA DeleteRowStep ==
  ASSUME TypeInv, NEW c \in Calls, DeleteRow(c)
  PROVE  TypeInv' /\ Frame(c) /\ call'[c].pc = "idle" /\ call[c].id \in Ids
<1>1. call[c].id \in Ids
  BY DEF DeleteRow, At, TypeInv, Known, OnRole
<1>2. OthersType'
  BY <1>1, NoRoleType, OthersOf DEF DeleteRow, OthersType, Disturb
<1>3. call' = [call EXCEPT ![c] = Idle]
  BY DEF DeleteRow
<1>4. QED
  BY <1>1, <1>2, <1>3, GoingIdle

LEMMA AssignStep ==
  ASSUME TypeInv, NEW c \in Calls, Assign(c)
  PROVE  TypeInv' /\ Frame(c) /\ call'[c].pc = "assignFind" /\ call'[c].op = "assign"
<1>1. OthersType'
  BY OthersOf DEF Assign, OthersType
<1>2. PICK u \in Users, i \in Ids :
        call' = [call EXCEPT ![c] = [Idle EXCEPT !.pc = "assignFind", !.op = "assign",
                                       !.user = u, !.id = i]]
  BY DEF Assign
<1> DEFINE q == [Idle EXCEPT !.pc = "assignFind", !.op = "assign", !.user = u, !.id = i]
<1>3. q \in Local /\ q.pc = "assignFind" /\ q.op = "assign" /\ q.user = u /\ q.id = i
  BY IdleType DEF Local
<1>4. call' = [call EXCEPT ![c] = q]
  BY <1>2
<1> HIDE DEF q
<1>5. Known(q)
  BY <1>3 DEF Known, ForUser, OnRole, Seeding, Creating
<1>6. QED
  BY <1>1, <1>3, <1>4, <1>5, Moving

\* What follows an assignment, for the permissions perms of the login's token.
LEMMA AssignmentEnds ==
  ASSUME TypeInv, NEW c \in Calls, call[c].pc \in Assigning, NEW perms \in SUBSET Patterns,
         IF call[c].op = "login" THEN Sign(c, perms) ELSE Return(c),
         roles' = roles, inserted' = inserted, seeded' = seeded,
         grants' \subseteq Users \X Ids, quiet' \subseteq Calls, failures' \in 0 .. MaxFailures
  PROVE  /\ TypeInv' /\ Frame(c)
         /\ \/ call'[c].pc = "idle"
            \/ /\ call[c].op = "login" /\ call'[c].pc = "issued"
               /\ call'[c].user = call[c].user /\ call'[c].row.perms = perms
<1>1. call[c].user \in Users
  BY DEF TypeInv, Known, Assigning, ForUser
<1>2. CASE call[c].op = "login"
  <2>1. PICK q \in Local : /\ Known(q) /\ call' = [call EXCEPT ![c] = q] /\ call'[c] = q
                           /\ q.pc = "issued" /\ q.user = call[c].user /\ q.row.perms = perms
    BY <1>1, <1>2, Signing
  <2>2. OthersType'
    <3>1. tokens' \subseteq Users \X SUBSET Patterns
      BY <1>1, <1>2, Signing
    <3>2. QED
      BY <3>1, OthersOf DEF OthersType
  <2>3. QED
    BY <1>2, <2>1, <2>2, Moving
<1>3. CASE call[c].op # "login"
  <2>1. call' = [call EXCEPT ![c] = Idle] /\ tokens' = tokens
    BY <1>3 DEF Return
  <2>2. OthersType'
    BY <2>1, OthersOf DEF OthersType
  <2>3. QED
    BY <2>1, <2>2, GoingIdle
<1>4. QED
  BY <1>2, <1>3

\* A step on to another part of the assignment.
LEMMA AssignmentGoesOn ==
  ASSUME TypeInv, NEW c \in Calls, call[c].pc \in Assigning, NEW pc \in Assigning,
         call' = [call EXCEPT ![c].pc = pc], OthersType'
  PROVE  TypeInv' /\ Frame(c) /\ call'[c].pc = pc /\ call'[c].op = call[c].op
         /\ call'[c].user = call[c].user /\ call'[c].id = call[c].id /\ call'[c].row = call[c].row
<1>1. call[c] \in Local /\ Known(call[c])
  BY DEF TypeInv, TypeOK
<1> DEFINE q == ToPc(call[c], pc)
<1>2. call' = [call EXCEPT ![c] = q]
  BY DEF ToPc, TypeInv, TypeOK
<1>3. q \in Local /\ q.pc = pc /\ q.op = call[c].op /\ q.id = call[c].id
      /\ q.row = call[c].row /\ q.user = call[c].user
  BY <1>1, Moved DEF Pcs, Assigning
<1> HIDE DEF q
<1>4. Known(q)
  BY <1>1, <1>3 DEF Known, ForUser, OnRole, Seeding, Creating, Assigning
<1>5. QED
  BY <1>2, <1>3, <1>4, Moving

LEMMA AssignFindStep ==
  ASSUME TypeInv, NEW c \in Calls, AssignFind(c)
  PROVE  /\ TypeInv' /\ Frame(c)
         /\ \/ call'[c].pc = "idle"
            \/ /\ call[c].op = "login" /\ call'[c].pc = "issued"
               /\ call'[c].user = call[c].user /\ call'[c].row.perms = {}
               /\ ~ roles[call[c].id].exists
            \/ /\ call'[c].pc = "assignCheck" /\ call'[c].op = call[c].op
               /\ call'[c].user = call[c].user /\ call'[c].id = call[c].id
               /\ call'[c].row = call[c].row
<1>1. call[c].pc \in Assigning
  BY DEF AssignFind, At, Assigning
<1>2. CASE roles[call[c].id].exists
  <2>1. OthersType'
    BY <1>2, OthersOf DEF AssignFind, OthersType
  <2>2. QED
    BY <1>1, <1>2, <2>1, AssignmentGoesOn DEF AssignFind, Assigning
<1>3. CASE ~ roles[call[c].id].exists
  <2>1. grants \subseteq Users \X Ids /\ quiet \subseteq Calls /\ failures \in 0 .. MaxFailures
    BY DEF TypeInv, TypeOK
  <2>2. QED
    BY <1>1, <1>3, <2>1, AssignmentEnds DEF AssignFind, AssignRefused
<1>4. QED
  BY <1>2, <1>3

LEMMA AssignCheckStep ==
  ASSUME TypeInv, NEW c \in Calls, AssignCheck(c)
  PROVE  /\ TypeInv' /\ Frame(c)
         /\ \/ call'[c].pc = "idle"
            \/ /\ call[c].op = "login" /\ call'[c].pc = "issued"
               /\ call'[c].user = call[c].user /\ call'[c].row.perms = {}
               /\ <<call[c].user, call[c].id>> \in grants
            \/ /\ call'[c].pc = "assignSave" /\ call'[c].op = call[c].op
               /\ call'[c].user = call[c].user /\ call'[c].id = call[c].id
               /\ call'[c].row = call[c].row
<1>1. call[c].pc \in Assigning
  BY DEF AssignCheck, At, Assigning
<1>2. CASE <<call[c].user, call[c].id>> \notin grants
  <2>1. OthersType'
    BY <1>2, OthersOf DEF AssignCheck, OthersType
  <2>2. QED
    BY <1>1, <1>2, <2>1, AssignmentGoesOn DEF AssignCheck, Assigning
<1>3. CASE <<call[c].user, call[c].id>> \in grants
  <2>1. grants \subseteq Users \X Ids /\ quiet \subseteq Calls /\ failures \in 0 .. MaxFailures
    BY DEF TypeInv, TypeOK
  <2>2. QED
    BY <1>1, <1>3, <2>1, AssignmentEnds DEF AssignCheck, AssignRefused
<1>4. QED
  BY <1>2, <1>3

LEMMA AssignSaveStep ==
  ASSUME TypeInv, NEW c \in Calls, AssignSave(c)
  PROVE  /\ TypeInv' /\ Frame(c)
         /\ \/ call'[c].pc = "idle"
            \/ /\ call[c].op = "login" /\ call'[c].pc = "issued"
               /\ call'[c].user = call[c].user /\ call'[c].row.perms = {}
               /\ <<call[c].user, call[c].id>> \in grants /\ grants' = grants
            \/ /\ call[c].op = "login" /\ call'[c].pc = "issued"
               /\ call'[c].user = call[c].user /\ call'[c].row.perms = call[c].row.perms
               /\ grants' = grants \cup {<<call[c].user, call[c].id>>}
<1>1. call[c].pc \in Assigning /\ call[c] \in Local /\ call[c].user \in Users /\ call[c].id \in Ids
  BY DEF AssignSave, At, Assigning, TypeInv, TypeOK, Known, ForUser, OnRole
<1>2. grants \subseteq Users \X Ids /\ quiet \subseteq Calls /\ failures \in 0 .. MaxFailures
  BY DEF TypeInv, TypeOK
<1>3. CASE <<call[c].user, call[c].id>> \in grants
  BY <1>1, <1>2, <1>3, AssignmentEnds DEF AssignSave, AssignRefused
<1>4. CASE <<call[c].user, call[c].id>> \notin grants
  <2>1. grants' = grants \cup {<<call[c].user, call[c].id>>} /\ quiet' \subseteq Calls
        /\ Assigned(c) /\ roles' = roles /\ inserted' = inserted /\ seeded' = seeded
        /\ failures' = failures
    BY <1>2, <1>4 DEF AssignSave, Disturb
  <2>2. grants' \subseteq Users \X Ids
    BY <1>1, <1>2, <2>1
  <2>3. call[c].row.perms \in SUBSET Patterns
    BY <1>1, Fields, RowFields
  <2>4. QED
    BY <1>1, <1>2, <2>1, <2>2, <2>3, AssignmentEnds DEF Assigned
<1>5. QED
  BY <1>3, <1>4

LEMMA RemoveUserRoleStep ==
  ASSUME TypeInv, NEW c \in Calls, RemoveUserRole(c)
  PROVE  TypeInv' /\ Frame(c) /\ call'[c].pc = "idle"
<1>1. OthersType'
  BY OthersOf DEF RemoveUserRole, OthersType, Disturb
<1>2. call' = [call EXCEPT ![c] = Idle]
  BY DEF RemoveUserRole
<1>3. QED
  BY <1>1, <1>2, GoingIdle

LEMMA LoginStep ==
  ASSUME TypeInv, NEW c \in Calls, Login(c)
  PROVE  TypeInv' /\ Frame(c) /\ call'[c].pc = "aggregate" /\ call'[c].op = "login"
<1>1. OthersType'
  BY OthersOf DEF Login, OthersType
<1>2. PICK u \in Users :
        call' = [call EXCEPT ![c] = [Idle EXCEPT !.pc = "aggregate", !.op = "login", !.user = u]]
  BY DEF Login
<1> DEFINE q == [Idle EXCEPT !.pc = "aggregate", !.op = "login", !.user = u]
<1>3. q \in Local /\ q.pc = "aggregate" /\ q.op = "login" /\ q.user = u
  BY IdleType DEF Local
<1>4. call' = [call EXCEPT ![c] = q]
  BY <1>2
<1> HIDE DEF q
<1>5. Known(q)
  BY <1>3 DEF Known, ForUser, OnRole, Seeding, Creating
<1>6. QED
  BY <1>1, <1>3, <1>4, <1>5, Moving

LEMMA AggregateStep ==
  ASSUME TypeInv, NEW c \in Calls, Aggregate(c)
  PROVE  /\ TypeInv' /\ Frame(c)
         /\ call'[c].user = call[c].user /\ call'[c].op = call[c].op
         /\ \/ call'[c].pc = "findRegular" /\ GrantsOf(call[c].user) = {}
            \/ call'[c].pc = "aggregateRoles" /\ call'[c].ids = GrantsOf(call[c].user)
<1>1. OthersType'
  BY OthersOf DEF Aggregate, OthersType
<1>2. call[c] \in Local /\ Known(call[c]) /\ call[c].pc = "aggregate"
  BY DEF Aggregate, At, TypeInv, TypeOK
<1> DEFINE ids == GrantsOf(call[c].user)
           pc == IF ids = {} THEN "findRegular" ELSE "aggregateRoles"
           q == ToIds(call[c], pc, ids)
<1>3. ids \subseteq Ids /\ pc \in {"findRegular", "aggregateRoles"}
      /\ (pc = "findRegular" => ids = {})
  BY DEF GrantsOf
<1>4. call' = [call EXCEPT ![c] = q]
  BY DEF Aggregate, ToIds, TypeInv, TypeOK
<1> HIDE DEF ids, pc
<1>5. q \in Local /\ q.pc = pc /\ q.op = call[c].op /\ q.id = call[c].id /\ q.ids = ids
      /\ q.row = call[c].row /\ q.user = call[c].user
  BY <1>2, <1>3, MovedIds DEF Pcs
<1> HIDE DEF q
<1>6. Known(q)
  BY <1>2, <1>3, <1>5 DEF Known, ForUser, OnRole, Seeding, Creating
<1>7. QED
  BY <1>1, <1>3, <1>4, <1>5, <1>6, Moving DEF ids

LEMMA AggregateRolesStep ==
  ASSUME TypeInv, NEW c \in Calls, AggregateRoles(c)
  PROVE  /\ TypeInv' /\ Frame(c)
         /\ call[c].ids \subseteq Ids /\ call'[c].user = call[c].user
         /\ \/ call'[c].pc = "findRegular" /\ call'[c].op = call[c].op /\ Merged(call[c].ids) = {}
            \/ call'[c].pc = "issued" /\ call'[c].row.perms = Merged(call[c].ids)
<1>1. call[c] \in Local /\ Known(call[c]) /\ call[c].pc = "aggregateRoles"
  BY DEF AggregateRoles, At, TypeInv, TypeOK
<1>2. call[c].ids \subseteq Ids /\ call[c].user \in Users
  BY <1>1 DEF Known, ForUser
<1>3. CASE Merged(call[c].ids) = {}
  <2> DEFINE q == ToIds(call[c], "findRegular", {})
  <2>1. call' = [call EXCEPT ![c] = q]
    BY <1>3 DEF AggregateRoles, ToIds, TypeInv, TypeOK
  <2>2. q \in Local /\ q.pc = "findRegular" /\ q.op = call[c].op /\ q.id = call[c].id
        /\ q.ids = {} /\ q.row = call[c].row /\ q.user = call[c].user
    BY <1>1, MovedIds DEF Pcs
  <2> HIDE DEF q
  <2>3. Known(q)
    BY <1>1, <2>2 DEF Known, ForUser, OnRole, Seeding, Creating
  <2>4. OthersType'
    BY <1>3, OthersOf DEF AggregateRoles, OthersType
  <2>5. QED
    BY <1>2, <1>3, <2>1, <2>2, <2>3, <2>4, Moving
<1>4. CASE Merged(call[c].ids) # {}
  <2> DEFINE perms == Merged(call[c].ids)
  <2>1. perms \in SUBSET Patterns
    BY <1>2, MergedType DEF TypeInv
  <2>2. Sign(c, perms)
    BY <1>4 DEF AggregateRoles
  <2> HIDE DEF perms
  <2>3. PICK q \in Local : /\ Known(q) /\ call' = [call EXCEPT ![c] = q] /\ call'[c] = q
                           /\ q.pc = "issued" /\ q.user = call[c].user /\ q.row.perms = perms
    BY <1>2, <2>1, <2>2, Signing
  <2>4. OthersType'
    <3>1. tokens' \subseteq Users \X SUBSET Patterns
      BY <1>2, <2>1, <2>2, Signing
    <3>2. QED
      BY <3>1, OthersOf DEF AggregateRoles, OthersType
  <2>5. QED
    BY <1>2, <2>3, <2>4, Moving DEF perms
<1>5. QED
  BY <1>3, <1>4

LEMMA FindRegularStep ==
  ASSUME TypeInv, NEW c \in Calls, FindRegular(c)
  PROVE  /\ TypeInv' /\ Frame(c) /\ call'[c].user = call[c].user
         /\ \/ /\ call'[c].pc = "issued" /\ call'[c].row.perms = {}
               /\ Present(RegularUser) = {}
            \/ /\ call'[c].pc = "assignFind" /\ call'[c].op = call[c].op
               /\ call'[c].id \in Present(RegularUser)
               /\ call'[c].row = roles[call'[c].id]
<1>1. call[c] \in Local /\ Known(call[c]) /\ call[c].pc = "findRegular"
  BY DEF FindRegular, At, TypeInv, TypeOK
<1>2. call[c].user \in Users
  BY <1>1 DEF Known, ForUser
<1>3. CASE Present(RegularUser) = {}
  <2>1. Sign(c, {})
    BY <1>3 DEF FindRegular
  <2>2. PICK q \in Local : /\ Known(q) /\ call' = [call EXCEPT ![c] = q] /\ call'[c] = q
                           /\ q.pc = "issued" /\ q.user = call[c].user /\ q.row.perms = {}
    BY <1>2, <2>1, Signing
  <2>3. OthersType'
    <3>1. tokens' \subseteq Users \X SUBSET Patterns
      BY <1>2, <2>1, Signing
    <3>2. QED
      BY <3>1, OthersOf DEF FindRegular, OthersType
  <2>4. QED
    BY <1>3, <2>2, <2>3, Moving
<1>4. CASE Present(RegularUser) # {}
  <2> DEFINE i == CHOOSE j \in Present(RegularUser) : TRUE
             q == [call[c] EXCEPT !.pc = "assignFind", !.id = i, !.row = roles[i]]
  <2>1. i \in Present(RegularUser)
    BY <1>4
  <2>2. i \in Ids /\ roles[i] \in Rows
    BY <2>1 DEF Present, TypeInv, TypeOK
  <2>3. call' = [call EXCEPT ![c].pc = "assignFind", ![c].id = i, ![c].row = roles[i]]
        /\ tokens' = tokens
    BY <1>4 DEF FindRegular
  <2> HIDE DEF i
  <2>4. call' = [call EXCEPT ![c] = q]
    BY <2>3 DEF TypeInv, TypeOK
  <2>5. q \in Local /\ q.pc = "assignFind" /\ q.op = call[c].op /\ q.id = i
        /\ q.row = roles[i] /\ q.user = call[c].user
    BY <1>1, <2>2 DEF Local
  <2> HIDE DEF q
  <2>6. Known(q)
    <3>1. q.op = "login"
      BY <1>1, <2>5 DEF Known
    <3>2. QED
      BY <1>2, <2>2, <2>5, <3>1 DEF Known, ForUser, OnRole, Seeding, Creating
  <2>7. OthersType'
    BY <2>3, OthersOf DEF FindRegular, OthersType
  <2>8. QED
    BY <2>1, <2>4, <2>5, <2>6, <2>7, Moving
<1>5. QED
  BY <1>3, <1>4

LEMMA CheckStep ==
  ASSUME TypeInv, NEW c \in Calls, Check(c)
  PROVE  TypeInv' /\ Frame(c) /\ call'[c].pc = "checkGrants"
<1>1. OthersType'
  BY OthersOf DEF Check, OthersType
<1>2. PICK t \in tokens, required \in Required :
        call' = [call EXCEPT ![c] = [Idle EXCEPT !.pc = "checkGrants", !.user = t[1],
                                       !.row.perms = t[2], !.required = required]]
  BY DEF Check
<1> DEFINE q == [Idle EXCEPT !.pc = "checkGrants", !.user = t[1],
                   !.row.perms = t[2], !.required = required]
<1>3. t[1] \in Users /\ t[2] \in SUBSET Patterns
  BY DEF TypeInv, TypeOK
<1>4. [Idle.row EXCEPT !.perms = t[2]] \in Rows
  BY <1>3, IdleType, RowFields, Fields
<1>5. q \in Local /\ q.pc = "checkGrants" /\ q.op = "none" /\ q.user = t[1]
  BY <1>3, <1>4, IdleType DEF Local
<1>6. call' = [call EXCEPT ![c] = q]
  BY <1>2
<1> HIDE DEF q
<1>7. Known(q)
  BY <1>3, <1>5 DEF Known, ForUser, OnRole, Seeding, Creating
<1>8. QED
  BY <1>1, <1>5, <1>6, <1>7, Moving

\* The guard decides by perms.
LEMMA GuardEnds ==
  ASSUME TypeInv, NEW c \in Calls, NEW perms, Verdict(c, perms), OthersType'
  PROVE  /\ TypeInv' /\ Frame(c)
         /\ call'[c].user = call[c].user /\ call'[c].required = call[c].required
         /\ call'[c].pc = IF Match(perms, call[c].required) THEN "admitted" ELSE "refused"
<1>1. PICK q \in Local : /\ Known(q) /\ call' = [call EXCEPT ![c] = q] /\ call'[c] = q
                         /\ q.pc = IF Match(perms, call[c].required) THEN "admitted" ELSE "refused"
                         /\ q.user = call[c].user /\ q.required = call[c].required
  BY Judging
<1>2. TypeInv' /\ Frame(c)
  BY <1>1, Moving
<1>3. QED
  BY <1>1, <1>2

LEMMA CheckGrantsStep ==
  ASSUME TypeInv, NEW c \in Calls, CheckGrants(c)
  PROVE  /\ TypeInv' /\ Frame(c)
         /\ call'[c].user = call[c].user /\ call'[c].required = call[c].required
         /\ \/ /\ GrantsOf(call[c].user) = {}
               /\ call'[c].pc = IF Match({}, call[c].required) THEN "admitted" ELSE "refused"
            \/ call'[c].pc = "checkRoles" /\ call'[c].ids = GrantsOf(call[c].user)
<1>1. OthersType'
  BY OthersOf DEF CheckGrants, OthersType
<1>2. call[c] \in Local /\ Known(call[c]) /\ call[c].pc = "checkGrants"
  BY DEF CheckGrants, At, TypeInv, TypeOK
<1>3. CASE GrantsOf(call[c].user) = {}
  <2>1. Verdict(c, {})
    BY <1>3 DEF CheckGrants
  <2>2. QED
    BY <1>1, <1>3, <2>1, GuardEnds
<1>4. CASE GrantsOf(call[c].user) # {}
  <2> DEFINE ids == GrantsOf(call[c].user)
             q == ToIds(call[c], "checkRoles", ids)
  <2>1. ids \subseteq Ids
    BY DEF GrantsOf
  <2>2. call' = [call EXCEPT ![c] = q]
    BY <1>4 DEF CheckGrants, ToIds, TypeInv, TypeOK
  <2> HIDE DEF ids
  <2>3. q \in Local /\ q.pc = "checkRoles" /\ q.op = call[c].op /\ q.id = call[c].id /\ q.ids = ids
        /\ q.row = call[c].row /\ q.user = call[c].user /\ q.required = call[c].required
    BY <1>2, <2>1, MovedIds DEF Pcs
  <2> HIDE DEF q
  <2>4. Known(q)
    BY <1>2, <2>1, <2>3 DEF Known, ForUser, OnRole, Seeding, Creating
  <2>5. QED
    BY <1>1, <2>2, <2>3, <2>4, Moving DEF ids
<1>5. QED
  BY <1>3, <1>4

LEMMA CheckRolesStep ==
  ASSUME TypeInv, NEW c \in Calls, CheckRoles(c)
  PROVE  /\ TypeInv' /\ Frame(c)
         /\ call'[c].user = call[c].user /\ call'[c].required = call[c].required
         /\ call'[c].pc = IF Match(Merged(call[c].ids), call[c].required)
                            THEN "admitted" ELSE "refused"
<1>1. OthersType'
  BY OthersOf DEF CheckRoles, OthersType
<1>2. QED
  BY <1>1, GuardEnds DEF CheckRoles

LEMMA AnswerStep ==
  ASSUME TypeInv, NEW c \in Calls, Answer(c)
  PROVE  TypeInv' /\ Frame(c) /\ call'[c].pc = "idle"
<1>1. OthersType'
  BY OthersOf DEF Answer, OthersType
<1>2. call' = [call EXCEPT ![c] = Idle]
  BY DEF Answer
<1>3. QED
  BY <1>1, <1>2, GoingIdle

\* A call whose await failed, no longer counts as undisturbed.
LEMMA AwaitFailsStep ==
  ASSUME TypeInv, NEW c \in Calls, AwaitFails(c)
  PROVE  /\ TypeInv' /\ Frame(c) /\ c \notin quiet' /\ failures' # 0
         /\ call'[c].pc \notin {"seedSave", "updateSave", "deleteGrants", "deleteRow"}
<1>1. /\ quiet' = quiet \ {c} /\ failures' = failures + 1 /\ failures < MaxFailures
      /\ roles' = roles /\ inserted' = inserted /\ grants' = grants /\ seeded' = seeded
  BY DEF AwaitFails
<1>2. failures' \in 0 .. MaxFailures /\ failures' # 0 /\ quiet' \subseteq Calls
  BY <1>1, BoundsAssumption DEF TypeInv, TypeOK
<1>3. OthersType' \/ tokens' # tokens
  BY <1>1, <1>2, OthersOf DEF OthersType
<1>4. call[c] \in Local /\ Known(call[c])
  BY DEF TypeInv, TypeOK
<1>5. CASE call[c].pc \in Seeding /\ call' = [call EXCEPT ![c] = AfterSeed(c)] /\ tokens' = tokens
  BY <1>1, <1>2, <1>3, <1>5, AfterSeedType, IdleType, Moving
<1>6. CASE /\ call[c].pc \in {"aggregate", "aggregateRoles"} /\ tokens' = tokens
           /\ call' = [call EXCEPT ![c].pc = "findRegular", ![c].ids = {}]
  <2> DEFINE q == ToIds(call[c], "findRegular", {})
  <2>1. call' = [call EXCEPT ![c] = q]
    BY <1>6 DEF ToIds, TypeInv, TypeOK
  <2>2. q \in Local /\ q.pc = "findRegular" /\ q.op = call[c].op /\ q.id = call[c].id
        /\ q.ids = {} /\ q.row = call[c].row /\ q.user = call[c].user
    BY <1>4, MovedIds DEF Pcs
  <2> HIDE DEF q
  <2>3. Known(q)
    BY <1>4, <1>6, <2>2 DEF Known, ForUser, OnRole, Seeding, Creating
  <2>4. QED
    BY <1>1, <1>2, <1>3, <1>6, <2>1, <2>2, <2>3, Moving
<1>7. CASE call[c].pc \in {"checkGrants", "checkRoles"} /\ Verdict(c, call[c].row.perms)
           /\ tokens' = tokens
  BY <1>1, <1>2, <1>3, <1>7, GuardEnds
<1>8. CASE At(c, "findRegular") /\ Sign(c, {})
  <2>1. call[c].user \in Users
    BY <1>4, <1>8 DEF At, Known, ForUser
  <2>2. PICK q \in Local : /\ Known(q) /\ call' = [call EXCEPT ![c] = q] /\ call'[c] = q
                           /\ q.pc = "issued"
    BY <1>8, <2>1, Signing
  <2>3. tokens' \subseteq Users \X SUBSET Patterns
    BY <1>8, <2>1, Signing
  <2>4. OthersType'
    BY <1>1, <1>2, <2>3, OthersOf DEF OthersType
  <2>5. QED
    BY <1>1, <1>2, <2>2, <2>4, Moving
<1>9. CASE call[c].pc \in Assigning /\ AssignRefused(c)
  <2>1. grants' \subseteq Users \X Ids
    BY <1>1 DEF TypeInv, TypeOK
  <2>2. /\ IF call[c].op = "login" THEN Sign(c, {}) ELSE Return(c)
        /\ call[c].pc \in Assigning /\ {} \in SUBSET Patterns
        /\ roles' = roles /\ inserted' = inserted /\ seeded' = seeded
    BY <1>1, <1>9 DEF AssignRefused
  <2>3. TypeInv' /\ Frame(c) /\ call'[c].pc \in {"idle", "issued"}
    BY ONLY TypeInv, c \in Calls, <1>2, <2>1, <2>2, AssignmentEnds
  <2>4. QED
    BY <1>1, <1>2, <2>3
<1>10. CASE Return(c)
  <2>1. OthersType'
    BY <1>3, <1>10 DEF Return
  <2>2. QED
    BY <1>1, <1>2, <1>10, <2>1, GoingIdle DEF Return
<1>11. QED
  BY <1>5, <1>6, <1>7, <1>8, <1>9, <1>10 DEF AwaitFails, Seeding, Assigning

LEMMA RestartStep ==
  ASSUME TypeInv, Restart
  PROVE  TypeInv' /\ failures' # 0 /\ quiet' = {} /\ \A c \in Calls : call'[c] = Idle
<1>1. failures' \in 0 .. MaxFailures /\ failures' # 0
  BY BoundsAssumption DEF Restart, TypeInv, TypeOK
<1>2. call' \in [Calls -> Local] /\ \A c \in Calls : call'[c] = Idle /\ Known(call'[c])
  BY IdleType DEF Restart
<1>3. QED
  BY <1>1, <1>2 DEF Restart, TypeInv, TypeOK

LEMMA TypeInit == Init => TypeInv
<1> SUFFICES ASSUME Init PROVE TypeInv
  OBVIOUS
<1>1. roles \in [Ids -> Rows] /\ inserted \in [Codes -> 0 .. MaxInserts]
  BY NoRoleType, BoundsAssumption DEF Init
<1>2. call \in [Calls -> Local] /\ \A c \in Calls : Known(call[c])
  BY IdleType DEF Init
<1>3. grants \subseteq Users \X Ids /\ tokens \subseteq Users \X SUBSET Patterns
  BY DEF Init
<1>4. seeded \in BOOLEAN /\ quiet \subseteq Calls /\ failures \in 0 .. MaxFailures
  <2>1. seeded = FALSE /\ quiet = {} /\ failures = 0
    BY DEF Init
  <2>2. 0 \in 0 .. MaxFailures
    BY BoundsAssumption
  <2>3. QED
    BY <2>1, <2>2
<1>5. QED
  BY <1>1, <1>2, <1>3, <1>4 DEF TypeInv, TypeOK

\* Every step of a call keeps the types and leaves the other calls alone.
LEMMA StepType ==
  ASSUME TypeInv, NEW c \in Calls, Step(c) PROVE TypeInv' /\ Frame(c)
<1>1. CASE \/ ListAll(c) \/ Create(c) \/ SeedFind(c) \/ SeedSave(c) \/ CreateFind(c)
           \/ CreateSave(c)
  BY <1>1, ListAllStep, CreateStep, SeedFindStep, SeedSaveStep, CreateFindStep, CreateSaveStep
<1>2. CASE \/ UpdateFind(c) \/ UpdateSave(c) \/ DeleteFind(c) \/ DeleteGrants(c) \/ DeleteRow(c)
  BY <1>2, UpdateFindStep, UpdateSaveStep, DeleteFindStep, DeleteGrantsStep, DeleteRowStep
<1>3. CASE \/ Assign(c) \/ AssignFind(c) \/ AssignCheck(c) \/ AssignSave(c) \/ RemoveUserRole(c)
  BY <1>3, AssignStep, AssignFindStep, AssignCheckStep, AssignSaveStep, RemoveUserRoleStep
<1>4. CASE Login(c) \/ Aggregate(c) \/ AggregateRoles(c) \/ FindRegular(c)
  BY <1>4, LoginStep, AggregateStep, AggregateRolesStep, FindRegularStep
<1>5. CASE Check(c) \/ CheckGrants(c) \/ CheckRoles(c) \/ Answer(c)
  BY <1>5, CheckStep, CheckGrantsStep, CheckRolesStep, AnswerStep
<1>6. QED
  BY <1>1, <1>2, <1>3, <1>4, <1>5 DEF Step

LEMMA TypeNext == TypeInv /\ [Next]_vars => TypeInv'
<1> SUFFICES ASSUME TypeInv, [Next]_vars PROVE TypeInv'
  OBVIOUS
<1>1. CASE Restart
  BY <1>1, RestartStep
<1>2. CASE \E c \in Calls : Step(c)
  BY <1>2, StepType
<1>3. CASE \E c \in Calls : AwaitFails(c)
  BY <1>3, AwaitFailsStep
<1>4. CASE UNCHANGED vars
  BY <1>4 DEF vars, TypeInv, TypeOK, Known
<1>5. QED
  BY <1>1, <1>2, <1>3, <1>4 DEF Next

\* Every variable keeps its type: a row that is saved is a whole row, and a call past its
\* checks has the user and the role that its next statement is about.
THEOREM TypeCorrect == Spec => []TypeOK
<1>1. TypeInv => TypeOK
  BY DEF TypeInv
<1>2. QED
  BY <1>1, TypeInit, TypeNext, PTL DEF Spec

-----------------------------------------------------------------------------
(***************************************************************************)
(* The rows: who writes them, and that two never share a code.             *)
(***************************************************************************)
RowStep(c) == SeedSave(c) \/ CreateSave(c) \/ UpdateSave(c) \/ DeleteRow(c)

LEMMA RowWriters ==
  ASSUME [Next]_vars
  PROVE  (roles' = roles /\ inserted' = inserted) \/ \E c \in Calls : RowStep(c)
<1>1. ASSUME NEW c \in Calls, Step(c) PROVE (roles' = roles /\ inserted' = inserted) \/ RowStep(c)
  BY <1>1 DEF Step, RowStep, ListAll, Create, SeedFind, CreateFind, UpdateFind, DeleteFind,
     DeleteGrants, Assign, AssignFind, AssignCheck, AssignSave, RemoveUserRole, Login, Aggregate,
     AggregateRoles, FindRegular, Check, CheckGrants, CheckRoles, Answer
<1>2. ASSUME NEW c \in Calls, AwaitFails(c) PROVE roles' = roles /\ inserted' = inserted
  BY <1>2 DEF AwaitFails
<1>3. QED
  BY <1>1, <1>2 DEF Next, Restart, vars

\* What the seeding does to the rows, when the index lets it.
LEMMA Seeded ==
  ASSUME TypeInv, NEW c \in Calls, SeedSave(c)
  PROVE  \/ /\ \E code \in call[c].ids : Present(code) # {}
            /\ roles' = roles /\ inserted' = inserted /\ seeded' = seeded
         \/ /\ \A code \in call[c].ids : /\ Present(code) = {}
                                         /\ NextId(code) \in Ids
                                         /\ roles'[NextId(code)].exists
                                         /\ roles'[NextId(code)].system
                                         /\ inserted'[code] = inserted[code] + 1
            /\ \A i \in Ids : \/ roles'[i] = roles[i]
                              \/ i[1] \in call[c].ids /\ i = NextId(i[1])
            /\ \A code \in Codes : inserted'[code] \in {inserted[code], inserted[code] + 1}
<1> DEFINE new == {NextId(code) : code \in call[c].ids}
<1>1. call[c].ids \subseteq SystemCodes
  BY SeedSaveStep
<1>2. \A code \in call[c].ids : NextId(code) \in Ids /\ code \in Codes
  BY <1>1, InsertedType DEF SeedSave, TypeInv, Codes
<1>3. CASE \E code \in call[c].ids : Present(code) # {}
  BY <1>3 DEF SeedSave
<1>4. CASE ~ \E code \in call[c].ids : Present(code) # {}
  <2>1. /\ roles' = [i \in Ids |-> IF i \in new
                                     THEN [exists |-> TRUE, perms |-> Seeds[i[1]], system |-> TRUE]
                                     ELSE roles[i]]
        /\ inserted' = [code \in Codes |->
                          IF code \in call[c].ids THEN inserted[code] + 1 ELSE inserted[code]]
    BY <1>4 DEF SeedSave
  <2>2. \A code \in call[c].ids : roles'[NextId(code)].exists /\ roles'[NextId(code)].system
    BY <1>2, <2>1
  <2>3. \A i \in new : i[1] \in call[c].ids /\ i = NextId(i[1])
    BY DEF NextId
  <2>4. \A i \in Ids : roles'[i] = roles[i] \/ i \in new
    BY <2>1
  <2>5. QED
    BY <1>2, <1>4, <2>1, <2>2, <2>3, <2>4
<1>5. QED
  BY <1>3, <1>4

\* The same for create, whose row is not a built-in one.
LEMMA Created ==
  ASSUME TypeInv, NEW c \in Calls, CreateSave(c)
  PROVE  LET code == call[c].id[1]
         IN \/ Present(code) # {} /\ roles' = roles /\ inserted' = inserted
            \/ /\ Present(code) = {} /\ code \in Codes /\ NextId(code) \in Ids
               /\ ~ roles'[NextId(code)].system
               /\ \A i \in Ids \ {NextId(code)} : roles'[i] = roles[i]
               /\ inserted'[code] = inserted[code] + 1
               /\ \A other \in Codes \ {code} : inserted'[other] = inserted[other]
BY CreateSaveStep DEF CreateSave, TypeInv, TypeOK

\* save of an updated entity writes its row unless another row has the code.
LEMMA Updated ==
  ASSUME TypeInv, NEW c \in Calls, UpdateSave(c)
  PROVE  LET i == call[c].id
         IN /\ i \in Ids /\ inserted' = inserted
            /\ \/ roles' = roles
               \/ /\ Present(i[1]) \subseteq {i} /\ roles'[i] = call[c].row
                  /\ \A j \in Ids \ {i} : roles'[j] = roles[j]
BY UpdateSaveStep DEF UpdateSave, TypeInv, TypeOK

LEMMA Deleted ==
  ASSUME TypeInv, NEW c \in Calls, DeleteRow(c)
  PROVE  LET i == call[c].id
         IN /\ i \in Ids /\ inserted' = inserted /\ ~ roles'[i].exists /\ ~ roles'[i].system
            /\ \A j \in Ids \ {i} : roles'[j] = roles[j]
BY DeleteRowStep, NoRoleType DEF DeleteRow, TypeInv, TypeOK

LEMMA UniqueNext == TypeInv /\ CodesUnique /\ [Next]_vars => CodesUnique'
<1> SUFFICES ASSUME TypeInv, CodesUnique, [Next]_vars,
                    NEW i \in Ids, NEW j \in Ids, i[1] = j[1], roles'[i].exists, roles'[j].exists
             PROVE  i = j
  BY DEF CodesUnique, Present
<1>1. roles[i].exists /\ roles[j].exists => i = j
  BY DEF CodesUnique, Present, Ids
<1>2. CASE roles' = roles
  BY <1>1, <1>2
<1>3. ASSUME NEW c \in Calls, SeedSave(c) PROVE i = j
  BY <1>1, <1>3, Seeded DEF Present
<1>4. ASSUME NEW c \in Calls, CreateSave(c) PROVE i = j
  <2> DEFINE new == NextId(call[c].id[1])
  <2>1. CASE roles' = roles
    BY <1>1, <2>1
  <2>2. CASE /\ Present(call[c].id[1]) = {} /\ \A k \in Ids \ {new} : roles'[k] = roles[k]
    <3>1. new[1] = call[c].id[1]
      BY DEF NextId
    <3>2. \A k \in Ids : roles'[k].exists /\ k[1] = new[1] => k = new
      BY <2>2, <3>1 DEF Present
    <3>3. CASE i = new \/ j = new
      BY <3>2, <3>3
    <3>4. CASE i # new /\ j # new
      BY <1>1, <2>2, <3>4
    <3>5. QED
      BY <3>3, <3>4
  <2>3. QED
    BY <1>4, <2>1, <2>2, Created
<1>5. ASSUME NEW c \in Calls, UpdateSave(c) PROVE i = j
  BY <1>1, <1>5, Updated DEF Present
<1>6. ASSUME NEW c \in Calls, DeleteRow(c) PROVE i = j
  BY <1>1, <1>6, Deleted
<1>7. QED
  BY <1>2, <1>3, <1>4, <1>5, <1>6, RowWriters DEF RowStep

\* No two rows ever share a code, whatever creations, late saves and seedings run at once:
\* every insert meets the unique index.
THEOREM OneRowPerCode == Spec => []CodesUnique
<1>1. Init => CodesUnique
  BY NoRoleType DEF Init, CodesUnique, Present
<1>2. QED
  BY <1>1, TypeInit, TypeNext, UniqueNext, PTL DEF Spec

-----------------------------------------------------------------------------
(***************************************************************************)
(* Built-in rows stay.  An identifier belongs either to a seeded row or to *)
(* an administrator's, for the table and for every call that may still     *)
(* write or delete the row; and one that belongs to either is used up.     *)
(***************************************************************************)
Updating(c, i) == call[c].pc = "updateSave" /\ call[c].id = i
Removing(c, i) == call[c].pc \in Deleting /\ call[c].id = i

SystemBorn(i) == roles[i].system \/ \E c \in Calls : Updating(c, i) /\ call[c].row.system
PlainBorn(i) == \/ roles[i].exists /\ ~ roles[i].system
                \/ \E c \in Calls : Updating(c, i) /\ ~ call[c].row.system
                \/ \E c \in Calls : Removing(c, i)

BirthInv == \A i \in Ids : /\ ~ (SystemBorn(i) /\ PlainBorn(i))
                           /\ SystemBorn(i) \/ PlainBorn(i) => i[2] <= inserted[i[1]]
                           /\ roles[i].system => roles[i].exists

\* What a step of c has to show about i, if it inserts no row i.
LEMMA BirthKept ==
  ASSUME TypeInv, BirthInv, NEW c \in Calls, Frame(c), NEW i \in Ids,
         roles'[i].system => SystemBorn(i) /\ roles'[i].exists,
         roles'[i].exists /\ ~ roles'[i].system => PlainBorn(i),
         Updating(c, i)' => IF call'[c].row.system THEN SystemBorn(i) ELSE PlainBorn(i),
         Removing(c, i)' => PlainBorn(i),
         inserted'[i[1]] \in {inserted[i[1]], inserted[i[1]] + 1}
  PROVE  /\ ~ (SystemBorn(i)' /\ PlainBorn(i)')
         /\ SystemBorn(i)' \/ PlainBorn(i)' => i[2] <= inserted'[i[1]]
         /\ roles'[i].system => roles'[i].exists
<1>1. \A d \in Calls \ {c} : call'[d] = call[d]
  BY DEF Frame
<1>2. SystemBorn(i)' => SystemBorn(i)
  BY <1>1 DEF SystemBorn, Updating
<1>3. PlainBorn(i)' => PlainBorn(i)
  BY <1>1 DEF PlainBorn, Updating, Removing
<1>4. i[2] \in Nat /\ inserted[i[1]] \in Nat
  BY DEF Ids, TypeInv, TypeOK
<1>5. QED
  BY <1>2, <1>3, <1>4 DEF BirthInv

\* What a step of c has to show about a row i that it inserts.
LEMMA BirthOf ==
  ASSUME TypeInv, BirthInv, NEW c \in Calls, Frame(c), NEW i \in Ids,
         i = NextId(i[1]), inserted'[i[1]] = inserted[i[1]] + 1, roles'[i].exists,
         call'[c].pc \notin {"updateSave", "deleteGrants", "deleteRow"}
  PROVE  /\ ~ (SystemBorn(i)' /\ PlainBorn(i)')
         /\ SystemBorn(i)' \/ PlainBorn(i)' => i[2] <= inserted'[i[1]]
         /\ roles'[i].system => roles'[i].exists
<1>1. i[2] = inserted[i[1]] + 1 /\ inserted[i[1]] \in Nat
  BY DEF NextId, Ids, TypeInv, TypeOK
<1>2. ~ SystemBorn(i) /\ ~ PlainBorn(i)
  BY <1>1 DEF BirthInv
<1>3. \A d \in Calls : ~ Updating(d, i)' /\ ~ Removing(d, i)'
  BY <1>2 DEF SystemBorn, PlainBorn, Updating, Removing, Frame, Deleting
<1>4. ~ (SystemBorn(i)' /\ PlainBorn(i)')
  BY <1>3 DEF SystemBorn, PlainBorn
<1>5. QED
  BY <1>1, <1>4

\* Steps that touch neither the rows nor an entity of one.
LEMMA BirthElsewhere ==
  ASSUME TypeInv, BirthInv, NEW c \in Calls, Frame(c), roles' = roles, inserted' = inserted,
         call'[c].pc \notin {"updateSave", "deleteGrants", "deleteRow"}
  PROVE  BirthInv'
<1> SUFFICES ASSUME NEW i \in Ids
             PROVE  /\ ~ (SystemBorn(i)' /\ PlainBorn(i)')
                    /\ SystemBorn(i)' \/ PlainBorn(i)' => i[2] <= inserted'[i[1]]
                    /\ roles'[i].system => roles'[i].exists
  BY DEF BirthInv
<1>1. roles'[i].system => SystemBorn(i) /\ roles'[i].exists
  BY DEF BirthInv, SystemBorn
<1>2. roles'[i].exists /\ ~ roles'[i].system => PlainBorn(i)
  BY DEF PlainBorn
<1>3. ~ Updating(c, i)' /\ ~ Removing(c, i)'
  BY DEF Updating, Removing, Deleting
<1>4. QED
  BY <1>1, <1>2, <1>3, BirthKept

LEMMA BirthSeed ==
  ASSUME TypeInv, BirthInv, NEW c \in Calls, SeedSave(c) PROVE BirthInv'
<1>1. Frame(c) /\ call'[c].pc \notin {"updateSave", "deleteGrants", "deleteRow"}
  BY SeedSaveStep
<1>2. CASE roles' = roles /\ inserted' = inserted
  BY <1>1, <1>2, BirthElsewhere
<1>3. CASE /\ \A code \in call[c].ids : /\ roles'[NextId(code)].exists
                                        /\ inserted'[code] = inserted[code] + 1
           /\ \A i \in Ids : \/ roles'[i] = roles[i]
                             \/ i[1] \in call[c].ids /\ i = NextId(i[1])
           /\ \A code \in Codes : inserted'[code] \in {inserted[code], inserted[code] + 1}
  <2> SUFFICES ASSUME NEW i \in Ids
               PROVE  /\ ~ (SystemBorn(i)' /\ PlainBorn(i)')
                      /\ SystemBorn(i)' \/ PlainBorn(i)' => i[2] <= inserted'[i[1]]
                      /\ roles'[i].system => roles'[i].exists
    BY DEF BirthInv
  <2>1. CASE i[1] \in call[c].ids /\ i = NextId(i[1])
    <3>1. roles'[i].exists /\ inserted'[i[1]] = inserted[i[1]] + 1
      BY <1>3, <2>1
    <3>2. QED
      BY <1>1, <2>1, <3>1, BirthOf
  <2>2. CASE roles'[i] = roles[i]
    <3>1. roles'[i].system => SystemBorn(i) /\ roles'[i].exists
      BY <2>2 DEF BirthInv, SystemBorn
    <3>2. roles'[i].exists /\ ~ roles'[i].system => PlainBorn(i)
      BY <2>2 DEF PlainBorn
    <3>3. ~ Updating(c, i)' /\ ~ Removing(c, i)'
      BY <1>1 DEF Updating, Removing, Deleting
    <3>4. inserted'[i[1]] \in {inserted[i[1]], inserted[i[1]] + 1}
      BY <1>3 DEF Ids
    <3>5. QED
      BY <1>1, <3>1, <3>2, <3>3, <3>4, BirthKept
  <2>3. QED
    BY <1>3, <2>1, <2>2
<1>4. QED
  BY <1>2, <1>3, Seeded

LEMMA BirthCreate ==
  ASSUME TypeInv, BirthInv, NEW c \in Calls, CreateSave(c) PROVE BirthInv'
<1> DEFINE code == call[c].id[1]
<1>1. Frame(c) /\ call'[c].pc \notin {"updateSave", "deleteGrants", "deleteRow"}
  BY CreateSaveStep
<1>2. CASE roles' = roles /\ inserted' = inserted
  BY <1>1, <1>2, BirthElsewhere
<1>3. CASE /\ Present(code) = {} /\ code \in Codes /\ NextId(code) \in Ids
           /\ ~ roles'[NextId(code)].system
           /\ \A i \in Ids \ {NextId(code)} : roles'[i] = roles[i]
           /\ inserted'[code] = inserted[code] + 1
           /\ \A other \in Codes \ {code} : inserted'[other] = inserted[other]
  <2> SUFFICES ASSUME NEW i \in Ids
               PROVE  /\ ~ (SystemBorn(i)' /\ PlainBorn(i)')
                      /\ SystemBorn(i)' \/ PlainBorn(i)' => i[2] <= inserted'[i[1]]
                      /\ roles'[i].system => roles'[i].exists
    BY DEF BirthInv
  <2>0. ~ Updating(c, i)' /\ ~ Removing(c, i)'
    BY <1>1 DEF Updating, Removing, Deleting
  <2>1. CASE i = NextId(code)
    <3>1. i[1] = code /\ i[2] = inserted[code] + 1 /\ inserted[code] \in Nat
      BY <1>3, <2>1 DEF NextId, TypeInv, TypeOK
    <3>2. ~ SystemBorn(i) /\ ~ PlainBorn(i)
      BY <3>1 DEF BirthInv
    <3>3. \A d \in Calls : ~ Updating(d, i)' /\ ~ Removing(d, i)'
      BY <1>1, <2>0, <3>2 DEF SystemBorn, PlainBorn, Updating, Removing, Frame
    <3>4. ~ SystemBorn(i)' /\ ~ roles'[i].system
      BY <1>3, <2>1, <3>3 DEF SystemBorn
    <3>5. i[2] <= inserted'[i[1]]
      BY <1>3, <3>1
    <3>6. QED
      BY <3>4, <3>5
  <2>2. CASE i # NextId(code)
    <3>1. roles'[i] = roles[i]
      BY <1>3, <2>2
    <3>2. roles'[i].system => SystemBorn(i) /\ roles'[i].exists
      BY <3>1 DEF BirthInv, SystemBorn
    <3>3. roles'[i].exists /\ ~ roles'[i].system => PlainBorn(i)
      BY <3>1 DEF PlainBorn
    <3>4. inserted'[i[1]] \in {inserted[i[1]], inserted[i[1]] + 1}
      BY <1>3 DEF Ids
    <3>5. QED
      BY <1>1, <2>0, <3>2, <3>3, <3>4, BirthKept
  <2>3. QED
    BY <2>1, <2>2
<1>4. QED
  BY <1>2, <1>3, Created

LEMMA BirthUpdate ==
  ASSUME TypeInv, BirthInv, NEW c \in Calls, UpdateSave(c) PROVE BirthInv'
<1>1. Frame(c) /\ call'[c].pc \notin {"updateSave", "deleteGrants", "deleteRow"}
      /\ call[c].pc = "updateSave" /\ call[c].row.exists
  BY UpdateSaveStep DEF UpdateSave, At
<1>2. CASE roles' = roles /\ inserted' = inserted
  BY <1>1, <1>2, BirthElsewhere
<1>3. CASE /\ inserted' = inserted /\ roles'[call[c].id] = call[c].row
           /\ \A j \in Ids \ {call[c].id} : roles'[j] = roles[j]
  <2> SUFFICES ASSUME NEW i \in Ids
               PROVE  /\ ~ (SystemBorn(i)' /\ PlainBorn(i)')
                      /\ SystemBorn(i)' \/ PlainBorn(i)' => i[2] <= inserted'[i[1]]
                      /\ roles'[i].system => roles'[i].exists
    BY DEF BirthInv
  <2>1. roles'[i].system => SystemBorn(i) /\ roles'[i].exists
    BY <1>1, <1>3 DEF BirthInv, SystemBorn, Updating
  <2>2. roles'[i].exists /\ ~ roles'[i].system => PlainBorn(i)
    BY <1>1, <1>3 DEF PlainBorn, Updating
  <2>3. ~ Updating(c, i)' /\ ~ Removing(c, i)'
    BY <1>1 DEF Updating, Removing, Deleting
  <2>4. QED
    BY <1>1, <1>3, <2>1, <2>2, <2>3, BirthKept
<1>4. QED
  BY <1>2, <1>3, Updated

LEMMA BirthDelete ==
  ASSUME TypeInv, BirthInv, NEW c \in Calls, DeleteRow(c) PROVE BirthInv'
<1>1. Frame(c) /\ call'[c].pc \notin {"updateSave", "deleteGrants", "deleteRow"}
  BY DeleteRowStep
<1> SUFFICES ASSUME NEW i \in Ids
             PROVE  /\ ~ (SystemBorn(i)' /\ PlainBorn(i)')
                    /\ SystemBorn(i)' \/ PlainBorn(i)' => i[2] <= inserted'[i[1]]
                    /\ roles'[i].system => roles'[i].exists
  BY DEF BirthInv
<1>2. inserted' = inserted /\ (roles'[i] = roles[i] \/ (~ roles'[i].exists /\ ~ roles'[i].system))
  BY Deleted
<1>3. roles'[i].system => SystemBorn(i) /\ roles'[i].exists
  BY <1>2 DEF BirthInv, SystemBorn
<1>4. roles'[i].exists /\ ~ roles'[i].system => PlainBorn(i)
  BY <1>2 DEF PlainBorn
<1>5. ~ Updating(c, i)' /\ ~ Removing(c, i)'
  BY <1>1 DEF Updating, Removing, Deleting
<1>6. QED
  BY <1>1, <1>2, <1>3, <1>4, <1>5, BirthKept

\* An update and a deletion begin with the row they read, and go on with it.
LEMMA BirthLoad ==
  ASSUME TypeInv, BirthInv, NEW c \in Calls, UpdateFind(c) \/ DeleteFind(c) \/ DeleteGrants(c)
  PROVE  BirthInv'
<1>1. Frame(c) /\ roles' = roles /\ inserted' = inserted
  BY UpdateFindStep, DeleteFindStep, DeleteGrantsStep DEF UpdateFind, DeleteFind, DeleteGrants
<1> SUFFICES ASSUME NEW i \in Ids
             PROVE  /\ ~ (SystemBorn(i)' /\ PlainBorn(i)')
                    /\ SystemBorn(i)' \/ PlainBorn(i)' => i[2] <= inserted'[i[1]]
                    /\ roles'[i].system => roles'[i].exists
  BY DEF BirthInv
<1>2. roles'[i].system => SystemBorn(i) /\ roles'[i].exists
  BY <1>1 DEF BirthInv, SystemBorn
<1>3. roles'[i].exists /\ ~ roles'[i].system => PlainBorn(i)
  BY <1>1 DEF PlainBorn
<1>4. Updating(c, i)' => IF call'[c].row.system THEN SystemBorn(i) ELSE PlainBorn(i)
  BY UpdateFindStep, DeleteFindStep, DeleteGrantsStep DEF Updating, SystemBorn, PlainBorn
<1>5. Removing(c, i)' => PlainBorn(i)
  BY UpdateFindStep, DeleteFindStep, DeleteGrantsStep
     DEF Removing, PlainBorn, Deleting, DeleteGrants, At
<1>6. QED
  BY <1>1, <1>2, <1>3, <1>4, <1>5, BirthKept

LEMMA BirthNext == TypeInv /\ BirthInv /\ [Next]_vars => BirthInv'
<1> SUFFICES ASSUME TypeInv, BirthInv, [Next]_vars PROVE BirthInv'
  OBVIOUS
<1>1. ASSUME NEW c \in Calls, Step(c) PROVE BirthInv'
  <2>1. CASE SeedSave(c) \/ CreateSave(c) \/ UpdateSave(c) \/ DeleteRow(c)
             \/ UpdateFind(c) \/ DeleteFind(c) \/ DeleteGrants(c)
    BY <2>1, BirthSeed, BirthCreate, BirthUpdate, BirthDelete, BirthLoad
  <2>2. CASE \/ ListAll(c) \/ Create(c) \/ SeedFind(c) \/ CreateFind(c)
             \/ Assign(c) \/ AssignFind(c) \/ AssignCheck(c) \/ AssignSave(c) \/ RemoveUserRole(c)
    <3>1. roles' = roles /\ inserted' = inserted
      BY <2>2 DEF ListAll, Create, SeedFind, CreateFind, Assign, AssignFind, AssignCheck,
         AssignSave, RemoveUserRole
    <3>2. Frame(c) /\ call'[c].pc \notin {"updateSave", "deleteGrants", "deleteRow"}
      <4>1. CASE \/ ListAll(c) \/ Create(c) \/ SeedFind(c) \/ CreateFind(c)
        BY <4>1, IdleType, ListAllStep, CreateStep, SeedFindStep, CreateFindStep
      <4>2. CASE \/ Assign(c) \/ AssignFind(c) \/ AssignCheck(c) \/ AssignSave(c)
                 \/ RemoveUserRole(c)
        BY <4>2, IdleType, AssignStep, AssignFindStep, AssignCheckStep, AssignSaveStep,
           RemoveUserRoleStep
      <4>3. QED
        BY <2>2, <4>1, <4>2
    <3>3. QED
      BY <3>1, <3>2, BirthElsewhere
  <2>3. CASE \/ Login(c) \/ Aggregate(c) \/ AggregateRoles(c) \/ FindRegular(c)
             \/ Check(c) \/ CheckGrants(c) \/ CheckRoles(c) \/ Answer(c)
    <3>1. roles' = roles /\ inserted' = inserted
      BY <2>3 DEF Login, Aggregate, AggregateRoles, FindRegular, Check, CheckGrants,
         CheckRoles, Answer
    <3>2. Frame(c) /\ call'[c].pc \notin {"updateSave", "deleteGrants", "deleteRow"}
      BY <2>3, LoginStep, AggregateStep, AggregateRolesStep, FindRegularStep,
         CheckStep, CheckGrantsStep, CheckRolesStep, AnswerStep
    <3>3. QED
      BY <3>1, <3>2, BirthElsewhere
  <2>4. QED
    BY <1>1, <2>1, <2>2, <2>3 DEF Step
<1>2. ASSUME NEW c \in Calls, AwaitFails(c) PROVE BirthInv'
  <2>1. roles' = roles /\ inserted' = inserted
    BY <1>2 DEF AwaitFails
  <2>2. QED
    BY <1>2, <2>1, AwaitFailsStep, BirthElsewhere
<1>3. CASE Restart
  <2>1. roles' = roles /\ inserted' = inserted /\ \A c \in Calls : call'[c].pc = "idle"
    BY <1>3, RestartStep, IdleType DEF Restart
  <2>2. \A i \in Ids : (SystemBorn(i)' => SystemBorn(i)) /\ (PlainBorn(i)' => PlainBorn(i))
    BY <2>1 DEF SystemBorn, PlainBorn, Updating, Removing, Deleting
  <2>3. QED
    BY <2>1, <2>2 DEF BirthInv
<1>4. CASE UNCHANGED vars
  BY <1>4 DEF vars, BirthInv, SystemBorn, PlainBorn, Updating, Removing
<1>5. QED
  BY <1>1, <1>2, <1>3, <1>4 DEF Next

LEMMA BirthInit == Init => BirthInv
<1> SUFFICES ASSUME Init PROVE BirthInv
  OBVIOUS
<1>1. \A i \in Ids : ~ roles[i].exists /\ ~ roles[i].system
  BY NoRoleType DEF Init
<1>2. \A c \in Calls : call[c].pc = "idle"
  BY IdleType DEF Init
<1>3. QED
  BY <1>1, <1>2 DEF BirthInv, SystemBorn, PlainBorn, Updating, Removing, Deleting

LEMMA SystemStays ==
  ASSUME TypeInv, BirthInv, [Next]_vars, NEW i \in Ids, roles[i].system
  PROVE  roles'[i].system /\ roles'[i].exists
<1>1. SystemBorn(i) /\ ~ PlainBorn(i) /\ roles[i].exists
  BY DEF BirthInv, SystemBorn
<1>2. CASE roles' = roles
  BY <1>1, <1>2
<1>3. ASSUME NEW c \in Calls, SeedSave(c) PROVE roles'[i].system /\ roles'[i].exists
  BY <1>1, <1>3, Seeded
<1>4. ASSUME NEW c \in Calls, CreateSave(c) PROVE roles'[i].system /\ roles'[i].exists
  <2>1. i = NextId(call[c].id[1]) => i \in Present(call[c].id[1])
    BY <1>1 DEF Present, NextId
  <2>2. QED
    BY <1>1, <1>4, <2>1, Created
<1>5. ASSUME NEW c \in Calls, UpdateSave(c) PROVE roles'[i].system /\ roles'[i].exists
  <2>1. call[c].id = i => call[c].row.system /\ call[c].row.exists
    BY <1>1, <1>5, UpdateSaveStep DEF UpdateSave, At, PlainBorn, Updating
  <2>2. QED
    BY <1>1, <1>5, <2>1, Updated
<1>6. ASSUME NEW c \in Calls, DeleteRow(c) PROVE roles'[i].system /\ roles'[i].exists
  <2>1. call[c].id # i
    BY <1>1, <1>6 DEF DeleteRow, At, PlainBorn, Removing, Deleting
  <2>2. QED
    BY <1>1, <1>6, <2>1, Deleted
<1>7. QED
  BY <1>2, <1>3, <1>4, <1>5, <1>6, RowWriters DEF RowStep

\* A built-in role, once seeded, is never deleted and keeps its flag.
THEOREM SystemRolesAreKept == Spec => SystemRolesStay
<1>1. TypeInv /\ BirthInv /\ [Next]_vars =>
        [\A i \in Ids : roles[i].system => roles'[i].system /\ roles'[i].exists]_vars
  BY SystemStays
<1>2. QED
  BY <1>1, TypeInit, TypeNext, BirthInit, BirthNext, PTL DEF Spec, SystemRolesStay

-----------------------------------------------------------------------------
(***************************************************************************)
(* Built-in codes are reserved: without failures the seeding inserts all   *)
(* the built-in rows or none, and creations and updates get to their save  *)
(* only when they are there.                                               *)
(***************************************************************************)
AllSeeded == \A code \in SystemCodes : Present(code) # {}

SeedInv ==
  failures = 0 =>
    /\ \A i \in Ids : roles[i].exists /\ i[1] \in SystemCodes => roles[i].system /\ AllSeeded
    /\ seeded => AllSeeded
    /\ \A c \in Calls :
         /\ call[c].pc = "seedSave" => call[c].ids = SystemCodes
         /\ call[c].pc \in Creating => AllSeeded
         /\ call[c].pc = "updateSave" /\ call[c].id[1] \in SystemCodes =>
              call[c].row.system /\ AllSeeded

\* A built-in row that is there stays, so what was seeded remains so.
LEMMA SeededStays ==
  ASSUME TypeInv, BirthInv, SeedInv, failures = 0, AllSeeded, [Next]_vars PROVE AllSeeded'
<1> SUFFICES ASSUME NEW code \in SystemCodes PROVE Present(code)' # {}
  BY DEF AllSeeded
<1>1. PICK i \in Ids : i[1] = code /\ roles[i].exists
  BY DEF AllSeeded, Present
<1>2. roles[i].system
  BY <1>1 DEF SeedInv
<1>3. roles'[i].exists
  BY <1>2, SystemStays
<1>4. QED
  BY <1>1, <1>3 DEF Present

\* What a step of c has to show.
LEMMA SeedKept ==
  ASSUME TypeInv, BirthInv, SeedInv, failures = 0, [Next]_vars, NEW c \in Calls, Frame(c),
         \A i \in Ids : roles'[i].exists /\ i[1] \in SystemCodes => roles'[i].system /\ AllSeeded',
         seeded' => AllSeeded',
         call'[c].pc = "seedSave" => call'[c].ids = SystemCodes,
         call'[c].pc \in Creating => AllSeeded',
         call'[c].pc = "updateSave" /\ call'[c].id[1] \in SystemCodes =>
           call'[c].row.system /\ AllSeeded'
  PROVE  SeedInv'
<1>1. \A d \in Calls \ {c} : call'[d] = call[d]
  BY DEF Frame
<1>2. AllSeeded => AllSeeded'
  BY SeededStays
<1>3. QED
  BY <1>1, <1>2 DEF SeedInv

LEMMA SeedElsewhere ==
  ASSUME TypeInv, BirthInv, SeedInv, failures = 0, [Next]_vars, NEW c \in Calls, Frame(c),
         roles' = roles, seeded' = seeded,
         call'[c].pc \notin {"seedSave", "createFind", "createSave", "updateSave"}
  PROVE  SeedInv'
<1>1. AllSeeded => AllSeeded'
  BY SeededStays
<1>2. QED
  BY <1>1, SeedKept DEF SeedInv, Creating

LEMMA SeedSeeding ==
  ASSUME TypeInv, BirthInv, SeedInv, failures = 0, [Next]_vars, NEW c \in Calls,
         SeedFind(c) \/ SeedSave(c)
  PROVE  SeedInv'
<1>1. AllSeeded => AllSeeded'
  BY SeededStays
<1>2. CASE SeedFind(c)
  <2>1. Frame(c) /\ roles' = roles
    BY <1>2, SeedFindStep DEF SeedFind
  <2>2. CASE (call'[c] = Idle \/ call'[c].pc = "createFind") /\ AllSeeded
    BY <1>1, <2>1, <2>2, IdleType, SeedKept DEF SeedInv, Creating
  <2>3. CASE call'[c].pc = "seedSave" /\ seeded' = seeded
             /\ (\E code \in SystemCodes : Present(code) = {})
             /\ call'[c].ids = {code \in SystemCodes : Present(code) = {}}
    <3>1. CASE \E code \in SystemCodes : Present(code) # {}
      <4>1. AllSeeded
        BY <3>1 DEF SeedInv, Present
      <4>2. PICK code \in SystemCodes : Present(code) = {}
        BY <2>3
      <4>3. QED
        BY <4>1, <4>2 DEF AllSeeded
    <3>2. CASE \A code \in SystemCodes : Present(code) = {}
      <4>1. call'[c].ids = SystemCodes
        BY <2>3, <3>2
      <4>2. QED
        BY <1>1, <2>1, <2>3, <4>1, SeedKept DEF SeedInv, Creating
    <3>3. QED
      BY <3>1, <3>2
  <2>4. QED
    BY <1>2, <2>2, <2>3, SeedFindStep DEF AllSeeded
<1>3. CASE SeedSave(c)
  <2>1. Frame(c) /\ call'[c].pc \in {"idle", "createFind"} /\ call[c].ids = SystemCodes
    BY <1>3, SeedSaveStep DEF SeedSave, At, SeedInv
  <2>2. CASE (\E code \in call[c].ids : Present(code) # {}) /\ roles' = roles /\ seeded' = seeded
    <3>1. AllSeeded
      BY <2>1, <2>2 DEF SeedInv, Present
    <3>2. QED
      BY <1>1, <2>1, <2>2, <3>1, SeedKept DEF SeedInv, Creating
  <2>3. CASE /\ \A code \in call[c].ids : /\ Present(code) = {}
                                          /\ NextId(code) \in Ids
                                          /\ roles'[NextId(code)].exists
                                          /\ roles'[NextId(code)].system
             /\ \A i \in Ids : \/ roles'[i] = roles[i]
                               \/ i[1] \in call[c].ids /\ i = NextId(i[1])
    <3>1. AllSeeded'
      <4> SUFFICES ASSUME NEW code \in SystemCodes PROVE Present(code)' # {}
        BY DEF AllSeeded
      <4>1. NextId(code) \in Ids /\ roles'[NextId(code)].exists /\ NextId(code)[1] = code
        BY <2>1, <2>3 DEF NextId
      <4>2. QED
        BY <4>1 DEF Present
    <3>2. \A i \in Ids : roles'[i].exists /\ i[1] \in SystemCodes => roles'[i].system
      BY <2>1, <2>3 DEF SeedInv
    <3>3. QED
      BY <2>1, <3>1, <3>2, SeedKept
  <2>4. QED
    BY <1>3, <2>2, <2>3, Seeded
<1>4. QED
  BY <1>2, <1>3

LEMMA SeedRows ==
  ASSUME TypeInv, BirthInv, SeedInv, failures = 0, [Next]_vars, NEW c \in Calls,
         Create(c) \/ CreateFind(c) \/ CreateSave(c) \/ UpdateFind(c) \/ UpdateSave(c) \/ DeleteRow(c)
  PROVE  SeedInv'
<1>1. AllSeeded => AllSeeded'
  BY SeededStays
<1>2. CASE Create(c)
  <2>1. Frame(c) /\ roles' = roles /\ seeded' = seeded /\ call'[c].pc \in {"createFind", "seedFind"}
        /\ (call'[c].pc = "createFind" => seeded)
    BY <1>2, CreateStep DEF Create
  <2>2. QED
    BY <1>1, <2>1, SeedKept DEF SeedInv, Creating
<1>3. CASE CreateFind(c)
  <2>1. Frame(c) /\ roles' = roles /\ seeded' = seeded /\ call'[c].pc \in {"idle", "createSave"}
        /\ AllSeeded
    BY <1>3, CreateFindStep DEF CreateFind, At, SeedInv, Creating
  <2>2. QED
    BY <1>1, <2>1, SeedKept DEF SeedInv, Creating
<1>4. CASE CreateSave(c)
  <2>1. Frame(c) /\ call'[c].pc = "idle" /\ AllSeeded /\ seeded' = seeded
    BY <1>4, CreateSaveStep DEF CreateSave, At, SeedInv, Creating
  <2>2. ASSUME NEW i \in Ids, roles'[i].exists, i[1] \in SystemCodes PROVE roles'[i] = roles[i]
    <3>1. i = NextId(call[c].id[1]) => Present(call[c].id[1]) # {}
      BY <2>1, <2>2 DEF AllSeeded, NextId
    <3>2. QED
      BY <1>4, <3>1, Created
  <2>3. QED
    BY <1>1, <2>1, <2>2, SeedKept DEF SeedInv, Creating
<1>5. CASE UpdateFind(c)
  <2>1. Frame(c) /\ roles' = roles /\ seeded' = seeded /\ call'[c].pc = "updateSave"
        /\ call'[c].id \in Ids /\ roles[call'[c].id].exists
        /\ call'[c].row.system = roles[call'[c].id].system
    BY <1>5, UpdateFindStep DEF UpdateFind
  <2>2. QED
    BY <1>1, <2>1, SeedKept DEF SeedInv, Creating
<1>6. CASE UpdateSave(c)
  <2>1. Frame(c) /\ call'[c].pc = "idle" /\ seeded' = seeded /\ call[c].id \in Ids
        /\ (call[c].id[1] \in SystemCodes => call[c].row.system /\ AllSeeded)
    BY <1>6, UpdateSaveStep DEF UpdateSave, At, SeedInv
  <2>2. ASSUME NEW i \in Ids, roles'[i].exists, i[1] \in SystemCodes
        PROVE  roles'[i].system /\ AllSeeded
    <3>1. roles'[i] = roles[i] \/ (i = call[c].id /\ roles'[i] = call[c].row)
      BY <1>6, Updated
    <3>2. QED
      BY <2>1, <2>2, <3>1 DEF SeedInv
  <2>3. QED
    BY <1>1, <2>1, <2>2, SeedKept DEF SeedInv, Creating
<1>7. CASE DeleteRow(c)
  <2>1. Frame(c) /\ call'[c].pc = "idle" /\ seeded' = seeded
    BY <1>7, DeleteRowStep DEF DeleteRow
  <2>2. ASSUME NEW i \in Ids, roles'[i].exists PROVE roles'[i] = roles[i]
    BY <1>7, <2>2, Deleted
  <2>3. QED
    BY <1>1, <2>1, <2>2, SeedKept DEF SeedInv, Creating
<1>8. QED
  BY <1>2, <1>3, <1>4, <1>5, <1>6, <1>7

LEMMA SeedNext == TypeInv /\ BirthInv /\ SeedInv /\ [Next]_vars => SeedInv'
<1> SUFFICES ASSUME TypeInv, BirthInv, SeedInv, [Next]_vars, failures' = 0 PROVE SeedInv'
  BY DEF SeedInv
<1>1. ASSUME NEW c \in Calls, Step(c) PROVE SeedInv'
  <2>1. failures = 0
    BY <1>1 DEF Step, ListAll, Create, SeedFind, SeedSave, CreateFind, CreateSave, UpdateFind,
       UpdateSave, DeleteFind, DeleteGrants, DeleteRow, Assign, AssignFind, AssignCheck, AssignSave,
       RemoveUserRole, Login, Aggregate, AggregateRoles, FindRegular, Check, CheckGrants,
       CheckRoles, Answer
  <2>2. CASE \/ SeedFind(c) \/ SeedSave(c) \/ Create(c) \/ CreateFind(c) \/ CreateSave(c)
             \/ UpdateFind(c) \/ UpdateSave(c) \/ DeleteRow(c)
    BY <2>1, <2>2, SeedSeeding, SeedRows
  <2>3. CASE \/ ListAll(c) \/ DeleteFind(c) \/ DeleteGrants(c)
             \/ Assign(c) \/ AssignFind(c) \/ AssignCheck(c) \/ AssignSave(c) \/ RemoveUserRole(c)
    <3>1. roles' = roles /\ seeded' = seeded
      BY <2>3 DEF ListAll, DeleteFind, DeleteGrants, Assign, AssignFind, AssignCheck,
         AssignSave, RemoveUserRole
    <3>2. Frame(c) /\ call'[c].pc \notin {"seedSave", "createFind", "createSave", "updateSave"}
      <4>1. CASE ListAll(c) \/ DeleteFind(c) \/ DeleteGrants(c)
        BY <4>1, ListAllStep, DeleteFindStep, DeleteGrantsStep
      <4>2. CASE \/ Assign(c) \/ AssignFind(c) \/ AssignCheck(c) \/ AssignSave(c)
                 \/ RemoveUserRole(c)
        BY <4>2, AssignStep, AssignFindStep, AssignCheckStep, AssignSaveStep, RemoveUserRoleStep
      <4>3. QED
        BY <2>3, <4>1, <4>2
    <3>3. QED
      BY <2>1, <3>1, <3>2, SeedElsewhere
  <2>4. CASE \/ Login(c) \/ Aggregate(c) \/ AggregateRoles(c) \/ FindRegular(c)
             \/ Check(c) \/ CheckGrants(c) \/ CheckRoles(c) \/ Answer(c)
    <3>1. roles' = roles /\ seeded' = seeded
      BY <2>4 DEF Login, Aggregate, AggregateRoles, FindRegular, Check, CheckGrants,
         CheckRoles, Answer
    <3>2. Frame(c) /\ call'[c].pc \notin {"seedSave", "createFind", "createSave", "updateSave"}
      BY <2>4, LoginStep, AggregateStep, AggregateRolesStep, FindRegularStep,
         CheckStep, CheckGrantsStep, CheckRolesStep, AnswerStep
    <3>3. QED
      BY <2>1, <3>1, <3>2, SeedElsewhere
  <2>5. QED
    BY <1>1, <2>2, <2>3, <2>4 DEF Step
<1>2. ASSUME NEW c \in Calls, AwaitFails(c) PROVE SeedInv'
  BY <1>2, AwaitFailsStep
<1>3. CASE Restart
  BY <1>3, RestartStep
<1>4. CASE UNCHANGED vars
  BY <1>4 DEF vars, SeedInv, AllSeeded, Present
<1>5. QED
  BY <1>1, <1>2, <1>3, <1>4 DEF Next

\* Without failures every row with a built-in code is the seeded one, even when
\* administrators create roles in a new database while the seeding is under way.
THEOREM BuiltInCodesReserved == Spec => []SystemCodesReserved
<1>1. Init => SeedInv
  <2> SUFFICES ASSUME Init PROVE SeedInv
    OBVIOUS
  <2>1. \A i \in Ids : ~ roles[i].exists
    BY NoRoleType DEF Init
  <2>2. \A c \in Calls : call[c].pc = "idle"
    BY IdleType DEF Init
  <2>3. ~ seeded
    BY DEF Init
  <2>4. QED
    BY <2>1, <2>2, <2>3 DEF SeedInv, Creating
<1>2. SeedInv => SystemCodesReserved
  BY DEF SeedInv, SystemCodesReserved
<1>3. QED
  BY <1>1, <1>2, TypeInit, TypeNext, BirthInit, BirthNext, SeedNext, PTL DEF Spec

-----------------------------------------------------------------------------
(***************************************************************************)
(* What a login and the guard read is still so when they use it, if no     *)
(* other call wrote a role or a grant since they began.                    *)
(***************************************************************************)
QuietAt(c) ==
  LET l == call[c]
  IN /\ l.pc \in {"aggregateRoles", "checkRoles"} => l.ids = GrantsOf(l.user)
     /\ l.pc = "findRegular" => Merged(GrantsOf(l.user)) = {}
     /\ l.pc \in Assigning /\ l.op = "login" =>
          Merged(GrantsOf(l.user)) = {} /\ l.row = roles[l.id] /\ l.row.exists
     /\ l.pc = "issued" => l.row.perms = Merged(GrantsOf(l.user))
     /\ l.pc = "admitted" => Entitled(l.user, l.required)
     /\ l.pc = "refused" => ~ Entitled(l.user, l.required)

QuietInv == \A c \in quiet : QuietAt(c)

\* The calls that a step of another call leaves undisturbed see the same roles and grants.
LEMMA Undisturbed ==
  ASSUME NEW c \in Calls, Step(c), NEW d \in quiet', d # c
  PROVE  d \in quiet /\ roles' = roles /\ grants' = grants
<1>1. CASE \/ ListAll(c) \/ Create(c) \/ SeedFind(c) \/ CreateFind(c) \/ UpdateFind(c) \/ DeleteFind(c)
           \/ Assign(c) \/ AssignFind(c) \/ AssignCheck(c)
  BY <1>1 DEF ListAll, Create, SeedFind, CreateFind, UpdateFind, DeleteFind, Assign,
     AssignFind, AssignCheck
<1>2. CASE \/ Login(c) \/ Aggregate(c) \/ AggregateRoles(c) \/ FindRegular(c)
           \/ Check(c) \/ CheckGrants(c) \/ CheckRoles(c) \/ Answer(c)
  BY <1>2 DEF Login, Aggregate, AggregateRoles, FindRegular, Check, CheckGrants, CheckRoles, Answer
<1>3. CASE \/ SeedSave(c) \/ CreateSave(c) \/ UpdateSave(c) \/ DeleteGrants(c) \/ DeleteRow(c)
           \/ AssignSave(c) \/ RemoveUserRole(c)
  BY <1>3 DEF SeedSave, CreateSave, UpdateSave, DeleteGrants, DeleteRow, AssignSave,
     RemoveUserRole, Disturb
<1>4. QED
  BY <1>1, <1>2, <1>3 DEF Step

\* With the roles and the grants unchanged, so is what follows from them.
LEMMA SameView ==
  ASSUME roles' = roles, grants' = grants
  PROVE  /\ \A u : GrantsOf(u)' = GrantsOf(u)
         /\ \A ids : Merged(ids)' = Merged(ids)
         /\ \A u, required : Entitled(u, required)' <=> Entitled(u, required)
BY DEF GrantsOf, Merged, Entitled, Match

LEMMA NoRolesNoPermissions == Merged({}) = {}
BY DEF Merged

\* A call at a state that says nothing of what it read.
LEMMA QuietElsewhere ==
  ASSUME NEW c, call'[c].pc \notin {"aggregateRoles", "checkRoles", "findRegular", "issued",
                                    "admitted", "refused"},
         call'[c].pc \notin Assigning \/ call'[c].op # "login"
  PROVE  QuietAt(c)'
BY DEF QuietAt

LEMMA QuietLogin ==
  ASSUME TypeInv, NEW c \in Calls, QuietAt(c),
         Aggregate(c) \/ AggregateRoles(c) \/ FindRegular(c) \/ AssignFind(c) \/ AssignCheck(c)
  PROVE  QuietAt(c)'
<1>1. roles' = roles /\ grants' = grants
  BY DEF Aggregate, AggregateRoles, FindRegular, AssignFind, AssignCheck
<1>2. CASE Aggregate(c)
  BY <1>1, <1>2, SameView, AggregateStep, NoRolesNoPermissions DEF QuietAt, Assigning
<1>3. CASE AggregateRoles(c)
  BY <1>1, <1>3, SameView, AggregateRolesStep DEF QuietAt, Assigning, AggregateRoles, At
<1>4. CASE FindRegular(c)
  <2>1. Merged(GrantsOf(call[c].user)) = {}
    BY <1>4 DEF FindRegular, At, QuietAt
  <2>2. CASE call'[c].pc = "issued" /\ call'[c].row.perms = {} /\ call'[c].user = call[c].user
    BY <1>1, <2>1, <2>2, SameView DEF QuietAt, Assigning
  <2>3. CASE /\ call'[c].pc = "assignFind" /\ call'[c].user = call[c].user
             /\ call'[c].id \in Present(RegularUser) /\ call'[c].row = roles[call'[c].id]
    <3>1. call'[c].row.exists
      BY <2>3 DEF Present
    <3>2. QED
      BY <1>1, <2>1, <2>3, <3>1, SameView DEF QuietAt, Assigning
  <2>4. QED
    BY <1>4, <2>2, <2>3, FindRegularStep
<1>5. CASE AssignFind(c)
  <2>1. call[c].pc = "assignFind"
    BY <1>5 DEF AssignFind, At
  <2>2. QED
    BY <1>1, <1>5, <2>1, SameView, AssignFindStep DEF QuietAt, Assigning
<1>6. CASE AssignCheck(c)
  <2>1. call[c].pc = "assignCheck"
    BY <1>6 DEF AssignCheck, At
  <2>2. CASE call'[c].pc = "idle"
    BY <2>2, QuietElsewhere DEF Assigning
  <2>3. CASE /\ call[c].op = "login" /\ call'[c].pc = "issued"
             /\ call'[c].user = call[c].user /\ call'[c].row.perms = {}
    BY <1>1, <2>1, <2>3, SameView DEF QuietAt, Assigning
  <2>4. CASE /\ call'[c].pc = "assignSave" /\ call'[c].op = call[c].op
             /\ call'[c].user = call[c].user /\ call'[c].id = call[c].id
             /\ call'[c].row = call[c].row
    BY <1>1, <2>1, <2>4, SameView DEF QuietAt, Assigning
  <2>5. QED
    BY <1>6, <2>2, <2>3, <2>4, AssignCheckStep
<1>7. QED
  BY <1>2, <1>3, <1>4, <1>5, <1>6

\* A login that grants REGULAR_USER signs the permissions of that very role.
LEMMA QuietGrant ==
  ASSUME TypeInv, NEW c \in Calls, QuietAt(c), AssignSave(c)
  PROVE  QuietAt(c)'
<1> DEFINE u == call[c].user
           i == call[c].id
<1>1. roles' = roles /\ call[c].pc = "assignSave" /\ i \in Ids
  BY DEF AssignSave, At, TypeInv, Known, OnRole
<1>2. CASE call'[c].pc = "idle"
  BY <1>2, QuietElsewhere DEF Assigning
<1>3. CASE /\ call[c].op = "login" /\ call'[c].pc = "issued" /\ call'[c].user = u
           /\ call'[c].row.perms = {} /\ grants' = grants
  BY <1>1, <1>3, SameView DEF QuietAt, Assigning
<1>4. CASE /\ call[c].op = "login" /\ call'[c].pc = "issued" /\ call'[c].user = u
           /\ call'[c].row.perms = call[c].row.perms /\ grants' = grants \cup {<<u, i>>}
  <2>1. Merged(GrantsOf(u)) = {} /\ call[c].row = roles[i] /\ roles[i].exists
    BY <1>1, <1>4 DEF QuietAt, Assigning
  <2>2. GrantsOf(u)' = GrantsOf(u) \cup {i}
    BY <1>1, <1>4 DEF GrantsOf
  <2>3. Merged(GrantsOf(u) \cup {i}) = Merged(GrantsOf(u)) \cup roles[i].perms
    BY <2>1 DEF Merged
  <2>4. Merged(GrantsOf(u))' = roles[i].perms
    BY <1>1, <2>1, <2>2, <2>3 DEF Merged
  <2>5. QED
    BY <1>4, <2>1, <2>4 DEF QuietAt, Assigning
<1>5. QED
  BY <1>2, <1>3, <1>4, AssignSaveStep

LEMMA QuietCheck ==
  ASSUME TypeInv, NEW c \in Calls, QuietAt(c), CheckGrants(c) \/ CheckRoles(c)
  PROVE  QuietAt(c)'
<1>1. roles' = roles /\ grants' = grants
  BY DEF CheckGrants, CheckRoles
<1>2. CASE CheckGrants(c)
  BY <1>1, <1>2, SameView, CheckGrantsStep, NoRolesNoPermissions DEF QuietAt, Assigning, Entitled
<1>3. CASE CheckRoles(c)
  BY <1>1, <1>3, SameView, CheckRolesStep DEF QuietAt, Assigning, Entitled, CheckRoles, At
<1>4. QED
  BY <1>2, <1>3

\* A call's own steps.
LEMMA QuietOwn ==
  ASSUME TypeInv, NEW c \in Calls, c \in quiet', c \in quiet => QuietAt(c), Step(c)
  PROVE  QuietAt(c)'
<1>1. CASE \/ ListAll(c) \/ Create(c) \/ SeedFind(c) \/ SeedSave(c) \/ CreateFind(c) \/ CreateSave(c)
           \/ UpdateFind(c) \/ UpdateSave(c) \/ DeleteFind(c) \/ DeleteGrants(c) \/ DeleteRow(c)
  BY <1>1, IdleType, ListAllStep, CreateStep, SeedFindStep, SeedSaveStep, CreateFindStep,
     CreateSaveStep, UpdateFindStep, UpdateSaveStep, DeleteFindStep, DeleteGrantsStep,
     DeleteRowStep, QuietElsewhere DEF Assigning
<1>2. CASE Assign(c) \/ RemoveUserRole(c) \/ Login(c) \/ Check(c) \/ Answer(c)
  BY <1>2, AssignStep, RemoveUserRoleStep, LoginStep, CheckStep, AnswerStep, QuietElsewhere
     DEF Assigning
<1>3. CASE Aggregate(c) \/ AggregateRoles(c) \/ FindRegular(c) \/ AssignFind(c) \/ AssignCheck(c)
  BY <1>3, QuietLogin DEF Aggregate, AggregateRoles, FindRegular, AssignFind, AssignCheck
<1>4. CASE AssignSave(c)
  BY <1>4, QuietGrant DEF AssignSave, Disturb
<1>5. CASE CheckGrants(c) \/ CheckRoles(c)
  BY <1>5, QuietCheck DEF CheckGrants, CheckRoles
<1>6. QED
  BY <1>1, <1>2, <1>3, <1>4, <1>5 DEF Step

LEMMA QuietOther ==
  ASSUME NEW d, QuietAt(d), call'[d] = call[d], roles' = roles, grants' = grants
  PROVE  QuietAt(d)'
BY SameView DEF QuietAt

LEMMA QuietNext == TypeInv /\ QuietInv /\ [Next]_vars => QuietInv'
<1> SUFFICES ASSUME TypeInv, QuietInv, [Next]_vars, NEW d \in quiet' PROVE QuietAt(d)'
  BY DEF QuietInv
<1>0. d \in Calls
  BY TypeNext DEF TypeInv, TypeOK
<1>1. ASSUME NEW c \in Calls, Step(c) PROVE QuietAt(d)'
  <2>1. CASE d = c
    BY <1>1, <2>1, QuietOwn DEF QuietInv
  <2>2. CASE d # c
    BY <1>0, <1>1, <2>2, Undisturbed, StepType, QuietOther DEF QuietInv, Frame
  <2>3. QED
    BY <2>1, <2>2
<1>2. ASSUME NEW c \in Calls, AwaitFails(c) PROVE QuietAt(d)'
  <2>1. d # c /\ d \in quiet /\ Frame(c) /\ roles' = roles /\ grants' = grants
    BY <1>2, AwaitFailsStep DEF AwaitFails
  <2>2. QED
    BY <1>0, <2>1, QuietOther DEF QuietInv, Frame
<1>3. CASE Restart
  BY <1>3, RestartStep
<1>4. CASE UNCHANGED vars
  BY <1>4, QuietOther DEF vars, QuietInv
<1>5. QED
  BY <1>1, <1>2, <1>3, <1>4 DEF Next

LEMMA QuietInit == Init => QuietInv
BY DEF Init, QuietInv

\* A change of roles takes effect at once: a request is admitted exactly when the
\* user's present roles entitle it, if nothing was written while the guard read them.
THEOREM GuardSeesPresent == Spec => []GuardIsCurrent
<1>1. QuietInv => GuardIsCurrent
  BY DEF QuietInv, QuietAt, GuardIsCurrent, At
<1>2. QED
  BY <1>1, TypeInit, TypeNext, QuietInit, QuietNext, PTL DEF Spec

\* The permissions claim of a token agrees with the roles the user then has, the
\* REGULAR_USER that the login itself granted included, if nothing else was written.
THEOREM TokenSeesPresent == Spec => []TokenIsCurrent
<1>1. QuietInv => TokenIsCurrent
  BY DEF QuietInv, QuietAt, TokenIsCurrent, At
<1>2. QED
  BY <1>1, TypeInit, TypeNext, QuietInit, QuietNext, PTL DEF Spec
===============================================================================
