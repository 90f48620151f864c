-------------------------------- MODULE Roles --------------------------------
(***************************************************************************)
(* Roles and permissions: the role table and its grants (role.service.ts), *)
(* the lazy seeding of the built-in roles (role-seed.service.ts), the      *)
(* permissions a login writes into its token (issueSession in              *)
(* auth.service.ts) and the check of each request (permission.guard.ts).   *)
(*                                                                         *)
(* A permission is the sequence of its parts: <<"client", "wallet">>.  The *)
(* n-th role ever inserted with a code has the identifier <<code, n>>.     *)
(* The claim of a token is read only when the database fails; the model    *)
(* keeps the last one signed for each user.                                *)
(***************************************************************************)
EXTENDS Integers, Sequences, FiniteSets

CONSTANTS
  Users,
  Calls,        \* requests under way at once; each runs operation after operation
  CustomCodes,  \* role codes that administrators use for roles of their own
  Seeds,        \* built-in role code -> its permissions (SYSTEM_ROLE_SEEDS)
  Bodies,       \* permission lists that administrators give to roles
  Required,     \* permissions that routes require
  MaxInserts,   \* bound on the rows ever inserted with one code
  MaxFailures   \* bound on failed awaits and restarts

SystemCodes == DOMAIN Seeds
Codes == CustomCodes \cup SystemCodes
RegularUser == "REGULAR_USER"
Ids == Codes \X (1 .. MaxInserts)

ASSUME SeedsAssumption == RegularUser \in SystemCodes
ASSUME BoundsAssumption == MaxInserts \in Nat \ {0} /\ MaxFailures \in Nat

Patterns == (UNION {Seeds[code] : code \in SystemCodes}) \cup (UNION Bodies)

NoRole == [exists |-> FALSE, perms |-> {}, system |-> FALSE]
Rows == [exists : BOOLEAN, perms : SUBSET Patterns, system : BOOLEAN]

VARIABLES
  roles,      \* rows of the table roles
  inserted,   \* rows ever inserted with each code
  grants,     \* rows <<user, role>> of the table user_roles
  tokens,     \* <<user, permissions claim>> of the last access token of each user
  seeded,     \* RoleSeedService.seeded
  call,       \* local state of each call
  quiet,      \* logins and checks since whose start no other call wrote a role or grant
  failures

vars == <<roles, inserted, grants, tokens, seeded, call, quiet, failures>>

\* id: the role at hand; row: the entity loaded or being built; ids: the grants
\* or the roles read; perms: the permissions of the token or the one required.
Local == [pc : {"idle", "seedFind", "seedSave", "createFind", "createSave", "updateSave",
                "deleteGrants", "deleteRow", "assignFind", "assignCheck", "assignSave",
                "aggregate", "aggregateRoles", "findRegular", "sign",
                "checkGrants", "checkRoles", "issued", "admitted", "refused"},
          op : {"none", "list", "create", "assign", "login", "check"},
          user : Users \cup {"nobody"}, id : Ids \cup {<<"none", 0>>},
          ids : SUBSET (Ids \cup Codes), row : Rows, required : Required \cup {<<>>}]

Idle == [pc |-> "idle", op |-> "none", user |-> "nobody", id |-> <<"none", 0>>,
         ids |-> {}, row |-> NoRole, required |-> <<>>]

TypeOK ==
  /\ roles \in [Ids -> Rows]
  /\ inserted \in [Codes -> 0 .. MaxInserts]
  /\ grants \subseteq Users \X Ids
  /\ tokens \subseteq Users \X SUBSET Patterns
  /\ seeded \in BOOLEAN
  /\ call \in [Calls -> Local]
  /\ quiet \subseteq Calls
  /\ failures \in 0 .. MaxFailures

\* A new database: no role until somebody seeds them.
Init ==
  /\ roles = [i \in Ids |-> NoRole]
  /\ inserted = [code \in Codes |-> 0]
  /\ grants = {} /\ tokens = {}
  /\ seeded = FALSE
  /\ call = [c \in Calls |-> Idle]
  /\ quiet = {}
  /\ failures = 0

At(c, pc) == call[c].pc = pc

\* A write of c to a role or a grant is news for every other call.
Disturb(c) == quiet' = quiet \cap {c}

(***************************************************************************)
(* permissions.matcher.ts.                                                 *)
(***************************************************************************)
MatchSingle(p, required) ==
  \/ p = <<"*">>
  \/ p = required
  \/ /\ Len(p) > 1 /\ p[Len(p)] = "*" /\ Len(required) >= Len(p)
     /\ \A i \in 1 .. Len(p) - 1 : p[i] = required[i]

Match(perms, required) == \E p \in perms : MatchSingle(p, required)

\* roleRepo.find over ids, then mergePermissions.
Merged(ids) == UNION {roles[i].perms : i \in {j \in ids : roles[j].exists}}

GrantsOf(u) == {i \in Ids : <<u, i>> \in grants}

Present(code) == {i \in Ids : i[1] = code /\ roles[i].exists}

NextId(code) == <<code, inserted[code] + 1>>

(***************************************************************************)
(* seedIfMissing, at the head of listAll and create.  Its errors are       *)
(* caught, and the caller goes on.                                         *)
(***************************************************************************)
AfterSeed(c) == IF call[c].op = "list" THEN Idle ELSE [call[c] EXCEPT !.pc = "createFind"]

\* Bound: a call that may insert starts only if the rows can still be numbered.
Room(codes) ==
  \A code \in codes :
    inserted[code] + Cardinality({d \in Calls : call[d].op \in {"list", "create"}}) < MaxInserts

ListAll(c) ==
  /\ At(c, "idle")
  /\ Room(SystemCodes)
  /\ call' = [call EXCEPT ![c] = IF seeded THEN Idle
                                 ELSE [Idle EXCEPT !.pc = "seedFind", !.op = "list"]]
  /\ UNCHANGED <<roles, inserted, grants, tokens, seeded, quiet, failures>>

\* Mutation: create does not seed first.
CreateWithoutSeed(c) ==
  /\ At(c, "idle")
  /\ \E code \in Codes, body \in Bodies :
       /\ Room(SystemCodes \cup {code})
       /\ call' = [call EXCEPT ![c] =
                  [Idle EXCEPT !.op = "create", !.id = <<code, 1>>,
                     !.row = [exists |-> TRUE, perms |-> body, system |-> FALSE],
                     !.pc = "createFind"]]
  /\ UNCHANGED <<roles, inserted, grants, tokens, seeded, quiet, failures>>

\* Only the code of id counts until the row is inserted.
Create(c) ==
  /\ At(c, "idle")
  /\ \E code \in Codes, body \in Bodies :
       /\ Room(SystemCodes \cup {code})
       /\ call' = [call EXCEPT ![c] =
                  [Idle EXCEPT !.op = "create", !.id = <<code, 1>>,
                     !.row = [exists |-> TRUE, perms |-> body, system |-> FALSE],
                     !.pc = IF seeded THEN "createFind" ELSE "seedFind"]]
  /\ UNCHANGED <<roles, inserted, grants, tokens, seeded, quiet, failures>>

SeedFind(c) ==
  LET toSeed == {code \in SystemCodes : Present(code) = {}}
  IN /\ At(c, "seedFind")
     /\ IF toSeed = {}
          THEN seeded' = TRUE /\ call' = [call EXCEPT ![c] = AfterSeed(c)]
          ELSE /\ call' = [call EXCEPT ![c].pc = "seedSave", ![c].ids = toSeed]
               /\ UNCHANGED seeded
     /\ UNCHANGED <<roles, inserted, grants, tokens, quiet, failures>>

\* save of an array runs in one transaction: all the rows or, when the unique
\* index on the code refuses one, none.
SeedSave(c) ==
  LET toSeed == call[c].ids
      new == {NextId(code) : code \in toSeed}
  IN /\ At(c, "seedSave")
     /\ \A code \in toSeed : inserted[code] < MaxInserts
     /\ call' = [call EXCEPT ![c] = [AfterSeed(c) EXCEPT !.ids = {}]]
     /\ IF \E code \in toSeed : Present(code) # {}
          THEN UNCHANGED <<roles, inserted, seeded, quiet>>
          ELSE /\ roles' = [i \in Ids |-> IF i \in new
                                            THEN [exists |-> TRUE, perms |-> Seeds[i[1]],
                                                  system |-> TRUE]
                                            ELSE roles[i]]
               /\ inserted' = [code \in Codes |->
                                 IF code \in toSeed THEN inserted[code] + 1 ELSE inserted[code]]
               /\ seeded' = TRUE
               /\ Disturb(c)
     /\ UNCHANGED <<grants, tokens, failures>>

(***************************************************************************)
(* Role rows.                                                              *)
(***************************************************************************)
CreateFind(c) ==
  /\ At(c, "createFind")
  /\ call' = [call EXCEPT ![c] = IF Present(call[c].id[1]) # {} THEN Idle
                                 ELSE [call[c] EXCEPT !.pc = "createSave"]]
  /\ UNCHANGED <<roles, inserted, grants, tokens, seeded, quiet, failures>>

\* Mutation: no unique index on the code.
CreateSaveNoIndex(c) ==
  LET code == call[c].id[1]
  IN /\ At(c, "createSave")
     /\ inserted[code] < MaxInserts
     /\ call' = [call EXCEPT ![c] = Idle]
     /\ roles' = [roles EXCEPT ![NextId(code)] = call[c].row]
     /\ inserted' = [inserted EXCEPT ![code] = @ + 1]
     /\ Disturb(c)
     /\ UNCHANGED <<grants, tokens, seeded, failures>>

\* The INSERT, which the unique index on the code may refuse.
CreateSave(c) ==
  LET code == call[c].id[1]
  IN /\ At(c, "createSave")
     /\ inserted[code] < MaxInserts
     /\ call' = [call EXCEPT ![c] = Idle]
     /\ IF Present(code) # {}
          THEN UNCHANGED <<roles, inserted, quiet>>
          ELSE /\ roles' = [roles EXCEPT ![NextId(code)] = call[c].row]
               /\ inserted' = [inserted EXCEPT ![code] = @ + 1]
               /\ Disturb(c)
     /\ UNCHANGED <<grants, tokens, seeded, failures>>

\* Mutation: a body without a permission list clears the stored one.
UpdateFindUnguarded(c) ==
  /\ At(c, "idle")
  /\ \E i \in Ids : \E perms \in Bodies \cup {{<<"undefined">>}} :
       /\ roles[i].exists
       /\ call' = [call EXCEPT ![c] = [Idle EXCEPT !.pc = "updateSave", !.id = i,
                                         !.row = [roles[i] EXCEPT !.perms = perms]]]
  /\ UNCHANGED <<roles, inserted, grants, tokens, seeded, quiet, failures>>

\* The row is loaded and the body applied: a new permission list, or other fields.
UpdateFind(c) ==
  /\ At(c, "idle")
  /\ \E i \in Ids : \E perms \in Bodies \cup {roles[i].perms} :
       /\ roles[i].exists
       /\ call' = [call EXCEPT ![c] = [Idle EXCEPT !.pc = "updateSave", !.id = i,
                                         !.row = [roles[i] EXCEPT !.perms = perms]]]
  /\ UNCHANGED <<roles, inserted, grants, tokens, seeded, quiet, failures>>

\* save writes the entity, as a new row when the old one is gone and its code free.
UpdateSave(c) ==
  LET i == call[c].id
  IN /\ At(c, "updateSave")
     /\ call' = [call EXCEPT ![c] = Idle]
     /\ IF Present(i[1]) \subseteq {i}
          THEN roles' = [roles EXCEPT ![i] = call[c].row] /\ Disturb(c)
          ELSE UNCHANGED <<roles, quiet>>
     /\ UNCHANGED <<inserted, grants, tokens, seeded, failures>>

\* Mutation: built-in roles are not refused.
DeleteFindAny(c) ==
  /\ At(c, "idle")
  /\ \E i \in Ids :
       /\ roles[i].exists
       /\ call' = [call EXCEPT ![c] = [Idle EXCEPT !.pc = "deleteGrants", !.id = i]]
  /\ UNCHANGED <<roles, inserted, grants, tokens, seeded, quiet, failures>>

DeleteFind(c) ==
  /\ At(c, "idle")
  /\ \E i \in Ids :
       /\ roles[i].exists /\ ~roles[i].system
       /\ call' = [call EXCEPT ![c] = [Idle EXCEPT !.pc = "deleteGrants", !.id = i]]
  /\ UNCHANGED <<roles, inserted, grants, tokens, seeded, quiet, failures>>

DeleteGrants(c) ==
  /\ At(c, "deleteGrants")
  /\ grants' = {g \in grants : g[2] # call[c].id}
  /\ call' = [call EXCEPT ![c].pc = "deleteRow"]
  /\ Disturb(c)
  /\ UNCHANGED <<roles, inserted, tokens, seeded, failures>>

DeleteRow(c) ==
  /\ At(c, "deleteRow")
  /\ roles' = [roles EXCEPT ![call[c].id] = NoRole]
  /\ call' = [call EXCEPT ![c] = Idle]
  /\ Disturb(c)
  /\ UNCHANGED <<inserted, grants, tokens, seeded, failures>>

(***************************************************************************)
(* Grants.  assignRole is called by an administrator and by a login, which *)
(* catches its errors and keeps an empty permission list.                  *)
(***************************************************************************)
\* An administrator picks a role from the list; it may be gone when assignRole reads it.
Assign(c) ==
  /\ At(c, "idle")
  /\ \E u \in Users, i \in Ids :
       /\ roles[i].exists
       /\ call' = [call EXCEPT ![c] = [Idle EXCEPT !.pc = "assignFind", !.op = "assign",
                                         !.user = u, !.id = i]]
  /\ UNCHANGED <<roles, inserted, grants, tokens, seeded, quiet, failures>>

\* issueSession signs a token with these permissions.
Sign(c, perms) ==
  /\ call' = [call EXCEPT ![c] = [Idle EXCEPT !.pc = "issued", !.user = call[c].user,
                                    !.row.perms = perms]]
  /\ tokens' = {t \in tokens : t[1] # call[c].user} \cup {<<call[c].user, perms>>}

Return(c) == call' = [call EXCEPT ![c] = Idle] /\ UNCHANGED tokens

\* What follows an assignment that threw.
AssignRefused(c) == IF call[c].op = "login" THEN Sign(c, {}) ELSE Return(c)

\* Mutation: the permissions of the role just granted are not put in the token.
AssignedStale(c) == IF call[c].op = "login" THEN Sign(c, {}) ELSE Return(c)

\* What follows an assignment; row holds the role that getByCode returned.
Assigned(c) == IF call[c].op = "login" THEN Sign(c, call[c].row.perms) ELSE Return(c)

AssignFind(c) ==
  /\ At(c, "assignFind")
  /\ IF roles[call[c].id].exists
       THEN call' = [call EXCEPT ![c].pc = "assignCheck"] /\ UNCHANGED tokens
       ELSE AssignRefused(c)
  /\ UNCHANGED <<roles, inserted, grants, seeded, quiet, failures>>

AssignCheck(c) ==
  /\ At(c, "assignCheck")
  /\ IF <<call[c].user, call[c].id>> \in grants
       THEN AssignRefused(c)
       ELSE call' = [call EXCEPT ![c].pc = "assignSave"] /\ UNCHANGED tokens
  /\ UNCHANGED <<roles, inserted, grants, seeded, quiet, failures>>

\* The INSERT, which the unique index on user and role may refuse.
AssignSave(c) ==
  LET g == <<call[c].user, call[c].id>>
  IN /\ At(c, "assignSave")
     /\ IF g \in grants
          THEN AssignRefused(c) /\ UNCHANGED <<grants, quiet>>
          ELSE grants' = grants \cup {g} /\ Assigned(c) /\ Disturb(c)
     /\ UNCHANGED <<roles, inserted, seeded, failures>>

RemoveUserRole(c) ==
  /\ At(c, "idle")
  /\ \E g \in grants : grants' = grants \ {g}
  /\ call' = [call EXCEPT ![c] = Idle]
  /\ Disturb(c)
  /\ UNCHANGED <<roles, inserted, tokens, seeded, failures>>

(***************************************************************************)
(* issueSession of a login or a refresh, up to the signature.  Two reads   *)
(* aggregate the permissions; when there are none, REGULAR_USER is granted *)
(* (getByCode, then assignRole).  Errors are caught all along.             *)
(***************************************************************************)
Login(c) ==
  /\ At(c, "idle")
  /\ \E u \in Users :
       call' = [call EXCEPT ![c] = [Idle EXCEPT !.pc = "aggregate", !.op = "login", !.user = u]]
  /\ quiet' = quiet \cup {c}
  /\ UNCHANGED <<roles, inserted, grants, tokens, seeded, failures>>

\* Both callers of aggregateUserPermissions read the grants, then the roles.
Aggregate(c) ==
  /\ At(c, "aggregate")
  /\ call' = [call EXCEPT ![c].ids = GrantsOf(call[c].user),
                          ![c].pc = IF GrantsOf(call[c].user) = {}
                                      THEN "findRegular" ELSE "aggregateRoles"]
  /\ UNCHANGED <<roles, inserted, grants, tokens, seeded, quiet, failures>>

AggregateRoles(c) ==
  LET perms == Merged(call[c].ids)
  IN /\ At(c, "aggregateRoles")
     /\ IF perms = {}
          THEN call' = [call EXCEPT ![c].pc = "findRegular", ![c].ids = {}] /\ UNCHANGED tokens
          ELSE Sign(c, perms)
     /\ UNCHANGED <<roles, inserted, grants, seeded, quiet, failures>>

FindRegular(c) ==
  /\ At(c, "findRegular")
  /\ IF Present(RegularUser) = {}
       THEN Sign(c, {})
       ELSE LET i == CHOOSE j \in Present(RegularUser) : TRUE
            IN /\ call' = [call EXCEPT ![c].pc = "assignFind", ![c].id = i, ![c].row = roles[i]]
               /\ UNCHANGED tokens
  /\ UNCHANGED <<roles, inserted, grants, seeded, quiet, failures>>

(***************************************************************************)
(* PermissionGuard.canActivate for a client's request: the two reads of    *)
(* aggregateUserPermissions, then the match.                               *)
(***************************************************************************)
Check(c) ==
  /\ At(c, "idle")
  /\ \E t \in tokens, required \in Required :
       call' = [call EXCEPT ![c] = [Idle EXCEPT !.pc = "checkGrants", !.user = t[1],
                                      !.row.perms = t[2], !.required = required]]
  /\ quiet' = quiet \cup {c}
  /\ UNCHANGED <<roles, inserted, grants, tokens, seeded, failures>>

Verdict(c, perms) ==
  call' = [call EXCEPT ![c] = [Idle EXCEPT !.user = call[c].user, !.required = call[c].required,
             !.pc = IF Match(perms, call[c].required) THEN "admitted" ELSE "refused"]]

\* Mutation: the permissions claim of the token decides.
CheckGrantsByToken(c) ==
  /\ At(c, "checkGrants")
  /\ Verdict(c, call[c].row.perms)
  /\ UNCHANGED <<roles, inserted, grants, tokens, seeded, quiet, failures>>

CheckGrants(c) ==
  /\ At(c, "checkGrants")
  /\ IF GrantsOf(call[c].user) = {}
       THEN Verdict(c, {})
       ELSE call' = [call EXCEPT ![c].pc = "checkRoles", ![c].ids = GrantsOf(call[c].user)]
  /\ UNCHANGED <<roles, inserted, grants, tokens, seeded, quiet, failures>>

CheckRoles(c) ==
  /\ At(c, "checkRoles")
  /\ Verdict(c, Merged(call[c].ids))
  /\ UNCHANGED <<roles, inserted, grants, tokens, seeded, quiet, failures>>

\* The rest of the request changes nothing here.
Answer(c) ==
  /\ call[c].pc \in {"issued", "admitted", "refused"}
  /\ call' = [call EXCEPT ![c] = Idle]
  /\ quiet' = quiet \ {c}
  /\ UNCHANGED <<roles, inserted, grants, tokens, seeded, failures>>

(***************************************************************************)
(* Failures.                                                               *)
(***************************************************************************)

\* A rejected await: seeding, a login and a check catch the error (the check
\* falls back to the claim of the token), any other call ends.
AwaitFails(c) ==
  /\ failures < MaxFailures
  /\ failures' = failures + 1
  /\ quiet' = quiet \ {c}
  /\ \/ /\ call[c].pc \in {"seedFind", "seedSave"}
        /\ call' = [call EXCEPT ![c] = AfterSeed(c)]
        /\ UNCHANGED tokens
     \/ /\ call[c].pc \in {"aggregate", "aggregateRoles"}
        /\ call' = [call EXCEPT ![c].pc = "findRegular", ![c].ids = {}]
        /\ UNCHANGED tokens
     \/ /\ call[c].pc \in {"checkGrants", "checkRoles"}
        /\ Verdict(c, call[c].row.perms)
        /\ UNCHANGED tokens
     \/ /\ At(c, "findRegular")
        /\ Sign(c, {})
     \/ /\ call[c].pc \in {"assignFind", "assignCheck", "assignSave"}
        /\ AssignRefused(c)
     \/ /\ call[c].pc \in {"createFind", "createSave", "updateSave", "deleteGrants", "deleteRow"}
        /\ Return(c)
  /\ UNCHANGED <<roles, inserted, grants, seeded>>

Restart ==
  /\ failures < MaxFailures
  /\ failures' = failures + 1
  /\ seeded' = FALSE
  /\ call' = [c \in Calls |-> Idle]
  /\ quiet' = {}
  /\ UNCHANGED <<roles, inserted, grants, tokens>>

Step(c) ==
  \/ ListAll(c) \/ Create(c) \/ SeedFind(c) \/ SeedSave(c) \/ CreateFind(c) \/ CreateSave(c)
  \/ UpdateFind(c) \/ UpdateSave(c)
  \/ DeleteFind(c) \/ DeleteGrants(c) \/ DeleteRow(c)
  \/ Assign(c) \/ AssignFind(c) \/ AssignCheck(c) \/ AssignSave(c) \/ RemoveUserRole(c)
  \/ Login(c) \/ Aggregate(c) \/ AggregateRoles(c) \/ FindRegular(c)
  \/ Check(c) \/ CheckGrants(c) \/ CheckRoles(c) \/ Answer(c)

Next == Restart \/ \E c \in Calls : Step(c) \/ AwaitFails(c)

Spec == Init /\ [][Next]_vars

(***************************************************************************)
(* Properties.                                                             *)
(***************************************************************************)

\* Two rows never share a code, though create and the seeding look first and
\* insert later: the unique index decides the race.
CodesUnique == \A code \in Codes : \A i, j \in Present(code) : i = j

\* A built-in role, once seeded, is never deleted and keeps its flag, whatever
\* deletions, late saves and seedings run at once.
SystemRolesStay ==
  [][\A i \in Ids : roles[i].system => roles'[i].system /\ roles'[i].exists]_vars

\* "The code of a built-in role cannot be created again" (role.service.ts:65):
\* without failures, every row with a built-in code is the seeded one, even when
\* an administrator creates roles in a new database.
SystemCodesReserved ==
  failures = 0 => \A i \in Ids : roles[i].exists /\ i[1] \in SystemCodes => roles[i].system

Entitled(u, required) == Match(Merged(GrantsOf(u)), required)

\* "Changes of roles take effect at once" (permission.guard.ts:42): a request is
\* admitted exactly when the user's present roles entitle it, if no role or grant
\* was written while the guard read them and no read failed.
GuardIsCurrent ==
  \A c \in quiet : /\ At(c, "admitted") => Entitled(call[c].user, call[c].required)
                   /\ At(c, "refused") => ~Entitled(call[c].user, call[c].required)

\* The permissions claim of a token agrees with the roles the user then has, the
\* REGULAR_USER that the login itself granted included, if no other call wrote a
\* role or grant meanwhile and no await failed.
TokenIsCurrent ==
  \A c \in quiet : At(c, "issued") => call[c].row.perms = Merged(GrantsOf(call[c].user))
===============================================================================
