----------------------------- MODULE GuardsProofs -----------------------------
(***************************************************************************)
(* The decision of the four guards is just, for every number of requests,  *)
(* every set of permissions that roles may add up to, and every change     *)
(* made between two reads.                                                 *)
(***************************************************************************)
EXTENDS Guards, TLAPS

-----------------------------------------------------------------------------
(***************************************************************************)
(* The routes: what their declarations have in common                      *)
(***************************************************************************)
Declared(route) ==
  /\ route.level \in {"admin", "client", "public"}
  /\ route.active = FALSE
  /\ route.level = "public" => route.needs = ""

LEMMA DeclaredByLevel ==
  ASSUME NEW needs, NEW handlers
  PROVE  /\ \A route \in Admin(needs, handlers) : Declared(route)
         /\ \A route \in Client(needs, handlers) : Declared(route)
         /\ \A route \in Public(handlers) : Declared(route)
BY DEF Admin, Client, Public, Declared

\* Every controller's routes, in groups the prover unfolds quickly.
LEMMA AdminRoutesDeclaredAtoM ==
  \A route \in AdminApiMonitorRoutes \cup AdminAuthRoutes \cup
                AdminBannerRoutes \cup AdminCourierCompanyRoutes \cup
                AdminDashboardRoutes \cup AdminImageRoutes \cup
                AdminMemberLevelRoutes \cup AdminMemberRoutes \cup
                AdminNotificationRoutes \cup AdminPaymentConfigRoutes :
    Declared(route)
BY DeclaredByLevel, Zenon
   DEF AdminApiMonitorRoutes, AdminAuthRoutes, AdminBannerRoutes,
       AdminCourierCompanyRoutes, AdminDashboardRoutes, AdminImageRoutes,
       AdminMemberLevelRoutes, AdminMemberRoutes, AdminNotificationRoutes,
       AdminPaymentConfigRoutes

LEMMA AdminRoutesDeclaredPtoW ==
  \A route \in AdminPaymentMethodRoutes \cup AdminPaymentNotifyRoutes \cup
                AdminPaymentTransactionRoutes \cup AdminRegionRoutes \cup
                AdminRoleRoutes \cup AdminUserRoleRoutes \cup
                AdminSessionRoutes \cup AdminStorageRoutes \cup
                AdminSystemConfigRoutes \cup AdminWithdrawalRoutes \cup
                AdminRoutes :
    Declared(route)
BY DeclaredByLevel, Zenon
   DEF AdminPaymentMethodRoutes, AdminPaymentNotifyRoutes,
       AdminPaymentTransactionRoutes, AdminRegionRoutes, AdminRoleRoutes,
       AdminUserRoleRoutes, AdminSessionRoutes, AdminStorageRoutes,
       AdminSystemConfigRoutes, AdminWithdrawalRoutes, AdminRoutes

LEMMA ClientRoutesDeclared ==
  \A route \in ClientAuthRoutes \cup ClientCourierCompanyRoutes \cup
                ClientMemberLevelRoutes \cup ClientMemberRoutes \cup
                ClientNotificationRoutes \cup ClientPaymentMethodRoutes \cup
                ClientStorageRoutes \cup ClientUserRoutes \cup
                ClientWalletRoutes \cup ClientRoutes \cup
                ClientSecurityRoutes :
    Declared(route)
BY DeclaredByLevel, Zenon
   DEF ClientAuthRoutes, ClientCourierCompanyRoutes, ClientMemberLevelRoutes,
       ClientMemberRoutes, ClientNotificationRoutes,
       ClientPaymentMethodRoutes, ClientStorageRoutes, ClientUserRoutes,
       ClientWalletRoutes, ClientRoutes, ClientSecurityRoutes

LEMMA PublicRoutesDeclared ==
  \A route \in OssRoutes \cup PublicAuthRoutes \cup
                PublicBannerRoutes \cup PublicPaymentMethodRoutes \cup
                PublicRegionRoutes \cup PublicRuleRoutes \cup
                PublicSearchRoutes \cup PublicSystemConfigRoutes \cup
                PublicRoutes :
    Declared(route)
BY DeclaredByLevel, Zenon
   DEF OssRoutes, PublicAuthRoutes, PublicBannerRoutes,
       PublicPaymentMethodRoutes, PublicRegionRoutes, PublicRuleRoutes,
       PublicSearchRoutes, PublicSystemConfigRoutes, PublicRoutes

LEMMA RoutesDeclared == \A route \in Routes : Declared(route)
BY AdminRoutesDeclaredAtoM, AdminRoutesDeclaredPtoW, ClientRoutesDeclared,
   PublicRoutesDeclared DEF Routes
-----------------------------------------------------------------------------
(***************************************************************************)
(* The invariant: a request that has not been refused is of its route's    *)
(* level and has seen the present status and permissions, and a client     *)
(* that is past UserStatusGuard has had a usable account.                  *)
(***************************************************************************)
Passing == {"status", "active", "permission"}

HadAccount(q) == \E pair \in q.seen : pair[1] \notin {"missing", "BANNED"}

Decided(q) ==
  /\ q.at \in Passing => q.access.level \in {"public", q.token.role}
  /\ q.at \in {"active", "permission"} /\ q.access.level = "client" => HadAccount(q)
  /\ q.at = "entered" => MayEnter(q)
  /\ q.at = "refused" => MayBeRefused(q)

Inv ==
  /\ TypeOK
  /\ request \in [Requests -> Local]
  /\ \A r \in Requests : /\ request[r].at \in Passing => <<status, granted>> \in request[r].seen
                         /\ Decided(request[r])

LEMMA AccessDeclared ==
  ASSUME NEW access \in Accesses PROVE Declared(access)
<1>1. PICK route \in Routes : access = Access(route)
  BY DEF Accesses
<1>2. access.level = route.level /\ access.active = route.active /\ access.needs = route.needs
  BY <1>1 DEF Access
<1>3. QED
  BY <1>2, RoutesDeclared DEF Declared

LEMMA TokenRoles ==
  ASSUME NEW token \in Tokens PROVE token.role \in {"none", "admin", "client"}
BY DEF Tokens, NoToken

LEMMA LocalFields ==
  ASSUME NEW q \in Local, q.at # "idle"
  PROVE  /\ q.access \in Accesses /\ q.token \in Tokens
         /\ q.seen \subseteq Statuses \X Grants /\ q.fallback \in BOOLEAN
         /\ q = [at |-> q.at, access |-> q.access, token |-> q.token, seen |-> q.seen,
                 fallback |-> q.fallback]
BY DEF Local

LEMMA TypedRequests ==
  ASSUME NEW requests \in [Requests -> Local]
  PROVE  \A r \in Requests :
           \/ requests[r] = [at |-> "idle"]
           \/ /\ requests[r].at \in {"status", "active", "permission"} \cup Outcomes
              /\ requests[r].access \in Accesses /\ requests[r].token \in Tokens
              /\ requests[r].seen \subseteq Statuses \X Grants /\ requests[r].fallback \in BOOLEAN
BY DEF Local, Outcomes

\* A guard that decides about a request leaves the rest of it and the others alone.
Decide(q, at, fallback) ==
  [at |-> at, access |-> q.access, token |-> q.token, seen |-> q.seen, fallback |-> fallback]

LEMMA GoOn ==
  ASSUME Inv, NEW r \in Requests, request[r].at \in Passing,
         NEW at \in Passing \cup Outcomes, NEW fallback \in BOOLEAN,
         request' = [request EXCEPT ![r] = Decide(request[r], at, fallback)],
         UNCHANGED <<status, granted>>, changes' \in 0 .. MaxChanges, failures' \in 0 .. MaxFailures,
         Decided(Decide(request[r], at, fallback))
  PROVE  Inv'
<1> DEFINE q == Decide(request[r], at, fallback)
<1>1. request[r] \in Local /\ request[r].at # "idle"
  BY DEF Inv, Passing
<1>2. q \in Local /\ q.seen = request[r].seen
  BY <1>1, LocalFields DEF Local, Passing, Decide
<1>3. Decided(q) /\ request' = [request EXCEPT ![r] = q]
  OBVIOUS
<1> HIDE DEF q
<1>4. request' \in [Requests -> Local]
  BY <1>2, <1>3 DEF Inv
<1>5. \A d \in Requests : request'[d] = IF d = r THEN q ELSE request[d]
  BY <1>3 DEF Inv
<1>6. \A d \in Requests : /\ request'[d].at \in Passing => <<status', granted'>> \in request'[d].seen
                          /\ Decided(request'[d])
  BY <1>2, <1>3, <1>5 DEF Inv
<1>7. TypeOK'
  BY <1>4, TypedRequests DEF Inv, TypeOK
<1>8. QED
  BY <1>4, <1>6, <1>7 DEF Inv

\* The two ways of a guard to write its decision.
LEMMA Writing ==
  ASSUME Inv, NEW r \in Requests, request[r].at # "idle", NEW at
  PROVE  Go(r, at) => request' = [request EXCEPT ![r] = Decide(request[r], at, request[r].fallback)]
<1>1. request \in [Requests -> Local] /\ request[r] \in Local
  BY DEF Inv
<1>2. request[r] = [at |-> request[r].at, access |-> request[r].access, token |-> request[r].token,
                    seen |-> request[r].seen, fallback |-> request[r].fallback]
  BY <1>1, LocalFields
<1>3. [request[r] EXCEPT !.at = at] = Decide(request[r], at, request[r].fallback)
  BY <1>2 DEF Decide
<1>4. QED
  BY <1>1, <1>3 DEF Go

LEMMA WritingBoth ==
  ASSUME Inv, NEW r \in Requests, request[r].at # "idle", NEW at, NEW fallback,
         request' = [request EXCEPT ![r].fallback = fallback, ![r].at = at]
  PROVE  request' = [request EXCEPT ![r] = Decide(request[r], at, fallback)]
<1>1. request \in [Requests -> Local] /\ request[r] \in Local
  BY DEF Inv
<1>2. PICK was, access, token, seen, before :
        request[r] = [at |-> was, access |-> access, token |-> token, seen |-> seen,
                      fallback |-> before]
  BY <1>1, LocalFields
<1>3. [[request[r] EXCEPT !.fallback = fallback] EXCEPT !.at = at]
        = [at |-> at, access |-> access, token |-> token, seen |-> seen, fallback |-> fallback]
  <2>1. [request[r] EXCEPT !.fallback = fallback]
          = [at |-> was, access |-> access, token |-> token, seen |-> seen, fallback |-> fallback]
    BY <1>2
  <2>2. ASSUME NEW q, q = [at |-> was, access |-> access, token |-> token, seen |-> seen,
                           fallback |-> fallback]
        PROVE  [q EXCEPT !.at = at]
                = [at |-> at, access |-> access, token |-> token, seen |-> seen, fallback |-> fallback]
    BY <2>2
  <2>3. QED
    BY <2>1, <2>2, Zenon
<1>4. Decide(request[r], at, fallback)
        = [at |-> at, access |-> access, token |-> token, seen |-> seen, fallback |-> fallback]
  BY <1>2 DEF Decide
<1>5. [request EXCEPT ![r].fallback = fallback, ![r].at = at]
        = [[request EXCEPT ![r].fallback = fallback] EXCEPT ![r].at = at]
  BY Zenon
<1>6. request' = [request EXCEPT ![r] = [[request[r] EXCEPT !.fallback = fallback] EXCEPT !.at = at]]
  BY <1>1, <1>5
<1>7. QED
  BY <1>3, <1>4, <1>6

-----------------------------------------------------------------------------
(***************************************************************************)
(* Every step keeps it                                                     *)
(***************************************************************************)
LEMMA InvInit ==
  ASSUME MaxChanges \in Nat, MaxFailures \in Nat PROVE Init => Inv
<1> SUFFICES ASSUME Init PROVE Inv
  OBVIOUS
<1>1. request \in [Requests -> Local]
  BY DEF Init, Local
<1>2. \A r \in Requests : request[r] = [at |-> "idle"]
  BY DEF Init
<1>3. QED
  BY <1>1, <1>2 DEF Init, Inv, TypeOK, Passing, Decided

LEMMA ArriveStep ==
  ASSUME Inv, NEW r \in Requests, NEW access \in Accesses, NEW token \in Tokens,
         Arrive(r, access, token)
  PROVE  Inv'
<1> DEFINE at == IF access.level \in {"public", token.role} THEN "status" ELSE "refused"
           q == [at |-> at, access |-> access, token |-> token, seen |-> {<<status, granted>>},
                 fallback |-> FALSE]
<1>1. request' = [request EXCEPT ![r] = q] /\ UNCHANGED <<status, granted, changes, failures>>
  BY DEF Arrive
<1>2. q \in Local
  BY DEF Inv, TypeOK, Local, Outcomes
<1>3. Decided(q)
  BY DEF Decided, Passing, MayBeRefused
<1>4. <<status, granted>> \in q.seen
  OBVIOUS
<1> HIDE DEF q
<1>5. request' \in [Requests -> Local]
  BY <1>1, <1>2 DEF Inv
<1>6. \A d \in Requests : request'[d] = IF d = r THEN q ELSE request[d]
  BY <1>1 DEF Inv
<1>7. TypeOK'
  BY <1>1, <1>5, TypedRequests DEF Inv, TypeOK
<1>8. QED
  BY <1>1, <1>3, <1>4, <1>5, <1>6, <1>7 DEF Inv

\* What is known of a request that a guard is about to decide.
LEMMA AtGuard ==
  ASSUME Inv, NEW r \in Requests, request[r].at \in Passing
  PROVE  /\ request[r].fallback \in BOOLEAN
         /\ Declared(request[r].access)
         /\ request[r].token.role \in {"none", "admin", "client"}
         /\ request[r].access.level \in {"public", request[r].token.role}
         /\ <<status, granted>> \in request[r].seen
BY LocalFields, AccessDeclared, TokenRoles DEF Inv, Passing, Decided

LEMMA StatusStep ==
  ASSUME Inv, NEW r \in Requests, CheckStatus(r) PROVE Inv'
<1> DEFINE q == request[r]
           refuse == q.access.level = "client" /\ Barred(status)
           at == IF refuse THEN "refused" ELSE "active"
<1>1. q.at = "status" /\ Go(r, at) /\ UNCHANGED <<status, granted, changes, failures>>
  BY DEF CheckStatus, At
<1>2. request' = [request EXCEPT ![r] = Decide(q, at, q.fallback)]
  BY <1>1, Writing
<1>3. Decided(Decide(q, at, q.fallback))
  <2>1. CASE refuse
    <3>1. MayBeRefused(Decide(q, "refused", q.fallback))
      BY <1>1, <2>1, AtGuard DEF MayBeRefused, Decide, Barred, Passing
    <3>2. QED
      BY <2>1, <3>1 DEF Decided, Decide, Passing
  <2>2. CASE ~ refuse
    <3>1. q.access.level = "client" => HadAccount(q)
      BY <1>1, <2>2, AtGuard DEF HadAccount, Barred, Passing
    <3>2. QED
      BY <1>1, <2>2, <3>1, AtGuard DEF Decided, Decide, Passing, HadAccount
  <2>3. QED
    BY <2>1, <2>2
<1>4. q.fallback \in BOOLEAN /\ at \in Passing \cup Outcomes /\ q.at \in Passing
  BY <1>1, AtGuard DEF Passing, Outcomes
<1>5. changes' \in 0 .. MaxChanges /\ failures' \in 0 .. MaxFailures
  BY <1>1 DEF Inv, TypeOK
<1> HIDE DEF at
<1>6. QED
  BY <1>1, <1>2, <1>3, <1>4, <1>5, GoOn

LEMMA ActiveStep ==
  ASSUME Inv, NEW r \in Requests, CheckActive(r) PROVE Inv'
<1> DEFINE q == request[r]
<1>1. q.at = "active" /\ UNCHANGED <<status, granted, changes, failures>>
  BY DEF CheckActive, At
<1>2. q.access.active = FALSE
  BY <1>1, AtGuard DEF Declared, Passing
<1>3. Go(r, "permission")
  BY <1>2 DEF CheckActive
<1>4. request' = [request EXCEPT ![r] = Decide(q, "permission", q.fallback)]
  BY <1>1, <1>3, Writing
<1>5. Decided(Decide(q, "permission", q.fallback))
  BY <1>1 DEF Inv, Decided, Decide, Passing, HadAccount
<1>6. q.fallback \in BOOLEAN /\ "permission" \in Passing \cup Outcomes /\ q.at \in Passing
  BY <1>1, AtGuard DEF Passing
<1>7. changes' \in 0 .. MaxChanges /\ failures' \in 0 .. MaxFailures
  BY <1>1 DEF Inv, TypeOK
<1>8. QED
  BY <1>1, <1>4, <1>5, <1>6, <1>7, GoOn

\* A request that PermissionGuard lets pass, or refuses, by the permissions p.
LEMMA PermissionDecides ==
  ASSUME Inv, NEW r \in Requests, At(r, "permission"), NEW p, NEW fallback \in BOOLEAN,
         \/ \E s : <<s, p>> \in request[r].seen
         \/ fallback /\ p = request[r].token.permissions
  PROVE  /\ Exempt(r) \/ request[r].access.needs \in p
              => Decided(Decide(request[r], "entered", fallback))
         /\ ~ (Exempt(r) \/ request[r].access.needs \in p)
              => Decided(Decide(request[r], "refused", fallback))
<1> DEFINE q == request[r]
<1>1. q.at = "permission" /\ q.at \in Passing
  BY DEF At, Passing
<1>2. /\ Declared(q.access) /\ q.token.role \in {"none", "admin", "client"}
      /\ q.access.level \in {"public", q.token.role}
      /\ q.access.level = "client" => HadAccount(q)
  BY <1>1, AtGuard DEF Inv, Decided
<1>3. ASSUME Exempt(r) \/ q.access.needs \in p
      PROVE  Decided(Decide(q, "entered", fallback))
  <2>1. q.access.needs = "" \/ q.token.role = "admin" \/ q.access.needs \in p
    BY <1>3 DEF Exempt
  <2>2. ASSUME q.access.level # "public", q.token.role = "client"
        PROVE  \/ q.access.needs = "" \/ \E pair \in q.seen : q.access.needs \in pair[2]
               \/ fallback /\ q.access.needs \in q.token.permissions
    BY <2>1, <2>2
  <2>3. MayEnter(Decide(q, "entered", fallback))
    BY <1>2, <2>2 DEF MayEnter, Decide, HadAccount
  <2>4. QED
    BY <2>3 DEF Decided, Decide, Passing
<1>4. ASSUME ~ (Exempt(r) \/ q.access.needs \in p)
      PROVE  Decided(Decide(q, "refused", fallback))
  <2>1. q.access.needs # "" /\ q.token.role # "admin" /\ q.access.needs \notin p
    BY <1>4 DEF Exempt
  <2>2. q.access.level # "public" /\ q.token.role = "client"
    BY <1>2, <2>1 DEF Declared
  <2>3. MayBeRefused(Decide(q, "refused", fallback))
    BY <2>1, <2>2 DEF MayBeRefused, Decide
  <2>4. QED
    BY <2>3 DEF Decided, Decide, Passing
<1>5. QED
  BY <1>3, <1>4

LEMMA PermissionStep ==
  ASSUME Inv, NEW r \in Requests, CheckPermission(r) PROVE Inv'
<1> DEFINE q == request[r]
           at == IF Exempt(r) \/ q.access.needs \in granted THEN "entered" ELSE "refused"
<1>1. At(r, "permission") /\ Go(r, at) /\ UNCHANGED <<status, granted, changes, failures>>
  BY DEF CheckPermission
<1>2. q.at \in Passing /\ q.at # "idle"
  BY <1>1 DEF At, Passing
<1>3. q.fallback \in BOOLEAN /\ <<status, granted>> \in q.seen
  BY <1>2, AtGuard
<1>4. Decided(Decide(q, at, q.fallback))
  BY <1>1, <1>3, PermissionDecides
<1>5. at \in Passing \cup Outcomes
  BY DEF Outcomes
<1> HIDE DEF at
<1>6. request' = [request EXCEPT ![r] = Decide(q, at, q.fallback)]
  BY <1>1, <1>2, Writing
<1>7. changes' \in 0 .. MaxChanges /\ failures' \in 0 .. MaxFailures
  BY <1>1 DEF Inv, TypeOK
<1>8. QED
  BY <1>1, <1>2, <1>3, <1>4, <1>5, <1>6, <1>7, GoOn

LEMMA FallBackStep ==
  ASSUME MaxFailures \in Nat, Inv, NEW r \in Requests, FallBack(r) PROVE Inv'
<1> DEFINE q == request[r]
           at == IF q.access.needs \in q.token.permissions THEN "entered" ELSE "refused"
<1>1. /\ At(r, "permission") /\ ~ Exempt(r) /\ failures < MaxFailures /\ failures' = failures + 1
      /\ request' = [request EXCEPT ![r].fallback = TRUE, ![r].at = at]
      /\ UNCHANGED <<status, granted, changes>>
  BY DEF FallBack
<1>2. q.at \in Passing /\ q.at # "idle"
  BY <1>1 DEF At, Passing
<1>3. Decided(Decide(q, at, TRUE))
  BY <1>1, PermissionDecides
<1>4. at \in Passing \cup Outcomes
  BY DEF Outcomes
<1> HIDE DEF at
<1>5. request' = [request EXCEPT ![r] = Decide(q, at, TRUE)]
  BY <1>1, <1>2, WritingBoth
<1>6. changes' \in 0 .. MaxChanges /\ failures' \in 0 .. MaxFailures
  BY <1>1 DEF Inv, TypeOK
<1>7. QED
  BY <1>1, <1>2, <1>3, <1>4, <1>5, <1>6, GoOn

LEMMA FailureStep ==
  ASSUME MaxFailures \in Nat, Inv, NEW r \in Requests, StatusFails(r) PROVE Inv'
<1> DEFINE q == request[r]
<1>1. /\ At(r, "status") /\ failures < MaxFailures /\ failures' = failures + 1
      /\ Go(r, "failed") /\ UNCHANGED <<status, granted, changes>>
  BY DEF StatusFails
<1>2. q.at \in Passing /\ q.at # "idle"
  BY <1>1 DEF At, Passing
<1>3. Decided(Decide(q, "failed", q.fallback))
  BY DEF Decided, Decide, Passing
<1>4. request' = [request EXCEPT ![r] = Decide(q, "failed", q.fallback)]
  BY <1>1, <1>2, Writing
<1>5. "failed" \in Passing \cup Outcomes /\ q.fallback \in BOOLEAN
  BY <1>2, AtGuard DEF Outcomes
<1>6. changes' \in 0 .. MaxChanges /\ failures' \in 0 .. MaxFailures
  BY <1>1 DEF Inv, TypeOK
<1>7. QED
  BY <1>1, <1>2, <1>3, <1>4, <1>5, <1>6, GoOn

\* A change adds what it brings to what the requests under way have seen; what
\* they had seen before still justifies their way so far.
LEMMA ChangeStep ==
  ASSUME MaxChanges \in Nat, Inv, NEW s \in Statuses, NEW g \in Grants, Change(s, g) PROVE Inv'
<1> DEFINE Told(q) == IF q.at \in Passing THEN [q EXCEPT !.seen = @ \cup {<<s, g>>}] ELSE q
<1>1. /\ status' = s /\ granted' = g /\ changes < MaxChanges /\ changes' = changes + 1
      /\ request' = [r \in Requests |-> Told(request[r])] /\ UNCHANGED failures
  BY DEF Change, Passing
<1>2. ASSUME NEW r \in Requests
      PROVE  /\ request'[r] \in Local
             /\ request'[r].at \in Passing => <<s, g>> \in request'[r].seen
             /\ Decided(request'[r])
  <2>1. request[r] \in Local /\ Decided(request[r])
    BY DEF Inv
  <2>2. CASE request[r].at \notin Passing
    BY <1>1, <2>1, <2>2
  <2>3. CASE request[r].at \in Passing
    <3>0. request'[r] = [request[r] EXCEPT !.seen = request[r].seen \cup {<<s, g>>}]
      BY <1>1, <2>3
    <3>1. request'[r] = [at |-> request[r].at, access |-> request[r].access,
                         token |-> request[r].token, seen |-> request[r].seen \cup {<<s, g>>},
                         fallback |-> request[r].fallback]
      BY <2>1, <2>3, <3>0, LocalFields DEF Passing
    <3>2. request'[r] \in Local
      BY <2>1, <2>3, <3>1, LocalFields DEF Local, Passing
    <3>3. Decided(request'[r])
      BY <2>1, <2>3, <3>1 DEF Decided, Passing, HadAccount
    <3>4. QED
      BY <3>1, <3>2, <3>3
  <2>4. QED
    BY <2>2, <2>3
<1>3. request' \in [Requests -> Local]
  BY <1>1, <1>2
<1>4. changes' \in 0 .. MaxChanges
  BY <1>1 DEF Inv, TypeOK
<1>5. TypeOK'
  BY <1>1, <1>3, <1>4, TypedRequests DEF Inv, TypeOK
<1>6. QED
  BY <1>1, <1>2, <1>3, <1>5 DEF Inv

LEMMA InvStep ==
  ASSUME MaxChanges \in Nat, MaxFailures \in Nat PROVE Inv /\ [Next]_vars => Inv'
<1> SUFFICES ASSUME Inv, [Next]_vars PROVE Inv'
  OBVIOUS
<1>1. status \in Statuses /\ granted \in Grants
  BY DEF Inv, TypeOK
<1>2. CASE UNCHANGED vars
  <2>1. TypeOK'
    BY <1>2 DEF vars, Inv, TypeOK
  <2>2. \A r \in Requests : Decided(request'[r])
    BY <1>2 DEF vars, Inv
  <2>3. QED
    BY <1>2, <2>1, <2>2 DEF vars, Inv
<1>3. CASE Next
  BY <1>1, <1>3, ArriveStep, StatusStep, ActiveStep, PermissionStep, FallBackStep, FailureStep,
     ChangeStep DEF Next
<1>4. QED
  BY <1>2, <1>3

-----------------------------------------------------------------------------
\* The user's row, the permissions and the requests keep their types.
THEOREM TypeCorrect ==
  ASSUME MaxChanges \in Nat, MaxFailures \in Nat PROVE Spec => []TypeOK
<1>1. Inv => TypeOK
  BY DEF Inv
<1>2. QED
  BY <1>1, InvInit, InvStep, PTL DEF Spec

\* Whoever enters a handler was, at some moment of the request, let in by the
\* account's status and at some moment by its roles; whoever is refused was not.
THEOREM DecisionIsJustCorrect ==
  ASSUME MaxChanges \in Nat, MaxFailures \in Nat PROVE Spec => []DecisionIsJust
<1>1. Inv => DecisionIsJust
  BY DEF Inv, Decided, DecisionIsJust, At
<1>2. QED
  BY <1>1, InvInit, InvStep, PTL DEF Spec
===============================================================================
