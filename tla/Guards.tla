-------------------------------- MODULE Guards --------------------------------
(***************************************************************************)
(* What a request passes on its way to a handler: the four global guards   *)
(* in the order of app.module.ts, AccessLevelGuard, UserStatusGuard,       *)
(* ActiveAccountGuard and PermissionGuard, and for every controller the    *)
(* access its routes declare.  The guards read the user's status twice and *)
(* the permissions once, each after another await, while administrators    *)
(* change both.                                                            *)
(*                                                                         *)
(* A verified token is its role and its permissions; PermissionGuard's     *)
(* query is one step here (module Roles splits it), and a set of           *)
(* permissions is the set of those it matches.                             *)
(***************************************************************************)
EXTENDS Naturals

CONSTANTS
  Requests,    \* requests, of one user or of administrators; none changes what another reads
  Grants,      \* sets of permissions that roles may add up to
  MaxChanges,  \* bound on changes of the user's status or permissions
  MaxFailures  \* bound on failed reads

(***************************************************************************)
(* The routes: @RequireAccessLevel, @RequirePermission ("" for none) and   *)
(* the handler.  No route has @RequireActiveAccount.                       *)
(***************************************************************************)
Admin(needs, handlers) == [level : {"admin"}, needs : {needs}, active : {FALSE}, handler : handlers]
Client(needs, handlers) == [level : {"client"}, needs : {needs}, active : {FALSE}, handler : handlers]
Public(handlers) == [level : {"public"}, needs : {""}, active : {FALSE}, handler : handlers]

AdminApiMonitorRoutes == Admin("admin:system", {
  "getLogs", "getSummary", "getEndpoints"})
AdminAuthRoutes == Public({"login"})
AdminBannerRoutes == Admin("admin:content", {
  "listBanners", "getBannerDetail", "createBanner", "updateBanner",
  "deleteBanner"})
AdminCourierCompanyRoutes == Admin("admin:courier", {
  "listCompanies", "initFromXlsx", "getCompany", "createCompany",
  "updateCompany", "deleteCompany"})
AdminDashboardRoutes == Admin("", {"getStats", "getTrend"})
AdminImageRoutes == Admin("admin:content", {
  "getGroupList", "createGroup", "updateGroup", "deleteGroup",
  "getImageList", "createImage", "deleteImage"})
AdminMemberLevelRoutes == Admin("admin:system", {
  "list", "create", "update", "delete"})
AdminMemberRoutes == Admin("admin:system", {
  "listTasks", "createTask", "updateTask", "deleteTask"})
AdminNotificationRoutes == Admin("admin:content", {
  "listNotifications", "createNotification", "updateNotification",
  "deleteNotification"})
AdminPaymentConfigRoutes == Admin("admin:payment", {
  "getConfig", "getConfigDetail", "updateConfig"})
AdminPaymentMethodRoutes == Admin("admin:system", {
  "list", "getDetail", "create", "update", "toggle", "delete"})
AdminPaymentNotifyRoutes == Admin("admin:payment", {"list", "getDetail"})
AdminPaymentTransactionRoutes == Admin("admin:payment", {"list", "getDetail"})
AdminRegionRoutes == Admin("admin:system", {
  "getRegions", "initRegions", "toggleRegion", "toggleRemote"})
AdminRoleRoutes == Admin("admin:system", {
  "list", "getById", "create", "update", "delete"})
AdminUserRoleRoutes == Admin("admin:system", {
  "listUserRoles", "assignRole", "removeUserRole"})
AdminSessionRoutes == Admin("admin:system", {"getRemainingTime"})
AdminStorageRoutes == Admin("admin:system", {
  "getConfig", "updateConfig", "uploadFile"})
AdminSystemConfigRoutes == Admin("admin:system", {
  "getConfig", "updateConfig", "getQuickNavs", "createQuickNav",
  "updateQuickNav", "deleteQuickNav"})
AdminWithdrawalRoutes == Admin("admin:withdrawal", {
  "list", "approve", "reject"})
AdminRoutes == Admin("admin:user", {
  "getUsers", "getUserById", "createUser", "updateUser", "deleteUser",
  "updateUserStatus", "updateUserMemberLevel"})
ClientAuthRoutes == Client("client:profile", {
  "getSession", "logout", "bindPhone", "bindPhoneWechat"})
ClientCourierCompanyRoutes == Client("", {"listCompanies"})
ClientMemberLevelRoutes == Client("client:member", {"findAll", "getMyLevel"})
ClientMemberRoutes == Client("client:member", {
  "getProfile", "getTasks", "completeTask", "getRecords"})
ClientNotificationRoutes == Client("client:notification", {
  "getPendingNotification", "confirmNotification"})
ClientPaymentMethodRoutes == Client("client:profile", {"list"})
ClientStorageRoutes == Client("", {"uploadFile"})
ClientUserRoutes == Client("client:profile", {
  "getProfile", "getPrivacySettings", "updatePrivacySettings",
  "updateProfile"})
ClientWalletRoutes == Client("client:wallet", {
  "getBalance", "getTransactions", "getTransactionDetail",
  "createWithdrawal", "getWithdrawals", "createRecharge", "getRecharges"})
ClientRoutes == Client("client:profile", {"getProfile", "submitRealNameAuth"})
ClientSecurityRoutes == Client("client:security", {
  "getDevices", "logoutDevice", "getAuditLogs"})
OssRoutes == Public({"getSignature"})
PublicAuthRoutes == Public({
  "login", "refresh", "register", "loginPhone", "sendCode", "loginCode"})
PublicBannerRoutes == Public({"getBanners"})
PublicPaymentMethodRoutes == Public({"list"})
PublicRegionRoutes == Public({"getRegionTree"})
PublicRuleRoutes == Public({"listRules", "getRuleByCode"})
PublicSearchRoutes == Public({"getHotSearch"})
PublicSystemConfigRoutes == Public({"getConfig", "getQuickNavs"})
PublicRoutes == Public({"getHealth"})

Routes ==
  AdminApiMonitorRoutes \cup AdminAuthRoutes \cup AdminBannerRoutes \cup
  AdminCourierCompanyRoutes \cup AdminDashboardRoutes \cup AdminImageRoutes
  \cup AdminMemberLevelRoutes \cup AdminMemberRoutes \cup
  AdminNotificationRoutes \cup AdminPaymentConfigRoutes \cup
  AdminPaymentMethodRoutes \cup AdminPaymentNotifyRoutes \cup
  AdminPaymentTransactionRoutes \cup AdminRegionRoutes \cup AdminRoleRoutes
  \cup AdminUserRoleRoutes \cup AdminSessionRoutes \cup AdminStorageRoutes
  \cup AdminSystemConfigRoutes \cup AdminWithdrawalRoutes \cup AdminRoutes
  \cup ClientAuthRoutes \cup ClientCourierCompanyRoutes \cup
  ClientMemberLevelRoutes \cup ClientMemberRoutes \cup
  ClientNotificationRoutes \cup ClientPaymentMethodRoutes \cup
  ClientStorageRoutes \cup ClientUserRoutes \cup ClientWalletRoutes \cup
  ClientRoutes \cup ClientSecurityRoutes \cup OssRoutes \cup PublicAuthRoutes
  \cup PublicBannerRoutes \cup PublicPaymentMethodRoutes \cup
  PublicRegionRoutes \cup PublicRuleRoutes \cup PublicSearchRoutes \cup
  PublicSystemConfigRoutes \cup PublicRoutes

\* Handlers that move a user's money.
MoneyHandlers == {"createWithdrawal", "createRecharge"}

\* What the guards, and the property about money, tell apart.
Access(route) == [level |-> route.level, needs |-> route.needs, active |-> route.active,
                  money |-> route.handler \in MoneyHandlers]
Accesses == {Access(route) : route \in Routes}

VARIABLES
  status,    \* users.status, "missing" without a row
  granted,   \* the union of the permissions of the user's roles
  request,   \* local state of each request
  changes,
  failures

vars == <<status, granted, request, changes, failures>>

Statuses == {"missing", "BANNED", "ACTIVE", "FREEZED"}
NoToken == [role |-> "none", permissions |-> {}]
Tokens == {NoToken, [role |-> "admin", permissions |-> {}]}
          \cup [role : {"client"}, permissions : Grants]
Outcomes == {"entered", "refused", "failed"}

\* seen (history): the pairs of status and permissions that held during the
\* request; fallback: the permissions were not read but taken from the token.
Local == [at : {"idle"}]
         \cup [at : {"status", "active", "permission"} \cup Outcomes, access : Accesses, token : Tokens,
               seen : SUBSET (Statuses \X Grants), fallback : BOOLEAN]

\* Types of the user's row, the permissions and the requests.
TypeOK ==
  /\ status \in Statuses /\ granted \in Grants
  /\ \A r \in Requests :
       \/ request[r] = [at |-> "idle"]
       \/ /\ request[r].at \in {"status", "active", "permission"} \cup Outcomes
          /\ request[r].access \in Accesses /\ request[r].token \in Tokens
          /\ request[r].seen \subseteq Statuses \X Grants /\ request[r].fallback \in BOOLEAN
  /\ changes \in 0 .. MaxChanges /\ failures \in 0 .. MaxFailures

Init ==
  /\ status \in Statuses /\ granted \in Grants
  /\ request = [r \in Requests |-> [at |-> "idle"]]
  /\ changes = 0 /\ failures = 0

At(r, at) == request[r].at = at
Go(r, at) == request' = [request EXCEPT ![r].at = at]

\* AccessLevelGuard: the token must be of the route's level; no await.
Arrive(r, access, token) ==
  /\ At(r, "idle")
  /\ request' = [request EXCEPT ![r] =
       [at |-> IF access.level \in {"public", token.role} THEN "status" ELSE "refused",
        access |-> access, token |-> token, seen |-> {<<status, granted>>}, fallback |-> FALSE]]
  /\ UNCHANGED <<status, granted, changes, failures>>

\* Mutation: a banned user is not barred.
BarredIfMissing(s) == s = "missing"
Barred(s) == s \in {"missing", "BANNED"}

\* UserStatusGuard: CLIENT routes only.
CheckStatus(r) ==
  /\ At(r, "status")
  /\ Go(r, IF request[r].access.level = "client" /\ Barred(status) THEN "refused" ELSE "active")
  /\ UNCHANGED <<status, granted, changes, failures>>

\* ActiveAccountGuard: annotated routes only, where a banned user would pass.
CheckActive(r) ==
  /\ At(r, "active")
  /\ Go(r, IF request[r].access.active /\ status = "FREEZED" THEN "refused" ELSE "permission")
  /\ UNCHANGED <<status, granted, changes, failures>>

Exempt(r) == request[r].access.needs = "" \/ request[r].token.role = "admin"

\* PermissionGuard: administrators' tokens pass without a read.
CheckPermission(r) ==
  /\ At(r, "permission")
  /\ Go(r, IF Exempt(r) \/ request[r].access.needs \in granted THEN "entered" ELSE "refused")
  /\ UNCHANGED <<status, granted, changes, failures>>

\* Its read fails: the permissions of the token decide.
FallBack(r) ==
  /\ At(r, "permission") /\ ~ Exempt(r) /\ failures < MaxFailures
  /\ request' = [request EXCEPT ![r].fallback = TRUE,
       ![r].at = IF request[r].access.needs \in request[r].token.permissions
                 THEN "entered" ELSE "refused"]
  /\ failures' = failures + 1
  /\ UNCHANGED <<status, granted, changes>>

\* The read of the status fails: the request does.
StatusFails(r) ==
  /\ At(r, "status") /\ request[r].access.level = "client" /\ failures < MaxFailures
  /\ Go(r, "failed")
  /\ failures' = failures + 1
  /\ UNCHANGED <<status, granted, changes>>

\* Administrators, and the services of modules Accounts and Roles.
Change(s, g) ==
  /\ changes < MaxChanges
  /\ status' = s /\ granted' = g
  /\ request' = [r \in Requests |->
       IF request[r].at \in {"status", "active", "permission"}
       THEN [request[r] EXCEPT !.seen = @ \cup {<<s, g>>}] ELSE request[r]]
  /\ changes' = changes + 1
  /\ UNCHANGED failures

Next ==
  \/ \E r \in Requests, access \in Accesses, token \in Tokens : Arrive(r, access, token)
  \/ \E r \in Requests : CheckStatus(r)
  \/ \E r \in Requests : CheckActive(r)
  \/ \E r \in Requests : CheckPermission(r)
  \/ \E r \in Requests : FallBack(r)
  \/ \E r \in Requests : StatusFails(r)
  \/ \E s \in Statuses : Change(s, granted)
  \/ \E g \in Grants : Change(status, g)

Spec == Init /\ [][Next]_vars

(***************************************************************************)
(* Correctness                                                             *)
(***************************************************************************)
MayEnter(q) ==
  LET needs == q.access.needs
  IN  \/ q.access.level = "public"
      \/ /\ q.token.role = q.access.level
         /\ q.token.role = "client" =>
              /\ \E pair \in q.seen : pair[1] \notin {"missing", "BANNED"}
              /\ \/ needs = "" \/ \E pair \in q.seen : needs \in pair[2]
                 \/ q.fallback /\ needs \in q.token.permissions

MayBeRefused(q) ==
  LET needs == q.access.needs
  IN  /\ q.access.level # "public"
      /\ \/ q.token.role # q.access.level
         \/ /\ q.token.role = "client"
            /\ \/ \E pair \in q.seen : pair[1] \in {"missing", "BANNED"}
               \/ needs # "" /\ \E pair \in q.seen : needs \notin pair[2]
               \/ needs # "" /\ q.fallback /\ needs \notin q.token.permissions

\* A ban and a change of roles take effect at once (permission.guard.ts), although
\* each guard reads at another moment: a handler is entered only if the token is of
\* its level and, for a client, there was a moment of the request when the account
\* was usable and one when its roles covered the route; a refusal has a moment, or
\* a token, that justifies it.
DecisionIsJust ==
  \A r \in Requests :
    /\ At(r, "entered") => MayEnter(request[r])
    /\ At(r, "refused") => MayBeRefused(request[r])

\* auth.service.ts lets frozen users sign in because they "cannot move money": a
\* request that moves money is entered only if the account was not frozen all along.
FrozenMovesNoMoney ==
  \A r \in Requests :
    At(r, "entered") /\ request[r].access.money =>
      \E pair \in request[r].seen : pair[1] # "FREEZED"
===============================================================================
