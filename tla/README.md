# TLA+ verification of ym-server

ym-server is the back end of a ticketing mini-program: a NestJS 11 application in one
Node process, MySQL through TypeORM, Redis, in-memory maps, an in-process event bus and
interval jobs. This directory holds TLA+ modules for the parts of it where the order of
steps decides what is correct, TLC configurations that check them on small instances,
and TLAPS proofs of the main results for every instance. File references are relative to
the repository's own `src/` directory, `src/modules/...` unless a path says otherwise.

## Execution model

* One process. JavaScript between two `await`s runs without interruption; every `await`
  is a point where any other call, event handler or interval job may run. An action of a
  module is therefore one `await` (one SQL statement, one Redis command) with the
  synchronous code that follows it.
* No service opens a transaction or takes a lock. `repository.save(entity)` writes every
  column of the loaded entity that differs from the row, so it overwrites what other calls
  wrote since the load, and it inserts the row again when it is gone. It reads the row
  itself just before it writes, and writes what differs from that snapshot. Where one save
  writes columns that a property relates, the snapshot and the write are two steps: in
  `PaymentConfig` (the fields of one entity, which several saves share), in `Payments`
  (status, receipt and times) and in `Member` (growth and level). Elsewhere they are one,
  because no property relates two columns that one save writes, and on a single column
  what another call does between the two has the effect of running before or after both.
  A save of an array, which TypeORM wraps in a transaction, is one step too.
  A query-builder `update ... where` is atomic and reports the number of affected rows.
* A rejected `await` ends its call (or enters its `catch`) and undoes nothing; a restart
  ends every call and loses what is only in memory.

## Inventory

For each part: its state, its operations, what it talks to, what is hard about it and what
makes it correct. The second group is left out, with the reason.

### Modelled

**Withdrawals** (`wallet/withdrawal.service.ts`). State: `withdrawal_requests` rows, the
balance in the user row, `balance_transactions` rows. `createRequest` reads the user,
counts pending requests, deducts with a guarded `UPDATE`, writes a ledger row and inserts
the request; `adminApprove` and `adminReject` read the request and claim it with a guarded
`UPDATE`; `adminReject` then reads the user, refunds and writes a ledger row. It shares the
user row with every function of `user.service.ts`. Hard: two submissions or two
administrators at once, a failure between any two statements, a user row rewritten in
between, an amount with more decimals than the columns hold. Correct when money is neither
made nor lost, a request is decided once, money comes back for rejected requests only, and
what an administrator sees is frozen.

**Client sessions** (`auth/auth.service.ts`, `auth/refresh-token.store.ts`,
`user-status.guard.ts`). State: an in-memory map of refresh tokens. Logins and refreshes
end in `issueSession`; `refreshClientSession` verifies, finds and revokes the old token and
then awaits four times before it saves the next one and answers; `logoutClientSession`
revokes a session's tokens. Hard: parallel refreshes of one token, a logout during a
refresh, tokens stamped in whole seconds, restarts. Correct when a session never forks, a
dead session stays dead, and a client that follows the protocol is not locked out.

**Roles and permissions** (`role/role.service.ts`, `role/role-seed.service.ts`,
`permissions.matcher.ts`, `permission.guard.ts`). State: `roles` and `user_roles` rows, the
flag `seeded`, the permissions claim of tokens. Role CRUD and grants, lazy seeding, the
aggregation at login (with the automatic grant of `REGULAR_USER`) and at each request.
Hard: check-then-insert races, swallowed errors, two reads that are not one moment, saves
of rows that were deleted. Correct when codes stay unique, built-in roles stay, and guard
and token agree with the stored roles.

**Payment configuration** (`payment-config/payment-config.service.ts`). State: one row, and
the entity loaded from it, shared by all callers for a minute. Getters read through
`ensureConfig`; `updateConfig` changes the cached entity, saves it and clears the cache.
Hard: a slow read fills the cache with the row as it was before an update, an update works
on an entity that is behind the row, a failed save leaves its values in the shared entity.
Correct when an update stores the fields it was given and no others, and readers come back
to the stored row.

**Guards and routes** (`app.module.ts`, `access-level.guard.ts`, `user-status.guard.ts`,
`active-account.guard.ts`, `permission.guard.ts`, the 41 controllers). No state of their
own: each request passes four global guards, two of which read the user's status and one
the permissions of its roles, with awaits in between. Hard: bans and role changes between
the reads, a failed read that falls back to the token. Correct when a decision is justified
by some moment of the request.

**Users, codes and logins** (`user/user.service.ts`, `auth/auth.service.ts`). State: user
rows with unique `openid` and `phone`, one row of privacy settings per user, SMS codes and
cooldowns in memory. Registration, four logins, two ways to bind a number, and every writer
of a user row. Hard: look-ups that race for the unique indexes, codes consumed before
awaits that may fail, a phone account's made-up openid that outlives its number, whole-row
saves. Correct when a code is used once, accounts are complete, and a banned user stays out.

**WeChat service** (`auth/wechat.service.ts`). State: one access token in a variable of the
module, shared by all requests. Hard: overlapping refreshes and refusals, an expiry that is
counted from the answer. Correct when a token that is handed out is one WeChat still takes.

**Membership growth** (`member/member.service.ts`). State: profiles, tasks, task records,
growth records. A reward is spread over six awaits. Correct when the level is that of the
growth and the growth is the sum of its records.

**Recharges, payment transactions, payment notifications** (`wallet/recharge*.ts`,
`payment-transaction/`, `payment-notify/`). State: three tables whose rows are loaded,
checked and saved whole, and a job that cancels overdue orders. At this commit no route
calls the functions that pay an order, mark a transaction or mark a callback. Correct when
a paid order stays paid, none is pending for ever, and receipts agree with statuses.

**Device security plugin** (`security/`). State: device rows and audit records, written by
handlers of login events (often two of them at once) and by `logoutDevice`. Correct when
the audit log tells of each change once.

**API monitor** (`api-monitor/`, its interceptor). State: a buffer in memory and the table
it is flushed to, at a size, at an interval and at the end of the module. Correct when an
entry is stored once or lost for a reason the code accepts, and none waits for ever.

**Notifications** (`notification/`). State: notices and confirmations, which nothing ties
together. Correct when a notice that was confirmed does not pop up again.

**Catalogues** (`banner`, `quick-nav`, `rule`, `payment-method`, `member-level`, `image`,
`system-config`, and `storage-config` for their pictures). State: rows with a picture, and
one row of storage settings from which domains are made. Hard: the settings change between
the moment a form is filled and the moment it is sent, and they are any text: a host, a URL
with a path, a host without a scheme. Correct when no host is stored with a picture.

**Regions** (`region/`) and **courier companies** (`courier-company/`). State: a table each,
filled from a file row by row and edited beside that. Correct when clients are shown the
tree of the file, and when a repeated import adds nothing.

### Not modelled

| part | why |
|---|---|
| Wallet queries, dashboard | they only read |
| Administrator authentication | one row made at start, stateless tokens; the guards take the token from there |
| Activity sessions in Redis | keys with a time to live that only feed a displayed number |
| Plugin system and event bus | discovery and registration at start; dispatch afterwards is what starts the handlers of `Devices` |
| HTTP shell | serialisation, request logging and error mapping, one request at a time and nothing kept |
| Migrations, scripts, OpenAPI | tooling and generated documents (`init-regions.ts` is in `Regions`) |
| Image groups; other columns of the system configuration | nothing depends on them: `images.groupId` is no foreign key |
| File storage | disk and object store; `Catalogue` has the answer of an upload |

## Modules

| module | what it is |
|---|---|
| `Withdrawal` | the withdrawal service and the user-row writers it meets |
| `WithdrawalMoney` | what a withdrawal promises about money: phases of claims, no calls and no failures |
| `ClientSession` | issue, refresh and logout of sessions |
| `Roles` | role rows, grants, seeding, the permissions of tokens and requests |
| `Guards` | the four guards of a request, and the access of every route |
| `Accounts` | user rows, privacy settings and SMS codes |
| `PaymentConfig` | the cached payment configuration |
| `Wechat` | the shared access token, with WeChat as its environment |
| `Member` | tasks, profiles, growth |
| `Payments` | recharge orders, transactions, callbacks |
| `Devices` | login devices and the audit log |
| `ApiMonitor` | the request log |
| `Notices` | notifications and confirmations |
| `Catalogue` | seven services of rows with pictures, and the storage settings |
| `Regions`, `Couriers` | tables that are loaded from files |
| `MCWithdrawal`, `MCClientSession`, `MCPaymentConfig`, `MCGuards`, `MCCatalogue` | instances of one module for TLC |
| `Services` | the specification of twelve services side by side, each of them in focus in some behaviours |
| `MCServices`, `MCProgress` | instances of many modules in one run: safety and liveness |
| `WithdrawalProofs`, `ClientSessionProofs`, `RolesProofs`, `PaymentConfigProofs`, `AccountsProofs`, `GuardsProofs` | TLAPS proofs about one module each |
| `SmallServicesProofs` | TLAPS proofs about `Payments`, `Wechat`, `ApiMonitor`, `Notices`, `Devices`, `Catalogue`, `Couriers`, `Member` and `Regions`, each in a part of its own |
| `ServicesProofs` | the properties of `Services`, from the theorems about its services |

Which module composes which: `Withdrawal` contains the writes of the user row that
`Accounts` splits further; `Roles` and `Guards` meet in the permissions of a user, which
`Roles` computes in two reads and `Guards` takes as one set that changes at any time;
`ClientSession` takes over where a login of `Accounts` ends (`granted`); `Catalogue` puts
each service beside the storage settings it reads. Between the other services there is no
shared state: they are called by routes, or by events whose handlers nobody waits for.

Operators named `...WithoutSeed`, `...KeepsOld`, `...Unguarded` and the like, under a comment
that starts with *Mutation*, are wrong versions of the action that follows them. No
specification uses them: they show that each property notices the bug it is there for.

### Withdrawal

A submission, a decision and a save are members of `Submits`, `Decisions` and `Saves`; each
has a program counter that names the last statement it finished.

| action | code |
|---|---|
| `SubmitFindUser`, `SubmitCheck`, `SubmitDeduct`, `SubmitRecord`, `SubmitInsert` | the five awaits of `createRequest` (47-121) |
| `DecisionFind`, `DecisionClaim` | both administrators' calls (190-286) |
| `RejectFindUser`, `RejectRefund`, `RejectRecord` | the rest of `adminReject` (282-325) |
| `SaveFind`, `SaveEntity`, `RemoveEntity` | `user.service.ts`: any function that loads a user and saves or removes the entity |
| `AwaitFails`, `ProcessStops` | a rejected await, the end of the process |

An amount may have any number of decimals (`withdrawal.dto.ts:10` asks for a number from 1
to 5000), while every column is a decimal with two. So balances and stored amounts count
cents, and what clients ask for counts `Parts` of a cent; `InCents` is the rounding of
MySQL when it stores a number, half a cent up. The three conversions of one amount are
apart: `SubmitDeduct` rounds `balance - amount` (a half cent is not taken, `Taken`),
`SubmitInsert` and the ledger round the amount (`Requested`), and `RejectRefund` gives back
what the request's row holds. `balanceAfter` of the ledger is a difference of doubles, which
may fall either side of a half (`Differences`).

`save` writes the balance it was loaded with, which is how a profile edit undoes a
deduction; properties about money are therefore stated for users outside `Overwritten`,
except `NonNegative`, which holds for all. `Conservation` and `LedgerReconciles` count the
cents that rounding makes: one for each refund of an amount that was rounded down in the
balance and up in the row, one for each such row of the ledger, and no other.
`WithdrawalMoney` lets a claim be due one cent more than was taken, never less.

### ClientSession

`now` counts seconds. A refresh token is a signed string, so it is the record of its
session, second and device claim; two equal records are one key of the map. `held` is what
clients have received, and a client may present any of it at any time. `LoginFindUser`,
`LoginIssue`, `LoginAnswer` and `RefreshStart`, `RefreshIssue`, `RefreshAnswer` split at the
awaits that matter for the map: the reads of permissions lie before `Issue`, those of the
profile and configuration after it. `RefreshStart` is find and revoke in one step, because
`refreshClientSession` does not await before `issueSession`. `LogoutGuard` is the status
guard of the route, `LogoutRun` the synchronous body. Role changes, which would alter the
permissions claim and so the string, are not modelled here.

### Roles

`Calls` is a pool of requests; each runs operation after operation, so a behaviour holds
any number of requests, a few at a time. A permission is the sequence of its parts and
`MatchSingle` is the matcher on sequences. Each `find`, `save` and `delete` is an action;
`AssignFind`, `AssignCheck` and `AssignSave` serve an administrator's grant and the
automatic one of a login, which continue differently (`Assigned`, `AssignRefused`). `quiet`
is a history variable: the logins and checks since whose start no other call has written a
role or a grant, of which alone freshness can be asked. A built-in role's unique index and
that of `user_roles` are the refusals in `CreateSave`, `SeedSave`, `UpdateSave` and
`AssignSave`. An administrator's role body is any member of `Bodies` (or the stored list,
for an update that leaves it out).

### PaymentConfig

`row` is the stored configuration, `entity` the objects in memory (calls share an entity by
referring to the same member of `Objects`), `cache` the cached object with its age in ticks
of the minute.

| action | code |
|---|---|
| `ReadHit`, `ReadMiss`, `Reply`, `FillRead` | a getter (94-228) through `ensureConfig` (240-276) |
| `UpdateHit`, `UpdateMiss`, `Reply`, `FillUpdate` | `updateConfig` up to its save (64-82) |
| `Snapshot`, `Write` | the select and the update of `save` (84) |
| `Finish` | `clearCache` and the answer (86-91) |
| `Tick`, `AwaitFails`, `Restart` | the age of the cache, a failed statement, a new process with `onModuleInit` (39-43) |

A statement's answer (`Reply`) and the moment the caller resumes (`FillRead`, `FillUpdate`)
are two steps, because the row may change on the way: that is the late read. A hit is one
step with what follows it, because an `await` of a value that is there resumes before any
callback of the database. `tainted` is a history variable: the entities that were loaded
before the row changed and cached after it, or that a failed update left different from the
row. The row is never deleted, so the branch that creates it runs only in `onModuleInit` on
a new database, whose result is `Init`.

### Guards

`Routes` is the set of all routes, a record each, one definition per controller; `Accesses`
is what the guards tell apart of them. `Arrive` is `AccessLevelGuard`, which awaits nothing;
`CheckStatus`, `CheckActive`, `CheckPermission` are the other three in the order of
`app.module.ts`; `FallBack` and `StatusFails` are their failed reads; `Change` is whatever
changes the user's status or permissions. `seen` is a history variable: the pairs of status
and permissions that held during the request.

### Accounts

A call is an operation `op` at a program counter; a row loaded for a save travels with it,
so a late save writes the whole row it was loaded with. `SendCode`, `CodeExpires` and `Tick`
are the maps of codes and cooldowns; `UseCode` consumes a code and ends in a login or a
binding. `LoginClient`, `LoginClientByPhone`, `RegisterClient`, `AdminCreateUser` find or
insert; `InsertUser`, `SaveNickname`, `SavePrivacy` are what a new account takes, each of
which a unique index or a foreign key may refuse; `EditFind`, `Save`, `RemoveFind`, `Remove`
are the writers of `user.service.ts`. The foreign key of the privacy settings makes the
removal of a user who has any fail. `spoiled` and `outcasts` are histories.

### Wechat

`age`, `issued` and `revoked` belong to WeChat: it may give up a token when it has given out
a later one. `GetPhoneNumber` takes the cached token or asks; `ReadToken` stores an answer,
which may be late by up to `Margin`; `LookUp` and `ReadRefusal` are the request with the
token and the refusal that clears the cache, whichever token it holds by then.
`ResolveOpenId` and `Code2Session` exchange login codes and touch no shared state.

### Member, Payments, Devices, Notices

One action per await; the entity loaded travels with the call. `Member`: `CompleteTask`,
`FindRecord`, `SaveRecord`, `FindProfile`, then `InsertProfile` or `Snapshot` and
`WriteProfile`, and `SaveGrowth` are a reward, which checks neither the task's status nor an
earlier completion (as the code does); `CalculateLevel` is the loop over the thresholds.
`Payments`: the three `Mark...` of each table load, check and change a row, and `Snapshot...`
and `Write...` save it; `Merge` writes the columns in which the entity differs from the
snapshot. `CancelExpiredRecharges` is one guarded update. A time is the call that took it.
In both modules `mixed` is a history: the rows that changed between the snapshot and the
write of a save, where columns of two calls may stand side by side. `ReceiptMatchesStatus`
and `LevelMatchesGrowth` are about the other rows.

`Devices`: `isCurrent` is always set, so `LogoutDevice` of a token without device claim
refuses every device, as in the code. `changes` counts the rows that were really removed,
and `contested` is a history: the devices of which two calls held one row at once, both to
remove it and to tell of it. `Notices`: `DeleteConfirms` and `RemoveNotification` are two
awaits, and an update under way inserts the notice again.

### ApiMonitor

`saving` is the set of batches whose save is under way. `Record`, `TimerFlush` and `Destroy`
start a flush without waiting for others; `Saved` and `SaveFails` end one. Since `main.ts`
enables no shutdown hooks, a signal ends the process like `Crash`; `Destroy`, `ClearTimers`,
`Exit` are the way of `app.close`. `fate` is a history: why an entry is nowhere.

### Catalogue, Regions, Couriers

`Catalogue` has one set of actions and a record per service that says where it differs: what
`create` and `update` do with the picture, whether `remove` looks first, which rows it
inserts itself. A picture, like a field of the storage settings, is a text cut at its slashes:
whether it begins with `http://` or `https://`, whether with a slash, and its parts.
`Resolved` and `Normalized` are the two conversions of `storage-config.service.ts`. Nothing is
asked of the settings: a base may have a path, which stays in what is stored (`Kept`), or no
scheme, when it is not recognised as a domain and stays too. A form is a call that has been
shown a picture and sends it later. `memberLevel` shows the text of a promise instead of a URL.
`Regions`: a load clears the table (the script does not) and inserts item by item, with the
identifiers of its parents from this load; `BuildTree` is what clients are shown. `Couriers`:
the import reads the names once and inserts row by row.

## Runs

Every run finishes within four minutes with two workers.

| run | what it asks | instance |
|---|---|---|
| `withdrawal` | `TypeOK`, `NonNegative`, `Conservation`, `SingleDecision`, `FrozenBeforeVisible`, `RefundOnlyRejected`, `LedgerReconciles`, `ImplementsMoney` | one user with 3 cents, two submissions of one and a half or two cents, two decisions, one save, one failure |
| `session` | `TypeOK`, `OneLiveToken`, `NoLockout`, `DeadStaysDead` | one user, two logins, two refreshes, one logout, three seconds, tokens that live one and two seconds, one failure |
| `services` | the safety of twelve services, see below | two or three requests of each, one failure |
| `progress` | `TypeOK`, `CacheIsCurrent`, and under fairness `StaleEnds`, `RejectedComesBack`, `FrozenGetsFiled`, `PendingEnds`, `BufferDrains` | four services, see below |
| `withdrawal_double_submit` | `OnePendingPerUser`: **violated** | |
| `withdrawal_lost_refund` | `RejectedIsRefunded`: **violated** | |
| `withdrawal_half_cent` | `FrozenComesBack`: **violated** | as `withdrawal`, no save and no failure |
| `session_logout` | `LogoutIsFinal`: **violated** | as `session` |
| `session_reuse` | `ExchangedIsDead`: **violated** | as `session` |
| `payment_config_fields` | `OnlyPassedFields`: **violated** | two fields, a lifetime of one tick, no failure |
| `frozen` | `FrozenMovesNoMoney`: **violated** | one request |
| `catalogue_settings` | `OnlyUpdatesChange`: **violated** | three calls, four settings, one row |

### One run for many services

The services of `Services` share no state that the modules keep, so their product would
only multiply states. Instead the variable `focus`, chosen by the initial state, says which
of them moves in a behaviour; the others rest. `Roles` is extended and has its variables;
the others are instances that lend the registers `x1` to `x8` to their variables, by way of
the modules with the proofs about them, so that theorems come with the actions. A property
of a service is asked of the behaviours in which it is in focus. `MCProgress` does the same
for four services and liveness, with fairness stated of the steps of the service in focus.

| service | properties of `services` | instance |
|---|---|---|
| roles | `CodesUnique`, `SystemCodesReserved`, `GuardIsCurrent`, `TokenIsCurrent`, `SystemRolesStay` | one user, two requests at a time, one built-in and one custom code, two rows per code |
| accounts | `CodeUsedOnce`, `AccountsComplete`, `BannedStayOut` | three calls, one identity, one number, two rows, an age of one tick for cooldown and life |
| payments | `ReceiptMatchesStatus`, `PaidIsFinal` | three calls, a row of each table |
| devices | `AuditIsTrue` | three calls, two devices, three rows |
| membership | `LevelMatchesGrowth`, `GrowthAddsUp` | three calls, one user, two tasks, rewards of 100 and -50 |
| request log | `StoredOnce` | three entries, a full buffer at two |
| WeChat | `HandedOutIsGood` | three calls, three tokens that live three ticks, a margin of one |
| notices | `ConfirmedNotPending` | three calls, one user, two notices, two pages |
| catalogue | `StoredIsBare` | three calls, each of seven services, one row, one file, four settings (a host with a path, a host, a host without a scheme, a bucket) |
| regions | `TreeShowsFile` | three calls, two provinces and a city |
| couriers | `ImportedOnce` | three calls, a sheet with a double and an empty name |
| guards | `DecisionIsJust` | one request, every access of the routes, two changes |

`TypesOK` is the type invariant of the service in focus.

### Bounds

Every race of these services is between two calls over one row, one code or one token, so
two calls on one user show it; a third is there for what changes the row under both (an
administrator, a rewrite, a removal). A second user would only run beside the first.
One failure is enough to stop a call at each of its awaits; a stopped call does not act
again, so two failures add nothing that two stopped calls of one run do not show.

* `withdrawal` has a balance that covers one request of each amount and not two of the
  larger, so both outcomes of the guarded deduction happen; two parts to a cent are enough
  for a half, where the roundings part.
* `session` has time for a token to be refreshed in its own second, in the next one, and to
  expire, and a second session for a token presented in the body of the wrong logout.
* Roles have two rows per code, so that a role may be deleted and made again under another
  identifier; `RolesBound` allows the second row only while nothing has failed.
* The payment configuration has two updates, one to write and one to hold an older entity;
  three objects, one for each update and one for the next load (`FirstFree`: entities in
  memory are interchangeable, so a load takes the first free one); a lifetime of two ticks
  tells a young entity from one about to expire.
* The request log has three entries and a buffer of two: a full buffer, and a timer flush
  beside its save. WeChat's three tokens are one to cache, one to overtake it, one after it.
* A file of three regions has siblings, a child, and a parent that is not the last insert.
* Rewards of 100 and -50 cross the first threshold in both directions; two tasks let two
  calls give both at once.
* A request reads what others change and changes nothing others read, so `guards` has one.

`MaxInserts`, `MaxUsers`, `MaxRows`, `MaxId`, `MaxNotices`, `MaxToken`, `MaxFailures`,
`MaxChanges` and `MaxTime` are bounds of the models and not of the code. Calls that may
insert start only while rows can be numbered, so a bound does not cut a call in half.

Symmetry is used for calls that are interchangeable (never in the liveness run). Deadlock is
checked in `payment_config_fields`, whose service runs for ever. The other configurations
hold models with finitely many calls or a bounded number of rows, which
may end, and say `CHECK_DEADLOCK FALSE`.

### Fairness

Only `progress` uses fairness, and its instances of withdrawals have no failures.

* Withdrawals: weak fairness of each submission and decision. The event loop resumes every
  call whose `await` has settled, and the driver settles every statement. With `Submits` and
  `Decisions` as the calls that happen, each of them starts.
* Payment configuration: weak fairness of the steps of each call (statements settle, here
  also with an error) and of the clock. Nobody is assumed to read or to update; the reader
  may read for ever, which is what a cache that grew younger with each hit would not survive.
* Recharges: weak fairness of the passing of a quarter of an hour and of the interval job,
  whose errors are caught so that the next round comes. Nobody is assumed to pay.
* Request log: weak fairness of the interval timer and of the end of a process that has
  been told to end. Saves are not assumed to settle: entries leave the buffer before them.

### What the violated runs show

* `withdrawal_double_submit`: the pending count (`withdrawal.service.ts:62`) and the insert
  (`:108`) are separate awaits, so two calls both count zero and both end as PENDING.
* `withdrawal_lost_refund`: `adminReject` marks the request before it refunds; a failure in
  between leaves a rejected request that no later call can refund.
* `withdrawal_half_cent`: an amount may have more decimals than the columns. 1.005 leaves
  2.00 of 3.00, the request's row holds 1.01, and its rejection refunds 1.01: the balance is
  a cent above where it started. `adminReject` promises to give the frozen amount back
  (`withdrawal.service.ts:239`).
* `session_logout`: a logout between the revoke and the save of a refresh finds nothing to
  revoke, and the session gets a live token afterwards.
* `session_reuse`: a session without device claim that is refreshed in its first second is
  answered with the token it presented. The order of revoke and save is what keeps the
  client from being locked out (`NoLockout`).
* `payment_config_fields`: `updateConfig` saves the whole entity it worked on, so one that
  was loaded before another update's write reverts that update's fields. With a late read
  the second update may even start after the first one has answered.
* `frozen`: `auth.service.ts:93` lets frozen users sign in because they cannot move money,
  but `ActiveAccountGuard` acts only on routes with `@RequireActiveAccount` and no route has
  it: `createWithdrawal` and `createRecharge` are entered by a frozen user.
* `catalogue_settings`: `ensureConfig` is said to create a default row where there is none.
  Two first readers both find none; the later one's `save` finds the other's row, which an
  update has changed meanwhile, and sets the provider back to `local`.

### What modelling brought to light besides

These are properties of the code at this commit that no document of the repository denies;
the modules contain them, and the properties above are stated so as to be true of them.

* A whole-row save of a user loaded before a ban undoes the ban. `BannedStayOut` is
  therefore about users who are banned all the time of a login.
* `user_privacy_setting.user_id` is a foreign key: `adminDeleteUser` of a user with settings
  is always refused. Two first logins at once, or two first updates of the settings, end
  with one of them refused by the unique index.
* `completeTask` checks neither the task's status nor an earlier completion; a call that
  loses the race for the profile's insert leaves a completed task without its reward.
* Of two rewards whose saves overlap, one may write the growth and the other the level: from
  a growth of 100 at level 2, rewards of 100 and -50 can leave 200 at level 1.
* Built-in roles are seeded by the role page (`role.service.ts:41`, `:68`) and not at start, as
  `role-seed.service.ts:4` has it: until then a login finds no `REGULAR_USER` and signs an
  empty permission list, against `auth.service.ts:187`.
* A member level's picture is shown as `[object Promise]`, and an edit stores that text.
* `updateBanner` (`banner.service.ts:101`) stores the URL that `resolveFileUrl` made, where
  `storage-config.service.ts:152` says that only paths are stored; a later change of domain
  does not reach the banner.
* A base without a scheme is not taken off again by `normalizeFileUrl`: each edit of a row
  puts it before the path once more.
* A mark of a transaction that is loaded before another is saved may turn SUCCESS into
  FAILED, and with its snapshot before the other's write it leaves receipt and `paidAt` on
  the failed row; a callback may turn a cancelled order into a paid one.
* Two events of a first login may insert two rows of one device; two logouts of one device
  at once remove one row and write two records of it; a session without device claim cannot
  log out any device.
* WeChat's answer of success without a token is not modelled (`wechat.service.ts:219`): it
  would be cached like any other.
* A region switched while the table is loaded again brings its old row back; two loads at
  once mix their parents; the script appends. A courier company saved late comes back after
  its removal, and the next import then leaves it twice or skips it.
* Routes for administrators can only be entered with an administrator's token, which
  `PermissionGuard` lets pass: the `admin:*` permissions of roles have no effect.

## Proofs

TLAPS checks these for every value of the constants that meets the named assumptions
(`CallsAssumption` and the like: call identifiers of different kinds are different, amounts
and times are natural numbers, balances start at natural numbers) or the hypotheses of the
theorem. `ServicesAssumption` collects what the theorems about the twelve services need:

- bounds and times are natural numbers, requests are finitely many, `None` is neither a
  receipt nor a request;
- rewards are whole numbers, negative ones included (`growth_reward` is a signed column
  and no check bounds it);
- `SettingsWellFormed`: an update of the storage settings that names a provider names one of
  the two (`storage.dto.ts:7`), and its other fields are texts, of any kind;
- `SheetWellFormed`: the spreadsheet is a sequence of names;
- `FileWellFormed`: the file of regions lists a code once and a region after the one it
  belongs to, which is so in `region-data.ts` in the order of its levels, in which it is
  loaded.

**Withdrawal.** `TypeCorrect` is inductive by itself. `CallInv` strengthens
`SingleDecision` with what a program counter says about the row: a request exists once its
call is over, a claim leaves its outcome in the row, only rejections go on after the claim;
without it a claim could meet a row that another claim has already moved.
`LedgerInv` (a call past its ledger write has its row; a refund row belongs to a refund)
gives `FrozenBeforeVisible` and `RefundOnlyRejected`. What rounding does is a few lemmas for
every number of parts: a deduction takes `Taken` (`DeductionTakes`), the row holds that or one
cent more (`RoundingGap`), a balance that covers the amount covers what is taken
(`CoveredIsTaken`). `MoneyInv` is `Conservation` and the presence of untouched users' rows:
`Total` counts a set with one element per cent (`Coins`), so a deduction adds a disjoint set
and a refund removes one and may add a cent, and the cardinality lemmas turn both into
arithmetic. `LedgerReconciles` needs `RowsInv` besides: a row of the ledger carries its
request's amount, rounded, and balances that differ by it or by what was taken, and comes
from a call past its balance statement (`RowFits`); and a request has at most one row of each
kind. Renaming a row to its request is then a bijection (`TotalMatch`, `RowsExplain`, and
`TotalOver` for the cents in excess), and `MoneyInv` does the rest; that needs a refunded
request to have one refund only, which is `SingleDecision` again. `NonNegativeInv` adds that the balances *read* by pending
saves are not negative. It needs `AdjustTo \subseteq Nat`, a hypothesis of the theorem:
`AdminUpdateUserDto.balance` has no minimum, so an administrator can type a negative one.
`ImplementsMoneyCorrect` states that each step of `Withdrawal` is a step or a stutter of
`WithdrawalMoney` under `ClaimMap`, from `RefineInv`, the conjunction of the above.

**ClientSession.** `TypeInv` is `TypeOK` and `Origins` (a token exists only for a session
that was issued, and a refresh carries such a token). `OneLiveToken` is inductive with it:
`Shrinks` covers the actions that only remove tokens or end refreshes, and the three that
do not (`LoginIssue`, `RefreshStart`, `RefreshIssue`) have a lemma each. `DeadStaysDead`
follows: a session that is issued and has neither a live token nor a renewing refresh can
get a token only from a refresh that already left `admitted`.

`NoLockout` needs `ServedInv` besides: until something fails or is logged out, a session
has a token in the table or a refresh that will put one there (`Renewable`); a stored token is
in the client's hands or in an answer under way (`Delivered`), and none of its session was
stamped later (`Youngest`), so that it has not run out while an older one has not.

**Roles.** `TypeInv` adds to the types what a call must have at hand (`Known`: a user, a
role, a whole row); one lemma per action says which local state the action leaves, and all
five properties use these lemmas. `CodesUnique` is then inductive, because every insert meets
the unique index. `SystemRolesStay` needs `BirthInv`: an identifier belongs either to a
seeded row or to an administrator's, in the table and in every call that may still write or
delete the row, and is used up; so a deletion never holds a built-in row and a late save of
one carries the flag. `SystemCodesReserved` needs `SeedInv` besides: without failures the
built-in rows are inserted all together, and a creation reaches its save only when they are
there. `GuardIsCurrent` and `TokenIsCurrent` follow from `QuietInv`: what a call in `quiet`
has read is still what the tables say (`Undisturbed` for the steps of other calls).

**PaymentConfig.** `TypeCorrect` contains the fact that no update leaves a field undefined
(`ApplyType`, `MergeType`). `CacheIsCurrent` is inductive with it: a load is current or
tainted (`CachedClean`), a change of the cached entity and a write of the row each make
their own update the one that clears the cache, and an update that fails taints what it
leaves behind; the other steps keep the witness (`WillClearKept`).

**Payments.** `ReceiptMatchesStatus` needs that the rows in the hands of calls agree with
themselves too, since they are saved later (`RowsMatch`): a row that has not changed since the
snapshot becomes the entity (`PayMergeTransaction`, `PayMergeNotify`).
`PaidIsFinal` needs that a call which saves an order has loaded it as pending, saves it as
paid, and has seen it agree with its receipt (`SavesPaid`); it does not need the snapshot and
the write to be one step.

**Wechat.** `WecTypeInv` adds to the types that every token in hand was given out.
`YoungEnough` bounds the age of an answer by the margin, so the cached token's age and time
left add up to at most life and margin. `ReadOnce` says that a token still to be stored is
held by one request only and has neither been cached nor refused. Together they give
`HandedOutIsGood`: a refused token cannot come back.

**Guards.** `RoutesDeclared` reads the table of all routes: levels are one of three, public
routes need no permission, none requires an active account. `Decided` is then inductive: a
request under way is of its route's level, has seen the present pair of status and
permissions, and a client past `UserStatusGuard` has had a usable account at some moment
(`GoOn` for the guards' own steps, `ChangeStep` for everybody else's).

**ApiMonitor.** `ApiDisjoint` (batches share no entry with each other nor with the buffer) and
`ApiInOnePlace` are inductive; `StoredOnce`, which counts places, follows by the cardinality of
a singleton.

**Accounts.** `TypeInv` adds what a call must have at hand: the id it writes under, the number
it looks for, a row that exists. `OneUse` makes `CodeUsedOnce` inductive: an accepted code is
gone from the store. `AccountsComplete` needs `Completion`, which speaks of calls under way: an
account has its settings, or a call that has inserted it and not given it any, or was given up;
and a whole-row save writes under the id of an account that is there or was removed.
`BannedStayOut` needs `BansInv`: an outcast is banned still, and neither a call that is let in
nor one that has passed the check and has a save ahead (`LetIn`) has its user among its
outcasts.

**Notices.** `Remembered`: a confirmation is lost only with its notice's, a query knows of
those that were there before it, and its answer is none of them.

**Devices.** `Accounted` counts: the log plus the calls about to tell of an event (`Telling`)
fall short of the changes only by what failed, and exceed them only for a contested device,
because the row that the one call holds is there until it removes it (`Held`); a call changes
the count by one, which is arithmetic on the cardinality of a finite set.

**Catalogue.** `BareInv` speaks of the pictures in the hands of calls as well as of the rows: a
picture is an uploaded file behind parts that bases leave (`Fits`), and without a scheme from
the moment it is normalised (`Proper`). What resolving and normalising give is proved for
every text the settings may hold (`JoinedParts`, `PartsBehind`, `NormalizedBare`).

**Couriers.** `ImportInv`: until two imports overlap there is at most one, it knows every name
that only an import can have inserted, and no such name is listed twice.

**Member.** The scan of the thresholds from the top finds as many as the growth reaches, for
any growth (`Earned`, lemmas on a table that grows). `LevelInv` then adds that the profile
a reward is about to save is at its level unless its growth is negative, which the unsigned
column refuses; a write on the row that the snapshot saw stores that profile. `GrowthAddsUp` counts growth in units, upwards (`Gained`) and downwards
(`Lost`), so that no induction over the records is needed: `ComeTo` is kept by one more reward
(`RewardAdds`) and by one that moves from its call to the table (`RewardMoves`). `AddsInv` says
when the first happens with the right growth: the call about to save a profile is the only one
of its user and holds the present growth plus its reward (`RewardAlone`).

**Regions.** `AloneInv`: a call that nothing overlaps with is alone. `LoadInv`: a load into
the cleared table has inserted the first items of the file in their order, each under the id
its parent got before, and after it every row keeps the code and parent of its item (`Whole`),
through the rows that switches have in hand (`Harmless`). The three levels of the tree and of
`Reachable` are then the same, level by level.

**Services.** Whichever service is in focus stays there and takes the steps of its own
module, so a behaviour of `Services` is one of that module's specification: one lemma each
(`PaymentsRun` and the like). The theorems about the services then give the properties of
the run `services`, under the names the run uses.

**Only model-checked.** Every invariant and every action property of the passing runs has its
theorem. Liveness is out of the prover's reach under fairness and stays with the run `progress`
(`StaleEnds`, `RejectedComesBack`, `FrozenGetsFiled`, `PendingEnds`,
`BufferDrains`).

## Plan

1. Done: the modules above, their runs, and proofs of all the invariants and action
   properties that the passing runs check.
2. Proofs: state properties that the liveness of `progress` rests on (no call waits for
   another, a full buffer is under way to be saved).
3. Models: image groups beside their images; `Roles` and `Guards` composed, with the two
   reads of the permission query inside the guard.
