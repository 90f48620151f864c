------------------------------ MODULE Accounts ------------------------------
(***************************************************************************)
(* User rows and verification codes: registration and the four logins of   *)
(* auth.service.ts up to issueSession, and every writer of a user row in   *)
(* user.service.ts.                                                        *)
(*                                                                         *)
(* A frozen user logs in like an active one; nicknames, avatars, balances, *)
(* real names and membership levels decide nothing here and are left out.  *)
(* The n-th row ever inserted is user n.                                   *)
(***************************************************************************)
EXTENDS Integers

CONSTANTS
  Calls,        \* requests; each runs one operation
  Wx,           \* WeChat identities
  Phones,
  Cooldown, Life,  \* CODE_COOLDOWN_MS and CODE_EXPIRES_IN_MS, in ticks
  MaxUsers,     \* bound on the rows ever inserted
  MaxFailures   \* bound on failed awaits and restarts

Ids == 1 .. MaxUsers
NoPhone == "none"
Statuses == {"ACTIVE", "BANNED"}

\* openid: a WeChat identity, a made-up one of a phone account (it names the
\* number of the registration) or of an administrator (it names the row).
Rows == [exists : BOOLEAN, openid : ({"wx"} \X Wx) \cup ({"phone"} \X Phones) \cup ({"admin"} \X Ids)
                                    \cup {<<"none">>},
         phone : Phones \cup {NoPhone}, status : Statuses]

NoRow == [exists |-> FALSE, openid |-> <<"none">>, phone |-> NoPhone, status |-> "ACTIVE"]

PhoneRow(p) == [NoRow EXCEPT !.exists = TRUE, !.openid = <<"phone", p>>, !.phone = p]

VARIABLES
  users,     \* rows of the table user
  privacy,   \* users with a row in user_privacy_setting
  sms,       \* smsCodeStore and codeCooldownStore, by number
  call,      \* local state of each call
  uses,      \* history: how often the last code sent to each number was accepted
  spoiled,   \* history: users that were removed, or whose registration broke off
  outcasts,  \* history: users banned ever since a call began
  failures

vars == <<users, privacy, sms, call, uses, spoiled, outcasts, failures>>

\* Both maps are written by sendCode, so one age, in ticks since then, is the
\* age of the cooldown and of the code; past Life nothing tells ages apart.  A
\* wrong code changes nothing, so that no value of it is needed.
NoCode == [live |-> FALSE, age |-> Life + 1]

Ended == {"idle", "granted", "done"}

Local == [pc : Ended \cup {"insert", "nickname", "privacy", "save", "find", "check", "remove"},
          op : {"none", "wechat", "code", "register", "admin", "bind", "edit", "remove", "privacy"},
          id : Ids \cup {0}, row : Rows]

Idle == [pc |-> "idle", op |-> "none", id |-> 0, row |-> NoRow]

TypeOK ==
  /\ users \in [Ids -> Rows]
  /\ privacy \subseteq Ids
  /\ sms \in [Phones -> [live : BOOLEAN, age : 0 .. Life + 1]]
  /\ call \in [Calls -> Local]
  /\ uses \in [Phones -> Nat]
  /\ spoiled \subseteq Ids
  /\ outcasts \in [Calls -> SUBSET Ids]
  /\ failures \in 0 .. MaxFailures

\* At most one account so far, made by WeChat, with or without a number, or by
\* a registration.
Init ==
  /\ users \in [Ids -> Rows]
  /\ \A i \in Ids \ {1} : users[i] = NoRow
  /\ users[1] = NoRow \/ users[1] \in
       [exists : {TRUE}, status : {"ACTIVE"}, openid : {"wx"} \X Wx, phone : Phones \cup {NoPhone}]
       \cup {PhoneRow(p) : p \in Phones}
  /\ privacy = {i \in Ids : users[i].exists}
  /\ sms = [p \in Phones |-> NoCode]
  /\ call = [c \in Calls |-> Idle]
  /\ uses = [p \in Phones |-> 0]
  /\ spoiled = {}
  /\ outcasts = [c \in Calls |-> {}]
  /\ failures = 0

At(c, pc) == call[c].pc = pc
AtRest(c) == call[c].pc \in Ended

Existing == {i \in Ids : users[i].exists}
ByOpenid(o) == {i \in Existing : users[i].openid = o}
ByPhone(p) == {i \in Existing : users[i].phone = p}
Fresh == {i \in Ids : users[i] = NoRow}

\* The call answers, or throws: what it has not written by now it never will.
Done == [Idle EXCEPT !.pc = "done"]
End(c) == call' = [call EXCEPT ![c] = Done]

\* Bound: a call that may insert starts only while rows can be numbered.
Room ==
  \E i \in Fresh : \A c \in Calls : call[c].pc \in {"insert", "check", "find"} => i + 1 \in Fresh

\* The history of bans: a call that starts counts those already in force.
Watch ==
  LET banned == {i \in Existing : users[i].status = "BANNED"}
      still == {i \in Ids : users'[i].exists /\ users'[i].status = "BANNED"}
  IN outcasts' = [c \in Calls |->
       IF call'[c].pc = "done" THEN {}
       ELSE still \cap (IF At(c, "idle") /\ call'[c] # call[c] THEN banned ELSE outcasts[c])]

\* Mutation: only the login by password looks at the status.
AdmitAny(c, i, row) ==
  call' = [call EXCEPT ![c] = [Idle EXCEPT !.pc = "granted", !.id = i]]

\* The status check of a login and the call of issueSession.
Admit(c, i, row) ==
  call' = [call EXCEPT ![c] = IF row.status = "BANNED" THEN Done
                              ELSE [Idle EXCEPT !.pc = "granted", !.id = i]]

(***************************************************************************)
(* The verification codes, in memory.                                      *)
(***************************************************************************)
SendCode(p) ==
  /\ sms[p].age >= Cooldown
  /\ sms' = [sms EXCEPT ![p] = [live |-> TRUE, age |-> 0]]
  /\ uses' = [uses EXCEPT ![p] = 0]
  /\ UNCHANGED <<users, privacy, call, spoiled, failures>> /\ Watch

Expired(p) == sms[p].age > Life

\* Any attempt with a code that is too old deletes it.
CodeExpires(p) ==
  /\ sms[p].live /\ Expired(p)
  /\ sms' = [sms EXCEPT ![p].live = FALSE]
  /\ UNCHANGED <<users, privacy, call, uses, spoiled, failures>> /\ Watch

Tick(p) ==
  /\ ~Expired(p)
  /\ sms' = [sms EXCEPT ![p].age = @ + 1]
  /\ UNCHANGED <<users, privacy, call, uses, spoiled, failures>> /\ Watch

\* Mutation: the code is forgotten when the account is found, after the awaits.
ConsumeLate(p) == UNCHANGED sms

Consume(p) == sms' = [sms EXCEPT ![p].live = FALSE]

\* The check of bindPhone and of loginByCode: the code is right and is deleted
\* before the first await.
UseCode(c, p) ==
  /\ At(c, "idle")
  /\ sms[p].live /\ ~Expired(p)
  /\ Consume(p)
  /\ uses' = [uses EXCEPT ![p] = @ + 1]
  /\ UNCHANGED <<users, privacy, spoiled, failures>>

LoginByCode(c, p) ==
  /\ Room
  /\ UseCode(c, p)
  /\ call' = [call EXCEPT ![c] = [Idle EXCEPT !.pc = "find", !.op = "code", !.row.phone = p]]
  /\ Watch

BindPhone(c, u, p) ==
  /\ users[u].exists
  /\ UseCode(c, p)
  /\ call' = [call EXCEPT ![c] = [Idle EXCEPT !.pc = "find", !.op = "bind", !.id = u,
                                    !.row.phone = p]]
  /\ Watch

(***************************************************************************)
(* Registration and login.                                                 *)
(***************************************************************************)
\* loginClient: the openid has been resolved, and upsertClientUser looks for it.
LoginClient(c, w) ==
  LET found == ByOpenid(<<"wx", w>>)
      row == [NoRow EXCEPT !.exists = TRUE, !.openid = <<"wx", w>>]
  IN /\ At(c, "idle") /\ Room
     /\ IF found = {}
          THEN call' = [call EXCEPT ![c] = [pc |-> "insert", op |-> "wechat", id |-> 0,
                                            row |-> row]]
          ELSE \E i \in found :
                 call' = [call EXCEPT ![c] = [pc |-> "save", op |-> "wechat", id |-> i,
                                              row |-> users[i]]]
     /\ UNCHANGED <<users, privacy, sms, uses, spoiled, failures>> /\ Watch

\* loginClientByPhone: one read, then synchronous checks.  Only accounts
\* registered with a number have a password.
LoginClientByPhone(c, p) ==
  /\ At(c, "idle")
  /\ \E i \in ByPhone(p) : users[i].openid[1] = "phone" /\ Admit(c, i, users[i])
  /\ UNCHANGED <<users, privacy, sms, uses, spoiled, failures>> /\ Watch

\* findByPhone of loginByCode and of the two ways to bind a number.
FindByPhone(c) ==
  LET p == call[c].row.phone
      found == ByPhone(p)
  IN /\ At(c, "find")
     /\ \/ /\ call[c].op = "code"
           /\ IF found = {}
                THEN call' = [call EXCEPT ![c] = [@ EXCEPT !.pc = "check", !.row = PhoneRow(p)]]
                ELSE \E i \in found : Admit(c, i, users[i])
        \/ /\ call[c].op = "bind"
           /\ IF found \subseteq {call[c].id}
                THEN call' = [call EXCEPT ![c].pc = "check"]
                ELSE End(c)
     /\ UNCHANGED <<users, privacy, sms, uses, spoiled, failures>> /\ Watch

RegisterClient(c, p) ==
  /\ At(c, "idle") /\ Room
  /\ call' = [call EXCEPT ![c] = [pc |-> "check", op |-> "register", id |-> 0,
                                  row |-> PhoneRow(p)]]
  /\ UNCHANGED <<users, privacy, sms, uses, spoiled, failures>> /\ Watch

\* createPhoneUser looks for the number (again); updateClientProfile loads the row.
Check(c) ==
  /\ At(c, "check")
  /\ \/ /\ call[c].op \in {"code", "register"}
        /\ IF ByPhone(call[c].row.phone) = {} THEN call' = [call EXCEPT ![c].pc = "insert"]
                                             ELSE End(c)
     \/ /\ call[c].op = "bind"
        /\ IF users[call[c].id].exists
             THEN call' = [call EXCEPT ![c] = [@ EXCEPT !.pc = "save",
                             !.row = [users[call[c].id] EXCEPT !.phone = call[c].row.phone]]]
             ELSE End(c)
  /\ UNCHANGED <<users, privacy, sms, uses, spoiled, failures>> /\ Watch

AdminCreateUser(c, p) ==
  /\ At(c, "idle") /\ Room
  /\ \E status \in Statuses :
       call' = [call EXCEPT ![c] = [pc |-> "insert", op |-> "admin", id |-> 0,
                  row |-> [NoRow EXCEPT !.exists = TRUE, !.phone = p, !.status = status]]]
  /\ UNCHANGED <<users, privacy, sms, uses, spoiled, failures>> /\ Watch

\* The unique indexes on openid and phone.
Clash(i, row) ==
  \/ ByOpenid(row.openid) \ {i} # {}
  \/ row.phone # NoPhone /\ ByPhone(row.phone) \ {i} # {}

\* A WeChat login or a registration may come without a nickname.
InsertUser(c) ==
  /\ At(c, "insert")
  /\ \E i \in Fresh, pc \in {"privacy"} \cup (IF call[c].op \in {"wechat", "register"}
                                              THEN {"nickname"} ELSE {}) :
       LET row == IF call[c].op = "admin" THEN [call[c].row EXCEPT !.openid = <<"admin", i>>]
                  ELSE call[c].row
       IN /\ \A j \in Fresh : i <= j
          /\ IF Clash(i, row)
               THEN End(c) /\ UNCHANGED users
               ELSE /\ users' = [users EXCEPT ![i] = row]
                    /\ call' = [call EXCEPT ![c] = [@ EXCEPT !.id = i, !.row = row, !.pc = pc]]
  /\ UNCHANGED <<privacy, sms, uses, spoiled, failures>> /\ Watch

\* save of an entity: every column, as a new row when the old one is gone.
Store(c) == users' = [users EXCEPT ![call[c].id] = call[c].row]

\* The nickname made of the identifier.  The entity still has the number and
\* the status it was created with.
SaveNickname(c) ==
  /\ At(c, "nickname")
  /\ IF Clash(call[c].id, call[c].row)
       THEN End(c) /\ spoiled' = spoiled \cup {call[c].id} /\ UNCHANGED users
       ELSE Store(c) /\ call' = [call EXCEPT ![c].pc = "privacy"] /\ UNCHANGED spoiled
  /\ UNCHANGED <<privacy, sms, uses, failures>> /\ Watch

\* Mutation: accounts that administrators create get no privacy row.
SavePrivacyUnlessAdmin(c) ==
  LET i == call[c].id
  IN /\ At(c, "privacy")
     /\ IF i \in privacy \/ ~users[i].exists
          THEN End(c) /\ UNCHANGED privacy
          ELSE /\ privacy' = IF call[c].op = "admin" THEN privacy ELSE privacy \cup {i}
               /\ IF call[c].op \in {"admin", "privacy"} THEN End(c)
                                                          ELSE Admit(c, i, call[c].row)
     /\ UNCHANGED <<users, sms, uses, spoiled, failures>> /\ Watch

\* The INSERT that ends a registration and an update of the settings that found
\* none: one row per user (unique), of a user that exists (foreign key).
SavePrivacy(c) ==
  LET i == call[c].id
  IN /\ At(c, "privacy")
     /\ IF i \in privacy \/ ~users[i].exists
          THEN End(c) /\ UNCHANGED privacy
          ELSE /\ privacy' = privacy \cup {i}
               /\ IF call[c].op \in {"admin", "privacy"} THEN End(c)
                                                          ELSE Admit(c, i, call[c].row)
     /\ UNCHANGED <<users, sms, uses, spoiled, failures>> /\ Watch

(***************************************************************************)
(* Edits: load the row, change the entity, save it.                        *)
(***************************************************************************)
ProfileEdit(row) == {[row EXCEPT !.phone = p] : p \in Phones \cup {row.phone}}
AdminEdit(row) == {[row EXCEPT !.phone = p] : p \in Phones \cup {NoPhone, row.phone}}
StatusEdit(row) == {[row EXCEPT !.status = s] : s \in Statuses}
\* The number comes from WeChat, between the load and the save.
RealNameEdit(row) == {[row EXCEPT !.phone = p] : p \in Phones}

Edits(row) == ProfileEdit(row) \cup AdminEdit(row) \cup StatusEdit(row) \cup RealNameEdit(row)

EditFind(c, u) ==
  /\ At(c, "idle") /\ users[u].exists
  /\ \E row \in Edits(users[u]) :
       call' = [call EXCEPT ![c] = [pc |-> "save", op |-> "edit", id |-> u, row |-> row]]
  /\ UNCHANGED <<users, privacy, sms, uses, spoiled, failures>> /\ Watch

\* bindPhoneByWechat has the number from WeChat.
BindPhoneByWechat(c, u, p) ==
  /\ At(c, "idle") /\ users[u].exists
  /\ call' = [call EXCEPT ![c] = [Idle EXCEPT !.pc = "find", !.op = "bind", !.id = u,
                                    !.row.phone = p]]
  /\ UNCHANGED <<users, privacy, sms, uses, spoiled, failures>> /\ Watch

Save(c) ==
  /\ At(c, "save")
  /\ IF Clash(call[c].id, call[c].row)
       THEN End(c) /\ UNCHANGED users
       ELSE /\ Store(c)
            /\ IF call[c].op = "wechat" THEN Admit(c, call[c].id, call[c].row) ELSE End(c)
  /\ UNCHANGED <<privacy, sms, uses, spoiled, failures>> /\ Watch

UpdatePrivacySetting(c, u) ==
  /\ At(c, "idle") /\ users[u].exists /\ u \notin privacy
  /\ call' = [call EXCEPT ![c] = [Idle EXCEPT !.pc = "privacy", !.op = "privacy", !.id = u]]
  /\ UNCHANGED <<users, privacy, sms, uses, spoiled, failures>> /\ Watch

RemoveFind(c, u) ==
  /\ At(c, "idle") /\ users[u].exists
  /\ call' = [call EXCEPT ![c] = [Idle EXCEPT !.pc = "remove", !.op = "remove", !.id = u]]
  /\ UNCHANGED <<users, privacy, sms, uses, spoiled, failures>> /\ Watch

\* The foreign key of user_privacy_setting keeps a user with settings.
Remove(c) ==
  LET u == call[c].id
  IN /\ At(c, "remove")
     /\ IF u \in privacy
          THEN End(c) /\ UNCHANGED <<users, spoiled>>
          ELSE /\ users' = [users EXCEPT ![u].exists = FALSE]
               /\ spoiled' = spoiled \cup {u}
               /\ End(c)
     /\ UNCHANGED <<privacy, sms, uses, failures>> /\ Watch

\* The accounts these calls have inserted and not completed.
Registering(calls) ==
  {call[c].id : c \in {d \in calls : call[d].pc \in {"nickname", "privacy"} /\ call[d].op # "privacy"}}

AwaitFails(c) ==
  /\ ~AtRest(c)
  /\ failures < MaxFailures
  /\ failures' = failures + 1
  /\ spoiled' = spoiled \cup Registering({c})
  /\ End(c)
  /\ UNCHANGED <<users, privacy, sms, uses>> /\ Watch

\* The maps are in memory.
Restart ==
  /\ failures < MaxFailures
  /\ failures' = failures + 1
  /\ call' = [c \in Calls |-> IF AtRest(c) THEN call[c] ELSE Done]
  /\ spoiled' = spoiled \cup Registering(Calls)
  /\ sms' = [p \in Phones |-> NoCode]
  /\ UNCHANGED <<users, privacy, uses>> /\ Watch

Step(c) ==
  \/ \E p \in Phones :
       \/ LoginByCode(c, p) \/ RegisterClient(c, p) \/ LoginClientByPhone(c, p)
       \/ \E u \in Ids : BindPhone(c, u, p) \/ BindPhoneByWechat(c, u, p)
  \/ \E w \in Wx : LoginClient(c, w)
  \/ \E p \in Phones \cup {NoPhone} : AdminCreateUser(c, p)
  \/ \E u \in Ids : EditFind(c, u) \/ UpdatePrivacySetting(c, u) \/ RemoveFind(c, u)
  \/ FindByPhone(c) \/ Check(c) \/ InsertUser(c) \/ SaveNickname(c) \/ SavePrivacy(c)
  \/ Save(c) \/ Remove(c) \/ AwaitFails(c)

Next ==
  \/ \E c \in Calls : Step(c)
  \/ \E p \in Phones : SendCode(p) \/ CodeExpires(p) \/ Tick(p)
  \/ Restart

Spec == Init /\ [][Next]_vars

-----------------------------------------------------------------------------
(***************************************************************************)
(* Properties.                                                             *)
(***************************************************************************)
\* A verification code opens one door once: however many logins and bindings
\* present it at the same time, at most one of them gets past the check.
CodeUsedOnce == \A p \in Phones : uses[p] <= 1

\* When no call is under way, every account has its privacy settings, whichever
\* of the four ways created it and whoever else wrote to it meanwhile, unless an
\* administrator removed it or an error broke its registration off.
AccountsComplete == (\A c \in Calls : AtRest(c)) => Existing \ spoiled \subseteq privacy

\* No login succeeds for a user who was banned from its start to its end.
BannedStayOut == \A c \in Calls : At(c, "granted") => call[c].id \notin outcasts[c]
=============================================================================
