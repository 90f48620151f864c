---------------------------- MODULE ClientSession ----------------------------
(***************************************************************************)
(* Client sessions: issueSession, refreshClientSession and                 *)
(* logoutClientSession (auth.service.ts) over the in-memory table of       *)
(* refresh tokens (refresh-token.store.ts), with the bans, the clock and   *)
(* the restarts they run into.                                             *)
(*                                                                         *)
(* One tick of now is the second in which jwt.sign stamps a token.  A      *)
(* token is a signed string: two tokens of the same session, second and    *)
(* device claim are the same string (role changes, which alter its         *)
(* permissions claim, are not modelled here).  A login l starts session l. *)
(***************************************************************************)
EXTENDS Integers

CONSTANTS
  Users,
  Logins,      \* calls of loginClient, loginClientByPhone and loginByCode
  Refreshes,   \* calls of refreshClientSession
  Logouts,     \* calls of logoutClientSession
  AccessTTL,   \* 2 hours
  RefreshTTL,  \* 7 days
  MaxTime,     \* bound on the clock
  MaxFailures  \* bound on the failures and restarts of one behaviour

ASSUME CallsAssumption ==
  /\ Logins \cap Refreshes = {}
  /\ Logins \cap Logouts = {}
  /\ Refreshes \cap Logouts = {}

ASSUME TimesAssumption ==
  AccessTTL \in Nat /\ RefreshTTL \in Nat /\ MaxTime \in Nat /\ MaxFailures \in Nat

VARIABLES
  now,
  banned,    \* users with status BANNED
  store,     \* refresh tokens with a record in RefreshTokenStore
  held,      \* refresh tokens that clients have received
  login,     \* local state of each login
  refresh,   \* local state of each refresh
  logout,    \* local state of each logout
  ended,     \* sessions whose record a logout removed, or that logged out
  stopped,   \* calls that ended on a failed await or with the process
  failures

vars == <<now, banned, store, held, login, refresh, logout, ended, stopped, failures>>

Tokens == [session : Logins, at : 0 .. MaxTime, device : BOOLEAN]

NoToken == [session |-> "none", at |-> 0, device |-> FALSE]

LoginState == [pc : {"idle", "admitted", "stored", "done", "refused"},
               user : Users, device : BOOLEAN, at : 0 .. MaxTime]

RefreshState == [pc : {"idle", "admitted", "stored", "done", "refused"},
                 token : Tokens \cup {NoToken}, at : 0 .. MaxTime]

LogoutState == [pc : {"idle", "guarded", "done", "refused"}, token : Tokens \cup {NoToken}]

TypeOK ==
  /\ now \in 0 .. MaxTime
  /\ banned \subseteq Users
  /\ store \subseteq Tokens /\ held \subseteq Tokens
  /\ login \in [Logins -> LoginState]
  /\ refresh \in [Refreshes -> RefreshState]
  /\ logout \in [Logouts -> LogoutState]
  /\ ended \subseteq Logins
  /\ stopped \subseteq Logins \cup Refreshes \cup Logouts
  /\ failures \in 0 .. MaxFailures

Init ==
  /\ now = 0
  /\ banned = {}
  /\ store = {} /\ held = {}
  /\ login \in [Logins -> [pc : {"idle"}, user : Users, device : BOOLEAN, at : {0}]]
  /\ refresh = [r \in Refreshes |-> [pc |-> "idle", token |-> NoToken, at |-> 0]]
  /\ logout = [o \in Logouts |-> [pc |-> "idle", token |-> NoToken]]
  /\ ended = {}
  /\ stopped = {}
  /\ failures = 0

\* verifyAuthToken and RefreshTokenStore.find refuse a token from this second on.
Expired(t) == now >= t.at + RefreshTTL

(***************************************************************************)
(* Logins.                                                                 *)
(***************************************************************************)
LoginToken(l) == [session |-> l, at |-> login[l].at, device |-> login[l].device]

\* The user row is read (or made) and its status checked.
LoginFindUser(l) ==
  /\ l \notin stopped /\ login[l].pc = "idle"
  /\ login' = [login EXCEPT ![l].pc = IF login[l].user \in banned
                                        THEN "refused" ELSE "admitted"]
  /\ UNCHANGED <<now, banned, store, held, refresh, logout, ended, stopped, failures>>

\* issueSession after the permissions are read: sign both tokens, save the record.
LoginIssue(l) ==
  /\ l \notin stopped /\ login[l].pc = "admitted"
  /\ login' = [login EXCEPT ![l].pc = "stored", ![l].at = now]
  /\ store' = store \cup {[session |-> l, at |-> now, device |-> login[l].device]}
  /\ UNCHANGED <<now, banned, held, refresh, logout, ended, stopped, failures>>

\* issueSession after the profile and the configuration are read: the answer.
LoginAnswer(l) ==
  /\ l \notin stopped /\ login[l].pc = "stored"
  /\ login' = [login EXCEPT ![l].pc = "done"]
  /\ held' = held \cup {LoginToken(l)}
  /\ UNCHANGED <<now, banned, store, refresh, logout, ended, stopped, failures>>

(***************************************************************************)
(* Refreshes.  The route is public: no guard reads the user's status.      *)
(***************************************************************************)

\* Mutation: the old token is left in the table.
RefreshStartKeepsOld(r) ==
  /\ r \notin stopped /\ refresh[r].pc = "idle"
  /\ \E t \in held :
       /\ ~Expired(t)
       /\ refresh' = [refresh EXCEPT ![r].token = t,
                                     ![r].pc = IF t \in store THEN "admitted" ELSE "refused"]
  /\ UNCHANGED <<now, banned, store, held, login, logout, ended, stopped, failures>>

\* Mutation: the signature alone admits a token.
RefreshStartBySignature(r) ==
  /\ r \notin stopped /\ refresh[r].pc = "idle"
  /\ \E t \in held :
       /\ ~Expired(t)
       /\ refresh' = [refresh EXCEPT ![r].token = t, ![r].pc = "admitted"]
       /\ store' = store \ {t}
  /\ UNCHANGED <<now, banned, held, login, logout, ended, stopped, failures>>

\* refreshClientSession up to its first await: verify, find and revoke.  A client
\* may present any token it ever received, and an expired one changes nothing.
RefreshStart(r) ==
  /\ r \notin stopped /\ refresh[r].pc = "idle"
  /\ \E t \in held :
       /\ ~Expired(t)
       /\ refresh' = [refresh EXCEPT ![r].token = t,
                                     ![r].pc = IF t \in store THEN "admitted" ELSE "refused"]
       /\ store' = store \ {t}
  /\ UNCHANGED <<now, banned, held, login, logout, ended, stopped, failures>>

\* The token of a refresh: the device claim is not passed on.
RefreshToken(r) == [session |-> refresh[r].token.session, at |-> refresh[r].at, device |-> FALSE]

\* Mutation: the session id is not passed on.
RefreshIssueNewSession(r) ==
  /\ r \notin stopped /\ refresh[r].pc = "admitted"
  /\ refresh' = [refresh EXCEPT ![r].pc = "stored", ![r].at = now]
  /\ store' = store \cup {[session |-> r, at |-> now, device |-> FALSE]}
  /\ UNCHANGED <<now, banned, held, login, logout, ended, stopped, failures>>

\* Mutation: the old token is revoked (again) after the new one is saved.
RefreshIssueRevokesLast(r) ==
  /\ r \notin stopped /\ refresh[r].pc = "admitted"
  /\ refresh' = [refresh EXCEPT ![r].pc = "stored", ![r].at = now]
  /\ store' = (store \cup {[session |-> refresh[r].token.session, at |-> now,
                            device |-> FALSE]}) \ {refresh[r].token}
  /\ UNCHANGED <<now, banned, held, login, logout, ended, stopped, failures>>

\* issueSession in the same session.
RefreshIssue(r) ==
  /\ r \notin stopped /\ refresh[r].pc = "admitted"
  /\ refresh' = [refresh EXCEPT ![r].pc = "stored", ![r].at = now]
  /\ store' = store \cup {[session |-> refresh[r].token.session, at |-> now, device |-> FALSE]}
  /\ UNCHANGED <<now, banned, held, login, logout, ended, stopped, failures>>

RefreshAnswer(r) ==
  /\ r \notin stopped /\ refresh[r].pc = "stored"
  /\ refresh' = [refresh EXCEPT ![r].pc = "done"]
  /\ held' = held \cup {RefreshToken(r)}
  /\ UNCHANGED <<now, banned, store, login, logout, ended, stopped, failures>>

(***************************************************************************)
(* Logouts.  The access token of a session was issued with its refresh     *)
(* token and is good for AccessTTL, logged out or not.                     *)
(***************************************************************************)

\* The guards: the signature and expiry, then the status of the user.
LogoutGuard(o) ==
  /\ o \notin stopped /\ logout[o].pc = "idle"
  /\ \E t \in held :
       /\ now < t.at + AccessTTL
       /\ logout' = [logout EXCEPT ![o].token = t,
                       ![o].pc = IF login[t.session].user \in banned
                                   THEN "refused" ELSE "guarded"]
  /\ UNCHANGED <<now, banned, store, held, login, refresh, ended, stopped, failures>>

\* revokeBySession, then revoke of the refresh token in the body, if there is one.
LogoutRun(o) ==
  LET s == logout[o].token.session
      OfSession == {t \in store : t.session = s}
  IN /\ o \notin stopped /\ logout[o].pc = "guarded"
     /\ logout' = [logout EXCEPT ![o].pc = "done"]
     /\ \E body \in held \cup {NoToken} :
          /\ store' = store \ (OfSession \cup {body})
          /\ ended' = ended \cup {s} \cup {t.session : t \in store \cap {body}}
     /\ UNCHANGED <<now, banned, held, login, refresh, stopped, failures>>

(***************************************************************************)
(* The environment.                                                        *)
(***************************************************************************)

\* adminUpdateUserStatus, to BANNED and back.
SetStatus(u) ==
  /\ banned' = IF u \in banned THEN banned \ {u} ELSE banned \cup {u}
  /\ UNCHANGED <<now, store, held, login, refresh, logout, ended, stopped, failures>>

Tick ==
  /\ now < MaxTime
  /\ now' = now + 1
  /\ UNCHANGED <<banned, store, held, login, refresh, logout, ended, stopped, failures>>

Running ==
  {l \in Logins : login[l].pc \in {"admitted", "stored"}} \cup
  {r \in Refreshes : refresh[r].pc \in {"admitted", "stored"}} \cup
  {o \in Logouts : logout[o].pc = "guarded"}

\* A rejected await, or an answer that does not reach its client.
AwaitFails(c) ==
  /\ c \in Running \ stopped
  /\ failures < MaxFailures
  /\ failures' = failures + 1
  /\ stopped' = stopped \cup {c}
  /\ UNCHANGED <<now, banned, store, held, login, refresh, logout, ended>>

\* The table is in memory only.
Restart ==
  /\ failures < MaxFailures
  /\ failures' = failures + 1
  /\ store' = {}
  /\ stopped' = stopped \cup Running
  /\ UNCHANGED <<now, banned, held, login, refresh, logout, ended>>

LoginStep(l) == LoginFindUser(l) \/ LoginIssue(l) \/ LoginAnswer(l)
RefreshStep(r) == RefreshStart(r) \/ RefreshIssue(r) \/ RefreshAnswer(r)
LogoutStep(o) == LogoutGuard(o) \/ LogoutRun(o)

Next ==
  \/ \E l \in Logins : LoginStep(l)
  \/ \E r \in Refreshes : RefreshStep(r)
  \/ \E o \in Logouts : LogoutStep(o)
  \/ \E u \in Users : SetStatus(u)
  \/ \E c \in Logins \cup Refreshes \cup Logouts : AwaitFails(c)
  \/ Tick
  \/ Restart

Spec == Init /\ [][Next]_vars

(***************************************************************************)
(* Properties.                                                             *)
(***************************************************************************)

Live(s) == {t \in store : t.session = s}

\* Refreshes that have taken the token of s out of the table and not yet saved
\* the next one.
Renewing(s) == {r \in Refreshes \ stopped :
                  refresh[r].pc = "admitted" /\ refresh[r].token.session = s}

\* A session never forks: it has one live token, or one refresh that will save
\* one, or neither, however many refreshes present its tokens at once
\* (find and revoke run before the first await).
OneLiveToken ==
  \A s \in Logins :
    /\ \A t, u \in Live(s) : t = u
    /\ \A q, r \in Renewing(s) : q = r
    /\ Live(s) = {} \/ Renewing(s) = {}

\* The session has been issued and nothing can renew it.
Dead(s) ==
  /\ login[s].pc \in {"stored", "done"}
  /\ Live(s) = {} /\ Renewing(s) = {}

\* A session that is logged out, expired or lost never comes back to life,
\* whatever old tokens clients still present.
DeadStaysDead == [][\A s \in Logins : Dead(s) => Dead(s)']_vars

\* Without failures and logouts, a client whose token has not expired and whose
\* refresh is not under way holds a token that the server will accept: one that is
\* in the table and has not expired, even when the old and the new token are the
\* same string.
NoLockout ==
  \A s \in Logins :
    /\ failures = 0
    /\ s \notin ended
    /\ \A r \in Refreshes : refresh[r].token.session = s =>
         refresh[r].pc \in {"done", "refused"}
    /\ \E t \in held : t.session = s /\ ~Expired(t)
    => \E t \in Live(s) \cap held : ~Expired(t)

\* "Revokes every refresh token of the session" (auth.service.ts:159): a session
\* that has logged out has no refresh token.
LogoutIsFinal == \A s \in ended : Live(s) = {}

\* "Revoke the old refresh token, so that it cannot be used again"
\* (auth.service.ts:139): no live token was already exchanged.
ExchangedIsDead ==
  \A r \in Refreshes : refresh[r].pc \in {"stored", "done"} => refresh[r].token \notin store
===============================================================================
