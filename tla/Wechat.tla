------------------------------- MODULE Wechat -------------------------------
(***************************************************************************)
(* The WeChat service: a login code is exchanged for an openid, a phone    *)
(* code for a phone number.  The second needs an access token, which all   *)
(* requests share in a variable of the module.                             *)
(*                                                                         *)
(* WeChat's side is external: it gives out tokens that live for Life       *)
(* steps, and may give up a token when a later one was given out.          *)
(***************************************************************************)
EXTENDS Integers

CONSTANTS
  Calls,     \* requests
  MaxToken,  \* bound on the tokens WeChat gives out
  Life,      \* expires_in
  Margin     \* the 300 s before its end in which a cached token is not used

Tokens == 1 .. MaxToken
NoCache == [token |-> 0, left |-> 0]

VARIABLES
  configured,  \* are the AppID and the AppSecret set
  age,         \* WeChat: the age of each token, Life when it has ended
  issued,      \* WeChat: the tokens given out
  revoked,     \* WeChat: tokens given up before their end
  cache,       \* accessTokenCache: the token and the time until expiresAt
  rejected,    \* history: tokens that WeChat refused in an answer already read
  call         \* local state of each request

wechat == <<age, issued, revoked>>
vars == <<configured, wechat, cache, rejected, call>>

Local == [pc : {"idle", "exchange", "askToken", "readToken", "lookUp", "refused", "done"},
          token : Tokens \cup {0}]
Idle == [pc |-> "idle", token |-> 0]
Done == [pc |-> "done", token |-> 0]

TypeOK ==
  /\ configured \in BOOLEAN
  /\ age \in [Tokens -> 0 .. Life] /\ issued \subseteq Tokens /\ revoked \subseteq issued
  /\ cache \in [token : Tokens \cup {0}, left : 0 .. Life]
  /\ rejected \subseteq issued
  /\ call \in [Calls -> Local]

Init ==
  /\ configured \in BOOLEAN
  /\ age = [t \in Tokens |-> 0] /\ issued = {} /\ revoked = {}
  /\ cache = NoCache /\ rejected = {}
  /\ call = [c \in Calls |-> Idle]

At(c, pc) == call[c].pc = pc

Move(c, pc, token) == call' = [call EXCEPT ![c] = [pc |-> pc, token |-> token]]

\* An administrator sets or blanks the credentials.
Configure ==
  /\ configured' = ~configured
  /\ UNCHANGED <<wechat, cache, rejected, call>>

\* An answer that brings a token does not take longer than the margin.
Tick ==
  /\ \A c \in Calls : At(c, "readToken") => age[call[c].token] < Margin
  /\ \E t \in issued : age[t] < Life
  /\ age' = [t \in Tokens |-> IF t \in issued /\ age[t] < Life THEN age[t] + 1 ELSE age[t]]
  /\ cache' = [cache EXCEPT !.left = IF @ > 0 THEN @ - 1 ELSE 0]
  /\ UNCHANGED <<configured, issued, revoked, rejected, call>>

Revoke(t) ==
  /\ t \in issued \ revoked /\ \E later \in issued : later > t
  /\ revoked' = revoked \cup {t}
  /\ UNCHANGED <<configured, age, issued, cache, rejected, call>>

(***************************************************************************)
(* resolveOpenId and code2Session: without credentials the openid is made  *)
(* up from the code; credentials blanked in between make WeChat refuse.    *)
(***************************************************************************)
ResolveOpenId(c) ==
  /\ At(c, "idle")
  /\ IF configured THEN Move(c, "exchange", 0) ELSE Move(c, "done", 0)
  /\ UNCHANGED <<configured, wechat, cache, rejected>>

Code2Session(c) ==
  /\ At(c, "exchange")
  /\ Move(c, "done", 0)
  /\ UNCHANGED <<configured, wechat, cache, rejected>>

(***************************************************************************)
(* getPhoneNumber and getAccessToken                                       *)
(***************************************************************************)
\* Mutation: the margin is forgotten.
UsableToItsEnd == cache.left > 0

Usable == cache.left > Margin

GetPhoneNumber(c) ==
  /\ At(c, "idle")
  /\ IF Usable THEN Move(c, "lookUp", cache.token) ELSE Move(c, "askToken", 0)
  /\ UNCHANGED <<configured, wechat, cache, rejected>>

\* Without credentials the request fails; WeChat may fail it too.
AskToken(c) ==
  /\ At(c, "askToken")
  /\ \/ /\ configured
        /\ \E t \in Tokens : /\ t \notin issued /\ \A older \in Tokens : older < t => older \in issued
                             /\ issued' = issued \cup {t}
                             /\ Move(c, "readToken", t)
     \/ Move(c, "done", 0) /\ UNCHANGED issued
  /\ UNCHANGED <<configured, age, revoked, cache, rejected>>

\* Requests that asked at the same time write in the order of their answers.
ReadToken(c) ==
  /\ At(c, "readToken")
  /\ cache' = [token |-> call[c].token, left |-> Life]
  /\ Move(c, "lookUp", call[c].token)
  /\ UNCHANGED <<configured, wechat, rejected>>

\* The answer gets lost or makes no sense.
LoseToken(c) ==
  /\ At(c, "readToken")
  /\ Move(c, "done", 0)
  /\ UNCHANGED <<configured, wechat, cache, rejected>>

Alive(t) == t \notin revoked /\ age[t] < Life

\* WeChat decides: a token that it does not know any more is refused with 40001
\* or 42001; a number, another error or no answer does not touch the cache.
LookUp(c) ==
  /\ At(c, "lookUp")
  /\ IF Alive(call[c].token) THEN Move(c, "done", 0) ELSE Move(c, "refused", call[c].token)
  /\ UNCHANGED <<configured, wechat, cache, rejected>>

\* Mutation: only 42001 clears the cache.
ReadRefusalOfExpired(c) ==
  /\ At(c, "refused")
  /\ cache' = IF call[c].token \in revoked THEN cache ELSE NoCache
  /\ rejected' = rejected \cup {call[c].token}
  /\ Move(c, "done", 0)
  /\ UNCHANGED <<configured, wechat>>

\* The cache is cleared whichever token it holds by now.
ReadRefusal(c) ==
  /\ At(c, "refused")
  /\ cache' = NoCache
  /\ rejected' = rejected \cup {call[c].token}
  /\ Move(c, "done", 0)
  /\ UNCHANGED <<configured, wechat>>

Next ==
  \/ \E c \in Calls :
       \/ ResolveOpenId(c) \/ Code2Session(c)
       \/ GetPhoneNumber(c) \/ AskToken(c) \/ ReadToken(c) \/ LoseToken(c)
       \/ LookUp(c) \/ ReadRefusal(c)
  \/ Configure \/ Tick
  \/ \E t \in Tokens : Revoke(t)

Spec == Init /\ [][Next]_vars

-----------------------------------------------------------------------------
(***************************************************************************)
(* Properties.                                                             *)
(***************************************************************************)
\* A request is never handed a cached token that has reached its end at WeChat,
\* although the time of the cache starts with the answer and not with the token,
\* and never one that WeChat has refused to another request: refreshes and
\* refusals of several requests cannot bring a bad token back into the cache.
HandedOutIsGood ==
  Usable => age[cache.token] < Life /\ cache.token \notin rejected
=============================================================================
