------------------------- MODULE ClientSessionProofs -------------------------
(***************************************************************************)
(* Safety of ClientSession for every set of users and calls and every      *)
(* lifetime of the tokens.                                                 *)
(***************************************************************************)
EXTENDS ClientSession, TLAPS

(***************************************************************************)
(* Types.  A login knows the session it made, a refresh the token it was   *)
(* given, and a token exists only for a session that was issued.           *)
(***************************************************************************)

Issued(s) == login[s].pc \in {"stored", "done"}

Origins ==
  /\ \A t \in store \cup held : Issued(t.session)
  /\ \A r \in Refreshes : refresh[r].pc # "idle" =>
       refresh[r].token \in Tokens /\ Issued(refresh[r].token.session)
  /\ \A o \in Logouts : logout[o].pc # "idle" => logout[o].token \in Tokens

TypeInv == TypeOK /\ Origins

\* The fields of the calls and of the tokens.
LEMMA FieldTypes ==
  ASSUME TypeOK
  PROVE  /\ \A l \in Logins : /\ login[l] \in LoginState
                              /\ login[l].user \in Users /\ login[l].device \in BOOLEAN
                              /\ login[l].at \in 0 .. MaxTime
         /\ \A r \in Refreshes : /\ refresh[r] \in RefreshState
                                 /\ refresh[r].at \in 0 .. MaxTime
         /\ \A o \in Logouts : logout[o] \in LogoutState
         /\ \A t \in store \cup held : /\ t \in Tokens /\ t.session \in Logins
                                       /\ t.at \in 0 .. MaxTime
  BY DEF TypeOK, LoginState, RefreshState, LogoutState, Tokens

\* The initial state has its types and no token.
LEMMA TypeInvInit == Init => TypeInv
<1> SUFFICES ASSUME Init PROVE TypeInv
  OBVIOUS
<1>1. login \in [Logins -> LoginState]
  BY TimesAssumption DEF Init, LoginState
<1>2. refresh \in [Refreshes -> RefreshState]
  BY TimesAssumption DEF Init, RefreshState
<1>3. logout \in [Logouts -> LogoutState]
  BY DEF Init, LogoutState
<1>4. TypeOK
  BY <1>1, <1>2, <1>3, TimesAssumption DEF Init, TypeOK
<1>5. Origins
  BY DEF Init, Origins
<1>6. QED
  BY <1>4, <1>5 DEF TypeInv

\* Every step keeps the types and the origins of the tokens.
LEMMA TypeInvStep == TypeInv /\ [Next]_vars => TypeInv'
<1> SUFFICES ASSUME TypeInv, [Next]_vars PROVE TypeInv'
  OBVIOUS
<1>0. TypeOK /\ Origins
  BY DEF TypeInv
<1>1. ASSUME NEW l \in Logins, LoginFindUser(l) PROVE TypeInv'
  <2>1. login' \in [Logins -> LoginState]
    BY <1>0, <1>1 DEF LoginFindUser, TypeOK, LoginState
  <2>2. \A s \in Logins : Issued(s) => Issued(s)'
    BY <1>0, <1>1 DEF LoginFindUser, TypeOK, Issued, LoginState
  <2>3. Origins'
    BY <1>0, <1>1, <2>2, FieldTypes DEF LoginFindUser, Origins, Tokens
  <2>4. QED
    BY <1>0, <1>1, <2>1, <2>3 DEF LoginFindUser, TypeInv, TypeOK
<1>2. ASSUME NEW l \in Logins, LoginIssue(l) PROVE TypeInv'
  <2>1. login' \in [Logins -> LoginState]
    <3>1. login' = [login EXCEPT ![l] = [login[l] EXCEPT !.pc = "stored", !.at = now]]
      BY <1>0, <1>2 DEF LoginIssue, TypeOK
    <3>2. login \in [Logins -> LoginState] /\ login[l] \in LoginState /\ now \in 0 .. MaxTime
      BY <1>0 DEF TypeOK
    <3>3. [login[l] EXCEPT !.pc = "stored", !.at = now] \in LoginState
      BY <3>2 DEF LoginState
    <3>4. QED
      BY <3>1, <3>2, <3>3
  <2>2. (\A s \in Logins : Issued(s) => Issued(s)') /\ Issued(l)'
    BY <1>0, <1>2 DEF LoginIssue, TypeOK, Issued, LoginState
  <2>3. [session |-> l, at |-> now, device |-> login[l].device] \in Tokens
    BY <1>0, FieldTypes DEF Tokens, TypeOK
  <2>4. store' \subseteq Tokens
    BY <1>0, <1>2, <2>3 DEF LoginIssue, TypeOK
  <2>5. Origins'
    BY <1>0, <1>2, <2>2, FieldTypes DEF LoginIssue, Origins, Tokens
  <2>6. QED
    BY <1>0, <1>2, <2>1, <2>4, <2>5 DEF LoginIssue, TypeInv, TypeOK
<1>3. ASSUME NEW l \in Logins, LoginAnswer(l) PROVE TypeInv'
  <2>1. login' \in [Logins -> LoginState]
    BY <1>0, <1>3 DEF LoginAnswer, TypeOK, LoginState
  <2>2. (\A s \in Logins : Issued(s) => Issued(s)') /\ Issued(l)'
    BY <1>0, <1>3 DEF LoginAnswer, TypeOK, Issued, LoginState
  <2>3. LoginToken(l) \in Tokens /\ LoginToken(l).session = l
    BY <1>0, FieldTypes DEF Tokens, LoginToken
  <2>4. held' \subseteq Tokens
    BY <1>0, <1>3, <2>3 DEF LoginAnswer, TypeOK
  <2>5. Origins'
    BY <1>0, <1>3, <2>2, <2>3, FieldTypes DEF LoginAnswer, Origins, Tokens
  <2>6. QED
    BY <1>0, <1>3, <2>1, <2>4, <2>5 DEF LoginAnswer, TypeInv, TypeOK
<1>4. ASSUME NEW r \in Refreshes, RefreshStart(r) PROVE TypeInv'
  <2>1. PICK t \in held :
          /\ refresh' = [refresh EXCEPT ![r].token = t,
                           ![r].pc = IF t \in store THEN "admitted" ELSE "refused"]
          /\ store' = store \ {t}
    BY <1>4 DEF RefreshStart
  <2>2. t \in Tokens /\ Issued(t.session)
    BY <1>0, FieldTypes DEF Origins
  <2>3. refresh' \in [Refreshes -> RefreshState]
    <3> DEFINE pc == IF t \in store THEN "admitted" ELSE "refused"
    <3>1. pc \in {"admitted", "refused"}
      OBVIOUS
    <3>2. refresh' = [refresh EXCEPT ![r] = [refresh[r] EXCEPT !.token = t, !.pc = pc]]
      BY <1>0, <2>1 DEF TypeOK
    <3> HIDE DEF pc
    <3>3. refresh \in [Refreshes -> RefreshState] /\ refresh[r] \in RefreshState
      BY <1>0 DEF TypeOK
    <3>4. [refresh[r] EXCEPT !.token = t, !.pc = pc] \in RefreshState
      BY <2>2, <3>1, <3>3 DEF RefreshState
    <3>5. QED
      BY <3>2, <3>3, <3>4
  <2>4. Origins'
    BY <1>0, <1>4, <2>1, <2>2 DEF RefreshStart, Origins, TypeOK, RefreshState, Issued
  <2>5. QED
    BY <1>0, <1>4, <2>1, <2>3, <2>4 DEF RefreshStart, TypeInv, TypeOK
<1>5. ASSUME NEW r \in Refreshes, RefreshIssue(r) PROVE TypeInv'
  <2>1. refresh[r].token \in Tokens /\ Issued(refresh[r].token.session)
    BY <1>0, <1>5 DEF RefreshIssue, Origins
  <2>2. refresh' \in [Refreshes -> RefreshState]
    <3>1. refresh' = [refresh EXCEPT ![r] = [refresh[r] EXCEPT !.pc = "stored", !.at = now]]
      BY <1>0, <1>5 DEF RefreshIssue, TypeOK
    <3>2. refresh \in [Refreshes -> RefreshState] /\ refresh[r] \in RefreshState /\ now \in 0 .. MaxTime
      BY <1>0 DEF TypeOK
    <3>3. [refresh[r] EXCEPT !.pc = "stored", !.at = now] \in RefreshState
      BY <3>2 DEF RefreshState
    <3>4. QED
      BY <3>1, <3>2, <3>3
  <2>3. [session |-> refresh[r].token.session, at |-> now, device |-> FALSE] \in Tokens
    BY <1>0, <2>1 DEF Tokens, TypeOK
  <2>4. store' \subseteq Tokens
    BY <1>0, <1>5, <2>3 DEF RefreshIssue, TypeOK
  <2>5. Origins'
    BY <1>0, <1>5, <2>1 DEF RefreshIssue, Origins, TypeOK, RefreshState, Issued
  <2>6. QED
    BY <1>0, <1>5, <2>2, <2>4, <2>5 DEF RefreshIssue, TypeInv, TypeOK
<1>6. ASSUME NEW r \in Refreshes, RefreshAnswer(r) PROVE TypeInv'
  <2>1. refresh[r].token \in Tokens /\ Issued(refresh[r].token.session)
    BY <1>0, <1>6 DEF RefreshAnswer, Origins
  <2>2. refresh' \in [Refreshes -> RefreshState]
    BY <1>0, <1>6 DEF RefreshAnswer, TypeOK, RefreshState
  <2>3. RefreshToken(r) \in Tokens /\ RefreshToken(r).session = refresh[r].token.session
    BY <1>0, <2>1, FieldTypes DEF Tokens, RefreshToken
  <2>4. held' \subseteq Tokens
    BY <1>0, <1>6, <2>3 DEF RefreshAnswer, TypeOK
  <2>5. Origins'
    BY <1>0, <1>6, <2>1, <2>3 DEF RefreshAnswer, Origins, TypeOK, RefreshState, Issued
  <2>6. QED
    BY <1>0, <1>6, <2>2, <2>4, <2>5 DEF RefreshAnswer, TypeInv, TypeOK
<1>7. ASSUME NEW o \in Logouts, LogoutGuard(o) PROVE TypeInv'
  <2>1. PICK t \in held :
          logout' = [logout EXCEPT ![o].token = t,
                       ![o].pc = IF login[t.session].user \in banned
                                   THEN "refused" ELSE "guarded"]
    BY <1>7 DEF LogoutGuard
  <2>2. t \in Tokens
    BY <1>0, FieldTypes
  <2>3. logout' \in [Logouts -> LogoutState]
    <3> DEFINE pc == IF login[t.session].user \in banned THEN "refused" ELSE "guarded"
    <3>1. logout' = [logout EXCEPT ![o] = [logout[o] EXCEPT !.token = t, !.pc = pc]]
      BY <1>0, <2>1 DEF TypeOK
    <3>2. logout \in [Logouts -> LogoutState] /\ logout[o] \in LogoutState /\ t \in Tokens
      BY <1>0, <2>2 DEF TypeOK
    <3>3. [logout[o] EXCEPT !.token = t, !.pc = pc] \in LogoutState
      BY <3>2 DEF LogoutState
    <3>4. QED
      BY <3>1, <3>2, <3>3
  <2>4. Origins'
    BY <1>0, <1>7, <2>1, <2>2 DEF LogoutGuard, Origins, TypeOK, LogoutState, Issued
  <2>5. QED
    BY <1>0, <1>7, <2>3, <2>4 DEF LogoutGuard, TypeInv, TypeOK
<1>8. ASSUME NEW o \in Logouts, LogoutRun(o) PROVE TypeInv'
  <2> DEFINE s == logout[o].token.session
  <2>1. logout[o].token \in Tokens /\ s \in Logins
    BY <1>0, <1>8 DEF LogoutRun, Origins, Tokens
  <2>2. logout' \in [Logouts -> LogoutState]
    BY <1>0, <1>8 DEF LogoutRun, TypeOK, LogoutState
  <2>3. store' \subseteq store
    BY <1>8 DEF LogoutRun
  <2>4. ended' \subseteq Logins
    BY <1>0, <1>8, <2>1, FieldTypes DEF LogoutRun, TypeOK
  <2>5. Origins'
    BY <1>0, <1>8, <2>3 DEF LogoutRun, Origins, TypeOK, LogoutState, Issued
  <2>6. QED
    BY <1>0, <1>8, <2>2, <2>3, <2>4, <2>5 DEF LogoutRun, TypeInv, TypeOK
<1>9. ASSUME NEW u \in Users, SetStatus(u) PROVE TypeInv'
  BY <1>0, <1>9 DEF SetStatus, TypeInv, TypeOK, Origins, Issued
<1>10. ASSUME Tick PROVE TypeInv'
  BY <1>0, <1>10, TimesAssumption DEF Tick, TypeInv, TypeOK, Origins, Issued
<1>11. ASSUME NEW c \in Logins \cup Refreshes \cup Logouts, AwaitFails(c) PROVE TypeInv'
  BY <1>0, <1>11, TimesAssumption DEF AwaitFails, TypeInv, TypeOK, Origins, Issued
<1>12. ASSUME Restart PROVE TypeInv'
  <2>1. Running \subseteq Logins \cup Refreshes \cup Logouts
    BY DEF Running
  <2>2. QED
    BY <1>0, <1>12, <2>1, TimesAssumption DEF Restart, TypeInv, TypeOK, Origins, Issued
<1>13. ASSUME UNCHANGED vars PROVE TypeInv'
  BY <1>0, <1>13 DEF vars, TypeInv, TypeOK, Origins, Issued
<1>14. QED
  BY <1>1, <1>2, <1>3, <1>4, <1>5, <1>6, <1>7, <1>8, <1>9, <1>10, <1>11, <1>12, <1>13
  DEF Next, LoginStep, RefreshStep, LogoutStep

\* Every variable of the session service keeps its type.
THEOREM TypeCorrect == Spec => []TypeOK
<1>1. TypeInv => TypeOK
  BY DEF TypeInv
<1>2. QED
  BY <1>1, TypeInvInit, TypeInvStep, PTL DEF Spec

(***************************************************************************)
(* One live token.  A token of a session under renewal is not in the table,*)
(* so a second refresh with the same token finds nothing.                  *)
(***************************************************************************)

SessionInv == TypeInv /\ OneLiveToken

\* Only a session that was issued has a live token or a refresh under way.
LEMMA UnissuedIsEmpty ==
  ASSUME TypeInv, NEW s \in Logins, ~Issued(s)
  PROVE  Live(s) = {} /\ Renewing(s) = {}
  BY DEF TypeInv, Origins, Live, Renewing

\* What is live in a session, and what renews it, after a step that removes
\* tokens and ends refreshes, is part of what was there before.
LEMMA Shrinks ==
  ASSUME OneLiveToken,
         \A s \in Logins : Live(s)' \subseteq Live(s) /\ Renewing(s)' \subseteq Renewing(s)
  PROVE  OneLiveToken'
<1>1. \A s \in Logins :
        /\ \A t, u \in Live(s) : t = u
        /\ \A q, r \in Renewing(s) : q = r
        /\ Live(s) = {} \/ Renewing(s) = {}
  BY DEF OneLiveToken
<1>2. \A s \in Logins :
        /\ \A t, u \in Live(s)' : t = u
        /\ \A q, r \in Renewing(s)' : q = r
        /\ Live(s)' = {} \/ Renewing(s)' = {}
  BY <1>1
<1>3. QED
  BY <1>2 DEF OneLiveToken

\* Saving the first token of a session.
LEMMA LoginIssueStep ==
  ASSUME SessionInv, NEW l \in Logins, LoginIssue(l)
  PROVE  OneLiveToken'
<1>0. TypeInv /\ TypeOK /\ OneLiveToken
  BY DEF SessionInv, TypeInv
<1> DEFINE new == [session |-> l, at |-> now, device |-> login[l].device]
<1>1. ~Issued(l)
  BY DEF LoginIssue, Issued
<1>2. Live(l) = {} /\ Renewing(l) = {}
  BY <1>0, <1>1, UnissuedIsEmpty
<1>3. store' = store \cup {new} /\ new.session = l
  BY DEF LoginIssue
<1>4. \A s \in Logins : Renewing(s)' = Renewing(s)
  BY DEF LoginIssue, Renewing
<1>5. Live(l)' = {new}
  BY <1>2, <1>3 DEF Live
<1>6. \A s \in Logins \ {l} : Live(s)' = Live(s)
  BY <1>3 DEF Live
<1>7. ASSUME NEW s \in Logins
      PROVE  /\ \A t, u \in Live(s)' : t = u
             /\ \A q, r \in Renewing(s)' : q = r
             /\ Live(s)' = {} \/ Renewing(s)' = {}
  <2>1. CASE s = l
    BY <1>2, <1>4, <1>5, <2>1
  <2>2. CASE s # l
    BY <1>0, <1>4, <1>6, <2>2 DEF OneLiveToken
  <2>3. QED
    BY <2>1, <2>2
<1>8. QED
  BY <1>7 DEF OneLiveToken

\* Taking the token of a session out of the table.
LEMMA RefreshStartStep ==
  ASSUME SessionInv, NEW r \in Refreshes, RefreshStart(r)
  PROVE  OneLiveToken'
<1>0. TypeInv /\ TypeOK /\ OneLiveToken
  BY DEF SessionInv, TypeInv
<1>1. PICK t \in held :
        /\ refresh' = [refresh EXCEPT ![r].token = t,
                         ![r].pc = IF t \in store THEN "admitted" ELSE "refused"]
        /\ store' = store \ {t}
  BY DEF RefreshStart
<1>2. /\ refresh[r].pc = "idle" /\ refresh \in [Refreshes -> RefreshState]
      /\ r \notin stopped /\ stopped' = stopped /\ t.session \in Logins
  BY <1>0, FieldTypes DEF RefreshStart, TypeOK
<1>3. \A q \in Refreshes \ {r} : refresh'[q] = refresh[q]
  BY <1>1, <1>2
<1>4. refresh'[r].pc = (IF t \in store THEN "admitted" ELSE "refused") /\ refresh'[r].token = t
  BY <1>1, <1>2 DEF RefreshState
<1>5. CASE t \notin store
  <2>1. \A s \in Logins : Live(s)' \subseteq Live(s)
    BY <1>1 DEF Live
  <2>2. \A s \in Logins : Renewing(s)' \subseteq Renewing(s)
    BY <1>2, <1>3, <1>4, <1>5 DEF Renewing
  <2>3. QED
    BY <1>0, <2>1, <2>2, Shrinks
<1>6. CASE t \in store
  <2>1. t \in Live(t.session)
    BY <1>6 DEF Live
  <2>2. Renewing(t.session) = {} /\ Live(t.session) = {t}
    BY <1>0, <1>2, <2>1 DEF OneLiveToken
  <2>3. Live(t.session)' = {}
    BY <1>1, <2>2 DEF Live
  <2>4. Renewing(t.session)' = {r}
    <3>1. \A q \in Refreshes : q \in Renewing(t.session)' => q = r
      BY <1>2, <1>3, <2>2 DEF Renewing
    <3>2. r \in Renewing(t.session)'
      BY <1>2, <1>4, <1>6 DEF Renewing
    <3>3. QED
      BY <3>1, <3>2 DEF Renewing
  <2>5. \A s \in Logins \ {t.session} : Live(s)' \subseteq Live(s)
    BY <1>1 DEF Live
  <2>6. \A s \in Logins \ {t.session} : Renewing(s)' \subseteq Renewing(s)
    BY <1>2, <1>3, <1>4 DEF Renewing
  <2>7. ASSUME NEW s \in Logins
        PROVE  /\ \A v, w \in Live(s)' : v = w
               /\ \A p, q \in Renewing(s)' : p = q
               /\ Live(s)' = {} \/ Renewing(s)' = {}
    <3>1. CASE s = t.session
      BY <2>3, <2>4, <3>1
    <3>2. CASE s # t.session
      <4>1. /\ \A v, w \in Live(s) : v = w
            /\ \A p, q \in Renewing(s) : p = q
            /\ Live(s) = {} \/ Renewing(s) = {}
        BY <1>0 DEF OneLiveToken
      <4>2. Live(s)' \subseteq Live(s) /\ Renewing(s)' \subseteq Renewing(s)
        BY <2>5, <2>6, <3>2
      <4>3. QED
        BY <4>1, <4>2
    <3>3. QED
      BY <3>1, <3>2
  <2>8. QED
    BY <2>7 DEF OneLiveToken
<1>7. QED
  BY <1>5, <1>6

\* Saving the next token of the session.
LEMMA RefreshIssueStep ==
  ASSUME SessionInv, NEW r \in Refreshes, RefreshIssue(r)
  PROVE  OneLiveToken'
<1>0. TypeInv /\ TypeOK /\ OneLiveToken
  BY DEF SessionInv, TypeInv
<1>1. refresh[r].token.session \in Logins
  BY <1>0 DEF RefreshIssue, TypeInv, Origins, Tokens
\* Constant names: in Live(home)' only the variables of Live are primed.
<1>2a. PICK home \in Logins : home = refresh[r].token.session
  BY <1>1
<1>2b. PICK new : new = [session |-> home, at |-> now, device |-> FALSE]
  OBVIOUS
<1>2. /\ refresh[r].pc = "admitted" /\ refresh \in [Refreshes -> RefreshState]
      /\ r \notin stopped /\ stopped' = stopped
      /\ store' = store \cup {new} /\ new.session = home
      /\ refresh' = [refresh EXCEPT ![r].pc = "stored", ![r].at = now]
  BY <1>0, <1>2a, <1>2b DEF RefreshIssue, TypeOK
<1>3. r \in Renewing(home)
  BY <1>2, <1>2a DEF Renewing
<1>4. Renewing(home) = {r} /\ Live(home) = {}
  BY <1>0, <1>3 DEF OneLiveToken
<1>5. /\ \A q \in Refreshes \ {r} : refresh'[q] = refresh[q]
      /\ refresh'[r].pc = "stored"
  BY <1>2 DEF RefreshState
<1>6. Live(home)' = {new}
  BY <1>2, <1>4 DEF Live
<1>7. \A s \in Logins \ {home} : Live(s)' = Live(s)
  BY <1>2 DEF Live
<1>8. \A s \in Logins : Renewing(s)' = Renewing(s) \ {r}
  BY <1>2, <1>5 DEF Renewing
<1>8a. Renewing(home)' = {}
  BY <1>4, <1>8
<1>9. ASSUME NEW s \in Logins
      PROVE  /\ \A v, w \in Live(s)' : v = w
             /\ \A p, q \in Renewing(s)' : p = q
             /\ Live(s)' = {} \/ Renewing(s)' = {}
  <2>1. CASE s = home
    <3>1. Live(s)' = {new}
      BY <1>6, <2>1
    <3>2. Renewing(s)' = {}
      BY <1>8a, <2>1
    <3>3. QED
      BY <3>1, <3>2
  <2>2. CASE s # home
    <3>1. /\ \A v, w \in Live(s) : v = w
          /\ \A p, q \in Renewing(s) : p = q
          /\ Live(s) = {} \/ Renewing(s) = {}
      BY <1>0 DEF OneLiveToken
    <3>2. Live(s)' = Live(s) /\ Renewing(s)' \subseteq Renewing(s)
      BY <1>7, <1>8, <2>2
    <3>3. QED
      BY <3>1, <3>2
  <2>3. QED
    BY <2>1, <2>2
<1>10. QED
  BY <1>9 DEF OneLiveToken

\* Every step keeps the session invariant.
LEMMA SessionInvStep == SessionInv /\ [Next]_vars => SessionInv'
<1> SUFFICES ASSUME SessionInv, [Next]_vars PROVE OneLiveToken'
  BY TypeInvStep DEF SessionInv
<1>0. TypeOK /\ OneLiveToken
  BY DEF SessionInv, TypeInv
<1> DEFINE Less == \A s \in Logins : /\ Live(s)' \subseteq Live(s)
                                     /\ Renewing(s)' \subseteq Renewing(s)
<1>1. Less => OneLiveToken'
  BY <1>0, Shrinks
<1>2. ASSUME NEW l \in Logins, LoginFindUser(l) PROVE Less
  BY <1>2 DEF LoginFindUser, Live, Renewing
<1>3. ASSUME NEW l \in Logins, LoginAnswer(l) PROVE Less
  BY <1>3 DEF LoginAnswer, Live, Renewing
<1>4. ASSUME NEW r \in Refreshes, RefreshAnswer(r) PROVE Less
  BY <1>0, <1>4 DEF RefreshAnswer, Live, Renewing, TypeOK, RefreshState
<1>5. ASSUME NEW o \in Logouts, LogoutGuard(o) PROVE Less
  BY <1>5 DEF LogoutGuard, Live, Renewing
<1>6. ASSUME NEW o \in Logouts, LogoutRun(o) PROVE Less
  BY <1>6 DEF LogoutRun, Live, Renewing
<1>7. ASSUME NEW u \in Users, SetStatus(u) PROVE Less
  BY <1>7 DEF SetStatus, Live, Renewing
<1>8. ASSUME Tick PROVE Less
  BY <1>8 DEF Tick, Live, Renewing
<1>9. ASSUME NEW c \in Logins \cup Refreshes \cup Logouts, AwaitFails(c) PROVE Less
  BY <1>9 DEF AwaitFails, Live, Renewing
<1>10. ASSUME Restart PROVE Less
  BY <1>10 DEF Restart, Live, Renewing
<1>11. ASSUME UNCHANGED vars PROVE Less
  BY <1>11 DEF vars, Live, Renewing
<1> HIDE DEF Less
<1>12. QED
  BY <1>1, <1>2, <1>3, <1>4, <1>5, <1>6, <1>7, <1>8, <1>9, <1>10, <1>11,
     LoginIssueStep, RefreshStartStep, RefreshIssueStep
  DEF Next, LoginStep, RefreshStep, LogoutStep

LEMMA SessionInvInit == Init => SessionInv
  BY TypeInvInit DEF SessionInv, Init, OneLiveToken, Live, Renewing

\* A session never forks (find and revoke run before the first await of
\* refreshClientSession).
THEOREM OneLiveTokenCorrect == Spec => []OneLiveToken
<1>1. SessionInv => OneLiveToken
  BY DEF SessionInv
<1>2. QED
  BY <1>1, SessionInvInit, SessionInvStep, PTL DEF Spec

(***************************************************************************)
(* Dead sessions.                                                          *)
(***************************************************************************)

\* No step revives a dead session: only an issue adds a token, and a dead
\* session has neither a login nor a refresh that will issue one.
LEMMA DeadStep ==
  ASSUME TypeInv, [Next]_vars, NEW s \in Logins, Dead(s)
  PROVE  Dead(s)'
<1>0. TypeOK /\ Origins
  BY DEF TypeInv
<1>1. login[s].pc \in {"stored", "done"} /\ Live(s) = {} /\ Renewing(s) = {}
  BY DEF Dead
<1> DEFINE Still == /\ login'[s].pc \in {"stored", "done"}
                    /\ Live(s)' \subseteq Live(s) /\ Renewing(s)' \subseteq Renewing(s)
<1>2. Still => Dead(s)'
  BY <1>1 DEF Dead
<1>3. ASSUME NEW l \in Logins, LoginFindUser(l) PROVE Still
  BY <1>0, <1>1, <1>3 DEF LoginFindUser, Live, Renewing, TypeOK, LoginState
<1>4. ASSUME NEW l \in Logins, LoginIssue(l) PROVE Still
  <2>1. l # s
    BY <1>1, <1>4 DEF LoginIssue
  <2>2. QED
    BY <1>0, <1>1, <1>4, <2>1 DEF LoginIssue, Live, Renewing, TypeOK, LoginState
<1>5. ASSUME NEW l \in Logins, LoginAnswer(l) PROVE Still
  BY <1>0, <1>1, <1>5 DEF LoginAnswer, Live, Renewing, TypeOK, LoginState
<1>6. ASSUME NEW r \in Refreshes, RefreshStart(r) PROVE Still
  <2>1. PICK t \in held :
          /\ refresh' = [refresh EXCEPT ![r].token = t,
                           ![r].pc = IF t \in store THEN "admitted" ELSE "refused"]
          /\ store' = store \ {t}
    BY <1>6 DEF RefreshStart
  <2>2. t \in store => t.session # s
    BY <1>1 DEF Live
  <2>3. \A q \in Refreshes \ {r} : refresh'[q] = refresh[q]
    BY <1>0, <2>1 DEF TypeOK
  <2>4. refresh'[r].pc = "admitted" => refresh'[r].token.session # s
    BY <1>0, <2>1, <2>2 DEF TypeOK, RefreshState
  <2>5. Renewing(s)' \subseteq Renewing(s)
    BY <1>6, <2>3, <2>4 DEF RefreshStart, Renewing
  <2>6. QED
    BY <1>1, <1>6, <2>1, <2>5 DEF RefreshStart, Live
<1>7. ASSUME NEW r \in Refreshes, RefreshIssue(r) PROVE Still
  <2>1. refresh[r].token.session # s
    BY <1>1, <1>7 DEF RefreshIssue, Renewing
  <2>2. Live(s)' = Live(s)
    BY <1>7, <2>1 DEF RefreshIssue, Live
  <2>3. Renewing(s)' \subseteq Renewing(s)
    BY <1>0, <1>7 DEF RefreshIssue, Renewing, TypeOK, RefreshState
  <2>4. QED
    BY <1>1, <1>7, <2>2, <2>3 DEF RefreshIssue
<1>8. ASSUME NEW r \in Refreshes, RefreshAnswer(r) PROVE Still
  BY <1>0, <1>1, <1>8 DEF RefreshAnswer, Live, Renewing, TypeOK, RefreshState
<1>9. ASSUME NEW o \in Logouts, LogoutGuard(o) PROVE Still
  BY <1>1, <1>9 DEF LogoutGuard, Live, Renewing
<1>10. ASSUME NEW o \in Logouts, LogoutRun(o) PROVE Still
  BY <1>1, <1>10 DEF LogoutRun, Live, Renewing
<1>11. ASSUME NEW u \in Users, SetStatus(u) PROVE Still
  BY <1>1, <1>11 DEF SetStatus, Live, Renewing
<1>12. ASSUME Tick PROVE Still
  BY <1>1, <1>12 DEF Tick, Live, Renewing
<1>13. ASSUME NEW c \in Logins \cup Refreshes \cup Logouts, AwaitFails(c) PROVE Still
  BY <1>1, <1>13 DEF AwaitFails, Live, Renewing
<1>14. ASSUME Restart PROVE Still
  BY <1>1, <1>14 DEF Restart, Live, Renewing
<1>15. ASSUME UNCHANGED vars PROVE Still
  BY <1>1, <1>15 DEF vars, Live, Renewing
<1> HIDE DEF Still
<1>16. QED
  BY <1>2, <1>3, <1>4, <1>5, <1>6, <1>7, <1>8, <1>9, <1>10, <1>11, <1>12, <1>13, <1>14, <1>15
  DEF Next, LoginStep, RefreshStep, LogoutStep

\* A session that is logged out, expired or lost never comes back to life.
THEOREM DeadStaysDeadCorrect == Spec => DeadStaysDead
<1>1. TypeInv /\ [Next]_vars => [\A s \in Logins : Dead(s) => Dead(s)']_vars
  BY DeadStep
<1>2. QED
  BY <1>1, TypeInvInit, TypeInvStep, PTL DEF Spec, DeadStaysDead
(***************************************************************************)
(* No lockout.  A session has a token in the table or a refresh that will  *)
(* save one; the client holds that token or its answer is under way; and   *)
(* it is the youngest token of its session.                                *)
(***************************************************************************)

\* The answer that carries t to its client has not been sent.
Underway(t) ==
  \/ login[t.session].pc = "stored" /\ t = LoginToken(t.session)
  \/ \E r \in Refreshes : refresh[r].pc = "stored" /\ t = RefreshToken(r)

\* Until something fails, only a logout leaves an issued session without a token.
Renewable ==
  \A s \in Logins : failures = 0 /\ Issued(s) /\ s \notin ended =>
    Live(s) # {} \/ Renewing(s) # {}

\* What a client holds, or presented, was preceded by the answer of the login.
Answered ==
  /\ \A t \in held : login[t.session].pc = "done"
  /\ \A r \in Refreshes : refresh[r].pc # "idle" => login[refresh[r].token.session].pc = "done"

Delivered == \A t \in store : t \in held \/ Underway(t)

\* Nothing is stamped with a later second than now.
Past ==
  /\ \A t \in held : t.at <= now
  /\ \A r \in Refreshes : refresh[r].at <= now
  /\ \A l \in Logins : login[l].at <= now

Youngest ==
  \A t \in store :
    /\ \A u \in held : u.session = t.session => u.at <= t.at
    /\ \A r \in Refreshes : refresh[r].pc = "stored" /\ refresh[r].token.session = t.session =>
         refresh[r].at <= t.at
    /\ login[t.session].at <= t.at

ServedInv == Renewable /\ Answered /\ Delivered /\ Past /\ Youngest

LEMMA ServedInit == Init => ServedInv
BY TimesAssumption DEF Init, ServedInv, Renewable, Issued, Answered, Delivered, Past, Youngest

\* The served invariant is what NoLockout asks for.
LEMMA ServedInvImplies == SessionInv /\ ServedInv => NoLockout
<1> SUFFICES ASSUME SessionInv, ServedInv, NEW s \in Logins,
                    failures = 0, s \notin ended,
                    \A r \in Refreshes : refresh[r].token.session = s =>
                      refresh[r].pc \in {"done", "refused"},
                    NEW t \in held, t.session = s, ~Expired(t)
             PROVE  \E u \in Live(s) \cap held : ~Expired(u)
  BY DEF NoLockout
<1>0. TypeOK /\ Origins
  BY DEF SessionInv, TypeInv
<1>1. Renewing(s) = {}
  BY DEF Renewing
<1>2. Live(s) # {}
  BY <1>0, <1>1 DEF ServedInv, Renewable, Origins
<1>3. PICK u \in Live(s) : TRUE
  BY <1>2
<1>4. u \in store /\ u.session = s
  BY <1>3 DEF Live
<1>5. ~Underway(u)
  <2>1. login[s].pc = "done"
    BY DEF ServedInv, Answered
  <2>2. \A r \in Refreshes : refresh[r].pc = "stored" => refresh[r].token.session # s
    OBVIOUS
  <2>3. QED
    BY <1>4, <2>1, <2>2 DEF Underway, RefreshToken
<1>6. u \in held
  BY <1>4, <1>5 DEF ServedInv, Delivered
<1>7. t.at <= u.at
  BY <1>4 DEF ServedInv, Youngest
<1>8. t.at \in Nat /\ u.at \in Nat /\ now \in Nat
  BY <1>0, <1>4, FieldTypes, TimesAssumption DEF TypeOK
<1>9. ~Expired(u)
  BY <1>7, <1>8, TimesAssumption DEF Expired
<1>10. QED
  BY <1>3, <1>6, <1>9


\* Steps that leave the calls of the clients alone and save no token.
LEMMA QuietServes ==
  ASSUME SessionInv, ServedInv, login' = login, refresh' = refresh, held' = held,
         store' \subseteq store, now' \in {now, now + 1}, Renewable'
  PROVE  ServedInv'
<1>0. TypeOK
  BY DEF SessionInv, TypeInv
<1>1. Answered'
  BY DEF ServedInv, Answered
<1>2. Delivered'
  BY DEF ServedInv, Delivered, Underway, LoginToken, RefreshToken
<1>3. Past'
  <2>1. now \in Nat /\ now <= now'
    BY <1>0, TimesAssumption DEF TypeOK
  <2>2. \A t \in held : t.at \in Nat
    BY <1>0, FieldTypes
  <2>3. \A r \in Refreshes : refresh[r].at \in Nat
    BY <1>0, FieldTypes
  <2>4. \A l \in Logins : login[l].at \in Nat
    BY <1>0, FieldTypes
  <2>5. now' \in Nat
    BY <2>1
  <2>6. \A k \in Nat : k <= now => k <= now'
    BY <2>1, <2>5
  <2>7. QED
    BY <2>2, <2>3, <2>4, <2>6 DEF ServedInv, Past
<1>4. Youngest'
  BY DEF ServedInv, Youngest
<1>5. QED
  BY <1>1, <1>2, <1>3, <1>4 DEF ServedInv

LEMMA LoginFindUserServes ==
  ASSUME SessionInv, ServedInv, NEW l \in Logins, LoginFindUser(l)
  PROVE  ServedInv'
<1>0. TypeOK /\ Origins
  BY DEF SessionInv, TypeInv
<1>1. /\ login[l].pc = "idle" /\ login'[l].pc \in {"refused", "admitted"}
      /\ login'[l].at = login[l].at
      /\ \A k \in Logins \ {l} : login'[k] = login[k]
  BY <1>0 DEF LoginFindUser, TypeOK, LoginState
<1>2. /\ refresh' = refresh /\ held' = held /\ store' = store /\ now' = now
      /\ ended' = ended /\ failures' = failures /\ stopped' = stopped
  BY DEF LoginFindUser
<1>3. \A t \in store \cup held : t.session \in Logins \ {l}
  BY <1>0, <1>1, FieldTypes DEF Origins, Issued
<1>4. \A r \in Refreshes : refresh[r].pc # "idle" => refresh[r].token.session \in Logins \ {l}
  BY <1>0, <1>1 DEF Origins, Issued, Tokens
<1>5. Renewable'
  <2>1. \A s \in Logins : /\ Issued(s)' => Issued(s)
                          /\ Live(s)' = Live(s) /\ Renewing(s)' = Renewing(s)
    BY <1>1, <1>2 DEF Issued, Live, Renewing
  <2>2. QED
    BY <1>2, <2>1 DEF ServedInv, Renewable
<1>6. Answered'
  BY <1>1, <1>2, <1>3, <1>4 DEF ServedInv, Answered
<1>7. Delivered'
  <2>1. \A t \in store : Underway(t) => Underway(t)'
    BY <1>1, <1>2, <1>3 DEF Underway, LoginToken, RefreshToken
  <2>2. QED
    BY <1>2, <2>1 DEF ServedInv, Delivered
<1>8. Past'
  BY <1>1, <1>2 DEF ServedInv, Past
<1>9. Youngest'
  BY <1>1, <1>2, <1>3 DEF ServedInv, Youngest
<1>10. QED
  BY <1>5, <1>6, <1>7, <1>8, <1>9 DEF ServedInv

LEMMA LoginIssueServes ==
  ASSUME SessionInv, ServedInv, NEW l \in Logins, LoginIssue(l)
  PROVE  ServedInv'
<1>0. TypeInv /\ TypeOK /\ Origins
  BY DEF SessionInv, TypeInv
<1>1. /\ login[l].pc = "admitted" /\ login'[l].pc = "stored"
      /\ login'[l].at = now /\ login'[l].device = login[l].device
      /\ \A k \in Logins \ {l} : login'[k] = login[k]
  BY <1>0 DEF LoginIssue, TypeOK, LoginState
<1>2. /\ refresh' = refresh /\ held' = held /\ now' = now
      /\ ended' = ended /\ failures' = failures /\ stopped' = stopped
  BY DEF LoginIssue
<1>3. PICK new : new = [session |-> l, at |-> now, device |-> login[l].device]
  OBVIOUS
<1>4. store' = store \cup {new} /\ new.session = l /\ new.at = now
  BY <1>3 DEF LoginIssue
<1>5. \A t \in store \cup held : t.session \in Logins \ {l}
  BY <1>0, <1>1, FieldTypes DEF Origins, Issued
<1>6. \A r \in Refreshes : refresh[r].pc # "idle" => refresh[r].token.session \in Logins \ {l}
  BY <1>0, <1>1 DEF Origins, Issued, Tokens
<1>7. Renewable'
  <2>1. \A s \in Logins \ {l} : /\ Issued(s)' => Issued(s)
                                /\ Live(s) \subseteq Live(s)' /\ Renewing(s)' = Renewing(s)
    BY <1>1, <1>2, <1>4 DEF Issued, Live, Renewing
  <2>2. new \in Live(l)'
    BY <1>4 DEF Live
  <2>3. QED
    BY <1>2, <2>1, <2>2 DEF ServedInv, Renewable
<1>8. Answered'
  BY <1>1, <1>2, <1>5, <1>6 DEF ServedInv, Answered
<1>9. Delivered'
  <2>1. \A t \in store : Underway(t) => Underway(t)'
    BY <1>1, <1>2, <1>5 DEF Underway, LoginToken, RefreshToken
  <2>2. Underway(new)'
    BY <1>1, <1>3 DEF Underway, LoginToken
  <2>3. QED
    BY <1>2, <1>4, <2>1, <2>2 DEF ServedInv, Delivered
<1>10. Past'
  BY <1>0, <1>1, <1>2, TimesAssumption DEF ServedInv, Past, TypeOK
<1>11. Youngest'
  <2>1. \A t \in store : login'[t.session] = login[t.session]
    BY <1>1, <1>5
  <2>2. login'[new.session].at <= new.at
    BY <1>0, <1>1, <1>4, TimesAssumption DEF TypeOK
  <2>3. \A u \in held : u.session # new.session
    BY <1>4, <1>5
  <2>4. \A r \in Refreshes : refresh[r].pc = "stored" => refresh[r].token.session # new.session
    BY <1>4, <1>6
  <2>5. QED
    BY <1>2, <1>4, <2>1, <2>2, <2>3, <2>4 DEF ServedInv, Youngest
<1>12. QED
  BY <1>7, <1>8, <1>9, <1>10, <1>11 DEF ServedInv

LEMMA LoginAnswerServes ==
  ASSUME SessionInv, ServedInv, NEW l \in Logins, LoginAnswer(l)
  PROVE  ServedInv'
<1>0. TypeInv /\ TypeOK /\ Origins
  BY DEF SessionInv, TypeInv
<1>1. /\ login[l].pc = "stored" /\ login'[l].pc = "done"
      /\ \A k \in Logins : login'[k].at = login[k].at
      /\ \A k \in Logins \ {l} : login'[k] = login[k]
  BY <1>0 DEF LoginAnswer, TypeOK, LoginState
<1>2. /\ refresh' = refresh /\ store' = store /\ now' = now
      /\ ended' = ended /\ failures' = failures /\ stopped' = stopped
  BY DEF LoginAnswer
<1>3. PICK new : new = LoginToken(l)
  OBVIOUS
<1>4. held' = held \cup {new} /\ new.session = l /\ new.at = login[l].at
  BY <1>3 DEF LoginAnswer, LoginToken
<1>5. Renewable'
  <2>1. \A s \in Logins : /\ Issued(s)' => Issued(s)
                          /\ Live(s)' = Live(s) /\ Renewing(s)' = Renewing(s)
    BY <1>1, <1>2 DEF Issued, Live, Renewing
  <2>2. QED
    BY <1>2, <2>1 DEF ServedInv, Renewable
<1>6. \A s \in Logins : login[s].pc = "done" => login'[s].pc = "done"
  BY <1>1
<1>7. Answered'
  <2>1. \A t \in held : t.session \in Logins
    BY <1>0, FieldTypes
  <2>2. \A r \in Refreshes : refresh[r].pc # "idle" => refresh[r].token.session \in Logins
    BY <1>0 DEF Origins, Tokens
  <2>3. QED
    BY <1>1, <1>2, <1>4, <1>6, <2>1, <2>2 DEF ServedInv, Answered
<1>8. Delivered'
  <2>1. \A t \in store : Underway(t) => Underway(t)' \/ t = new
    <3>1. \A t \in store : t.session \in Logins
      BY <1>0, FieldTypes
    <3>2. \A k \in Logins \ {l} : LoginToken(k)' = LoginToken(k)
      BY <1>1 DEF LoginToken
    <3>3. QED
      BY <1>1, <1>2, <1>3, <3>1, <3>2 DEF Underway, RefreshToken
  <2>2. QED
    BY <1>2, <1>4, <2>1 DEF ServedInv, Delivered
<1>9. Past'
  BY <1>1, <1>2, <1>4 DEF ServedInv, Past
<1>10. Youngest'
  BY <1>0, <1>1, <1>2, <1>4, FieldTypes DEF ServedInv, Youngest
<1>11. QED
  BY <1>5, <1>7, <1>8, <1>9, <1>10 DEF ServedInv

LEMMA RefreshStartServes ==
  ASSUME SessionInv, ServedInv, NEW r \in Refreshes, RefreshStart(r)
  PROVE  ServedInv'
<1>0. TypeInv /\ TypeOK /\ Origins
  BY DEF SessionInv, TypeInv
<1>1. PICK t \in held :
        /\ refresh' = [refresh EXCEPT ![r].token = t,
                         ![r].pc = IF t \in store THEN "admitted" ELSE "refused"]
        /\ store' = store \ {t}
  BY DEF RefreshStart
<1>2. /\ refresh[r].pc = "idle" /\ refresh'[r].token = t /\ refresh'[r].at = refresh[r].at
      /\ refresh'[r].pc = (IF t \in store THEN "admitted" ELSE "refused")
      /\ \A q \in Refreshes \ {r} : refresh'[q] = refresh[q]
  <2>1. refresh \in [Refreshes -> RefreshState] /\ refresh[r] \in RefreshState
    BY <1>0 DEF TypeOK
  <2>2. QED
    BY <1>1, <2>1 DEF RefreshStart, RefreshState
<1>3. /\ login' = login /\ held' = held /\ now' = now /\ r \notin stopped
      /\ ended' = ended /\ failures' = failures /\ stopped' = stopped
  BY DEF RefreshStart
<1>4. Renewable'
  <2>1. \A s \in Logins : Renewing(s) \subseteq Renewing(s)'
    BY <1>2, <1>3 DEF Renewing
  <2>2. \A s \in Logins : t \in store /\ t.session = s => r \in Renewing(s)'
    BY <1>2, <1>3 DEF Renewing
  <2>3. \A s \in Logins : (t \notin store \/ t.session # s) => Live(s)' = Live(s)
    BY <1>1 DEF Live
  <2>4. \A s \in Logins : Issued(s)' => Issued(s)
    BY <1>3 DEF Issued
  <2>5. QED
    BY <1>3, <2>1, <2>2, <2>3, <2>4 DEF ServedInv, Renewable
<1>5. Answered'
  <2>1. login[t.session].pc = "done"
    BY DEF ServedInv, Answered
  <2>2. \A q \in Refreshes : refresh'[q].pc # "idle" => login[refresh'[q].token.session].pc = "done"
    BY <1>2, <2>1 DEF ServedInv, Answered
  <2>3. \A u \in held : login[u.session].pc = "done"
    BY DEF ServedInv, Answered
  <2>4. QED
    BY <1>3, <2>2, <2>3 DEF Answered
<1>6. Delivered'
  <2>1. \A u \in store : Underway(u) => Underway(u)'
    BY <1>2, <1>3 DEF Underway, LoginToken, RefreshToken
  <2>2. QED
    BY <1>1, <1>3, <2>1 DEF ServedInv, Delivered
<1>7. Past'
  BY <1>2, <1>3 DEF ServedInv, Past
<1>8. Youngest'
  <2>1. \A q \in Refreshes : refresh'[q].pc = "stored" => refresh'[q] = refresh[q]
    BY <1>2
  <2>2. store' \subseteq store
    BY <1>1
  <2>3. QED
    BY <1>3, <2>1, <2>2 DEF ServedInv, Youngest
<1>9. QED
  BY <1>4, <1>5, <1>6, <1>7, <1>8 DEF ServedInv

LEMMA RefreshIssueServes ==
  ASSUME SessionInv, ServedInv, NEW r \in Refreshes, RefreshIssue(r)
  PROVE  ServedInv'
<1>0. TypeInv /\ TypeOK /\ Origins /\ OneLiveToken
  BY DEF SessionInv, TypeInv
<1>1. PICK home \in Logins : home = refresh[r].token.session
  BY <1>0 DEF RefreshIssue, Origins, Tokens
<1>2. PICK new : new = [session |-> home, at |-> now, device |-> FALSE]
  OBVIOUS
<1>3. /\ refresh[r].pc = "admitted" /\ refresh'[r].pc = "stored"
      /\ refresh'[r].token = refresh[r].token /\ refresh'[r].at = now
      /\ \A q \in Refreshes \ {r} : refresh'[q] = refresh[q]
  <2>1. refresh \in [Refreshes -> RefreshState] /\ refresh[r] \in RefreshState
    BY <1>0 DEF TypeOK
  <2>2. QED
    BY <2>1 DEF RefreshIssue, RefreshState
<1>4. /\ store' = store \cup {new} /\ new.session = home /\ new.at = now
      /\ login' = login /\ held' = held /\ now' = now /\ r \notin stopped
      /\ ended' = ended /\ failures' = failures /\ stopped' = stopped
  BY <1>1, <1>2 DEF RefreshIssue
<1>5. Live(home) = {}
  <2>1. r \in Renewing(home)
    BY <1>1, <1>3, <1>4 DEF Renewing
  <2>2. QED
    BY <1>0, <2>1 DEF OneLiveToken
<1>6. Renewable'
  <2>1. \A s \in Logins \ {home} : /\ Issued(s)' => Issued(s)
                                   /\ Live(s) \subseteq Live(s)'
                                   /\ Renewing(s) \subseteq Renewing(s)'
    BY <1>1, <1>3, <1>4 DEF Issued, Live, Renewing
  <2>2. new \in Live(home)'
    BY <1>4 DEF Live
  <2>3. QED
    BY <1>4, <2>1, <2>2 DEF ServedInv, Renewable
<1>7. Answered'
  BY <1>3, <1>4 DEF ServedInv, Answered
<1>8. Delivered'
  <2>1. \A t \in store : Underway(t) => Underway(t)'
    BY <1>3, <1>4 DEF Underway, LoginToken, RefreshToken
  <2>2. RefreshToken(r)' = new
    BY <1>1, <1>2, <1>3 DEF RefreshToken
  <2>3. Underway(new)'
    BY <1>3, <2>2 DEF Underway, RefreshToken
  <2>4. QED
    BY <1>4, <2>1, <2>3 DEF ServedInv, Delivered
<1>9. Past'
  <2>1. now <= now
    BY <1>0, TimesAssumption DEF TypeOK
  <2>2. QED
    BY <1>3, <1>4, <2>1 DEF ServedInv, Past
<1>10. Youngest'
  <2>1. \A t \in store : t.session # home
    BY <1>5 DEF Live
  <2>2. now <= now
    BY <1>0, TimesAssumption DEF TypeOK
  <2>3. \A q \in Refreshes : refresh'[q].at <= now
    BY <1>3, <2>2 DEF ServedInv, Past
  <2>4. (\A u \in held : u.at <= now) /\ login[home].at <= now
    BY DEF ServedInv, Past
  <2>5. \A t \in store :
          /\ \A u \in held : u.session = t.session => u.at <= t.at
          /\ \A q \in Refreshes : refresh'[q].pc = "stored"
                                  /\ refresh'[q].token.session = t.session =>
               refresh'[q].at <= t.at
          /\ login[t.session].at <= t.at
    BY <1>1, <1>3, <2>1 DEF ServedInv, Youngest
  <2>6. QED
    BY <1>4, <2>3, <2>4, <2>5 DEF Youngest
<1>11. QED
  BY <1>6, <1>7, <1>8, <1>9, <1>10 DEF ServedInv

LEMMA RefreshAnswerServes ==
  ASSUME SessionInv, ServedInv, NEW r \in Refreshes, RefreshAnswer(r)
  PROVE  ServedInv'
<1>0. TypeInv /\ TypeOK /\ Origins
  BY DEF SessionInv, TypeInv
<1>1. PICK new : new = RefreshToken(r)
  OBVIOUS
<1>2. /\ refresh[r].pc = "stored" /\ refresh'[r].pc = "done"
      /\ refresh'[r].token = refresh[r].token /\ refresh'[r].at = refresh[r].at
      /\ \A q \in Refreshes \ {r} : refresh'[q] = refresh[q]
  <2>1. refresh \in [Refreshes -> RefreshState] /\ refresh[r] \in RefreshState
    BY <1>0 DEF TypeOK
  <2>2. QED
    BY <2>1 DEF RefreshAnswer, RefreshState
<1>3. /\ held' = held \cup {new} /\ new.session = refresh[r].token.session
      /\ new.at = refresh[r].at
      /\ login' = login /\ store' = store /\ now' = now
      /\ ended' = ended /\ failures' = failures /\ stopped' = stopped
  BY <1>1 DEF RefreshAnswer, RefreshToken
<1>4. Renewable'
  <2>1. \A s \in Logins : /\ Issued(s)' => Issued(s)
                          /\ Live(s)' = Live(s) /\ Renewing(s)' = Renewing(s)
    BY <1>2, <1>3 DEF Issued, Live, Renewing
  <2>2. QED
    BY <1>3, <2>1 DEF ServedInv, Renewable
<1>5. Answered'
  BY <1>2, <1>3 DEF ServedInv, Answered
<1>6. Delivered'
  <2>1. \A t \in store : Underway(t) => Underway(t)' \/ t = new
    BY <1>1, <1>2, <1>3 DEF Underway, LoginToken, RefreshToken
  <2>2. QED
    BY <1>3, <2>1 DEF ServedInv, Delivered
<1>7. Past'
  BY <1>2, <1>3 DEF ServedInv, Past
<1>8. Youngest'
  BY <1>2, <1>3 DEF ServedInv, Youngest
<1>9. QED
  BY <1>4, <1>5, <1>6, <1>7, <1>8 DEF ServedInv

\* Every step keeps the clients served.
LEMMA ServedStep == SessionInv /\ ServedInv /\ [Next]_vars => ServedInv'
<1> SUFFICES ASSUME SessionInv, ServedInv, [Next]_vars PROVE ServedInv'
  OBVIOUS
<1>0. TypeOK /\ failures \in Nat
  BY TimesAssumption DEF SessionInv, TypeInv, TypeOK
<1> DEFINE Quiet == /\ login' = login /\ refresh' = refresh /\ held' = held
                    /\ store' \subseteq store /\ now' \in {now, now + 1}
<1> DEFINE Same == /\ stopped' = stopped
                   /\ ended \subseteq ended'
                   /\ failures' = failures
                   /\ \A s \in Logins \ ended' : Live(s)' = Live(s)
<1>1. Quiet /\ Same => Renewable'
  <2> SUFFICES ASSUME Quiet, Same PROVE Renewable'
    OBVIOUS
  <2>1. \A s \in Logins : (Issued(s)' <=> Issued(s)) /\ Renewing(s)' = Renewing(s)
    BY DEF Issued, Renewing
  <2>2. QED
    BY <2>1 DEF ServedInv, Renewable
<1>2. failures' = failures + 1 => Renewable'
  <2>1. failures' = failures + 1 => failures' # 0
    BY <1>0
  <2>2. QED
    BY <2>1 DEF Renewable
<1>3. Quiet /\ Renewable' => ServedInv'
  BY QuietServes
<1>4. ASSUME NEW o \in Logouts, LogoutGuard(o) PROVE Quiet /\ Same
  BY <1>4 DEF LogoutGuard, Live
<1>5. ASSUME NEW o \in Logouts, LogoutRun(o) PROVE Quiet /\ Same
  BY <1>5 DEF LogoutRun, Live
<1>6. ASSUME NEW u \in Users, SetStatus(u) PROVE Quiet /\ Same
  BY <1>6 DEF SetStatus, Live
<1>7. ASSUME Tick PROVE Quiet /\ Same
  BY <1>7 DEF Tick, Live
<1>8. ASSUME NEW c \in Logins \cup Refreshes \cup Logouts, AwaitFails(c)
      PROVE  Quiet /\ failures' = failures + 1
  BY <1>8 DEF AwaitFails
<1>9. ASSUME Restart PROVE Quiet /\ failures' = failures + 1
  BY <1>9 DEF Restart
<1>10. ASSUME UNCHANGED vars PROVE Quiet /\ Same
  BY <1>10 DEF vars, Live
<1> HIDE DEF Quiet, Same
<1>11. QED
  BY <1>1, <1>2, <1>3, <1>4, <1>5, <1>6, <1>7, <1>8, <1>9, <1>10, LoginFindUserServes,
     LoginIssueServes, LoginAnswerServes, RefreshStartServes, RefreshIssueServes,
     RefreshAnswerServes
  DEF Next, LoginStep, RefreshStep, LogoutStep

\* A client that nobody logged out and nothing failed for is never locked out:
\* the refresh that took its token out of the table put a younger one in, and
\* answered with it (refreshClientSession revokes first and saves last).
THEOREM NoLockoutCorrect == Spec => []NoLockout
  BY SessionInvInit, SessionInvStep, ServedInit, ServedStep, ServedInvImplies, PTL DEF Spec
===============================================================================
