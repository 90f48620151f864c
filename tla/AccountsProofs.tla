---------------------------- MODULE AccountsProofs ----------------------------
(***************************************************************************)
(* Safety of Accounts for every set of requests, identities and numbers,   *)
(* however long a code lives and however many rows there are.              *)
(***************************************************************************)
EXTENDS Accounts, TLAPS

\* Bounds and times are natural numbers.
NumbersOK == Life \in Nat /\ MaxUsers \in Nat /\ MaxFailures \in Nat

-----------------------------------------------------------------------------
(***************************************************************************)
(* Types, with what a call must have at hand.                              *)
(***************************************************************************)
\* A call that writes under an id has one, one that looks for a number has a number,
\* and the row it writes exists.
Known(local) ==
  /\ local.pc \in {"nickname", "privacy", "save", "remove"} \/ local.op = "bind" => local.id \in Ids
  /\ local.pc = "find" => local.row.phone \in Phones
  /\ local.pc = "insert" => local.op # "privacy"
  /\ local.pc \in {"insert", "nickname", "save"} \/ (local.pc = "check" /\ local.op # "bind") =>
       local.row.exists

TypeInv == TypeOK /\ \A c \in Calls : Known(call[c])

\* The call has inserted an account and not completed it.
Registers(local) == local.pc \in {"nickname", "privacy"} /\ local.op # "privacy"

Banned == {i \in Existing : users[i].status = "BANNED"}

\* What a call is left with that has read, or checked, and written no row: an edit is
\* of a row that exists, and a login let in is of a user who is not banned.
Prepared(local) ==
  /\ local \in Local /\ Known(local)
  /\ local.pc # "nickname" /\ ~Registers(local)
  /\ local.pc = "save" => users[local.id].exists
  /\ local.pc = "granted" => local.id \notin Banned
  /\ local.pc = "save" /\ local.op = "wechat" /\ local.row.status # "BANNED" => local.id \notin Banned

Prepares(c) ==
  /\ call[c].pc \in {"idle", "find", "check"}
  /\ \E local : Prepared(local) /\ call' = [call EXCEPT ![c] = local]

LEMMA RowFields ==
  ASSUME NEW row \in Rows
  PROVE  /\ row.exists \in BOOLEAN /\ row.status \in Statuses
         /\ row.phone \in Phones \cup {NoPhone}
BY DEF Rows

LEMMA NewRowTypes ==
  /\ NoRow \in Rows
  /\ \A p \in Phones : PhoneRow(p) \in Rows
  /\ \A p \in Phones : [NoRow EXCEPT !.phone = p] \in Rows
  /\ \A w \in Wx : [NoRow EXCEPT !.exists = TRUE, !.openid = <<"wx", w>>] \in Rows
  /\ \A p \in Phones \cup {NoPhone}, status \in Statuses :
       [NoRow EXCEPT !.exists = TRUE, !.phone = p, !.status = status] \in Rows
BY DEF NoRow, PhoneRow, Rows, Statuses

LEMMA NewRowsExist ==
  /\ \A p \in Phones : PhoneRow(p).exists
  /\ \A w : [NoRow EXCEPT !.exists = TRUE, !.openid = <<"wx", w>>].exists
  /\ \A p, status : [NoRow EXCEPT !.exists = TRUE, !.phone = p, !.status = status].exists
BY DEF NoRow, PhoneRow

LEMMA EndTypes ==
  /\ Idle \in Local /\ Done \in Local /\ Known(Idle) /\ Known(Done)
  /\ Prepared(Done) /\ Done.pc = "done" /\ Idle.pc = "idle"
<1>1. Idle \in Local
  BY NewRowTypes DEF Idle, Local, Ended
<1>2. Done = [pc |-> "done", op |-> "none", id |-> 0, row |-> NoRow]
  BY DEF Done, Idle
<1>3. Done \in Local
  BY <1>2, NewRowTypes DEF Local, Ended
<1>4. QED
  BY <1>1, <1>2, <1>3 DEF Idle, Known, Prepared, Registers

\* What a call has at hand.
LEMMA CallTypes ==
  ASSUME TypeInv, NEW c \in Calls
  PROVE  /\ call[c] \in Local /\ Known(call[c])
         /\ call[c].id \in Ids \cup {0} /\ call[c].row \in Rows
BY DEF TypeInv, TypeOK, Local

LEMMA UserTypes == ASSUME TypeInv, NEW i \in Ids PROVE users[i] \in Rows
BY DEF TypeInv, TypeOK

\* The check of the status and the grant of a session.
LEMMA AdmitPrepares ==
  ASSUME NEW c, NEW i \in Ids \cup {0}, NEW row, Admit(c, i, row)
  PROVE  \E local : /\ local \in Local /\ Known(local) /\ call' = [call EXCEPT ![c] = local]
                    /\ local.pc \in {"done", "granted"}
                    /\ local.pc = "granted" => local.id = i /\ row.status # "BANNED"
<1>1. CASE row.status = "BANNED"
  BY <1>1, EndTypes DEF Admit
<1>2. CASE row.status # "BANNED"
  <2> DEFINE local == [Idle EXCEPT !.pc = "granted", !.id = i]
  <2>1. local \in Local /\ local.pc = "granted" /\ local.op = "none" /\ local.id = i
    BY NewRowTypes DEF Idle, Local, Ended
  <2>2. call' = [call EXCEPT ![c] = local]
    BY <1>2 DEF Admit
  <2> HIDE DEF local
  <2>3. Known(local)
    BY <2>1 DEF Known
  <2>4. QED
    BY <1>2, <2>1, <2>2, <2>3
<1>3. QED
  BY <1>1, <1>2

\* A login that has just read the row it is let in with.
LEMMA AdmitPresent ==
  ASSUME TypeInv, NEW c \in Calls, call[c].pc \in {"idle", "find", "check"},
         NEW i \in Ids, Admit(c, i, users[i])
  PROVE  Prepares(c)
<1>1. PICK local : /\ local \in Local /\ Known(local) /\ call' = [call EXCEPT ![c] = local]
                   /\ local.pc \in {"done", "granted"}
                   /\ local.pc = "granted" => local.id = i /\ users[i].status # "BANNED"
  BY AdmitPrepares
<1>2. Prepared(local)
  BY <1>1 DEF Prepared, Registers, Banned
<1>3. QED
  BY <1>1, <1>2 DEF Prepares

\* A call that goes on to look for a number.
LEMMA FindPrepares ==
  ASSUME NEW c \in Calls, At(c, "idle"), NEW p \in Phones,
         \/ call' = [call EXCEPT ![c] = [Idle EXCEPT !.pc = "find", !.op = "code", !.row.phone = p]]
         \/ \E u \in Ids : call' = [call EXCEPT ![c] = [Idle EXCEPT !.pc = "find", !.op = "bind", !.id = u,
                                                                     !.row.phone = p]]
  PROVE  Prepares(c)
<1>1. ASSUME NEW local, call' = [call EXCEPT ![c] = local], local \in Local, local.pc = "find",
             local.row.phone = p, local.op = "bind" => local.id \in Ids
      PROVE  Prepares(c)
  <2>1. Prepared(local)
    BY <1>1 DEF Prepared, Known, Registers
  <2>2. QED
    BY <1>1, <2>1 DEF Prepares, At
<1>2. CASE call' = [call EXCEPT ![c] = [Idle EXCEPT !.pc = "find", !.op = "code", !.row.phone = p]]
  <2> DEFINE local == [Idle EXCEPT !.pc = "find", !.op = "code", !.row.phone = p]
  <2>1. local \in Local /\ local.pc = "find" /\ local.op = "code"
    BY NewRowTypes DEF Idle, Local
  <2>2. local.row.phone = p
    BY DEF Idle, NoRow
  <2>3. call' = [call EXCEPT ![c] = local]
    BY <1>2
  <2> HIDE DEF local
  <2>4. QED
    BY <1>1, <2>1, <2>2, <2>3
<1>3. ASSUME NEW u \in Ids,
             call' = [call EXCEPT ![c] = [Idle EXCEPT !.pc = "find", !.op = "bind", !.id = u, !.row.phone = p]]
      PROVE  Prepares(c)
  <2> DEFINE local == [Idle EXCEPT !.pc = "find", !.op = "bind", !.id = u, !.row.phone = p]
  <2>1. local \in Local /\ local.pc = "find" /\ local.op = "bind" /\ local.id = u
    BY NewRowTypes DEF Idle, Local
  <2>2. local.row.phone = p
    BY DEF Idle, NoRow
  <2>3. call' = [call EXCEPT ![c] = local]
    BY <1>3
  <2> HIDE DEF local
  <2>4. QED
    BY <1>1, <2>1, <2>2, <2>3
<1>4. QED
  BY <1>2, <1>3

\* A call that goes on to insert an account, after a look for its number or not.
LEMMA InsertPrepares ==
  ASSUME NEW c \in Calls, call[c].pc \in {"idle", "find", "check"}, NEW row \in Rows, row.exists,
         NEW pc \in {"check", "insert"}, NEW op \in {"wechat", "code", "register", "admin"},
         call' = [call EXCEPT ![c] = [pc |-> pc, op |-> op, id |-> 0, row |-> row]]
  PROVE  Prepares(c)
<1> DEFINE local == [pc |-> pc, op |-> op, id |-> 0, row |-> row]
<1>1. local \in Local
  BY DEF Local
<1>2. Prepared(local)
  BY <1>1 DEF Prepared, Known, Registers
<1>3. call' = [call EXCEPT ![c] = local]
  OBVIOUS
<1> HIDE DEF local
<1>4. QED
  BY <1>2, <1>3 DEF Prepares

\* A call that goes on to save the row it has loaded.
LEMMA SavePrepares ==
  ASSUME TypeInv, NEW c \in Calls, call[c].pc \in {"idle", "find", "check"},
         NEW i \in Existing, NEW row \in Rows, row.exists, NEW op \in {"wechat", "edit", "bind"},
         op = "wechat" => row = users[i],
         call' = [call EXCEPT ![c] = [pc |-> "save", op |-> op, id |-> i, row |-> row]]
  PROVE  Prepares(c)
<1> DEFINE local == [pc |-> "save", op |-> op, id |-> i, row |-> row]
<1>1. local \in Local
  BY DEF Local, Existing
<1>2. Prepared(local)
  BY <1>1 DEF Prepared, Known, Registers, Existing, Banned
<1>3. call' = [call EXCEPT ![c] = local]
  OBVIOUS
<1> HIDE DEF local
<1>4. QED
  BY <1>2, <1>3 DEF Prepares

\* The actions that read, check, and write no row.
Reads(c) ==
  \/ \E p \in Phones :
       \/ LoginByCode(c, p) \/ RegisterClient(c, p) \/ LoginClientByPhone(c, p)
       \/ \E u \in Ids : BindPhone(c, u, p) \/ BindPhoneByWechat(c, u, p)
  \/ \E w \in Wx : LoginClient(c, w)
  \/ \E p \in Phones \cup {NoPhone} : AdminCreateUser(c, p)
  \/ \E u \in Ids : EditFind(c, u) \/ UpdatePrivacySetting(c, u) \/ RemoveFind(c, u)
  \/ FindByPhone(c) \/ Check(c)

LEMMA EndPrepares ==
  ASSUME NEW c \in Calls, call[c].pc \in {"idle", "find", "check"}, End(c) PROVE Prepares(c)
BY EndTypes DEF Prepares, End

LEMMA ReadsPrepares ==
  ASSUME TypeInv, NEW c \in Calls, Reads(c) PROVE Prepares(c)
<1>0. /\ call[c] \in Local /\ call[c].row \in Rows /\ call[c].id \in Ids \cup {0} /\ Known(call[c])
      /\ \A i \in Ids : users[i] \in Rows
      /\ Existing \subseteq Ids
  BY CallTypes, UserTypes DEF Existing
<1>1. ASSUME NEW p \in Phones, LoginByCode(c, p) PROVE Prepares(c)
  BY <1>1, FindPrepares DEF LoginByCode, UseCode
<1>2. ASSUME NEW p \in Phones, RegisterClient(c, p) PROVE Prepares(c)
  BY <1>2, NewRowTypes, NewRowsExist, InsertPrepares DEF RegisterClient, At
<1>3. ASSUME NEW p \in Phones, LoginClientByPhone(c, p) PROVE Prepares(c)
  <2>1. PICK i \in Ids : Admit(c, i, users[i])
    BY <1>3 DEF LoginClientByPhone, ByPhone, Existing
  <2>2. QED
    BY <1>3, <2>1, AdmitPresent DEF LoginClientByPhone, At
<1>4. ASSUME NEW p \in Phones, NEW u \in Ids, BindPhone(c, u, p) \/ BindPhoneByWechat(c, u, p)
      PROVE  Prepares(c)
  BY <1>4, FindPrepares DEF BindPhone, UseCode, BindPhoneByWechat
<1>5. ASSUME NEW w \in Wx, LoginClient(c, w) PROVE Prepares(c)
  <2>1. call[c].pc = "idle"
    BY <1>5 DEF LoginClient, At
  <2>2. CASE ByOpenid(<<"wx", w>>) = {}
    BY <1>5, <2>1, <2>2, NewRowTypes, NewRowsExist, InsertPrepares DEF LoginClient
  <2>3. CASE ByOpenid(<<"wx", w>>) # {}
    <3>1. PICK i \in Existing :
            call' = [call EXCEPT ![c] = [pc |-> "save", op |-> "wechat", id |-> i, row |-> users[i]]]
      BY <1>5, <2>3 DEF LoginClient, ByOpenid
    <3>2. QED
      BY <1>0, <2>1, <3>1, SavePrepares DEF Existing
  <2>4. QED
    BY <2>2, <2>3
<1>6. ASSUME NEW p \in Phones \cup {NoPhone}, AdminCreateUser(c, p) PROVE Prepares(c)
  <2>1. PICK status \in Statuses :
          call' = [call EXCEPT ![c] = [pc |-> "insert", op |-> "admin", id |-> 0,
                     row |-> [NoRow EXCEPT !.exists = TRUE, !.phone = p, !.status = status]]]
    BY <1>6 DEF AdminCreateUser
  <2>2. QED
    BY <1>6, <2>1, NewRowTypes, NewRowsExist, InsertPrepares DEF AdminCreateUser, At
<1>7. ASSUME NEW u \in Ids, EditFind(c, u) PROVE Prepares(c)
  <2>1. PICK row \in Edits(users[u]) :
          call' = [call EXCEPT ![c] = [pc |-> "save", op |-> "edit", id |-> u, row |-> row]]
    BY <1>7 DEF EditFind
  <2>2. /\ \A p \in Phones \cup {NoPhone} : [users[u] EXCEPT !.phone = p] \in Rows
        /\ \A s \in Statuses : [users[u] EXCEPT !.status = s] \in Rows
        /\ \A p : [users[u] EXCEPT !.phone = p].exists = users[u].exists
        /\ \A s : [users[u] EXCEPT !.status = s].exists = users[u].exists
    BY <1>0 DEF Rows
  <2>3. users[u].phone \in Phones \cup {NoPhone}
    BY <1>0, RowFields
  <2>4. row \in Rows /\ row.exists = users[u].exists
    BY <2>1, <2>2, <2>3 DEF Edits, ProfileEdit, AdminEdit, StatusEdit, RealNameEdit
  <2>5. u \in Existing
    BY <1>7 DEF EditFind, Existing
  <2>6. QED
    BY <1>7, <2>1, <2>4, <2>5, SavePrepares DEF EditFind, At, Existing
<1>8. ASSUME NEW u \in Ids, NEW pc \in {"privacy", "remove"},
             At(c, "idle"), call' = [call EXCEPT ![c] = [Idle EXCEPT !.pc = pc, !.op = pc, !.id = u]]
      PROVE  Prepares(c)
  <2> DEFINE local == [Idle EXCEPT !.pc = pc, !.op = pc, !.id = u]
  <2>1. local \in Local /\ local.pc = pc /\ local.op = pc /\ local.id = u
    BY NewRowTypes DEF Idle, Local
  <2>2. call' = [call EXCEPT ![c] = local]
    BY <1>8
  <2> HIDE DEF local
  <2>3. Prepared(local)
    BY <2>1 DEF Prepared, Known, Registers
  <2>4. QED
    BY <1>8, <2>2, <2>3 DEF Prepares, At
<1>9. ASSUME NEW u \in Ids, UpdatePrivacySetting(c, u) \/ RemoveFind(c, u) PROVE Prepares(c)
  BY <1>8, <1>9 DEF UpdatePrivacySetting, RemoveFind
<1>10. CASE FindByPhone(c)
  <2>0. call[c].pc = "find"
    BY <1>10 DEF FindByPhone, At
  <2>1. CASE call[c].op = "code" /\ ByPhone(call[c].row.phone) = {}
    <3> DEFINE local == [call[c] EXCEPT !.pc = "check", !.row = PhoneRow(call[c].row.phone)]
    <3>1. call' = [call EXCEPT ![c] = local]
      BY <1>10, <2>1 DEF FindByPhone
    <3>2. PhoneRow(call[c].row.phone) \in Rows
      BY <1>0, <2>0, NewRowTypes DEF Known
    <3>3. /\ local \in Local /\ local.pc = "check" /\ local.op = "code" /\ local.id = call[c].id
          /\ local.row.exists
      BY <1>0, <2>0, <2>1, <3>2, NewRowsExist DEF Local, Known
    <3> HIDE DEF local
    <3>4. Prepared(local)
      BY <3>3 DEF Prepared, Known, Registers
    <3>5. QED
      BY <2>0, <3>1, <3>4 DEF Prepares
  <2>2. CASE call[c].op = "code" /\ ByPhone(call[c].row.phone) # {}
    <3>1. PICK i \in Ids : Admit(c, i, users[i])
      BY <1>10, <2>2 DEF FindByPhone, ByPhone, Existing
    <3>2. QED
      BY <2>0, <3>1, AdmitPresent
  <2>3. CASE call[c].op = "bind" /\ ByPhone(call[c].row.phone) \subseteq {call[c].id}
    <3> DEFINE local == [call[c] EXCEPT !.pc = "check"]
    <3>1. call' = [call EXCEPT ![c] = local]
      BY <1>10, <2>3 DEF FindByPhone
    <3>2. local \in Local /\ local.pc = "check" /\ local.op = "bind" /\ local.id = call[c].id
      BY <1>0, <2>3 DEF Local
    <3> HIDE DEF local
    <3>3. Prepared(local)
      BY <1>0, <2>3, <3>2 DEF Prepared, Known, Registers
    <3>4. QED
      BY <2>0, <3>1, <3>3 DEF Prepares
  <2>4. CASE End(c)
    BY <2>0, <2>4, EndPrepares
  <2>5. QED
    BY <1>10, <2>1, <2>2, <2>3, <2>4 DEF FindByPhone
<1>11. CASE Check(c)
  <2>0. call[c].pc = "check"
    BY <1>11 DEF Check, At
  <2>1. CASE call' = [call EXCEPT ![c].pc = "insert"] /\ call[c].op \in {"code", "register"}
    <3> DEFINE local == [call[c] EXCEPT !.pc = "insert"]
    <3>1. call' = [call EXCEPT ![c] = local]
      BY <2>1
    <3>2. /\ local \in Local /\ local.pc = "insert" /\ local.op \in {"code", "register"}
          /\ local.row = call[c].row
      BY <1>0, <2>1 DEF Local
    <3> HIDE DEF local
    <3>3. call[c].row.exists
      BY <1>0, <2>0, <2>1 DEF Known
    <3>4. Prepared(local)
      BY <3>2, <3>3 DEF Prepared, Known, Registers
    <3>5. QED
      BY <2>0, <3>1, <3>4 DEF Prepares
  <2>2. CASE call[c].op = "bind" /\ users[call[c].id].exists
    <3> DEFINE row == [users[call[c].id] EXCEPT !.phone = call[c].row.phone]
               local == [call[c] EXCEPT !.pc = "save", !.row = row]
    <3>1. call' = [call EXCEPT ![c] = local]
      BY <1>11, <2>2 DEF Check
    <3>2. call[c].id \in Ids
      BY <1>0, <2>2 DEF Known
    <3>3. row \in Rows /\ row.exists
      <4>1. users[call[c].id] \in Rows /\ call[c].row.phone \in Phones \cup {NoPhone}
        BY <1>0, <3>2, RowFields
      <4>2. QED
        BY <2>2, <4>1 DEF Rows
    <3> HIDE DEF row
    <3>4. /\ local \in Local /\ local.pc = "save" /\ local.op = "bind" /\ local.id = call[c].id
          /\ local.row = row
      BY <1>0, <2>2, <3>3 DEF Local
    <3> HIDE DEF local
    <3>5. Prepared(local)
      BY <2>2, <3>2, <3>3, <3>4 DEF Prepared, Known, Registers
    <3>6. QED
      BY <2>0, <3>1, <3>5 DEF Prepares
  <2>3. CASE End(c)
    BY <2>0, <2>3, EndPrepares
  <2>4. QED
    BY <1>11, <2>1, <2>2, <2>3 DEF Check
<1>12. QED
  BY <1>1, <1>2, <1>3, <1>4, <1>5, <1>6, <1>7, <1>9, <1>10, <1>11 DEF Reads

\* What they leave alone: only a code that is used is written down.
LEMMA ReadsFrame ==
  ASSUME NEW c, Reads(c)
  PROVE  /\ UNCHANGED <<users, privacy, spoiled, failures>> /\ Watch
         /\ UNCHANGED <<sms, uses>> \/ \E p \in Phones : UseCode(c, p)
BY DEF Reads, LoginByCode, RegisterClient, LoginClientByPhone, BindPhone, BindPhoneByWechat, UseCode,
       LoginClient, AdminCreateUser, EditFind, UpdatePrivacySetting, RemoveFind, FindByPhone, Check

LEMMA UseCodeTypes ==
  ASSUME TypeInv, NEW c, NEW p \in Phones, UseCode(c, p)
  PROVE  sms' \in [Phones -> [live : BOOLEAN, age : 0 .. Life + 1]] /\ uses' \in [Phones -> Nat]
<1>1. sms[p] \in [live : BOOLEAN, age : 0 .. Life + 1]
  BY DEF TypeInv, TypeOK
<1>2. [sms[p] EXCEPT !.live = FALSE] \in [live : BOOLEAN, age : 0 .. Life + 1]
  BY <1>1
<1>3. sms' = [sms EXCEPT ![p] = [sms[p] EXCEPT !.live = FALSE]]
  BY DEF UseCode, Consume
<1>4. QED
  BY <1>2, <1>3 DEF UseCode, TypeInv, TypeOK

\* A step that leaves one call with a local state of its type.
LEMMA SetType ==
  ASSUME TypeInv, NEW c \in Calls, NEW local \in Local, Known(local), call' = [call EXCEPT ![c] = local]
  PROVE  call' \in [Calls -> Local] /\ \A d \in Calls : Known(call'[d])
BY DEF TypeInv, TypeOK

LEMMA WatchType == TypeInv /\ Watch => outcasts' \in [Calls -> SUBSET Ids]
BY DEF Watch

LEMMA TypeInit == NumbersOK /\ Init => TypeInv
<1> SUFFICES ASSUME NumbersOK, Init PROVE TypeInv
  OBVIOUS
<1>1. NoCode \in [live : BOOLEAN, age : 0 .. Life + 1]
  BY DEF NoCode, NumbersOK
<1>2. QED
  BY <1>1, EndTypes DEF Init, TypeInv, TypeOK, NumbersOK

LEMMA TypeStep == NumbersOK /\ TypeInv /\ [Next]_vars => TypeInv'
<1> SUFFICES ASSUME NumbersOK, TypeInv, [Next]_vars PROVE TypeInv'
  OBVIOUS
<1> DEFINE Codes == [live : BOOLEAN, age : 0 .. Life + 1]
<1>0. /\ users \in [Ids -> Rows] /\ privacy \subseteq Ids /\ spoiled \subseteq Ids
      /\ sms \in [Phones -> Codes] /\ uses \in [Phones -> Nat] /\ failures \in 0 .. MaxFailures
      /\ call \in [Calls -> Local] /\ \A c \in Calls : Known(call[c])
  BY DEF TypeInv, TypeOK
<1>1. ASSUME NEW c \in Calls, Reads(c) PROVE TypeInv'
  <2>1. PICK local : local \in Local /\ Known(local) /\ call' = [call EXCEPT ![c] = local]
    BY <1>1, ReadsPrepares DEF Prepares, Prepared
  <2>2. call' \in [Calls -> Local] /\ \A d \in Calls : Known(call'[d])
    BY <2>1, SetType
  <2>3. sms' \in [Phones -> Codes] /\ uses' \in [Phones -> Nat]
    BY <1>0, <1>1, ReadsFrame, UseCodeTypes
  <2>4. QED
    BY <1>0, <1>1, <2>2, <2>3, ReadsFrame, WatchType DEF TypeInv, TypeOK
<1>2. ASSUME NEW c \in Calls, End(c) PROVE call' \in [Calls -> Local] /\ \A d \in Calls : Known(call'[d])
  BY <1>2, EndTypes, SetType DEF End
<1>3. ASSUME NEW c \in Calls, NEW i \in Ids \cup {0}, NEW row, Admit(c, i, row)
      PROVE  call' \in [Calls -> Local] /\ \A d \in Calls : Known(call'[d])
  BY <1>3, AdmitPrepares, SetType
<1>4. ASSUME NEW c \in Calls, InsertUser(c) PROVE TypeInv'
  <2>0. call[c] \in Local /\ call[c].row \in Rows
    BY CallTypes
  <2>1. PICK i \in Ids, pc \in {"privacy", "nickname"}, row \in {r \in Rows : r.exists} :
          \/ End(c) /\ UNCHANGED users
          \/ /\ users' = [users EXCEPT ![i] = row]
             /\ call' = [call EXCEPT ![c] = [@ EXCEPT !.id = i, !.row = row, !.pc = pc]]
    <3>1. call[c].row.exists
      BY <1>0, <1>4 DEF InsertUser, At, Known
    <3>2. \A i \in Ids : [call[c].row EXCEPT !.openid = <<"admin", i>>] \in {r \in Rows : r.exists}
      BY <2>0, <3>1 DEF Rows
    <3>3. QED
      BY <1>4, <2>0, <3>1, <3>2 DEF InsertUser, Fresh
  <2>2. CASE End(c) /\ UNCHANGED users
    BY <1>0, <1>2, <1>4, <2>2, WatchType DEF InsertUser, TypeInv, TypeOK
  <2>3. CASE /\ users' = [users EXCEPT ![i] = row]
             /\ call' = [call EXCEPT ![c] = [@ EXCEPT !.id = i, !.row = row, !.pc = pc]]
    <3> DEFINE local == [call[c] EXCEPT !.id = i, !.row = row, !.pc = pc]
    <3>1. local \in Local /\ local.id = i /\ local.pc = pc /\ local.row = row
      BY <2>0 DEF Local
    <3>2. call' = [call EXCEPT ![c] = local]
      BY <2>3
    <3> HIDE DEF local
    <3>3. Known(local)
      BY <3>1 DEF Known
    <3>4. call' \in [Calls -> Local] /\ \A d \in Calls : Known(call'[d])
      BY <3>1, <3>2, <3>3, SetType
    <3>5. users' \in [Ids -> Rows]
      BY <1>0, <2>3
    <3>6. QED
      BY <1>0, <1>4, <3>4, <3>5, WatchType DEF InsertUser, TypeInv, TypeOK
  <2>4. QED
    BY <2>1, <2>2, <2>3
<1>5. ASSUME NEW c \in Calls, Store(c) PROVE users' \in [Ids -> Rows]
  BY <1>0, <1>5, CallTypes DEF Store
<1>6. ASSUME NEW c \in Calls, SaveNickname(c) PROVE TypeInv'
  <2>0. call[c] \in Local /\ call[c].id \in Ids
    BY <1>0, <1>6 DEF SaveNickname, At, Known
  <2>1. CASE End(c) /\ spoiled' = spoiled \cup {call[c].id} /\ UNCHANGED users
    BY <1>0, <1>2, <1>6, <2>0, <2>1, WatchType DEF SaveNickname, TypeInv, TypeOK
  <2>2. CASE Store(c) /\ call' = [call EXCEPT ![c].pc = "privacy"] /\ UNCHANGED spoiled
    <3> DEFINE local == [call[c] EXCEPT !.pc = "privacy"]
    <3>1. local \in Local /\ local.id = call[c].id /\ local.pc = "privacy"
      BY <2>0 DEF Local
    <3>2. call' = [call EXCEPT ![c] = local]
      BY <2>2
    <3> HIDE DEF local
    <3>3. Known(local)
      BY <2>0, <3>1 DEF Known
    <3>4. call' \in [Calls -> Local] /\ \A d \in Calls : Known(call'[d])
      BY <3>1, <3>2, <3>3, SetType
    <3>5. users' \in [Ids -> Rows]
      BY <1>5, <2>2
    <3>6. QED
      BY <1>0, <1>6, <2>2, <3>4, <3>5, WatchType DEF SaveNickname, TypeInv, TypeOK
  <2>3. QED
    BY <1>6, <2>1, <2>2 DEF SaveNickname
<1>7. ASSUME NEW c \in Calls, SavePrivacy(c) PROVE TypeInv'
  <2>0. call[c] \in Local /\ call[c].id \in Ids
    BY <1>0, <1>7 DEF SavePrivacy, At, Known
  <2>1. End(c) \/ Admit(c, call[c].id, call[c].row)
    BY <1>7 DEF SavePrivacy
  <2>2. call' \in [Calls -> Local] /\ \A d \in Calls : Known(call'[d])
    BY <1>2, <1>3, <2>0, <2>1
  <2>3. privacy' \subseteq Ids
    BY <1>0, <1>7, <2>0 DEF SavePrivacy
  <2>4. QED
    BY <1>0, <1>7, <2>2, <2>3, WatchType DEF SavePrivacy, TypeInv, TypeOK
<1>8. ASSUME NEW c \in Calls, Save(c) PROVE TypeInv'
  <2>1. End(c) \/ Admit(c, call[c].id, call[c].row)
    BY <1>8 DEF Save
  <2>2. call' \in [Calls -> Local] /\ \A d \in Calls : Known(call'[d])
    BY <1>2, <1>3, <2>1, CallTypes
  <2>3. users' \in [Ids -> Rows]
    BY <1>0, <1>5, <1>8 DEF Save
  <2>4. QED
    BY <1>0, <1>8, <2>2, <2>3, WatchType DEF Save, TypeInv, TypeOK
<1>9. ASSUME NEW c \in Calls, Remove(c) PROVE TypeInv'
  <2>0. call[c].id \in Ids
    BY <1>0, <1>9 DEF Remove, At, Known
  <2>1. End(c)
    BY <1>9 DEF Remove
  <2>2. users[call[c].id] \in Rows
    BY <2>0, UserTypes
  <2>3. [users[call[c].id] EXCEPT !.exists = FALSE] \in Rows
    BY <2>2 DEF Rows
  <2>4. users' \in [Ids -> Rows] /\ spoiled' \subseteq Ids
    BY <1>0, <1>9, <2>0, <2>3 DEF Remove
  <2>5. QED
    BY <1>0, <1>2, <1>9, <2>1, <2>4, WatchType DEF Remove, TypeInv, TypeOK
<1>10. \A calls \in SUBSET Calls : Registering(calls) \subseteq Ids
  BY <1>0 DEF Registering, Known
<1>11. ASSUME NEW c \in Calls, AwaitFails(c) PROVE TypeInv'
  <2>1. failures' \in 0 .. MaxFailures
    BY <1>0, <1>11 DEF AwaitFails, NumbersOK
  <2>2. spoiled' \subseteq Ids
    BY <1>0, <1>10, <1>11 DEF AwaitFails
  <2>3. QED
    BY <1>0, <1>2, <1>11, <2>1, <2>2, WatchType DEF AwaitFails, TypeInv, TypeOK
<1>12. CASE Restart
  <2>1. failures' \in 0 .. MaxFailures
    BY <1>0, <1>12 DEF Restart, NumbersOK
  <2>2. spoiled' \subseteq Ids
    BY <1>0, <1>10, <1>12 DEF Restart
  <2>3. NoCode \in Codes
    BY DEF NoCode, NumbersOK
  <2>4. sms' \in [Phones -> Codes]
    BY <1>12, <2>3 DEF Restart
  <2>5. call' \in [Calls -> Local] /\ \A d \in Calls : Known(call'[d])
    BY <1>0, <1>12, EndTypes DEF Restart
  <2>6. QED
    BY <1>0, <1>12, <2>1, <2>2, <2>4, <2>5, WatchType DEF Restart, TypeInv, TypeOK
<1>13. ASSUME NEW p \in Phones, SendCode(p) PROVE TypeInv'
  <2>1. sms' \in [Phones -> Codes] /\ uses' \in [Phones -> Nat]
    BY <1>0, <1>13 DEF SendCode, NumbersOK
  <2>2. QED
    BY <1>0, <1>13, <2>1, WatchType DEF SendCode, TypeInv, TypeOK
<1>14. ASSUME NEW p \in Phones, CodeExpires(p) PROVE TypeInv'
  <2>1. [sms[p] EXCEPT !.live = FALSE] \in Codes
    BY <1>0
  <2>2. sms' \in [Phones -> Codes]
    BY <1>0, <1>14, <2>1 DEF CodeExpires
  <2>3. QED
    BY <1>0, <1>14, <2>2, WatchType DEF CodeExpires, TypeInv, TypeOK
<1>15. ASSUME NEW p \in Phones, Tick(p) PROVE TypeInv'
  <2>1. sms[p].age + 1 \in 0 .. Life + 1
    BY <1>0, <1>15 DEF Tick, Expired, NumbersOK
  <2>2. [sms[p] EXCEPT !.age = @ + 1] \in Codes
    BY <1>0, <2>1
  <2>3. sms' \in [Phones -> Codes]
    BY <1>0, <1>15, <2>2 DEF Tick
  <2>4. QED
    BY <1>0, <1>15, <2>3, WatchType DEF Tick, TypeInv, TypeOK
<1>16. CASE UNCHANGED vars
  BY <1>16 DEF vars, TypeInv, TypeOK
<1>17. QED
  BY <1>1, <1>4, <1>6, <1>7, <1>8, <1>9, <1>11, <1>12, <1>13, <1>14, <1>15, <1>16 DEF Next, Step, Reads

\* Rows, codes and calls keep their types, and a call has at hand what it writes.
THEOREM TypeCorrect == NumbersOK => (Spec => []TypeInv)
<1> SUFFICES ASSUME NumbersOK PROVE Spec => []TypeInv
  OBVIOUS
<1>1. QED
  BY TypeInit, TypeStep, PTL DEF Spec

-----------------------------------------------------------------------------
(***************************************************************************)
(* Codes.                                                                  *)
(***************************************************************************)
\* A code that has been accepted is no longer there.
OneUse == \A p \in Phones : uses[p] <= 1 /\ (sms[p].live => uses[p] = 0)

LEMMA OneUseInit == Init => OneUse
BY DEF Init, OneUse, NoCode

LEMMA OneUseStep == TypeInv /\ OneUse /\ [Next]_vars => OneUse'
<1> SUFFICES ASSUME TypeInv, OneUse, [Next]_vars PROVE OneUse'
  OBVIOUS
<1>0. /\ sms \in [Phones -> [live : BOOLEAN, age : 0 .. Life + 1]] /\ uses \in [Phones -> Nat]
      /\ \A p \in Phones : uses[p] <= 1 /\ (sms[p].live => uses[p] = 0)
  BY DEF TypeInv, TypeOK, OneUse
<1>1. ASSUME NEW p \in Phones, NEW c, UseCode(c, p) PROVE OneUse'
  <2>1. uses'[p] = 1 /\ ~sms'[p].live
    BY <1>0, <1>1 DEF UseCode, Consume
  <2>2. \A q \in Phones \ {p} : uses'[q] = uses[q] /\ sms'[q] = sms[q]
    BY <1>0, <1>1 DEF UseCode, Consume
  <2>3. QED
    BY <1>0, <2>1, <2>2 DEF OneUse
<1>2. CASE UNCHANGED <<sms, uses>>
  BY <1>0, <1>2 DEF OneUse
<1>3. ASSUME NEW c \in Calls, Reads(c) PROVE OneUse'
  BY <1>1, <1>2, <1>3, ReadsFrame
<1>4. ASSUME NEW c \in Calls,
             \/ InsertUser(c) \/ SaveNickname(c) \/ SavePrivacy(c) \/ Save(c) \/ Remove(c) \/ AwaitFails(c)
      PROVE  OneUse'
  BY <1>2, <1>4 DEF InsertUser, SaveNickname, SavePrivacy, Save, Remove, AwaitFails
<1>5. CASE Restart
  BY <1>0, <1>5 DEF Restart, NoCode, OneUse
<1>6. ASSUME NEW p \in Phones, SendCode(p) PROVE OneUse'
  <2>1. uses'[p] = 0
    BY <1>0, <1>6 DEF SendCode
  <2>2. \A q \in Phones \ {p} : uses'[q] = uses[q] /\ sms'[q] = sms[q]
    BY <1>0, <1>6 DEF SendCode
  <2>3. QED
    BY <1>0, <2>1, <2>2 DEF OneUse
<1>7. ASSUME NEW p \in Phones, CodeExpires(p) \/ Tick(p) PROVE OneUse'
  <2>1. uses' = uses /\ \A q \in Phones : sms'[q].live => sms[q].live
    BY <1>0, <1>7 DEF CodeExpires, Tick
  <2>2. QED
    BY <1>0, <2>1 DEF OneUse
<1>8. CASE UNCHANGED vars
  BY <1>2, <1>8 DEF vars
<1>9. QED
  BY <1>3, <1>4, <1>5, <1>6, <1>7, <1>8 DEF Next, Step, Reads

\* A verification code is accepted once, however many calls present it.
THEOREM CodeUsedOnceCorrect == NumbersOK => (Spec => []CodeUsedOnce)
<1> SUFFICES ASSUME NumbersOK PROVE Spec => []CodeUsedOnce
  OBVIOUS
<1>1. OneUse => CodeUsedOnce
  BY DEF OneUse, CodeUsedOnce
<1>2. QED
  BY <1>1, TypeInit, TypeStep, OneUseInit, OneUseStep, PTL DEF Spec

-----------------------------------------------------------------------------
(***************************************************************************)
(* Complete accounts.                                                      *)
(***************************************************************************)
\* The account has its settings, or a call will still give it some, or it was given
\* up; and what a call saves is the row of an account that is there or was removed.
Completed(i) ==
  \/ i \in privacy \cup spoiled
  \/ \E c \in Calls : Registers(call[c]) /\ call[c].id = i

Completion ==
  /\ \A i \in Existing : Completed(i)
  /\ \A c \in Calls : call[c].pc \in {"save", "nickname"} => call[c].id \in Existing \cup spoiled

LEMMA CompletionInit == Init => Completion
BY DEF Init, Completion, Completed, Existing, Idle

\* A step of one call, by what it does to accounts and to its own registration.
LEMMA CompletionKept ==
  ASSUME TypeInv, Completion, NEW c \in Calls, NEW local, call' = [call EXCEPT ![c] = local],
         privacy \subseteq privacy', spoiled \subseteq spoiled',
         \A i \in Existing' : \/ i \in Existing \cup privacy' \cup spoiled'
                              \/ Registers(local) /\ local.id = i,
         \A i \in Existing : i \in Existing' \cup spoiled',
         Registers(call[c]) => \/ Registers(local) /\ local.id = call[c].id
                               \/ call[c].id \in privacy' \cup spoiled'
                               \/ call[c].id \notin Existing',
         local.pc \in {"save", "nickname"} => local.id \in Existing' \cup spoiled'
  PROVE  Completion'
<1>0. \A d \in Calls : call'[d] = IF d = c THEN local ELSE call[d]
  BY DEF TypeInv, TypeOK
<1>1. ASSUME NEW i \in Existing' PROVE Completed(i)'
  <2>1. CASE i \in privacy' \cup spoiled'
    BY <2>1 DEF Completed
  <2>2. CASE Registers(local) /\ local.id = i
    BY <1>0, <2>2 DEF Completed, Registers
  <2>3. CASE i \in Existing /\ i \notin privacy' \cup spoiled'
    <3>1. PICK d \in Calls : Registers(call[d]) /\ call[d].id = i
      BY <2>3 DEF Completion, Completed
    <3>2. CASE d = c
      BY <1>1, <2>2, <2>3, <3>1, <3>2
    <3>3. CASE d # c
      BY <1>0, <3>1, <3>3 DEF Completed, Registers
    <3>4. QED
      BY <3>2, <3>3
  <2>4. QED
    BY <1>1, <2>1, <2>2, <2>3
<1>2. \A d \in Calls : call'[d].pc \in {"save", "nickname"} => call'[d].id \in Existing' \cup spoiled'
  BY <1>0 DEF Completion
<1>3. QED
  BY <1>1, <1>2 DEF Completion

LEMMA CompletionStep == TypeInv /\ Completion /\ [Next]_vars => Completion'
<1> SUFFICES ASSUME TypeInv, Completion, [Next]_vars PROVE Completion'
  OBVIOUS
<1>0. users \in [Ids -> Rows] /\ \A c \in Calls : Known(call[c])
  BY DEF TypeInv, TypeOK
<1>1. Registers(Done) = FALSE /\ Done.pc = "done"
  BY EndTypes DEF Registers
<1>2. ASSUME users' = users PROVE Existing' = Existing
  BY <1>2 DEF Existing
<1>3. ASSUME NEW c \in Calls, Reads(c) PROVE Completion'
  <2>1. PICK local : Prepared(local) /\ call' = [call EXCEPT ![c] = local]
    BY <1>3, ReadsPrepares DEF Prepares
  <2>2. ~Registers(call[c])
    BY <1>3, ReadsPrepares DEF Prepares, Registers
  <2>3. Existing' = Existing /\ privacy' = privacy /\ spoiled' = spoiled
    BY <1>2, <1>3, ReadsFrame
  <2>4. local.pc \in {"save", "nickname"} => local.id \in Existing
    BY <2>1 DEF Prepared, Known, Existing
  <2>5. QED
    BY <2>1, <2>2, <2>3, <2>4, CompletionKept
<1>4. ASSUME NEW c \in Calls, InsertUser(c) PROVE Completion'
  <2>0. ~Registers(call[c]) /\ call[c].op # "privacy" /\ privacy' = privacy /\ spoiled' = spoiled
    BY <1>0, <1>4 DEF InsertUser, Registers, At, Known
  <2>1. CASE End(c) /\ UNCHANGED users
    BY <1>1, <1>2, <2>0, <2>1, CompletionKept DEF End
  <2>2. ASSUME NEW i \in Fresh, NEW row, NEW pc \in {"nickname", "privacy"}, row.exists,
               users' = [users EXCEPT ![i] = row],
               call' = [call EXCEPT ![c] = [@ EXCEPT !.id = i, !.row = row, !.pc = pc]]
        PROVE  Completion'
    <3> DEFINE local == [call[c] EXCEPT !.id = i, !.row = row, !.pc = pc]
    <3>1. local.id = i /\ local.pc = pc /\ local.op = call[c].op
      BY CallTypes DEF Local
    <3>2. call' = [call EXCEPT ![c] = local]
      BY <2>2
    <3> HIDE DEF local
    <3>3. Existing' = Existing \cup {i}
      BY <1>0, <2>2 DEF Existing, Fresh
    <3>4. Registers(local)
      BY <2>0, <3>1 DEF Registers
    <3>5. QED
      BY <2>0, <3>1, <3>2, <3>3, <3>4, CompletionKept
  <2>3. QED
    <3>1. call[c].row.exists /\ call[c].row \in Rows
      BY <1>0, <1>4, CallTypes DEF InsertUser, At, Known
    <3>2. \A i : [call[c].row EXCEPT !.openid = <<"admin", i>>].exists
      BY <3>1 DEF Rows
    <3>3. QED
      BY <1>4, <2>1, <2>2, <3>1, <3>2 DEF InsertUser
\* A row that is saved exists, and so did the account or it was removed.
<1>5. ASSUME NEW c \in Calls, Store(c), call[c].pc \in {"save", "nickname"}
      PROVE  /\ Existing \subseteq Existing' /\ Existing' \subseteq Existing \cup spoiled
             /\ call[c].id \in Existing'
  <2>1. call[c].row.exists /\ call[c].id \in Ids /\ call[c].id \in Existing \cup spoiled
    BY <1>0, <1>5 DEF Known, Completion
  <2>2. \A i \in Ids : users'[i] = IF i = call[c].id THEN call[c].row ELSE users[i]
    BY <1>0, <1>5 DEF Store
  <2>3. QED
    BY <2>1, <2>2 DEF Existing
<1>6. ASSUME NEW c \in Calls, SaveNickname(c) PROVE Completion'
  <2>1. CASE End(c) /\ spoiled' = spoiled \cup {call[c].id} /\ UNCHANGED users
    BY <1>1, <1>2, <1>6, <2>1, CompletionKept DEF SaveNickname, End
  <2>2. CASE Store(c) /\ call' = [call EXCEPT ![c].pc = "privacy"] /\ UNCHANGED spoiled
    <3> DEFINE local == [call[c] EXCEPT !.pc = "privacy"]
    <3>1. local.id = call[c].id /\ local.pc = "privacy" /\ local.op = call[c].op
      BY CallTypes DEF Local
    <3>2. call' = [call EXCEPT ![c] = local]
      BY <2>2
    <3> HIDE DEF local
    <3>3. Registers(call[c]) => Registers(local)
      BY <3>1 DEF Registers
    <3>4. Existing \subseteq Existing' /\ Existing' \subseteq Existing \cup spoiled
      BY <1>5, <1>6, <2>2 DEF SaveNickname, At
    <3>5. QED
      BY <1>6, <2>2, <3>1, <3>2, <3>3, <3>4, CompletionKept DEF SaveNickname
  <2>3. QED
    BY <1>6, <2>1, <2>2 DEF SaveNickname
<1>7. ASSUME NEW c \in Calls, NEW i \in Ids \cup {0}, NEW row, Admit(c, i, row)
      PROVE  \E local : /\ call' = [call EXCEPT ![c] = local]
                        /\ ~Registers(local) /\ local.pc \notin {"save", "nickname"}
  BY <1>7, AdmitPrepares DEF Registers
<1>8. ASSUME NEW c \in Calls, SavePrivacy(c) PROVE Completion'
  <2>1. PICK local : /\ call' = [call EXCEPT ![c] = local]
                     /\ ~Registers(local) /\ local.pc \notin {"save", "nickname"}
    BY <1>1, <1>7, <1>8, CallTypes DEF SavePrivacy, End
  <2>2. Existing' = Existing /\ spoiled' = spoiled /\ privacy \subseteq privacy'
    BY <1>2, <1>8 DEF SavePrivacy
  <2>3. call[c].id \in privacy' \/ call[c].id \notin Existing
    BY <1>8 DEF SavePrivacy, Existing
  <2>4. QED
    BY <2>1, <2>2, <2>3, CompletionKept
<1>9. ASSUME NEW c \in Calls, Save(c) PROVE Completion'
  <2>1. PICK local : /\ call' = [call EXCEPT ![c] = local]
                     /\ ~Registers(local) /\ local.pc \notin {"save", "nickname"}
    BY <1>1, <1>7, <1>9, CallTypes DEF Save, End
  <2>2. ~Registers(call[c]) /\ privacy' = privacy /\ spoiled' = spoiled
    BY <1>9 DEF Save, At, Registers
  <2>3. Existing \subseteq Existing' /\ Existing' \subseteq Existing \cup spoiled
    BY <1>2, <1>5, <1>9 DEF Save, At
  <2>4. QED
    BY <2>1, <2>2, <2>3, CompletionKept
<1>10. ASSUME NEW c \in Calls, Remove(c) PROVE Completion'
  <2>1. ~Registers(call[c]) /\ privacy' = privacy
    BY <1>10 DEF Remove, At, Registers
  <2>2. call' = [call EXCEPT ![c] = Done] /\ spoiled \subseteq spoiled'
    BY <1>10 DEF Remove, End
  <2>3. Existing' \subseteq Existing /\ Existing \subseteq Existing' \cup spoiled'
    <3>1. CASE UNCHANGED <<users, spoiled>>
      BY <1>2, <3>1
    <3>2. CASE users' = [users EXCEPT ![call[c].id].exists = FALSE] /\ spoiled' = spoiled \cup {call[c].id}
      <4>1. call[c].id \in Ids /\ users[call[c].id] \in Rows
        BY <1>0, <1>10, UserTypes DEF Remove, At, Known
      <4>2. ~users'[call[c].id].exists /\ \A i \in Ids \ {call[c].id} : users'[i] = users[i]
        BY <1>0, <3>2, <4>1 DEF Rows
      <4>3. QED
        BY <3>2, <4>2 DEF Existing
    <3>3. QED
      BY <1>10, <3>1, <3>2 DEF Remove
  <2>4. QED
    BY <1>1, <2>1, <2>2, <2>3, CompletionKept
<1>11. ASSUME NEW c \in Calls, AwaitFails(c) PROVE Completion'
  <2>1. Registers(call[c]) => call[c].id \in spoiled'
    BY <1>11 DEF AwaitFails, Registering, Registers
  <2>2. Existing' = Existing /\ privacy' = privacy /\ spoiled \subseteq spoiled'
    BY <1>2, <1>11 DEF AwaitFails
  <2>3. QED
    BY <1>1, <1>11, <2>1, <2>2, CompletionKept DEF AwaitFails, End
<1>12. CASE Restart
  <2>1. Existing' = Existing /\ privacy' = privacy /\ spoiled \subseteq spoiled'
    BY <1>2, <1>12 DEF Restart
  <2>2. \A d \in Calls : Registers(call[d]) => call[d].id \in spoiled'
    BY <1>12 DEF Restart, Registering, Registers
  <2>3. \A d \in Calls : call'[d].pc \notin {"save", "nickname"}
    BY <1>1, <1>12 DEF Restart, AtRest, Ended
  <2>4. QED
    BY <2>1, <2>2, <2>3 DEF Completion, Completed
<1>13. CASE UNCHANGED <<users, privacy, call, spoiled>>
  BY <1>2, <1>13 DEF Completion, Completed
<1>14. ASSUME NEW p \in Phones, SendCode(p) \/ CodeExpires(p) \/ Tick(p) PROVE Completion'
  BY <1>13, <1>14 DEF SendCode, CodeExpires, Tick
<1>15. CASE UNCHANGED vars
  BY <1>13, <1>15 DEF vars
<1>16. QED
  BY <1>3, <1>4, <1>6, <1>8, <1>9, <1>10, <1>11, <1>12, <1>14, <1>15 DEF Next, Step, Reads

\* Every account gets its privacy settings, for any number of users and calls.
THEOREM AccountsCompleteCorrect == NumbersOK => (Spec => []AccountsComplete)
<1> SUFFICES ASSUME NumbersOK PROVE Spec => []AccountsComplete
  OBVIOUS
<1>1. Completion => AccountsComplete
  BY DEF Completion, Completed, AccountsComplete, AtRest, Ended, Registers
<1>2. QED
  BY <1>1, TypeInit, TypeStep, CompletionInit, CompletionStep, PTL DEF Spec

-----------------------------------------------------------------------------
(***************************************************************************)
(* Bans.                                                                   *)
(***************************************************************************)
\* The call has been let in, or will be unless it fails.
LetIn(local) ==
  \/ local.pc = "granted" \/ Registers(local)
  \/ local.pc = "save" /\ local.op = "wechat" /\ local.row.status # "BANNED"

\* Who is an outcast is banned, and no call lets in one of its outcasts.
BansInv ==
  \A c \in Calls : /\ outcasts[c] \subseteq Banned
                   /\ LetIn(call[c]) => call[c].id \notin outcasts[c]

LEMMA BansInit == Init => BansInv
BY DEF Init, BansInv, LetIn, Registers, Idle

\* The history after a step: of a call under way it only shrinks.
LEMMA WatchShrinks ==
  ASSUME TypeInv, BansInv, Watch, NEW c \in Calls
  PROVE  /\ outcasts'[c] \subseteq Banned' /\ outcasts'[c] \subseteq Banned
         /\ call[c].pc # "idle" \/ call'[c] = call[c] => outcasts'[c] \subseteq outcasts[c]
<1> DEFINE banned == {i \in Existing : users[i].status = "BANNED"}
           still == {i \in Ids : users'[i].exists /\ users'[i].status = "BANNED"}
<1>1. outcasts'[c] = IF call'[c].pc = "done" THEN {}
        ELSE still \cap (IF At(c, "idle") /\ call'[c] # call[c] THEN banned ELSE outcasts[c])
  BY DEF Watch
<1>2. still = Banned' /\ banned = Banned
  BY DEF Banned, Existing
<1>3. outcasts[c] \subseteq Banned
  BY DEF BansInv
<1> HIDE DEF still, banned
<1>4. QED
  BY <1>1, <1>2, <1>3 DEF At

\* A step of one call.
LEMMA BansKept ==
  ASSUME TypeInv, BansInv, Watch, NEW c \in Calls, NEW local, call' = [call EXCEPT ![c] = local],
         LetIn(local) => \/ local.id \notin Banned
                         \/ LetIn(call[c]) /\ call[c].pc # "idle" /\ local.id = call[c].id
  PROVE  BansInv'
<1>1. \A d \in Calls : call'[d] = IF d = c THEN local ELSE call[d]
  BY DEF TypeInv, TypeOK
<1> SUFFICES ASSUME NEW d \in Calls
             PROVE  /\ outcasts'[d] \subseteq Banned'
                    /\ LetIn(call'[d]) => call'[d].id \notin outcasts'[d]
  BY DEF BansInv, LetIn, Registers
<1>2. CASE d = c
  <2>1. outcasts'[c] \subseteq Banned' /\ outcasts'[c] \subseteq Banned
    BY WatchShrinks
  <2>2. call[c].pc # "idle" => outcasts'[c] \subseteq outcasts[c]
    BY WatchShrinks
  <2>3. LetIn(call[c]) => call[c].id \notin outcasts[c]
    BY DEF BansInv
  <2>4. QED
    BY <1>1, <1>2, <2>1, <2>2, <2>3
<1>3. CASE d # c
  <2>1. call'[d] = call[d]
    BY <1>1, <1>3
  <2>2. outcasts'[d] \subseteq Banned' /\ outcasts'[d] \subseteq outcasts[d]
    BY <2>1, WatchShrinks
  <2>3. LetIn(call[d]) => call[d].id \notin outcasts[d]
    BY DEF BansInv
  <2>4. QED
    BY <2>1, <2>2, <2>3
<1>4. QED
  BY <1>2, <1>3

LEMMA BansStep == TypeInv /\ BansInv /\ [Next]_vars => BansInv'
<1> SUFFICES ASSUME TypeInv, BansInv, [Next]_vars PROVE BansInv'
  OBVIOUS
<1>1. ~LetIn(Done)
  BY EndTypes DEF LetIn, Registers
<1>2. ASSUME NEW c \in Calls, Reads(c) PROVE BansInv'
  <2>1. PICK local : Prepared(local) /\ call' = [call EXCEPT ![c] = local]
    BY <1>2, ReadsPrepares DEF Prepares
  <2>2. LetIn(local) => local.id \notin Banned
    BY <2>1 DEF Prepared, LetIn
  <2>3. QED
    BY <1>2, <2>1, <2>2, ReadsFrame, BansKept
<1>3. ASSUME NEW c \in Calls, NEW i \in Ids \cup {0}, NEW row, Admit(c, i, row),
             row.status # "BANNED" => LetIn(call[c]) /\ call[c].pc # "idle" /\ i = call[c].id,
             Watch
      PROVE  BansInv'
  <2>1. PICK local : /\ call' = [call EXCEPT ![c] = local]
                     /\ local.pc \in {"done", "granted"}
                     /\ local.pc = "granted" => local.id = i /\ row.status # "BANNED"
    BY <1>3, AdmitPrepares
  <2>2. LetIn(local) => local.id = i /\ row.status # "BANNED"
    BY <2>1 DEF LetIn, Registers
  <2>3. QED
    BY <1>3, <2>1, <2>2, BansKept
<1>4. ASSUME NEW c \in Calls, End(c), Watch PROVE BansInv'
  BY <1>1, <1>4, BansKept DEF End
<1>5. ASSUME NEW c \in Calls, InsertUser(c) PROVE BansInv'
  <2> DEFINE Made(i) == IF call[c].op = "admin"
                          THEN [call[c].row EXCEPT !.openid = <<"admin", i>>]
                          ELSE call[c].row
  <2>1. PICK i \in Fresh, pc \in {"privacy", "nickname"} :
          \/ End(c)
          \/ call' = [call EXCEPT ![c] = [@ EXCEPT !.id = i, !.row = Made(i), !.pc = pc]]
    BY <1>5 DEF InsertUser
  <2>2. CASE End(c)
    BY <1>4, <1>5, <2>2 DEF InsertUser
  <2>3. CASE call' = [call EXCEPT ![c] = [@ EXCEPT !.id = i, !.row = Made(i), !.pc = pc]]
    <3> DEFINE local == [call[c] EXCEPT !.id = i, !.row = Made(i), !.pc = pc]
    <3>1. local.id = i
      BY CallTypes DEF Local
    <3>2. call' = [call EXCEPT ![c] = local]
      BY <2>3
    <3> HIDE DEF local
    <3>3. i \notin Banned
      BY <2>1 DEF Fresh, NoRow, Banned, Existing
    <3>4. QED
      BY <1>5, <3>1, <3>2, <3>3, BansKept DEF InsertUser
  <2>4. QED
    BY <2>1, <2>2, <2>3
<1>6. ASSUME NEW c \in Calls, SaveNickname(c) PROVE BansInv'
  <2>1. CASE End(c)
    BY <1>4, <1>6, <2>1 DEF SaveNickname
  <2>2. CASE call' = [call EXCEPT ![c].pc = "privacy"]
    <3> DEFINE local == [call[c] EXCEPT !.pc = "privacy"]
    <3>1. local.id = call[c].id /\ local.pc = "privacy" /\ local.op = call[c].op
      BY CallTypes DEF Local
    <3>2. call' = [call EXCEPT ![c] = local]
      BY <2>2
    <3> HIDE DEF local
    <3>3. LetIn(local) => LetIn(call[c]) /\ call[c].pc # "idle"
      BY <1>6, <3>1 DEF SaveNickname, At, LetIn, Registers
    <3>4. QED
      BY <1>6, <3>1, <3>2, <3>3, BansKept DEF SaveNickname
  <2>3. QED
    BY <1>6, <2>1, <2>2 DEF SaveNickname
<1>7. ASSUME NEW c \in Calls, SavePrivacy(c) PROVE BansInv'
  <2>1. CASE End(c)
    BY <1>4, <1>7, <2>1 DEF SavePrivacy
  <2>2. CASE Admit(c, call[c].id, call[c].row) /\ call[c].op \notin {"admin", "privacy"}
    <3>1. LetIn(call[c]) /\ call[c].pc # "idle"
      BY <1>7, <2>2 DEF SavePrivacy, At, LetIn, Registers
    <3>2. QED
      BY <1>3, <1>7, <2>2, <3>1, CallTypes DEF SavePrivacy
  <2>3. QED
    BY <1>7, <2>1, <2>2 DEF SavePrivacy
<1>8. ASSUME NEW c \in Calls, Save(c) PROVE BansInv'
  <2>1. CASE End(c)
    BY <1>4, <1>8, <2>1 DEF Save
  <2>2. CASE Admit(c, call[c].id, call[c].row) /\ call[c].op = "wechat"
    <3>1. call[c].row.status # "BANNED" => LetIn(call[c]) /\ call[c].pc # "idle"
      BY <1>8, <2>2 DEF Save, At, LetIn
    <3>2. QED
      BY <1>3, <1>8, <2>2, <3>1, CallTypes DEF Save
  <2>3. QED
    BY <1>8, <2>1, <2>2 DEF Save
<1>9. ASSUME NEW c \in Calls, Remove(c) \/ AwaitFails(c) PROVE BansInv'
  BY <1>4, <1>9 DEF Remove, AwaitFails
<1>10. CASE Watch /\ \A c \in Calls : call'[c] = call[c] \/ call'[c] = Done
  <2> SUFFICES ASSUME NEW d \in Calls
               PROVE  /\ outcasts'[d] \subseteq Banned'
                      /\ LetIn(call'[d]) => call'[d].id \notin outcasts'[d]
    BY DEF BansInv, LetIn, Registers
  <2>1. outcasts'[d] \subseteq Banned'
    BY <1>10, WatchShrinks
  <2>2. LetIn(call'[d]) => call'[d] = call[d]
    BY <1>1, <1>10
  <2>3. call'[d] = call[d] => outcasts'[d] \subseteq outcasts[d]
    BY <1>10, WatchShrinks
  <2>4. LetIn(call[d]) => call[d].id \notin outcasts[d]
    BY DEF BansInv
  <2>5. QED
    BY <2>1, <2>2, <2>3, <2>4
<1>11. CASE Restart
  BY <1>10, <1>11 DEF Restart
<1>12. ASSUME NEW p \in Phones, SendCode(p) \/ CodeExpires(p) \/ Tick(p) PROVE BansInv'
  BY <1>10, <1>12 DEF SendCode, CodeExpires, Tick
<1>13. CASE UNCHANGED vars
  BY <1>13 DEF vars, BansInv, Banned, Existing, LetIn, Registers
<1>14. QED
  BY <1>2, <1>5, <1>6, <1>7, <1>8, <1>9, <1>11, <1>12, <1>13 DEF Next, Step, Reads

\* A user who is banned from a login's start to its end is not let in.
THEOREM BannedStayOutCorrect == NumbersOK => (Spec => []BannedStayOut)
<1> SUFFICES ASSUME NumbersOK PROVE Spec => []BannedStayOut
  OBVIOUS
<1>1. BansInv => BannedStayOut
  BY DEF BansInv, BannedStayOut, LetIn, At
<1>2. QED
  BY <1>1, TypeInit, TypeStep, BansInit, BansStep, PTL DEF Spec
===============================================================================
