-------------------------- MODULE WithdrawalProofs --------------------------
(***************************************************************************)
(* Safety of Withdrawal for every set of users, calls and amounts, and     *)
(* that it implements WithdrawalMoney.                                     *)
(***************************************************************************)
EXTENDS Withdrawal, FiniteSetTheorems, FunctionTheorems, TLAPS

(***************************************************************************)
(* Amounts: what each statement makes of a number of parts.                *)
(***************************************************************************)

\* A column holds the nearest number of cents.
LEMMA InCentsNearest ==
  ASSUME NEW x \in Int
  PROVE  /\ InCents(x) \in Int
         /\ 2 * (Parts * InCents(x)) <= 2 * x + Parts
         /\ 2 * x < 2 * (Parts * InCents(x)) + Parts
<1>1. ASSUME NEW n \in Int, NEW D \in Nat \ {0}
      PROVE  n \div D \in Int /\ D * (n \div D) <= n /\ n < D * (n \div D) + D
  OBVIOUS
<1>2. /\ InCents(x) \in Int
      /\ (2 * Parts) * InCents(x) <= 2 * x + Parts
      /\ 2 * x + Parts < (2 * Parts) * InCents(x) + 2 * Parts
  <2>1. 2 * x + Parts \in Int /\ 2 * Parts \in Nat \ {0}
    BY AmountsAssumption
  <2>2. QED
    BY <1>1, <2>1 DEF InCents
<1>3. (2 * Parts) * InCents(x) = 2 * (Parts * InCents(x)) /\ Parts * InCents(x) \in Int
  BY <1>2, AmountsAssumption
<1>4. QED
  BY <1>2, <1>3, AmountsAssumption

\* and is the only number of cents within these bounds.
LEMMA InCentsOnly ==
  ASSUME NEW x \in Int, NEW q \in Int,
         2 * (Parts * q) <= 2 * x + Parts, 2 * x < 2 * (Parts * q) + Parts
  PROVE  InCents(x) = q
<1>1. ASSUME NEW k \in Int, NEW l \in Int, Parts * k < Parts * l + Parts PROVE k <= l
  BY <1>1, AmountsAssumption
<1>2. PICK r \in Int : r = InCents(x)
  BY InCentsNearest
<1>3. Parts * r \in Int /\ Parts * q \in Int /\ Parts \in Int
  BY <1>2, AmountsAssumption
<1>4. 2 * (Parts * r) <= 2 * x + Parts /\ 2 * x < 2 * (Parts * r) + Parts
  BY <1>2, InCentsNearest
<1>5. Parts * r < Parts * q + Parts /\ Parts * q < Parts * r + Parts
  BY <1>3, <1>4
<1>6. QED
  BY <1>1, <1>2, <1>5

\* A subtraction that the database rounds takes a fixed amount off the balance.
LEMMA DeductionTakes ==
  ASSUME NEW b \in Int, NEW a \in Int
  PROVE  Taken(a) \in Int /\ InCents(b * Parts - a) = b - Taken(a)
<1>1. PICK k \in Int : k = InCents(- a)
  BY InCentsNearest
<1>2. Taken(a) \in Int /\ b - Taken(a) = b + k
  BY <1>1 DEF Taken
<1>3. 2 * (Parts * k) <= 2 * (- a) + Parts /\ 2 * (- a) < 2 * (Parts * k) + Parts
  BY <1>1, InCentsNearest
<1>4. Parts * (b + k) = b * Parts + Parts * k /\ b * Parts \in Int /\ Parts * k \in Int
  BY AmountsAssumption
<1>5. /\ 2 * (Parts * (b + k)) <= 2 * (b * Parts - a) + Parts
      /\ 2 * (b * Parts - a) < 2 * (Parts * (b + k)) + Parts
  BY <1>3, <1>4, AmountsAssumption
<1>6. b + k \in Int /\ b * Parts - a \in Int
  BY <1>4
<1>7. QED
  BY <1>2, <1>5, <1>6, InCentsOnly

\* What is taken and what is asked for are amounts of money, half a cent apart at most.
LEMMA RoundingGap ==
  ASSUME NEW a \in Nat
  PROVE  Taken(a) \in Nat /\ InCents(a) \in Nat /\ InCents(a) - Taken(a) \in {0, 1}
<1>1. ASSUME NEW k \in Int, NEW l \in Int, Parts * k < Parts * l + Parts PROVE k <= l
  BY <1>1, AmountsAssumption
<1>2. PICK q \in Int : q = InCents(a)
  BY InCentsNearest
<1>3. PICK t \in Int : t = Taken(a) /\ InCents(- a) = - t
  <2>1. - a \in Int /\ InCents(- a) \in Int
    BY InCentsNearest
  <2>2. QED
    BY <2>1 DEF Taken
<1>4. 2 * (Parts * q) <= 2 * a + Parts /\ 2 * a < 2 * (Parts * q) + Parts
  BY <1>2, InCentsNearest
<1>5. 2 * (Parts * (- t)) <= 2 * (- a) + Parts /\ 2 * (- a) < 2 * (Parts * (- t)) + Parts
  BY <1>3, InCentsNearest
<1>6. /\ Parts * (- t) = - (Parts * t) /\ Parts * t \in Int /\ Parts * q \in Int
      /\ Parts * (t + 1) = Parts * t + Parts /\ Parts * 0 = 0
  BY AmountsAssumption
<1>7. Parts * 0 < Parts * t + Parts /\ Parts * 0 < Parts * q + Parts
  BY <1>4, <1>5, <1>6, AmountsAssumption
<1>8. Parts * t < Parts * q + Parts /\ Parts * q < Parts * (t + 1) + Parts
  BY <1>4, <1>5, <1>6, AmountsAssumption
<1>9. 0 <= t /\ 0 <= q /\ t <= q /\ q <= t + 1
  BY <1>1, <1>7, <1>8
<1>10. QED
  BY <1>2, <1>3, <1>9

\* A balance that covers the amount covers what is taken.
LEMMA CoveredIsTaken ==
  ASSUME NEW b \in Int, NEW a \in Nat, b * Parts >= a
  PROVE  Taken(a) <= b
<1>1. ASSUME NEW k \in Int, NEW l \in Int, Parts * k < Parts * l + Parts PROVE k <= l
  BY <1>1, AmountsAssumption
<1>2. PICK t \in Int : t = Taken(a) /\ InCents(- a) = - t
  <2>1. - a \in Int /\ InCents(- a) \in Int
    BY InCentsNearest
  <2>2. QED
    BY <2>1 DEF Taken
<1>3. 2 * (- a) < 2 * (Parts * (- t)) + Parts
  BY <1>2, InCentsNearest
<1>4. Parts * (- t) = - (Parts * t) /\ Parts * t \in Int /\ b * Parts = Parts * b /\ Parts * b \in Int
  BY AmountsAssumption
<1>5. Parts * t < Parts * b + Parts
  BY <1>3, <1>4, AmountsAssumption
<1>6. QED
  BY <1>1, <1>2, <1>5

\* The balances of a ledger row differ by what was taken or by what was asked for.
LEMMA RowDifference ==
  ASSUME NEW b \in Int, NEW a \in Nat, NEW after \in Differences(b, a)
  PROVE  after \in Int /\ b - after \in {Taken(a), InCents(a)}
<1>1. b * Parts \in Int /\ b * Parts - a \in Int /\ (- b) * Parts = - (b * Parts)
  BY AmountsAssumption
<1>2. Taken(a) \in Int /\ InCents(b * Parts - a) = b - Taken(a)
  BY DeductionTakes
<1>3. - b \in Int /\ - a \in Int /\ (- b) * Parts - (- a) = - (b * Parts - a)
  BY <1>1
<1>4. Taken(- a) \in Int /\ InCents((- b) * Parts - (- a)) = (- b) - Taken(- a)
  BY <1>3, DeductionTakes
<1>5. InCents(a) \in Int /\ - (- a) = a
  BY InCentsNearest
<1>6. Taken(- a) = - InCents(a)
  BY <1>5 DEF Taken
<1>7. - InCents(- (b * Parts - a)) = b - InCents(a)
  BY <1>3, <1>4, <1>5, <1>6
<1>8. after = b - Taken(a) \/ after = b - InCents(a)
  BY <1>2, <1>7 DEF Differences
<1>9. QED
  BY <1>2, <1>5, <1>8

(***************************************************************************)
(* Types.                                                                  *)
(***************************************************************************)

\* The fields of the three kinds of calls.
LEMMA FieldTypes ==
  ASSUME TypeOK
  PROVE  /\ \A s \in Submits :
              /\ submit[s].pc \in SubmitPc /\ submit[s].user \in Users
              /\ submit[s].amount \in Nat /\ submit[s].seen \in Int
              /\ Requested(s) \in Nat
         /\ \A d \in Decisions :
              /\ decision[d].pc \in DecisionPc /\ decision[d].of \in Submits
              /\ decision[d].kind \in {"approved", "rejected"}
              /\ decision[d].seen \in Int
         /\ \A w \in Saves :
              /\ save[w].pc \in SavePc /\ save[w].user \in Users
              /\ save[w].seen \in Int
<1>1. \A s \in Submits : submit[s].amount \in Nat
  BY AmountsAssumption DEF TypeOK, SubmitState
<1>2. \A s \in Submits : Requested(s) \in Nat
  BY <1>1, RoundingGap DEF Requested
<1>3. QED
  BY <1>1, <1>2 DEF TypeOK, SubmitState, DecisionState, SaveState

\* What a request took, and what is due back.
LEMMA AmountTypes ==
  ASSUME TypeOK, NEW s \in Submits
  PROVE  /\ TakenBy[s] = Taken(submit[s].amount) /\ TakenBy[s] \in Nat
         /\ Requested(s) = InCents(submit[s].amount) /\ Requested(s) \in Nat
         /\ Requested(s) - TakenBy[s] \in {0, 1}
  BY FieldTypes, RoundingGap DEF TakenBy, Requested

\* Every variable of the withdrawal service keeps its type.
THEOREM TypeCorrect == Spec => []TypeOK
<1>1. Init => TypeOK
  BY UsersAssumption DEF Init, TypeOK, SubmitState, DecisionState, SaveState, Calls,
     SubmitPc, DecisionPc, SavePc, Status
<1>2. TypeOK /\ [Next]_vars => TypeOK'
  <2> SUFFICES ASSUME TypeOK, [Next]_vars PROVE TypeOK'
    OBVIOUS
  <2> USE DEF database
  <2>1. ASSUME NEW s \in Submits, SubmitFindUser(s) PROVE TypeOK'
    <3>1. balance[submit[s].user] \in Int
      BY FieldTypes DEF TypeOK
    <3>2. "found" \in SubmitPc /\ "refused" \in SubmitPc
      BY DEF SubmitPc
    <3>3. submit' \in [Submits -> SubmitState]
      BY <2>1, <3>1, <3>2 DEF SubmitFindUser, SubmitGoto, SubmitPc, TypeOK, SubmitState
    <3>4. QED
      BY <2>1, <3>3 DEF SubmitFindUser, TypeOK
  <2>2. ASSUME NEW s \in Submits, SubmitCheck(s) PROVE TypeOK'
    <3>1. submit' \in [Submits -> SubmitState]
      BY <2>2 DEF SubmitCheck, SubmitGoto, SubmitPc, TypeOK, SubmitState
    <3>2. QED
      BY <2>2, <3>1 DEF SubmitCheck, TypeOK
  <2>3. ASSUME NEW s \in Submits, SubmitDeduct(s) PROVE TypeOK'
    <3>1. submit' \in [Submits -> SubmitState]
      BY <2>3 DEF SubmitDeduct, SubmitGoto, SubmitPc, TypeOK, SubmitState
    <3>2. balance' \in [Users -> Int]
      <4>1. \A x \in Int : InCents(x * Parts - submit[s].amount) \in Int
        <5>1. \A x \in Int : x * Parts - submit[s].amount \in Int
          BY FieldTypes, AmountsAssumption
        <5>2. QED
          BY <5>1, InCentsNearest
      <4>2. QED
        BY FieldTypes, <2>3, <4>1 DEF SubmitDeduct, TypeOK
    <3>3. QED
      BY <2>3, <3>1, <3>2 DEF SubmitDeduct, TypeOK
  <2>4. ASSUME NEW s \in Submits, SubmitRecord(s) PROVE TypeOK'
    <3>1. submit' \in [Submits -> SubmitState]
      BY <2>4 DEF SubmitRecord, SubmitGoto, SubmitPc, TypeOK, SubmitState
    <3>2. ledger' \subseteq LedgerEntry
      <4>1. InCents(submit[s].amount) \in Int
        BY FieldTypes, InCentsNearest
      <4>2. \A after \in Differences(submit[s].seen, submit[s].amount) : after \in Int
        BY FieldTypes, RowDifference
      <4>3. QED
        BY FieldTypes, <2>4, <4>1, <4>2 DEF SubmitRecord, TypeOK, LedgerEntry
    <3>3. QED
      BY <2>4, <3>1, <3>2 DEF SubmitRecord, TypeOK
  <2>5. ASSUME NEW s \in Submits, SubmitInsert(s) PROVE TypeOK'
    <3>1. submit' \in [Submits -> SubmitState]
      BY <2>5 DEF SubmitInsert, SubmitGoto, SubmitPc, TypeOK, SubmitState
    <3>2. QED
      BY <2>5, <3>1 DEF SubmitInsert, TypeOK, Status
  <2>6. ASSUME NEW d \in Decisions, DecisionFind(d) PROVE TypeOK'
    <3>1. decision' \in [Decisions -> DecisionState]
      BY <2>6 DEF DecisionFind, DecisionGoto, DecisionPc, TypeOK, DecisionState
    <3>2. QED
      BY <2>6, <3>1 DEF DecisionFind, TypeOK
  <2>7. ASSUME NEW d \in Decisions, DecisionClaim(d) PROVE TypeOK'
    <3>1. decision' \in [Decisions -> DecisionState]
      BY <2>7 DEF DecisionClaim, DecisionGoto, DecisionPc, TypeOK, DecisionState
    <3>2. withdrawal' \in [Submits -> Status]
      BY FieldTypes, <2>7 DEF DecisionClaim, TypeOK, Status
    <3>3. QED
      BY <2>7, <3>1, <3>2 DEF DecisionClaim, TypeOK
  <2>8. ASSUME NEW d \in Decisions, RejectFindUser(d) PROVE TypeOK'
    <3>1. balance[submit[decision[d].of].user] \in Int
      BY FieldTypes DEF TypeOK
    <3>2. decision' \in [Decisions -> DecisionState]
      <4>1. CASE submit[decision[d].of].user \in present
        <5>1. PICK b \in Int :
                decision' = [decision EXCEPT ![d].pc = "loaded", ![d].seen = b]
          BY <2>8, <3>1, <4>1 DEF RejectFindUser
        <5>2. decision \in [Decisions -> DecisionState] /\ decision[d] \in DecisionState
          BY DEF TypeOK
        <5>3. decision' = [decision EXCEPT ![d] = [decision[d] EXCEPT !.pc = "loaded", !.seen = b]]
          BY <5>1, <5>2
        <5>4. [decision[d] EXCEPT !.pc = "loaded", !.seen = b] \in DecisionState
          BY <5>2 DEF DecisionState, DecisionPc
        <5>5. QED
          BY <5>2, <5>3, <5>4
      <4>2. CASE submit[decision[d].of].user \notin present
        BY <2>8, <4>2 DEF RejectFindUser, DecisionPc, TypeOK, DecisionState
      <4>3. QED
        BY <4>1, <4>2
    <3>3. QED
      BY <2>8, <3>2 DEF RejectFindUser, TypeOK
  <2>9. ASSUME NEW d \in Decisions, RejectRefund(d) PROVE TypeOK'
    <3>1. decision' \in [Decisions -> DecisionState]
      BY <2>9 DEF RejectRefund, DecisionGoto, DecisionPc, TypeOK, DecisionState
    <3>2. balance' \in [Users -> Int]
      BY FieldTypes, <2>9 DEF RejectRefund, TypeOK
    <3>3. QED
      BY <2>9, <3>1, <3>2 DEF RejectRefund, TypeOK
  <2>10. ASSUME NEW d \in Decisions, RejectRecord(d) PROVE TypeOK'
    <3>1. decision' \in [Decisions -> DecisionState]
      <4>1. /\ decision \in [Decisions -> DecisionState] /\ decision[d] \in DecisionState
            /\ decision' = [decision EXCEPT ![d] = [decision[d] EXCEPT !.pc = "done"]]
        BY <2>10 DEF RejectRecord, DecisionGoto, TypeOK
      <4>2. [decision[d] EXCEPT !.pc = "done"] \in DecisionState
        BY <4>1 DEF DecisionState, DecisionPc
      <4>3. QED
        BY <4>1, <4>2
    <3>2. ledger' \subseteq LedgerEntry
      BY FieldTypes, <2>10 DEF RejectRecord, TypeOK, LedgerEntry
    <3>3. QED
      BY <2>10, <3>1, <3>2 DEF RejectRecord, TypeOK
  <2>11. ASSUME NEW w \in Saves, SaveFind(w) PROVE TypeOK'
    <3>1. balance[save[w].user] \in Int
      BY FieldTypes DEF TypeOK
    <3>2. "loaded" \in SavePc /\ "refused" \in SavePc
      BY DEF SavePc
    <3>3. save' \in [Saves -> SaveState]
      BY <2>11, <3>1, <3>2, UsersAssumption DEF SaveFind, SaveGoto, SavePc, TypeOK, SaveState
    <3>4. QED
      BY <2>11, <3>3 DEF SaveFind, TypeOK
  <2>12. ASSUME NEW w \in Saves, SaveEntity(w) PROVE TypeOK'
    <3>1. save' \in [Saves -> SaveState]
      <4>1. save' = [save EXCEPT ![w].pc = "done"]
        BY <2>12 DEF SaveEntity, SaveGoto
      <4>2. QED
        BY <4>1 DEF SavePc, TypeOK, SaveState
    <3>2. balance' \in [Users -> Int] /\ present' \subseteq Users
      BY <2>12, FieldTypes DEF SaveEntity, TypeOK
    <3>3. QED
      BY <2>12, <3>1, <3>2 DEF SaveEntity, TypeOK
  <2>13. ASSUME NEW w \in Saves, RemoveEntity(w) PROVE TypeOK'
    <3>1. save' \in [Saves -> SaveState]
      <4>1. \/ save' = [save EXCEPT ![w].pc = "done"]
            \/ save' = [save EXCEPT ![w].pc = "refused"]
        BY <2>13 DEF RemoveEntity, SaveGoto
      <4>2. QED
        BY <4>1 DEF SavePc, TypeOK, SaveState
    <3>2. QED
      BY <2>13, <3>1 DEF RemoveEntity, TypeOK
  <2>14. ASSUME NEW C, C \subseteq Calls, Stop(C) PROVE TypeOK'
    BY <2>14 DEF Stop, TypeOK
  <2>15. CASE UNCHANGED vars
    BY <2>15 DEF vars, TypeOK
  <2>16. QED
    BY <2>1, <2>2, <2>3, <2>4, <2>5, <2>6, <2>7, <2>8, <2>9, <2>10, <2>11, <2>12,
       <2>13, <2>14, <2>15
       DEF Next, SubmitStep, DecisionStep, SaveStep, AwaitFails, ProcessStops, Running
<1>3. QED
  BY <1>1, <1>2, PTL DEF Spec

(***************************************************************************)
(* Calls and requests: the part of the inductive invariant from which the  *)
(* single decision follows.                                                *)
(***************************************************************************)

\* A request exists once its call is over; a claim leaves its status in the row;
\* only rejections go on after the claim; no two calls hold the same claim.
CallInv ==
  /\ \A s \in Submits : withdrawal[s] # "none" => submit[s].pc = "done"
  /\ \A d \in Decisions :
       /\ decision[d].pc = "found" => withdrawal[decision[d].of] # "none"
       /\ Claimed(d) => withdrawal[decision[d].of] = decision[d].kind
       /\ decision[d].pc \in {"claimed", "user_missing", "loaded", "refunded"} =>
            decision[d].kind = "rejected"
  /\ SingleDecision

LEMMA CallInvInit == Init => CallInv
  BY UsersAssumption DEF Init, CallInv, SingleDecision, Claimed

LEMMA CallInvStep == TypeOK /\ CallInv /\ [Next]_vars => CallInv'
<1> SUFFICES ASSUME TypeOK, CallInv, [Next]_vars PROVE CallInv'
  OBVIOUS
<1> USE DEF CallInv, SingleDecision, Claimed, database
<1>1. ASSUME NEW s \in Submits, SubmitFindUser(s) PROVE CallInv'
  BY <1>1 DEF SubmitFindUser, SubmitAt, SubmitGoto, TypeOK, SubmitState
<1>2. ASSUME NEW s \in Submits, SubmitCheck(s) PROVE CallInv'
  BY <1>2 DEF SubmitCheck, SubmitAt, SubmitGoto, TypeOK, SubmitState
<1>3. ASSUME NEW s \in Submits, SubmitDeduct(s) PROVE CallInv'
  BY <1>3 DEF SubmitDeduct, SubmitAt, SubmitGoto, TypeOK, SubmitState
<1>4. ASSUME NEW s \in Submits, SubmitRecord(s) PROVE CallInv'
  BY <1>4 DEF SubmitRecord, SubmitAt, SubmitGoto, TypeOK, SubmitState
<1>5. ASSUME NEW s \in Submits, SubmitInsert(s) PROVE CallInv'
  <2>1. submit[s].pc = "recorded" /\ withdrawal[s] = "none"
    BY <1>5 DEF SubmitInsert, SubmitAt
  <2>2. /\ submit' = [submit EXCEPT ![s].pc = "done"]
        /\ withdrawal' = [withdrawal EXCEPT ![s] = "pending"]
        /\ decision' = decision
    BY <1>5 DEF SubmitInsert, SubmitGoto
  <2>3. /\ \A r \in Submits \ {s} : submit'[r] = submit[r] /\ withdrawal'[r] = withdrawal[r]
        /\ submit'[s].pc = "done" /\ submit'[s].amount = submit[s].amount
        /\ withdrawal'[s] = "pending"
    BY <2>2 DEF TypeOK, SubmitState
  <2>4. \A d \in Decisions : decision[d].of = s => ~Claimed(d)
    BY <2>1, FieldTypes
  <2>5. QED
    BY <2>1, <2>2, <2>3, <2>4, FieldTypes
<1>6. ASSUME NEW d \in Decisions, DecisionFind(d) PROVE CallInv'
  BY <1>6 DEF DecisionFind, DecisionAt, DecisionGoto, TypeOK, DecisionState
<1>7. ASSUME NEW d \in Decisions, DecisionClaim(d) PROVE CallInv'
  <2>1. decision[d].of \in Submits /\ decision[d].kind \in {"approved", "rejected"}
    BY FieldTypes
  <2>2. /\ \A e \in Decisions \ {d} : decision'[e] = decision[e]
        /\ decision'[d].of = decision[d].of /\ decision'[d].kind = decision[d].kind
    BY <1>7 DEF DecisionClaim, DecisionGoto, TypeOK, DecisionState
  <2>3. CASE withdrawal[decision[d].of] = "pending"
    <3>1. withdrawal' = [withdrawal EXCEPT ![decision[d].of] = decision[d].kind]
      BY <1>7, <2>3 DEF DecisionClaim
    <3>2. decision'[d].pc = IF decision[d].kind = "approved" THEN "done" ELSE "claimed"
      BY <1>7, <2>3 DEF DecisionClaim, DecisionGoto, TypeOK, DecisionState
    <3>3. \A e \in Decisions \ {d} : Claimed(e) => decision[e].of # decision[d].of
      BY <2>1, <2>3, FieldTypes
    <3>4. submit' = submit
      BY <1>7 DEF DecisionClaim
    <3>5. withdrawal \in [Submits -> Status] /\ withdrawal' \in [Submits -> Status]
      BY <3>1, <2>1 DEF TypeOK, Status
    <3>6. QED
      BY <2>1, <2>2, <2>3, <3>1, <3>2, <3>3, <3>4, <3>5, FieldTypes
  <2>4. CASE withdrawal[decision[d].of] # "pending"
    <3>1. decision'[d].pc = "refused" /\ UNCHANGED <<submit, withdrawal>>
      BY <1>7, <2>4 DEF DecisionClaim, DecisionGoto, TypeOK, DecisionState
    <3>2. QED
      BY <2>2, <3>1
  <2>5. QED
    BY <2>3, <2>4
<1>8. ASSUME NEW d \in Decisions, RejectFindUser(d) PROVE CallInv'
  <2>1. /\ submit' = submit /\ withdrawal' = withdrawal /\ decision[d].pc = "claimed"
        /\ decision'[d].pc \in {"loaded", "user_missing"}
        /\ \A e \in Decisions : /\ decision'[e].of = decision[e].of
                                /\ decision'[e].kind = decision[e].kind
                                /\ e # d => decision'[e].pc = decision[e].pc
    BY <1>8 DEF RejectFindUser, DecisionAt, TypeOK, DecisionState, database
  <2>2. \A e \in Decisions : Claimed(e)' = Claimed(e)
    BY <2>1 DEF Claimed
  <2>3. QED
    BY <2>1, <2>2 DEF Claimed
<1>9. ASSUME NEW d \in Decisions, RejectRefund(d) PROVE CallInv'
  BY <1>9 DEF RejectRefund, DecisionAt, DecisionGoto, TypeOK, DecisionState
<1>10. ASSUME NEW d \in Decisions, RejectRecord(d) PROVE CallInv'
  BY <1>10 DEF RejectRecord, DecisionAt, DecisionGoto, TypeOK, DecisionState
<1>11. ASSUME NEW w \in Saves, SaveStep(w) PROVE CallInv'
  BY <1>11 DEF SaveStep, SaveFind, SaveEntity, RemoveEntity
<1>12. ASSUME NEW C, Stop(C) PROVE CallInv'
  BY <1>12 DEF Stop
<1>13. CASE UNCHANGED vars
  BY <1>13 DEF vars
<1>14. QED
  BY <1>1, <1>2, <1>3, <1>4, <1>5, <1>6, <1>7, <1>8, <1>9, <1>10, <1>11, <1>12, <1>13
     DEF Next, SubmitStep, DecisionStep, AwaitFails, ProcessStops

LEMMA CallInvariant == Spec => []CallInv
  BY TypeCorrect, CallInvInit, CallInvStep, PTL DEF Spec

\* No two administrators decide the same request, for any number of calls.
THEOREM SingleDecisionCorrect == Spec => []SingleDecision
<1>1. CallInv => SingleDecision
  BY DEF CallInv
<1>2. QED
  BY <1>1, CallInvariant, PTL

(***************************************************************************)
(* Ledger rows and requests.                                               *)
(***************************************************************************)

\* A call past its ledger write has its row; a refund row belongs to a refund.
LedgerInv ==
  /\ \A s \in Submits : submit[s].pc \in {"recorded", "done"} =>
       \E e \in ledger : e.type = "withdrawal" /\ e.of = s
  /\ \A e \in ledger : e.type = "withdrawal_refund" => Refunded(e.of)

LEMMA LedgerInvStep == TypeOK /\ LedgerInv /\ CallInv /\ [Next]_vars => LedgerInv'
<1> SUFFICES ASSUME TypeOK, LedgerInv, CallInv, [Next]_vars PROVE LedgerInv'
  OBVIOUS
<1> USE DEF LedgerInv, Refunded, RefundedBy, database
<1>1. ASSUME NEW s \in Submits, SubmitFindUser(s) PROVE LedgerInv'
  <2>1. /\ \A r \in Submits \ {s} : submit'[r] = submit[r]
        /\ submit'[s].pc \in {"found", "refused"}
    BY <1>1 DEF SubmitFindUser, SubmitGoto, TypeOK, SubmitState
  <2>2. ledger' = ledger /\ decision' = decision
    BY <1>1 DEF SubmitFindUser
  <2>3. QED
    BY <2>1, <2>2
<1>2. ASSUME NEW s \in Submits, SubmitCheck(s) PROVE LedgerInv'
  <2>1. /\ \A r \in Submits \ {s} : submit'[r] = submit[r]
        /\ submit'[s].pc \in {"checked", "refused"}
    BY <1>2 DEF SubmitCheck, SubmitGoto, TypeOK, SubmitState
  <2>2. ledger' = ledger /\ decision' = decision
    BY <1>2 DEF SubmitCheck
  <2>3. QED
    BY <2>1, <2>2
<1>3. ASSUME NEW s \in Submits, SubmitDeduct(s) PROVE LedgerInv'
  <2>1. \/ submit' = [submit EXCEPT ![s].pc = "deducted"]
        \/ submit' = [submit EXCEPT ![s].pc = "refused"]
    BY <1>3 DEF SubmitDeduct, SubmitGoto
  <2>2. /\ \A r \in Submits \ {s} : submit'[r] = submit[r]
        /\ submit'[s].pc \in {"deducted", "refused"}
    BY <2>1 DEF TypeOK, SubmitState
  <2>3. ledger' = ledger /\ decision' = decision
    BY <1>3 DEF SubmitDeduct
  <2>4. QED
    BY <2>2, <2>3
<1>4. ASSUME NEW s \in Submits, SubmitRecord(s) PROVE LedgerInv'
  <2>a. PICK after \in Differences(submit[s].seen, submit[s].amount) :
          ledger' = ledger \cup
            {[type |-> "withdrawal", by |-> s, of |-> s, amount |-> InCents(submit[s].amount),
              before |-> submit[s].seen, after |-> after]}
    BY <1>4 DEF SubmitRecord
  <2>0. PICK n : n = [type |-> "withdrawal", by |-> s, of |-> s,
                      amount |-> InCents(submit[s].amount),
                      before |-> submit[s].seen, after |-> after]
    OBVIOUS
  <2>1. ledger' = ledger \cup {n} /\ n.type = "withdrawal" /\ n.of = s
    BY <2>a, <2>0
  <2>2. /\ \A r \in Submits \ {s} : submit'[r] = submit[r]
        /\ decision' = decision
    BY <1>4 DEF SubmitRecord, SubmitGoto
  <2>3. \A e \in ledger' : e.type = "withdrawal_refund" => Refunded(e.of)'
    BY <2>1, <2>2
  <2>4. QED
    BY <2>1, <2>2, <2>3
<1>5. ASSUME NEW s \in Submits, SubmitInsert(s) PROVE LedgerInv'
  BY <1>5 DEF SubmitInsert, SubmitAt, SubmitGoto, TypeOK, SubmitState
<1>6. ASSUME NEW d \in Decisions, DecisionFind(d) PROVE LedgerInv'
  BY <1>6 DEF DecisionFind, DecisionAt, DecisionGoto, TypeOK, DecisionState
<1>7. ASSUME NEW d \in Decisions, DecisionClaim(d) PROVE LedgerInv'
  BY <1>7 DEF DecisionClaim, DecisionAt, DecisionGoto, TypeOK, DecisionState
<1>8. ASSUME NEW d \in Decisions, RejectFindUser(d) PROVE LedgerInv'
  BY <1>8 DEF RejectFindUser, DecisionAt, DecisionGoto, TypeOK, DecisionState
<1>9. ASSUME NEW d \in Decisions, RejectRefund(d) PROVE LedgerInv'
  BY <1>9 DEF RejectRefund, DecisionAt, DecisionGoto, TypeOK, DecisionState
<1>10. ASSUME NEW d \in Decisions, RejectRecord(d) PROVE LedgerInv'
  BY <1>10 DEF RejectRecord, DecisionAt, DecisionGoto, TypeOK, DecisionState, CallInv
<1>11. ASSUME NEW w \in Saves, SaveStep(w) PROVE LedgerInv'
  BY <1>11 DEF SaveStep, SaveFind, SaveEntity, RemoveEntity
<1>12. ASSUME NEW C, Stop(C) PROVE LedgerInv'
  BY <1>12 DEF Stop
<1>13. CASE UNCHANGED vars
  BY <1>13 DEF vars
<1>14. QED
  BY <1>1, <1>2, <1>3, <1>4, <1>5, <1>6, <1>7, <1>8, <1>9, <1>10, <1>11, <1>12, <1>13
     DEF Next, SubmitStep, DecisionStep, AwaitFails, ProcessStops

LEMMA LedgerInvariant == Spec => []LedgerInv
<1>1. Init => LedgerInv
  BY DEF Init, LedgerInv
<1>2. QED
  BY <1>1, TypeCorrect, CallInvariant, LedgerInvStep, PTL DEF Spec

\* A request an administrator can see has its amount frozen and logged.
THEOREM FrozenBeforeVisibleCorrect == Spec => []FrozenBeforeVisible
<1>1. CallInv /\ LedgerInv => FrozenBeforeVisible
  BY DEF CallInv, LedgerInv, FrozenBeforeVisible, Deducted
<1>2. QED
  BY <1>1, CallInvariant, LedgerInvariant, PTL

\* Money comes back for rejected requests only.
THEOREM RefundOnlyRejectedCorrect == Spec => []RefundOnlyRejected
<1>1. TypeOK /\ CallInv /\ LedgerInv => RefundOnlyRejected
  <2> SUFFICES ASSUME TypeOK, CallInv, LedgerInv, NEW s \in Submits,
                      \/ Refunded(s)
                      \/ \E e \in ledger : e.type = "withdrawal_refund" /\ e.of = s
               PROVE  withdrawal[s] = "rejected"
    BY DEF RefundOnlyRejected
  <2>1. Refunded(s)
    BY DEF LedgerInv
  <2>2. PICK d \in Decisions : RefundedBy(d) /\ decision[d].of = s
    BY <2>1 DEF Refunded
  <2>3. QED
    BY <2>2 DEF RefundedBy, Claimed, CallInv
<1>2. QED
  BY <1>1, TypeCorrect, CallInvariant, LedgerInvariant, PTL

(***************************************************************************)
(* Sums.                                                                   *)
(***************************************************************************)

LEMMA DisjointCardinality ==
  ASSUME NEW A, NEW B, IsFiniteSet(A), IsFiniteSet(B), A \cap B = {}
  PROVE  Cardinality(A \cup B) = Cardinality(A) + Cardinality(B)
<1>1. Cardinality(A \cup B) = Cardinality(A) + Cardinality(B) - Cardinality(A \cap B)
  BY FS_Union
<1>2. Cardinality(A \cap B) = 0
  BY FS_EmptySet
<1>3. Cardinality(A) \in Nat /\ Cardinality(B) \in Nat
  BY FS_CardinalityType
<1>4. QED
  <2> DEFINE a == Cardinality(A)
             b == Cardinality(B)
  <2>1. a \in Nat /\ b \in Nat /\ Cardinality(A \cup B) = a + b - 0
    BY <1>1, <1>2, <1>3
  <2> HIDE DEF a, b
  <2>2. Cardinality(A \cup B) = a + b
    BY <2>1
  <2>3. QED
    BY <2>2 DEF a, b

\* The coins of a finite set are finitely many.
LEMMA CoinsFinite ==
  ASSUME NEW S, NEW worth, IsFiniteSet(S), \A x \in S : worth[x] \in Int
  PROVE  IsFiniteSet(Coins(S, worth)) /\ Total(S, worth) \in Nat
<1> DEFINE K(x) == {x} \X (1 .. worth[x])
           Sets == {K(x) : x \in S}
<1>1. ASSUME NEW x \in S PROVE IsFiniteSet(K(x))
  <2>1. 1 \in Int /\ worth[x] \in Int
    OBVIOUS
  <2>2. IsFiniteSet(1 .. worth[x])
    BY <2>1, FS_Interval
  <2>3. IsFiniteSet({x})
    BY FS_Singleton
  <2>4. QED
    BY <2>2, <2>3, FS_Product
<1>2. IsFiniteSet(Sets)
  <2> DEFINE F == [x \in S |-> K(x)]
  <2>1. F \in Surjection(S, Sets)
    <3>1. F \in [S -> Sets] /\ \A t \in Sets : \E x \in S : F[x] = t
      OBVIOUS
    <3> HIDE DEF F, Sets
    <3>2. QED
      BY <3>1, Fun_IsSurj
  <2>2. QED
    BY <2>1, FS_Surjection DEF ExistsSurjection
<1>3. \A T \in Sets : IsFiniteSet(T)
  BY <1>1
<1>4. IsFiniteSet(UNION Sets)
  <2> HIDE DEF Sets
  <2>1. QED
    BY <1>2, <1>3, FS_UNION
<1>5. QED
  BY <1>4, FS_CardinalityType DEF Coins, Total

LEMMA TotalEmpty == ASSUME NEW worth PROVE Total({}, worth) = 0
<1>1. Coins({}, worth) = {}
  BY DEF Coins
<1>2. QED
  BY <1>1, FS_EmptySet DEF Total

LEMMA TotalSingle ==
  ASSUME NEW x, NEW worth, worth[x] \in Nat
  PROVE  Total({x}, worth) = worth[x]
<1>1. PICK n \in Nat : n = worth[x]
  OBVIOUS
<1>2. 1 \in Int /\ n \in Int
  BY <1>1
<1>3. IsFiniteSet(1 .. n) /\ Cardinality(1 .. n) = IF 1 > n THEN 0 ELSE n - 1 + 1
  BY <1>2, FS_Interval
<1>4. IsFiniteSet({x}) /\ Cardinality({x}) = 1
  BY FS_Singleton
<1>5. Cardinality({x} \X (1 .. n)) = Cardinality({x}) * Cardinality(1 .. n)
  BY <1>3, <1>4, FS_Product
<1>6. Cardinality({x}) * Cardinality(1 .. n) = n
  BY <1>1, <1>3, <1>4
<1>7. Coins({x}, worth) = {x} \X (1 .. n)
  BY <1>1 DEF Coins
<1>8. QED
  BY <1>1, <1>5, <1>6, <1>7 DEF Total

\* The sums of disjoint sets add up.
LEMMA TotalSplit ==
  ASSUME NEW S, NEW T, NEW worth, IsFiniteSet(S), IsFiniteSet(T), S \cap T = {},
         \A x \in S \cup T : worth[x] \in Int
  PROVE  Total(S \cup T, worth) = Total(S, worth) + Total(T, worth)
<1>1. IsFiniteSet(Coins(S, worth)) /\ IsFiniteSet(Coins(T, worth))
  BY CoinsFinite
<1>2. /\ Coins(S \cup T, worth) = Coins(S, worth) \cup Coins(T, worth)
      /\ Coins(S, worth) \cap Coins(T, worth) = {}
  BY DEF Coins
<1>3. QED
  BY <1>1, <1>2, DisjointCardinality DEF Total

\* One element leaves the set.
LEMMA TotalWithout ==
  ASSUME NEW S, NEW x \in S, NEW worth, IsFiniteSet(S), \A y \in S : worth[y] \in Nat
  PROVE  Total(S, worth) = Total(S \ {x}, worth) + worth[x]
<1>1. S = (S \ {x}) \cup {x} /\ (S \ {x}) \cap {x} = {}
  OBVIOUS
<1>2. IsFiniteSet(S \ {x}) /\ IsFiniteSet({x})
  BY FS_Difference, FS_Singleton
<1>3. \A y \in (S \ {x}) \cup {x} : worth[y] \in Int
  OBVIOUS
<1>4. Total((S \ {x}) \cup {x}, worth) = Total(S \ {x}, worth) + Total({x}, worth)
  BY <1>1, <1>2, <1>3, TotalSplit
<1>5. QED
  BY <1>1, <1>4, TotalSingle

\* Rows R name the members of S, each once: their sums are the same.
LEMMA TotalMatch ==
  ASSUME NEW R, NEW S, NEW worth, NEW value, IsFiniteSet(S),
         \A s \in S : value[s] \in Int,
         \A e \in R : e.of \in S /\ worth[e] = value[e.of],
         \A e, f \in R : e.of = f.of => e = f,
         \A s \in S : \E e \in R : e.of = s
  PROVE  IsFiniteSet(R) /\ Total(R, worth) = Total(S, value)
<1> DEFINE T == Coins(R, worth)
           F == [x \in T |-> <<x[1].of, x[2]>>]
           G == [e \in R |-> e.of]
<1>1. IsFiniteSet(R)
  <2>1. G \in [R -> S] /\ \A e, f \in R : G[e] = G[f] => e = f
    OBVIOUS
  <2> HIDE DEF G
  <2>2. G \in Injection(R, S)
    BY <2>1, Fun_IsInj
  <2>3. QED
    BY <2>2, FS_Injection DEF ExistsInjection
<1>2. ASSUME NEW x \in T
      PROVE  /\ x[1] \in R /\ x[1].of \in S /\ x[2] \in 1 .. value[x[1].of]
             /\ x = <<x[1], x[2]>>
  BY DEF Coins
<1>3. ASSUME NEW e \in R, NEW k \in 1 .. value[e.of] PROVE <<e, k>> \in T
  BY DEF Coins
<1> HIDE DEF T
<1>4. F \in [T -> Coins(S, value)]
  BY <1>2 DEF Coins
<1>5. ASSUME NEW x \in T, NEW y \in T, F[x] = F[y] PROVE x = y
  <2>1. x[1].of = y[1].of /\ x[2] = y[2]
    BY <1>5
  <2>2. x[1] = y[1]
    BY <1>2, <2>1
  <2>3. QED
    BY <1>2, <2>1, <2>2
<1>6. ASSUME NEW c \in Coins(S, value) PROVE \E x \in T : F[x] = c
  <2>1. c[1] \in S /\ c[2] \in 1 .. value[c[1]] /\ c = <<c[1], c[2]>>
    BY DEF Coins
  <2>2. PICK e \in R : e.of = c[1]
    BY <2>1
  <2>3. <<e, c[2]>> \in T
    BY <1>3, <2>1, <2>2
  <2>4. F[<<e, c[2]>>] = c
    BY <2>1, <2>2, <2>3
  <2>5. QED
    BY <2>3, <2>4
<1> HIDE DEF F
<1>7. F \in Bijection(T, Coins(S, value))
  BY <1>4, <1>5, <1>6, Fun_IsBij
<1>8. ExistsBijection(Coins(S, value), T)
  BY <1>7, Fun_ExistsBij, Fun_ExistsBijSymmetric
<1>9. Cardinality(T) = Cardinality(Coins(S, value))
  BY <1>8, CoinsFinite, FS_Bijection
<1>10. QED
  BY <1>1, <1>9 DEF T, Total

\* Some members are worth one more, and add one each.
OneMore(S, worth, value) ==
  \A x \in S : value[x] \in Nat /\ worth[x] - value[x] \in {0, 1} /\ worth[x] \in Nat

LEMMA TotalOver ==
  ASSUME NEW S, NEW worth, NEW value, NEW G, IsFiniteSet(S), OneMore(S, worth, value),
         G = {x \in S : worth[x] # value[x]}
  PROVE  /\ Total(S, value) \in Nat
         /\ Cardinality(G) \in Nat
         /\ Total(S, worth) = Total(S, value) + Cardinality(G)
<1> DEFINE Top == {<<x, worth[x]>> : x \in G}
           F == [x \in G |-> <<x, worth[x]>>]
<1>1. IsFiniteSet(G) /\ Cardinality(G) \in Nat
  <2>1. G \in SUBSET S
    OBVIOUS
  <2>2. QED
    BY <2>1, FS_Subset, FS_CardinalityType
<1>2. F \in Bijection(G, Top)
  <2>1. /\ F \in [G -> Top]
        /\ \A x, y \in G : F[x] = F[y] => x = y
        /\ \A t \in Top : \E x \in G : F[x] = t
    OBVIOUS
  <2> HIDE DEF F, Top
  <2>2. QED
    BY <2>1, Fun_IsBij
<1>3. IsFiniteSet(Top) /\ Cardinality(Top) = Cardinality(G)
  <2>1. ExistsBijection(G, Top)
    BY <1>2, Fun_ExistsBij
  <2> HIDE DEF Top
  <2>2. QED
    BY <1>1, <2>1, FS_Bijection
<1>4. Coins(S, worth) = Coins(S, value) \cup Top /\ Coins(S, value) \cap Top = {}
  <2>1. ASSUME NEW x \in S
        PROVE  \/ worth[x] = value[x]
               \/ worth[x] = value[x] + 1
    BY DEF OneMore
  <2>2. ASSUME NEW x \in S, NEW k
        PROVE  /\ k \in 1 .. worth[x] <=> k \in 1 .. value[x] \/ (worth[x] # value[x] /\ k = worth[x])
               /\ ~(k \in 1 .. value[x] /\ worth[x] # value[x] /\ k = worth[x])
    BY <2>1 DEF OneMore
  <2>3. QED
    BY <2>2 DEF Coins
<1>5. IsFiniteSet(Coins(S, value)) /\ Total(S, value) \in Nat
  <2>1. \A x \in S : value[x] \in Int
    BY DEF OneMore
  <2>2. QED
    BY <2>1, CoinsFinite
<1> HIDE DEF Top
<1>6. Cardinality(Coins(S, worth)) = Cardinality(Coins(S, value)) + Cardinality(Top)
  BY <1>3, <1>4, <1>5, DisjointCardinality
<1>7. Total(S, worth) = Total(S, value) + Cardinality(G)
  BY <1>3, <1>6 DEF Total
<1>8. QED
  BY <1>1, <1>5, <1>7

(***************************************************************************)
(* Money.  The requests whose amount is held for a user are a finite set;  *)
(* a deduction adds its request to it, a refund removes it, no other step  *)
(* of a call changes it.                                                   *)
(***************************************************************************)
Held(u) == DeductedOf(u) \ RefundedOf(u)

\* Conservation, for one user.
Balanced(u) ==
  balance[u] + Total(Held(u), TakenBy) = InitialBalance[u] + Cardinality(RoundedUp(u))

LEMMA HeldFinite ==
  ASSUME TypeOK, NEW u
  PROVE  /\ IsFiniteSet(Held(u)) /\ IsFiniteSet(DeductedOf(u)) /\ IsFiniteSet(RefundedOf(u))
         /\ IsFiniteSet(RoundedUp(u)) /\ Cardinality(RoundedUp(u)) \in Nat
         /\ Total(Held(u), TakenBy) \in Nat
<1>1. /\ Held(u) \in SUBSET Submits /\ DeductedOf(u) \in SUBSET Submits
      /\ RefundedOf(u) \in SUBSET Submits /\ RoundedUp(u) \in SUBSET Submits
  BY DEF Held, DeductedOf, RefundedOf, RoundedUp
<1>2. /\ IsFiniteSet(Held(u)) /\ IsFiniteSet(DeductedOf(u)) /\ IsFiniteSet(RefundedOf(u))
      /\ IsFiniteSet(RoundedUp(u))
  BY <1>1, CallsAssumption, FS_Subset
<1>3. \A s \in Held(u) : TakenBy[s] \in Int
  BY <1>1, AmountTypes
<1>4. QED
  BY <1>2, <1>3, CoinsFinite, FS_CardinalityType

\* The amounts of the requests never change.
LEMMA TakenBySame ==
  ASSUME \A s \in Submits : submit'[s].amount = submit[s].amount
  PROVE  TakenBy' = TakenBy /\ \A s \in Submits : Requested(s)' = Requested(s)
  BY DEF TakenBy, Requested

\* Steps that neither deduct nor refund leave the held requests alone.
LEMMA HeldSame ==
  ASSUME \A s \in Submits : /\ submit'[s].user = submit[s].user
                            /\ submit'[s].amount = submit[s].amount
                            /\ Deducted(s)' = Deducted(s)
                            /\ Refunded(s)' = Refunded(s),
         NEW u
  PROVE  /\ Held(u)' = Held(u) /\ RoundedUp(u)' = RoundedUp(u) /\ TakenBy' = TakenBy
<1>1. TakenBy' = TakenBy /\ \A s \in Submits : Requested(s)' = Requested(s)
  BY TakenBySame
<1>2. DeductedOf(u)' = DeductedOf(u)
  BY DEF DeductedOf
<1>3. RefundedOf(u)' = RefundedOf(u) /\ RefundedOf(u) \subseteq Submits
  BY DEF RefundedOf
<1>4. QED
  BY <1>1, <1>2, <1>3 DEF Held, RoundedUp

\* Conservation in the next state, with the amounts taken in this one.
LEMMA BalancedNext ==
  ASSUME NEW u, TakenBy' = TakenBy,
         balance'[u] + Total(Held(u)', TakenBy) = InitialBalance[u] + Cardinality(RoundedUp(u)')
  PROVE  Balanced(u)'
  BY DEF Balanced, Total, Coins

\* Rows are only missing, and balances only lose track of the coins, for users
\* that UserService has written.
MoneyInv ==
  /\ \A u \in Users \ Overwritten : u \in present
  /\ \A u \in Users \ Overwritten : Balanced(u)

LEMMA OverwrittenGrows == TypeOK /\ [Next]_vars => Overwritten \subseteq Overwritten'
<1> SUFFICES ASSUME TypeOK, [Next]_vars PROVE Overwritten \subseteq Overwritten'
  OBVIOUS
<1>1. CASE save' = save
  BY <1>1 DEF Overwritten
<1>2. ASSUME NEW w \in Saves, SaveStep(w) PROVE Overwritten \subseteq Overwritten'
  <2>1. save[w].pc # "done"
    BY <1>2 DEF SaveStep, SaveFind, SaveEntity, RemoveEntity, SaveAt
  <2>2. \A v \in Saves \ {w} : save'[v] = save[v]
    <3>1. save \in [Saves -> SaveState]
      BY DEF TypeOK
    <3>2. CASE SaveFind(w)
      BY <3>1, <3>2 DEF SaveFind, SaveGoto
    <3>3. CASE SaveEntity(w)
      BY <3>1, <3>3 DEF SaveEntity, SaveGoto
    <3>4. CASE RemoveEntity(w)
      BY <3>1, <3>4 DEF RemoveEntity, SaveGoto
    <3>5. QED
      BY <1>2, <3>2, <3>3, <3>4 DEF SaveStep
  <2>3. \A v \in Saves : save[v].pc = "done" => save'[v] = save[v]
    BY <2>1, <2>2
  <2>4. QED
    BY <2>3 DEF Overwritten
<1>3. ASSUME NEW s \in Submits, SubmitStep(s) PROVE save' = save
  BY <1>3 DEF SubmitStep, SubmitFindUser, SubmitCheck, SubmitDeduct, SubmitRecord, SubmitInsert
<1>4. ASSUME NEW d \in Decisions, DecisionStep(d) PROVE save' = save
  BY <1>4 DEF DecisionStep, DecisionFind, DecisionClaim, RejectFindUser, RejectRefund,
     RejectRecord
<1>5. QED
  BY <1>1, <1>2, <1>3, <1>4 DEF Next, AwaitFails, ProcessStops, Stop, vars

\* A deduction: s joins the held requests of its user.
LEMMA DeductHolds ==
  ASSUME TypeOK, CallInv, NEW s \in Submits, SubmitDeduct(s),
         submit'[s].pc = "deducted", NEW u
  PROVE  /\ TakenBy' = TakenBy /\ RoundedUp(u)' = RoundedUp(u)
         /\ submit[s].user = u => Held(u)' = Held(u) \cup {s} /\ s \notin Held(u)
         /\ submit[s].user # u => Held(u)' = Held(u)
<1>1. /\ submit' = [submit EXCEPT ![s].pc = "deducted"]
      /\ submit[s].pc = "checked" /\ decision' = decision
  BY DEF SubmitDeduct, SubmitAt, SubmitGoto, TypeOK, SubmitState
<1>2. /\ \A r \in Submits \ {s} : submit'[r] = submit[r]
      /\ submit'[s].user = submit[s].user /\ submit'[s].amount = submit[s].amount
  BY <1>1 DEF TypeOK, SubmitState
<1>3. withdrawal[s] = "none"
  BY <1>1, FieldTypes DEF CallInv
<1>4. ~Refunded(s)
  BY <1>3, FieldTypes DEF Refunded, RefundedBy, CallInv, Claimed
<1>5. \A r : Refunded(r)' = Refunded(r)
  BY <1>1 DEF Refunded, RefundedBy
<1>6. \A r \in Submits \ {s} : Deducted(r)' = Deducted(r)
  BY <1>2 DEF Deducted
<1>7. ~Deducted(s) /\ Deducted(s)'
  BY <1>1 DEF Deducted
<1>8. TakenBy' = TakenBy /\ \A r \in Submits : Requested(r)' = Requested(r)
  BY <1>2, TakenBySame
<1>9. RefundedOf(u)' = RefundedOf(u) /\ RefundedOf(u) \subseteq Submits
  BY <1>2, <1>5 DEF RefundedOf
<1>10. /\ submit[s].user = u => DeductedOf(u)' = DeductedOf(u) \cup {s}
       /\ submit[s].user # u => DeductedOf(u)' = DeductedOf(u)
       /\ s \notin DeductedOf(u) /\ s \notin RefundedOf(u)
  BY <1>2, <1>4, <1>6, <1>7 DEF DeductedOf, RefundedOf
<1>11. QED
  BY <1>8, <1>9, <1>10 DEF Held, RoundedUp

\* A refund: the request leaves the held requests of its user, and joins those that
\* brought more than they took if it did.
LEMMA RefundReleases ==
  ASSUME TypeOK, CallInv, NEW d \in Decisions, NEW s, s = decision[d].of,
         RejectRefund(d), NEW u
  PROVE  /\ TakenBy' = TakenBy
         /\ submit[s].user = u =>
              /\ s \in Held(u) /\ Held(u)' = Held(u) \ {s}
              /\ s \notin RoundedUp(u)
              /\ RoundedUp(u)' = IF Requested(s) # TakenBy[s] THEN RoundedUp(u) \cup {s}
                                                             ELSE RoundedUp(u)
         /\ submit[s].user # u => Held(u)' = Held(u) /\ RoundedUp(u)' = RoundedUp(u)
<1>1. /\ s \in Submits /\ submit' = submit
      /\ decision[d].pc = "loaded" /\ decision[d].kind = "rejected"
  BY FieldTypes DEF RejectRefund, DecisionAt, CallInv
<1>2. /\ \A e \in Decisions \ {d} : decision'[e] = decision[e]
      /\ decision'[d].pc = "refunded" /\ decision'[d].kind = "rejected"
      /\ decision'[d].of = s
  BY <1>1 DEF RejectRefund, DecisionGoto, TypeOK, DecisionState
<1>3. submit[s].pc = "done"
  BY <1>1, FieldTypes DEF CallInv, Claimed
<1>4. \A e \in Decisions \ {d} : RefundedBy(e) => decision[e].of # s
  BY <1>1 DEF CallInv, SingleDecision, RefundedBy, Claimed
<1>5. ~Refunded(s) /\ \A r \in Submits : r = s => Refunded(r)'
  BY <1>1, <1>2, <1>4 DEF Refunded, RefundedBy
<1>6. \A r \in Submits \ {s} : Refunded(r)' = Refunded(r)
  BY <1>1, <1>2 DEF Refunded, RefundedBy
<1>7. \A r \in Submits : Deducted(r)' = Deducted(r)
  BY <1>1 DEF Deducted
<1>8. Deducted(s)
  BY <1>3 DEF Deducted
<1>9. TakenBy' = TakenBy /\ \A r \in Submits : Requested(r)' = Requested(r)
  BY <1>1, TakenBySame
<1>10. DeductedOf(u)' = DeductedOf(u) /\ (submit[s].user = u => s \in DeductedOf(u))
  BY <1>1, <1>7, <1>8 DEF DeductedOf
<1>11. /\ submit[s].user = u => RefundedOf(u)' = RefundedOf(u) \cup {s}
       /\ submit[s].user # u => RefundedOf(u)' = RefundedOf(u)
       /\ s \notin RefundedOf(u) /\ RefundedOf(u) \subseteq Submits
  BY <1>1, <1>5, <1>6 DEF RefundedOf
<1>12. RoundedUp(u)' = {r \in RefundedOf(u)' : Requested(r) # TakenBy[r]}
  BY <1>1, <1>9, <1>11 DEF RoundedUp
<1>13. QED
  BY <1>9, <1>10, <1>11, <1>12 DEF Held, RoundedUp

LEMMA MoneyInvInit == Init => MoneyInv
<1> SUFFICES ASSUME Init PROVE MoneyInv
  OBVIOUS
<1>1. \A u : Held(u) = {} /\ RoundedUp(u) = {}
  BY DEF Init, Held, DeductedOf, RoundedUp, RefundedOf, Deducted, Refunded, RefundedBy
<1>2. Total({}, TakenBy) = 0 /\ Cardinality({}) = 0
  BY TotalEmpty, FS_EmptySet
<1>3. \A u \in Users : balance[u] \in Int /\ balance[u] = InitialBalance[u]
  BY UsersAssumption DEF Init
<1>4. ASSUME NEW u \in Users PROVE Balanced(u)
  <2>1. Total(Held(u), TakenBy) = 0 /\ Cardinality(RoundedUp(u)) = 0
    BY <1>1, <1>2
  <2>2. balance[u] + 0 = InitialBalance[u] + 0
    BY <1>3
  <2>3. QED
    BY <2>1, <2>2 DEF Balanced
<1>5. \A u \in Users \ Overwritten : u \in present
  BY DEF Init
<1>6. QED
  BY <1>4, <1>5 DEF MoneyInv

\* A step that moves no money of u.
LEMMA MoneyUnmoved ==
  ASSUME TypeOK, MoneyInv, [Next]_vars, NEW u \in Users,
         u \notin Overwritten', balance'[u] = balance[u],
         Held(u)' = Held(u), RoundedUp(u)' = RoundedUp(u), TakenBy' = TakenBy
  PROVE  Balanced(u)'
<1>1. Balanced(u)
  BY OverwrittenGrows DEF MoneyInv
<1>2. balance'[u] + Total(Held(u)', TakenBy) = InitialBalance[u] + Cardinality(RoundedUp(u)')
  BY <1>1 DEF Balanced
<1>3. QED
  BY <1>2, BalancedNext

LEMMA MoneyInvStep == TypeOK /\ CallInv /\ MoneyInv /\ [Next]_vars => MoneyInv'
<1> SUFFICES ASSUME TypeOK, CallInv, MoneyInv, [Next]_vars PROVE MoneyInv'
  OBVIOUS
<1>1. \A u \in Users \ Overwritten' : u \in present'
  <2>1. \A u \in Users \ Overwritten' : u \in present
    BY OverwrittenGrows DEF MoneyInv
  <2>2. ASSUME NEW w \in Saves, RemoveEntity(w)
        PROVE  \A u \in Users \ Overwritten' : u \in present'
    <3>1. CASE save[w].user \in NoPrivacyRow
      <4>1. present' = present \ {save[w].user}
        BY <2>2, <3>1 DEF RemoveEntity
      <4>2. save'[w].pc = "done" /\ save'[w].user = save[w].user
        BY <2>2, <3>1 DEF RemoveEntity, SaveGoto, TypeOK, SaveState
      <4>3. save[w].user \in Overwritten'
        BY <4>2 DEF Overwritten
      <4>4. QED
        BY <2>1, <4>1, <4>3
    <3>2. CASE save[w].user \notin NoPrivacyRow
      BY <2>1, <2>2, <3>2 DEF RemoveEntity
    <3>3. QED
      BY <3>1, <3>2
  <2>3. (\E w \in Saves : RemoveEntity(w)) \/ present \subseteq present'
    BY DEF Next, vars, SubmitStep, SubmitFindUser, SubmitCheck,
       SubmitDeduct, SubmitRecord, SubmitInsert, DecisionStep, DecisionFind, DecisionClaim,
       RejectFindUser, RejectRefund, RejectRecord, SaveStep, SaveFind, SaveEntity,
       AwaitFails, ProcessStops, Stop, database
  <2>4. QED
    BY <2>1, <2>2, <2>3
<1> SUFFICES ASSUME NEW u \in Users, u \notin Overwritten'
             PROVE  Balanced(u)'
  BY <1>1 DEF MoneyInv
<1>2. /\ u \notin Overwritten /\ u \in present
      /\ balance[u] + Total(Held(u), TakenBy) = InitialBalance[u] + Cardinality(RoundedUp(u))
      /\ balance[u] \in Int /\ InitialBalance[u] \in Nat
  BY OverwrittenGrows, UsersAssumption DEF MoneyInv, Balanced, TypeOK
<1>3. ASSUME NEW s \in Submits, SubmitDeduct(s), submit'[s].pc = "deducted"
      PROVE  Balanced(u)'
  <2>1. balance' = [balance EXCEPT ![submit[s].user] = InCents(@ * Parts - submit[s].amount)]
    BY <1>3 DEF SubmitDeduct, SubmitGoto, TypeOK, SubmitState
  <2>2. CASE submit[s].user # u
    <3>1. balance'[u] = balance[u]
      BY <2>1, <2>2 DEF TypeOK
    <3>2. Held(u)' = Held(u) /\ RoundedUp(u)' = RoundedUp(u) /\ TakenBy' = TakenBy
      BY <1>3, <2>2, DeductHolds
    <3>3. QED
      BY <3>1, <3>2, MoneyUnmoved
  <2>3. CASE submit[s].user = u
    <3>1. /\ TakenBy' = TakenBy /\ RoundedUp(u)' = RoundedUp(u)
          /\ Held(u)' = Held(u) \cup {s} /\ s \notin Held(u)
      BY <1>3, <2>3, DeductHolds
    <3>2. TakenBy[s] \in Nat /\ TakenBy[s] = Taken(submit[s].amount) /\ submit[s].amount \in Int
      BY AmountTypes, FieldTypes
    <3>3. balance'[u] = balance[u] - TakenBy[s]
      <4>1. InCents(balance[u] * Parts - submit[s].amount) = balance[u] - Taken(submit[s].amount)
        BY <1>2, <3>2, DeductionTakes
      <4>2. balance'[u] = InCents(balance[u] * Parts - submit[s].amount)
        BY <2>1, <2>3 DEF TypeOK
      <4>3. QED
        BY <3>2, <4>1, <4>2
    <3>4. Total(Held(u) \cup {s}, TakenBy) = Total(Held(u), TakenBy) + TakenBy[s]
      <4>1. Held(u) \cap {s} = {} /\ IsFiniteSet(Held(u)) /\ IsFiniteSet({s})
        BY <3>1, HeldFinite, FS_Singleton
      <4>2. \A r \in Held(u) \cup {s} : TakenBy[r] \in Int
        BY AmountTypes DEF Held, DeductedOf
      <4>3. Total(Held(u) \cup {s}, TakenBy) = Total(Held(u), TakenBy) + Total({s}, TakenBy)
        BY <4>1, <4>2, TotalSplit
      <4>4. QED
        BY <3>2, <4>3, TotalSingle
    <3>5. Total(Held(u), TakenBy) \in Nat /\ Cardinality(RoundedUp(u)) \in Nat
      BY HeldFinite
    <3>6. balance'[u] + Total(Held(u)', TakenBy)
            = InitialBalance[u] + Cardinality(RoundedUp(u)')
      BY <1>2, <3>1, <3>2, <3>3, <3>4, <3>5
    <3>7. QED
      BY <3>1, <3>6, BalancedNext
  <2>4. QED
    BY <2>2, <2>3
<1>4. ASSUME NEW d \in Decisions, RejectRefund(d)
      PROVE  Balanced(u)'
  <2>0. PICK s \in Submits : s = decision[d].of
    BY FieldTypes
  <2>1. CASE submit[s].user # u
    <3>1. balance'[u] = balance[u]
      BY <1>4, <2>0, <2>1 DEF RejectRefund, TypeOK
    <3>2. Held(u)' = Held(u) /\ RoundedUp(u)' = RoundedUp(u) /\ TakenBy' = TakenBy
      BY <1>4, <2>0, <2>1, RefundReleases
    <3>3. QED
      BY <3>1, <3>2, MoneyUnmoved
  <2>2. CASE submit[s].user = u
    <3>1. /\ TakenBy' = TakenBy /\ s \in Held(u) /\ Held(u)' = Held(u) \ {s}
          /\ s \notin RoundedUp(u)
          /\ RoundedUp(u)' = IF Requested(s) # TakenBy[s] THEN RoundedUp(u) \cup {s}
                                                         ELSE RoundedUp(u)
      BY <1>4, <2>0, <2>2, RefundReleases
    <3>2. balance'[u] = balance[u] + Requested(s)
      BY <1>2, <1>4, <2>0, <2>2 DEF RejectRefund, TypeOK
    <3>3. /\ TakenBy[s] \in Nat /\ Requested(s) \in Nat
          /\ Requested(s) - TakenBy[s] \in {0, 1}
      BY AmountTypes
    <3>4. /\ IsFiniteSet(Held(u)) /\ IsFiniteSet(RoundedUp(u))
          /\ Total(Held(u), TakenBy) \in Nat /\ Cardinality(RoundedUp(u)) \in Nat
      BY HeldFinite
    <3>5. \A r \in Held(u) : TakenBy[r] \in Nat
      BY AmountTypes DEF Held, DeductedOf
    <3>6. /\ Total(Held(u), TakenBy) = Total(Held(u) \ {s}, TakenBy) + TakenBy[s]
          /\ Total(Held(u) \ {s}, TakenBy) \in Nat
      <4>0. IsFiniteSet(Held(u) \ {s})
        <5>1. Held(u) \ {s} \in SUBSET Held(u)
          OBVIOUS
        <5>2. QED
          BY <3>4, <5>1, FS_Subset
      <4>1. IsFiniteSet(Held(u) \ {s}) /\ \A r \in Held(u) \ {s} : TakenBy[r] \in Int
        BY <3>5, <4>0
      <4>2. QED
        BY <3>1, <3>4, <3>5, <4>1, TotalWithout, CoinsFinite
    <3>7. Cardinality(RoundedUp(u)') = Cardinality(RoundedUp(u)) + (Requested(s) - TakenBy[s])
      <4>1. Cardinality(RoundedUp(u) \cup {s}) = Cardinality(RoundedUp(u)) + 1
        <5>1. PICK G : G = RoundedUp(u)
          OBVIOUS
        <5>2. IsFiniteSet(G) /\ s \notin G
          BY <3>1, <3>4, <5>1
        <5>3. Cardinality(G \cup {s}) = Cardinality(G) + 1
          BY <5>2, FS_AddElement
        <5>4. QED
          BY <5>1, <5>3
      <4>2. CASE Requested(s) = TakenBy[s]
        BY <3>1, <3>3, <3>4, <4>2
      <4>3. CASE Requested(s) # TakenBy[s]
        <5>1. Requested(s) - TakenBy[s] = 1
          BY <3>3, <4>3
        <5>2. RoundedUp(u)' = RoundedUp(u) \cup {s}
          BY <3>1, <4>3
        <5>3. QED
          BY <4>1, <5>1, <5>2
      <4>4. QED
        BY <4>2, <4>3
    <3>8. balance'[u] + Total(Held(u)', TakenBy)
            = InitialBalance[u] + Cardinality(RoundedUp(u)')
      BY <1>2, <3>1, <3>2, <3>3, <3>4, <3>6, <3>7
    <3>9. QED
      BY <3>1, <3>8, BalancedNext
  <2>3. QED
    BY <2>1, <2>2
<1>5. ASSUME NEW s \in Submits, SubmitStep(s), submit'[s].pc # "deducted"
      PROVE  Balanced(u)'
  <2>1. balance' = balance /\ decision' = decision
    BY <1>5 DEF SubmitStep, SubmitFindUser, SubmitCheck, SubmitDeduct, SubmitRecord,
       SubmitInsert, SubmitGoto, TypeOK, SubmitState, database
  <2>2. \A r \in Submits : /\ submit'[r].user = submit[r].user
                           /\ submit'[r].amount = submit[r].amount
                           /\ Deducted(r)' = Deducted(r)
    <3>1. CASE SubmitFindUser(s) \/ SubmitCheck(s)
      BY <3>1 DEF SubmitFindUser, SubmitCheck, SubmitAt, SubmitGoto, TypeOK, SubmitState, Deducted
    <3>2. CASE SubmitDeduct(s)
      BY <1>5, <3>2 DEF SubmitDeduct, SubmitAt, SubmitGoto, TypeOK, SubmitState, Deducted
    <3>3. CASE SubmitRecord(s) \/ SubmitInsert(s)
      BY <3>3 DEF SubmitRecord, SubmitInsert, SubmitAt, SubmitGoto, TypeOK, SubmitState, Deducted
    <3>4. QED
      BY <1>5, <3>1, <3>2, <3>3 DEF SubmitStep
  <2>3. Held(u)' = Held(u) /\ RoundedUp(u)' = RoundedUp(u) /\ TakenBy' = TakenBy
    BY <2>1, <2>2, HeldSame DEF Refunded, RefundedBy
  <2>4. QED
    BY <2>1, <2>3, MoneyUnmoved
<1>6. ASSUME NEW d \in Decisions,
             DecisionFind(d) \/ DecisionClaim(d) \/ RejectFindUser(d) \/ RejectRecord(d)
      PROVE  Balanced(u)'
  <2>1. balance' = balance /\ submit' = submit
    BY <1>6 DEF DecisionFind, DecisionClaim, RejectFindUser, RejectRecord, database
  <2>2. /\ \A e \in Decisions \ {d} : decision'[e] = decision[e]
        /\ decision'[d].of = decision[d].of /\ RefundedBy(d)' = RefundedBy(d)
    BY <1>6 DEF DecisionFind, DecisionClaim, RejectFindUser, RejectRecord, DecisionAt,
       DecisionGoto, TypeOK, DecisionState, RefundedBy
  <2>3. Held(u)' = Held(u) /\ RoundedUp(u)' = RoundedUp(u) /\ TakenBy' = TakenBy
    BY <2>1, <2>2, HeldSame DEF Refunded, RefundedBy, Deducted
  <2>4. QED
    BY <2>1, <2>3, MoneyUnmoved
<1>7. ASSUME NEW w \in Saves, SaveStep(w)
      PROVE  Balanced(u)'
  <2>1. submit' = submit /\ decision' = decision
    BY <1>7 DEF SaveStep, SaveFind, SaveEntity, RemoveEntity
  <2>2. balance'[u] = balance[u]
    BY <1>7 DEF SaveStep, SaveFind, SaveEntity, RemoveEntity, SaveGoto, Overwritten,
       TypeOK, SaveState, database
  <2>3. Held(u)' = Held(u) /\ RoundedUp(u)' = RoundedUp(u) /\ TakenBy' = TakenBy
    BY <2>1, HeldSame DEF Deducted, Refunded, RefundedBy
  <2>4. QED
    BY <2>2, <2>3, MoneyUnmoved
<1>8. ASSUME UNCHANGED <<balance, submit, decision>>
      PROVE  Balanced(u)'
  <2>1. Held(u)' = Held(u) /\ RoundedUp(u)' = RoundedUp(u) /\ TakenBy' = TakenBy
    BY <1>8, HeldSame DEF Deducted, Refunded, RefundedBy
  <2>2. QED
    BY <1>8, <2>1, MoneyUnmoved
<1>9. ASSUME NEW s \in Submits, SubmitStep(s), submit'[s].pc = "deducted"
      PROVE  SubmitDeduct(s)
  BY <1>9 DEF SubmitStep, SubmitFindUser, SubmitCheck, SubmitRecord, SubmitInsert,
     SubmitGoto, TypeOK, SubmitState
<1>10. QED
  <2>1. CASE \E s \in Submits : SubmitStep(s)
    BY <2>1, <1>3, <1>5, <1>9
  <2>2. CASE \E d \in Decisions : DecisionStep(d)
    BY <2>2, <1>4, <1>6 DEF DecisionStep
  <2>3. CASE \E w \in Saves : SaveStep(w)
    BY <2>3, <1>7
  <2>4. CASE (\E c \in Calls : AwaitFails(c)) \/ ProcessStops \/ UNCHANGED vars
    BY <2>4, <1>8 DEF AwaitFails, ProcessStops, Stop, vars, database
  <2>5. QED
    BY <2>1, <2>2, <2>3, <2>4 DEF Next

\* Withdrawals conserve money, whatever calls interleave or fail half way.
THEOREM ConservationCorrect == Spec => []Conservation
<1>1. MoneyInv => Conservation
  BY DEF MoneyInv, Balanced, Conservation, Held
<1>2. QED
  BY <1>1, TypeCorrect, CallInvariant, MoneyInvInit, MoneyInvStep, PTL DEF Spec

(***************************************************************************)
(* The ledger.  Each request has one row for its deduction once the call   *)
(* is past it and one for its refund once that is recorded, which tell of  *)
(* what was taken, or half a cent more, and of what was given back; summed, *)
(* the rows are then the deductions and refunds themselves, of which       *)
(* Conservation speaks.                                                    *)
(***************************************************************************)
RowFits(e) ==
  \/ /\ e.type = "withdrawal" /\ submit[e.of].pc \in {"recorded", "done"}
     /\ e.amount = InCents(submit[e.of].amount)
     /\ e.before - e.after \in {Taken(submit[e.of].amount), InCents(submit[e.of].amount)}
  \/ /\ e.type = "withdrawal_refund" /\ e.by \in Decisions /\ decision[e.by].of = e.of
     /\ RefundedBy(e.by) /\ decision[e.by].pc = "done"
     /\ e.amount = InCents(submit[e.of].amount)
     /\ e.after - e.before = InCents(submit[e.of].amount)

RowsInv ==
  /\ \A e \in ledger : RowFits(e)
  /\ \A e, f \in ledger : e.type = f.type /\ e.of = f.of => e = f
  /\ \A d \in Decisions : RefundedBy(d) /\ decision[d].pc = "done" =>
       \E e \in ledger : e.type = "withdrawal_refund" /\ e.of = decision[d].of

LEMMA EntryFields ==
  ASSUME TypeOK, NEW e \in ledger
  PROVE  /\ e.type \in {"withdrawal", "withdrawal_refund"} /\ e.of \in Submits
         /\ e.amount \in Int /\ e.before \in Int /\ e.after \in Int
  BY DEF TypeOK, LedgerEntry

\* A step that writes no row and takes no call away from where its row was written.
LEMMA RowsKept ==
  ASSUME TypeOK, RowsInv, ledger' = ledger,
         \A s \in Submits :
           /\ submit'[s].amount = submit[s].amount
           /\ submit[s].pc \in {"recorded", "done"} => submit'[s].pc \in {"recorded", "done"},
         \A d \in Decisions :
           /\ decision'[d].of = decision[d].of /\ decision'[d].kind = decision[d].kind
           /\ decision[d].pc = "done" => decision'[d].pc = "done"
           /\ decision[d].kind = "rejected" /\ decision'[d].pc = "done" => decision[d].pc = "done"
  PROVE  RowsInv'
<1>1. ASSUME NEW e \in ledger PROVE RowFits(e)'
  <2>1. RowFits(e) /\ e.of \in Submits
    BY EntryFields DEF RowsInv
  <2>2. QED
    BY <2>1 DEF RowFits, RefundedBy
<1>2. ASSUME NEW d \in Decisions, RefundedBy(d)', decision'[d].pc = "done"
      PROVE  \E e \in ledger : e.type = "withdrawal_refund" /\ e.of = decision'[d].of
  BY <1>2 DEF RefundedBy, RowsInv
<1>3. QED
  BY <1>1, <1>2 DEF RowsInv

\* A deduction is recorded.
LEMMA RecordKeepsRows ==
  ASSUME TypeOK, RowsInv, NEW s \in Submits, SubmitRecord(s) PROVE RowsInv'
<1>a. PICK after \in Differences(submit[s].seen, submit[s].amount) :
        ledger' = ledger \cup
          {[type |-> "withdrawal", by |-> s, of |-> s, amount |-> InCents(submit[s].amount),
            before |-> submit[s].seen, after |-> after]}
  BY DEF SubmitRecord
<1>0. PICK n : n = [type |-> "withdrawal", by |-> s, of |-> s,
                    amount |-> InCents(submit[s].amount),
                    before |-> submit[s].seen, after |-> after]
  OBVIOUS
<1>1. /\ ledger' = ledger \cup {n} /\ decision' = decision
      /\ submit' = [submit EXCEPT ![s].pc = "recorded"] /\ submit[s].pc = "deducted"
  BY <1>a, <1>0 DEF SubmitRecord, SubmitAt, SubmitGoto
<1>2. /\ \A r \in Submits \ {s} : submit'[r] = submit[r]
      /\ submit'[s].pc = "recorded" /\ submit'[s].amount = submit[s].amount
  BY <1>1 DEF TypeOK, SubmitState
<1>3. /\ n.type = "withdrawal" /\ n.of = s /\ n.amount = InCents(submit[s].amount)
      /\ n.before - n.after \in {Taken(submit[s].amount), InCents(submit[s].amount)}
  <2>1. submit[s].seen \in Int /\ submit[s].amount \in Nat
    BY FieldTypes
  <2>2. submit[s].seen - after \in {Taken(submit[s].amount), InCents(submit[s].amount)}
    BY <1>a, <2>1, RowDifference
  <2>3. QED
    BY <1>0, <2>2
<1>4. ASSUME NEW e \in ledger PROVE RowFits(e)' /\ ~(e.type = "withdrawal" /\ e.of = s)
  <2>1. RowFits(e) /\ e.of \in Submits
    BY EntryFields DEF RowsInv
  <2>2. ~(e.type = "withdrawal" /\ e.of = s)
    BY <1>1, <2>1 DEF RowFits
  <2>3. submit'[e.of].amount = submit[e.of].amount
    BY <1>2, <2>1
  <2>4. CASE e.type = "withdrawal"
    BY <1>2, <2>1, <2>2, <2>4 DEF RowFits
  <2>5. CASE e.type # "withdrawal"
    BY <1>1, <2>1, <2>3, <2>5 DEF RowFits, RefundedBy
  <2>6. QED
    BY <2>2, <2>4, <2>5
<1>5. RowFits(n)'
  BY <1>2, <1>3 DEF RowFits
<1>6. \A e, f \in ledger' : e.type = f.type /\ e.of = f.of => e = f
  BY <1>1, <1>3, <1>4 DEF RowsInv
<1>7. \A d \in Decisions : RefundedBy(d)' /\ decision'[d].pc = "done" =>
        \E e \in ledger' : e.type = "withdrawal_refund" /\ e.of = decision'[d].of
  BY <1>1 DEF RowsInv, RefundedBy
<1>8. QED
  BY <1>1, <1>4, <1>5, <1>6, <1>7 DEF RowsInv

\* A refund is recorded: no other call has the claim.
LEMMA RefundRecordKeepsRows ==
  ASSUME TypeOK, CallInv, RowsInv, NEW d \in Decisions, RejectRecord(d) PROVE RowsInv'
<1>s. PICK s : s = decision[d].of
  OBVIOUS
<1>0. PICK n : n = [type |-> "withdrawal_refund", by |-> d, of |-> s, amount |-> Requested(s),
                    before |-> decision[d].seen, after |-> decision[d].seen + Requested(s)]
  OBVIOUS
<1>1. /\ ledger' = ledger \cup {n} /\ submit' = submit
      /\ decision' = [decision EXCEPT ![d].pc = "done"] /\ decision[d].pc = "refunded"
  BY <1>s, <1>0 DEF RejectRecord, DecisionAt, DecisionGoto
<1>2. /\ \A e \in Decisions \ {d} : decision'[e] = decision[e]
      /\ decision'[d].pc = "done" /\ decision'[d].of = s
      /\ decision'[d].kind = decision[d].kind /\ decision[d].kind = "rejected"
  BY <1>s, <1>1 DEF TypeOK, DecisionState, CallInv
<1>3. /\ s \in Submits /\ decision[d].seen \in Int
      /\ Requested(s) \in Nat /\ Requested(s) = InCents(submit[s].amount)
  BY <1>s, FieldTypes, AmountTypes
<1>4. /\ n.type = "withdrawal_refund" /\ n.by = d /\ n.of = s
      /\ n.amount = InCents(submit[s].amount)
      /\ n.after - n.before = InCents(submit[s].amount)
  BY <1>0, <1>3
<1>5. ASSUME NEW e \in ledger PROVE RowFits(e)' /\ ~(e.type = "withdrawal_refund" /\ e.of = s)
  <2>1. RowFits(e) /\ e.of \in Submits
    BY EntryFields DEF RowsInv
  <2>2. CASE e.type = "withdrawal"
    BY <1>1, <2>1, <2>2 DEF RowFits
  <2>3. CASE e.type # "withdrawal"
    <3>1. /\ e.by \in Decisions /\ decision[e.by].of = e.of /\ RefundedBy(e.by)
          /\ decision[e.by].pc = "done" /\ e.amount = InCents(submit[e.of].amount)
          /\ e.after - e.before = InCents(submit[e.of].amount)
          /\ e.type = "withdrawal_refund"
      BY <2>1, <2>3 DEF RowFits
    <3>2. e.by # d
      BY <1>1, <3>1
    <3>3. e.of # s
      BY <1>s, <1>1, <1>2, <3>1, <3>2 DEF CallInv, SingleDecision, Claimed, RefundedBy
    <3>4. decision'[e.by] = decision[e.by]
      BY <1>2, <3>1, <3>2
    <3>5. QED
      BY <1>1, <3>1, <3>3, <3>4 DEF RowFits, RefundedBy
  <2>4. QED
    BY <2>2, <2>3
<1>6. RowFits(n)'
  BY <1>1, <1>2, <1>4 DEF RowFits, RefundedBy
<1>7. \A e, f \in ledger' : e.type = f.type /\ e.of = f.of => e = f
  BY <1>1, <1>4, <1>5 DEF RowsInv
<1>8. ASSUME NEW e \in Decisions, RefundedBy(e)', decision'[e].pc = "done"
      PROVE  \E f \in ledger' : f.type = "withdrawal_refund" /\ f.of = decision'[e].of
  <2>1. CASE e = d
    BY <1>1, <1>2, <1>4, <2>1
  <2>2. CASE e # d
    BY <1>1, <1>2, <1>8, <2>2 DEF RowsInv, RefundedBy
  <2>3. QED
    BY <2>1, <2>2
<1>9. QED
  BY <1>1, <1>5, <1>6, <1>7, <1>8 DEF RowsInv

LEMMA RowsInvStep == TypeOK /\ CallInv /\ RowsInv /\ [Next]_vars => RowsInv'
<1> SUFFICES ASSUME TypeOK, CallInv, RowsInv, [Next]_vars PROVE RowsInv'
  OBVIOUS
<1>1. ASSUME NEW s \in Submits,
             SubmitFindUser(s) \/ SubmitCheck(s) \/ SubmitDeduct(s) \/ SubmitInsert(s)
      PROVE  RowsInv'
  <2>1. ledger' = ledger /\ decision' = decision
    BY <1>1 DEF SubmitFindUser, SubmitCheck, SubmitDeduct, SubmitInsert, database
  <2>2. \A r \in Submits :
          /\ submit'[r].amount = submit[r].amount
          /\ submit[r].pc \in {"recorded", "done"} => submit'[r].pc \in {"recorded", "done"}
    BY <1>1 DEF SubmitFindUser, SubmitCheck, SubmitDeduct, SubmitInsert, SubmitAt,
       SubmitGoto, TypeOK, SubmitState
  <2>3. QED
    BY <2>1, <2>2, RowsKept
<1>2. ASSUME NEW d \in Decisions,
             DecisionFind(d) \/ DecisionClaim(d) \/ RejectFindUser(d) \/ RejectRefund(d)
      PROVE  RowsInv'
  <2>1. ledger' = ledger /\ submit' = submit
    BY <1>2 DEF DecisionFind, DecisionClaim, RejectFindUser, RejectRefund, database
  <2>2. \A e \in Decisions :
          /\ decision'[e].of = decision[e].of /\ decision'[e].kind = decision[e].kind
          /\ decision[e].pc = "done" => decision'[e].pc = "done"
          /\ decision[e].kind = "rejected" /\ decision'[e].pc = "done" => decision[e].pc = "done"
    BY <1>2 DEF DecisionFind, DecisionClaim, RejectFindUser, RejectRefund, DecisionAt,
       DecisionGoto, TypeOK, DecisionState
  <2>3. QED
    BY <2>1, <2>2, RowsKept
<1>3. CASE UNCHANGED <<ledger, submit, decision>>
  BY <1>3, RowsKept
<1>4. QED
  BY <1>1, <1>2, <1>3, RecordKeepsRows, RefundRecordKeepsRows
     DEF Next, SubmitStep, DecisionStep, SaveStep, SaveFind, SaveEntity, RemoveEntity,
         AwaitFails, ProcessStops, Stop, vars, database

\* A reading of what a row takes (out) or gives (in) is one of the amounts it may tell of.
ReadingFits(out, in) ==
  /\ \A e \in ledger : e.type = "withdrawal" =>
       out[e] \in {Taken(submit[e.of].amount), InCents(submit[e.of].amount)}
  /\ \A e \in ledger : e.type = "withdrawal_refund" =>
       in[e] = InCents(submit[e.of].amount)

\* The rows of a settled user, under such a reading.
LEMMA RowsExplain ==
  ASSUME TypeOK, CallInv, LedgerInv, RowsInv, MoneyInv,
         NEW u \in Users, u \notin Overwritten, Settled(u), NEW out, NEW in,
         ReadingFits(out, in)
  PROVE  Explained(u, out, in)
<1> DEFINE Out == RowsOf(u, "withdrawal")
           In == RowsOf(u, "withdrawal_refund")
           RequestedBy == [s \in Submits |-> Requested(s)]
           taken == [e \in Out |-> TakenBy[e.of]]
<1>1. ASSUME NEW s \in Submits, Refunded(s)
      PROVE  submit[s].pc = "done" /\ Deducted(s)
  <2>1. PICK d \in Decisions : RefundedBy(d) /\ decision[d].of = s
    BY <1>1 DEF Refunded
  <2>2. withdrawal[s] # "none"
    BY <2>1 DEF CallInv, Claimed, RefundedBy
  <2>3. QED
    BY <2>2 DEF CallInv, Deducted
<1>2. /\ IsFiniteSet(DeductedOf(u)) /\ IsFiniteSet(RefundedOf(u)) /\ IsFiniteSet(Held(u))
      /\ DeductedOf(u) \subseteq Submits /\ RefundedOf(u) \subseteq Submits
      /\ RefundedOf(u) \subseteq DeductedOf(u)
  BY <1>1, HeldFinite DEF DeductedOf, RefundedOf
<1>3. /\ \A s \in Submits : TakenBy[s] \in Nat /\ TakenBy[s] \in Int
      /\ \A s \in Submits : RequestedBy[s] \in Nat /\ RequestedBy[s] \in Int
      /\ \A s \in Submits : RequestedBy[s] - TakenBy[s] \in {0, 1}
      /\ \A s \in Submits : RequestedBy[s] = Requested(s)
  BY AmountTypes
<1>4. IsFiniteSet(Out) /\ Total(Out, taken) = Total(DeductedOf(u), TakenBy)
  <2>1. ASSUME NEW e \in Out PROVE e.of \in DeductedOf(u) /\ taken[e] = TakenBy[e.of]
    BY EntryFields DEF RowsOf, RowsInv, RowFits, DeductedOf, Deducted
  <2>2. ASSUME NEW s \in DeductedOf(u) PROVE \E e \in Out : e.of = s
    <3>1. s \in Submits /\ submit[s].user = u /\ submit[s].pc \in {"recorded", "done"}
      BY DEF Settled, DeductedOf, Deducted
    <3>2. QED
      BY <3>1 DEF LedgerInv, RowsOf
  <2>3. \A e, f \in Out : e.of = f.of => e = f
    BY DEF RowsInv, RowsOf
  <2>4. \A s \in DeductedOf(u) : TakenBy[s] \in Int
    BY <1>2, <1>3
  <2> HIDE DEF Out, taken
  <2>5. QED
    BY <1>2, <2>1, <2>2, <2>3, <2>4, TotalMatch
<1>5. /\ Total(Out, taken) \in Nat
      /\ Cardinality({e \in Out : out[e] # taken[e]}) \in Nat
      /\ Total(Out, out) = Total(Out, taken) + Cardinality({e \in Out : out[e] # taken[e]})
  <2>1. ASSUME NEW e \in Out
        PROVE  taken[e] \in Nat /\ out[e] - taken[e] \in {0, 1} /\ out[e] \in Nat
    <3>1. e \in ledger /\ e.type = "withdrawal" /\ e.of \in Submits
      BY EntryFields DEF RowsOf
    <3>2. out[e] \in {TakenBy[e.of], Requested(e.of)} /\ taken[e] = TakenBy[e.of]
      BY <3>1, AmountTypes DEF ReadingFits
    <3>3. QED
      BY <1>3, <3>1, <3>2
  <2>2. PICK O, v, G : O = Out /\ v = taken /\ G = {e \in O : out[e] # v[e]}
    OBVIOUS
  <2>3. /\ IsFiniteSet(O) /\ G = {e \in O : out[e] # v[e]}
        /\ OneMore(O, out, v)
    BY <1>4, <2>1, <2>2 DEF OneMore
  <2> HIDE DEF Out, taken
  <2>4. /\ Total(O, v) \in Nat
        /\ Cardinality(G) \in Nat
        /\ Total(O, out) = Total(O, v) + Cardinality(G)
    BY <2>3, TotalOver
  <2>5. QED
    BY <2>2, <2>4
<1>6. {e \in Out : out[e] # taken[e]} = {e \in RowsOf(u, "withdrawal") : out[e] # TakenBy[e.of]}
  OBVIOUS
<1>7. Total(In, in) = Total(RefundedOf(u), RequestedBy)
  <2>1. ASSUME NEW e \in In PROVE e.of \in RefundedOf(u) /\ in[e] = RequestedBy[e.of]
    <3>1. e \in ledger /\ e.type = "withdrawal_refund" /\ e.of \in Submits
      BY EntryFields DEF RowsOf
    <3>2. e.of \in RefundedOf(u)
      BY <3>1 DEF RowsOf, RowsInv, RowFits, RefundedOf, Refunded
    <3>3. QED
      BY <1>3, <3>1, <3>2, AmountTypes DEF ReadingFits
  <2>2. ASSUME NEW s \in RefundedOf(u) PROVE \E e \in In : e.of = s
    <3>1. PICK d \in Decisions : RefundedBy(d) /\ decision[d].of = s
      BY DEF Refunded, RefundedOf
    <3>2. decision[d].pc = "done"
      BY <3>1 DEF Settled, RefundedBy, RefundedOf
    <3>3. QED
      BY <3>1, <3>2 DEF RowsInv, RowsOf, RefundedOf
  <2>3. \A e, f \in In : e.of = f.of => e = f
    BY DEF RowsInv, RowsOf
  <2>4. \A s \in RefundedOf(u) : RequestedBy[s] \in Int
    BY <1>2, <1>3
  <2> HIDE DEF In, RequestedBy
  <2>5. QED
    BY <1>2, <2>1, <2>2, <2>3, <2>4, TotalMatch
<1>8. {s \in RefundedOf(u) : RequestedBy[s] # TakenBy[s]} = RoundedUp(u)
  BY <1>2, <1>3 DEF RoundedUp
<1>9. /\ Total(RefundedOf(u), TakenBy) \in Nat
      /\ Total(RefundedOf(u), RequestedBy)
           = Total(RefundedOf(u), TakenBy) + Cardinality(RoundedUp(u))
  <2>1. PICK S, w, v, G : /\ S = RefundedOf(u) /\ w = RequestedBy /\ v = TakenBy
                          /\ G = RoundedUp(u)
    OBVIOUS
  <2>2. /\ IsFiniteSet(S) /\ G = {s \in S : w[s] # v[s]}
        /\ OneMore(S, w, v)
    BY <1>2, <1>3, <1>8, <2>1 DEF OneMore
  <2> HIDE DEF RequestedBy
  <2>3. /\ Total(S, v) \in Nat
        /\ Cardinality(G) \in Nat
        /\ Total(S, w) = Total(S, v) + Cardinality(G)
    BY <2>2, TotalOver
  <2>4. QED
    BY <2>1, <2>3
<1>10. Total(DeductedOf(u), TakenBy) = Total(Held(u), TakenBy) + Total(RefundedOf(u), TakenBy)
  <2>1. Held(u) \cup RefundedOf(u) = DeductedOf(u) /\ Held(u) \cap RefundedOf(u) = {}
    BY <1>2 DEF Held
  <2>2. \A s \in Held(u) \cup RefundedOf(u) : TakenBy[s] \in Int
    BY <1>2, <1>3, <2>1
  <2>3. Total(Held(u) \cup RefundedOf(u), TakenBy)
          = Total(Held(u), TakenBy) + Total(RefundedOf(u), TakenBy)
    BY <1>2, <2>1, <2>2, TotalSplit
  <2>4. QED
    BY <2>1, <2>3
<1>11. balance[u] + Total(Held(u), TakenBy) = InitialBalance[u] + Cardinality(RoundedUp(u))
  BY DEF MoneyInv, Balanced
<1>12. /\ balance[u] \in Int /\ InitialBalance[u] \in Int
       /\ Total(Held(u), TakenBy) \in Nat /\ Cardinality(RoundedUp(u)) \in Nat
  BY HeldFinite, UsersAssumption DEF TypeOK
<1> DEFINE over == Cardinality({e \in RowsOf(u, "withdrawal") : out[e] # TakenBy[e.of]})
<1>13. over \in Nat /\ Total(Out, out) = Total(Out, taken) + over
  BY <1>5, <1>6
<1>14. Total(In, in) = Total(RefundedOf(u), TakenBy) + Cardinality(RoundedUp(u))
  BY <1>7, <1>9
<1>15. balance[u] + Total(Out, out) = InitialBalance[u] + Total(In, in) + over
  <2> HIDE DEF Out, In, RequestedBy, taken, over
  <2>1. QED
    BY <1>4, <1>9, <1>10, <1>11, <1>12, <1>13, <1>14
<1>16. QED
  BY <1>15 DEF Explained

\* The ledger explains the balance of a user who is settled: its rows are the deductions
\* and the refunds, and Conservation sums up the two.
THEOREM LedgerReconcilesCorrect == Spec => []LedgerReconciles
<1>1. TypeOK /\ CallInv /\ LedgerInv /\ RowsInv /\ MoneyInv => LedgerReconciles
  <2> SUFFICES ASSUME TypeOK, CallInv, LedgerInv, RowsInv, MoneyInv,
                      NEW u \in Users, u \notin Overwritten, Settled(u)
               PROVE  /\ Explained(u, [e \in ledger |-> e.amount], [e \in ledger |-> e.amount])
                      /\ Explained(u, [e \in ledger |-> e.before - e.after],
                                      [e \in ledger |-> e.after - e.before])
    BY DEF LedgerReconciles
  <2>1. \A e \in ledger : RowFits(e)
    BY DEF RowsInv
  <2>2. Explained(u, [e \in ledger |-> e.amount], [e \in ledger |-> e.amount])
    <3> DEFINE amounts == [e \in ledger |-> e.amount]
    <3>1. ReadingFits(amounts, amounts)
      BY <2>1 DEF RowFits, ReadingFits
    <3> HIDE DEF amounts
    <3>2. Explained(u, amounts, amounts)
      BY <3>1, RowsExplain
    <3>3. QED
      BY <3>2 DEF amounts
  <2>3. Explained(u, [e \in ledger |-> e.before - e.after],
                     [e \in ledger |-> e.after - e.before])
    <3> DEFINE out == [e \in ledger |-> e.before - e.after]
               in == [e \in ledger |-> e.after - e.before]
    <3>1. ReadingFits(out, in)
      BY <2>1 DEF RowFits, ReadingFits
    <3> HIDE DEF out, in
    <3>2. Explained(u, out, in)
      BY <3>1, RowsExplain
    <3>3. QED
      BY <3>2 DEF out, in
  <2>4. QED
    BY <2>2, <2>3
<1>2. Init => RowsInv
  BY UsersAssumption DEF Init, RowsInv, RefundedBy
<1>3. QED
  BY <1>1, <1>2, TypeCorrect, CallInvariant, LedgerInvariant, MoneyInvInit, MoneyInvStep,
     RowsInvStep, PTL DEF Spec

(***************************************************************************)
(* Balances stay above zero: so do the balances that UserService has read  *)
(* and will write back.                                                    *)
(***************************************************************************)
NonNegativeInv ==
  /\ NonNegative
  /\ \A w \in Saves : save[w].seen >= 0

LEMMA NonNegativeStep ==
  ASSUME AdjustTo \subseteq Nat, TypeOK, NonNegativeInv, [Next]_vars
  PROVE  NonNegativeInv'
<1> USE DEF NonNegativeInv, NonNegative, database
<1>1. ASSUME NEW s \in Submits, SubmitStep(s) PROVE NonNegativeInv'
  <2>1. CASE SubmitDeduct(s)
    <3>1. \A u \in Users : balance[u] \in Int
      BY DEF TypeOK
    <3>2. /\ submit[s].amount \in Nat /\ submit[s].amount \in Int
          /\ Taken(submit[s].amount) \in Nat /\ submit[s].user \in Users
      BY FieldTypes, AmountTypes
    <3>3. \/ balance' = balance
          \/ /\ balance[submit[s].user] * Parts >= submit[s].amount
             /\ balance' = [balance EXCEPT ![submit[s].user] =
                             InCents(@ * Parts - submit[s].amount)]
      BY <2>1 DEF SubmitDeduct
    <3>4. \A u \in Users : balance'[u] >= 0
      <4>1. CASE balance' = balance
        BY <3>1, <4>1
      <4>2. CASE /\ balance[submit[s].user] * Parts >= submit[s].amount
                 /\ balance' = [balance EXCEPT ![submit[s].user] =
                                 InCents(@ * Parts - submit[s].amount)]
        <5>1. PICK b \in Int : b = balance[submit[s].user]
          BY <3>1, <3>2
        <5>2. Taken(submit[s].amount) <= b
          BY <3>2, <4>2, <5>1, CoveredIsTaken
        <5>3. InCents(b * Parts - submit[s].amount) = b - Taken(submit[s].amount)
          BY <3>2, DeductionTakes
        <5>4. InCents(b * Parts - submit[s].amount) >= 0
          BY <3>2, <5>2, <5>3
        <5>5. QED
          BY <4>2, <5>1, <5>4 DEF TypeOK
      <4>3. QED
        BY <3>3, <4>1, <4>2
    <3>5. QED
      BY <2>1, <3>4 DEF SubmitDeduct
  <2>2. CASE ~SubmitDeduct(s)
    BY <1>1, <2>2 DEF SubmitStep, SubmitFindUser, SubmitCheck, SubmitRecord, SubmitInsert
  <2>3. QED
    BY <2>1, <2>2
<1>2. ASSUME NEW d \in Decisions, DecisionStep(d) PROVE NonNegativeInv'
  <2>1. CASE RejectRefund(d)
    <3>1. \A u \in Users : balance[u] \in Int
      BY DEF TypeOK
    <3>2. Requested(decision[d].of) \in Nat
      BY FieldTypes
    <3>3. balance' = balance \/ balance' = [balance EXCEPT
            ![submit[decision[d].of].user] = @ + Requested(decision[d].of)]
      BY <2>1 DEF RejectRefund
    <3>4. \A u \in Users : balance'[u] >= 0
      BY <3>1, <3>2, <3>3 DEF TypeOK
    <3>5. QED
      BY <2>1, <3>4 DEF RejectRefund
  <2>2. CASE ~RejectRefund(d)
    BY <1>2, <2>2 DEF DecisionStep, DecisionFind, DecisionClaim, RejectFindUser, RejectRecord
  <2>3. QED
    BY <2>1, <2>2
<1>3. ASSUME NEW w \in Saves, SaveFind(w) PROVE NonNegativeInv'
  <2>1. save[w].user \in Users /\ balance[save[w].user] \in Int
    BY FieldTypes DEF TypeOK
  <2>2. \/ save' = [save EXCEPT ![w].pc = "refused"]
        \/ \E b \in Int : b >= 0 /\ save' = [save EXCEPT ![w].pc = "loaded", ![w].seen = b]
    <3>1. CASE save[w].user \in present
      <4>1. PICK b \in (IF save[w].op = "adjust" THEN AdjustTo ELSE {balance[save[w].user]}) :
              save' = [save EXCEPT ![w].pc = "loaded", ![w].seen = b]
        BY <1>3, <3>1 DEF SaveFind
      <4>2. b \in Int /\ b >= 0
        BY <2>1
      <4>3. QED
        BY <4>1, <4>2
    <3>2. CASE save[w].user \notin present
      BY <1>3, <3>2 DEF SaveFind, SaveGoto
    <3>3. QED
      BY <3>1, <3>2
  <2>3. \A v \in Saves : save'[v].seen >= 0
    <3>1. CASE save' = [save EXCEPT ![w].pc = "refused"]
      BY <3>1 DEF TypeOK, SaveState
    <3>2. ASSUME NEW b \in Int, b >= 0,
                 save' = [save EXCEPT ![w].pc = "loaded", ![w].seen = b]
          PROVE  \A v \in Saves : save'[v].seen >= 0
      <4>1. save'[w].seen = b /\ \A v \in Saves \ {w} : save'[v] = save[v]
        BY <3>2 DEF TypeOK, SaveState
      <4>2. QED
        BY <3>2, <4>1
    <3>3. QED
      BY <2>2, <3>1, <3>2
  <2>4. QED
    BY <1>3, <2>3 DEF SaveFind
<1>4. ASSUME NEW w \in Saves, SaveEntity(w) PROVE NonNegativeInv'
  <2>1. save' = [save EXCEPT ![w].pc = "done"]
        /\ balance' = [balance EXCEPT ![save[w].user] = save[w].seen]
    BY <1>4 DEF SaveEntity, SaveGoto
  <2>2. \A v \in Saves : save'[v].seen >= 0
    BY <2>1 DEF TypeOK, SaveState
  <2>3. \A u \in Users : balance'[u] >= 0
    BY <2>1 DEF TypeOK
  <2>4. QED
    BY <2>2, <2>3
<1>5. ASSUME NEW w \in Saves, RemoveEntity(w) PROVE NonNegativeInv'
  <2>1. \/ save' = [save EXCEPT ![w].pc = "done"]
        \/ save' = [save EXCEPT ![w].pc = "refused"]
    BY <1>5 DEF RemoveEntity, SaveGoto
  <2>2. \A v \in Saves : save'[v].seen >= 0
    BY <2>1 DEF TypeOK, SaveState
  <2>3. QED
    BY <1>5, <2>2 DEF RemoveEntity
<1>6. ASSUME UNCHANGED <<balance, save>> PROVE NonNegativeInv'
  BY <1>6
<1>7. QED
  BY <1>1, <1>2, <1>3, <1>4, <1>5, <1>6
     DEF Next, vars, SaveStep, AwaitFails, ProcessStops, Stop

LEMMA NonNegativeInit == Init => NonNegativeInv
<1> SUFFICES ASSUME Init PROVE NonNegativeInv
  OBVIOUS
<1>1. \A u \in Users : balance[u] >= 0
  BY UsersAssumption DEF Init
<1>2. save \in [Saves -> [pc : {"idle"}, op : {"profile", "adjust", "remove"},
                         user : Users, seen : {0}]]
  BY DEF Init
<1>3. \A w \in Saves : save[w].seen = 0
  BY <1>2
<1>4. QED
  BY <1>1, <1>3 DEF NonNegativeInv, NonNegative

\* No withdrawal overdraws a balance when administrators type no negative one.
THEOREM NonNegativeCorrect ==
  ASSUME AdjustTo \subseteq Nat PROVE Spec => []NonNegative
<1>1. TypeOK /\ NonNegativeInv /\ [Next]_vars => NonNegativeInv'
  BY NonNegativeStep
<1>2. NonNegativeInv => NonNegative
  BY DEF NonNegativeInv
<1>3. QED
  BY <1>1, <1>2, NonNegativeInit, TypeCorrect, PTL DEF Spec

-----------------------------------------------------------------------------
(***************************************************************************)
(* Withdrawal implements WithdrawalMoney: every statement of a withdrawal  *)
(* call is one step of a claim or leaves all claims and funds alone.       *)
(***************************************************************************)

\* What the step correspondence needs of the states on both sides of a step.
RefineInv == TypeOK /\ CallInv /\ MoneyInv /\ NonNegativeInv

Frame(s) == \A r \in Submits \ {s} : ClaimOf(r)' = ClaimOf(r)

\* A call that stays on one side of its deduction and its refund, with its request
\* in the same status, leaves its claim alone.
LEMMA ClaimKept ==
  ASSUME NEW s \in Submits,
         submit'[s].user = submit[s].user, submit'[s].amount = submit[s].amount,
         Deducted(s)' = Deducted(s), Refunded(s)' = Refunded(s),
         withdrawal'[s] = withdrawal[s]
  PROVE  ClaimOf(s)' = ClaimOf(s)
<1>1. TakenBy'[s] = TakenBy[s] /\ Requested(s)' = Requested(s)
  BY DEF TakenBy, Requested
<1>2. QED
  BY <1>1 DEF ClaimOf, Phase

\* A change of phase of one claim is a Move of the abstract module.
LEMMA PhaseMoves ==
  ASSUME NEW s \in Submits, NEW from, NEW to,
         Deducted(s), Deducted(s)', Phase(s) = from, Phase(s)' = to,
         submit' = submit \/ (/\ submit'[s].user = submit[s].user
                              /\ submit'[s].amount = submit[s].amount),
         Frame(s), balance' = balance, save' = save
  PROVE  Money!Move(s, from, to)
<1>0. TakenBy'[s] = TakenBy[s] /\ Requested(s)' = Requested(s)
  BY DEF TakenBy, Requested
<1>1. /\ ClaimOf(s) = [phase |-> from, user |-> submit[s].user,
                       taken |-> TakenBy[s], due |-> Requested(s)]
      /\ ClaimOf(s)' = [phase |-> to, user |-> submit[s].user,
                        taken |-> TakenBy[s], due |-> Requested(s)]
  BY <1>0 DEF ClaimOf
<1>2. ClaimMap[s] = ClaimOf(s) /\ ClaimMap'[s] = ClaimOf(s)'
  BY DEF ClaimMap
<1>3. ClaimOf(s)' = [ClaimOf(s) EXCEPT !.phase = to]
  BY <1>1
<1>4. ClaimMap' = [ClaimMap EXCEPT ![s].phase = to]
  BY <1>2, <1>3 DEF ClaimMap, Frame
<1>5. Overwritten' = Overwritten
  BY DEF Overwritten
<1>6. QED
  BY <1>1, <1>2, <1>4, <1>5 DEF Money!Move

\* A step that keeps every claim, the balances and the overwritten rows is a stutter.
LEMMA Stutter ==
  ASSUME \A s \in Submits : ClaimOf(s)' = ClaimOf(s),
         balance' = balance, Overwritten' = Overwritten
  PROVE  UNCHANGED Money!moneyVars
  BY DEF ClaimMap, Money!moneyVars

\* createRequest: the deduction is Freeze, the insert files the claim, the other
\* statements are stutters.
LEMMA SubmitRefines ==
  ASSUME RefineInv, NEW s \in Submits, SubmitStep(s)
  PROVE  [Money!MoneyNext]_Money!moneyVars
<1> USE DEF RefineInv
<1>1. /\ \A r \in Submits \ {s} : submit'[r] = submit[r]
      /\ submit'[s].user = submit[s].user /\ submit'[s].amount = submit[s].amount
      /\ decision' = decision /\ save' = save
  BY DEF SubmitStep, SubmitFindUser, SubmitCheck, SubmitDeduct, SubmitRecord,
     SubmitInsert, SubmitGoto, TypeOK, SubmitState
<1>2. \A r : Refunded(r)' = Refunded(r)
  BY <1>1 DEF Refunded, RefundedBy
<1>3. \A r \in Submits \ {s} : withdrawal'[r] = withdrawal[r]
  BY DEF SubmitStep, SubmitFindUser, SubmitCheck, SubmitDeduct, SubmitRecord,
     SubmitInsert, TypeOK, database
<1>4. Frame(s)
  BY <1>1, <1>2, <1>3, ClaimKept DEF Frame, Deducted
<1>5. Overwritten' = Overwritten
  BY <1>1 DEF Overwritten
<1>6. ~Refunded(s) \/ submit[s].pc = "done"
  BY FieldTypes DEF Refunded, RefundedBy, CallInv, Claimed
<1>7. CASE SubmitDeduct(s) /\ submit'[s].pc = "deducted"
  <2> DEFINE u == submit[s].user
             a == submit[s].amount
  <2>0. PICK t \in Nat, due \in Nat :
          t = TakenBy[s] /\ t = Taken(a) /\ due = Requested(s) /\ due - t \in {0, 1}
    BY AmountTypes
  <2>1. /\ submit[s].pc = "checked" /\ balance[u] * Parts >= a /\ withdrawal' = withdrawal
        /\ balance' = [balance EXCEPT ![u] = InCents(@ * Parts - a)]
    BY <1>7 DEF SubmitDeduct, SubmitAt, SubmitGoto, TypeOK, SubmitState
  <2>2. u \in Users /\ a \in Nat /\ a \in Int /\ balance[u] \in Int
    BY FieldTypes DEF TypeOK
  <2>3. withdrawal[s] = "none" /\ ~Refunded(s)
    BY <1>6, <2>1 DEF CallInv
  <2>4. ClaimOf(s) = Money!NoClaim
    BY <2>1 DEF ClaimOf, Deducted, Money!NoClaim
  <2>5. Deducted(s)' /\ Phase(s)' = "frozen"
    BY <1>2, <1>7, <2>1, <2>3 DEF Deducted, Phase
  <2>a. TakenBy'[s] = t /\ Requested(s)' = due
    BY <1>1, <2>0 DEF TakenBy, Requested
  <2>6. ClaimOf(s)' = Money!ClaimIn("frozen", u, t, due)
    BY <1>1, <2>5, <2>a DEF ClaimOf, Money!ClaimIn
  <2>7. ClaimMap' = [ClaimMap EXCEPT ![s] = Money!ClaimIn("frozen", u, t, due)]
    BY <1>4, <2>6 DEF ClaimMap, Frame
  <2>8. ClaimMap[s] = Money!NoClaim
    BY <2>4 DEF ClaimMap
  <2>b. /\ t \in 0 .. balance[u] /\ balance' = [balance EXCEPT ![u] = @ - t]
        /\ due - t \in {0, 1} /\ t + (due - t) = due
    <3>1. t <= balance[u]
      BY <2>0, <2>1, <2>2, CoveredIsTaken
    <3>2. InCents(balance[u] * Parts - a) = balance[u] - t
      BY <2>0, <2>2, DeductionTakes
    <3>3. t \in 0 .. balance[u]
      BY <2>0, <2>2, <3>1
    <3>4. balance' = [balance EXCEPT ![u] = @ - t]
      BY <2>1, <3>2
    <3>5. due - t \in {0, 1} /\ t + (due - t) = due
      BY <2>0
    <3>6. QED
      BY <3>3, <3>4, <3>5
  <2>c. PICK gain \in {0, 1} : gain = due - t /\ t + gain = due
    BY <2>b
  <2>d. Money!ClaimIn("frozen", u, t, due) # Money!NoClaim
    <3>1. /\ Money!ClaimIn("frozen", u, t, due).phase = "frozen"
          /\ Money!NoClaim.phase = "none"
      BY DEF Money!ClaimIn, Money!NoClaim
    <3>2. QED
      BY <3>1
  <2>e. (ClaimMap')[s] # Money!NoClaim
    <3>1. (ClaimMap')[s] = ClaimOf(s)'
      BY <1>4 DEF ClaimMap
    <3>2. QED
      BY <3>1, <2>6, <2>d
  <2>9. Money!Freeze(s, u)
    BY <1>5, <2>7, <2>8, <2>b, <2>c, <2>e DEF Money!Freeze
  <2>10. QED
    BY <2>2, <2>9 DEF Money!MoneyNext
<1>8. CASE SubmitInsert(s)
  <2>1. /\ submit[s].pc = "recorded" /\ submit'[s].pc = "done" /\ balance' = balance
        /\ withdrawal'[s] = "pending"
    BY <1>8 DEF SubmitInsert, SubmitAt, SubmitGoto, TypeOK, SubmitState
  <2>2. withdrawal[s] = "none" /\ ~Refunded(s)
    BY <1>6, <2>1 DEF CallInv
  <2>3. Phase(s) = "frozen" /\ Phase(s)' = "filed" /\ Deducted(s) /\ Deducted(s)'
    BY <1>2, <2>1, <2>2 DEF Phase, Deducted
  <2>4. Money!Move(s, "frozen", "filed")
    BY <1>1, <1>4, <2>1, <2>3, PhaseMoves
  <2>5. QED
    BY <2>4 DEF Money!MoneyNext
<1>9. CASE ~SubmitInsert(s) /\ ~(SubmitDeduct(s) /\ submit'[s].pc = "deducted")
  <2>1. /\ Deducted(s)' = Deducted(s) /\ withdrawal'[s] = withdrawal[s]
        /\ balance' = balance
    BY <1>9 DEF SubmitStep, SubmitFindUser, SubmitCheck, SubmitDeduct, SubmitRecord,
       SubmitAt, SubmitGoto, TypeOK, SubmitState, Deducted, database
  <2>2. ClaimOf(s)' = ClaimOf(s)
    BY <1>1, <1>2, <2>1, ClaimKept
  <2>3. \A r \in Submits : ClaimOf(r)' = ClaimOf(r)
    BY <1>4, <2>2 DEF Frame
  <2>4. QED
    BY <1>5, <2>1, <2>3, Stutter
<1>10. QED
  BY <1>7, <1>8, <1>9

\* adminApprove and adminReject: the winning claim moves a filed request to its
\* decision, the refund gives back, the other statements are stutters.
LEMMA DecisionRefines ==
  ASSUME RefineInv, NEW d \in Decisions, DecisionStep(d)
  PROVE  [Money!MoneyNext]_Money!moneyVars
<1> USE DEF RefineInv
<1> DEFINE q == decision[d].of
<1>1. /\ \A e \in Decisions \ {d} : decision'[e] = decision[e]
      /\ decision'[d].of = decision[d].of /\ decision'[d].kind = decision[d].kind
      /\ submit' = submit /\ save' = save
  BY DEF DecisionStep, DecisionFind, DecisionClaim, RejectFindUser, RejectRefund,
     RejectRecord, DecisionGoto, TypeOK, DecisionState, database
<1>2. PICK s \in Submits : s = q
  BY FieldTypes
<1>3. \A r \in Submits \ {s} : Refunded(r)' = Refunded(r)
  BY <1>1, <1>2 DEF Refunded, RefundedBy
<1>4. \A r \in Submits \ {s} : withdrawal'[r] = withdrawal[r]
  BY <1>2 DEF DecisionStep, DecisionFind, DecisionClaim, RejectFindUser, RejectRefund,
     RejectRecord, TypeOK, database
<1>5. \A r \in Submits : Deducted(r)' = Deducted(r)
  BY <1>1 DEF Deducted
<1>6. Frame(s)
  BY <1>1, <1>3, <1>4, <1>5, ClaimKept DEF Frame
<1>7. Overwritten' = Overwritten
  BY <1>1 DEF Overwritten
<1>8. CASE DecisionClaim(d) /\ withdrawal[s] = "pending"
  <2>1. /\ balance' = balance /\ withdrawal'[s] = decision[d].kind
        /\ decision[d].pc = "found" /\ decision'[d].pc \in {"done", "claimed"}
        /\ decision'[d].pc = "done" => decision[d].kind = "approved"
    BY <1>2, <1>8 DEF DecisionClaim, DecisionAt, DecisionGoto, TypeOK, DecisionState
  <2>2. ~Refunded(s)
    BY <1>2, <1>8, FieldTypes DEF Refunded, RefundedBy, CallInv, Claimed
  <2>3. RefundedBy(d)' = FALSE
    BY <1>1, <2>1 DEF RefundedBy
  <2>4. \A e \in Decisions \ {d} : RefundedBy(e)' = RefundedBy(e) /\ decision'[e].of = decision[e].of
    BY <1>1 DEF RefundedBy
  <2>5. ~Refunded(s)'
    BY <2>2, <2>3, <2>4 DEF Refunded
  <2>6. Deducted(s) /\ Deducted(s)'
    BY <1>5, <1>8 DEF CallInv, Deducted
  <2>7. decision[d].kind \in {"approved", "rejected"}
    BY FieldTypes
  <2>8. CASE decision[d].kind = "approved"
    <3>1. Phase(s) = "filed" /\ Phase(s)' = "approved"
      BY <1>8, <2>1, <2>2, <2>5, <2>8 DEF Phase
    <3>2. Money!Move(s, "filed", "approved")
      BY <1>1, <1>6, <2>1, <2>6, <3>1, PhaseMoves
    <3>3. QED
      BY <3>2 DEF Money!MoneyNext
  <2>9. CASE decision[d].kind = "rejected"
    <3>1. Phase(s) = "filed" /\ Phase(s)' = "rejected"
      BY <1>8, <2>1, <2>2, <2>5, <2>9 DEF Phase
    <3>2. Money!Move(s, "filed", "rejected")
      BY <1>1, <1>6, <2>1, <2>6, <3>1, PhaseMoves
    <3>3. QED
      BY <3>2 DEF Money!MoneyNext
  <2>10. QED
    BY <2>7, <2>8, <2>9
<1>9. CASE RejectRefund(d)
  <2> DEFINE u == submit[s].user
  <2>0. PICK t, due : t = TakenBy[s] /\ due = Requested(s)
    OBVIOUS
  <2>1. /\ withdrawal' = withdrawal /\ present' = present
        /\ balance' = IF u \in present THEN [balance EXCEPT ![u] = @ + due] ELSE balance
        /\ decision[d].pc = "loaded" /\ decision'[d].pc = "refunded"
    BY <1>2, <1>9, <2>0 DEF RejectRefund, DecisionAt, DecisionGoto, TypeOK, DecisionState
  <2>a. TakenBy'[s] = t /\ Requested(s)' = due
    BY <1>1, <2>0 DEF TakenBy, Requested
  <2>2. /\ decision[d].kind = "rejected" /\ withdrawal[s] = "rejected"
        /\ submit[s].pc = "done" /\ u \in Users
    BY <1>2, <2>1, FieldTypes DEF CallInv, Claimed
  <2>3. ~Refunded(s)
    <3>1. \A e \in Decisions : RefundedBy(e) /\ decision[e].of = s => e = d
      BY <1>2, <2>1 DEF CallInv, SingleDecision, RefundedBy, Claimed
    <3>2. ~RefundedBy(d)
      BY <2>1 DEF RefundedBy
    <3>3. QED
      BY <3>1, <3>2 DEF Refunded
  <2>4. Refunded(s)'
    BY <1>1, <1>2, <2>1, <2>2 DEF Refunded, RefundedBy
  <2>5. /\ ClaimOf(s) = [phase |-> "rejected", user |-> u, taken |-> t, due |-> due]
        /\ ClaimOf(s)' = [phase |-> "returned", user |-> u, taken |-> t, due |-> due]
    BY <1>1, <1>5, <2>0, <2>a, <2>2, <2>3, <2>4 DEF ClaimOf, Phase, Deducted
  <2>6. ClaimMap[s] = ClaimOf(s) /\ ClaimOf(s)' = [ClaimOf(s) EXCEPT !.phase = "returned"]
    BY <2>5 DEF ClaimMap
  <2>7. ClaimMap' = [ClaimMap EXCEPT ![s].phase = "returned"]
    BY <1>6, <2>6 DEF ClaimMap, Frame
  <2>8. u \notin present => u \in Overwritten
    BY <2>2 DEF MoneyInv
  <2>9. ClaimMap[s].phase = "rejected" /\ ClaimMap[s].user = u /\ ClaimMap[s].due = due
    BY <2>5, <2>6
  <2>10. Money!GiveBack(s)
    BY <1>7, <2>1, <2>7, <2>8, <2>9 DEF Money!GiveBack
  <2>11. QED
    BY <2>10 DEF Money!MoneyNext
<1>10. CASE ~RejectRefund(d) /\ ~(DecisionClaim(d) /\ withdrawal[s] = "pending")
  <2>1. /\ withdrawal'[s] = withdrawal[s] /\ balance' = balance
        /\ RefundedBy(d)' = RefundedBy(d)
    BY <1>2, <1>10 DEF DecisionStep, DecisionFind, DecisionClaim, RejectFindUser,
       RejectRecord, DecisionAt, DecisionGoto, TypeOK, DecisionState, RefundedBy, database
  <2>2. Refunded(s)' = Refunded(s)
    BY <1>1, <2>1 DEF Refunded, RefundedBy
  <2>3. ClaimOf(s)' = ClaimOf(s)
    BY <1>1, <1>5, <2>1, <2>2, ClaimKept
  <2>4. \A r \in Submits : ClaimOf(r)' = ClaimOf(r)
    BY <1>6, <2>3 DEF Frame
  <2>5. QED
    BY <1>7, <2>1, <2>4, Stutter
<1>11. QED
  BY <1>8, <1>9, <1>10

\* UserService: a save or a removal is Rewrite, the rest are stutters.
LEMMA SaveRefines ==
  ASSUME AdjustTo \subseteq Nat, RefineInv, NonNegativeInv', TypeOK',
         NEW w \in Saves, SaveStep(w)
  PROVE  [Money!MoneyNext]_Money!moneyVars
<1> USE DEF RefineInv
<1>1. submit' = submit /\ decision' = decision /\ withdrawal' = withdrawal
  BY DEF SaveStep, SaveFind, SaveEntity, RemoveEntity, database
<1>2. \A s \in Submits : ClaimOf(s)' = ClaimOf(s)
  BY <1>1, ClaimKept DEF Deducted, Refunded, RefundedBy
<1>3. ClaimMap' = ClaimMap
  BY <1>2 DEF ClaimMap
<1>4. balance' \in [Users -> Nat]
  BY DEF TypeOK, NonNegativeInv, NonNegative
<1>5. CASE save'[w].pc = "done"
  <2>1. /\ save' = [save EXCEPT ![w].pc = "done"]
        /\ \A v \in Users \ {save[w].user} : balance'[v] = balance[v]
    BY <1>5 DEF SaveStep, SaveFind, SaveEntity, RemoveEntity, SaveAt, SaveGoto, TypeOK,
       SaveState, database
  <2>2. /\ \A v \in Saves \ {w} : save'[v] = save[v]
        /\ save'[w].user = save[w].user
    BY <2>1 DEF TypeOK, SaveState
  <2>3. Overwritten' = Overwritten \cup {save[w].user}
    BY <1>5, <2>2 DEF Overwritten
  <2>4. save[w].user \in Users
    BY FieldTypes
  <2>5. Money!Rewrite(save[w].user)
    BY <1>3, <1>4, <2>1, <2>3 DEF Money!Rewrite
  <2>6. QED
    BY <2>4, <2>5 DEF Money!MoneyNext
<1>6. CASE save'[w].pc # "done"
  <2>1. /\ balance' = balance
        /\ save[w].pc # "done"
        /\ \A v \in Saves \ {w} : save'[v] = save[v]
    BY <1>6 DEF SaveStep, SaveFind, SaveEntity, RemoveEntity, SaveAt, SaveGoto, TypeOK,
       SaveState, database
  <2>2. Overwritten' = Overwritten
    BY <1>6, <2>1 DEF Overwritten
  <2>3. QED
    BY <1>2, <2>1, <2>2, Stutter
<1>7. QED
  BY <1>5, <1>6

\* For every number of users, calls and failures, the service keeps the abstract
\* promise when no administrator types a negative balance.
THEOREM ImplementsMoneyCorrect ==
  ASSUME AdjustTo \subseteq Nat PROVE Spec => ImplementsMoney
<1>1. Init => Money!MoneyInit
  <2> SUFFICES ASSUME Init PROVE Money!MoneyInit
    OBVIOUS
  <2>1. ClaimMap = [c \in Submits |-> Money!NoClaim]
    BY DEF Init, ClaimMap, ClaimOf, Deducted, Money!NoClaim
  <2>2. Overwritten = {}
    BY DEF Init, Overwritten
  <2>3. QED
    BY <2>1, <2>2 DEF Init, Money!MoneyInit
<1>2. RefineInv /\ RefineInv' /\ [Next]_vars => [Money!MoneyNext]_Money!moneyVars
  <2> SUFFICES ASSUME RefineInv, RefineInv', [Next]_vars
               PROVE  [Money!MoneyNext]_Money!moneyVars
    OBVIOUS
  <2>1. CASE \E s \in Submits : SubmitStep(s)
    BY <2>1, SubmitRefines
  <2>2. CASE \E d \in Decisions : DecisionStep(d)
    BY <2>2, DecisionRefines
  <2>3. CASE \E w \in Saves : SaveStep(w)
    BY <2>3, SaveRefines DEF RefineInv
  <2>4. CASE UNCHANGED <<balance, withdrawal, submit, decision, save>>
    <3>1. \A s \in Submits : ClaimOf(s)' = ClaimOf(s)
      BY <2>4, ClaimKept DEF Deducted, Refunded, RefundedBy
    <3>2. QED
      BY <2>4, <3>1, Stutter DEF Overwritten
  <2>5. QED
    BY <2>1, <2>2, <2>3, <2>4
       DEF Next, vars, database, AwaitFails, ProcessStops, Stop
<1>3. Spec => []RefineInv
  <2>1. Init => MoneyInv /\ NonNegativeInv
    BY MoneyInvInit, NonNegativeInit
  <2>2. TypeOK /\ CallInv /\ MoneyInv /\ NonNegativeInv /\ [Next]_vars
          => MoneyInv' /\ NonNegativeInv'
    BY MoneyInvStep, NonNegativeStep
  <2>3. QED
    BY <2>1, <2>2, TypeCorrect, CallInvariant, PTL DEF Spec, RefineInv
<1>4. QED
  BY <1>1, <1>2, <1>3, PTL DEF Spec, ImplementsMoney, Money!MoneySpec
=============================================================================
