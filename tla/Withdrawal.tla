------------------------------ MODULE Withdrawal ------------------------------
(***************************************************************************)
(* The withdrawal service (withdrawal.service.ts) and the other writers of *)
(* the user row it shares (user.service.ts).                               *)
(*                                                                         *)
(* The server is one Node process: code between two awaits is atomic, and  *)
(* everything else interleaves.  Every action below is one await, i.e. one *)
(* database statement together with the synchronous code that follows it   *)
(* up to the next await.  No statement runs inside a transaction.          *)
(*                                                                         *)
(* A call is a member of Submits (createRequest), Decisions (adminApprove, *)
(* adminReject) or Saves (the functions of UserService that load a user    *)
(* entity, change a field and save or remove the entity).  Submit s writes *)
(* at most one row of withdrawal_requests, so s also names that row.       *)
(*                                                                         *)
(* Every amount column is decimal(10,2), in whole cents; the amount a      *)
(* client sends may have any number of decimals, and each statement rounds *)
(* what it computes from it on its own.                                    *)
(***************************************************************************)
EXTENDS Integers, FiniteSets

CONSTANTS
  Users,           \* rows of the user table
  Submits,         \* calls of createRequest
  Decisions,       \* calls of adminApprove / adminReject
  Saves,           \* find-then-save (or remove) calls on a user row
  Parts,           \* parts of a cent that the amounts clients send are counted in
  Amounts,         \* amounts clients ask for, in parts
  MinAmount,       \* 1 yuan, in parts
  MaxAmount,       \* 5000 yuan, in parts
  InitialBalance,  \* balance of each user at the start, in cents
  AdjustTo,        \* balances the administrators' form leaves in the column, in cents
  NoPrivacyRow,    \* users whose registration stopped before the privacy row
  MaxFailures      \* bound on the failures of one behaviour

ASSUME CallsAssumption ==
  /\ IsFiniteSet(Submits)
  /\ Submits \cap Decisions = {}
  /\ Submits \cap Saves = {}
  /\ Decisions \cap Saves = {}

ASSUME AmountsAssumption ==
  /\ Parts \in Nat \ {0}
  /\ Amounts \subseteq Nat
  /\ MinAmount \in Nat /\ MaxAmount \in Nat

ASSUME UsersAssumption ==
  /\ InitialBalance \in [Users -> Nat]
  /\ AdjustTo \subseteq Int
  /\ NoPrivacyRow \subseteq Users

ASSUME MaxFailuresAssumption == MaxFailures \in Nat

VARIABLES
  present,     \* ids that have a row in the user table
  balance,     \* user.balance
  withdrawal,  \* status of the withdrawal_requests row, "none" before the insert
  ledger,      \* rows of balance_transactions
  submit,      \* local state of each createRequest call
  decision,    \* local state of each adminApprove / adminReject call
  save,        \* local state of each find-then-save call
  stopped,     \* calls that ended on a failed await or with the process
  failures     \* number of failures so far

vars == <<present, balance, withdrawal, ledger, submit, decision, save,
          stopped, failures>>

database == <<present, balance, withdrawal, ledger>>

Calls == Submits \cup Decisions \cup Saves

SubmitPc == {"idle", "found", "checked", "deducted", "recorded", "done", "refused"}
DecisionPc == {"idle", "found", "claimed", "user_missing", "loaded", "refunded",
               "done", "refused"}
SavePc == {"idle", "loaded", "done", "refused"}
Status == {"none", "pending", "approved", "rejected"}

\* by and of name the call and the request behind a row; the table has only the user.
LedgerEntry ==
  [type : {"withdrawal", "withdrawal_refund"}, by : Submits \cup Decisions,
   of : Submits, amount : Int, before : Int, after : Int]

SubmitState == [pc : SubmitPc, user : Users, amount : Amounts, seen : Int]
DecisionState ==
  [pc : DecisionPc, kind : {"approved", "rejected"}, of : Submits, seen : Int]
SaveState ==
  [pc : SavePc, op : {"profile", "adjust", "remove"}, user : Users, seen : Int]

TypeOK ==
  /\ present \subseteq Users
  /\ balance \in [Users -> Int]
  /\ withdrawal \in [Submits -> Status]
  /\ ledger \subseteq LedgerEntry
  /\ submit \in [Submits -> SubmitState]
  /\ decision \in [Decisions -> DecisionState]
  /\ save \in [Saves -> SaveState]
  /\ stopped \subseteq Calls
  /\ failures \in Nat

Init ==
  /\ present = Users
  /\ balance = InitialBalance
  /\ withdrawal = [s \in Submits |-> "none"]
  /\ ledger = {}
  /\ submit \in [Submits -> [pc : {"idle"}, user : Users, amount : Amounts, seen : {0}]]
  /\ decision \in [Decisions -> [pc : {"idle"}, kind : {"approved", "rejected"},
                                 of : Submits, seen : {0}]]
  /\ save \in [Saves -> [pc : {"idle"}, op : {"profile", "adjust", "remove"},
                         user : Users, seen : {0}]]
  /\ stopped = {}
  /\ failures = 0

(***************************************************************************)
(* Amounts.  MySQL keeps exact decimals and rounds a half up when it       *)
(* stores; JavaScript subtracts doubles, and a half may end either side.   *)
(***************************************************************************)
\* A number of parts, stored in a column.
InCents(x) == (2 * x + Parts) \div (2 * Parts)

\* What a balance loses when a is subtracted from it before it is stored: a half
\* cent is not taken.
Taken(a) == - InCents(- a)

\* balanceBefore - amount, computed by JavaScript and stored.
Differences(before, a) ==
  LET x == before * Parts - a IN {InCents(x), - InCents(- x)}

\* The amount column of the request's row, which adminReject reads back: a half
\* cent is rounded up.
Requested(s) == InCents(submit[s].amount)

(***************************************************************************)
(* createRequest                                                           *)
(***************************************************************************)
SubmitAt(s, pc) == s \notin stopped /\ submit[s].pc = pc

SubmitGoto(s, pc) == submit' = [submit EXCEPT ![s].pc = pc]

\* findOne(user).  The openid check that follows never fails: the column is NOT NULL
\* and every way to create a user fills it.
SubmitFindUser(s) ==
  /\ SubmitAt(s, "idle")
  /\ IF submit[s].user \in present
       THEN submit' = [submit EXCEPT ![s].pc = "found",
                                     ![s].seen = balance[submit[s].user]]
       ELSE SubmitGoto(s, "refused")
  /\ UNCHANGED <<database, decision, save, stopped, failures>>

\* Requests of the user that wait for a decision: count(userId, PENDING).
PendingOf(u) == {r \in Submits : withdrawal[r] = "pending" /\ submit[r].user = u}

\* Mutation: the request is stored before its amount is frozen.
SubmitCheckInsertsFirst(s) ==
  /\ SubmitAt(s, "found")
  /\ PendingOf(submit[s].user) = {}
  /\ withdrawal' = [withdrawal EXCEPT ![s] = "pending"]
  /\ SubmitGoto(s, "checked")
  /\ UNCHANGED <<present, balance, ledger, decision, save, stopped, failures>>

\* count of pending requests, then the checks on the amount and the balance read.
SubmitCheck(s) ==
  /\ SubmitAt(s, "found")
  /\ IF /\ PendingOf(submit[s].user) = {}
        /\ submit[s].amount >= MinAmount
        /\ submit[s].amount <= MaxAmount
        /\ submit[s].seen * Parts >= submit[s].amount
       THEN SubmitGoto(s, "checked")
       ELSE SubmitGoto(s, "refused")
  /\ UNCHANGED <<database, decision, save, stopped, failures>>

\* Mutation: the UPDATE without AND balance >= :amount.
SubmitDeductUnguarded(s) ==
  /\ SubmitAt(s, "checked")
  /\ balance' = [balance EXCEPT ![submit[s].user] = InCents(@ * Parts - submit[s].amount)]
  /\ SubmitGoto(s, "deducted")
  /\ UNCHANGED <<present, withdrawal, ledger, decision, save, stopped, failures>>

\* Mutation: user.balance -= amount and save(user), from the balance read earlier.
SubmitDeductBySave(s) ==
  /\ SubmitAt(s, "checked")
  /\ balance' = [balance EXCEPT ![submit[s].user] =
                   InCents(submit[s].seen * Parts - submit[s].amount)]
  /\ SubmitGoto(s, "deducted")
  /\ UNCHANGED <<present, withdrawal, ledger, decision, save, stopped, failures>>

\* UPDATE user SET balance = balance - amount WHERE id = :id AND balance >= :amount.
SubmitDeduct(s) ==
  LET u == submit[s].user
      a == submit[s].amount
  IN /\ SubmitAt(s, "checked")
     /\ IF u \in present /\ balance[u] * Parts >= a
          THEN /\ balance' = [balance EXCEPT ![u] = InCents(@ * Parts - a)]
               /\ SubmitGoto(s, "deducted")
          ELSE /\ SubmitGoto(s, "refused")
               /\ UNCHANGED balance
     /\ UNCHANGED <<present, withdrawal, ledger, decision, save, stopped, failures>>

\* The WITHDRAWAL row of the ledger, from the balance read by SubmitFindUser.
SubmitRecord(s) ==
  /\ SubmitAt(s, "deducted")
  /\ \E after \in Differences(submit[s].seen, submit[s].amount) :
       ledger' = ledger \cup
         {[type |-> "withdrawal", by |-> s, of |-> s, amount |-> InCents(submit[s].amount),
           before |-> submit[s].seen, after |-> after]}
  /\ SubmitGoto(s, "recorded")
  /\ UNCHANGED <<present, balance, withdrawal, decision, save, stopped, failures>>

\* Mutation: a second look for pending requests that gives up after the deduction.
SubmitInsertRechecks(s) ==
  /\ SubmitAt(s, "recorded")
  /\ IF PendingOf(submit[s].user) = {}
       THEN /\ withdrawal' = [withdrawal EXCEPT ![s] = "pending"]
            /\ SubmitGoto(s, "done")
       ELSE /\ submit' = [submit EXCEPT ![s].pc = "refused"]
            /\ UNCHANGED withdrawal
  /\ UNCHANGED <<present, balance, ledger, decision, save, stopped, failures>>

\* The PENDING row of withdrawal_requests, with Requested(s) as its amount.
SubmitInsert(s) ==
  /\ SubmitAt(s, "recorded")
  /\ withdrawal' = [withdrawal EXCEPT ![s] = "pending"]
  /\ SubmitGoto(s, "done")
  /\ UNCHANGED <<present, balance, ledger, decision, save, stopped, failures>>

SubmitStep(s) ==
  \/ SubmitFindUser(s)
  \/ SubmitCheck(s)
  \/ SubmitDeduct(s)
  \/ SubmitRecord(s)
  \/ SubmitInsert(s)

(***************************************************************************)
(* adminApprove and adminReject: the same two first steps, with kind the   *)
(* status the call sets.                                                   *)
(***************************************************************************)
DecisionAt(d, pc) == d \notin stopped /\ decision[d].pc = pc

DecisionGoto(d, pc) == decision' = [decision EXCEPT ![d].pc = pc]

\* findOne(request) and the status check.
DecisionFind(d) ==
  /\ DecisionAt(d, "idle")
  /\ DecisionGoto(d, IF withdrawal[decision[d].of] = "pending" THEN "found" ELSE "refused")
  /\ UNCHANGED <<database, submit, save, stopped, failures>>

\* Mutation: the UPDATE without AND status = PENDING.
DecisionClaimUnguarded(d) ==
  /\ DecisionAt(d, "found")
  /\ withdrawal' = [withdrawal EXCEPT ![decision[d].of] = decision[d].kind]
  /\ DecisionGoto(d, IF decision[d].kind = "approved" THEN "done" ELSE "claimed")
  /\ UNCHANGED <<present, balance, ledger, submit, save, stopped, failures>>

\* UPDATE ... SET status = kind WHERE id = :id AND status = PENDING.
DecisionClaim(d) ==
  LET s == decision[d].of
  IN /\ DecisionAt(d, "found")
     /\ IF withdrawal[s] = "pending"
          THEN /\ withdrawal' = [withdrawal EXCEPT ![s] = decision[d].kind]
               /\ DecisionGoto(d, IF decision[d].kind = "approved" THEN "done" ELSE "claimed")
          ELSE /\ DecisionGoto(d, "refused")
               /\ UNCHANGED withdrawal
     /\ UNCHANGED <<present, balance, ledger, submit, save, stopped, failures>>

\* adminReject, findOne(user): a missing user ends the call after the claim.
RejectFindUser(d) ==
  LET u == submit[decision[d].of].user
  IN /\ DecisionAt(d, "claimed")
     /\ decision' = IF u \in present
                      THEN [decision EXCEPT ![d].pc = "loaded", ![d].seen = balance[u]]
                      ELSE [decision EXCEPT ![d].pc = "user_missing"]
     /\ UNCHANGED <<database, submit, save, stopped, failures>>

\* Mutation: an optimistic lock on the balance read earlier, not retried.
RejectRefundIfUnchanged(d) ==
  LET u == submit[decision[d].of].user
  IN /\ DecisionAt(d, "loaded")
     /\ IF balance[u] = decision[d].seen
          THEN /\ balance' = [balance EXCEPT ![u] = @ + Requested(decision[d].of)]
               /\ DecisionGoto(d, "refunded")
          ELSE /\ DecisionGoto(d, "user_missing")
               /\ UNCHANGED balance
     /\ UNCHANGED <<present, withdrawal, ledger, submit, save, stopped, failures>>

\* UPDATE user SET balance = balance + amount WHERE id = :id, with the amount of the
\* request's row; affected is not checked.
RejectRefund(d) ==
  LET u == submit[decision[d].of].user
  IN /\ DecisionAt(d, "loaded")
     /\ balance' = IF u \in present
                     THEN [balance EXCEPT ![u] = @ + Requested(decision[d].of)] ELSE balance
     /\ DecisionGoto(d, "refunded")
     /\ UNCHANGED <<present, withdrawal, ledger, submit, save, stopped, failures>>

\* Mutation: the refund logged like the deduction.
RejectRecordOut(d) ==
  /\ DecisionAt(d, "refunded")
  /\ ledger' = ledger \cup
       {[type |-> "withdrawal", by |-> d, of |-> decision[d].of,
         amount |-> Requested(decision[d].of), before |-> decision[d].seen,
         after |-> decision[d].seen - Requested(decision[d].of)]}
  /\ DecisionGoto(d, "done")
  /\ UNCHANGED <<present, balance, withdrawal, submit, save, stopped, failures>>

\* Mutation: the refund row names the call instead of the request.
RejectRecordWrongId(d) ==
  /\ DecisionAt(d, "refunded")
  /\ ledger' = ledger \cup
       {[type |-> "withdrawal_refund", by |-> d, of |-> d, amount |-> 0,
         before |-> decision[d].seen, after |-> decision[d].seen]}
  /\ DecisionGoto(d, "done")
  /\ UNCHANGED <<present, balance, withdrawal, submit, save, stopped, failures>>

\* The WITHDRAWAL_REFUND row of the ledger, from the balance read by RejectFindUser.
RejectRecord(d) ==
  /\ DecisionAt(d, "refunded")
  /\ ledger' = ledger \cup
       {[type |-> "withdrawal_refund", by |-> d, of |-> decision[d].of,
         amount |-> Requested(decision[d].of), before |-> decision[d].seen,
         after |-> decision[d].seen + Requested(decision[d].of)]}
  /\ DecisionGoto(d, "done")
  /\ UNCHANGED <<present, balance, withdrawal, submit, save, stopped, failures>>

DecisionStep(d) ==
  \/ DecisionFind(d)
  \/ DecisionClaim(d)
  \/ RejectFindUser(d)
  \/ RejectRefund(d)
  \/ RejectRecord(d)

(***************************************************************************)
(* Other writers of the user row: "profile" stands for every function that *)
(* saves a loaded entity with its balance as it was read, "adjust" for     *)
(* adminUpdateUser with a balance, "remove" for adminDeleteUser.           *)
(***************************************************************************)
SaveAt(w, pc) == w \notin stopped /\ save[w].pc = pc

SaveGoto(w, pc) == save' = [save EXCEPT ![w].pc = pc]

SaveFind(w) ==
  LET u == save[w].user
  IN /\ SaveAt(w, "idle")
     /\ IF u \in present
          THEN \E b \in (IF save[w].op = "adjust" THEN AdjustTo ELSE {balance[u]}) :
                 save' = [save EXCEPT ![w].pc = "loaded", ![w].seen = b]
          ELSE SaveGoto(w, "refused")
     /\ UNCHANGED <<database, submit, decision, stopped, failures>>

\* repository.save: every column that differs from the row is written back, and
\* a row that is gone is inserted again.
SaveEntity(w) ==
  /\ SaveAt(w, "loaded")
  /\ save[w].op # "remove"
  /\ present' = present \cup {save[w].user}
  /\ balance' = [balance EXCEPT ![save[w].user] = save[w].seen]
  /\ SaveGoto(w, "done")
  /\ UNCHANGED <<withdrawal, ledger, submit, decision, stopped, failures>>

\* repository.remove: the foreign key of the privacy row refuses the DELETE.
RemoveEntity(w) ==
  /\ SaveAt(w, "loaded")
  /\ save[w].op = "remove"
  /\ IF save[w].user \in NoPrivacyRow
       THEN /\ present' = present \ {save[w].user}
            /\ SaveGoto(w, "done")
       ELSE /\ SaveGoto(w, "refused")
            /\ UNCHANGED present
  /\ UNCHANGED <<balance, withdrawal, ledger, submit, decision, stopped, failures>>

SaveStep(w) == SaveFind(w) \/ SaveEntity(w) \/ RemoveEntity(w)

(***************************************************************************)
(* Failures: a rejected await ends one call where it stands (nothing it    *)
(* wrote is undone), and the end of the process ends every running call.   *)
(***************************************************************************)
Pc(c) == IF c \in Submits THEN submit[c].pc
         ELSE IF c \in Decisions THEN decision[c].pc ELSE save[c].pc

Ended == {"done", "refused", "user_missing"}

Running == {c \in Calls \ stopped : Pc(c) \notin Ended \cup {"idle"}}

Stop(C) ==
  /\ C # {}
  /\ failures < MaxFailures
  /\ failures' = failures + 1
  /\ stopped' = stopped \cup C
  /\ UNCHANGED <<database, submit, decision, save>>

AwaitFails(c) == c \in Running /\ Stop({c})

ProcessStops == Stop(Running)

Next ==
  \/ \E s \in Submits : SubmitStep(s)
  \/ \E d \in Decisions : DecisionStep(d)
  \/ \E w \in Saves : SaveStep(w)
  \/ \E c \in Calls : AwaitFails(c)
  \/ ProcessStops

Spec == Init /\ [][Next]_vars

\* The event loop resumes every call whose await has settled.
Fairness ==
  /\ \A s \in Submits : WF_vars(SubmitStep(s))
  /\ \A d \in Decisions : WF_vars(DecisionStep(d))

FairSpec == Spec /\ Fairness

(***************************************************************************)
(* Where the money of a request is.                                        *)
(***************************************************************************)
Deducted(s) == submit[s].pc \in {"deducted", "recorded", "done"}

\* The decision d won the claim of its request.
Claimed(d) ==
  decision[d].pc \in {"claimed", "user_missing", "loaded", "refunded", "done"}

RefundedBy(d) == decision[d].kind = "rejected" /\ decision[d].pc \in {"refunded", "done"}

Refunded(s) == \E d \in Decisions : RefundedBy(d) /\ decision[d].of = s

\* The sum of worth[x] over S, counted coin by coin.
Coins(S, worth) == UNION {{x} \X (1 .. worth[x]) : x \in S}
Total(S, worth) == Cardinality(Coins(S, worth))

\* What each request took from the balance.
TakenBy == [s \in Submits |-> Taken(submit[s].amount)]

DeductedOf(u) == {s \in Submits : submit[s].user = u /\ Deducted(s)}
RefundedOf(u) == {s \in Submits : submit[s].user = u /\ Refunded(s)}

\* Requests of u whose refund gave back another amount than was taken.
RoundedUp(u) == {s \in RefundedOf(u) : Requested(s) # TakenBy[s]}

\* The rows of the ledger that tell of u, by direction.
RowsOf(u, type) == {e \in ledger : e.type = type /\ submit[e.of].user = u}

\* The ledger explains u's balance, with what a row takes or gives read from it by
\* out and in: a row that tells of more than was taken is a cent too high.
Explained(u, out, in) ==
  balance[u] + Total(RowsOf(u, "withdrawal"), out)
    = InitialBalance[u] + Total(RowsOf(u, "withdrawal_refund"), in)
        + Cardinality({e \in RowsOf(u, "withdrawal") : out[e] # TakenBy[e.of]})

\* No call stands between its statement on u's balance and its row of the ledger.
Settled(u) ==
  /\ \A s \in Submits : submit[s].user = u => submit[s].pc # "deducted"
  /\ \A d \in Decisions : submit[decision[d].of].user = u => decision[d].pc # "refunded"

\* Users whose row a call of UserService has written or removed.
Overwritten == {save[w].user : w \in {v \in Saves : save[v].pc = "done"}}

(***************************************************************************)
(* Refinement: Withdrawal implements WithdrawalMoney.                      *)
(***************************************************************************)
Phase(s) ==
  IF Refunded(s) THEN "returned"
  ELSE IF withdrawal[s] = "none" THEN "frozen"
  ELSE IF withdrawal[s] = "pending" THEN "filed"
  ELSE withdrawal[s]

ClaimOf(s) ==
  IF Deducted(s)
    THEN [phase |-> Phase(s), user |-> submit[s].user,
          taken |-> TakenBy[s], due |-> Requested(s)]
    ELSE [phase |-> "none"]

ClaimMap == [s \in Submits |-> ClaimOf(s)]

Money == INSTANCE WithdrawalMoney WITH
  Claims <- Submits, funds <- balance, rewritten <- Overwritten, claim <- ClaimMap

(***************************************************************************)
(* Properties.                                                             *)
(***************************************************************************)

\* No interleaving overdraws a balance, whatever rows UserService rewrites in
\* between (the WHERE balance >= :amount of createRequest), as long as no
\* administrator types a negative one (AdminUpdateUserDto.balance has no minimum).
NonNegative == \A u \in Users : balance[u] >= 0

\* createRequest, adminApprove and adminReject lose no money, and make it in one way
\* only: what left a balance is exactly what is frozen or paid out, whatever calls
\* fail half way, but for one cent with each refund of an amount that the deduction
\* rounded down and the request's row rounded up.
Conservation ==
  \A u \in Users \ Overwritten :
    balance[u] + Total(DeductedOf(u) \ RefundedOf(u), TakenBy)
      = InitialBalance[u] + Cardinality(RoundedUp(u))

\* Two administrators never both decide a request (the CAS on status = PENDING).
SingleDecision ==
  \A d, e \in Decisions :
    Claimed(d) /\ Claimed(e) /\ decision[d].of = decision[e].of => d = e

\* An administrator never sees a request whose amount is not frozen and recorded
\* in the ledger (createRequest inserts the request last).
FrozenBeforeVisible ==
  \A s \in Submits : withdrawal[s] # "none" =>
    /\ Deducted(s)
    /\ \E e \in ledger : e.type = "withdrawal" /\ e.of = s

\* Money and refund rows come back for rejected requests only, never for one that
\* was approved (adminReject claims the request before it touches the balance).
RefundOnlyRejected ==
  \A s \in Submits :
    Refunded(s) \/ (\E e \in ledger : e.type = "withdrawal_refund" /\ e.of = s)
      => withdrawal[s] = "rejected"

\* The ledger explains every balance that UserService has not rewritten: once no
\* call has a row to write, the balance is the initial one and every recorded change
\* (balance-transaction.entity.ts records each change of the balance), by the amounts
\* of the rows and by their balances before and after alike, up to the cent by which
\* a row for half a cent tells of more than was taken.
LedgerReconciles ==
  \A u \in Users \ Overwritten :
    Settled(u) =>
      /\ Explained(u, [e \in ledger |-> e.amount], [e \in ledger |-> e.amount])
      /\ Explained(u, [e \in ledger |-> e.before - e.after],
                      [e \in ledger |-> e.after - e.before])

\* The detailed module implements the abstract promise.
ImplementsMoney == Money!MoneySpec

\* Without failures and removed users, a rejected request's money comes back.
RejectedComesBack ==
  \A s \in Submits : withdrawal[s] = "rejected" ~> Refunded(s)

\* Without failures, frozen money is always filed for an administrator to decide.
FrozenGetsFiled ==
  \A s \in Submits : Deducted(s) ~> withdrawal[s] # "none"

\* "Prevent repeated submission" (withdrawal.service.ts:62): one pending request.
OnePendingPerUser == \A u \in Users : Cardinality(PendingOf(u)) <= 1

\* "Rejects a request (gives the frozen amount back)" (withdrawal.service.ts:239): the
\* amount that was frozen, so no user ever has more than at the start.
FrozenComesBack ==
  \A u \in Users \ Overwritten :
    balance[u] + Total(DeductedOf(u) \ RefundedOf(u), TakenBy) <= InitialBalance[u]

\* "Rejected: give back the frozen amount" (withdrawal.service.ts:239): a rejected
\* request that no call works on any more has its money back.
RejectedIsRefunded ==
  \A s \in Submits :
    withdrawal[s] = "rejected" /\ (\A d \in Decisions \cap Running : decision[d].of # s)
      => Refunded(s)
===============================================================================
