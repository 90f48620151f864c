------------------------------ MODULE Payments ------------------------------
(***************************************************************************)
(* Recharge orders and the job that cancels overdue ones, payment          *)
(* transactions and records of payment callbacks.  No route of the program *)
(* calls the mark... functions and handleRechargeCallback yet: their       *)
(* callers here are whoever processes the callbacks of a provider.         *)
(*                                                                         *)
(* repository.save first selects the row, compares it with the entity and  *)
(* then writes the columns that differ: a snapshot and a write.            *)
(*                                                                         *)
(* Amounts, titles and messages decide nothing and are left out.  A time   *)
(* stands for the call that took it.                                       *)
(***************************************************************************)
EXTENDS Integers

CONSTANTS
  Calls,        \* calls of a mark... function or of handleRechargeCallback
  Orders, Transactions, Notifies,  \* the rows that are ever inserted
  Receipts, None,  \* identifiers of the provider's transactions
  MaxFailures   \* bound on failed awaits and restarts

OrderRows == [status : {"NONE", "PENDING", "PAID", "CANCELLED"}, receipt : Receipts \cup {None}]
TransactionRows == [status : {"NONE", "PENDING", "SUCCESS", "FAILED", "CLOSED"},
                    receipt : Receipts \cup {None},
                    paidAt : Calls \cup {None}, failedAt : Calls \cup {None}]
NotifyRows == [status : {"NONE", "PENDING", "SUCCESS", "FAILED", "IGNORED"},
               processedAt : Calls \cup {None}, retries : Nat]

VARIABLES
  orders, transactions, notifies,  \* the three tables
  overdue,  \* orders past their expireAt
  call,     \* local state of each call: the entity it has loaded and changed,
            \* and the row that save has compared it with
  mixed,    \* history: transactions and records whose row changed between the
            \* snapshot and the write of a save
  failures

tables == <<orders, transactions, notifies>>
vars == <<tables, overdue, call, mixed, failures>>

Local == [pc : {"idle", "done"}]
         \cup [pc : {"order", "orderWrite"}, key : Orders, row : OrderRows, seen : OrderRows]
         \cup [pc : {"transaction", "transactionWrite"}, key : Transactions,
               row : TransactionRows, seen : TransactionRows]
         \cup [pc : {"notify", "notifyWrite"}, key : Notifies, row : NotifyRows, seen : NotifyRows]

TypeOK ==
  /\ orders \in [Orders -> OrderRows]
  /\ transactions \in [Transactions -> TransactionRows]
  /\ notifies \in [Notifies -> NotifyRows]
  /\ overdue \subseteq Orders
  /\ call \in [Calls -> Local]
  /\ mixed \subseteq Transactions \cup Notifies
  /\ failures \in 0 .. MaxFailures

Init ==
  /\ orders = [o \in Orders |-> [status |-> "NONE", receipt |-> None]]
  /\ transactions = [t \in Transactions |->
       [status |-> "NONE", receipt |-> None, paidAt |-> None, failedAt |-> None]]
  /\ notifies = [n \in Notifies |-> [status |-> "NONE", processedAt |-> None, retries |-> 0]]
  /\ overdue = {}
  /\ call = [c \in Calls |-> [pc |-> "idle"]]
  /\ mixed = {}
  /\ failures = 0

At(c, pc) == call[c].pc = pc

Done == [pc |-> "done"]

(***************************************************************************)
(* save                                                                    *)
(***************************************************************************)
\* The call is about to save an entity it has loaded and changed.
Saving(c, pc, table, key, row) ==
  /\ At(c, "idle")
  /\ call' = [call EXCEPT ![c] = [pc |-> pc, key |-> key, row |-> row, seen |-> table[key]]]
  /\ UNCHANGED <<tables, overdue, mixed, failures>>

\* save selects the row.
Snapshot(c, pc, next, table) ==
  /\ At(c, pc)
  /\ call' = [call EXCEPT ![c].pc = next, ![c].seen = table[call[c].key]]
  /\ UNCHANGED <<tables, overdue, mixed, failures>>

\* The columns in which the entity differs from the snapshot are written.
Merge(current, entity, seen) ==
  [f \in DOMAIN current |-> IF entity[f] # seen[f] THEN entity[f] ELSE current[f]]

Written(table, c) == [table EXCEPT ![call[c].key] = Merge(@, call[c].row, call[c].seen)]

Mixed(table, c) == {key \in {call[c].key} : table[key] # call[c].seen}

(***************************************************************************)
(* Recharge orders.                                                        *)
(***************************************************************************)
CreateRecharge(o) ==
  /\ orders[o].status = "NONE"
  /\ orders' = [orders EXCEPT ![o].status = "PENDING"]
  /\ UNCHANGED <<transactions, notifies, overdue, call, mixed, failures>>

\* A quarter of an hour passes.
BecomesOverdue(o) ==
  /\ orders[o].status # "NONE" /\ o \notin overdue
  /\ overdue' = overdue \cup {o}
  /\ UNCHANGED <<tables, call, mixed, failures>>

\* Mutation: the update does not look at the status.
ExpiredAnyStatus(o) == o \in overdue /\ orders[o].status # "CANCELLED"

\* Mutation: the wrong side of expireAt.
ExpiredEarly(o) == o \notin overdue /\ orders[o].status = "PENDING"

\* The condition of the update.
Expired(o) == o \in overdue /\ orders[o].status = "PENDING"

\* handleCron: one guarded UPDATE; an error is caught, and the next round comes.
CancelExpiredRecharges ==
  /\ \E o \in Orders : Expired(o)
  /\ orders' = [o \in Orders |-> IF Expired(o) THEN [orders[o] EXCEPT !.status = "CANCELLED"]
                                             ELSE orders[o]]
  /\ UNCHANGED <<transactions, notifies, overdue, call, mixed, failures>>

HandleRechargeCallback(c, o, r) ==
  /\ orders[o].status = "PENDING"
  /\ Saving(c, "order", orders, o, [orders[o] EXCEPT !.status = "PAID", !.receipt = r])

SnapshotOrder(c) == Snapshot(c, "order", "orderWrite", orders)

WriteOrder(c) ==
  /\ At(c, "orderWrite")
  /\ orders' = Written(orders, c)
  /\ call' = [call EXCEPT ![c] = Done]
  /\ UNCHANGED <<transactions, notifies, overdue, mixed, failures>>

(***************************************************************************)
(* Payment transactions: find the row, check it, change it and save it.    *)
(***************************************************************************)
CreateTransaction(t) ==
  /\ transactions[t].status = "NONE"
  /\ transactions' = [transactions EXCEPT ![t].status = "PENDING"]
  /\ UNCHANGED <<orders, notifies, overdue, call, mixed, failures>>

MarkTransaction(c, t, row) ==
  /\ transactions[t].status # "NONE"
  /\ Saving(c, "transaction", transactions, t, row)

MarkSuccess(c, t, r) ==
  /\ transactions[t].status # "SUCCESS"
  /\ MarkTransaction(c, t, [transactions[t] EXCEPT !.status = "SUCCESS", !.receipt = r, !.paidAt = c])

\* Mutation: a transaction that has succeeded is not refused.
MarkFailedAny(c, t) ==
  MarkTransaction(c, t, [transactions[t] EXCEPT !.status = "FAILED", !.failedAt = c])

MarkFailed(c, t) ==
  /\ transactions[t].status # "SUCCESS"
  /\ MarkTransaction(c, t, [transactions[t] EXCEPT !.status = "FAILED", !.failedAt = c])

MarkClosed(c, t) ==
  /\ transactions[t].status = "PENDING"
  /\ MarkTransaction(c, t, [transactions[t] EXCEPT !.status = "CLOSED"])

SnapshotTransaction(c) == Snapshot(c, "transaction", "transactionWrite", transactions)

WriteTransaction(c) ==
  /\ At(c, "transactionWrite")
  /\ transactions' = Written(transactions, c)
  /\ mixed' = mixed \cup Mixed(transactions, c)
  /\ call' = [call EXCEPT ![c] = Done]
  /\ UNCHANGED <<orders, notifies, overdue, failures>>

(***************************************************************************)
(* Records of callbacks; their status is never checked.                    *)
(***************************************************************************)
RecordNotify(n) ==
  /\ notifies[n].status = "NONE"
  /\ notifies' = [notifies EXCEPT ![n].status = "PENDING"]
  /\ UNCHANGED <<orders, transactions, overdue, call, mixed, failures>>

MarkNotify(c, n, row) ==
  /\ notifies[n].status # "NONE"
  /\ Saving(c, "notify", notifies, n, row)

MarkNotifySuccess(c, n) ==
  MarkNotify(c, n, [notifies[n] EXCEPT !.status = "SUCCESS", !.processedAt = c])

MarkNotifyFailed(c, n) ==
  MarkNotify(c, n, [notifies[n] EXCEPT !.status = "FAILED", !.retries = @ + 1])

MarkNotifyIgnored(c, n) ==
  MarkNotify(c, n, [notifies[n] EXCEPT !.status = "IGNORED", !.processedAt = c])

SnapshotNotify(c) == Snapshot(c, "notify", "notifyWrite", notifies)

WriteNotify(c) ==
  /\ At(c, "notifyWrite")
  /\ notifies' = Written(notifies, c)
  /\ mixed' = mixed \cup Mixed(notifies, c)
  /\ call' = [call EXCEPT ![c] = Done]
  /\ UNCHANGED <<orders, transactions, overdue, failures>>

\* The save fails, or the process stops: the call ends without it.
AwaitFails(c) ==
  /\ ~At(c, "idle") /\ ~At(c, "done")
  /\ failures < MaxFailures
  /\ failures' = failures + 1
  /\ call' = [call EXCEPT ![c] = Done]
  /\ UNCHANGED <<tables, overdue, mixed>>

Next ==
  \/ \E o \in Orders : CreateRecharge(o) \/ BecomesOverdue(o)
  \/ CancelExpiredRecharges
  \/ \E t \in Transactions : CreateTransaction(t)
  \/ \E n \in Notifies : RecordNotify(n)
  \/ \E c \in Calls :
       \/ \E o \in Orders, r \in Receipts : HandleRechargeCallback(c, o, r)
       \/ \E t \in Transactions, r \in Receipts : MarkSuccess(c, t, r)
       \/ \E t \in Transactions : MarkFailed(c, t) \/ MarkClosed(c, t)
       \/ \E n \in Notifies :
            MarkNotifySuccess(c, n) \/ MarkNotifyFailed(c, n) \/ MarkNotifyIgnored(c, n)
       \/ SnapshotOrder(c) \/ SnapshotTransaction(c) \/ SnapshotNotify(c)
       \/ WriteOrder(c) \/ WriteTransaction(c) \/ WriteNotify(c)
       \/ AwaitFails(c)

Spec == Init /\ [][Next]_vars

\* Time passes, and the interval timer comes round.
Fairness ==
  /\ \A o \in Orders : WF_vars(BecomesOverdue(o))
  /\ WF_vars(CancelExpiredRecharges)

FairSpec == Spec /\ Fairness

-----------------------------------------------------------------------------
(***************************************************************************)
(* Properties.                                                             *)
(***************************************************************************)
\* An order that was paid stays paid: neither the job, which may run between
\* the load and the save of a callback or long after, nor a second callback
\* that loaded the order earlier takes it back.
PaidStays == \A o \in Orders : orders[o].status = "PAID" => orders'[o].status = "PAID"
PaidIsFinal == [][PaidStays]_vars

\* The receipt, the time of payment and the status of a transaction agree, and
\* a callback recorded as handled says when, however the calls that mark them
\* overtake one another, unless the row changed between the snapshot and the
\* write of a save: a transaction marked as failed while it is marked as paid
\* may keep the receipt.  An order has a receipt exactly when it is paid, even so.
ReceiptMatchesStatus ==
  /\ \A o \in Orders : orders[o].receipt # None <=> orders[o].status = "PAID"
  /\ \A t \in Transactions \ mixed :
       /\ transactions[t].paidAt # None <=> transactions[t].status = "SUCCESS"
       /\ transactions[t].receipt # None <=> transactions[t].status = "SUCCESS"
  /\ \A n \in Notifies \ mixed :
       notifies[n].status \in {"SUCCESS", "IGNORED"} => notifies[n].processedAt # None

\* No recharge order waits for its payment for ever.
PendingEnds == \A o \in Orders : orders[o].status = "PENDING" ~> orders[o].status # "PENDING"
=============================================================================
