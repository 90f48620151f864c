------------------------- MODULE SmallServicesProofs -------------------------
(***************************************************************************)
(* Proofs about the nine services that need few of them each: the tables   *)
(* of payments, notices, login devices, pictures, couriers, members and    *)
(* regions, WeChat's access token and the request log.  Each service has a *)
(* part of its own, and an instance of its module under three letters.     *)
(*                                                                         *)
(* The services share nothing.  Where two of them name a constant or a     *)
(* variable alike, this module has one under that name for both: each      *)
(* theorem speaks of one service only.  What a theorem needs of the        *)
(* constants is among its assumptions.                                     *)
(***************************************************************************)
EXTENDS Integers, Sequences, FiniteSetTheorems, TLAPS

CONSTANTS
  Calls, MaxFailures, None, Users,                                \* of several services
  Orders, Transactions, Notifies, Receipts,                       \* Payments
  MaxToken, Life, Margin,                                         \* Wechat
  Entries, FlushSize,                                             \* ApiMonitor
  MaxNotices,                                                     \* Notices
  DeviceIds, MaxRows,                                             \* Devices
  Ids, Files, Settings,                                           \* Catalogue
  Sheet, Names, MaxCompanies,                                     \* Couriers
  Tasks, Rewards,                                                 \* Member
  File, MaxId                                                     \* Regions

VARIABLES
  call, failures, mixed,                                          \* of several services
  orders, transactions, notifies, overdue,                        \* Payments
  configured, age, issued, revoked, cache, rejected,              \* Wechat
  mode, buffer, saving, last, stored, fate,                       \* ApiMonitor
  notices, confirms, settled, withdrawn,                          \* Notices
  devices, audit, changes, contested,                             \* Devices
  kind, rows, config,                                             \* Catalogue
  companies, typed, overlaps,                                     \* Couriers
  profiles, tasks, records, growth, overlapped,                   \* Member
  nextId, loaded                                                  \* Regions

Pay == INSTANCE Payments
Wec == INSTANCE Wechat
Api == INSTANCE ApiMonitor
Not == INSTANCE Notices
Dev == INSTANCE Devices
Cat == INSTANCE Catalogue
Cou == INSTANCE Couriers
Mem == INSTANCE Member
Reg == INSTANCE Regions

-----------------------------------------------------------------------------
(***************************************************************************)
(* Payments: orders, transactions and records of callbacks.                *)
(***************************************************************************)
(***************************************************************************)
(* Types                                                                   *)
(***************************************************************************)
\* Which kind of row a call holds, and its type.
LEMMA PayCallTypes ==
  ASSUME NEW c, call[c] \in Pay!Local
  PROVE  /\ call[c].pc \in {"order", "orderWrite"}
              => /\ call[c].key \in Orders
                 /\ call[c].row \in Pay!OrderRows /\ call[c].seen \in Pay!OrderRows
         /\ call[c].pc \in {"transaction", "transactionWrite"}
              => /\ call[c].key \in Transactions
                 /\ call[c].row \in Pay!TransactionRows /\ call[c].seen \in Pay!TransactionRows
         /\ call[c].pc \in {"notify", "notifyWrite"}
              => /\ call[c].key \in Notifies
                 /\ call[c].row \in Pay!NotifyRows /\ call[c].seen \in Pay!NotifyRows
BY DEF Pay!Local

LEMMA PayDoneType == Pay!Done \in Pay!Local
BY DEF Pay!Done, Pay!Local

\* What a save leaves of an order.
LEMMA PayMergeOrder ==
  ASSUME NEW current \in Pay!OrderRows, NEW entity \in Pay!OrderRows, NEW seen \in Pay!OrderRows
  PROVE  LET merged == Pay!Merge(current, entity, seen)
         IN /\ merged \in Pay!OrderRows
            /\ merged.status = IF entity.status # seen.status THEN entity.status ELSE current.status
            /\ merged.receipt = IF entity.receipt # seen.receipt THEN entity.receipt ELSE current.receipt
BY DEF Pay!Merge, Pay!OrderRows

\* A row that has not changed since the snapshot becomes the entity.
LEMMA PayMergeTransaction ==
  ASSUME NEW current \in Pay!TransactionRows, NEW entity \in Pay!TransactionRows,
         NEW seen \in Pay!TransactionRows
  PROVE  /\ Pay!Merge(current, entity, seen) \in Pay!TransactionRows
         /\ current = seen => Pay!Merge(current, entity, seen) = entity
BY DEF Pay!Merge, Pay!TransactionRows

LEMMA PayMergeNotify ==
  ASSUME NEW current \in Pay!NotifyRows, NEW entity \in Pay!NotifyRows, NEW seen \in Pay!NotifyRows
  PROVE  /\ Pay!Merge(current, entity, seen) \in Pay!NotifyRows
         /\ current = seen => Pay!Merge(current, entity, seen) = entity
BY DEF Pay!Merge, Pay!NotifyRows

LEMMA PayTypeInit ==
  ASSUME MaxFailures \in Nat PROVE Pay!Init => Pay!TypeOK
<1> SUFFICES ASSUME Pay!Init PROVE Pay!TypeOK
  OBVIOUS
<1>1. [pc |-> "idle"] \in Pay!Local
  BY DEF Pay!Local
<1>2. failures \in 0 .. MaxFailures
  BY DEF Pay!Init
<1>3. QED
  BY <1>1, <1>2 DEF Pay!Init, Pay!TypeOK, Pay!OrderRows, Pay!TransactionRows, Pay!NotifyRows

\* A call that loads a row and changes it in memory, and its snapshot, keep the types.
LEMMA PaySavingType ==
  ASSUME Pay!TypeOK, NEW c \in Calls, NEW pc, NEW table, NEW key, NEW row,
         \/ pc = "order" /\ key \in Orders /\ table = orders /\ row \in Pay!OrderRows
         \/ /\ pc = "transaction" /\ key \in Transactions /\ table = transactions
            /\ row \in Pay!TransactionRows
         \/ pc = "notify" /\ key \in Notifies /\ table = notifies /\ row \in Pay!NotifyRows,
         Pay!Saving(c, pc, table, key, row)
  PROVE  Pay!TypeOK'
<1>1. [pc |-> pc, key |-> key, row |-> row, seen |-> table[key]] \in Pay!Local
  BY DEF Pay!TypeOK, Pay!Local
<1>2. QED
  BY <1>1 DEF Pay!TypeOK, Pay!Saving, Pay!tables

LEMMA PaySeenType ==
  ASSUME NEW pcs, NEW keys, NEW table, NEW local \in [pc : pcs, key : keys, row : table, seen : table],
         NEW pc \in pcs, NEW seen \in table
  PROVE  [local EXCEPT !.pc = pc, !.seen = seen] \in [pc : pcs, key : keys, row : table, seen : table]
OBVIOUS

LEMMA PaySnapshotType ==
  ASSUME Pay!TypeOK, NEW c \in Calls,
         Pay!SnapshotOrder(c) \/ Pay!SnapshotTransaction(c) \/ Pay!SnapshotNotify(c)
  PROVE  Pay!TypeOK'
<1>1. ASSUME Pay!SnapshotOrder(c)
      PROVE  [call[c] EXCEPT !.pc = "orderWrite", !.seen = orders[call[c].key]] \in Pay!Local
  <2>1. call[c] \in [pc : {"order", "orderWrite"}, key : Orders, row : Pay!OrderRows, seen : Pay!OrderRows]
    BY <1>1 DEF Pay!SnapshotOrder, Pay!Snapshot, Pay!At, Pay!TypeOK, Pay!Local
  <2>2. orders[call[c].key] \in Pay!OrderRows
    BY <2>1 DEF Pay!TypeOK
  <2>3. [call[c] EXCEPT !.pc = "orderWrite", !.seen = orders[call[c].key]]
          \in [pc : {"order", "orderWrite"}, key : Orders, row : Pay!OrderRows, seen : Pay!OrderRows]
    BY <2>1, <2>2, PaySeenType
  <2>4. QED
    BY <2>3 DEF Pay!Local
<1>2. ASSUME Pay!SnapshotTransaction(c)
      PROVE  [call[c] EXCEPT !.pc = "transactionWrite", !.seen = transactions[call[c].key]] \in Pay!Local
  <2>1. call[c] \in [pc : {"transaction", "transactionWrite"}, key : Transactions, row : Pay!TransactionRows, seen : Pay!TransactionRows]
    BY <1>2 DEF Pay!SnapshotTransaction, Pay!Snapshot, Pay!At, Pay!TypeOK, Pay!Local
  <2>2. transactions[call[c].key] \in Pay!TransactionRows
    BY <2>1 DEF Pay!TypeOK
  <2>3. [call[c] EXCEPT !.pc = "transactionWrite", !.seen = transactions[call[c].key]]
          \in [pc : {"transaction", "transactionWrite"}, key : Transactions, row : Pay!TransactionRows, seen : Pay!TransactionRows]
    BY <2>1, <2>2, PaySeenType
  <2>4. QED
    BY <2>3 DEF Pay!Local
<1>3. ASSUME Pay!SnapshotNotify(c)
      PROVE  [call[c] EXCEPT !.pc = "notifyWrite", !.seen = notifies[call[c].key]] \in Pay!Local
  <2>1. call[c] \in [pc : {"notify", "notifyWrite"}, key : Notifies, row : Pay!NotifyRows, seen : Pay!NotifyRows]
    BY <1>3 DEF Pay!SnapshotNotify, Pay!Snapshot, Pay!At, Pay!TypeOK, Pay!Local
  <2>2. notifies[call[c].key] \in Pay!NotifyRows
    BY <2>1 DEF Pay!TypeOK
  <2>3. [call[c] EXCEPT !.pc = "notifyWrite", !.seen = notifies[call[c].key]]
          \in [pc : {"notify", "notifyWrite"}, key : Notifies, row : Pay!NotifyRows, seen : Pay!NotifyRows]
    BY <2>1, <2>2, PaySeenType
  <2>4. QED
    BY <2>3 DEF Pay!Local
<1>4. PICK local \in Pay!Local : call' = [call EXCEPT ![c] = local]
  BY <1>1, <1>2, <1>3 DEF Pay!SnapshotOrder, Pay!SnapshotTransaction, Pay!SnapshotNotify, Pay!Snapshot,
     Pay!TypeOK
<1>5. UNCHANGED <<orders, transactions, notifies, overdue, mixed, failures>>
  BY DEF Pay!SnapshotOrder, Pay!SnapshotTransaction, Pay!SnapshotNotify, Pay!Snapshot, Pay!tables
<1>6. QED
  BY <1>4, <1>5 DEF Pay!TypeOK

LEMMA PayWriteType ==
  ASSUME Pay!TypeOK, NEW c \in Calls,
         Pay!WriteOrder(c) \/ Pay!WriteTransaction(c) \/ Pay!WriteNotify(c)
  PROVE  Pay!TypeOK'
<1> USE DEF Pay!TypeOK, Pay!At, Pay!Written, Pay!Mixed
<1>1. CASE Pay!WriteOrder(c)
  <2>1. Pay!Merge(orders[call[c].key], call[c].row, call[c].seen) \in Pay!OrderRows
    BY <1>1, PayCallTypes, PayMergeOrder DEF Pay!WriteOrder
  <2>2. QED
    BY <1>1, <2>1, PayDoneType DEF Pay!WriteOrder
<1>2. CASE Pay!WriteTransaction(c)
  <2>1. /\ Pay!Merge(transactions[call[c].key], call[c].row, call[c].seen) \in Pay!TransactionRows
        /\ call[c].key \in Transactions
    BY <1>2, PayCallTypes, PayMergeTransaction DEF Pay!WriteTransaction
  <2>2. QED
    BY <1>2, <2>1, PayDoneType DEF Pay!WriteTransaction
<1>3. CASE Pay!WriteNotify(c)
  <2>1. /\ Pay!Merge(notifies[call[c].key], call[c].row, call[c].seen) \in Pay!NotifyRows
        /\ call[c].key \in Notifies
    BY <1>3, PayCallTypes, PayMergeNotify DEF Pay!WriteNotify
  <2>2. QED
    BY <1>3, <2>1, PayDoneType DEF Pay!WriteNotify
<1>4. QED
  BY <1>1, <1>2, <1>3

LEMMA PayTypeStep ==
  ASSUME MaxFailures \in Nat PROVE Pay!TypeOK /\ [Pay!Next]_(Pay!vars) => Pay!TypeOK'
<1> SUFFICES ASSUME Pay!TypeOK, [Pay!Next]_(Pay!vars) PROVE Pay!TypeOK'
  OBVIOUS
<1> USE DEF Pay!TypeOK
<1>1. ASSUME NEW o \in Orders, Pay!CreateRecharge(o) PROVE Pay!TypeOK'
  BY <1>1 DEF Pay!CreateRecharge, Pay!OrderRows
<1>2. ASSUME NEW o \in Orders, Pay!BecomesOverdue(o) PROVE Pay!TypeOK'
  BY <1>2 DEF Pay!BecomesOverdue, Pay!tables
<1>3. CASE Pay!CancelExpiredRecharges
  BY <1>3 DEF Pay!CancelExpiredRecharges, Pay!OrderRows
<1>4. ASSUME NEW t \in Transactions, Pay!CreateTransaction(t) PROVE Pay!TypeOK'
  BY <1>4 DEF Pay!CreateTransaction, Pay!TransactionRows
<1>5. ASSUME NEW n \in Notifies, Pay!RecordNotify(n) PROVE Pay!TypeOK'
  BY <1>5 DEF Pay!RecordNotify, Pay!NotifyRows
<1>6. ASSUME NEW c \in Calls, NEW o \in Orders, NEW r \in Receipts,
             Pay!HandleRechargeCallback(c, o, r)
      PROVE  Pay!TypeOK'
  <2>1. [orders[o] EXCEPT !.status = "PAID", !.receipt = r] \in Pay!OrderRows
    BY DEF Pay!OrderRows
  <2>2. QED
    BY <1>6, <2>1, PaySavingType DEF Pay!HandleRechargeCallback
<1>7. ASSUME NEW c \in Calls, NEW t \in Transactions, NEW r \in Receipts, Pay!MarkSuccess(c, t, r)
      PROVE  Pay!TypeOK'
  <2>1. [transactions[t] EXCEPT !.status = "SUCCESS", !.receipt = r, !.paidAt = c] \in Pay!TransactionRows
    BY DEF Pay!TransactionRows
  <2>2. QED
    BY <1>7, <2>1, PaySavingType DEF Pay!MarkSuccess, Pay!MarkTransaction
<1>8. ASSUME NEW c \in Calls, NEW t \in Transactions, Pay!MarkFailed(c, t) \/ Pay!MarkClosed(c, t)
      PROVE  Pay!TypeOK'
  <2>1. /\ [transactions[t] EXCEPT !.status = "FAILED", !.failedAt = c] \in Pay!TransactionRows
        /\ [transactions[t] EXCEPT !.status = "CLOSED"] \in Pay!TransactionRows
    BY DEF Pay!TransactionRows
  <2>2. QED
    BY <1>8, <2>1, PaySavingType DEF Pay!MarkFailed, Pay!MarkClosed, Pay!MarkTransaction
<1>9. ASSUME NEW c \in Calls, NEW n \in Notifies,
             \/ Pay!MarkNotifySuccess(c, n)
             \/ Pay!MarkNotifyFailed(c, n)
             \/ Pay!MarkNotifyIgnored(c, n)
      PROVE  Pay!TypeOK'
  <2>1. notifies[n] \in Pay!NotifyRows /\ notifies[n].retries + 1 \in Nat
    BY DEF Pay!NotifyRows
  <2>2. [notifies[n] EXCEPT !.status = "SUCCESS", !.processedAt = c] \in Pay!NotifyRows
    BY <2>1 DEF Pay!NotifyRows
  <2>3. [notifies[n] EXCEPT !.status = "FAILED", !.retries = @ + 1] \in Pay!NotifyRows
    BY <2>1 DEF Pay!NotifyRows
  <2>4. [notifies[n] EXCEPT !.status = "IGNORED", !.processedAt = c] \in Pay!NotifyRows
    BY <2>1 DEF Pay!NotifyRows
  <2>5. QED
    BY <1>9, <2>2, <2>3, <2>4, PaySavingType DEF Pay!MarkNotifySuccess, Pay!MarkNotifyFailed,
       Pay!MarkNotifyIgnored, Pay!MarkNotify
<1>10. ASSUME NEW c \in Calls, Pay!AwaitFails(c) PROVE Pay!TypeOK'
  BY <1>10, PayDoneType DEF Pay!AwaitFails, Pay!tables
<1>11. CASE UNCHANGED Pay!vars
  BY <1>11 DEF Pay!vars, Pay!tables
<1>12. QED
  BY <1>1, <1>2, <1>3, <1>4, <1>5, <1>6, <1>7, <1>8, <1>9, <1>10, <1>11, PaySnapshotType, PayWriteType
  DEF Pay!Next

\* TypeOK holds in every reachable state.
THEOREM PayTypeCorrect == ASSUME MaxFailures \in Nat PROVE Pay!Spec => []Pay!TypeOK
BY PayTypeInit, PayTypeStep, PTL DEF Pay!Spec

-----------------------------------------------------------------------------
(***************************************************************************)
(* What is paid stays paid                                                 *)
(***************************************************************************)
\* Orders have a receipt exactly when they are paid; a callback that is about
\* to save an order saves it as paid, with a receipt; and an order that was
\* paid at the snapshot of a save is paid at its write.
OrderMatches(row) == row.receipt # None <=> row.status = "PAID"

SavesPaid ==
  /\ \A o \in Orders : OrderMatches(orders[o])
  /\ \A c \in Calls : call[c].pc \in {"order", "orderWrite"} =>
       /\ call[c].row.status = "PAID" /\ OrderMatches(call[c].row)
       /\ OrderMatches(call[c].seen)
       /\ call[c].seen.status = "PAID" => orders[call[c].key].status = "PAID"

\* What such a save leaves is paid.
LEMMA SavesPaidMerge ==
  ASSUME NEW current \in Pay!OrderRows, NEW entity \in Pay!OrderRows, NEW seen \in Pay!OrderRows,
         OrderMatches(current), entity.status = "PAID", OrderMatches(entity), OrderMatches(seen),
         seen.status = "PAID" => current.status = "PAID"
  PROVE  LET merged == Pay!Merge(current, entity, seen)
         IN merged.status = "PAID" /\ OrderMatches(merged)
<1> DEFINE merged == Pay!Merge(current, entity, seen)
<1>1. /\ merged.status = IF entity.status # seen.status THEN entity.status ELSE current.status
      /\ merged.receipt = IF entity.receipt # seen.receipt THEN entity.receipt ELSE current.receipt
  BY PayMergeOrder
<1> HIDE DEF merged
<1>2. merged.status = "PAID" /\ OrderMatches(merged)
  BY <1>1 DEF OrderMatches
<1>3. QED
  BY <1>2 DEF merged

\* The orders stay paid, and no call is at another order than before, or at one
\* with another row or snapshot.
LEMMA SavesPaidKept ==
  ASSUME Pay!TypeOK, SavesPaid, orders' \in [Orders -> Pay!OrderRows], Pay!PaidStays,
         \A o \in Orders : OrderMatches(orders'[o]),
         \A c \in Calls : call'[c] = call[c] \/ call'[c].pc \notin {"order", "orderWrite"}
  PROVE  SavesPaid'
BY PayCallTypes DEF SavesPaid, Pay!PaidStays, Pay!TypeOK, OrderMatches

\* The order's row is written by its creation, by the job, which looks at the
\* status, and by such a save.
LEMMA PaidStep ==
  ASSUME MaxFailures \in Nat, None \notin Receipts, Pay!TypeOK, SavesPaid, [Pay!Next]_(Pay!vars)
  PROVE  SavesPaid' /\ Pay!PaidStays
<1>0. orders' \in [Orders -> Pay!OrderRows]
  BY PayTypeStep DEF Pay!TypeOK
<1>1. ASSUME NEW o \in Orders, Pay!CreateRecharge(o) PROVE SavesPaid' /\ Pay!PaidStays
  <2>1. Pay!PaidStays /\ \A p \in Orders : OrderMatches(orders'[p])
    BY <1>1 DEF Pay!CreateRecharge, Pay!TypeOK, Pay!OrderRows, SavesPaid, OrderMatches, Pay!PaidStays
  <2>2. QED
    BY <1>0, <1>1, <2>1, SavesPaidKept DEF Pay!CreateRecharge
<1>2. CASE Pay!CancelExpiredRecharges
  <2>1. Pay!PaidStays /\ \A p \in Orders : OrderMatches(orders'[p])
    BY <1>2 DEF Pay!CancelExpiredRecharges, Pay!Expired, Pay!TypeOK, Pay!OrderRows, SavesPaid,
       OrderMatches, Pay!PaidStays
  <2>2. QED
    BY <1>0, <1>2, <2>1, SavesPaidKept DEF Pay!CancelExpiredRecharges
<1>3. ASSUME NEW c \in Calls, NEW o \in Orders, NEW r \in Receipts,
             Pay!HandleRechargeCallback(c, o, r)
      PROVE  SavesPaid' /\ Pay!PaidStays
  <2> DEFINE local == [pc |-> "order", key |-> o,
                       row |-> [orders[o] EXCEPT !.status = "PAID", !.receipt = r],
                       seen |-> orders[o]]
  <2>1. /\ local.pc = "order" /\ local.key = o
        /\ local.row.status = "PAID" /\ OrderMatches(local.row)
        /\ local.seen = orders[o]
    BY DEF Pay!TypeOK, Pay!OrderRows, OrderMatches
  <2>2. call' = [call EXCEPT ![c] = local] /\ UNCHANGED orders
    BY <1>3 DEF Pay!HandleRechargeCallback, Pay!Saving, Pay!tables
  <2> HIDE DEF local
  <2>3. QED
    BY <2>1, <2>2 DEF SavesPaid, Pay!PaidStays, Pay!TypeOK, OrderMatches
<1>4. ASSUME NEW c \in Calls, Pay!SnapshotOrder(c) PROVE SavesPaid' /\ Pay!PaidStays
  <2> DEFINE local == [call[c] EXCEPT !.pc = "orderWrite", !.seen = orders[call[c].key]]
  <2>1. /\ call[c].pc = "order" /\ call[c].key \in Orders
        /\ call[c] \in [pc : {"order", "orderWrite"}, key : Orders, row : Pay!OrderRows, seen : Pay!OrderRows]
    BY <1>4 DEF Pay!SnapshotOrder, Pay!Snapshot, Pay!At, Pay!TypeOK, Pay!Local
  <2>2. /\ local.pc = "orderWrite" /\ local.key = call[c].key /\ local.row = call[c].row
        /\ local.seen = orders[call[c].key]
    BY <2>1
  <2>3. call' = [call EXCEPT ![c] = local] /\ UNCHANGED orders
    BY <1>4 DEF Pay!SnapshotOrder, Pay!Snapshot, Pay!tables, Pay!TypeOK
  <2> HIDE DEF local
  <2>4. QED
    BY <2>1, <2>2, <2>3 DEF SavesPaid, Pay!PaidStays, Pay!TypeOK, OrderMatches
<1>5. ASSUME NEW c \in Calls, Pay!WriteOrder(c) PROVE SavesPaid' /\ Pay!PaidStays
  <2> DEFINE merged == Pay!Merge(orders[call[c].key], call[c].row, call[c].seen)
  <2>1. /\ call[c].pc = "orderWrite" /\ call[c].key \in Orders
        /\ call[c].row \in Pay!OrderRows /\ call[c].seen \in Pay!OrderRows
    BY <1>5, PayCallTypes DEF Pay!WriteOrder, Pay!At, Pay!TypeOK
  <2>2. merged.status = "PAID" /\ OrderMatches(merged)
    <3>1. orders[call[c].key] \in Pay!OrderRows
      BY <2>1 DEF Pay!TypeOK
    <3>2. QED
      BY <2>1, <3>1, SavesPaidMerge DEF SavesPaid
  <2>3. orders' = [orders EXCEPT ![call[c].key] = merged] /\ call' = [call EXCEPT ![c] = Pay!Done]
    BY <1>5 DEF Pay!WriteOrder, Pay!Written, Pay!TypeOK
  <2> HIDE DEF merged
  <2>4. Pay!PaidStays /\ \A p \in Orders : OrderMatches(orders'[p])
    BY <2>1, <2>2, <2>3 DEF SavesPaid, Pay!PaidStays, Pay!TypeOK, OrderMatches
  <2>5. \A d \in Calls : call'[d] = call[d] \/ call'[d].pc \notin {"order", "orderWrite"}
    BY <2>3 DEF Pay!TypeOK, Pay!Done
  <2>6. QED
    BY <1>0, <2>4, <2>5, SavesPaidKept
<1>6. ASSUME UNCHANGED orders,
             \A d \in Calls : call'[d] = call[d] \/ call'[d].pc \notin {"order", "orderWrite"}
      PROVE  SavesPaid' /\ Pay!PaidStays
  BY <1>0, <1>6, SavesPaidKept DEF SavesPaid, Pay!PaidStays
<1>7. ASSUME NEW c \in Calls,
             \/ Pay!SnapshotTransaction(c) \/ Pay!SnapshotNotify(c)
             \/ Pay!WriteTransaction(c) \/ Pay!WriteNotify(c) \/ Pay!AwaitFails(c)
      PROVE  SavesPaid' /\ Pay!PaidStays
  <2>1. ASSUME Pay!SnapshotTransaction(c) \/ Pay!SnapshotNotify(c)
        PROVE  \A d \in Calls : call'[d] = call[d] \/ call'[d].pc \notin {"order", "orderWrite"}
    <3>1. PICK pc \in {"transactionWrite", "notifyWrite"} : \E seen :
            call' = [call EXCEPT ![c] = [call[c] EXCEPT !.pc = pc, !.seen = seen]]
      BY <2>1 DEF Pay!SnapshotTransaction, Pay!SnapshotNotify, Pay!Snapshot, Pay!TypeOK
    <3>2. PICK seen : call' = [call EXCEPT ![c] = [call[c] EXCEPT !.pc = pc, !.seen = seen]]
      BY <3>1
    <3>3. "pc" \in DOMAIN call[c]
      BY DEF Pay!TypeOK, Pay!Local
    <3>4. QED
      BY <3>2, <3>3 DEF Pay!TypeOK
  <2>2. \A d \in Calls : call'[d] = call[d] \/ call'[d].pc \notin {"order", "orderWrite"}
    BY <1>7, <2>1 DEF Pay!WriteTransaction, Pay!WriteNotify, Pay!AwaitFails, Pay!TypeOK, Pay!Done
  <2>3. UNCHANGED orders
    BY <1>7 DEF Pay!SnapshotTransaction, Pay!SnapshotNotify, Pay!Snapshot, Pay!WriteTransaction,
       Pay!WriteNotify, Pay!AwaitFails, Pay!tables
  <2>4. QED
    BY <1>6, <2>2, <2>3
<1>8. ASSUME NEW c \in Calls, NEW t, NEW row,
             Pay!MarkTransaction(c, t, row) \/ Pay!MarkNotify(c, t, row)
      PROVE  SavesPaid' /\ Pay!PaidStays
  <2>1. UNCHANGED orders
    BY <1>8 DEF Pay!MarkTransaction, Pay!MarkNotify, Pay!Saving, Pay!tables
  <2>2. \A d \in Calls : call'[d] = call[d] \/ call'[d].pc \notin {"order", "orderWrite"}
    BY <1>8 DEF Pay!MarkTransaction, Pay!MarkNotify, Pay!Saving, Pay!TypeOK
  <2>3. QED
    BY <1>6, <2>1, <2>2
<1>9. CASE UNCHANGED <<orders, call>>
  BY <1>6, <1>9
<1>10. QED
  BY <1>1, <1>2, <1>3, <1>4, <1>5, <1>7, <1>8, <1>9
  DEF Pay!Next, Pay!BecomesOverdue, Pay!CreateTransaction, Pay!RecordNotify, Pay!MarkSuccess,
      Pay!MarkFailed, Pay!MarkClosed, Pay!MarkNotifySuccess, Pay!MarkNotifyFailed,
      Pay!MarkNotifyIgnored, Pay!vars, Pay!tables

\* No order that was paid is cancelled or opened again, for any number of
\* callbacks and rounds of the job in any order, between the two halves of a
\* save as well.
THEOREM PaidIsFinalCorrect ==
  ASSUME MaxFailures \in Nat, None \notin Receipts PROVE Pay!Spec => Pay!PaidIsFinal
<1>1. Pay!Init => SavesPaid
  BY DEF Pay!Init, SavesPaid, OrderMatches
<1>2. Pay!TypeOK /\ SavesPaid /\ [Pay!Next]_(Pay!vars) => SavesPaid' /\ Pay!PaidStays
  BY PaidStep
<1>3. Pay!TypeOK /\ SavesPaid /\ [Pay!Next]_(Pay!vars) => SavesPaid' /\ [Pay!PaidStays]_(Pay!vars)
  BY <1>2
<1>4. QED
  BY <1>1, <1>3, PayTypeCorrect, PTL DEF Pay!Spec, Pay!PaidIsFinal

-----------------------------------------------------------------------------
(***************************************************************************)
(* Receipts                                                                *)
(***************************************************************************)
\* The rows that are loaded, changed and not yet saved match, too, unless they
\* are those of a row that changed in the middle of a save.
TransactionMatches(row) ==
  /\ row.paidAt # None <=> row.status = "SUCCESS"
  /\ row.receipt # None <=> row.status = "SUCCESS"

NotifyMatches(row) == row.status \in {"SUCCESS", "IGNORED"} => row.processedAt # None

SavesMatch(c) ==
  /\ call[c].pc \in {"transaction", "transactionWrite"} /\ call[c].key \notin mixed
       => TransactionMatches(call[c].row)
  /\ call[c].pc \in {"notify", "notifyWrite"} /\ call[c].key \notin mixed
       => NotifyMatches(call[c].row)

RowsMatch ==
  /\ \A t \in Transactions \ mixed : TransactionMatches(transactions[t])
  /\ \A n \in Notifies \ mixed : NotifyMatches(notifies[n])
  /\ \A c \in Calls : SavesMatch(c)

\* A call that loads a row and changes it so that it still matches.
LEMMA SavingMatches ==
  ASSUME Pay!TypeOK, RowsMatch, NEW c \in Calls, NEW pc, NEW table, NEW key, NEW row,
         pc = "transaction" /\ key \notin mixed => TransactionMatches(row),
         pc = "notify" /\ key \notin mixed => NotifyMatches(row),
         pc \in {"order", "transaction", "notify"},
         Pay!Saving(c, pc, table, key, row)
  PROVE  RowsMatch'
<1> DEFINE local == [pc |-> pc, key |-> key, row |-> row, seen |-> table[key]]
<1>1. local.pc = pc /\ local.key = key /\ local.row = row
  OBVIOUS
<1>2. call' = [call EXCEPT ![c] = local] /\ UNCHANGED <<transactions, notifies, mixed>>
  BY DEF Pay!Saving, Pay!tables
<1> HIDE DEF local
<1>3. (\A d \in Calls : SavesMatch(d))'
  BY <1>1, <1>2 DEF RowsMatch, SavesMatch, Pay!TypeOK, TransactionMatches, NotifyMatches
<1>4. QED
  BY <1>2, <1>3 DEF RowsMatch, TransactionMatches, NotifyMatches

\* A snapshot changes neither the entity nor its key.
LEMMA SnapshotMatches ==
  ASSUME Pay!TypeOK, RowsMatch, NEW c \in Calls,
         Pay!SnapshotOrder(c) \/ Pay!SnapshotTransaction(c) \/ Pay!SnapshotNotify(c)
  PROVE  RowsMatch'
<1>1. PICK pc \in {"order", "transaction", "notify"},
           next \in {"orderWrite", "transactionWrite", "notifyWrite"},
           table \in {orders, transactions, notifies} :
        /\ Pay!Snapshot(c, pc, next, table)
        /\ pc = "transaction" <=> next = "transactionWrite"
        /\ pc = "notify" <=> next = "notifyWrite"
  BY DEF Pay!SnapshotOrder, Pay!SnapshotTransaction, Pay!SnapshotNotify
<1>2. PICK seen : seen = table[call[c].key]
  OBVIOUS
<1> DEFINE local == [call[c] EXCEPT !.pc = next, !.seen = seen]
<1>3. {"pc", "key", "row", "seen"} \subseteq DOMAIN call[c] /\ call[c].pc = pc
  BY <1>1 DEF Pay!TypeOK, Pay!Local, Pay!Snapshot, Pay!At
<1>4. local.pc = next /\ local.key = call[c].key /\ local.row = call[c].row
  BY <1>3
<1>5. call' = [call EXCEPT ![c] = local] /\ UNCHANGED <<transactions, notifies, mixed>>
  BY <1>1, <1>2 DEF Pay!Snapshot, Pay!tables, Pay!TypeOK
<1> HIDE DEF local
<1>6. (\A d \in Calls : SavesMatch(d))'
  BY <1>1, <1>3, <1>4, <1>5 DEF RowsMatch, SavesMatch, Pay!TypeOK, TransactionMatches, NotifyMatches
<1>7. QED
  BY <1>5, <1>6 DEF RowsMatch, TransactionMatches, NotifyMatches

\* A call that ends leaves the others as they are.
LEMMA EndMatches ==
  ASSUME Pay!TypeOK, RowsMatch, NEW c \in Calls, call' = [call EXCEPT ![c] = Pay!Done],
         mixed \subseteq mixed'
  PROVE  (\A d \in Calls : SavesMatch(d))'
<1>1. \A d \in Calls : call'[d] = call[d] \/ call'[d] = Pay!Done
  BY DEF Pay!TypeOK
<1>2. QED
  BY <1>1 DEF RowsMatch, SavesMatch, Pay!Done, TransactionMatches, NotifyMatches

\* A write leaves a row that matches, or one that changed since the snapshot.
LEMMA WriteMatches ==
  ASSUME Pay!TypeOK, RowsMatch, NEW c \in Calls,
         Pay!WriteOrder(c) \/ Pay!WriteTransaction(c) \/ Pay!WriteNotify(c)
  PROVE  RowsMatch'
<1>1. (\A d \in Calls : SavesMatch(d))'
  BY EndMatches DEF Pay!WriteOrder, Pay!WriteTransaction, Pay!WriteNotify
<1>2. CASE Pay!WriteOrder(c)
  BY <1>1, <1>2 DEF Pay!WriteOrder, RowsMatch, TransactionMatches, NotifyMatches
<1>3. CASE Pay!WriteTransaction(c)
  <2> DEFINE t == call[c].key
             merged == Pay!Merge(transactions[t], call[c].row, call[c].seen)
  <2>1. /\ call[c].pc = "transactionWrite" /\ t \in Transactions
        /\ call[c].row \in Pay!TransactionRows /\ call[c].seen \in Pay!TransactionRows
        /\ transactions[t] \in Pay!TransactionRows
    BY <1>3, PayCallTypes DEF Pay!WriteTransaction, Pay!At, Pay!TypeOK
  <2>2. t \notin mixed' => t \notin mixed /\ transactions[t] = call[c].seen
    BY <1>3 DEF Pay!WriteTransaction, Pay!Mixed
  <2>3. t \notin mixed' => merged = call[c].row
    BY <2>1, <2>2, PayMergeTransaction
  <2>4. t \notin mixed' => TransactionMatches(merged)
    BY <2>1, <2>2, <2>3 DEF RowsMatch, SavesMatch
  <2>5. PICK key, row : key = t /\ row = merged
    OBVIOUS
  <2>6. transactions' = [transactions EXCEPT ![key] = row] /\ UNCHANGED notifies /\ mixed \subseteq mixed'
    BY <1>3, <2>5 DEF Pay!WriteTransaction, Pay!Written, Pay!TypeOK
  <2>7. \A s \in Transactions \ mixed' : TransactionMatches(transactions'[s])
    BY <2>4, <2>5, <2>6 DEF RowsMatch, Pay!TypeOK
  <2>8. QED
    BY <1>1, <2>6, <2>7 DEF RowsMatch, TransactionMatches, NotifyMatches
<1>4. CASE Pay!WriteNotify(c)
  <2> DEFINE n == call[c].key
             merged == Pay!Merge(notifies[n], call[c].row, call[c].seen)
  <2>1. /\ call[c].pc = "notifyWrite" /\ n \in Notifies
        /\ call[c].row \in Pay!NotifyRows /\ call[c].seen \in Pay!NotifyRows
        /\ notifies[n] \in Pay!NotifyRows
    BY <1>4, PayCallTypes DEF Pay!WriteNotify, Pay!At, Pay!TypeOK
  <2>2. n \notin mixed' => n \notin mixed /\ notifies[n] = call[c].seen
    BY <1>4 DEF Pay!WriteNotify, Pay!Mixed
  <2>3. n \notin mixed' => merged = call[c].row
    BY <2>1, <2>2, PayMergeNotify
  <2>4. n \notin mixed' => NotifyMatches(merged)
    BY <2>1, <2>2, <2>3 DEF RowsMatch, SavesMatch
  <2>5. PICK key, row : key = n /\ row = merged
    OBVIOUS
  <2>6. notifies' = [notifies EXCEPT ![key] = row] /\ UNCHANGED transactions /\ mixed \subseteq mixed'
    BY <1>4, <2>5 DEF Pay!WriteNotify, Pay!Written, Pay!TypeOK
  <2>7. \A s \in Notifies \ mixed' : NotifyMatches(notifies'[s])
    BY <2>4, <2>5, <2>6 DEF RowsMatch, Pay!TypeOK
  <2>8. QED
    BY <1>1, <2>6, <2>7 DEF RowsMatch, TransactionMatches, NotifyMatches
<1>5. QED
  BY <1>2, <1>3, <1>4

LEMMA MatchStep ==
  ASSUME None \notin Receipts, None \notin Calls, Pay!TypeOK, RowsMatch, [Pay!Next]_(Pay!vars)
  PROVE  RowsMatch'
<1>1. ASSUME NEW t \in Transactions, Pay!CreateTransaction(t) PROVE RowsMatch'
  BY <1>1 DEF Pay!CreateTransaction, Pay!TypeOK, Pay!TransactionRows, RowsMatch, SavesMatch,
     TransactionMatches, NotifyMatches
<1>2. ASSUME NEW n \in Notifies, Pay!RecordNotify(n) PROVE RowsMatch'
  BY <1>2 DEF Pay!RecordNotify, Pay!TypeOK, Pay!NotifyRows, RowsMatch, SavesMatch,
     TransactionMatches, NotifyMatches
<1>3. ASSUME NEW c \in Calls, NEW o \in Orders, NEW r \in Receipts,
             Pay!HandleRechargeCallback(c, o, r)
      PROVE  RowsMatch'
  BY <1>3, SavingMatches DEF Pay!HandleRechargeCallback
<1>4. ASSUME NEW c \in Calls, NEW t \in Transactions, NEW r \in Receipts, Pay!MarkSuccess(c, t, r)
      PROVE  RowsMatch'
  <2>1. TransactionMatches([transactions[t] EXCEPT !.status = "SUCCESS", !.receipt = r, !.paidAt = c])
    BY DEF TransactionMatches, Pay!TypeOK, Pay!TransactionRows
  <2>2. QED
    BY <1>4, <2>1, SavingMatches DEF Pay!MarkSuccess, Pay!MarkTransaction
<1>5. ASSUME NEW c \in Calls, NEW t \in Transactions, Pay!MarkFailed(c, t) \/ Pay!MarkClosed(c, t)
      PROVE  RowsMatch'
  <2>1. transactions[t].status # "SUCCESS"
    BY <1>5 DEF Pay!MarkFailed, Pay!MarkClosed
  <2>2. t \notin mixed =>
          /\ TransactionMatches([transactions[t] EXCEPT !.status = "FAILED", !.failedAt = c])
          /\ TransactionMatches([transactions[t] EXCEPT !.status = "CLOSED"])
    BY <2>1 DEF RowsMatch, TransactionMatches, Pay!TypeOK, Pay!TransactionRows
  <2>3. QED
    BY <1>5, <2>2, SavingMatches DEF Pay!MarkFailed, Pay!MarkClosed, Pay!MarkTransaction
<1>6. ASSUME NEW c \in Calls, NEW n \in Notifies,
             \/ Pay!MarkNotifySuccess(c, n)
             \/ Pay!MarkNotifyFailed(c, n)
             \/ Pay!MarkNotifyIgnored(c, n)
      PROVE  RowsMatch'
  <2>1. /\ NotifyMatches([notifies[n] EXCEPT !.status = "SUCCESS", !.processedAt = c])
        /\ NotifyMatches([notifies[n] EXCEPT !.status = "FAILED", !.retries = @ + 1])
        /\ NotifyMatches([notifies[n] EXCEPT !.status = "IGNORED", !.processedAt = c])
    BY DEF NotifyMatches, Pay!TypeOK, Pay!NotifyRows
  <2>2. QED
    BY <1>6, <2>1, SavingMatches DEF Pay!MarkNotifySuccess, Pay!MarkNotifyFailed, Pay!MarkNotifyIgnored,
       Pay!MarkNotify
<1>7. ASSUME NEW c \in Calls, Pay!AwaitFails(c) PROVE RowsMatch'
  <2>1. (\A d \in Calls : SavesMatch(d))'
    BY <1>7, EndMatches DEF Pay!AwaitFails
  <2>2. QED
    BY <1>7, <2>1 DEF Pay!AwaitFails, Pay!tables, RowsMatch, TransactionMatches, NotifyMatches
<1>8. CASE UNCHANGED <<transactions, notifies, call, mixed>>
  BY <1>8 DEF RowsMatch, SavesMatch, TransactionMatches, NotifyMatches
<1>9. QED
  BY <1>1, <1>2, <1>3, <1>4, <1>5, <1>6, <1>7, <1>8, SnapshotMatches, WriteMatches
  DEF Pay!Next, Pay!CreateRecharge, Pay!BecomesOverdue, Pay!CancelExpiredRecharges, Pay!vars,
      Pay!tables

\* Receipt, time of payment and status agree for every order, and for every
\* transaction that did not change in the middle of a save, and so does what is
\* said of handled callbacks, however the calls that mark them overtake one another.
THEOREM ReceiptMatchesStatusCorrect ==
  ASSUME MaxFailures \in Nat, None \notin Receipts, None \notin Calls
  PROVE  Pay!Spec => []Pay!ReceiptMatchesStatus
<1>1. Pay!Init => RowsMatch /\ SavesPaid
  BY DEF Pay!Init, RowsMatch, SavesMatch, TransactionMatches, NotifyMatches, SavesPaid, OrderMatches
<1>2. Pay!TypeOK /\ RowsMatch /\ SavesPaid /\ [Pay!Next]_(Pay!vars) => RowsMatch' /\ SavesPaid'
  BY MatchStep, PaidStep
<1>3. RowsMatch /\ SavesPaid => Pay!ReceiptMatchesStatus
  BY DEF RowsMatch, SavesPaid, Pay!ReceiptMatchesStatus, TransactionMatches, NotifyMatches, OrderMatches
<1>4. QED
  BY <1>1, <1>2, <1>3, PayTypeCorrect, PTL DEF Pay!Spec

-----------------------------------------------------------------------------
(***************************************************************************)
(* Wechat: the cached access token.                                        *)
(***************************************************************************)
(***************************************************************************)
(* Types, with the tokens at hand being tokens that WeChat has given out   *)
(***************************************************************************)
Holding == {"readToken", "lookUp", "refused"}

WecTypeInv ==
  /\ Wec!TypeOK
  /\ cache.token \in issued \cup {0} /\ (cache.token = 0 => cache.left = 0)
  /\ \A c \in Calls : /\ call[c].token \in issued \cup {0}
                      /\ call[c].pc \in Holding => call[c].token \in issued
  /\ \A t \in Wec!Tokens \ issued : age[t] = 0

\* A call that moves on is a call.
LEMMA WecMoveType ==
  ASSUME WecTypeInv, NEW c \in Calls, NEW token \in issued \cup {0},
         NEW pc \in {"idle", "exchange", "askToken", "readToken", "lookUp", "refused", "done"},
         pc \in Holding => token \in issued, Wec!Move(c, pc, token)
  PROVE  /\ call' \in [Calls -> Wec!Local]
         /\ \A d \in Calls : /\ call'[d].token \in issued \cup {0}
                             /\ call'[d].pc \in Holding => call'[d].token \in issued
<1>1. token \in Wec!Tokens \cup {0}
  BY DEF WecTypeInv, Wec!TypeOK
<1>2. [pc |-> pc, token |-> token] \in Wec!Local
  BY <1>1 DEF Wec!Local
<1>3. QED
  BY <1>2 DEF WecTypeInv, Wec!TypeOK, Wec!Move

LEMMA WecTypeInit ==
  ASSUME Life \in Nat PROVE Wec!Init => WecTypeInv
<1> SUFFICES ASSUME Wec!Init PROVE WecTypeInv
  OBVIOUS
<1>1. age \in [Wec!Tokens -> 0 .. Life]
  BY DEF Wec!Init
<1>2. cache \in [token : Wec!Tokens \cup {0}, left : 0 .. Life]
  BY DEF Wec!Init, Wec!NoCache
<1>3. QED
  BY <1>1, <1>2 DEF Wec!Init, WecTypeInv, Wec!TypeOK, Wec!NoCache, Wec!Idle, Wec!Local, Holding

LEMMA WecTypeStep ==
  ASSUME Life \in Nat, Margin \in Nat PROVE WecTypeInv /\ [Wec!Next]_(Wec!vars) => WecTypeInv'
<1> SUFFICES ASSUME WecTypeInv, [Wec!Next]_(Wec!vars) PROVE WecTypeInv'
  OBVIOUS
<1> USE DEF WecTypeInv, Wec!TypeOK, Wec!wechat, Holding
<1>1. ASSUME NEW c \in Calls, Wec!ResolveOpenId(c) \/ Wec!Code2Session(c) \/ Wec!LoseToken(c)
      PROVE  WecTypeInv'
  <2>1. Wec!Move(c, "exchange", 0) \/ Wec!Move(c, "done", 0)
    BY <1>1 DEF Wec!ResolveOpenId, Wec!Code2Session, Wec!LoseToken
  <2>2. QED
    BY <1>1, <2>1, WecMoveType DEF Wec!ResolveOpenId, Wec!Code2Session, Wec!LoseToken
<1>2. ASSUME NEW c \in Calls, Wec!GetPhoneNumber(c) PROVE WecTypeInv'
  <2>1. Wec!Usable => cache.token \in issued
    BY DEF Wec!Usable
  <2>2. \/ cache.token \in issued /\ Wec!Move(c, "lookUp", cache.token)
        \/ Wec!Move(c, "askToken", 0)
    BY <1>2, <2>1 DEF Wec!GetPhoneNumber
  <2>3. QED
    BY <1>2, <2>2, WecMoveType DEF Wec!GetPhoneNumber
<1>3. ASSUME NEW c \in Calls, Wec!AskToken(c) PROVE WecTypeInv'
  <2>1. CASE Wec!Move(c, "done", 0) /\ UNCHANGED issued
    BY <1>3, <2>1, WecMoveType DEF Wec!AskToken
  <2>2. ASSUME NEW t \in Wec!Tokens, t \notin issued, issued' = issued \cup {t}, Wec!Move(c,
               "readToken", t)
        PROVE  WecTypeInv'
    <3>1. [pc |-> "readToken", token |-> t] \in Wec!Local
      BY DEF Wec!Local
    <3>2. /\ call' \in [Calls -> Wec!Local]
          /\ \A d \in Calls : /\ call'[d].token \in issued' \cup {0}
                              /\ call'[d].pc \in Holding => call'[d].token \in issued'
      BY <2>2, <3>1 DEF Wec!Move
    <3>3. UNCHANGED <<configured, age, revoked, cache, rejected>>
      BY <1>3 DEF Wec!AskToken
    <3>4. QED
      BY <2>2, <3>2, <3>3
  <2>3. QED
    BY <1>3, <2>1, <2>2 DEF Wec!AskToken
<1>4. ASSUME NEW c \in Calls, Wec!ReadToken(c) PROVE WecTypeInv'
  <2>1. call[c].token \in Wec!Tokens \cup {0}
    BY DEF Wec!Local
  <2>2. cache' \in [token : Wec!Tokens \cup {0}, left : 0 .. Life]
    BY <1>4, <2>1 DEF Wec!ReadToken
  <2>3. call[c].token \in issued
    BY <1>4 DEF Wec!ReadToken, Wec!At
  <2>4. cache'.token \in issued /\ cache'.token # 0
    BY <1>4, <2>3 DEF Wec!ReadToken, Wec!Tokens
  <2>5. QED
    BY <1>4, <2>2, <2>3, <2>4, WecMoveType DEF Wec!ReadToken
<1>5. ASSUME NEW c \in Calls, Wec!LookUp(c) PROVE WecTypeInv'
  <2>1. call[c].token \in issued
    BY <1>5 DEF Wec!LookUp, Wec!At
  <2>2. Wec!Move(c, "done", 0) \/ Wec!Move(c, "refused", call[c].token)
    BY <1>5 DEF Wec!LookUp
  <2>3. QED
    BY <1>5, <2>1, <2>2, WecMoveType DEF Wec!LookUp
<1>6. ASSUME NEW c \in Calls, Wec!ReadRefusal(c) PROVE WecTypeInv'
  <2>1. call[c].token \in issued
    BY <1>6 DEF Wec!ReadRefusal, Wec!At
  <2>2. cache' \in [token : Wec!Tokens \cup {0}, left : 0 .. Life]
    BY <1>6 DEF Wec!ReadRefusal, Wec!NoCache
  <2>3. QED
    BY <1>6, <2>1, <2>2, WecMoveType DEF Wec!ReadRefusal, Wec!NoCache
<1>7. CASE Wec!Configure
  BY <1>7 DEF Wec!Configure
<1>8. CASE Wec!Tick
  BY <1>8 DEF Wec!Tick
<1>9. ASSUME NEW t \in Wec!Tokens, Wec!Revoke(t) PROVE WecTypeInv'
  BY <1>9 DEF Wec!Revoke
<1>10. CASE UNCHANGED Wec!vars
  BY <1>10 DEF Wec!vars
<1>11. QED
  BY <1>1, <1>2, <1>3, <1>4, <1>5, <1>6, <1>7, <1>8, <1>9, <1>10 DEF Wec!Next

\* WeChat's tokens, the cache and the requests keep their types: a request that
\* holds a token holds one that WeChat gave out.
THEOREM WecTypeCorrect ==
  ASSUME Life \in Nat, Margin \in Nat PROVE Wec!Spec => []WecTypeInv
BY WecTypeInit, WecTypeStep, PTL DEF Wec!Spec

-----------------------------------------------------------------------------
(***************************************************************************)
(* A cached token is never past its end: the cache starts its time with    *)
(* the answer, which comes at most a margin after the token's beginning.   *)
(***************************************************************************)
YoungEnough ==
  /\ \A c \in Calls : Wec!At(c, "readToken") => age[call[c].token] <= Margin
  /\ cache.token # 0 => age[cache.token] + cache.left <= Life + Margin

LEMMA YoungStep ==
  ASSUME Life \in Nat, Margin \in Nat, WecTypeInv, YoungEnough, [Wec!Next]_(Wec!vars)
  PROVE YoungEnough'
<1> USE DEF YoungEnough, Wec!At, WecTypeInv, Wec!TypeOK, Wec!wechat, Holding
<1>1. ASSUME NEW c \in Calls,
             Wec!ResolveOpenId(c) \/ Wec!Code2Session(c) \/ Wec!LoseToken(c) \/ Wec!GetPhoneNumber(c)
                               \/ Wec!LookUp(c)
      PROVE  YoungEnough'
  <2>1. \A d \in Calls : call'[d] = call[d] \/ call'[d].pc # "readToken"
    BY <1>1 DEF Wec!ResolveOpenId, Wec!Code2Session, Wec!LoseToken, Wec!GetPhoneNumber,
       Wec!LookUp, Wec!Move
  <2>2. UNCHANGED <<age, cache>>
    BY <1>1 DEF Wec!ResolveOpenId, Wec!Code2Session, Wec!LoseToken, Wec!GetPhoneNumber,
       Wec!LookUp
  <2>3. QED
    BY <2>1, <2>2
<1>2. ASSUME NEW c \in Calls, Wec!AskToken(c) PROVE YoungEnough'
  <2>1. \A d \in Calls : \/ call'[d] = call[d] \/ call'[d].pc # "readToken"
                         \/ call'[d].token \in Wec!Tokens \ issued
    BY <1>2 DEF Wec!AskToken, Wec!Move
  <2>2. UNCHANGED <<age, cache>>
    BY <1>2 DEF Wec!AskToken
  <2>3. QED
    BY <2>1, <2>2
<1>3. ASSUME NEW c \in Calls, Wec!ReadToken(c) PROVE YoungEnough'
  <2>1. \A d \in Calls : call'[d] = call[d] \/ call'[d].pc # "readToken"
    BY <1>3 DEF Wec!ReadToken, Wec!Move
  <2>2. age[call[c].token] <= Margin /\ age[call[c].token] \in Nat
    BY <1>3 DEF Wec!ReadToken
  <2>3. cache' = [token |-> call[c].token, left |-> Life] /\ age' = age
    BY <1>3 DEF Wec!ReadToken
  <2>4. QED
    BY <2>1, <2>2, <2>3
<1>4. ASSUME NEW c \in Calls, Wec!ReadRefusal(c) PROVE YoungEnough'
  <2>1. \A d \in Calls : call'[d] = call[d] \/ call'[d].pc # "readToken"
    BY <1>4 DEF Wec!ReadRefusal, Wec!Move
  <2>2. cache'.token = 0 /\ age' = age
    BY <1>4 DEF Wec!ReadRefusal, Wec!NoCache
  <2>3. QED
    BY <2>1, <2>2
<1>5. CASE Wec!Tick
  <2>1. \A c \in Calls : Wec!At(c, "readToken") => age[call[c].token] < Margin
    BY <1>5 DEF Wec!Tick
  <2>2. \A t \in Wec!Tokens : age'[t] \in Nat /\ age'[t] <= age[t] + 1 /\ age[t] \in Nat /\ age'[t] <= Life
    BY <1>5 DEF Wec!Tick
  <2>3. cache'.token = cache.token /\ cache'.left = (IF cache.left > 0 THEN cache.left - 1 ELSE 0)
    BY <1>5 DEF Wec!Tick
  <2>4. \A c \in Calls : Wec!At(c, "readToken") => age'[call[c].token] <= Margin
    BY <2>1, <2>2
  <2>5. cache.token # 0 => age'[cache.token] + cache'.left <= Life + Margin
    <3>1. SUFFICES ASSUME cache.token # 0
                   PROVE  age'[cache.token] + cache'.left <= Life + Margin
      OBVIOUS
    <3>2. cache.token \in Wec!Tokens /\ cache.left \in Nat
      BY <3>1
    <3>3. CASE cache.left > 0
      BY <2>2, <2>3, <3>1, <3>2, <3>3
    <3>4. CASE cache.left = 0
      BY <2>2, <2>3, <3>1, <3>2, <3>4
    <3>5. QED
      BY <3>2, <3>3, <3>4
  <2>6. QED
    BY <1>5, <2>3, <2>4, <2>5 DEF Wec!Tick
<1>6. CASE Wec!Configure \/ (\E t \in Wec!Tokens : Wec!Revoke(t)) \/ UNCHANGED Wec!vars
  BY <1>6 DEF Wec!Configure, Wec!Revoke, Wec!vars
<1>7. QED
  BY <1>1, <1>2, <1>3, <1>4, <1>5, <1>6 DEF Wec!Next

-----------------------------------------------------------------------------
(***************************************************************************)
(* A refused token never comes back: only the request that asked for it    *)
(* can put it into the cache, once, and nobody holds it before that.       *)
(***************************************************************************)
Unread(t) ==
  /\ t \notin rejected
  /\ cache.token # t

ReadOnce ==
  /\ \A c \in Calls : Wec!At(c, "readToken") =>
       /\ Unread(call[c].token)
       /\ \A d \in Calls \ {c} : call[d].token # call[c].token
  /\ cache.token # 0 => cache.token \notin rejected

LEMMA ReadOnceStep ==
  ASSUME Life \in Nat, Margin \in Nat, WecTypeInv, ReadOnce, [Wec!Next]_(Wec!vars)
  PROVE ReadOnce'
<1> USE DEF ReadOnce, Unread, Wec!At, WecTypeInv, Wec!TypeOK, Wec!wechat, Holding
<1>1. ASSUME NEW c \in Calls, Wec!ResolveOpenId(c) \/ Wec!Code2Session(c) \/ Wec!LoseToken(c)
      PROVE  ReadOnce'
  <2>1. \A d \in Calls : call'[d] = call[d] \/ (call'[d].pc # "readToken" /\ call'[d].token = 0)
    BY <1>1 DEF Wec!ResolveOpenId, Wec!Code2Session, Wec!LoseToken, Wec!Move
  <2>2. UNCHANGED <<rejected, cache>>
    BY <1>1 DEF Wec!ResolveOpenId, Wec!Code2Session, Wec!LoseToken
  <2>3. \A d \in Calls : call[d].pc = "readToken" => call[d].token # 0
    BY DEF Wec!Tokens
  <2>4. QED
    BY <2>1, <2>2, <2>3
<1>2. ASSUME NEW c \in Calls, Wec!GetPhoneNumber(c) \/ Wec!LookUp(c) PROVE ReadOnce'
  <2>1. \A d \in Calls : \/ call'[d] = call[d]
                         \/ /\ call'[d].pc # "readToken"
                            /\ call'[d].token \in {0, cache.token, call[d].token}
    BY <1>2 DEF Wec!GetPhoneNumber, Wec!LookUp, Wec!Move
  <2>2. UNCHANGED <<rejected, cache>>
    BY <1>2 DEF Wec!GetPhoneNumber, Wec!LookUp
  <2>3. \A d \in Calls : call[d].pc = "readToken" => call[d].token # 0
    BY DEF Wec!Tokens
  <2>4. QED
    BY <2>1, <2>2, <2>3
<1>3. ASSUME NEW c \in Calls, Wec!AskToken(c) PROVE ReadOnce'
  <2>1. UNCHANGED <<rejected, cache>>
    BY <1>3 DEF Wec!AskToken
  <2>2. \A d \in Calls : call[d].pc = "readToken" => call[d].token # 0
    BY DEF Wec!Tokens
  <2>3. CASE Wec!Move(c, "done", 0)
    BY <2>1, <2>2, <2>3 DEF Wec!Move
  <2>4. ASSUME NEW t \in Wec!Tokens, t \notin issued, Wec!Move(c, "readToken", t)
        PROVE ReadOnce'
    <3>1. t # 0
      BY <2>4 DEF Wec!Tokens
    <3>2. \A d \in Calls : call[d].token # t
      BY <2>4, <3>1
    <3>3. Unread(t)
      BY <2>4, <3>1
    <3>4. QED
      BY <2>1, <2>4, <3>2, <3>3 DEF Wec!Move
  <2>5. QED
    BY <1>3, <2>3, <2>4 DEF Wec!AskToken
<1>4. ASSUME NEW c \in Calls, Wec!ReadToken(c) PROVE ReadOnce'
  <2>1. /\ cache'.token = call[c].token /\ rejected' = rejected
        /\ Wec!At(c, "readToken") /\ call' = [call EXCEPT ![c] = [pc |-> "lookUp", token |-> call[c].token]]
    BY <1>4 DEF Wec!ReadToken, Wec!Move
  <2>2. QED
    BY <2>1
<1>5. ASSUME NEW c \in Calls, Wec!ReadRefusal(c) PROVE ReadOnce'
  <2>1. /\ cache'.token = 0 /\ rejected' = rejected \cup {call[c].token}
        /\ Wec!At(c, "refused") /\ call' = [call EXCEPT ![c] = [pc |-> "done", token |-> 0]]
    BY <1>5 DEF Wec!ReadRefusal, Wec!Move, Wec!NoCache
  <2>2. \A d \in Calls : call[d].pc = "readToken" => call[d].token # 0
    BY DEF Wec!Tokens
  <2>3. QED
    BY <2>1, <2>2
<1>6. CASE Wec!Configure \/ Wec!Tick \/ (\E t \in Wec!Tokens : Wec!Revoke(t)) \/ UNCHANGED Wec!vars
  BY <1>6 DEF Wec!Configure, Wec!Tick, Wec!Revoke, Wec!vars
<1>7. QED
  BY <1>1, <1>2, <1>3, <1>4, <1>5, <1>6 DEF Wec!Next

-----------------------------------------------------------------------------
\* No request is handed a cached token that has reached its end or that WeChat
\* has refused before, however refreshes and refusals overlap.
THEOREM HandedOutIsGoodCorrect ==
  ASSUME Life \in Nat, Margin \in Nat PROVE Wec!Spec => []Wec!HandedOutIsGood
<1>1. Wec!Init => YoungEnough /\ ReadOnce
  BY DEF Wec!Init, YoungEnough, ReadOnce, Unread, Wec!At, Wec!NoCache, Wec!Idle
<1>2. WecTypeInv /\ YoungEnough /\ ReadOnce /\ [Wec!Next]_(Wec!vars) => YoungEnough' /\ ReadOnce'
  BY YoungStep, ReadOnceStep
<1>3. WecTypeInv /\ YoungEnough /\ ReadOnce => Wec!HandedOutIsGood
  <2>1. SUFFICES ASSUME WecTypeInv, YoungEnough, ReadOnce, Wec!Usable
                 PROVE  age[cache.token] < Life /\ cache.token \notin rejected
    BY DEF Wec!HandedOutIsGood
  <2>2. cache.token \in Wec!Tokens /\ cache.left \in Nat /\ cache.token # 0 /\ cache.left > Margin
    BY <2>1 DEF Wec!Usable, WecTypeInv, Wec!TypeOK
  <2>3. age[cache.token] \in Nat
    BY <2>1, <2>2 DEF WecTypeInv, Wec!TypeOK
  <2>4. QED
    BY <2>1, <2>2, <2>3 DEF YoungEnough, ReadOnce
<1>4. QED
  BY <1>1, <1>2, <1>3, WecTypeCorrect, PTL DEF Wec!Spec

-----------------------------------------------------------------------------
(***************************************************************************)
(* ApiMonitor: no entry of the request log is stored twice, or lost without*)
(* a reason.                                                               *)
(***************************************************************************)
(***************************************************************************)
(* The invariant: batches share no entry with each other nor with the      *)
(* buffer, an entry that waits is kept and has no row, and of the others   *)
(* those that are kept have one row.                                       *)
(***************************************************************************)
ApiSaving(e) == \E batch \in saving : e \in batch

ApiDisjoint ==
  /\ \A a, b \in saving : a # b => a \cap b = {}
  /\ \A a \in saving : a \cap buffer = {}

ApiInOnePlace(e) ==
  /\ e \in buffer \/ ApiSaving(e) => fate[e] = "kept" /\ stored[e] = 0
  /\ ~ (e \in buffer \/ ApiSaving(e)) => stored[e] = IF fate[e] = "kept" THEN 1 ELSE 0

ApiInv == Api!TypeOK /\ ApiDisjoint /\ \A e \in Entries : ApiInOnePlace(e)

-----------------------------------------------------------------------------
(***************************************************************************)
(* Types                                                                   *)
(***************************************************************************)
LEMMA ApiFlushType ==
  ASSUME Api!TypeOK, NEW entries \in SUBSET Entries, Api!Flush(entries)
  PROVE  buffer' \subseteq Entries /\ saving' \subseteq SUBSET Entries
BY DEF Api!TypeOK, Api!Flush

LEMMA ApiTypeInit ==
  ASSUME MaxFailures \in Nat PROVE Api!Init => Api!TypeOK
BY DEF Api!Init, Api!TypeOK

LEMMA ApiTypeStep ==
  ASSUME MaxFailures \in Nat PROVE Api!TypeOK /\ [Api!Next]_(Api!vars) => Api!TypeOK'
<1> SUFFICES ASSUME Api!TypeOK, [Api!Next]_(Api!vars) PROVE Api!TypeOK'
  OBVIOUS
<1> USE DEF Api!TypeOK
<1>1. ASSUME NEW e \in Entries, Api!Record(e) PROVE Api!TypeOK'
  <2>1. buffer \cup {e} \in SUBSET Entries
    OBVIOUS
  <2>2. buffer' \subseteq Entries /\ saving' \subseteq SUBSET Entries
    BY <1>1, <2>1, ApiFlushType DEF Api!Record
  <2>3. QED
    BY <1>1, <2>2 DEF Api!Record
<1>2. CASE Api!TimerFlush
  BY <1>2, ApiFlushType DEF Api!TimerFlush
<1>3. CASE Api!Destroy
  BY <1>3, ApiFlushType DEF Api!Destroy
<1>4. ASSUME NEW batch \in saving, Api!Saved(batch) PROVE Api!TypeOK'
  BY <1>4 DEF Api!Saved
<1>5. ASSUME NEW batch \in saving, Api!SaveFails(batch) PROVE Api!TypeOK'
  <2>1. failures' \in 0 .. MaxFailures
    BY <1>5 DEF Api!SaveFails
  <2>2. stored' \in [Entries -> Nat]
    BY <1>5 DEF Api!SaveFails
  <2>3. fate' \in [Entries -> {"unrecorded", "kept", "saveFailed", "processEnded", "cleaned"}]
    BY <1>5 DEF Api!SaveFails
  <2>4. QED
    BY <1>5, <2>1, <2>2, <2>3 DEF Api!SaveFails
<1>6. CASE Api!Cleanup
  BY <1>6 DEF Api!Cleanup
<1>7. CASE Api!ClearTimers
  BY <1>7 DEF Api!ClearTimers
<1>8. CASE Api!Exit
  BY <1>8 DEF Api!Exit, Api!End
<1>9. CASE Api!Crash
  BY <1>9 DEF Api!Crash, Api!End
<1>10. CASE UNCHANGED Api!vars
  BY <1>10 DEF Api!vars
<1>11. QED
  BY <1>1, <1>2, <1>3, <1>4, <1>5, <1>6, <1>7, <1>8, <1>9, <1>10 DEF Api!Next

-----------------------------------------------------------------------------
(***************************************************************************)
(* Every step keeps the entries in their one place                         *)
(***************************************************************************)
\* A batch of what waits in the buffer shares nothing with the others.
LEMMA FlushStep ==
  ASSUME ApiInv, Api!Flush(buffer), UNCHANGED <<stored, fate>>
  PROVE  ApiDisjoint' /\ \A e \in Entries : ApiInOnePlace(e)'
<1>1. ApiDisjoint'
  BY DEF ApiInv, ApiDisjoint, Api!Flush
<1>2. ASSUME NEW e \in Entries PROVE ApiInOnePlace(e)'
  <2>1. e \notin buffer'
    BY DEF Api!Flush
  <2>2. ApiSaving(e)' <=> e \in buffer \/ ApiSaving(e)
    BY DEF Api!Flush, ApiSaving
  <2>3. QED
    BY <2>1, <2>2 DEF ApiInv, ApiInOnePlace
<1>3. QED
  BY <1>1, <1>2

\* A new entry joins the buffer, or the batch that the buffer becomes.
LEMMA RecordStep ==
  ASSUME ApiInv, NEW e \in Entries, Api!Record(e)
  PROVE  ApiDisjoint' /\ \A d \in Entries : ApiInOnePlace(d)'
<1> DEFINE entries == buffer \cup {e}
<1>1. /\ fate[e] = "unrecorded" /\ fate' = [fate EXCEPT ![e] = "kept"] /\ stored' = stored
      /\ \/ buffer' = {} /\ saving' = saving \cup {entries}
         \/ buffer' = entries /\ saving' = saving
  BY DEF Api!Record, Api!Flush
<1>2. e \notin buffer /\ ~ ApiSaving(e) /\ stored[e] = 0
  BY <1>1 DEF ApiInv, ApiInOnePlace
<1>3. \A a \in saving : a \cap entries = {}
  BY <1>2 DEF ApiInv, ApiDisjoint, ApiSaving
<1>4. ApiDisjoint'
  BY <1>1, <1>3 DEF ApiInv, ApiDisjoint
<1>5. ASSUME NEW d \in Entries PROVE ApiInOnePlace(d)'
  <2>1. (d \in buffer \/ ApiSaving(d))' <=> d = e \/ d \in buffer \/ ApiSaving(d)
    BY <1>1 DEF ApiSaving
  <2>2. fate'[d] = IF d = e THEN "kept" ELSE fate[d]
    BY <1>1 DEF ApiInv, Api!TypeOK
  <2>3. QED
    BY <1>1, <1>2, <2>1, <2>2 DEF ApiInv, ApiInOnePlace
<1>6. QED
  BY <1>4, <1>5

\* The entries of a batch that is not saved any more are in none.
LEMMA BatchLeaves ==
  ASSUME ApiInv, NEW batch \in saving, saving' = saving \ {batch}, buffer' = buffer
  PROVE  /\ ApiDisjoint'
         /\ \A e \in Entries : /\ (e \in buffer \/ ApiSaving(e))' <=> (e \in buffer \/ ApiSaving(e)) /\ e \notin batch
                               /\ e \in batch => fate[e] = "kept" /\ stored[e] = 0
<1>1. ApiDisjoint'
  BY DEF ApiInv, ApiDisjoint
<1>2. ASSUME NEW e \in Entries
      PROVE  /\ (e \in buffer \/ ApiSaving(e))' <=> (e \in buffer \/ ApiSaving(e)) /\ e \notin batch
             /\ e \in batch => fate[e] = "kept" /\ stored[e] = 0
  <2>1. e \in batch => e \notin buffer /\ \A other \in saving : other # batch => e \notin other
    BY DEF ApiInv, ApiDisjoint
  <2>2. e \in batch => ApiSaving(e)
    BY DEF ApiSaving
  <2>3. QED
    BY <2>1, <2>2 DEF ApiInv, ApiInOnePlace, ApiSaving
<1>3. QED
  BY <1>1, <1>2

LEMMA SavedStep ==
  ASSUME ApiInv, NEW batch \in saving, Api!Saved(batch)
  PROVE  ApiDisjoint' /\ \A e \in Entries : ApiInOnePlace(e)'
<1>1. /\ saving' = saving \ {batch} /\ UNCHANGED <<buffer, fate>>
      /\ stored' = [e \in Entries |-> IF e \in batch THEN stored[e] + 1 ELSE stored[e]]
  BY DEF Api!Saved
<1>2. ASSUME NEW e \in Entries PROVE ApiInOnePlace(e)'
  BY <1>1, BatchLeaves DEF ApiInv, ApiInOnePlace
<1>3. QED
  BY <1>1, <1>2, BatchLeaves

LEMMA SaveFailsStep ==
  ASSUME ApiInv, NEW batch \in saving, Api!SaveFails(batch)
  PROVE  ApiDisjoint' /\ \A e \in Entries : ApiInOnePlace(e)'
<1>1. saving' = saving \ {batch} /\ UNCHANGED buffer
  BY DEF Api!SaveFails
<1>2. PICK written \in {{}, batch} :
        /\ stored' = [e \in Entries |-> IF e \in written THEN stored[e] + 1 ELSE stored[e]]
        /\ fate' = [e \in Entries |-> IF e \in batch \ written THEN "saveFailed" ELSE fate[e]]
  BY DEF Api!SaveFails
<1>3. ASSUME NEW e \in Entries PROVE ApiInOnePlace(e)'
  BY <1>1, <1>2, BatchLeaves DEF ApiInv, ApiInOnePlace
<1>4. QED
  BY <1>1, <1>3, BatchLeaves

LEMMA CleanupStep ==
  ASSUME ApiInv, Api!Cleanup
  PROVE  ApiDisjoint' /\ \A e \in Entries : ApiInOnePlace(e)'
<1>1. PICK old \in SUBSET {e \in Entries : stored[e] > 0} :
        /\ stored' = [e \in Entries |-> IF e \in old THEN 0 ELSE stored[e]]
        /\ fate' = [e \in Entries |-> IF e \in old THEN "cleaned" ELSE fate[e]]
  BY DEF Api!Cleanup
<1>2. UNCHANGED <<buffer, saving>>
  BY DEF Api!Cleanup
<1>3. ASSUME NEW e \in Entries PROVE ApiInOnePlace(e)'
  <2>1. e \in old => ~ (e \in buffer \/ ApiSaving(e))
    BY DEF ApiInv, ApiInOnePlace
  <2>2. QED
    BY <1>1, <1>2, <2>1 DEF ApiInv, ApiInOnePlace, ApiSaving
<1>4. QED
  BY <1>2, <1>3 DEF ApiInv, ApiDisjoint

LEMMA EndStep ==
  ASSUME ApiInv, Api!End
  PROVE  ApiDisjoint' /\ \A e \in Entries : ApiInOnePlace(e)'
<1>1. /\ buffer' = {} /\ saving' = {} /\ stored' = stored
      /\ fate' = [e \in Entries |-> IF e \in buffer \cup UNION saving THEN "processEnded" ELSE fate[e]]
  BY DEF Api!End
<1>2. ASSUME NEW e \in Entries PROVE ApiInOnePlace(e)'
  <2>1. e \in buffer \cup UNION saving <=> e \in buffer \/ ApiSaving(e)
    BY DEF ApiSaving
  <2>2. ~ (e \in buffer \/ ApiSaving(e))'
    BY <1>1 DEF ApiSaving
  <2>3. QED
    BY <1>1, <2>1, <2>2 DEF ApiInv, ApiInOnePlace
<1>3. QED
  BY <1>1, <1>2 DEF ApiDisjoint

LEMMA ApiInvStep ==
  ASSUME MaxFailures \in Nat PROVE ApiInv /\ [Api!Next]_(Api!vars) => ApiInv'
<1> SUFFICES ASSUME ApiInv, [Api!Next]_(Api!vars) PROVE ApiInv'
  OBVIOUS
<1>1. Api!TypeOK'
  BY ApiTypeStep DEF ApiInv
<1>2. SUFFICES ApiDisjoint' /\ \A e \in Entries : ApiInOnePlace(e)'
  BY <1>1 DEF ApiInv
<1>3. CASE Api!TimerFlush \/ Api!Destroy
  BY <1>3, FlushStep DEF Api!TimerFlush, Api!Destroy
<1>4. CASE Api!ClearTimers \/ UNCHANGED Api!vars
  BY <1>4 DEF Api!ClearTimers, Api!vars, ApiInv, ApiDisjoint, ApiInOnePlace, ApiSaving
<1>5. QED
  BY <1>3, <1>4, RecordStep, SavedStep, SaveFailsStep, CleanupStep, EndStep DEF Api!Next,
     Api!Exit, Api!Crash

-----------------------------------------------------------------------------
\* The buffer, the batches, the rows and the fates keep their types.
THEOREM ApiTypeCorrect ==
  ASSUME MaxFailures \in Nat PROVE Api!Spec => []Api!TypeOK
BY ApiTypeInit, ApiTypeStep, PTL DEF Api!Spec

\* However flushes overlap with each other and with new requests, an entry is
\* in exactly one place: the buffer, one batch, one row, or nowhere for a reason
\* the code accepts.
THEOREM StoredOnceCorrect ==
  ASSUME MaxFailures \in Nat PROVE Api!Spec => []Api!StoredOnce
<1>1. Api!Init => ApiInv
  BY ApiTypeInit DEF Api!Init, ApiInv, ApiDisjoint, ApiInOnePlace, ApiSaving
<1>2. ApiInv => Api!StoredOnce
  <2>1. SUFFICES ASSUME ApiInv, NEW e \in Entries
                 PROVE  stored[e] + Cardinality({batch \in saving : e \in batch})
                          + (IF e \in buffer THEN 1 ELSE 0)
                        = IF fate[e] = "kept" THEN 1 ELSE 0
    BY DEF Api!StoredOnce, Api!Cardinality, Cardinality
  <2>2. CASE ApiSaving(e)
    <3>1. PICK b \in saving : e \in b
      BY <2>2 DEF ApiSaving
    <3>2. {batch \in saving : e \in batch} = {b} /\ e \notin buffer
      BY <2>1, <3>1 DEF ApiInv, ApiDisjoint
    <3>3. Cardinality({b}) = 1
      BY FS_Singleton
    <3>4. Cardinality({batch \in saving : e \in batch}) = 1
      BY <3>2, <3>3
    <3>5. fate[e] = "kept" /\ stored[e] = 0
      BY <2>1, <2>2 DEF ApiInv, ApiInOnePlace
    <3>6. e \notin buffer
      BY <3>2
    <3>7. QED
      BY <3>4, <3>5, <3>6
  <2>3. CASE ~ ApiSaving(e)
    <3>1. {batch \in saving : e \in batch} = {}
      BY <2>3 DEF ApiSaving
    <3>2. Cardinality({}) = 0
      BY FS_EmptySet
    <3>3. QED
      BY <2>1, <2>3, <3>1, <3>2 DEF ApiInv, ApiInOnePlace
  <2>4. QED
    BY <2>2, <2>3
<1>3. QED
  BY <1>1, <1>2, ApiInvStep, PTL DEF Api!Spec

-----------------------------------------------------------------------------
(***************************************************************************)
(* Notices: pop-ups and their confirmations.                               *)
(***************************************************************************)
(***************************************************************************)
(* Types                                                                   *)
(***************************************************************************)
LEMMA NotTypeInit ==
  ASSUME MaxFailures \in Nat PROVE Not!Init => Not!TypeOK
<1> SUFFICES ASSUME Not!Init PROVE Not!TypeOK
  OBVIOUS
<1>1. [pc |-> "idle"] \in Not!Local
  BY DEF Not!Local
<1>2. QED
  BY <1>1 DEF Not!Init, Not!TypeOK

\* What a call has at hand.
LEMMA NotCallTypes ==
  ASSUME NEW c, call[c] \in Not!Local
  PROVE  /\ Not!At(c, "save") => call[c].notice \in Not!Notices /\ call[c].row \in Not!Pages
         /\ Not!At(c, "deleteConfirms") \/ Not!At(c, "remove") => call[c].notice \in Not!Notices
         /\ Not!At(c, "insert") => call[c].notice \in Not!Notices /\ call[c].user \in Users
         /\ Not!At(c, "query") => /\ call[c].user \in Users
                                  /\ call[c].known \subseteq Not!Notices
                                  /\ call[c].before \subseteq Not!Notices
BY DEF Not!Local, Not!At

LEMMA NotDoneType == Not!Done \in Not!Local
BY DEF Not!Done, Not!Local

\* A step that leaves one call with a local state of its type.
LEMMA NotSetType ==
  ASSUME Not!TypeOK, NEW c \in Calls, NEW local \in Not!Local, Not!Set(c, local)
  PROVE  call' \in [Calls -> Not!Local]
BY DEF Not!Set, Not!TypeOK

LEMMA NotTypeStep ==
  ASSUME MaxFailures \in Nat PROVE Not!TypeOK /\ [Not!Next]_(Not!vars) => Not!TypeOK'
<1> SUFFICES ASSUME Not!TypeOK, [Not!Next]_(Not!vars) PROVE Not!TypeOK'
  OBVIOUS
<1>0. \A c \in Calls : call[c] \in Not!Local
  BY DEF Not!TypeOK
<1>1. ASSUME NEW page \in Not!Pages, Not!CreateNotification(page) PROVE Not!TypeOK'
  BY <1>1 DEF Not!CreateNotification, Not!TypeOK
<1>2. ASSUME NEW c \in Calls, NEW n \in Not!Notices, NEW page \in Not!Pages,
             Not!UpdateNotification(c, n, page)
      PROVE  Not!TypeOK'
  <2>1. PICK row \in {notices[n], page} : Not!Set(c, [pc |-> "save", notice |-> n, row |-> row])
    BY <1>2 DEF Not!UpdateNotification
  <2>2. [pc |-> "save", notice |-> n, row |-> row] \in Not!Local
    BY <1>2 DEF Not!UpdateNotification, Not!Exists, Not!Local
  <2>3. call' \in [Calls -> Not!Local]
    BY <2>1, <2>2, NotSetType
  <2>4. QED
    BY <1>2, <2>3 DEF Not!UpdateNotification, Not!TypeOK
<1>3. ASSUME NEW c \in Calls, Not!SaveNotification(c) PROVE Not!TypeOK'
  <2>1. call[c].notice \in Not!Notices /\ call[c].row \in Not!Pages
    BY <1>0, <1>3, NotCallTypes DEF Not!SaveNotification
  <2>2. call' \in [Calls -> Not!Local]
    BY <1>3, NotDoneType, NotSetType DEF Not!SaveNotification
  <2>3. QED
    BY <1>3, <2>1, <2>2 DEF Not!SaveNotification, Not!TypeOK
<1>4. ASSUME NEW c \in Calls, NEW n \in Not!Notices, Not!DeleteNotification(c, n)
      PROVE Not!TypeOK'
  <2>1. [pc |-> "deleteConfirms", notice |-> n] \in Not!Local
    BY DEF Not!Local
  <2>2. call' \in [Calls -> Not!Local]
    BY <1>4, <2>1, NotSetType DEF Not!DeleteNotification
  <2>3. QED
    BY <1>4, <2>2 DEF Not!DeleteNotification, Not!TypeOK
<1>5. ASSUME NEW c \in Calls, Not!DeleteConfirms(c) PROVE Not!TypeOK'
  <2>1. call[c].notice \in Not!Notices
    BY <1>0, <1>5, NotCallTypes DEF Not!DeleteConfirms
  <2>2. [call[c] EXCEPT !.pc = "remove"] \in Not!Local
    BY <1>0, <1>5 DEF Not!DeleteConfirms, Not!At, Not!Local
  <2>3. call' \in [Calls -> Not!Local]
    BY <1>5, <2>2, NotSetType DEF Not!DeleteConfirms
  <2>4. QED
    BY <1>5, <2>1, <2>3 DEF Not!DeleteConfirms, Not!TypeOK
<1>6. ASSUME NEW c \in Calls, Not!RemoveNotification(c) PROVE Not!TypeOK'
  <2>1. call' \in [Calls -> Not!Local]
    BY <1>6, NotDoneType, NotSetType DEF Not!RemoveNotification
  <2>2. QED
    BY <1>6, <2>1 DEF Not!RemoveNotification, Not!TypeOK
<1>7. ASSUME NEW c \in Calls, NEW u \in Users, Not!GetPending(c, u) PROVE Not!TypeOK'
  <2>1. [pc |-> "query", user |-> u, known |-> Not!Of(u, confirms), before |-> Not!Of(u, settled)] \in Not!Local
    BY DEF Not!Local, Not!Of
  <2>2. call' \in [Calls -> Not!Local]
    BY <1>7, <2>1, NotSetType DEF Not!GetPending
  <2>3. QED
    BY <1>7, <2>2 DEF Not!GetPending, Not!TypeOK
<1>8. ASSUME NEW c \in Calls, Not!QueryPending(c) PROVE Not!TypeOK'
  <2>1. PICK n \in Not!Notices \cup {0} :
          Not!Set(c, [pc |-> "shown", user |-> call[c].user, notice |-> n,
          before |-> call[c].before])
    BY <1>8 DEF Not!QueryPending, Not!Pending
  <2>2. [pc |-> "shown", user |-> call[c].user, notice |-> n, before |-> call[c].before] \in Not!Local
    BY <1>0, <1>8, NotCallTypes DEF Not!QueryPending, Not!Local
  <2>3. call' \in [Calls -> Not!Local]
    BY <2>1, <2>2, NotSetType
  <2>4. QED
    BY <1>8, <2>3 DEF Not!QueryPending, Not!TypeOK
<1>9. ASSUME NEW c \in Calls, NEW n \in Not!Notices, NEW u \in Users,
             Not!ConfirmNotification(c, n, u)
      PROVE  Not!TypeOK'
  <2>1. [pc |-> "insert", notice |-> n, user |-> u] \in Not!Local
    BY DEF Not!Local
  <2>2. call' \in [Calls -> Not!Local]
    BY <1>9, <2>1, NotSetType DEF Not!ConfirmNotification
  <2>3. QED
    BY <1>9, <2>2 DEF Not!ConfirmNotification, Not!TypeOK
<1>10. ASSUME NEW c \in Calls, Not!InsertConfirm(c) PROVE Not!TypeOK'
  <2>1. call[c].notice \in Not!Notices /\ call[c].user \in Users
    BY <1>0, <1>10, NotCallTypes DEF Not!InsertConfirm
  <2>2. call' \in [Calls -> Not!Local]
    BY <1>10, NotDoneType, NotSetType DEF Not!InsertConfirm
  <2>3. QED
    BY <1>10, <2>1, <2>2 DEF Not!InsertConfirm, Not!TypeOK
<1>11. ASSUME NEW c \in Calls, Not!AwaitFails(c) PROVE Not!TypeOK'
  <2>1. call' \in [Calls -> Not!Local]
    BY <1>11, NotDoneType, NotSetType DEF Not!AwaitFails
  <2>2. failures' \in 0 .. MaxFailures
    BY <1>11 DEF Not!AwaitFails, Not!TypeOK
  <2>3. QED
    BY <1>11, <2>1, <2>2 DEF Not!AwaitFails, Not!TypeOK
<1>12. CASE UNCHANGED Not!vars
  BY <1>12 DEF Not!vars, Not!TypeOK
<1>13. QED
  BY <1>1, <1>2, <1>3, <1>4, <1>5, <1>6, <1>7, <1>8, <1>9, <1>10, <1>11, <1>12 DEF Not!Next

-----------------------------------------------------------------------------
(***************************************************************************)
(* Confirmations                                                           *)
(***************************************************************************)
\* A confirmation is only lost with its notice's; a query knows of those that were
\* there before it, and its answer is none of them.
Remembered ==
  /\ \A pair \in settled : pair \in confirms \/ pair[1] \in withdrawn
  /\ \A c \in Calls : /\ Not!At(c, "query") => call[c].before \subseteq call[c].known \cup withdrawn
                      /\ Not!At(c, "shown") => call[c].notice \notin call[c].before \ withdrawn

\* A step of one call that forgets no withdrawal and brings no answer.
LEMMA OthersRemember ==
  ASSUME Not!TypeOK, Remembered, withdrawn \subseteq withdrawn',
         NEW c \in Calls, NEW local, Not!Set(c, local),
         local.pc \notin {"query", "shown"},
         \A pair \in settled' : pair \in confirms' \/ pair[1] \in withdrawn'
  PROVE  Remembered'
<1>1. \A d \in Calls : call'[d] = IF d = c THEN local ELSE call[d]
  BY DEF Not!Set, Not!TypeOK
<1>2. QED
  BY <1>1 DEF Remembered, Not!At

LEMMA RememberedStep == Not!TypeOK /\ Remembered /\ [Not!Next]_(Not!vars) => Remembered'
<1> SUFFICES ASSUME Not!TypeOK, Remembered, [Not!Next]_(Not!vars) PROVE Remembered'
  OBVIOUS
<1>0. /\ \A pair \in settled : pair \in confirms \/ pair[1] \in withdrawn
      /\ \A c \in Calls : call[c] \in Not!Local
      /\ confirms \subseteq Not!Notices \X Users /\ settled \subseteq Not!Notices \X Users
  BY DEF Remembered, Not!TypeOK
<1>1. ASSUME NEW page \in Not!Pages, Not!CreateNotification(page) PROVE Remembered'
  BY <1>1 DEF Not!CreateNotification, Remembered, Not!At
<1>2. ASSUME NEW c \in Calls, NEW n \in Not!Notices, NEW page \in Not!Pages,
             Not!UpdateNotification(c, n, page)
      PROVE  Remembered'
  <2>1. PICK row : Not!Set(c, [pc |-> "save", notice |-> n, row |-> row])
    BY <1>2 DEF Not!UpdateNotification
  <2>2. QED
    BY <1>0, <1>2, <2>1, OthersRemember DEF Not!UpdateNotification
<1>3. ASSUME NEW c \in Calls,
             Not!SaveNotification(c) \/ Not!RemoveNotification(c) \/ Not!AwaitFails(c)
      PROVE  Remembered'
  BY <1>0, <1>3, OthersRemember DEF Not!SaveNotification, Not!RemoveNotification,
     Not!AwaitFails, Not!Done
<1>4. ASSUME NEW c \in Calls, NEW n \in Not!Notices, Not!DeleteNotification(c, n)
      PROVE Remembered'
  BY <1>0, <1>4, OthersRemember DEF Not!DeleteNotification
<1>5. ASSUME NEW c \in Calls, Not!DeleteConfirms(c) PROVE Remembered'
  <2>1. [call[c] EXCEPT !.pc = "remove"].pc = "remove"
    BY <1>0, <1>5 DEF Not!DeleteConfirms, Not!At, Not!Local
  <2>2. \A pair \in settled' : pair \in confirms' \/ pair[1] \in withdrawn'
    BY <1>0, <1>5 DEF Not!DeleteConfirms
  <2>3. QED
    BY <1>5, <2>1, <2>2, OthersRemember DEF Not!DeleteConfirms
<1>6. ASSUME NEW c \in Calls, NEW u \in Users, Not!GetPending(c, u) PROVE Remembered'
  <2>1. Not!Of(u, settled) \subseteq Not!Of(u, confirms) \cup withdrawn
    BY <1>0 DEF Not!Of
  <2>2. \A d \in Calls : call'[d] = IF d = c
          THEN [pc |-> "query", user |-> u, known |-> Not!Of(u, confirms), before |-> Not!Of(u, settled)]
          ELSE call[d]
    BY <1>6 DEF Not!GetPending, Not!Set, Not!TypeOK
  <2>3. QED
    BY <1>6, <2>1, <2>2 DEF Not!GetPending, Remembered, Not!At
<1>7. ASSUME NEW c \in Calls, Not!QueryPending(c) PROVE Remembered'
  <2>1. PICK n \in IF Not!Pending(call[c].known) = {} THEN {0} ELSE Not!Pending(call[c].known) :
          Not!Set(c, [pc |-> "shown", user |-> call[c].user, notice |-> n,
          before |-> call[c].before])
    BY <1>7 DEF Not!QueryPending
  <2>2. call[c].before \subseteq call[c].known \cup withdrawn /\ call[c].before \subseteq Not!Notices
    BY <1>0, <1>7, NotCallTypes DEF Not!QueryPending, Remembered
  <2>3. n \notin call[c].before \ withdrawn
    BY <2>1, <2>2 DEF Not!Pending, Not!Notices
  <2>4. \A d \in Calls : call'[d] = IF d = c
          THEN [pc |-> "shown", user |-> call[c].user, notice |-> n, before |-> call[c].before]
          ELSE call[d]
    BY <2>1 DEF Not!Set, Not!TypeOK
  <2>5. QED
    BY <1>7, <2>3, <2>4 DEF Not!QueryPending, Remembered, Not!At
<1>8. ASSUME NEW c \in Calls, NEW n \in Not!Notices, NEW u \in Users,
             Not!ConfirmNotification(c, n, u)
      PROVE  Remembered'
  BY <1>0, <1>8, OthersRemember DEF Not!ConfirmNotification
<1>9. ASSUME NEW c \in Calls, Not!InsertConfirm(c) PROVE Remembered'
  BY <1>0, <1>9, OthersRemember DEF Not!InsertConfirm, Not!Done
<1>10. CASE UNCHANGED Not!vars
  BY <1>10 DEF Not!vars, Remembered, Not!At
<1>11. QED
  BY <1>1, <1>2, <1>3, <1>4, <1>5, <1>6, <1>7, <1>8, <1>9, <1>10 DEF Not!Next

LEMMA RememberedInit == Not!Init => Remembered
BY DEF Not!Init, Remembered, Not!At

\* The tables and the calls keep their types.
THEOREM NotTypeCorrect == ASSUME MaxFailures \in Nat PROVE Not!Spec => []Not!TypeOK
BY NotTypeInit, NotTypeStep, PTL DEF Not!Spec

\* A notice that its user has confirmed does not pop up again, for any number of
\* notices, users and requests.
THEOREM ConfirmedNotPendingCorrect ==
  ASSUME MaxFailures \in Nat PROVE Not!Spec => []Not!ConfirmedNotPending
<1>1. Remembered => Not!ConfirmedNotPending
  BY DEF Remembered, Not!ConfirmedNotPending
<1>2. QED
  BY <1>1, NotTypeInit, NotTypeStep, RememberedInit, RememberedStep, PTL DEF Not!Spec

-----------------------------------------------------------------------------
(***************************************************************************)
(* Devices: login devices and the audit log.                               *)
(***************************************************************************)
(***************************************************************************)
(* Types                                                                   *)
(***************************************************************************)
LEMMA DevIdleTypes == Dev!NoRow \in Dev!Rows /\ Dev!Idle \in Dev!Local /\ Dev!Done \in Dev!Local
<1>1. Dev!NoRow \in Dev!Rows
  BY DEF Dev!NoRow, Dev!Rows
<1>2. QED
  BY <1>1 DEF Dev!Idle, Dev!Done, Dev!Local

LEMMA DevTypeInit ==
  ASSUME MaxFailures \in Nat PROVE Dev!Init => Dev!TypeOK
BY DevIdleTypes DEF Dev!Init, Dev!TypeOK

\* What a call and a row have at hand.
LEMMA DevCallTypes ==
  ASSUME Dev!TypeOK, NEW c \in Calls
  PROVE  /\ call[c] \in Dev!Local /\ call[c].pc \in {"idle", "save", "remove", "auditLogin", "auditLogout", "done"}
         /\ call[c].id \in Dev!RowIds \cup {0} /\ call[c].row \in Dev!Rows
         /\ call[c].row.device \in DeviceIds \cup {None}
<1>1. call[c] \in Dev!Local
  BY DEF Dev!TypeOK
<1>2. call[c].id \in Dev!RowIds \cup {0} /\ call[c].row \in Dev!Rows
  BY <1>1 DEF Dev!Local
<1>3. call[c].row.device \in DeviceIds \cup {None}
  BY <1>2 DEF Dev!Rows
<1>4. QED
  BY <1>1, <1>2, <1>3 DEF Dev!Local

\* A step that leaves one call with a local state of its type.
LEMMA DevSetType ==
  ASSUME Dev!TypeOK, NEW c \in Calls, NEW local \in Dev!Local,
         call' = [call EXCEPT ![c] = local]
  PROVE  call' \in [Calls -> Dev!Local]
BY DEF Dev!TypeOK

\* The step of a call to another program counter.
LEMMA DevGoType ==
  ASSUME Dev!TypeOK, NEW c \in Calls, NEW pc \in {"auditLogin", "auditLogout"},
         call' = [call EXCEPT ![c].pc = pc]
  PROVE  call' \in [Calls -> Dev!Local]
<1>1. [call[c] EXCEPT !.pc = pc] \in Dev!Local
  BY DevCallTypes DEF Dev!Local
<1>2. call' = [call EXCEPT ![c] = [call[c] EXCEPT !.pc = pc]]
  OBVIOUS
<1>3. QED
  BY <1>1, <1>2, DevSetType

LEMMA DevCountType ==
  ASSUME NEW f \in [Dev!Events -> Nat], NEW e
  PROVE  [f EXCEPT ![e] = @ + 1] \in [Dev!Events -> Nat]
<1>1. CASE e \in Dev!Events
  BY <1>1
<1>2. CASE e \notin Dev!Events
  BY <1>2
<1>3. QED
  BY <1>1, <1>2

LEMMA DevTypeStep ==
  ASSUME MaxFailures \in Nat PROVE Dev!TypeOK /\ [Dev!Next]_(Dev!vars) => Dev!TypeOK'
<1> SUFFICES ASSUME Dev!TypeOK, [Dev!Next]_(Dev!vars) PROVE Dev!TypeOK'
  OBVIOUS
<1>0. audit \in [Dev!Events -> Nat] /\ changes \in [Dev!Events -> Nat] /\ devices \in [Dev!RowIds -> Dev!Rows]
  BY DEF Dev!TypeOK
<1>1. ASSUME NEW c \in Calls, NEW d \in DeviceIds, Dev!AddDevice(c, d) PROVE Dev!TypeOK'
  <2> DEFINE row == [exists |-> TRUE, device |-> d, isCurrent |-> TRUE]
  <2>1. PICK i \in Dev!RowIds \cup {0} : call' = [call EXCEPT ![c] = [pc |-> "save", id |-> i, row |-> row]]
    BY <1>1 DEF Dev!AddDevice, Dev!RowsOf
  <2>2. row \in Dev!Rows
    BY DEF Dev!Rows
  <2> HIDE DEF row
  <2>3. [pc |-> "save", id |-> i, row |-> row] \in Dev!Local
    BY <2>2 DEF Dev!Local
  <2>4. call' \in [Calls -> Dev!Local]
    BY <2>1, <2>3, DevSetType
  <2>5. QED
    BY <1>1, <2>4 DEF Dev!AddDevice, Dev!TypeOK
<1>2. ASSUME NEW c \in Calls, NEW d \in DeviceIds, NEW claim, Dev!LogoutDevice(c, d, claim) PROVE Dev!TypeOK'
  <2>1. PICK i \in Dev!RowIds : call' = [call EXCEPT ![c] = [pc |-> "remove", id |-> i, row |-> devices[i]]]
    BY <1>2 DEF Dev!LogoutDevice, Dev!RowsOf
  <2>2. [pc |-> "remove", id |-> i, row |-> devices[i]] \in Dev!Local
    BY <1>0 DEF Dev!Local
  <2>3. call' \in [Calls -> Dev!Local]
    BY <2>1, <2>2, DevSetType
  <2>4. contested' \subseteq DeviceIds
    BY <1>2 DEF Dev!LogoutDevice, Dev!TypeOK
  <2>5. QED
    BY <1>2, <2>3, <2>4 DEF Dev!LogoutDevice, Dev!TypeOK
<1>3. ASSUME NEW c \in Calls, Dev!SaveDevice(c) PROVE Dev!TypeOK'
  <2>1. PICK i \in Dev!RowIds : devices' = [devices EXCEPT ![i] = call[c].row]
    BY <1>3, DevCallTypes DEF Dev!SaveDevice
  <2>2. devices' \in [Dev!RowIds -> Dev!Rows]
    BY <1>0, <2>1, DevCallTypes
  <2>3. changes' \in [Dev!Events -> Nat]
    BY <1>0, <1>3, DevCountType DEF Dev!SaveDevice
  <2>4. call' \in [Calls -> Dev!Local]
    BY <1>3, DevGoType DEF Dev!SaveDevice
  <2>5. QED
    BY <1>3, <2>2, <2>3, <2>4 DEF Dev!SaveDevice, Dev!TypeOK
<1>4. ASSUME NEW c \in Calls, Dev!RemoveDevice(c) PROVE Dev!TypeOK'
  <2>1. [devices[call[c].id] EXCEPT !.exists = FALSE] \in Dev!Rows \/ call[c].id \notin Dev!RowIds
    BY <1>0 DEF Dev!Rows
  <2>2. devices' \in [Dev!RowIds -> Dev!Rows]
    BY <1>0, <1>4, <2>1 DEF Dev!RemoveDevice
  <2>3. changes' \in [Dev!Events -> Nat]
    BY <1>0, <1>4, DevCountType DEF Dev!RemoveDevice
  <2>4. call' \in [Calls -> Dev!Local]
    BY <1>4, DevGoType DEF Dev!RemoveDevice
  <2>5. QED
    BY <1>4, <2>2, <2>3, <2>4 DEF Dev!RemoveDevice, Dev!TypeOK
<1>5. ASSUME NEW c \in Calls, Dev!AddAuditLog(c) PROVE Dev!TypeOK'
  <2>1. audit' \in [Dev!Events -> Nat]
    BY <1>0, <1>5, DevCountType DEF Dev!AddAuditLog
  <2>2. call' \in [Calls -> Dev!Local]
    BY <1>5, DevIdleTypes, DevSetType DEF Dev!AddAuditLog
  <2>3. QED
    BY <1>5, <2>1, <2>2 DEF Dev!AddAuditLog, Dev!TypeOK
<1>6. ASSUME NEW c \in Calls, Dev!AwaitFails(c) PROVE Dev!TypeOK'
  <2>1. failures' \in 0 .. MaxFailures
    BY <1>6 DEF Dev!AwaitFails, Dev!TypeOK
  <2>2. call' \in [Calls -> Dev!Local]
    BY <1>6, DevIdleTypes, DevSetType DEF Dev!AwaitFails
  <2>3. QED
    BY <1>6, <2>1, <2>2 DEF Dev!AwaitFails, Dev!TypeOK
<1>7. CASE UNCHANGED Dev!vars
  BY <1>7 DEF Dev!vars, Dev!TypeOK
<1>8. QED
  BY <1>1, <1>2, <1>3, <1>4, <1>5, <1>6, <1>7 DEF Dev!Next

-----------------------------------------------------------------------------
(***************************************************************************)
(* The audit log                                                           *)
(***************************************************************************)
\* What a call is about to tell: the name of an event and a device, or nothing.
ToTell(local) ==
  <<IF local.pc = "auditLogin" THEN "LOGIN"
    ELSE IF local.pc = "auditLogout" THEN "DEVICE_LOGOUT" ELSE "nothing", local.row.device>>

Telling(e) == {c \in Calls : ToTell(call[c]) = e}

\* Every change is told of, is about to be told of, or its call failed; and but
\* for contested devices, what is told or about to be told has changed something.
Accounted ==
  \A e \in Dev!Events :
    /\ e[2] \notin contested => audit[e] + Cardinality(Telling(e)) <= changes[e]
    /\ failures = 0 => changes[e] <= audit[e] + Cardinality(Telling(e))

\* The row a call holds is a row of its device, and no fresh one.
HoldsRowOf(c) ==
  LET row == devices[call[c].id]
  IN row.isCurrent /\ row.device = call[c].row.device

\* A row that a call is about to remove is there, unless two calls hold it.
Held ==
  /\ \A i \in Dev!RowIds : devices[i].exists => devices[i].isCurrent
  /\ \A c \in Calls :
       /\ call[c].pc = "save" => call[c].row.exists /\ call[c].row.isCurrent
       /\ call[c].pc = "save" /\ call[c].id # 0 => HoldsRowOf(c)
       /\ call[c].pc = "remove" =>
            /\ call[c].id \in Dev!RowIds /\ HoldsRowOf(c)
            /\ call[c].row.device \notin contested => devices[call[c].id].exists
  /\ \A c, d \in Calls :
       /\ call[c].pc = "remove" /\ call[d].pc = "remove" /\ c # d /\ call[c].id = call[d].id
       => call[c].row.device \in contested

LEMMA HeldInit == Dev!Init => Held
BY DEF Dev!Init, Held, Dev!Idle, Dev!NoRow

\* A step that leaves a call without a row, or without one that it will write.
LEMMA HeldLetGo ==
  ASSUME Dev!TypeOK, Held, NEW c \in Calls, NEW local, call' = [call EXCEPT ![c] = local],
         local.pc \notin {"save", "remove"}, devices' = devices, contested' = contested
  PROVE  Held'
<1>1. call'[c] = local /\ \A d \in Calls \ {c} : call'[d] = call[d]
  BY DEF Dev!TypeOK
<1>2. QED
  BY <1>1 DEF Held, HoldsRowOf

LEMMA HeldAdd ==
  ASSUME Dev!TypeOK, Held, NEW c \in Calls, NEW d \in DeviceIds, Dev!AddDevice(c, d)
  PROVE  Held'
<1> DEFINE row == [exists |-> TRUE, device |-> d, isCurrent |-> TRUE]
<1>1. PICK i \in Dev!RowIds \cup {0} :
        /\ call' = [call EXCEPT ![c] = [pc |-> "save", id |-> i, row |-> row]]
        /\ i # 0 => devices[i].exists /\ devices[i].device = d
  BY <1>1 DEF Dev!AddDevice, Dev!RowsOf, Dev!RowIds
<1>2. call'[c] = [pc |-> "save", id |-> i, row |-> row] /\ \A b \in Calls \ {c} : call'[b] = call[b]
  BY <1>1 DEF Dev!TypeOK
<1>3. row.exists /\ row.isCurrent /\ row.device = d
  OBVIOUS
<1> HIDE DEF row
<1>4. call'[c].pc = "save" /\ call'[c].id = i /\ call'[c].row = row
  BY <1>2
<1>5. devices' = devices /\ contested' = contested
  BY DEF Dev!AddDevice
<1>6. i # 0 => devices[i].isCurrent
  BY <1>1 DEF Held
<1>7. QED
  BY <1>1, <1>2, <1>3, <1>4, <1>5, <1>6 DEF Held, HoldsRowOf

LEMMA HeldLogout ==
  ASSUME Dev!TypeOK, Held, NEW c \in Calls, NEW d \in DeviceIds, NEW claim, Dev!LogoutDevice(c, d, claim)
  PROVE  Held'
<1>1. PICK i \in Dev!RowsOf(d) :
        /\ call' = [call EXCEPT ![c] = [pc |-> "remove", id |-> i, row |-> devices[i]]]
        /\ contested' = IF \E other \in Calls : Dev!At(other, "remove") /\ call[other].id = i
                        THEN contested \cup {d} ELSE contested
  BY DEF Dev!LogoutDevice
<1>2. i \in Dev!RowIds /\ devices[i].exists /\ devices[i].device = d
  BY <1>1 DEF Dev!RowsOf
<1>3. call'[c] = [pc |-> "remove", id |-> i, row |-> devices[i]]
      /\ \A b \in Calls \ {c} : call'[b] = call[b]
  BY <1>1 DEF Dev!TypeOK
<1>4. call'[c].pc = "remove" /\ call'[c].id = i /\ call'[c].row.device = d
  BY <1>2, <1>3
<1>5. devices' = devices /\ contested \subseteq contested'
  BY <1>1 DEF Dev!LogoutDevice
<1>6. \A b \in Calls \ {c} : call[b].pc = "remove" /\ call[b].id = i
                              => d \in contested' /\ call[b].row.device = d
  BY <1>1, <1>2 DEF Held, HoldsRowOf, Dev!At
<1>7. devices[i].isCurrent
  BY <1>2 DEF Held
<1>8. QED
  BY <1>2, <1>3, <1>4, <1>5, <1>6, <1>7 DEF Held, HoldsRowOf

\* A save writes a fresh row, or one of the same device.
LEMMA HeldSave ==
  ASSUME Dev!TypeOK, Held, NEW c \in Calls, Dev!SaveDevice(c)
  PROVE  Held'
<1>1. PICK i \in Dev!RowIds :
        /\ devices' = [devices EXCEPT ![i] = call[c].row]
        /\ devices[i] = Dev!NoRow \/ (call[c].id # 0 /\ i = call[c].id)
  BY DevCallTypes DEF Dev!SaveDevice
<1>2. call[c].pc = "save" /\ contested' = contested /\ call' = [call EXCEPT ![c].pc = "auditLogin"]
  BY DEF Dev!SaveDevice, Dev!At
<1>3. [call[c] EXCEPT !.pc = "auditLogin"].pc = "auditLogin"
  BY DevCallTypes DEF Dev!Local
<1>4. call'[c].pc = "auditLogin" /\ \A b \in Calls \ {c} : call'[b] = call[b]
  BY <1>2, <1>3 DEF Dev!TypeOK
<1>5. /\ devices'[i] = call[c].row /\ call[c].row.exists /\ call[c].row.isCurrent
      /\ \A j \in Dev!RowIds \ {i} : devices'[j] = devices[j]
  BY <1>1, <1>2 DEF Dev!TypeOK, Held
<1>6. ~devices[i].isCurrent \/ devices[i].device = call[c].row.device
  BY <1>1, <1>2 DEF Held, HoldsRowOf, Dev!NoRow
<1>7. \A b \in Calls \ {c} : call[b].pc \in {"save", "remove"} /\ call[b].id # 0 => HoldsRowOf(b)'
  <2> SUFFICES ASSUME NEW b \in Calls \ {c}, call[b].pc \in {"save", "remove"}, call[b].id # 0
               PROVE  devices'[call[b].id].isCurrent /\ devices'[call[b].id].device = call[b].row.device
    BY <1>4 DEF HoldsRowOf
  <2>1. HoldsRowOf(b) /\ call[b].id \in Dev!RowIds
    BY DevCallTypes DEF Held
  <2>2. QED
    BY <1>5, <1>6, <2>1 DEF HoldsRowOf
<1>8. ASSUME NEW b \in Calls, call'[b].pc = "remove"
      PROVE  /\ call'[b].id \in Dev!RowIds /\ HoldsRowOf(b)'
             /\ call'[b].row.device \notin contested => devices'[call'[b].id].exists
  <2>1. b # c /\ call[b].pc = "remove" /\ call[b].id \in Dev!RowIds /\ call'[b] = call[b]
    BY <1>4, <1>8 DEF Held
  <2>2. call[b].id # 0
    BY <2>1 DEF Dev!RowIds
  <2>3. HoldsRowOf(b)'
    BY <1>7, <2>1, <2>2
  <2>4. call[b].row.device \notin contested => devices[call[b].id].exists
    BY <2>1 DEF Held
  <2>5. QED
    BY <1>5, <2>1, <2>3, <2>4
<1>9. ASSUME NEW b \in Calls, call'[b].pc = "save"
      PROVE  /\ call'[b].row.exists /\ call'[b].row.isCurrent
             /\ call'[b].id # 0 => HoldsRowOf(b)'
  BY <1>4, <1>7, <1>9 DEF Held
<1>10. \A j \in Dev!RowIds : devices'[j].exists => devices'[j].isCurrent
  BY <1>5 DEF Held
<1>11. ASSUME NEW b \in Calls, NEW d \in Calls, call'[b].pc = "remove", call'[d].pc = "remove", b # d,
              call'[b].id = call'[d].id
       PROVE  call'[b].row.device \in contested
  <2>1. b # c /\ d # c
    BY <1>4, <1>11
  <2>2. call'[b] = call[b] /\ call'[d] = call[d]
    BY <1>4, <2>1
  <2>3. QED
    BY <1>11, <2>2 DEF Held
<1>12. QED
  BY <1>2, <1>8, <1>9, <1>10, <1>11 DEF Held

LEMMA HeldRemove ==
  ASSUME Dev!TypeOK, Held, NEW c \in Calls, Dev!RemoveDevice(c)
  PROVE  Held'
<1>1. PICK i \in Dev!RowIds : i = call[c].id
  BY DEF Dev!RemoveDevice, Dev!At, Held
<1>2. /\ call[c].pc = "remove" /\ contested' = contested
      /\ devices' = [devices EXCEPT ![i].exists = FALSE]
      /\ call' = [call EXCEPT ![c].pc = "auditLogout"]
  BY <1>1 DEF Dev!RemoveDevice, Dev!At
<1>3. [call[c] EXCEPT !.pc = "auditLogout"].pc = "auditLogout"
  BY DevCallTypes DEF Dev!Local
<1>4. call'[c].pc = "auditLogout" /\ \A b \in Calls \ {c} : call'[b] = call[b]
  BY <1>2, <1>3 DEF Dev!TypeOK
<1>5. /\ devices'[i] = [devices[i] EXCEPT !.exists = FALSE]
      /\ \A j \in Dev!RowIds \ {i} : devices'[j] = devices[j]
  BY <1>2 DEF Dev!TypeOK
<1>6. /\ devices'[i].isCurrent = devices[i].isCurrent /\ devices'[i].device = devices[i].device
      /\ devices'[i].exists = FALSE
  <2>1. devices[i] \in Dev!Rows
    BY DEF Dev!TypeOK
  <2>2. QED
    BY <1>5, <2>1 DEF Dev!Rows
<1>7. ASSUME NEW b \in Calls, b # c, call[b].id \in Dev!RowIds, HoldsRowOf(b) PROVE HoldsRowOf(b)'
  <2>1. call'[b] = call[b]
    BY <1>4, <1>7
  <2>2. /\ devices'[call[b].id].isCurrent = devices[call[b].id].isCurrent
        /\ devices'[call[b].id].device = devices[call[b].id].device
    BY <1>5, <1>6, <1>7
  <2>3. QED
    BY <1>7, <2>1, <2>2 DEF HoldsRowOf
<1>8. ASSUME NEW b \in Calls, call'[b].pc = "remove"
      PROVE  /\ call'[b].id \in Dev!RowIds /\ HoldsRowOf(b)'
             /\ call'[b].row.device \notin contested => devices'[call'[b].id].exists
  <2>1. b # c /\ call'[b] = call[b]
    BY <1>4, <1>8
  <2>2. call[b].pc = "remove" /\ call[b].id \in Dev!RowIds /\ HoldsRowOf(b)
    BY <1>8, <2>1 DEF Held
  <2>3. call[b].row.device \notin contested => call[b].id # i /\ devices[call[b].id].exists
    BY <1>1, <1>2, <2>1, <2>2 DEF Held
  <2>4. QED
    BY <1>5, <1>7, <2>1, <2>2, <2>3
<1>9. ASSUME NEW b \in Calls, call'[b].pc = "save"
      PROVE  /\ call'[b].row.exists /\ call'[b].row.isCurrent
             /\ call'[b].id # 0 => HoldsRowOf(b)'
  <2>1. b # c /\ call'[b] = call[b]
    BY <1>4, <1>9
  <2>2. QED
    BY <1>7, <1>9, <2>1, DevCallTypes DEF Held
<1>10. \A j \in Dev!RowIds : devices'[j].exists => devices'[j].isCurrent
  BY <1>5, <1>6 DEF Held
<1>11. ASSUME NEW b \in Calls, NEW d \in Calls, call'[b].pc = "remove", call'[d].pc = "remove", b # d,
              call'[b].id = call'[d].id
       PROVE  call'[b].row.device \in contested
  <2>1. b # c /\ d # c
    BY <1>4, <1>11
  <2>2. call'[b] = call[b] /\ call'[d] = call[d]
    BY <1>4, <2>1
  <2>3. QED
    BY <1>11, <2>2 DEF Held
<1>12. QED
  BY <1>2, <1>8, <1>9, <1>10, <1>11 DEF Held

LEMMA HeldStep == Dev!TypeOK /\ Held /\ [Dev!Next]_(Dev!vars) => Held'
<1> SUFFICES ASSUME Dev!TypeOK, Held, [Dev!Next]_(Dev!vars) PROVE Held'
  OBVIOUS
<1>1. ASSUME NEW c \in Calls, Dev!AddAuditLog(c) \/ Dev!AwaitFails(c) PROVE Held'
  <2>1. Dev!Done.pc = "done"
    BY DEF Dev!Done, Dev!Idle
  <2>2. QED
    BY <1>1, <2>1, HeldLetGo DEF Dev!AddAuditLog, Dev!AwaitFails
<1>2. CASE UNCHANGED Dev!vars
  BY <1>2 DEF Dev!vars, Held, HoldsRowOf
<1>3. QED
  BY <1>1, <1>2, HeldAdd, HeldLogout, HeldSave, HeldRemove DEF Dev!Next

LEMMA NothingToTell ==
  ASSUME NEW e \in Dev!Events, NEW local, local.pc \notin {"auditLogin", "auditLogout"}
  PROVE  ToTell(local) # e
<1>1. e[1] # "nothing"
  BY DEF Dev!Events
<1>2. ToTell(local)[1] = "nothing"
  BY DEF ToTell
<1>3. QED
  BY <1>1, <1>2

LEMMA TellingFinite ==
  ASSUME IsFiniteSet(Calls), NEW e
  PROVE  /\ IsFiniteSet(Telling(e)) /\ Cardinality(Telling(e)) \in Nat
         /\ IsFiniteSet(Telling(e)') /\ Cardinality(Telling(e)') \in Nat
BY FS_Subset, FS_CardinalityType DEF Telling

LEMMA AccountedInit == Dev!Init => Accounted
<1> SUFFICES ASSUME Dev!Init, NEW e \in Dev!Events
         PROVE audit[e] + Cardinality(Telling(e)) = changes[e] /\ audit[e] + Cardinality(Telling(e)) \in Nat
  BY DEF Accounted, Dev!Init
<1>1. Telling(e) = {}
  BY NothingToTell DEF Dev!Init, Telling, Dev!Idle
<1>2. QED
  BY <1>1, FS_EmptySet DEF Dev!Init

\* The number of calls about to tell of an event, after the step of one of them.
LEMMA TellingStep ==
  ASSUME IsFiniteSet(Calls), Dev!TypeOK, NEW c \in Calls, NEW local,
         call' = [call EXCEPT ![c] = local], NEW e
  PROVE  Cardinality(Telling(e)') = Cardinality(Telling(e))
           + (IF ToTell(local) = e THEN 1 ELSE 0) - (IF ToTell(call[c]) = e THEN 1 ELSE 0)
<1>1. \A d \in Calls : call'[d] = IF d = c THEN local ELSE call[d]
  BY DEF Dev!TypeOK
<1>2. CASE ToTell(local) = e /\ ToTell(call[c]) # e
  <2>1. Telling(e)' = Telling(e) \cup {c} /\ c \notin Telling(e)
    BY <1>1, <1>2 DEF Telling
  <2>2. Cardinality(Telling(e) \cup {c}) = Cardinality(Telling(e)) + 1
    BY <2>1, TellingFinite, FS_AddElement
  <2>3. Cardinality(Telling(e)') = Cardinality(Telling(e)) + 1
    BY <2>1, <2>2
  <2>4. QED
    BY <1>2, <2>3, TellingFinite
<1>3. CASE ToTell(local) # e /\ ToTell(call[c]) = e
  <2>1. Telling(e)' = Telling(e) \ {c} /\ c \in Telling(e)
    BY <1>1, <1>3 DEF Telling
  <2>2. Cardinality(Telling(e) \ {c}) = Cardinality(Telling(e)) - 1
    BY <2>1, TellingFinite, FS_RemoveElement
  <2>3. Cardinality(Telling(e)') = Cardinality(Telling(e)) - 1
    BY <2>1, <2>2
  <2>4. QED
    BY <1>3, <2>3, TellingFinite
<1>4. CASE (ToTell(local) = e) <=> (ToTell(call[c]) = e)
  <2>1. Telling(e)' = Telling(e)
    BY <1>1, <1>4 DEF Telling
  <2>2. QED
    BY <1>4, <2>1, TellingFinite
<1>5. QED
  BY <1>2, <1>3, <1>4

\* A step of a call that changes nothing and is told of nothing.
LEMMA QuietlyAccounted ==
  ASSUME IsFiniteSet(Calls), Dev!TypeOK, Accounted, NEW c \in Calls, NEW local,
         call' = [call EXCEPT ![c] = local],
         local.pc \notin {"auditLogin", "auditLogout"},
         audit' = audit, changes' = changes, contested \subseteq contested',
         call[c].pc \in {"auditLogin", "auditLogout"} => failures' # 0,
         failures' = 0 => failures = 0
  PROVE  Accounted'
<1> SUFFICES ASSUME NEW e \in Dev!Events
             PROVE  /\ e[2] \notin contested' => audit[e] + Cardinality(Telling(e)') <= changes[e]
                    /\ failures' = 0 => changes[e] <= audit[e] + Cardinality(Telling(e)')
  BY DEF Accounted
<1>1. audit[e] \in Nat /\ changes[e] \in Nat
  BY DEF Dev!TypeOK
<1>2. Cardinality(Telling(e)') = Cardinality(Telling(e)) - (IF ToTell(call[c]) = e THEN 1 ELSE 0)
  <2>1. ToTell(local) # e
    BY NothingToTell
  <2>2. Cardinality(Telling(e)') = Cardinality(Telling(e))
          + (IF ToTell(local) = e THEN 1 ELSE 0) - (IF ToTell(call[c]) = e THEN 1 ELSE 0)
    BY TellingStep
  <2>3. QED
    BY <2>1, <2>2, TellingFinite
<1>3. failures' = 0 => ToTell(call[c]) # e
  BY NothingToTell
<1>4. QED
  BY <1>1, <1>2, <1>3, TellingFinite DEF Accounted

\* A change, or a removal of a contested device that removed nothing, by a call
\* that goes on to tell of it.
LEMMA ChangeAccounted ==
  ASSUME IsFiniteSet(Calls), Dev!TypeOK, Accounted, NEW c \in Calls, NEW pc \in {"auditLogin",
         "auditLogout"},
         call[c].pc \notin {"auditLogin", "auditLogout"},
         call' = [call EXCEPT ![c].pc = pc],
         audit' = audit, failures' = failures, contested' = contested,
         \/ changes' = [changes EXCEPT ![<<IF pc = "auditLogin" THEN "LOGIN" ELSE "DEVICE_LOGOUT",
                                           call[c].row.device>>] = @ + 1]
         \/ changes' = changes /\ call[c].row.device \in contested
  PROVE  Accounted'
<1> DEFINE local == [call[c] EXCEPT !.pc = pc]
           told == <<IF pc = "auditLogin" THEN "LOGIN" ELSE "DEVICE_LOGOUT", call[c].row.device>>
<1> SUFFICES ASSUME NEW e \in Dev!Events
             PROVE  /\ e[2] \notin contested => audit[e] + Cardinality(Telling(e)') <= changes'[e]
                    /\ failures = 0 => changes'[e] <= audit[e] + Cardinality(Telling(e)')
  BY DEF Accounted
<1>0. audit[e] \in Nat /\ changes[e] \in Nat /\ changes \in [Dev!Events -> Nat]
  BY DEF Dev!TypeOK
<1>1. call' = [call EXCEPT ![c] = local]
  OBVIOUS
<1>2. local.pc = pc /\ local.row = call[c].row
  BY DevCallTypes DEF Dev!Local
<1>3. ToTell(local) = told
  BY <1>2 DEF ToTell
<1>4. \/ changes'[e] = changes[e] + (IF told = e THEN 1 ELSE 0)
      \/ changes'[e] = changes[e] /\ (told = e => e[2] \in contested)
  BY <1>0
<1> HIDE DEF local, told
<1>5. Cardinality(Telling(e)') = Cardinality(Telling(e)) + (IF told = e THEN 1 ELSE 0)
  <2>1. ToTell(call[c]) # e
    BY NothingToTell
  <2>2. Cardinality(Telling(e)') = Cardinality(Telling(e))
          + (IF ToTell(local) = e THEN 1 ELSE 0) - (IF ToTell(call[c]) = e THEN 1 ELSE 0)
    BY <1>1, TellingStep
  <2>3. Cardinality(Telling(e)) \in Nat
    BY TellingFinite
  <2>4. QED
    BY <1>3, <2>1, <2>2, <2>3
<1>6. QED
  BY <1>0, <1>4, <1>5, TellingFinite DEF Accounted

LEMMA AccountedStep ==
  ASSUME IsFiniteSet(Calls), MaxFailures \in Nat
  PROVE  Dev!TypeOK /\ Held /\ Accounted /\ [Dev!Next]_(Dev!vars) => Accounted'
<1> SUFFICES ASSUME Dev!TypeOK, Held, Accounted, [Dev!Next]_(Dev!vars) PROVE Accounted'
  OBVIOUS
<1>1. ASSUME NEW c \in Calls, NEW d \in DeviceIds, Dev!AddDevice(c, d) PROVE Accounted'
  <2>1. PICK i, row : call' = [call EXCEPT ![c] = [pc |-> "save", id |-> i, row |-> row]]
    BY <1>1 DEF Dev!AddDevice
  <2>2. QED
    BY <1>1, <2>1, QuietlyAccounted DEF Dev!AddDevice, Dev!At
<1>2. ASSUME NEW c \in Calls, NEW d, NEW claim, Dev!LogoutDevice(c, d, claim) PROVE Accounted'
  <2>1. PICK i : call' = [call EXCEPT ![c] = [pc |-> "remove", id |-> i, row |-> devices[i]]]
    BY <1>2 DEF Dev!LogoutDevice
  <2>2. QED
    BY <1>2, <2>1, QuietlyAccounted DEF Dev!LogoutDevice, Dev!At
<1>3. ASSUME NEW c \in Calls, Dev!SaveDevice(c) PROVE Accounted'
  BY <1>3, ChangeAccounted DEF Dev!SaveDevice, Dev!At
<1>4. ASSUME NEW c \in Calls, Dev!RemoveDevice(c) PROVE Accounted'
  <2>1. devices[call[c].id].exists \/ call[c].row.device \in contested
    BY <1>4 DEF Held, Dev!RemoveDevice, Dev!At
  <2>2. QED
    BY <1>4, <2>1, ChangeAccounted DEF Dev!RemoveDevice, Dev!At
<1>5. ASSUME NEW c \in Calls, Dev!AddAuditLog(c) PROVE Accounted'
  <2> SUFFICES ASSUME NEW e \in Dev!Events
               PROVE  /\ e[2] \notin contested => audit'[e] + Cardinality(Telling(e)') <= changes[e]
                      /\ failures = 0 => changes[e] <= audit'[e] + Cardinality(Telling(e)')
    BY <1>5 DEF Accounted, Dev!AddAuditLog
  <2>1. audit \in [Dev!Events -> Nat] /\ changes[e] \in Nat /\ audit[e] \in Nat
    BY DEF Dev!TypeOK
  <2>2. audit' = [audit EXCEPT ![ToTell(call[c])] = @ + 1]
    BY <1>5 DEF Dev!AddAuditLog, Dev!At, ToTell
  <2>3. audit'[e] = audit[e] + (IF ToTell(call[c]) = e THEN 1 ELSE 0)
    BY <2>1, <2>2
  <2>4. Dev!Done.pc = "done"
    BY DEF Dev!Done, Dev!Idle
  <2>5. Cardinality(Telling(e)') = Cardinality(Telling(e)) - (IF ToTell(call[c]) = e THEN 1 ELSE 0)
    <3>1. ToTell(Dev!Done) # e
      BY <2>4, NothingToTell
    <3>2. call' = [call EXCEPT ![c] = Dev!Done]
      BY <1>5 DEF Dev!AddAuditLog
    <3>3. Cardinality(Telling(e)') = Cardinality(Telling(e))
            + (IF ToTell(Dev!Done) = e THEN 1 ELSE 0) - (IF ToTell(call[c]) = e THEN 1 ELSE 0)
      BY <3>2, TellingStep
    <3>4. QED
      BY <3>1, <3>3, TellingFinite
  <2>6. QED
    BY <2>1, <2>3, <2>5, TellingFinite DEF Accounted
<1>6. ASSUME NEW c \in Calls, Dev!AwaitFails(c) PROVE Accounted'
  <2>1. Dev!Done.pc = "done"
    BY DEF Dev!Done, Dev!Idle
  <2>2. failures' # 0
    BY <1>6 DEF Dev!AwaitFails, Dev!TypeOK
  <2>3. QED
    BY <1>6, <2>1, <2>2, QuietlyAccounted DEF Dev!AwaitFails
<1>7. CASE UNCHANGED Dev!vars
  BY <1>7 DEF Dev!vars, Accounted, Telling
<1>8. QED
  BY <1>1, <1>2, <1>3, <1>4, <1>5, <1>6, <1>7 DEF Dev!Next

\* The tables and the calls keep their types.
THEOREM DevTypeCorrect == ASSUME MaxFailures \in Nat PROVE Dev!Spec => []Dev!TypeOK
BY DevTypeInit, DevTypeStep, PTL DEF Dev!Spec

\* The audit log tells of each removal of a login device's row once, unless two
\* calls held the row at once: for any number of calls, devices and rows.
THEOREM AuditIsTrueCorrect ==
  ASSUME IsFiniteSet(Calls), MaxFailures \in Nat PROVE Dev!Spec => []Dev!AuditIsTrue
<1>1. Dev!TypeOK /\ Accounted => Dev!AuditIsTrue
  <2> SUFFICES ASSUME Dev!TypeOK, Accounted PROVE Dev!AuditIsTrue
    OBVIOUS
  <2>1. \A e \in Dev!Events : audit[e] \in Nat /\ changes[e] \in Nat /\ Cardinality(Telling(e)) \in Nat
    BY TellingFinite DEF Dev!TypeOK
  <2>2. \A e \in Dev!Events : e[2] \notin contested => audit[e] <= changes[e]
    BY <2>1 DEF Accounted
  <2>3. ASSUME failures = 0, \A c \in Calls : call[c].pc \in {"idle", "done"}
        PROVE \A e \in Dev!Events : changes[e] <= audit[e]
    <3>1. \A e \in Dev!Events : Telling(e) = {}
      BY <2>3, NothingToTell DEF Telling
    <3>2. \A e \in Dev!Events : Cardinality(Telling(e)) = 0
      BY <3>1, FS_EmptySet
    <3>3. QED
      BY <2>1, <2>3, <3>2 DEF Accounted
  <2>4. QED
    BY <2>2, <2>3 DEF Dev!AuditIsTrue
<1>2. QED
  BY <1>1, DevTypeInit, DevTypeStep, HeldInit, HeldStep, AccountedInit, AccountedStep, PTL DEF Dev!Spec

-----------------------------------------------------------------------------
(***************************************************************************)
(* Catalogue: urls of pictures and the domain in front of them.            *)
(***************************************************************************)

\* What the update of the storage settings may hold: any text.
SettingsWellFormed ==
  \A body \in Settings :
    \A f \in DOMAIN body : /\ f = "provider" => body[f] \in {"local", "oss"}
                           /\ f \in Cat!TextFields => body[f] \in Cat!Texts

\* Only banners store a picture as it is shown, and only member levels show a
\* promise.
LEMMA ServiceTable ==
  ASSUME NEW k \in Cat!Kinds, k \notin {"banner", "memberLevel"}
  PROVE  Cat!Services[k].update # "resolved" /\ Cat!Services[k].shows = "url"
<1>1. Cat!Kinds = {"banner", "quickNav", "rule", "paymentMethod", "memberLevel", "image", "systemConfig"}
  BY DEF Cat!Kinds, Cat!Services
<1>2. /\ Cat!Services["quickNav"] = Cat!QuickNav /\ Cat!Services["rule"] = Cat!Rule
      /\ Cat!Services["paymentMethod"] = Cat!PaymentMethod /\ Cat!Services["image"] = Cat!Image
      /\ Cat!Services["systemConfig"] = Cat!SystemConfig
  BY DEF Cat!Services
<1>3. k \in {"quickNav", "rule", "paymentMethod", "image", "systemConfig"}
  BY <1>1
<1>4. QED
  BY <1>2, <1>3 DEF Cat!QuickNav, Cat!Rule, Cat!PaymentMethod, Cat!Image, Cat!SystemConfig

\* What resolving and normalising a picture give.
LEMMA TextType ==
  ASSUME NEW scheme \in BOOLEAN, NEW slash \in BOOLEAN, NEW parts \in Seq(Cat!Segments)
  PROVE  [scheme |-> scheme, slash |-> slash, parts |-> parts] \in Cat!Texts
BY DEF Cat!Texts

LEMMA SegmentsHold ==
  /\ Files \subseteq Cat!Segments
  /\ Cat!Broken \in Cat!Segments /\ Cat!Folder \in Cat!Segments
  /\ "https:" \in Cat!Segments /\ Cat!Blank \in Cat!Segments
<1> DEFINE given == UNION {UNION {Cat!PartsOf(body[f]) : f \in Cat!TextFields \cap DOMAIN body} :
                             body \in Settings}
<1>1. Cat!Segments = Files \cup {Cat!Broken, Cat!Folder, "https:", Cat!Blank} \cup given
  BY DEF Cat!Segments
<1> HIDE DEF given
<1>2. QED
  BY <1>1

LEMMA UrlTypes ==
  /\ Cat!Empty \in Cat!Texts /\ Cat!Promised \in Cat!Texts
  /\ \A file \in Files : Cat!Uploaded(file) \in Cat!Texts
  /\ \A url \in Cat!Texts : Cat!Normalized(url) \in Cat!Texts
<1>1. <<>> \in Seq(Cat!Segments) /\ <<Cat!Broken>> \in Seq(Cat!Segments)
  BY SegmentsHold
<1>2. ASSUME NEW file \in Files PROVE <<Cat!Folder, file>> \in Seq(Cat!Segments)
  BY SegmentsHold
<1>3. ASSUME NEW url \in Cat!Texts PROVE Cat!Normalized(url) \in Cat!Texts
  <2>1. ASSUME NEW from \in {2, 3} PROVE SubSeq(url.parts, from, Len(url.parts)) \in Seq(Cat!Segments)
    <3>1. PICK parts \in Seq(Cat!Segments) : parts = url.parts
      BY DEF Cat!Texts
    <3>2. \A i \in from .. Len(parts) : parts[i] \in Cat!Segments
      BY <3>1
    <3>3. QED
      BY <3>1, <3>2
  <2>2. QED
    BY <2>1, TextType DEF Cat!Normalized
<1>4. QED
  BY <1>1, <1>2, <1>3, TextType DEF Cat!Empty, Cat!Promised, Cat!Uploaded

LEMMA BaseType == ASSUME NEW row \in Cat!Configs PROVE Cat!Base(row) \in Cat!Texts
<1>1. /\ row.localBaseUrl \in Cat!Texts /\ row.ossCdnDomain \in Cat!Texts
      /\ row.ossEndpoint \in Cat!Texts /\ row.ossBucket \in Cat!Texts
  BY DEF Cat!Configs
<1>2. Cat!OfBucket(row.ossBucket) \in Cat!Texts
  <2>1. <<"https:", Cat!Blank>> \in Seq(Cat!Segments) /\ <<>> \in Seq(Cat!Segments)
    BY SegmentsHold
  <2>2. row.ossBucket.parts \in Seq(Cat!Segments)
    BY <1>1 DEF Cat!Texts
  <2>3. (IF row.ossBucket.scheme THEN <<"https:", Cat!Blank>> ELSE <<>>) \o row.ossBucket.parts \in Seq(Cat!Segments)
    BY <2>1, <2>2
  <2>4. QED
    BY <2>3, TextType DEF Cat!OfBucket
<1>3. QED
  BY <1>1, <1>2, UrlTypes DEF Cat!Base

LEMMA DefaultsType == Cat!Defaults \in Cat!Configs
BY UrlTypes DEF Cat!Defaults, Cat!Configs

LEMMA ResolvedType ==
  ASSUME NEW url \in Cat!Texts, NEW row \in Cat!Configs PROVE Cat!Resolved(url, row) \in Cat!Texts
<1>1. PICK base \in Cat!Texts : base = Cat!Base(row)
  BY BaseType
<1>2. [url EXCEPT !.slash = (row.provider = "local")] \in Cat!Texts
  BY DEF Cat!Texts
<1>3. [base EXCEPT !.parts = @ \o url.parts] \in Cat!Texts
  <2>1. base.parts \o url.parts \in Seq(Cat!Segments)
    BY DEF Cat!Texts
  <2>2. QED
    BY <2>1 DEF Cat!Texts
<1>4. QED
  BY <1>1, <1>2, <1>3 DEF Cat!Resolved

-----------------------------------------------------------------------------
(***************************************************************************)
(* Types                                                                   *)
(***************************************************************************)
LEMMA CatTypeInit ==
  ASSUME MaxFailures \in Nat PROVE Cat!Init => Cat!TypeOK
<1> SUFFICES ASSUME Cat!Init PROVE Cat!TypeOK
  OBVIOUS
<1>1. [at |-> "idle"] \in Cat!Local
  BY DEF Cat!Local
<1>2. [row |-> "live", url |-> Cat!Empty] \in Cat!Pictures /\ [row |-> Cat!Absent] \in Cat!Pictures
  BY UrlTypes DEF Cat!Pictures
<1>3. rows \in [Ids -> Cat!Pictures]
  BY <1>2 DEF Cat!Init
<1>4. QED
  BY <1>1, <1>3 DEF Cat!Init, Cat!TypeOK

\* What a call and a row have at hand.
LEMMA CatCallTypes ==
  ASSUME NEW c, call[c] \in Cat!Local
  PROVE  /\ Cat!At(c, "resolve") \/ Cat!At(c, "insertConfig") =>
              call[c].then \in {"form", "save"} /\ call[c].id \in Ids /\ call[c].url \in Cat!Texts
         /\ Cat!At(c, "form") \/ Cat!At(c, "save") => call[c].id \in Ids /\ call[c].url \in Cat!Texts
         /\ Cat!At(c, "remove") => call[c].id \in Ids
         /\ Cat!At(c, "saveSettings") => call[c].row \in Cat!Configs \cup {Cat!NoConfig}
BY DEF Cat!Local, Cat!At

LEMMA RowTypes ==
  ASSUME NEW id, rows[id] \in Cat!Pictures, Cat!Live(id) PROVE rows[id].url \in Cat!Texts
BY DEF Cat!Pictures, Cat!Live, Cat!Absent, Cat!Gone

\* A step that leaves one call with a local state of its type.
LEMMA CatSetType ==
  ASSUME Cat!TypeOK, NEW c \in Calls, NEW local \in Cat!Local, Cat!Set(c, local)
  PROVE  call' \in [Calls -> Cat!Local]
BY DEF Cat!Set, Cat!TypeOK

LEMMA CatDoneType == Cat!Done \in Cat!Local
BY DEF Cat!Done, Cat!Local

LEMMA ContinueType ==
  ASSUME Cat!TypeOK, NEW c \in Calls, NEW url \in Cat!Texts, Cat!Continue(c, url),
         Cat!At(c, "resolve") \/ Cat!At(c, "insertConfig")
  PROVE  call' \in [Calls -> Cat!Local]
<1>1. call[c] \in Cat!Local
  BY DEF Cat!TypeOK
<1>2. call[c].then \in {"form", "save"} /\ call[c].id \in Ids
  BY <1>1, CatCallTypes
<1>3. [at |-> call[c].then, id |-> call[c].id, url |-> url] \in Cat!Local
  BY <1>2 DEF Cat!Local
<1>4. QED
  BY <1>3, CatSetType DEF Cat!Continue

LEMMA StoreType ==
  ASSUME Cat!TypeOK, NEW id \in Ids, NEW url \in Cat!Texts, Cat!Store(id, url)
  PROVE  rows' \in [Ids -> Cat!Pictures]
<1>1. [row |-> "live", url |-> url] \in Cat!Pictures
  BY DEF Cat!Pictures
<1>2. QED
  BY <1>1 DEF Cat!Store, Cat!TypeOK

LEMMA StoredDefaultsType ==
  ASSUME Cat!TypeOK PROVE Cat!StoredDefaults \in Cat!Configs
<1>1. CASE config = Cat!NoConfig
  BY <1>1, DefaultsType DEF Cat!StoredDefaults
<1>2. CASE config # Cat!NoConfig
  <2>1. config \in Cat!Configs
    BY <1>2 DEF Cat!TypeOK
  <2>2. [config EXCEPT !.provider = "local"] \in Cat!Configs
    BY <2>1 DEF Cat!Configs
  <2>3. QED
    BY <1>2, <2>2 DEF Cat!StoredDefaults
<1>3. QED
  BY <1>1, <1>2

\* The row that an update of the settings saves.
SavedBody(row, body) == [f \in DOMAIN row |-> IF f \in DOMAIN body THEN body[f] ELSE row[f]]

LEMMA SaveSettingsSaves ==
  ASSUME Cat!TypeOK, NEW c \in Calls, Cat!SaveSettings(c)
  PROVE  \E row \in Cat!Configs, body \in Settings :
           /\ config' = SavedBody(row, body)
           /\ row = IF call[c].row = Cat!NoConfig THEN Cat!StoredDefaults ELSE call[c].row
<1>1. call[c] \in Cat!Local /\ Cat!At(c, "saveSettings")
  BY DEF Cat!TypeOK, Cat!SaveSettings
<1>2. call[c].row \in Cat!Configs \cup {Cat!NoConfig}
  BY <1>1, CatCallTypes
<1>3. PICK row \in Cat!Configs : row = IF call[c].row = Cat!NoConfig THEN Cat!StoredDefaults ELSE call[c].row
  BY <1>2, StoredDefaultsType
<1>4. QED
  BY <1>3 DEF Cat!SaveSettings, SavedBody

LEMMA SavedBodyType ==
  ASSUME NEW row \in Cat!Configs, NEW body,
         \A f \in DOMAIN body : /\ f = "provider" => body[f] \in {"local", "oss"}
                                /\ f \in Cat!TextFields => body[f] \in Cat!Texts
  PROVE  SavedBody(row, body) \in Cat!Configs
<1>1. DOMAIN row = {"provider"} \cup Cat!TextFields
  BY DEF Cat!Configs, Cat!TextFields
<1>2. /\ row.provider \in {"local", "oss"}
      /\ \A f \in Cat!TextFields : row[f] \in Cat!Texts
  BY DEF Cat!Configs, Cat!TextFields
<1>3. PICK saved : saved = SavedBody(row, body)
  OBVIOUS
<1>4. /\ DOMAIN saved = {"provider"} \cup Cat!TextFields
      /\ \A f \in DOMAIN saved : saved[f] = IF f \in DOMAIN body THEN body[f] ELSE row[f]
  BY <1>1, <1>3 DEF SavedBody
<1>5. /\ saved["provider"] \in {"local", "oss"}
      /\ \A f \in Cat!TextFields : saved[f] \in Cat!Texts
  <2>1. row["provider"] \in {"local", "oss"} /\ "provider" \in DOMAIN saved
    BY <1>2, <1>4
  <2>2. saved["provider"] \in {"local", "oss"}
    BY <1>4, <2>1
  <2>3. ASSUME NEW f \in Cat!TextFields PROVE saved[f] \in Cat!Texts
    BY <1>2, <1>4
  <2>4. QED
    BY <2>2, <2>3
<1>6. saved \in Cat!Configs
  <2>1. DOMAIN saved = {"provider", "localBaseUrl", "ossCdnDomain", "ossEndpoint", "ossBucket", "ossRegion"}
    BY <1>4 DEF Cat!TextFields
  <2>2. saved = [provider |-> saved["provider"], localBaseUrl |-> saved["localBaseUrl"],
                 ossCdnDomain |-> saved["ossCdnDomain"], ossEndpoint |-> saved["ossEndpoint"],
                 ossBucket |-> saved["ossBucket"], ossRegion |-> saved["ossRegion"]]
    BY <1>3, <2>1 DEF SavedBody
  <2>3. \A f \in {"localBaseUrl", "ossCdnDomain", "ossEndpoint", "ossBucket", "ossRegion"} :
          saved[f] \in Cat!Texts
    BY <1>5 DEF Cat!TextFields
  <2>4. QED
    BY <1>5, <2>2, <2>3 DEF Cat!Configs
<1>7. QED
  BY <1>3, <1>6

LEMMA CatTypeStep ==
  ASSUME SettingsWellFormed, MaxFailures \in Nat
  PROVE Cat!TypeOK /\ [Cat!Next]_(Cat!vars) => Cat!TypeOK'
<1> SUFFICES ASSUME Cat!TypeOK, [Cat!Next]_(Cat!vars) PROVE Cat!TypeOK'
  OBVIOUS
<1>0. (\A c \in Calls : call[c] \in Cat!Local) /\ (\A id \in Ids : rows[id] \in Cat!Pictures)
  BY DEF Cat!TypeOK
<1>1. ASSUME NEW c \in Calls, NEW id \in Ids, Cat!List(c, id) PROVE Cat!TypeOK'
  <2>1. rows[id].url \in Cat!Texts
    BY <1>0, <1>1, RowTypes DEF Cat!List
  <2>2. PICK url \in Cat!Texts : \/ Cat!Set(c, [at |-> "resolve", then |-> "form", id |-> id, url |-> url])
                                \/ Cat!Set(c, [at |-> "form", id |-> id, url |-> url])
    BY <1>1, <2>1, UrlTypes DEF Cat!List
  <2>3. /\ [at |-> "resolve", then |-> "form", id |-> id, url |-> url] \in Cat!Local
        /\ [at |-> "form", id |-> id, url |-> url] \in Cat!Local
    BY DEF Cat!Local
  <2>4. call' \in [Calls -> Cat!Local]
    BY <2>2, <2>3, CatSetType
  <2>5. QED
    BY <1>1, <2>4 DEF Cat!List, Cat!TypeOK
<1>2. ASSUME NEW c \in Calls, NEW id \in Ids, NEW file \in Files, Cat!Upload(c, id, file)
      PROVE Cat!TypeOK'
  <2>1. Cat!Uploaded(file) \in Cat!Texts
    BY UrlTypes
  <2>2. [at |-> "resolve", then |-> "form", id |-> id, url |-> Cat!Uploaded(file)] \in Cat!Local
    BY <2>1 DEF Cat!Local
  <2>3. call' \in [Calls -> Cat!Local]
    BY <1>2, <2>2, CatSetType DEF Cat!Upload
  <2>4. QED
    BY <1>2, <2>3 DEF Cat!Upload, Cat!TypeOK
<1>3. ASSUME NEW c \in Calls, Cat!Resolve(c) PROVE Cat!TypeOK'
  <2>0. call[c].url \in Cat!Texts
    BY <1>0, <1>3, CatCallTypes DEF Cat!Resolve
  <2>1. CASE Cat!NeedsConfig(call[c].url) /\ config = Cat!NoConfig
    <3>1. [call[c] EXCEPT !.at = "insertConfig"] \in Cat!Local
      BY <1>0, <1>3 DEF Cat!Resolve, Cat!At, Cat!Local
    <3>2. call' \in [Calls -> Cat!Local]
      BY <1>3, <2>1, <3>1, CatSetType DEF Cat!Resolve
    <3>3. QED
      BY <1>3, <3>2 DEF Cat!Resolve, Cat!TypeOK
  <2>2. CASE ~(Cat!NeedsConfig(call[c].url) /\ config = Cat!NoConfig)
    <3>1. PICK url \in Cat!Texts : Cat!Continue(c, url)
      <4>1. config # Cat!NoConfig => config \in Cat!Configs
        BY DEF Cat!TypeOK
      <4>2. Cat!NeedsConfig(call[c].url) => Cat!Resolved(call[c].url, config) \in Cat!Texts
        BY <2>0, <2>2, <4>1, ResolvedType
      <4>3. QED
        BY <1>3, <2>0, <2>2, <4>2 DEF Cat!Resolve
    <3>2. call' \in [Calls -> Cat!Local]
      BY <1>3, <3>1, ContinueType DEF Cat!Resolve
    <3>3. QED
      BY <1>3, <3>2 DEF Cat!Resolve, Cat!TypeOK
  <2>3. QED
    BY <2>1, <2>2
<1>4. ASSUME NEW c \in Calls, Cat!EnsureConfig(c) PROVE Cat!TypeOK'
  <2>1. Cat!Resolved(call[c].url, Cat!Defaults) \in Cat!Texts
    BY <1>0, <1>4, CatCallTypes, ResolvedType, DefaultsType DEF Cat!EnsureConfig
  <2>2. call' \in [Calls -> Cat!Local]
    BY <1>4, <2>1, ContinueType DEF Cat!EnsureConfig
  <2>3. config' \in Cat!Configs
    BY <1>4, StoredDefaultsType DEF Cat!EnsureConfig
  <2>4. QED
    BY <1>4, <2>2, <2>3 DEF Cat!EnsureConfig, Cat!TypeOK
<1>5. ASSUME NEW c \in Calls, Cat!Create(c) PROVE Cat!TypeOK'
  <2>1. call[c].id \in Ids /\ Cat!Normalized(call[c].url) \in Cat!Texts
    BY <1>0, <1>5, CatCallTypes, UrlTypes DEF Cat!Create
  <2>2. rows' \in [Ids -> Cat!Pictures]
    BY <1>5, <2>1, StoreType, UrlTypes DEF Cat!Create
  <2>3. call' \in [Calls -> Cat!Local]
    BY <1>5, CatDoneType, CatSetType DEF Cat!Create
  <2>4. QED
    BY <1>5, <2>2, <2>3 DEF Cat!Create, Cat!TypeOK
<1>6. ASSUME NEW c \in Calls, Cat!Update(c) PROVE Cat!TypeOK'
  <2>1. call[c].id \in Ids /\ call[c].url \in Cat!Texts /\ Cat!Normalized(call[c].url) \in Cat!Texts
    BY <1>0, <1>6, CatCallTypes, UrlTypes DEF Cat!Update
  <2>2. Cat!Live(call[c].id) => rows[call[c].id].url \in Cat!Texts
    BY <1>0, <2>1, RowTypes
  <2>3. PICK url \in Cat!Texts :
          \/ Cat!Set(c, Cat!Done)
          \/ Cat!Set(c, [at |-> "save", id |-> call[c].id, url |-> url])
          \/ Cat!Set(c, [at |-> "resolve", then |-> "save", id |-> call[c].id, url |-> url])
    BY <1>6, <2>1, <2>2 DEF Cat!Update
  <2>4. /\ [at |-> "save", id |-> call[c].id, url |-> url] \in Cat!Local
        /\ [at |-> "resolve", then |-> "save", id |-> call[c].id, url |-> url] \in Cat!Local
    BY <2>1 DEF Cat!Local
  <2>5. call' \in [Calls -> Cat!Local]
    BY <2>3, <2>4, CatDoneType, CatSetType
  <2>6. QED
    BY <1>6, <2>5 DEF Cat!Update, Cat!TypeOK
<1>7. ASSUME NEW c \in Calls, Cat!Save(c) PROVE Cat!TypeOK'
  <2>1. rows' \in [Ids -> Cat!Pictures]
    BY <1>0, <1>7, CatCallTypes, StoreType DEF Cat!Save
  <2>2. call' \in [Calls -> Cat!Local]
    BY <1>7, CatDoneType, CatSetType DEF Cat!Save
  <2>3. QED
    BY <1>7, <2>1, <2>2 DEF Cat!Save, Cat!TypeOK
<1>8. ASSUME NEW c \in Calls, NEW id \in Ids, Cat!RemoveFind(c, id) PROVE Cat!TypeOK'
  <2>1. [at |-> "remove", id |-> id] \in Cat!Local
    BY DEF Cat!Local
  <2>2. call' \in [Calls -> Cat!Local]
    BY <1>8, <2>1, CatDoneType, CatSetType DEF Cat!RemoveFind
  <2>3. QED
    BY <1>8, <2>2 DEF Cat!RemoveFind, Cat!TypeOK
<1>9. ASSUME NEW c \in Calls, Cat!Remove(c) PROVE Cat!TypeOK'
  <2>1. [row |-> Cat!Gone] \in Cat!Pictures
    BY DEF Cat!Pictures
  <2>2. rows' \in [Ids -> Cat!Pictures]
    BY <1>9, <2>1 DEF Cat!Remove, Cat!TypeOK
  <2>3. call' \in [Calls -> Cat!Local]
    BY <1>9, CatDoneType, CatSetType DEF Cat!Remove
  <2>4. QED
    BY <1>9, <2>2, <2>3 DEF Cat!Remove, Cat!TypeOK
<1>10. ASSUME NEW c \in Calls, Cat!UpdateConfig(c) PROVE Cat!TypeOK'
  <2>1. [at |-> "settings"] \in Cat!Local
    BY DEF Cat!Local
  <2>2. config # Cat!NoConfig => [at |-> "saveSettings", row |-> config] \in Cat!Local
    BY DEF Cat!TypeOK, Cat!Local
  <2>3. call' \in [Calls -> Cat!Local]
    BY <1>10, <2>1, <2>2, CatSetType DEF Cat!UpdateConfig
  <2>4. QED
    BY <1>10, <2>3 DEF Cat!UpdateConfig, Cat!TypeOK
<1>11. ASSUME NEW c \in Calls, Cat!InsertSettings(c) PROVE Cat!TypeOK'
  <2>1. [at |-> "saveSettings", row |-> Cat!NoConfig] \in Cat!Local
    BY DEF Cat!Local
  <2>2. call' \in [Calls -> Cat!Local]
    BY <1>11, <2>1, CatSetType DEF Cat!InsertSettings
  <2>3. config' \in Cat!Configs
    BY <1>11, StoredDefaultsType DEF Cat!InsertSettings
  <2>4. QED
    BY <1>11, <2>2, <2>3 DEF Cat!InsertSettings, Cat!TypeOK
<1>12. ASSUME NEW c \in Calls, Cat!SaveSettings(c) PROVE Cat!TypeOK'
  <2>1. PICK row \in Cat!Configs, body \in Settings : config' = SavedBody(row, body)
    BY <1>0, <1>12, SaveSettingsSaves
  <2>2. \A f \in DOMAIN body : /\ f = "provider" => body[f] \in {"local", "oss"}
                               /\ f \in Cat!TextFields => body[f] \in Cat!Texts
    BY DEF SettingsWellFormed
  <2>3. config' \in Cat!Configs
    BY <2>1, <2>2, SavedBodyType
  <2>4. call' \in [Calls -> Cat!Local]
    BY <1>12, CatDoneType, CatSetType DEF Cat!SaveSettings
  <2>5. QED
    BY <1>12, <2>3, <2>4 DEF Cat!SaveSettings, Cat!TypeOK
<1>13. ASSUME NEW c \in Calls, Cat!AwaitFails(c) PROVE Cat!TypeOK'
  <2>1. call' \in [Calls -> Cat!Local]
    BY <1>13, CatDoneType, CatSetType DEF Cat!AwaitFails
  <2>2. failures' \in 0 .. MaxFailures
    BY <1>13 DEF Cat!AwaitFails, Cat!TypeOK
  <2>3. QED
    BY <1>13, <2>1, <2>2 DEF Cat!AwaitFails, Cat!TypeOK
<1>14. CASE UNCHANGED Cat!vars
  BY <1>14 DEF Cat!vars, Cat!TypeOK
<1>15. QED
  BY <1>1, <1>2, <1>3, <1>4, <1>5, <1>6, <1>7, <1>8, <1>9, <1>10, <1>11, <1>12, <1>13, <1>14
  DEF Cat!Next, Cat!Step

-----------------------------------------------------------------------------
(***************************************************************************)
(* Bare pictures                                                           *)
(***************************************************************************)
\* A picture that is empty or ends in a file, with nothing before it that
\* normalizeFileUrl would have to take off and could not.
Fits(url) ==
  /\ url \in Cat!Texts
  /\ ~url.scheme => url = Cat!Empty \/ url.parts # <<>>
  /\ \A i \in (IF url.scheme THEN 2 ELSE 1) .. Len(url.parts) :
       url.parts[i] \in IF i = Len(url.parts) THEN Files ELSE Cat!Kept

Bare(url) == ~url.scheme /\ Fits(url)

\* Settings whose bases are those of bodies of updates.
Allowed(base) ==
  \A i \in (IF base.scheme THEN 2 ELSE 1) .. Len(base.parts) : base.parts[i] \in Cat!Kept

Sound(row) ==
  /\ Allowed(row.localBaseUrl) /\ Allowed(row.ossCdnDomain) /\ Allowed(row.ossEndpoint)
  /\ Allowed(Cat!OfBucket(row.ossBucket))

\* The picture a call holds is that of a file, and its path once it is saved.
Proper(local) ==
  /\ local.at \in {"resolve", "insertConfig"} => Fits(local.url) /\ local.then = "form"
  /\ local.at = "form" => Fits(local.url)
  /\ local.at = "save" => Bare(local.url)

Loaded(local) == local.at = "saveSettings" => local.row = Cat!NoConfig \/ Sound(local.row)

BareInv ==
  /\ config # Cat!NoConfig => Sound(config)
  /\ \A c \in Calls : Loaded(call[c])
  /\ kind \notin {"banner", "memberLevel"} =>
       /\ \A id \in Ids : Cat!Live(id) => Bare(rows[id].url)
       /\ \A c \in Calls : Proper(call[c])

LEMMA EmptyAllowed == Allowed(Cat!Empty) /\ Allowed(Cat!OfBucket(Cat!Empty))
<1>1. Cat!Empty.parts = <<>> /\ ~Cat!Empty.scheme
  BY DEF Cat!Empty
<1>2. Cat!OfBucket(Cat!Empty).parts = <<>>
  BY <1>1 DEF Cat!OfBucket
<1>3. QED
  BY <1>1, <1>2 DEF Allowed

LEMMA DefaultsSound == Sound(Cat!Defaults)
BY EmptyAllowed DEF Sound, Cat!Defaults

LEMMA ProviderSound ==
  ASSUME NEW row \in Cat!Configs, Sound(row) PROVE Sound([row EXCEPT !.provider = "local"])
BY DEF Sound, Cat!Configs

LEMMA SavedBodySound ==
  ASSUME NEW row \in Cat!Configs, Sound(row), NEW body \in Settings
  PROVE  Sound(SavedBody(row, body))
<1>1. ASSUME NEW base \in Cat!Bases PROVE Allowed(base)
  <2> SUFFICES ASSUME NEW i \in (IF base.scheme THEN 2 ELSE 1) .. Len(base.parts)
               PROVE  base.parts[i] \in Cat!Kept
    BY DEF Allowed
  <2>1. base.parts[i] \in {base.parts[j] : j \in (IF base.scheme THEN 2 ELSE 1) .. Len(base.parts)}
    OBVIOUS
  <2>2. QED
    BY <1>1, <2>1 DEF Cat!Kept
<1>2. ASSUME NEW f \in {"localBaseUrl", "ossCdnDomain", "ossEndpoint"}, f \in DOMAIN body
      PROVE  body[f] \in Cat!Bases
  <2>1. f \in (Cat!TextFields \ {"ossRegion"}) \cap DOMAIN body /\ f # "ossBucket"
    BY <1>2 DEF Cat!TextFields
  <2>2. QED
    BY <2>1 DEF Cat!Bases
<1>3. ASSUME "ossBucket" \in DOMAIN body PROVE Cat!OfBucket(body["ossBucket"]) \in Cat!Bases
  <2>1. "ossBucket" \in (Cat!TextFields \ {"ossRegion"}) \cap DOMAIN body
    BY <1>3 DEF Cat!TextFields
  <2>2. QED
    BY <2>1 DEF Cat!Bases
<1>4. \A f \in {"localBaseUrl", "ossCdnDomain", "ossEndpoint", "ossBucket"} :
        SavedBody(row, body)[f] = IF f \in DOMAIN body THEN body[f] ELSE row[f]
  BY DEF SavedBody, Cat!Configs
<1>5. \A f \in {"localBaseUrl", "ossCdnDomain", "ossEndpoint"} : Allowed(SavedBody(row, body)[f])
  BY <1>1, <1>2, <1>4 DEF Sound
<1>6. Allowed(Cat!OfBucket(SavedBody(row, body)["ossBucket"]))
  BY <1>1, <1>3, <1>4 DEF Sound
<1>7. QED
  BY <1>5, <1>6 DEF Sound

LEMMA JoinedParts ==
  ASSUME NEW S, NEW p \in Seq(S), NEW q \in Seq(S), q # <<>>, NEW first \in {1, 2}, NEW A, NEW B,
         \A i \in first .. Len(p) : p[i] \in A,
         \A i \in 1 .. Len(q) : q[i] \in IF i = Len(q) THEN B ELSE A
  PROVE  /\ p \o q \in Seq(S) /\ p \o q # <<>>
         /\ \A i \in first .. Len(p \o q) : (p \o q)[i] \in IF i = Len(p \o q) THEN B ELSE A
<1>1. p \o q \in Seq(S) /\ Len(p \o q) = Len(p) + Len(q) /\ Len(q) > 0
  OBVIOUS
<1>2. ASSUME NEW i \in first .. Len(p \o q)
      PROVE  (p \o q)[i] \in IF i = Len(p \o q) THEN B ELSE A
  <2>1. CASE i <= Len(p)
    <3>1. (p \o q)[i] = p[i] /\ i # Len(p \o q)
      BY <1>1, <1>2, <2>1
    <3>2. QED
      BY <1>2, <2>1, <3>1
  <2>2. CASE i > Len(p)
    <3>1. i - Len(p) \in 1 .. Len(q) /\ (p \o q)[i] = q[i - Len(p)]
      BY <1>1, <1>2, <2>2
    <3>2. i = Len(p \o q) <=> i - Len(p) = Len(q)
      BY <1>1, <1>2
    <3>3. QED
      BY <3>1, <3>2
  <2>3. QED
    BY <2>1, <2>2
<1>3. QED
  BY <1>1, <1>2

\* A base in front of a picture, and the host taken off one.
LEMMA ResolvedFits ==
  ASSUME NEW url, Fits(url), NEW row \in Cat!Configs, Sound(row) PROVE Fits(Cat!Resolved(url, row))
<1>1. PICK base \in Cat!Texts : base = Cat!Base(row)
  BY BaseType
<1>2. Allowed(base)
  BY <1>1, EmptyAllowed DEF Sound, Cat!Base
<1>3. url \in Cat!Texts /\ Cat!Resolved(url, row) \in Cat!Texts
  BY ResolvedType DEF Fits
<1>4. CASE ~Cat!NeedsConfig(url)
  BY <1>4 DEF Cat!Resolved
<1>5. CASE Cat!NeedsConfig(url)
  <2>1. ~url.scheme /\ url.parts # <<>> /\ url.parts \in Seq(Cat!Segments)
    BY <1>3, <1>5 DEF Cat!NeedsConfig, Fits, Cat!Texts
  <2>2. \A i \in 1 .. Len(url.parts) : url.parts[i] \in IF i = Len(url.parts) THEN Files ELSE Cat!Kept
    BY <2>1 DEF Fits
  <2>3. CASE base = Cat!Empty
    <3>1. PICK slash : slash = (row.provider = "local")
      OBVIOUS
    <3>2. [url EXCEPT !.slash = slash].parts = url.parts /\ [url EXCEPT !.slash = slash].scheme = url.scheme
      BY <1>3 DEF Cat!Texts
    <3>3. Cat!Resolved(url, row) = [url EXCEPT !.slash = slash]
      BY <1>1, <1>5, <2>3, <3>1 DEF Cat!Resolved
    <3>4. QED
      BY <1>3, <2>1, <2>2, <3>2, <3>3 DEF Fits
  <2>4. CASE base # Cat!Empty
    <3>1. base.parts \in Seq(Cat!Segments)
      BY DEF Cat!Texts
    <3>2. PICK first \in {1, 2} : first = (IF base.scheme THEN 2 ELSE 1)
      OBVIOUS
    <3>3. \A i \in first .. Len(base.parts) : base.parts[i] \in Cat!Kept
      BY <1>2, <3>2 DEF Allowed
    <3>4. PICK parts : parts = base.parts \o url.parts
      OBVIOUS
    <3>5. /\ parts # <<>>
          /\ \A i \in first .. Len(parts) : parts[i] \in IF i = Len(parts) THEN Files ELSE Cat!Kept
      BY <2>1, <2>2, <3>1, <3>3, <3>4, JoinedParts
    <3>6. Cat!Resolved(url, row) = [base EXCEPT !.parts = parts]
      BY <1>1, <1>5, <2>4, <3>4 DEF Cat!Resolved
    <3>7. [base EXCEPT !.parts = parts].parts = parts /\ [base EXCEPT !.parts = parts].scheme = base.scheme
      BY DEF Cat!Texts
    <3>8. QED
      BY <1>3, <3>2, <3>5, <3>6, <3>7 DEF Fits
  <2>5. QED
    BY <2>3, <2>4
<1>6. QED
  BY <1>4, <1>5

\* What is left of a sequence from its second or third element on.
LEMMA PartsBehind ==
  ASSUME NEW S, NEW parts \in Seq(S), NEW from \in {2, 3}, from = 3 => Len(parts) > 2,
         NEW path, path = SubSeq(parts, from, Len(parts))
  PROVE  /\ path \in Seq(S) /\ Len(path) \in Nat
         /\ Len(path) = IF Len(parts) = 0 THEN 0 ELSE Len(parts) - from + 1
         /\ \A i \in 1 .. Len(path) : path[i] = parts[i + from - 1]
<1>1. \A i \in from .. Len(parts) : parts[i] \in S
  OBVIOUS
<1>2. CASE from = 2
  BY <1>1, <1>2
<1>3. CASE from = 3
  BY <1>1, <1>3
<1>4. QED
  BY <1>2, <1>3

LEMMA NormalizedBare == ASSUME NEW url, Fits(url) PROVE Bare(Cat!Normalized(url))
<1>1. url \in Cat!Texts /\ Cat!Normalized(url) \in Cat!Texts
  BY UrlTypes DEF Fits
<1>2. CASE ~url.scheme
  BY <1>2 DEF Cat!Normalized, Bare
<1>3. CASE url.scheme
  <2>1. PICK parts \in Seq(Cat!Segments) : parts = url.parts
    BY <1>1 DEF Cat!Texts
  <2>2. PICK slash, from, path :
          /\ slash = (Len(parts) > 2 /\ parts[2] = Cat!Blank)
          /\ from = IF slash THEN 3 ELSE 2
          /\ path = SubSeq(parts, from, Len(parts))
    OBVIOUS
  <2>3. /\ from \in {2, 3} /\ (from = 3 => Len(parts) > 2)
        /\ path \in Seq(Cat!Segments) /\ Len(path) \in Nat
        /\ Len(path) = IF Len(parts) = 0 THEN 0 ELSE Len(parts) - from + 1
        /\ \A i \in 1 .. Len(path) : path[i] = parts[i + from - 1]
    <3>1. from \in {2, 3} /\ (from = 3 => Len(parts) > 2) /\ path = SubSeq(parts, from, Len(parts))
      <4>1. path = SubSeq(parts, from, Len(parts))
        BY <2>2
      <4>2. CASE Len(parts) > 2 /\ parts[2] = Cat!Blank
        <5>1. slash = TRUE
          BY <2>2, <4>2
        <5>2. from = 3
          BY <2>2, <5>1
        <5>3. QED
          BY <4>1, <4>2, <5>2
      <4>3. CASE ~(Len(parts) > 2 /\ parts[2] = Cat!Blank)
        <5>1. slash = FALSE
          BY <2>2, <4>3
        <5>2. from = 2
          BY <2>2, <5>1
        <5>3. QED
          BY <4>1, <5>2
      <4>4. QED
        BY <4>2, <4>3
    <3>2. path \in Seq(Cat!Segments) /\ Len(path) \in Nat
      BY <2>1, <3>1, PartsBehind
    <3>3. Len(path) = IF Len(parts) = 0 THEN 0 ELSE Len(parts) - from + 1
      BY <2>1, <3>1, PartsBehind
    <3>4. \A i \in 1 .. Len(path) : path[i] = parts[i + from - 1]
      BY <2>1, <3>1, PartsBehind
    <3>5. QED
      BY <3>1, <3>2, <3>3, <3>4
  <2>4. Cat!Normalized(url) = [scheme |-> FALSE, slash |-> slash, parts |-> path]
    BY <1>3, <2>1, <2>2 DEF Cat!Normalized
  <2>5. ASSUME NEW i \in 1 .. Len(path)
        PROVE  path[i] \in IF i = Len(path) THEN Files ELSE Cat!Kept
    <3>1. i + from - 1 \in 2 .. Len(parts) /\ (i = Len(path) <=> i + from - 1 = Len(parts))
      <4>1. Len(parts) \in Nat /\ Len(path) \in Nat /\ i \in Nat \ {0} /\ i <= Len(path)
        BY <2>1, <2>3, <2>5
      <4>2. Len(path) = Len(parts) - from + 1
        BY <2>3, <4>1
      <4>3. QED
        BY <2>3, <4>1, <4>2
    <3>2. parts[i + from - 1] \in IF i + from - 1 = Len(parts) THEN Files ELSE Cat!Kept
      BY <1>3, <2>1, <3>1 DEF Fits
    <3>3. QED
      BY <2>3, <3>1, <3>2
  <2>6. ASSUME path = <<>> PROVE Cat!Normalized(url) = Cat!Empty
    <3>1. Len(path) = 0
      BY <2>6
    <3>2. Len(parts) \in Nat /\ ~(Len(parts) > 2)
      BY <2>1, <2>3, <3>1
    <3>3. slash = FALSE
      BY <2>2, <3>2
    <3>4. QED
      BY <2>4, <2>6, <3>3 DEF Cat!Empty
  <2>7. ~Cat!Normalized(url).scheme /\ Cat!Normalized(url).parts = path
    BY <2>4
  <2>8. QED
    BY <1>1, <2>5, <2>6, <2>7 DEF Bare, Fits
<1>4. QED
  BY <1>2, <1>3

LEMMA BareUrls ==
  /\ Bare(Cat!Empty)
  /\ \A url : Bare(url) => Fits(url)
  /\ \A file \in Files : Fits(Cat!Uploaded(file))
<1>1. Bare(Cat!Empty)
  <2>1. Cat!Empty.parts = <<>> /\ ~Cat!Empty.scheme
    BY DEF Cat!Empty
  <2>2. QED
    BY <2>1, UrlTypes DEF Bare, Fits
<1>2. ASSUME NEW file \in Files PROVE Fits(Cat!Uploaded(file))
  <2>1. Cat!Uploaded(file).parts = <<Cat!Folder, file>> /\ ~Cat!Uploaded(file).scheme
    BY DEF Cat!Uploaded
  <2>2. Cat!Folder \in Cat!Kept
    BY DEF Cat!Kept
  <2>3. QED
    BY <2>1, <2>2, UrlTypes DEF Fits
<1>3. QED
  BY <1>1, <1>2 DEF Bare

LEMMA BareInit == Cat!Init => BareInv
BY BareUrls DEF Cat!Init, BareInv, Proper, Loaded, Cat!Live, Cat!Absent

\* A step that stores nothing but bare pictures and leaves its call in order.
LEMMA BareKept ==
  ASSUME Cat!TypeOK, BareInv, NEW c \in Calls, NEW local, Cat!Set(c, local), kind' = kind,
         config' = config \/ Sound(config'), Loaded(local),
         kind \notin {"banner", "memberLevel"} =>
           /\ Proper(local)
           /\ \A id \in Ids : Cat!Live(id)' => Bare(rows'[id].url)
  PROVE  BareInv'
<1>1. \A d \in Calls : call'[d] = IF d = c THEN local ELSE call[d]
  BY DEF Cat!Set, Cat!TypeOK
<1>2. \A d \in Calls : Loaded(call'[d])
  BY <1>1 DEF BareInv
<1>3. kind \notin {"banner", "memberLevel"} => \A d \in Calls : Proper(call'[d])
  BY <1>1 DEF BareInv
<1>4. config' # Cat!NoConfig => Sound(config')
  BY DEF BareInv
<1>5. QED
  BY <1>2, <1>3, <1>4 DEF BareInv

\* What an insert of the default row stores, and an update of the settings saves.
LEMMA ConfigSound ==
  ASSUME Cat!TypeOK, BareInv
  PROVE  /\ Sound(Cat!StoredDefaults)
         /\ \A c \in Calls : Cat!SaveSettings(c) => Sound(config')
<1>1. Sound(Cat!StoredDefaults)
  BY DefaultsSound, ProviderSound DEF BareInv, Cat!StoredDefaults, Cat!TypeOK
<1>2. ASSUME NEW c \in Calls, Cat!SaveSettings(c) PROVE Sound(config')
  <2>1. PICK row \in Cat!Configs, body \in Settings :
          /\ config' = SavedBody(row, body)
          /\ row = IF call[c].row = Cat!NoConfig THEN Cat!StoredDefaults ELSE call[c].row
    BY <1>2, SaveSettingsSaves
  <2>2. call[c].row = Cat!NoConfig \/ Sound(call[c].row)
    BY <1>2 DEF BareInv, Loaded, Cat!SaveSettings, Cat!At
  <2>3. QED
    BY <1>1, <2>1, <2>2, SavedBodySound
<1>3. QED
  BY <1>1, <1>2

LEMMA BareStep == Cat!TypeOK /\ BareInv /\ [Cat!Next]_(Cat!vars) => BareInv'
<1> SUFFICES ASSUME Cat!TypeOK, BareInv, [Cat!Next]_(Cat!vars) PROVE BareInv'
  OBVIOUS
<1> DEFINE Applies == kind \notin {"banner", "memberLevel"}
<1>0. /\ Applies => Cat!Service.update # "resolved" /\ Cat!Service.shows = "url"
      /\ Applies => \A id \in Ids : Cat!Live(id) => Bare(rows[id].url)
      /\ Applies => \A c \in Calls : Proper(call[c])
      /\ \A c \in Calls : call[c] \in Cat!Local
      /\ config # Cat!NoConfig => config \in Cat!Configs /\ Sound(config)
  <2>1. kind \in Cat!Kinds
    BY DEF Cat!TypeOK
  <2>2. QED
    BY <2>1, ServiceTable DEF Cat!Service, BareInv, Cat!TypeOK
<1>1. ASSUME rows' = rows PROVE Applies => \A id \in Ids : Cat!Live(id)' => Bare(rows'[id].url)
  BY <1>0, <1>1 DEF Cat!Live
<1>2. ASSUME NEW id \in Ids, NEW url, Cat!Store(id, url), Applies => Bare(url)
      PROVE  Applies => \A i \in Ids : Cat!Live(i)' => Bare(rows'[i].url)
  <2>1. \A i \in Ids : rows'[i] = IF i = id THEN [row |-> "live", url |-> url] ELSE rows[i]
    BY <1>2 DEF Cat!Store, Cat!TypeOK
  <2>2. QED
    BY <1>0, <1>2, <2>1 DEF Cat!Live
<1>3. Proper(Cat!Done) /\ Loaded(Cat!Done)
  BY DEF Proper, Loaded, Cat!Done
<1>4. ASSUME NEW c \in Calls, NEW id \in Ids, Cat!List(c, id) PROVE BareInv'
  <2>1. PICK url, local : /\ Cat!Set(c, local) /\ local.at \in {"resolve", "form"}
                          /\ Applies => local = [at |-> "resolve", then |-> "form", id |-> id, url |-> url]
                          /\ Applies => url = rows[id].url
    BY <1>0, <1>4 DEF Cat!List
  <2>2. Applies => Proper(local)
    BY <1>0, <1>4, <2>1, BareUrls DEF Proper, Cat!List
  <2>3. QED
    BY <1>1, <1>4, <2>1, <2>2, BareKept DEF Cat!List, Loaded
<1>5. ASSUME NEW c \in Calls, NEW id \in Ids, NEW file \in Files, Cat!Upload(c, id, file)
      PROVE BareInv'
  <2>1. Proper([at |-> "resolve", then |-> "form", id |-> id, url |-> Cat!Uploaded(file)])
    BY BareUrls DEF Proper
  <2>2. QED
    BY <1>1, <1>5, <2>1, BareKept DEF Cat!Upload, Loaded
<1>6. ASSUME NEW c \in Calls, Cat!Resolve(c) PROVE BareInv'
  <2>1. Applies => Fits(call[c].url) /\ call[c].then = "form"
    BY <1>0, <1>6 DEF Cat!Resolve, Cat!At, Proper
  <2>2. CASE Cat!NeedsConfig(call[c].url) /\ config = Cat!NoConfig
    <3>1. /\ [call[c] EXCEPT !.at = "insertConfig"].at = "insertConfig"
          /\ [call[c] EXCEPT !.at = "insertConfig"].url = call[c].url
          /\ [call[c] EXCEPT !.at = "insertConfig"].then = call[c].then
      BY <1>0, <1>6 DEF Cat!Resolve, Cat!At, Cat!Local
    <3>2. Applies => Proper([call[c] EXCEPT !.at = "insertConfig"])
      BY <2>1, <3>1 DEF Proper
    <3>3. QED
      BY <1>1, <1>6, <2>2, <3>1, <3>2, BareKept DEF Cat!Resolve, Loaded
  <2>3. CASE ~(Cat!NeedsConfig(call[c].url) /\ config = Cat!NoConfig)
    <3>1. PICK url : Cat!Continue(c, url) /\ (Applies => Fits(url))
      <4>1. Applies /\ Cat!NeedsConfig(call[c].url) => Fits(Cat!Resolved(call[c].url, config))
        BY <1>0, <2>1, <2>3, ResolvedFits
      <4>2. QED
        BY <1>6, <2>1, <2>3, <4>1 DEF Cat!Resolve
    <3>2. Applies => Proper([at |-> call[c].then, id |-> call[c].id, url |-> url])
      BY <2>1, <3>1 DEF Proper
    <3>3. call[c].then \in {"form", "save"}
      BY <1>0, <1>6, CatCallTypes DEF Cat!Resolve
    <3>4. Loaded([at |-> call[c].then, id |-> call[c].id, url |-> url])
      BY <3>3 DEF Loaded
    <3>5. QED
      BY <1>1, <1>6, <3>1, <3>2, <3>4, BareKept DEF Cat!Resolve, Cat!Continue
  <2>4. QED
    BY <2>2, <2>3
<1>7. ASSUME NEW c \in Calls, Cat!EnsureConfig(c) PROVE BareInv'
  <2>1. Applies => Fits(Cat!Resolved(call[c].url, Cat!Defaults)) /\ call[c].then = "form"
    BY <1>0, <1>7, ResolvedFits, DefaultsType, DefaultsSound DEF Cat!EnsureConfig, Cat!At, Proper
  <2>2. Applies => Proper([at |-> call[c].then, id |-> call[c].id, url |-> Cat!Resolved(call[c].url, Cat!Defaults)])
    BY <2>1 DEF Proper
  <2>3. call[c].then \in {"form", "save"}
    BY <1>0, <1>7, CatCallTypes DEF Cat!EnsureConfig
  <2>4. Loaded([at |-> call[c].then, id |-> call[c].id, url |-> Cat!Resolved(call[c].url, Cat!Defaults)])
    BY <2>3 DEF Loaded
  <2>5. Sound(config')
    BY <1>7, ConfigSound DEF Cat!EnsureConfig
  <2>6. QED
    BY <1>1, <1>7, <2>2, <2>4, <2>5, BareKept DEF Cat!EnsureConfig, Cat!Continue
<1>8. ASSUME NEW c \in Calls, Cat!Create(c) PROVE BareInv'
  <2>1. PICK url : Cat!Store(call[c].id, url) /\ url \in {Cat!Normalized(call[c].url), Cat!Empty}
    BY <1>8 DEF Cat!Create
  <2>2. Applies => Bare(url)
    BY <1>0, <1>8, <2>1, BareUrls, NormalizedBare DEF Cat!Create, Cat!At, Proper
  <2>3. call[c].id \in Ids
    BY <1>0, <1>8, CatCallTypes DEF Cat!Create
  <2>4. QED
    BY <1>2, <1>3, <1>8, <2>1, <2>2, <2>3, BareKept DEF Cat!Create
<1>9. ASSUME NEW c \in Calls, Cat!Update(c) PROVE BareInv'
  <2>0. call[c].id \in Ids /\ (Applies => Fits(call[c].url))
    BY <1>0, <1>9, CatCallTypes DEF Cat!Update, Cat!At, Proper
  <2>1. PICK local : /\ Cat!Set(c, local) /\ Loaded(local)
                     /\ \/ local = Cat!Done
                        \/ \E url : /\ local = [at |-> "save", id |-> call[c].id, url |-> url]
                                    /\ \/ Cat!Live(call[c].id) /\ url = rows[call[c].id].url
                                       \/ url = Cat!Normalized(call[c].url)
                        \/ ~Applies
    BY <1>0, <1>3, <1>9 DEF Cat!Update, Loaded
  <2>2. Applies => Proper(local)
    BY <1>0, <1>3, <2>0, <2>1, NormalizedBare DEF Proper
  <2>3. QED
    BY <1>1, <1>9, <2>1, <2>2, BareKept DEF Cat!Update
<1>10. ASSUME NEW c \in Calls, Cat!Save(c) PROVE BareInv'
  <2>1. call[c].id \in Ids /\ (Applies => Bare(call[c].url))
    BY <1>0, <1>10, CatCallTypes DEF Cat!Save, Cat!At, Proper
  <2>2. QED
    BY <1>2, <1>3, <1>10, <2>1, BareKept DEF Cat!Save
<1>11. ASSUME NEW c \in Calls, NEW id \in Ids, Cat!RemoveFind(c, id) PROVE BareInv'
  <2>1. PICK local \in {[at |-> "remove", id |-> id], Cat!Done} : Cat!Set(c, local)
    BY <1>11 DEF Cat!RemoveFind
  <2>2. Proper(local) /\ Loaded(local)
    BY <1>3, <2>1 DEF Proper, Loaded
  <2>3. QED
    BY <1>1, <1>11, <2>1, <2>2, BareKept DEF Cat!RemoveFind
<1>12. ASSUME NEW c \in Calls, Cat!Remove(c) PROVE BareInv'
  <2>1. \A i \in Ids : rows'[i] = IF i = call[c].id THEN [row |-> Cat!Gone] ELSE rows[i]
    BY <1>12 DEF Cat!Remove, Cat!TypeOK
  <2>2. Applies => \A i \in Ids : Cat!Live(i)' => Bare(rows'[i].url)
    BY <1>0, <2>1 DEF Cat!Live, Cat!Gone
  <2>3. QED
    BY <1>3, <1>12, <2>2, BareKept DEF Cat!Remove
<1>13. ASSUME NEW c \in Calls,
              Cat!UpdateConfig(c) \/ Cat!InsertSettings(c) \/ Cat!SaveSettings(c) \/ Cat!AwaitFails(c)
       PROVE  BareInv'
  <2>1. PICK local : /\ Cat!Set(c, local) /\ local.at \in {"settings", "saveSettings", "done"}
                     /\ local.at = "saveSettings" => \/ local.row = Cat!NoConfig
                                                    \/ /\ config # Cat!NoConfig
                                                       /\ local.row = config
    BY <1>13 DEF Cat!UpdateConfig, Cat!InsertSettings, Cat!SaveSettings, Cat!AwaitFails,
       Cat!Done
  <2>2. Proper(local) /\ Loaded(local)
    BY <1>0, <2>1 DEF Proper, Loaded
  <2>3. config' = config \/ Sound(config')
    BY <1>13, ConfigSound DEF Cat!UpdateConfig, Cat!InsertSettings, Cat!AwaitFails
  <2>4. QED
    BY <1>1, <1>13, <2>1, <2>2, <2>3, BareKept DEF Cat!UpdateConfig, Cat!InsertSettings,
       Cat!SaveSettings, Cat!AwaitFails
<1>14. CASE UNCHANGED Cat!vars
  BY <1>14 DEF Cat!vars, BareInv, Cat!Live
<1>15. QED
  BY <1>4, <1>5, <1>6, <1>7, <1>8, <1>9, <1>10, <1>11, <1>12, <1>13, <1>14 DEF Cat!Next,
     Cat!Step

\* The table, the settings and the calls keep their types.
THEOREM CatTypeCorrect ==
  ASSUME SettingsWellFormed, MaxFailures \in Nat PROVE Cat!Spec => []Cat!TypeOK
BY CatTypeInit, CatTypeStep, PTL DEF Cat!Spec

\* No host of a full base is stored with a picture, and its file is, whatever texts
\* the storage settings are given.
THEOREM StoredIsBareCorrect ==
  ASSUME SettingsWellFormed, MaxFailures \in Nat PROVE Cat!Spec => []Cat!StoredIsBare
<1>1. BareInv => Cat!StoredIsBare
  BY DEF BareInv, Cat!StoredIsBare, Bare, Fits
<1>2. QED
  BY <1>1, CatTypeInit, CatTypeStep, BareInit, BareStep, PTL DEF Cat!Spec

-----------------------------------------------------------------------------
(***************************************************************************)
(* Couriers: the list of companies and its import.                         *)
(***************************************************************************)
(***************************************************************************)
(* Types                                                                   *)
(***************************************************************************)
SheetWellFormed == Sheet \in Seq(STRING)

LEMMA SheetTypes ==
  ASSUME SheetWellFormed
  PROVE  /\ Len(Sheet) \in Nat
         /\ \A i \in 1 .. Len(Sheet) : Sheet[i] \in Cou!AllNames
BY DEF SheetWellFormed, Cou!AllNames

LEMMA CouTypeInit ==
  ASSUME MaxFailures \in Nat PROVE Cou!Init => Cou!TypeOK
<1> SUFFICES ASSUME Cou!Init PROVE Cou!TypeOK
  OBVIOUS
<1>1. [at |-> "idle"] \in Cou!Local
  BY DEF Cou!Local
<1>2. QED
  BY <1>1 DEF Cou!Init, Cou!TypeOK

\* What a call has at hand.
LEMMA CouCallTypes ==
  ASSUME NEW c, call[c] \in Cou!Local
  PROVE  /\ Cou!At(c, "save") => call[c].id \in Cou!Rows /\ call[c].name \in Cou!AllNames
         /\ Cou!At(c, "remove") => call[c].id \in Cou!Rows
         /\ Cou!At(c, "insert") => call[c].next \in 1 .. Len(Sheet) + 1 /\ call[c].known \subseteq Cou!AllNames
BY DEF Cou!Local, Cou!At

LEMMA CouDoneType == Cou!Done \in Cou!Local
BY DEF Cou!Done, Cou!Local

\* A step that leaves one call with a local state of its type.
LEMMA CouSetType ==
  ASSUME Cou!TypeOK, NEW c \in Calls, NEW local \in Cou!Local, Cou!Set(c, local)
  PROVE  call' \in [Calls -> Cou!Local]
BY DEF Cou!Set, Cou!TypeOK

LEMMA CouInsertType ==
  ASSUME Cou!TypeOK, NEW name \in Cou!AllNames, Cou!Insert(name)
  PROVE  companies' \in [Cou!Rows -> Cou!AllNames \cup {"none", "gone"}]
BY DEF Cou!Insert, Cou!TypeOK

LEMMA CouTypeStep ==
  ASSUME SheetWellFormed, MaxFailures \in Nat
  PROVE Cou!TypeOK /\ [Cou!Next]_(Cou!vars) => Cou!TypeOK'
<1> SUFFICES ASSUME Cou!TypeOK, [Cou!Next]_(Cou!vars) PROVE Cou!TypeOK'
  OBVIOUS
<1>0. /\ \A c \in Calls : call[c] \in Cou!Local
      /\ companies \in [Cou!Rows -> Cou!AllNames \cup {"none", "gone"}]
      /\ Names \subseteq Cou!AllNames
  BY DEF Cou!TypeOK, Cou!AllNames
<1>1. ASSUME NEW c \in Calls, NEW name \in Names, Cou!CreateCompany(c, name) PROVE Cou!TypeOK'
  <2>1. companies' \in [Cou!Rows -> Cou!AllNames \cup {"none", "gone"}]
    BY <1>0, <1>1, CouInsertType DEF Cou!CreateCompany
  <2>2. call' \in [Calls -> Cou!Local]
    BY <1>1, CouDoneType, CouSetType DEF Cou!CreateCompany
  <2>3. QED
    BY <1>0, <1>1, <2>1, <2>2 DEF Cou!CreateCompany, Cou!TypeOK
<1>2. ASSUME NEW c \in Calls, NEW id \in Cou!Rows, NEW name \in Names, Cou!UpdateCompany(c, id,
             name)
      PROVE  Cou!TypeOK'
  <2>1. Cou!Exists(id) => companies[id] \in Cou!AllNames
    BY <1>0 DEF Cou!Exists
  <2>2. PICK local : Cou!Set(c, local) /\ local \in {Cou!Done} \cup [at : {"save"}, id : Cou!Rows, name : Cou!AllNames]
    BY <1>0, <1>2, <2>1 DEF Cou!UpdateCompany
  <2>3. local \in Cou!Local
    BY <2>2, CouDoneType DEF Cou!Local
  <2>4. call' \in [Calls -> Cou!Local]
    BY <2>2, <2>3, CouSetType
  <2>5. QED
    BY <1>0, <1>2, <2>4 DEF Cou!UpdateCompany, Cou!TypeOK
<1>3. ASSUME NEW c \in Calls, Cou!SaveCompany(c) PROVE Cou!TypeOK'
  <2>1. call[c].id \in Cou!Rows /\ call[c].name \in Cou!AllNames
    BY <1>0, <1>3, CouCallTypes DEF Cou!SaveCompany
  <2>2. call' \in [Calls -> Cou!Local]
    BY <1>3, CouDoneType, CouSetType DEF Cou!SaveCompany
  <2>3. QED
    BY <1>3, <2>1, <2>2 DEF Cou!SaveCompany, Cou!TypeOK
<1>4. ASSUME NEW c \in Calls, NEW id \in Cou!Rows, Cou!DeleteCompany(c, id) PROVE Cou!TypeOK'
  <2>1. [at |-> "remove", id |-> id] \in Cou!Local
    BY DEF Cou!Local
  <2>2. call' \in [Calls -> Cou!Local]
    BY <1>4, <2>1, CouDoneType, CouSetType DEF Cou!DeleteCompany
  <2>3. QED
    BY <1>4, <2>2 DEF Cou!DeleteCompany, Cou!TypeOK
<1>5. ASSUME NEW c \in Calls, Cou!RemoveCompany(c) PROVE Cou!TypeOK'
  <2>1. call' \in [Calls -> Cou!Local]
    BY <1>5, CouDoneType, CouSetType DEF Cou!RemoveCompany
  <2>2. QED
    BY <1>5, <2>1 DEF Cou!RemoveCompany, Cou!TypeOK
<1>6. ASSUME NEW c \in Calls, Cou!InitFromXlsx(c) PROVE Cou!TypeOK'
  <2>1. [at |-> "open"] \in Cou!Local
    BY DEF Cou!Local
  <2>2. call' \in [Calls -> Cou!Local]
    BY <1>6, <2>1, CouDoneType, CouSetType DEF Cou!InitFromXlsx
  <2>3. overlaps' \subseteq Calls
    BY <1>6 DEF Cou!InitFromXlsx, Cou!TypeOK, Cou!Importing
  <2>4. QED
    BY <1>6, <2>2, <2>3 DEF Cou!InitFromXlsx, Cou!TypeOK
<1>7. ASSUME NEW c \in Calls, Cou!ReadNames(c) PROVE Cou!TypeOK'
  <2>1. \A id \in Cou!Rows : Cou!Exists(id) => companies[id] \in Cou!AllNames
    BY <1>0 DEF Cou!Exists
  <2>2. [at |-> "insert", next |-> 1, known |-> {companies[id] : id \in {r \in Cou!Rows : Cou!Exists(r)}}] \in Cou!Local
    BY <2>1, SheetTypes DEF Cou!Local
  <2>3. call' \in [Calls -> Cou!Local]
    BY <1>7, <2>2, CouSetType DEF Cou!ReadNames
  <2>4. QED
    BY <1>7, <2>3 DEF Cou!ReadNames, Cou!TypeOK
<1>8. ASSUME NEW c \in Calls, Cou!InsertNext(c) PROVE Cou!TypeOK'
  <2>1. PICK i \in call[c].next .. Len(Sheet) :
          /\ Cou!Insert(Sheet[i])
          /\ Cou!Set(c, [at |-> "insert", next |-> i + 1, known |-> Cou!Known(call[c].known, Sheet[i])])
    BY <1>8 DEF Cou!InsertNext
  <2>2. call[c].next \in 1 .. Len(Sheet) + 1 /\ call[c].known \subseteq Cou!AllNames
    BY <1>0, <1>8, CouCallTypes DEF Cou!InsertNext
  <2>3. i \in 1 .. Len(Sheet) /\ i + 1 \in 1 .. Len(Sheet) + 1
    BY <2>2, SheetTypes
  <2>4. Sheet[i] \in Cou!AllNames
    BY <2>3, SheetTypes
  <2>5. Cou!Known(call[c].known, Sheet[i]) \subseteq Cou!AllNames
    BY <2>2, <2>4 DEF Cou!Known
  <2>6. [at |-> "insert", next |-> i + 1, known |-> Cou!Known(call[c].known, Sheet[i])] \in Cou!Local
    BY <2>3, <2>5 DEF Cou!Local
  <2>7. call' \in [Calls -> Cou!Local]
    BY <2>1, <2>6, CouSetType
  <2>8. companies' \in [Cou!Rows -> Cou!AllNames \cup {"none", "gone"}]
    BY <2>1, <2>4, CouInsertType
  <2>9. QED
    BY <1>8, <2>7, <2>8 DEF Cou!InsertNext, Cou!TypeOK
<1>9. ASSUME NEW c \in Calls, Cou!FinishImport(c) PROVE Cou!TypeOK'
  <2>1. call' \in [Calls -> Cou!Local]
    BY <1>9, CouDoneType, CouSetType DEF Cou!FinishImport
  <2>2. QED
    BY <1>9, <2>1 DEF Cou!FinishImport, Cou!TypeOK
<1>10. ASSUME NEW c \in Calls, Cou!AwaitFails(c) PROVE Cou!TypeOK'
  <2>1. call' \in [Calls -> Cou!Local]
    BY <1>10, CouDoneType, CouSetType DEF Cou!AwaitFails
  <2>2. failures' \in 0 .. MaxFailures
    BY <1>10 DEF Cou!AwaitFails, Cou!TypeOK
  <2>3. QED
    BY <1>10, <2>1, <2>2 DEF Cou!AwaitFails, Cou!TypeOK
<1>11. CASE UNCHANGED Cou!vars
  BY <1>11 DEF Cou!vars, Cou!TypeOK
<1>12. QED
  BY <1>1, <1>2, <1>3, <1>4, <1>5, <1>6, <1>7, <1>8, <1>9, <1>10, <1>11 DEF Cou!Next, Cou!Step

-----------------------------------------------------------------------------
(***************************************************************************)
(* The import                                                              *)
(***************************************************************************)
\* The rows that only an import can have inserted.
Imported == {id \in Cou!Rows : Cou!Exists(id) /\ companies[id] \notin typed}

\* Until two imports overlap there is at most one, it knows every name it has to
\* skip, and no name is listed twice.
ImportInv ==
  overlaps = {} =>
    /\ \A c, d \in Cou!Importing : c = d
    /\ \A c \in Calls : Cou!At(c, "insert") => \A id \in Imported : companies[id] \in call[c].known
    /\ \A i, j \in Imported : companies[i] = companies[j] => i = j

LEMMA ImportInit == Cou!Init => ImportInv
BY DEF Cou!Init, ImportInv, Cou!Importing, Imported, Cou!Exists, Cou!At

\* A step that lists no name anew and starts no import.
LEMMA NothingImported ==
  ASSUME Cou!TypeOK, ImportInv, NEW c \in Calls, NEW local, Cou!Set(c, local),
         overlaps' = overlaps,
         Imported' \subseteq Imported,
         \A id \in Imported' : companies'[id] = companies[id],
         local.at \notin {"open", "insert"}
  PROVE  ImportInv'
<1>1. \A d \in Calls : call'[d] = IF d = c THEN local ELSE call[d]
  BY DEF Cou!Set, Cou!TypeOK
<1>2. Cou!Importing' \subseteq Cou!Importing
  BY <1>1 DEF Cou!Importing
<1>3. \A d \in Calls : Cou!At(d, "insert")' => Cou!At(d, "insert") /\ call'[d] = call[d]
  BY <1>1 DEF Cou!At
<1>4. QED
  BY <1>2, <1>3 DEF ImportInv

LEMMA ImportStep == Cou!TypeOK /\ ImportInv /\ [Cou!Next]_(Cou!vars) => ImportInv'
<1> SUFFICES ASSUME Cou!TypeOK, ImportInv, [Cou!Next]_(Cou!vars) PROVE ImportInv'
  OBVIOUS
<1>0. \A c \in Calls : call[c] \in Cou!Local
  BY DEF Cou!TypeOK
<1>1. Cou!Done.at = "done"
  BY DEF Cou!Done
<1>2. ASSUME companies' = companies, typed \subseteq typed'
      PROVE  /\ Imported' \subseteq Imported
             /\ \A id \in Imported' : companies'[id] = companies[id]
  BY <1>2 DEF Imported, Cou!Exists
<1>3. ASSUME NEW c \in Calls, NEW name \in Names, Cou!CreateCompany(c, name) PROVE ImportInv'
  <2>1. PICK id \in Cou!Rows : companies' = [companies EXCEPT ![id] = name]
    BY <1>3 DEF Cou!CreateCompany, Cou!Insert
  <2>2. \A r \in Cou!Rows : companies'[r] = IF r = id THEN name ELSE companies[r]
    BY <2>1 DEF Cou!TypeOK
  <2>3. /\ Imported' \subseteq Imported
        /\ \A r \in Imported' : companies'[r] = companies[r]
    BY <1>3, <2>2 DEF Cou!CreateCompany, Imported, Cou!Exists
  <2>4. QED
    BY <1>1, <1>3, <2>3, NothingImported DEF Cou!CreateCompany
<1>4. ASSUME NEW c \in Calls, NEW id \in Cou!Rows, NEW name \in Names, Cou!UpdateCompany(c, id,
             name)
      PROVE  ImportInv'
  <2>1. PICK local : Cou!Set(c, local) /\ local.at \in {"done", "save"}
    BY <1>1, <1>4 DEF Cou!UpdateCompany
  <2>2. QED
    BY <1>2, <1>4, <2>1, NothingImported DEF Cou!UpdateCompany
<1>5. ASSUME NEW c \in Calls, Cou!SaveCompany(c) PROVE ImportInv'
  <2>1. \A r \in Cou!Rows : companies'[r] = IF r = call[c].id THEN call[c].name ELSE companies[r]
    BY <1>5 DEF Cou!SaveCompany, Cou!TypeOK
  <2>2. companies[call[c].id] = call[c].name \/ call[c].name \in typed'
    BY <1>5 DEF Cou!SaveCompany
  <2>3. typed \subseteq typed'
    BY <1>5 DEF Cou!SaveCompany
  <2>4. /\ Imported' \subseteq Imported
        /\ \A r \in Imported' : companies'[r] = companies[r]
    BY <2>1, <2>2, <2>3 DEF Imported, Cou!Exists
  <2>5. QED
    BY <1>1, <1>5, <2>4, NothingImported DEF Cou!SaveCompany
<1>6. ASSUME NEW c \in Calls, NEW id \in Cou!Rows, Cou!DeleteCompany(c, id) PROVE ImportInv'
  <2>1. PICK local : Cou!Set(c, local) /\ local.at \in {"done", "remove"}
    BY <1>1, <1>6 DEF Cou!DeleteCompany
  <2>2. QED
    BY <1>2, <1>6, <2>1, NothingImported DEF Cou!DeleteCompany
<1>7. ASSUME NEW c \in Calls, Cou!RemoveCompany(c) PROVE ImportInv'
  <2>1. \A r \in Cou!Rows : companies'[r] = IF r = call[c].id THEN "gone" ELSE companies[r]
    BY <1>7 DEF Cou!RemoveCompany, Cou!TypeOK
  <2>2. /\ Imported' \subseteq Imported
        /\ \A r \in Imported' : companies'[r] = companies[r]
    BY <1>7, <2>1 DEF Cou!RemoveCompany, Imported, Cou!Exists
  <2>3. QED
    BY <1>1, <1>7, <2>2, NothingImported DEF Cou!RemoveCompany
<1>8. ASSUME NEW c \in Calls, Cou!InitFromXlsx(c) PROVE ImportInv'
  <2>1. CASE Cou!Set(c, Cou!Done) /\ UNCHANGED overlaps
    BY <1>1, <1>2, <1>8, <2>1, NothingImported DEF Cou!InitFromXlsx
  <2>2. CASE /\ Cou!Set(c, [at |-> "open"])
             /\ overlaps' = overlaps \cup IF Cou!Importing = {} THEN {} ELSE Cou!Importing \cup {c}
    <3>1. overlaps' = {} => overlaps = {} /\ Cou!Importing = {}
      BY <2>2
    <3>2. \A d \in Calls : call'[d] = IF d = c THEN [at |-> "open"] ELSE call[d]
      BY <2>2 DEF Cou!Set, Cou!TypeOK
    <3>3. Cou!Importing' = Cou!Importing \cup {c}
      BY <1>8, <3>2 DEF Cou!Importing
    <3>4. \A d \in Calls : Cou!At(d, "insert")' => Cou!At(d, "insert") /\ call'[d] = call[d]
      BY <3>2 DEF Cou!At
    <3>5. /\ Imported' \subseteq Imported
          /\ \A id \in Imported' : companies'[id] = companies[id]
      BY <1>2, <1>8 DEF Cou!InitFromXlsx
    <3>6. QED
      BY <3>1, <3>3, <3>4, <3>5 DEF ImportInv
  <2>3. QED
    BY <1>8, <2>1, <2>2 DEF Cou!InitFromXlsx
<1>9. ASSUME NEW c \in Calls, Cou!ReadNames(c) PROVE ImportInv'
  <2>1. PICK local : /\ Cou!Set(c, local)
                     /\ local = [at |-> "insert", next |-> 1,
                                 known |-> {companies[id] : id \in {r \in Cou!Rows : Cou!Exists(r)}}]
    BY <1>9 DEF Cou!ReadNames
  <2>2. \A d \in Calls : call'[d] = IF d = c THEN local ELSE call[d]
    BY <2>1 DEF Cou!Set, Cou!TypeOK
  <2>3. Cou!Importing' = Cou!Importing
    BY <1>9, <2>1, <2>2 DEF Cou!Importing, Cou!ReadNames, Cou!At
  <2>4. Imported' = Imported /\ companies' = companies /\ overlaps' = overlaps
    BY <1>9 DEF Cou!ReadNames, Imported, Cou!Exists
  <2>5. \A id \in Imported : companies[id] \in local.known
    BY <2>1 DEF Imported
  <2>6. QED
    BY <2>2, <2>3, <2>4, <2>5 DEF ImportInv, Cou!At
<1>10. ASSUME NEW c \in Calls, Cou!InsertNext(c) PROVE ImportInv'
  <2>1. PICK name, local :
          /\ Cou!Insert(name) /\ name \notin call[c].known
          /\ Cou!Set(c, local)
          /\ local.at = "insert" /\ local.known = Cou!Known(call[c].known, name)
    <3>1. PICK i \in call[c].next .. Len(Sheet) :
            /\ ~ Cou!Skipped(c, i)
            /\ Cou!Insert(Sheet[i])
            /\ Cou!Set(c, [at |-> "insert", next |-> i + 1, known |-> Cou!Known(call[c].known, Sheet[i])])
      BY <1>10 DEF Cou!InsertNext
    <3> DEFINE local == [at |-> "insert", next |-> i + 1, known |-> Cou!Known(call[c].known, Sheet[i])]
    <3>2. local.at = "insert" /\ local.known = Cou!Known(call[c].known, Sheet[i])
      OBVIOUS
    <3>3. Cou!Set(c, local)
      BY <3>1
    <3>4. Sheet[i] \notin call[c].known
      BY <3>1 DEF Cou!Skipped
    <3> HIDE DEF local
    <3>5. QED
      BY <3>1, <3>2, <3>3, <3>4
  <2>2. PICK new \in Cou!Rows : companies[new] = "none" /\ companies' = [companies EXCEPT ![new] = name]
    BY <2>1 DEF Cou!Insert
  <2>3. \A r \in Cou!Rows : companies'[r] = IF r = new THEN name ELSE companies[r]
    BY <2>2 DEF Cou!TypeOK
  <2>4. \A d \in Calls : call'[d] = IF d = c THEN local ELSE call[d]
    BY <2>1 DEF Cou!Set, Cou!TypeOK
  <2>5. SUFFICES ASSUME overlaps = {} PROVE ImportInv'
    BY <1>10 DEF Cou!InsertNext, ImportInv
  <2>6. Cou!Importing' = Cou!Importing /\ c \in Cou!Importing
    BY <1>10, <2>1, <2>4 DEF Cou!Importing, Cou!InsertNext, Cou!At
  <2>7. \A d \in Calls : Cou!At(d, "insert")' => d = c
    BY <2>4, <2>5, <2>6 DEF ImportInv, Cou!At, Cou!Importing
  <2>8. Imported' \subseteq Imported \cup {new} /\ new \notin Imported
    BY <1>10, <2>2, <2>3 DEF Cou!InsertNext, Imported, Cou!Exists
  <2>9. \A id \in Imported : companies[id] \in call[c].known
    BY <1>10, <2>5 DEF Cou!InsertNext, ImportInv
  <2>10. \A id \in Imported' : companies'[id] \in Cou!Known(call[c].known, name)
    <3>1. Imported' \subseteq Cou!Rows
      BY DEF Imported, Cou!Rows
    <3>2. ASSUME NEW id \in Imported' PROVE companies'[id] \in call[c].known \cup {name}
      BY <2>3, <2>8, <2>9, <3>1
    <3>3. QED
      BY <3>2 DEF Cou!Known
  <2>11. \A i, j \in Imported' : companies'[i] = companies'[j] => i = j
    <3>1. Imported \subseteq Cou!Rows /\ Imported' \subseteq Cou!Rows
      BY DEF Imported, Cou!Rows
    <3>2. \A i, j \in Imported : companies[i] = companies[j] => i = j
      BY <2>5 DEF ImportInv
    <3>3. \A i \in Imported : companies[i] # name
      BY <2>1, <2>9
    <3>4. QED
      BY <2>3, <2>8, <3>1, <3>2, <3>3
  <2>12. \A d, e \in Cou!Importing' : d = e
    BY <2>5, <2>6 DEF ImportInv
  <2>13. \A d \in Calls : Cou!At(d, "insert")' => \A id \in Imported' : companies'[id] \in call'[d].known
    BY <2>1, <2>4, <2>7, <2>10
  <2>14. QED
    BY <2>11, <2>12, <2>13 DEF ImportInv
<1>11. ASSUME NEW c \in Calls, Cou!FinishImport(c) \/ Cou!AwaitFails(c) PROVE ImportInv'
  BY <1>1, <1>2, <1>11, NothingImported DEF Cou!FinishImport, Cou!AwaitFails
<1>12. CASE UNCHANGED Cou!vars
  BY <1>12 DEF Cou!vars, ImportInv, Cou!Importing, Imported, Cou!Exists, Cou!At
<1>13. QED
  BY <1>3, <1>4, <1>5, <1>6, <1>7, <1>8, <1>9, <1>10, <1>11, <1>12 DEF Cou!Next, Cou!Step

\* The table and the calls keep their types.
THEOREM CouTypeCorrect ==
  ASSUME SheetWellFormed, MaxFailures \in Nat PROVE Cou!Spec => []Cou!TypeOK
BY CouTypeInit, CouTypeStep, PTL DEF Cou!Spec

\* The import lists a company once, for every sheet and any number of requests.
THEOREM ImportedOnceCorrect ==
  ASSUME SheetWellFormed, MaxFailures \in Nat PROVE Cou!Spec => []Cou!ImportedOnce
<1>1. ImportInv => Cou!ImportedOnce
  BY DEF ImportInv, Cou!ImportedOnce, Imported, Cou!Exists
<1>2. QED
  BY <1>1, CouTypeInit, CouTypeStep, ImportInit, ImportStep, PTL DEF Cou!Spec

-----------------------------------------------------------------------------
(***************************************************************************)
(* Member: growth and levels.                                              *)
(***************************************************************************)

\* Rewards are whole numbers, negative ones included.
MemNumbersOK == Rewards \subseteq Int /\ MaxFailures \in Nat

-----------------------------------------------------------------------------
(***************************************************************************)
(* The level that a growth earns                                           *)
(***************************************************************************)
Reached(value) == {i \in DOMAIN Mem!levelThresholds : Mem!levelThresholds[i] <= value}

Earned(value) == Cardinality(Reached(value))

LEMMA Thresholds ==
  /\ DOMAIN Mem!levelThresholds = 1 .. 10 /\ Len(Mem!levelThresholds) = 10
  /\ Mem!levelThresholds[1] = 0 /\ Mem!levelThresholds[2] = 100 /\ Mem!levelThresholds[3] = 300
  /\ Mem!levelThresholds[4] = 600 /\ Mem!levelThresholds[5] = 1000 /\ Mem!levelThresholds[6] = 1500
  /\ Mem!levelThresholds[7] = 2100 /\ Mem!levelThresholds[8] = 2800 /\ Mem!levelThresholds[9] = 3600
  /\ Mem!levelThresholds[10] = 4500
BY DEF Mem!levelThresholds

\* A table that grows: a growth reaches the levels up to one of them.
LEMMA ReachedIsInitial ==
  ASSUME NEW value \in Int
  PROVE  \E k \in 0 .. 10 : Reached(value) = 1 .. k /\ (value >= 0 => k >= 1)
<1>1. ASSUME NEW i \in 1 .. 10, NEW j \in 1 .. 10, i <= j
      PROVE  Mem!levelThresholds[i] \in Int /\ Mem!levelThresholds[i] <= Mem!levelThresholds[j]
  BY <1>1, Thresholds
<1>2. CASE \A i \in 1 .. 10 : ~ Mem!levelThresholds[i] <= value
  BY <1>2, Thresholds DEF Reached
<1>3. CASE \E i \in 1 .. 10 : Mem!levelThresholds[i] <= value
  <2>1. PICK k \in 1 .. 10 : Mem!levelThresholds[k] <= value /\ (k = 10 \/ ~ Mem!levelThresholds[k + 1] <= value)
    BY <1>3, <1>1, Thresholds
  <2>2. ASSUME NEW i \in 1 .. 10 PROVE Mem!levelThresholds[i] <= value <=> i <= k
    <3>1. CASE i <= k
      BY <1>1, <2>1, <3>1
    <3>2. CASE i > k
      <4>1. k + 1 \in 1 .. 10 /\ k + 1 <= i
        BY <3>2
      <4>2. Mem!levelThresholds[k + 1] <= Mem!levelThresholds[i] /\ ~ Mem!levelThresholds[k + 1] <= value
        BY <1>1, <2>1, <4>1
      <4>3. Mem!levelThresholds[k + 1] \in Int /\ Mem!levelThresholds[i] \in Int
        BY <1>1, <4>1
      <4>4. QED
        BY <3>2, <4>2, <4>3
    <3>3. QED
      BY <3>1, <3>2
  <2>3. Reached(value) = 1 .. k
    BY <2>2, Thresholds DEF Reached
  <2>4. k \in 0 .. 10 /\ k >= 1
    OBVIOUS
  <2>5. QED
    BY <2>3, <2>4
<1>4. value >= 0 => Mem!levelThresholds[1] <= value
  BY Thresholds
<1>5. QED
  BY <1>2, <1>3, <1>4

LEMMA LastIsMax == ASSUME NEW k \in 1 .. 10 PROVE Mem!Max(1 .. k) = k
BY DEF Mem!Max

\* The scan from the top finds as many as there are.
LEMMA CalculatedIsEarned ==
  ASSUME NEW value \in Int
  PROVE  /\ Mem!CalculateLevel(value) \in 1 .. Len(Mem!levelThresholds)
         /\ value >= 0 => Mem!CalculateLevel(value) = Earned(value)
<1>1. PICK k \in 0 .. 10 : Reached(value) = 1 .. k /\ (value >= 0 => k >= 1)
  BY ReachedIsInitial
<1>2. {i \in 1 .. Len(Mem!levelThresholds) : value >= Mem!levelThresholds[i]} = 1 .. k
  BY <1>1, Thresholds DEF Reached
<1>3. Mem!SelectLastInSubSeq(Mem!levelThresholds, 1, Len(Mem!levelThresholds), LAMBDA t : value >= t) = k
  <2>1. CASE k = 0
    BY <1>2, <2>1 DEF Mem!SelectLastInSubSeq
  <2>2. CASE k \in 1 .. 10
    <3>1. Mem!Max(1 .. k) = k
      BY <2>2, LastIsMax
    <3>2. 1 .. k # {}
      <4>1. k \in Int /\ 1 <= k
        BY <2>2
      <4>2. 1 \in 1 .. k
        BY <4>1
      <4>3. QED
        BY <4>2
    <3>3. QED
      BY <1>2, <3>1, <3>2 DEF Mem!SelectLastInSubSeq
  <2>3. QED
    BY <2>1, <2>2
<1>4. Cardinality(1 .. k) = k
  <2>1. Cardinality(1 .. k) = IF 1 > k THEN 0 ELSE k - 1 + 1
    BY FS_Interval
  <2>2. QED
    BY <2>1
<1>5. Mem!CalculateLevel(value) = IF k = 0 THEN 1 ELSE k
  BY <1>3 DEF Mem!CalculateLevel
<1>6. QED
  BY <1>1, <1>4, <1>5, Thresholds DEF Earned

-----------------------------------------------------------------------------
(***************************************************************************)
(* Types                                                                   *)
(***************************************************************************)
LEMMA NewProfileType ==
  /\ Mem!NewProfile \in Mem!Profiles /\ [Mem!NewProfile EXCEPT !.exists = FALSE] \in Mem!Profiles
  /\ Mem!NewProfile.growthValue = 0 /\ Mem!NewProfile.level = 1
<1>1. 1 \in 1 .. Len(Mem!levelThresholds)
  BY Thresholds
<1>2. /\ Mem!NewProfile \in Mem!Profiles /\ Mem!NewProfile.growthValue = 0 /\ Mem!NewProfile.level = 1
  BY <1>1 DEF Mem!NewProfile, Mem!Profiles
<1>3. [Mem!NewProfile EXCEPT !.exists = FALSE] \in Mem!Profiles
  BY <1>2 DEF Mem!Profiles
<1>4. QED
  BY <1>2, <1>3

LEMMA MemDoneType == Mem!Done \in Mem!Local /\ Mem!Done.pc = "done"
BY DEF Mem!Done, Mem!Local

LEMMA MemTypeInit == ASSUME MemNumbersOK PROVE Mem!Init => Mem!TypeOK
<1> SUFFICES ASSUME Mem!Init PROVE Mem!TypeOK
  OBVIOUS
<1>1. [pc |-> "idle"] \in Mem!Local
  BY DEF Mem!Local
<1>2. tasks \in [Tasks -> Mem!TaskRows]
  BY DEF Mem!Init
<1>3. growth \in Seq(Mem!GrowthRecords)
  BY DEF Mem!Init
<1>4. records \in [Users \X Tasks -> Nat]
  BY DEF Mem!Init
<1>5. profiles \in [Users -> Mem!Profiles]
  BY NewProfileType DEF Mem!Init
<1>6. call \in [Calls -> Mem!Local]
  BY <1>1 DEF Mem!Init
<1>7. overlapped \subseteq Users /\ mixed \subseteq Users /\ failures \in 0 .. MaxFailures
  BY DEF Mem!Init, MemNumbersOK
<1>8. QED
  BY <1>2, <1>3, <1>4, <1>5, <1>6, <1>7 DEF Mem!TypeOK

\* The stages of a reward.
Stages == {"findRecord", "saveRecord", "findProfile", "insertProfile", "saveProfile",
           "writeProfile", "saveGrowth"}

\* Those between the load of the profile and the end of its save.
Saving == {"insertProfile", "saveProfile", "writeProfile"}

RewardLocals ==
  [pc : Stages, user : Users, task : Tasks, growthReward : Rewards, new : BOOLEAN,
   profile : Mem!Profiles, seen : Mem!Profiles]

\* What a call has at hand.
LEMMA MemCallTypes ==
  ASSUME Mem!TypeOK, NEW c \in Calls
  PROVE  /\ call[c] \in Mem!Local
         /\ call[c].pc \in Stages =>
              /\ call[c].user \in Users /\ call[c].task \in Tasks /\ call[c].growthReward \in Rewards
              /\ call[c].new \in BOOLEAN
              /\ call[c].profile \in Mem!Profiles /\ call[c].seen \in Mem!Profiles
         /\ Mem!At(c, "insertEmpty") => call[c].user \in Users
         /\ call[c].pc \in {"saveTask", "removeTask"} => call[c].task \in Tasks /\ call[c].row \in Mem!TaskRows
<1>1. call[c] \in Mem!Local
  BY DEF Mem!TypeOK
<1>2. QED
  BY <1>1 DEF Mem!Local, Stages, Mem!At

\* A call that is left with a local state of its type.
MemSets(c, local) == call' = [call EXCEPT ![c] = local]

LEMMA MemSetType ==
  ASSUME Mem!TypeOK, NEW c \in Calls, NEW local \in Mem!Local, MemSets(c, local)
  PROVE  call' \in [Calls -> Mem!Local]
BY DEF Mem!TypeOK, MemSets

LEMMA MemReturnType ==
  ASSUME Mem!TypeOK, NEW c \in Calls, Mem!Return(c)
  PROVE  call' \in [Calls -> Mem!Local]
BY MemDoneType, MemSetType DEF Mem!Return, MemSets

LEMMA MemGoToType ==
  ASSUME Mem!TypeOK, NEW c \in Calls, call[c].pc \in Stages, NEW pc \in Stages, Mem!GoTo(c, pc)
  PROVE  call' \in [Calls -> Mem!Local]
<1>1. call[c] \in RewardLocals
  BY MemCallTypes DEF Mem!TypeOK, Mem!Local, Stages, RewardLocals
<1>2. [call[c] EXCEPT !.pc = pc] \in Mem!Local
  <2>1. [call[c] EXCEPT !.pc = pc] \in RewardLocals
    BY <1>1 DEF RewardLocals
  <2>2. QED
    BY <2>1 DEF Mem!Local, Stages, RewardLocals
<1>3. MemSets(c, [call[c] EXCEPT !.pc = pc])
  BY DEF Mem!GoTo, MemSets
<1>4. QED
  BY <1>2, <1>3, MemSetType

\* What addGrowth computes from the profile it has found, or from a new one.
Found(u) == IF profiles[u].exists THEN profiles[u] ELSE Mem!NewProfile

Grown(c) ==
  LET value == Found(call[c].user).growthValue + call[c].growthReward
  IN [exists |-> TRUE, growthValue |-> value, level |-> Mem!CalculateLevel(value)]

LEMMA GrownType ==
  ASSUME MemNumbersOK, Mem!TypeOK, NEW c \in Calls, Mem!At(c, "findProfile")
  PROVE  /\ Grown(c) \in Mem!Profiles
         /\ Grown(c).growthValue >= 0 => Grown(c).level = Earned(Grown(c).growthValue)
<1> DEFINE value == Found(call[c].user).growthValue + call[c].growthReward
<1>1. call[c].user \in Users /\ call[c].growthReward \in Int
  BY MemCallTypes DEF Mem!At, Stages, MemNumbersOK
<1>2. Found(call[c].user) \in Mem!Profiles
  BY <1>1, NewProfileType DEF Found, Mem!TypeOK
<1>3. value \in Int
  BY <1>1, <1>2 DEF Mem!Profiles
<1>4. Grown(c) = [exists |-> TRUE, growthValue |-> value, level |-> Mem!CalculateLevel(value)]
  BY DEF Grown
<1> HIDE DEF value
<1>5. Grown(c) \in Mem!Profiles
  BY <1>3, <1>4, CalculatedIsEarned DEF Mem!Profiles
<1>6. QED
  BY <1>3, <1>4, <1>5, CalculatedIsEarned

LEMMA FindProfileSets ==
  ASSUME Mem!TypeOK, NEW c \in Calls, Mem!FindProfile(c)
  PROVE  \E pc \in {"saveProfile", "insertProfile"} :
           /\ MemSets(c, [call[c] EXCEPT !.pc = pc, !.profile = Grown(c)])
           /\ pc = "saveProfile" => profiles[call[c].user].exists
BY DEF Mem!FindProfile, MemSets, Grown, Found, Mem!TypeOK

\* What a save leaves of a profile; a row that has not changed since the
\* snapshot becomes the entity.
LEMMA MergedProfile ==
  ASSUME NEW current \in Mem!Profiles, NEW entity \in Mem!Profiles, NEW seen \in Mem!Profiles
  PROVE  LET merged == Mem!Merge(current, entity, seen)
         IN /\ merged \in Mem!Profiles
            /\ current = seen => merged = entity
            /\ merged.exists = IF entity.exists # seen.exists THEN entity.exists ELSE current.exists
            /\ merged.growthValue = IF entity.growthValue # seen.growthValue THEN entity.growthValue
                                                                            ELSE current.growthValue
BY DEF Mem!Merge, Mem!Profiles

Snapped(c) == [call[c] EXCEPT !.pc = "writeProfile", !.seen = profiles[call[c].user]]

LEMMA SnapshotSets ==
  ASSUME Mem!TypeOK, NEW c \in Calls, Mem!Snapshot(c)
  PROVE  /\ MemSets(c, Snapped(c)) /\ Snapped(c) \in RewardLocals
         /\ call[c].pc = "saveProfile" /\ call[c].user \in Users
         /\ Snapped(c).pc = "writeProfile" /\ Snapped(c).user = call[c].user
         /\ Snapped(c).growthReward = call[c].growthReward
         /\ Snapped(c).profile = call[c].profile /\ Snapped(c).seen = profiles[call[c].user]
<1>1. call[c].pc = "saveProfile" /\ call[c].pc \in Stages /\ "writeProfile" \in Stages
  BY DEF Mem!Snapshot, Mem!At, Stages
<1>2. call[c] \in RewardLocals
  BY <1>1, MemCallTypes DEF Mem!TypeOK, Mem!Local, Stages, RewardLocals
<1>3. call[c].user \in Users /\ profiles[call[c].user] \in Mem!Profiles
  BY <1>2 DEF RewardLocals, Mem!TypeOK
<1>4. PICK seen \in Mem!Profiles : seen = profiles[call[c].user]
  BY <1>3
<1>5. PICK local : local = [call[c] EXCEPT !.pc = "writeProfile", !.seen = seen]
  OBVIOUS
<1>6. /\ local \in RewardLocals
      /\ local.pc = "writeProfile" /\ local.user = call[c].user
      /\ local.growthReward = call[c].growthReward
      /\ local.profile = call[c].profile /\ local.seen = seen
  BY <1>1, <1>2, <1>5 DEF RewardLocals
<1>7. Snapped(c) = local
  BY <1>4, <1>5 DEF Snapped
<1>8. MemSets(c, Snapped(c))
  BY DEF Mem!Snapshot, MemSets, Snapped, Mem!TypeOK
<1>9. QED
  BY <1>1, <1>3, <1>4, <1>6, <1>7, <1>8

LEMMA MemTypeStep ==
  ASSUME MemNumbersOK PROVE Mem!TypeOK /\ [Mem!Next]_(Mem!vars) => Mem!TypeOK'
<1> SUFFICES ASSUME Mem!TypeOK, [Mem!Next]_(Mem!vars) PROVE Mem!TypeOK'
  OBVIOUS
<1>1. ASSUME NEW c \in Calls, NEW u \in Users, Mem!GetProfile(c, u) PROVE Mem!TypeOK'
  <2>1. [pc |-> "insertEmpty", user |-> u] \in Mem!Local
    BY DEF Mem!Local
  <2>2. \E local \in Mem!Local : MemSets(c, local)
    BY <1>1, <2>1, MemDoneType DEF Mem!GetProfile, MemSets
  <2>3. call' \in [Calls -> Mem!Local]
    BY <2>2, MemSetType
  <2>4. QED
    BY <1>1, <2>3 DEF Mem!GetProfile, Mem!tables, Mem!TypeOK
<1>2. ASSUME NEW c \in Calls, NEW u \in Users, NEW t \in Tasks, Mem!CompleteTask(c, u, t)
      PROVE Mem!TypeOK'
  <2>1. tasks[t].growthReward \in Rewards
    BY DEF Mem!TypeOK, Mem!TaskRows
  <2>2. [pc |-> "findRecord", user |-> u, task |-> t, growthReward |-> tasks[t].growthReward,
             new |-> FALSE, profile |-> Mem!NewProfile, seen |-> Mem!NewProfile] \in Mem!Local
    BY <2>1, NewProfileType DEF Mem!Local
  <2>3. \E local \in Mem!Local : MemSets(c, local)
    BY <1>2, <2>2, MemDoneType DEF Mem!CompleteTask, MemSets
  <2>4. call' \in [Calls -> Mem!Local]
    BY <2>3, MemSetType
  <2>5. QED
    BY <1>2, <2>4 DEF Mem!CompleteTask, Mem!tables, Mem!TypeOK
<1>3. ASSUME NEW c \in Calls, NEW t \in Tasks, Mem!FindTask(c, t) PROVE Mem!TypeOK'
  <2>1. \A status \in {"ACTIVE", "INACTIVE"}, reward \in Rewards :
           [pc |-> "saveTask", task |-> t, row |-> [status |-> status, growthReward |-> reward]] \in Mem!Local
    BY DEF Mem!Local, Mem!TaskRows
  <2>2. [pc |-> "removeTask", task |-> t, row |-> tasks[t]] \in Mem!Local
    BY DEF Mem!TypeOK, Mem!Local
  <2>3. \E local \in Mem!Local : MemSets(c, local)
    BY <1>3, <2>1, <2>2 DEF Mem!FindTask, MemSets
  <2>4. call' \in [Calls -> Mem!Local]
    BY <2>3, MemSetType
  <2>5. QED
    BY <1>3, <2>4 DEF Mem!FindTask, Mem!tables, Mem!TypeOK
<1>4. ASSUME NEW c \in Calls, Mem!InsertEmpty(c) PROVE Mem!TypeOK'
  <2>1. call' \in [Calls -> Mem!Local]
    BY <1>4, MemReturnType DEF Mem!InsertEmpty
  <2>2. profiles' \in [Users -> Mem!Profiles]
    BY <1>4, NewProfileType DEF Mem!InsertEmpty, Mem!TypeOK
  <2>3. QED
    BY <1>4, <2>1, <2>2 DEF Mem!InsertEmpty, Mem!TypeOK
<1>5. ASSUME NEW c \in Calls, Mem!FindRecord(c) PROVE Mem!TypeOK'
  <2> DEFINE new == records[<<call[c].user, call[c].task>>] = 0
             local == [call[c] EXCEPT !.pc = "saveRecord", !.new = new]
  <2>1. call[c].pc \in Stages /\ "saveRecord" \in Stages /\ new \in BOOLEAN
    BY <1>5 DEF Mem!FindRecord, Mem!At, Stages
  <2>2. call[c] \in RewardLocals
    BY <2>1, MemCallTypes DEF Mem!TypeOK, Mem!Local, Stages, RewardLocals
  <2>3. local \in RewardLocals
    BY <2>1, <2>2 DEF RewardLocals
  <2>4. local \in Mem!Local
    BY <2>3 DEF Mem!Local, Stages, RewardLocals
  <2>5. MemSets(c, local)
    BY <1>5 DEF Mem!FindRecord, MemSets, Mem!TypeOK
  <2> HIDE DEF local
  <2>6. call' \in [Calls -> Mem!Local]
    BY <2>4, <2>5, MemSetType
  <2>7. QED
    BY <1>5, <2>6 DEF Mem!FindRecord, Mem!tables, Mem!TypeOK
<1>6. ASSUME NEW c \in Calls, Mem!SaveRecord(c) PROVE Mem!TypeOK'
  <2>1. call' \in [Calls -> Mem!Local]
    BY <1>6, MemGoToType DEF Mem!SaveRecord, Mem!At, Stages
  <2>2. records' \in [Users \X Tasks -> Nat]
    <3>1. <<call[c].user, call[c].task>> \in Users \X Tasks
      BY <1>6, MemCallTypes DEF Mem!SaveRecord, Mem!At, Stages
    <3>2. records[<<call[c].user, call[c].task>>] + 1 \in Nat
      BY <3>1 DEF Mem!TypeOK
    <3>3. QED
      BY <1>6, <3>1, <3>2 DEF Mem!SaveRecord, Mem!TypeOK
  <2>3. QED
    BY <1>6, <2>1, <2>2 DEF Mem!SaveRecord, Mem!TypeOK
<1>7. ASSUME NEW c \in Calls, Mem!FindProfile(c) PROVE Mem!TypeOK'
  <2>1. PICK pc \in {"saveProfile", "insertProfile"} :
          MemSets(c, [call[c] EXCEPT !.pc = pc, !.profile = Grown(c)])
    BY <1>7, FindProfileSets
  <2>2. Mem!At(c, "findProfile") /\ call[c].pc \in Stages /\ pc \in Stages
    BY <1>7 DEF Mem!FindProfile, Mem!At, Stages
  <2>3. Grown(c) \in Mem!Profiles
    BY <2>2, GrownType
  <2>4. call[c] \in RewardLocals
    BY <2>2, MemCallTypes DEF Mem!TypeOK, Mem!Local, Stages, RewardLocals
  <2>5. [call[c] EXCEPT !.pc = pc, !.profile = Grown(c)] \in RewardLocals
    BY <2>2, <2>3, <2>4 DEF RewardLocals
  <2>6. [call[c] EXCEPT !.pc = pc, !.profile = Grown(c)] \in Mem!Local
    BY <2>5 DEF Mem!Local, Stages, RewardLocals
  <2>7. call' \in [Calls -> Mem!Local]
    BY <2>1, <2>6, MemSetType
  <2>8. overlapped' \subseteq Users
    BY <1>7, <2>2, MemCallTypes DEF Mem!FindProfile, Mem!TypeOK
  <2>9. QED
    BY <1>7, <2>7, <2>8 DEF Mem!FindProfile, Mem!tables, Mem!TypeOK
<1>8. ASSUME NEW c \in Calls, Mem!InsertProfile(c) \/ Mem!WriteProfile(c) PROVE Mem!TypeOK'
  <2>1. call[c].pc \in Stages /\ "saveGrowth" \in Stages
    BY <1>8 DEF Mem!InsertProfile, Mem!WriteProfile, Mem!At, Stages
  <2>2. Mem!Return(c) \/ Mem!GoTo(c, "saveGrowth")
    BY <1>8 DEF Mem!InsertProfile, Mem!WriteProfile
  <2>3. call' \in [Calls -> Mem!Local]
    BY <2>1, <2>2, MemReturnType, MemGoToType
  <2>4. /\ call[c].user \in Users /\ call[c].profile \in Mem!Profiles
        /\ Mem!Merge(profiles[call[c].user], call[c].profile, call[c].seen) \in Mem!Profiles
    BY <2>1, MemCallTypes, MergedProfile DEF Mem!TypeOK
  <2>5. profiles' \in [Users -> Mem!Profiles]
    BY <1>8, <2>4 DEF Mem!InsertProfile, Mem!WriteProfile, Mem!TypeOK
  <2>6. mixed' \subseteq Users
    BY <1>8, <2>4 DEF Mem!InsertProfile, Mem!WriteProfile, Mem!TypeOK
  <2>7. QED
    BY <1>8, <2>3, <2>5, <2>6 DEF Mem!InsertProfile, Mem!WriteProfile, Mem!TypeOK
<1>15. ASSUME NEW c \in Calls, Mem!Snapshot(c) PROVE Mem!TypeOK'
  <2>1. MemSets(c, Snapped(c)) /\ Snapped(c) \in RewardLocals
    BY <1>15, SnapshotSets
  <2>2. Snapped(c) \in Mem!Local
    BY <2>1 DEF Mem!Local, Stages, RewardLocals
  <2>3. call' \in [Calls -> Mem!Local]
    BY <2>1, <2>2, MemSetType
  <2>4. QED
    BY <1>15, <2>3 DEF Mem!Snapshot, Mem!tables, Mem!TypeOK
<1>9. ASSUME NEW c \in Calls, Mem!SaveGrowth(c) PROVE Mem!TypeOK'
  <2> DEFINE record == [user |-> call[c].user, task |-> call[c].task,
       delta |-> call[c].growthReward, balanceAfter |-> call[c].profile.growthValue]
  <2>1. call[c].pc \in Stages
    BY <1>9 DEF Mem!SaveGrowth, Mem!At, Stages
  <2>2. record \in Mem!GrowthRecords
    BY <2>1, MemCallTypes DEF Mem!GrowthRecords, Mem!Profiles
  <2>3. growth' = Append(growth, record)
    BY <1>9 DEF Mem!SaveGrowth
  <2> HIDE DEF record
  <2>4. growth' \in Seq(Mem!GrowthRecords)
    BY <2>2, <2>3 DEF Mem!TypeOK
  <2>5. call' \in [Calls -> Mem!Local]
    BY <1>9, MemReturnType DEF Mem!SaveGrowth
  <2>6. QED
    BY <1>9, <2>4, <2>5 DEF Mem!SaveGrowth, Mem!TypeOK
<1>10. ASSUME NEW c \in Calls, Mem!SaveTask(c) \/ Mem!RemoveTask(c) PROVE Mem!TypeOK'
  <2>1. call' \in [Calls -> Mem!Local]
    BY <1>10, MemReturnType DEF Mem!SaveTask, Mem!RemoveTask
  <2>2. call[c].task \in Tasks /\ call[c].row \in Mem!TaskRows
    BY <1>10, MemCallTypes DEF Mem!SaveTask, Mem!RemoveTask, Mem!At
  <2>3. tasks' \in [Tasks -> Mem!TaskRows]
    <3>1. [tasks[call[c].task] EXCEPT !.status = "REMOVED"] \in Mem!TaskRows
      BY <2>2 DEF Mem!TypeOK, Mem!TaskRows
    <3>2. CASE Mem!SaveTask(c)
      BY <3>2, <2>2 DEF Mem!SaveTask, Mem!TypeOK
    <3>3. CASE Mem!RemoveTask(c)
      BY <3>3, <3>1 DEF Mem!RemoveTask, Mem!TypeOK
    <3>4. QED
      BY <1>10, <3>2, <3>3
  <2>4. QED
    BY <1>10, <2>1, <2>3 DEF Mem!SaveTask, Mem!RemoveTask, Mem!TypeOK
<1>11. ASSUME NEW c \in Calls, Mem!AwaitFails(c) PROVE Mem!TypeOK'
  BY <1>11, MemReturnType DEF Mem!AwaitFails, Mem!tables, Mem!TypeOK, MemNumbersOK
<1>12. ASSUME NEW t \in Tasks, NEW reward \in Rewards, Mem!CreateTask(t, reward)
       PROVE Mem!TypeOK'
  BY <1>12 DEF Mem!CreateTask, Mem!TypeOK, Mem!TaskRows
<1>13. CASE UNCHANGED Mem!vars
  BY <1>13 DEF Mem!vars, Mem!tables, Mem!TypeOK
<1>14. QED
  BY <1>1, <1>2, <1>3, <1>4, <1>5, <1>6, <1>7, <1>8, <1>9, <1>10, <1>11, <1>12,
     <1>13, <1>15 DEF Mem!Next

\* Types hold in every reachable state.
THEOREM MemTypeCorrect == ASSUME MemNumbersOK PROVE Mem!Spec => []Mem!TypeOK
BY MemTypeInit, MemTypeStep, PTL DEF Mem!Spec

-----------------------------------------------------------------------------
(***************************************************************************)
(* Levels                                                                  *)
(***************************************************************************)
LevelFits(profile) == profile.growthValue >= 0 => profile.level = Earned(profile.growthValue)

\* A row holds no negative growth, which the column refuses, and has its level
\* unless it changed in the middle of a save; the profile of a call that is
\* about to save may be negative, and otherwise has its level.
LevelInv ==
  /\ \A u \in Users : profiles[u].growthValue >= 0 /\ (u \notin mixed => LevelFits(profiles[u]))
  /\ \A c \in Calls : call[c].pc \in Saving => LevelFits(call[c].profile)

LEMMA NewProfileFits == LevelFits(Mem!NewProfile)
<1>1. PICK k \in 0 .. 10 : Reached(0) = 1 .. k
  BY ReachedIsInitial
<1>2. 1 \in Reached(0) /\ 2 \notin Reached(0)
  BY Thresholds DEF Reached
<1>3. Reached(0) = 1 .. 1
  BY <1>1, <1>2
<1>4. Cardinality(1 .. 1) = 1
  <2>1. 1 .. 1 = {1}
    OBVIOUS
  <2>2. QED
    BY <2>1, FS_Singleton
<1>5. QED
  BY <1>3, <1>4, NewProfileType DEF LevelFits, Earned

LEMMA LevelInit == Mem!Init => LevelInv
<1> SUFFICES ASSUME Mem!Init PROVE LevelInv
  OBVIOUS
<1>1. ASSUME NEW u \in Users PROVE profiles[u].growthValue = 0 /\ profiles[u].level = 1
  BY DEF Mem!Init, Mem!NewProfile
<1>2. ASSUME NEW u \in Users PROVE profiles[u].growthValue >= 0 /\ LevelFits(profiles[u])
  BY <1>1, NewProfileFits, NewProfileType DEF LevelFits
<1>3. ASSUME NEW c \in Calls PROVE call[c].pc = "idle"
  BY DEF Mem!Init
<1>4. QED
  BY <1>2, <1>3 DEF LevelInv, Saving

\* A step that saves no profile and loads none.
LEMMA LevelKept ==
  ASSUME LevelInv, profiles' = profiles, mixed' = mixed,
         \A c \in Calls : call'[c] = call[c] \/ call'[c].pc \notin Saving
  PROVE  LevelInv'
<1>1. \A u \in Users : profiles'[u].growthValue >= 0 /\ (u \notin mixed' => LevelFits(profiles'[u]))
  BY DEF LevelInv
<1>2. ASSUME NEW c \in Calls, call'[c].pc \in Saving
      PROVE  LevelFits(call'[c].profile)
  <2>1. call'[c] = call[c]
    BY <1>2
  <2>2. LevelFits(call[c].profile)
    BY <1>2, <2>1 DEF LevelInv
  <2>3. QED
    BY <2>1, <2>2
<1>3. QED
  BY <1>1, <1>2 DEF LevelInv, LevelFits

LEMMA LevelStep ==
  ASSUME MemNumbersOK, Mem!TypeOK, LevelInv, [Mem!Next]_(Mem!vars) PROVE LevelInv'
<1>1. ASSUME NEW c \in Calls, NEW u \in Users, Mem!GetProfile(c, u) PROVE LevelInv'
  BY <1>1, LevelKept DEF Mem!GetProfile, Mem!tables, Mem!TypeOK, Mem!Done, Saving
<1>2. ASSUME NEW c \in Calls, NEW u \in Users, NEW t \in Tasks, Mem!CompleteTask(c, u, t)
      PROVE LevelInv'
  BY <1>2, LevelKept DEF Mem!CompleteTask, Mem!tables, Mem!TypeOK, Mem!Done, Saving
<1>3. ASSUME NEW c \in Calls, NEW t \in Tasks, Mem!FindTask(c, t) PROVE LevelInv'
  BY <1>3, LevelKept DEF Mem!FindTask, Mem!tables, Mem!TypeOK, Saving
<1>4. ASSUME NEW c \in Calls, Mem!InsertEmpty(c) PROVE LevelInv'
  <2>1. \A d \in Calls : call'[d] = call[d] \/ call'[d].pc \notin Saving
    BY <1>4 DEF Mem!InsertEmpty, Mem!Return, Mem!Done, Mem!TypeOK, Saving
  <2>2. \A u \in Users : profiles'[u] = profiles[u] \/ profiles'[u] = Mem!NewProfile
    BY <1>4 DEF Mem!InsertEmpty, Mem!TypeOK
  <2>3. \A u \in Users : profiles'[u].growthValue >= 0 /\ (u \notin mixed' => LevelFits(profiles'[u]))
    BY <1>4, <2>2, NewProfileFits, NewProfileType DEF LevelInv, Mem!InsertEmpty
  <2>4. ASSUME NEW d \in Calls, call'[d].pc \in Saving
        PROVE  LevelFits(call'[d].profile)
    BY <2>1, <2>4 DEF LevelInv
  <2>5. QED
    BY <2>3, <2>4 DEF LevelInv, LevelFits
<1>5. ASSUME NEW c \in Calls, Mem!FindRecord(c) PROVE LevelInv'
  BY <1>5, LevelKept DEF Mem!FindRecord, Mem!At, Mem!tables, Mem!TypeOK, Mem!Local, Saving
<1>6. ASSUME NEW c \in Calls, Mem!SaveRecord(c) PROVE LevelInv'
  BY <1>6, LevelKept DEF Mem!SaveRecord, Mem!GoTo, Mem!At, Mem!TypeOK, Mem!Local, Saving
<1>7. ASSUME NEW c \in Calls, Mem!FindProfile(c) PROVE LevelInv'
  <2>1. PICK pc \in {"saveProfile", "insertProfile"} :
          MemSets(c, [call[c] EXCEPT !.pc = pc, !.profile = Grown(c)])
    BY <1>7, FindProfileSets
  <2>2. Mem!At(c, "findProfile")
    BY <1>7 DEF Mem!FindProfile
  <2>3. LevelFits(Grown(c))
    BY <2>2, GrownType DEF LevelFits
  <2>4. call[c] \in RewardLocals
    BY <2>2, MemCallTypes DEF Mem!At, Mem!TypeOK, Mem!Local, Stages, RewardLocals
  <2>5. [call[c] EXCEPT !.pc = pc, !.profile = Grown(c)].profile = Grown(c)
    BY <2>4 DEF RewardLocals
  <2>6. \A d \in Calls : call'[d] = call[d] \/ call'[d].profile = Grown(c)
    BY <2>1, <2>5 DEF MemSets, Mem!TypeOK
  <2>7. ASSUME NEW d \in Calls, call'[d].pc \in Saving
        PROVE  LevelFits(call'[d].profile)
    BY <2>3, <2>6, <2>7 DEF LevelInv
  <2>8. profiles' = profiles /\ mixed' = mixed
    BY <1>7 DEF Mem!FindProfile, Mem!tables
  <2>9. \A u \in Users : profiles'[u].growthValue >= 0 /\ (u \notin mixed' => LevelFits(profiles'[u]))
    BY <2>8 DEF LevelInv
  <2>10. QED
    BY <2>7, <2>9 DEF LevelInv, LevelFits
<1>8. ASSUME NEW c \in Calls, Mem!InsertProfile(c) \/ Mem!WriteProfile(c) PROVE LevelInv'
  <2>1. call[c].pc \in Saving /\ call[c].pc \in Stages /\ call[c].user \in Users
    BY <1>8, MemCallTypes DEF Mem!InsertProfile, Mem!WriteProfile, Mem!At, Stages, Saving
  <2>2. /\ LevelFits(call[c].profile) /\ call[c].profile \in Mem!Profiles
        /\ call[c].seen \in Mem!Profiles /\ profiles[call[c].user] \in Mem!Profiles
    BY <2>1, MemCallTypes DEF LevelInv, Mem!TypeOK
  <2>3. PICK merged : merged = Mem!Merge(profiles[call[c].user], call[c].profile, call[c].seen)
    OBVIOUS
  <2>4. merged \in Mem!Profiles /\ (profiles[call[c].user] = call[c].seen => merged = call[c].profile)
    BY <2>2, <2>3, MergedProfile
  <2>5. \/ profiles' = profiles /\ mixed \subseteq mixed'
        \/ \E row \in Mem!Profiles :
             /\ ~ Mem!Refused(row) /\ profiles' = [profiles EXCEPT ![call[c].user] = row]
             /\ mixed \subseteq mixed' /\ (call[c].user \notin mixed' => row = call[c].profile)
    <3>1. CASE Mem!InsertProfile(c)
      BY <2>2, <3>1 DEF Mem!InsertProfile
    <3>2. CASE Mem!WriteProfile(c)
      <4>1. mixed \subseteq mixed' /\ (call[c].user \notin mixed' => profiles[call[c].user] = call[c].seen)
        BY <3>2 DEF Mem!WriteProfile
      <4>2. CASE Mem!Refused(merged)
        BY <2>3, <3>2, <4>1, <4>2 DEF Mem!WriteProfile
      <4>3. CASE ~ Mem!Refused(merged)
        BY <2>3, <2>4, <3>2, <4>1, <4>3 DEF Mem!WriteProfile
      <4>4. QED
        BY <4>2, <4>3
    <3>3. QED
      BY <1>8, <3>1, <3>2
  <2>6. \A u \in Users : profiles'[u].growthValue >= 0 /\ (u \notin mixed' => LevelFits(profiles'[u]))
    <3>1. CASE profiles' = profiles /\ mixed \subseteq mixed'
      BY <3>1 DEF LevelInv
    <3>2. ASSUME NEW row \in Mem!Profiles,
                 ~ Mem!Refused(row), profiles' = [profiles EXCEPT ![call[c].user] = row],
                 mixed \subseteq mixed', call[c].user \notin mixed' => row = call[c].profile
          PROVE  \A u \in Users : profiles'[u].growthValue >= 0 /\ (u \notin mixed' => LevelFits(profiles'[u]))
      <4>1. row.growthValue >= 0 /\ (call[c].user \notin mixed' => LevelFits(row))
        BY <2>2, <3>2 DEF Mem!Refused, Mem!Profiles
      <4>2. profiles'[call[c].user] = row /\ \A u \in Users \ {call[c].user} : profiles'[u] = profiles[u]
        BY <2>1, <3>2 DEF Mem!TypeOK
      <4>3. QED
        BY <3>2, <4>1, <4>2 DEF LevelInv
    <3>3. QED
      BY <2>5, <3>1, <3>2
  <2>7. \A d \in Calls : call'[d] = call[d] \/ call'[d].pc \notin Saving
    <3>1. Mem!Return(c) \/ Mem!GoTo(c, "saveGrowth")
      BY <1>8 DEF Mem!InsertProfile, Mem!WriteProfile
    <3>2. CASE Mem!Return(c)
      BY <3>2 DEF Mem!Return, Mem!Done, Mem!TypeOK, Saving
    <3>3. CASE Mem!GoTo(c, "saveGrowth")
      BY <3>3, <2>1 DEF Mem!GoTo, Mem!TypeOK, Mem!Local, Saving
    <3>4. QED
      BY <3>1, <3>2, <3>3
  <2>8. ASSUME NEW d \in Calls, call'[d].pc \in Saving
        PROVE  LevelFits(call'[d].profile)
    BY <2>7, <2>8 DEF LevelInv
  <2>9. QED
    BY <2>6, <2>8 DEF LevelInv, LevelFits
<1>12. ASSUME NEW c \in Calls, Mem!Snapshot(c) PROVE LevelInv'
  <2>1. /\ MemSets(c, Snapped(c)) /\ call[c].pc \in Saving /\ Snapped(c).profile = call[c].profile
    BY <1>12, SnapshotSets DEF Saving
  <2>2. LevelFits(Snapped(c).profile)
    BY <2>1 DEF LevelInv
  <2>3. \A d \in Calls : call'[d] = call[d] \/ call'[d] = Snapped(c)
    BY <2>1 DEF MemSets, Mem!TypeOK
  <2>4. ASSUME NEW d \in Calls, call'[d].pc \in Saving
        PROVE  LevelFits(call'[d].profile)
    BY <2>2, <2>3, <2>4 DEF LevelInv
  <2>5. profiles' = profiles /\ mixed' = mixed
    BY <1>12 DEF Mem!Snapshot, Mem!tables
  <2>6. QED
    BY <2>4, <2>5 DEF LevelInv, LevelFits
<1>9. ASSUME NEW c \in Calls,
             Mem!SaveGrowth(c) \/ Mem!SaveTask(c) \/ Mem!RemoveTask(c) \/ Mem!AwaitFails(c)
      PROVE  LevelInv'
  BY <1>9, LevelKept DEF Mem!SaveGrowth, Mem!SaveTask, Mem!RemoveTask, Mem!AwaitFails,
     Mem!Return, Mem!Done, Mem!tables, Mem!TypeOK, Saving
<1>10. CASE UNCHANGED <<profiles, call, mixed>>
  BY <1>10, LevelKept
<1>11. QED
  BY <1>1, <1>2, <1>3, <1>4, <1>5, <1>6, <1>7, <1>8, <1>9, <1>10, <1>12
  DEF Mem!Next, Mem!CreateTask, Mem!vars, Mem!tables

\* A profile's level is the one that its growth earns, for any number of users,
\* tasks and requests, and whatever the rewards are, unless the profile changed
\* between the snapshot and the write of a save.
THEOREM LevelMatchesGrowthCorrect ==
  ASSUME MemNumbersOK PROVE Mem!Spec => []Mem!LevelMatchesGrowth
<1>1. LevelInv => Mem!LevelMatchesGrowth
  <2>1. \A S : Mem!Cardinality(S) = Cardinality(S)
    BY DEF Mem!Cardinality, Cardinality
  <2>2. \A value : Earned(value) = Mem!Cardinality({i \in DOMAIN Mem!levelThresholds :
                                                    Mem!levelThresholds[i] <= value})
    BY <2>1 DEF Earned, Reached
  <2>3. QED
    BY <2>2 DEF LevelInv, LevelFits, Mem!LevelMatchesGrowth
<1>2. Mem!TypeOK /\ LevelInv /\ [Mem!Next]_(Mem!vars) => LevelInv'
  BY LevelStep
<1>3. QED
  BY <1>1, <1>2, LevelInit, MemTypeCorrect, PTL DEF Mem!Spec

-----------------------------------------------------------------------------
(***************************************************************************)
(* Sums of growth, counted in units                                        *)
(***************************************************************************)
Positive(n) == IF n > 0 THEN n ELSE 0

LEMMA UnitsOfOne ==
  ASSUME NEW r, NEW n \in Int
  PROVE  IsFiniteSet({r} \X (1 .. n)) /\ Cardinality({r} \X (1 .. n)) = Positive(n)
<1>1. IsFiniteSet({r}) /\ Cardinality({r}) = 1
  BY FS_Singleton
<1>2. IsFiniteSet(1 .. n) /\ Cardinality(1 .. n) = IF 1 > n THEN 0 ELSE n - 1 + 1
  BY FS_Interval
<1>3. Cardinality(1 .. n) = Positive(n) /\ Positive(n) \in Int
  BY <1>2 DEF Positive
<1>4. /\ IsFiniteSet({r} \X (1 .. n))
      /\ Cardinality({r} \X (1 .. n)) = Cardinality({r}) * Cardinality(1 .. n)
  BY <1>1, <1>2, FS_Product
<1>5. Cardinality({r} \X (1 .. n)) = 1 * Positive(n)
  BY <1>1, <1>3, <1>4
<1>6. QED
  BY <1>3, <1>4, <1>5

\* Two finite sets that share nothing.
LEMMA CountBoth ==
  ASSUME NEW A, NEW B, IsFiniteSet(A), IsFiniteSet(B), A \cap B = {}
  PROVE  /\ IsFiniteSet(A \cup B)
         /\ Cardinality(A \cup B) = Cardinality(A) + Cardinality(B)
         /\ Cardinality(A) \in Nat /\ Cardinality(B) \in Nat
<1>1. /\ IsFiniteSet(A \cup B)
      /\ Cardinality(A \cup B) = Cardinality(A) + Cardinality(B) - Cardinality(A \cap B)
  BY FS_Union
<1>2. Cardinality(A \cap B) = 0
  BY FS_EmptySet
<1>3. Cardinality(A) \in Nat /\ Cardinality(B) \in Nat
  BY FS_CardinalityType
<1> DEFINE a == Cardinality(A)
           b == Cardinality(B)
<1>4. a \in Nat /\ b \in Nat /\ Cardinality(A \cup B) = a + b - 0
  BY <1>1, <1>2, <1>3
<1> HIDE DEF a, b
<1>5. Cardinality(A \cup B) = a + b
  BY <1>4
<1>6. QED
  BY <1>1, <1>3, <1>5 DEF a, b

\* The units of the rewards of G come to n.
ComeTo(G, n) ==
  /\ IsFiniteSet(Mem!Gained(G)) /\ IsFiniteSet(Mem!Lost(G))
  /\ n + Cardinality(Mem!Lost(G)) = Cardinality(Mem!Gained(G))

LEMMA OneMoreReward ==
  ASSUME NEW G, NEW r, r \notin G, r[3] \in Int,
         IsFiniteSet(Mem!Gained(G)), IsFiniteSet(Mem!Lost(G))
  PROVE  /\ IsFiniteSet(Mem!Gained(G \cup {r})) /\ IsFiniteSet(Mem!Lost(G \cup {r}))
         /\ Cardinality(Mem!Gained(G \cup {r})) = Cardinality(Mem!Gained(G)) + Positive(r[3])
         /\ Cardinality(Mem!Lost(G \cup {r})) = Cardinality(Mem!Lost(G)) + Positive(- r[3])
<1>1. - r[3] \in Int
  OBVIOUS
<1>2. /\ Mem!Gained(G \cup {r}) = Mem!Gained(G) \cup ({r} \X (1 .. r[3]))
      /\ Mem!Lost(G \cup {r}) = Mem!Lost(G) \cup ({r} \X (1 .. - r[3]))
  BY DEF Mem!Gained, Mem!Lost
<1>3. /\ Mem!Gained(G) \cap ({r} \X (1 .. r[3])) = {}
      /\ Mem!Lost(G) \cap ({r} \X (1 .. - r[3])) = {}
  BY DEF Mem!Gained, Mem!Lost
<1>4. /\ IsFiniteSet({r} \X (1 .. r[3])) /\ Cardinality({r} \X (1 .. r[3])) = Positive(r[3])
      /\ IsFiniteSet({r} \X (1 .. - r[3])) /\ Cardinality({r} \X (1 .. - r[3])) = Positive(- r[3])
  BY <1>1, UnitsOfOne
<1>5. /\ IsFiniteSet(Mem!Gained(G) \cup ({r} \X (1 .. r[3])))
      /\ Cardinality(Mem!Gained(G) \cup ({r} \X (1 .. r[3])))
           = Cardinality(Mem!Gained(G)) + Cardinality({r} \X (1 .. r[3]))
  BY <1>3, <1>4, CountBoth
<1>6. /\ IsFiniteSet(Mem!Lost(G) \cup ({r} \X (1 .. - r[3])))
      /\ Cardinality(Mem!Lost(G) \cup ({r} \X (1 .. - r[3])))
           = Cardinality(Mem!Lost(G)) + Cardinality({r} \X (1 .. - r[3]))
  BY <1>3, <1>4, CountBoth
<1>7. QED
  BY <1>2, <1>4, <1>5, <1>6

LEMMA RewardAdds ==
  ASSUME NEW G, NEW n \in Int, NEW r, r \notin G, r[3] \in Int, ComeTo(G, n)
  PROVE  ComeTo(G \cup {r}, n + r[3])
<1> DEFINE g == Cardinality(Mem!Gained(G))
           l == Cardinality(Mem!Lost(G))
           H == G \cup {r}
           x == r[3]
<1>1. /\ IsFiniteSet(Mem!Gained(H)) /\ IsFiniteSet(Mem!Lost(H))
      /\ Cardinality(Mem!Gained(H)) = g + Positive(x)
      /\ Cardinality(Mem!Lost(H)) = l + Positive(- x)
  BY OneMoreReward DEF ComeTo
<1>2. g \in Nat /\ l \in Nat /\ n + l = g /\ x \in Int
  BY FS_CardinalityType DEF ComeTo
<1> HIDE DEF g, l, H, x
<1>3. n + x + (l + Positive(- x)) = g + Positive(x)
  BY <1>2 DEF Positive
<1>4. ComeTo(H, n + x)
  BY <1>1, <1>3 DEF ComeTo
<1>5. QED
  BY <1>4 DEF H, x

\* A reward changes its place, not its size.
LEMMA RewardMoves ==
  ASSUME NEW G, NEW n \in Int, NEW r \in G, NEW s, s \notin G, r[3] \in Int, s[3] = r[3],
         ComeTo(G, n)
  PROVE  ComeTo((G \ {r}) \cup {s}, n)
<1> DEFINE K == G \ {r}
           H == K \cup {s}
           x == r[3]
           gk == Cardinality(Mem!Gained(K))
           lk == Cardinality(Mem!Lost(K))
<1>1. IsFiniteSet(Mem!Gained(K)) /\ IsFiniteSet(Mem!Lost(K))
  <2>1. Mem!Gained(K) \in SUBSET Mem!Gained(G) /\ Mem!Lost(K) \in SUBSET Mem!Lost(G)
    BY DEF Mem!Gained, Mem!Lost
  <2>2. QED
    BY <2>1, FS_Subset DEF ComeTo
<1>2. r \notin K /\ s \notin K /\ G = K \cup {r}
  OBVIOUS
<1>3. x \in Int /\ s[3] = x
  OBVIOUS
<1> HIDE DEF K
<1>4. /\ Cardinality(Mem!Gained(K \cup {r})) = gk + Positive(x)
      /\ Cardinality(Mem!Lost(K \cup {r})) = lk + Positive(- x)
  BY <1>1, <1>2, OneMoreReward
<1>5. /\ IsFiniteSet(Mem!Gained(H)) /\ IsFiniteSet(Mem!Lost(H))
      /\ Cardinality(Mem!Gained(H)) = gk + Positive(x)
      /\ Cardinality(Mem!Lost(H)) = lk + Positive(- x)
  BY <1>1, <1>2, <1>3, OneMoreReward
<1>6. n + (lk + Positive(- x)) = gk + Positive(x)
  BY <1>2, <1>4 DEF ComeTo
<1>7. ComeTo(H, n)
  BY <1>5, <1>6 DEF ComeTo
<1>8. QED
  BY <1>7 DEF H, K

-----------------------------------------------------------------------------
(***************************************************************************)
(* Growth adds up                                                          *)
(***************************************************************************)
\* The call of a reward of u that is about to save u's profile is the only one, and
\* has what the profile will be, and the growth at its snapshot is that of the row;
\* a user without a profile has grown by nothing.
\* The growth is what the rewards of u come to.
RewardAlone(u) ==
  /\ \A c, d \in Mem!Rewarding(u) : c = d
  /\ \A c \in Mem!Rewarding(u) :
       /\ call[c].profile.growthValue = profiles[u].growthValue + call[c].growthReward
       /\ call[c].pc = "writeProfile" => call[c].seen.growthValue = profiles[u].growthValue

Summed(u) == ComeTo(Mem!Given(u), profiles[u].growthValue)

SavesNew(c) ==
  call[c].profile.exists /\ (call[c].pc = "insertProfile" \/ profiles[call[c].user].exists)

AddsInv ==
  failures = 0 =>
    /\ \A u \in Users : profiles[u].exists \/ profiles[u].growthValue = 0
    /\ \A c \in Calls : call[c].pc \in Saving => SavesNew(c)
    /\ \A u \in Users \ overlapped : RewardAlone(u) /\ Summed(u)

LEMMA SummedThen ==
  ASSUME NEW u, ComeTo(Mem!Given(u)', profiles'[u].growthValue) PROVE Summed(u)'
BY DEF Summed, ComeTo, Mem!Gained, Mem!Lost

LEMMA MemSetFacts ==
  ASSUME Mem!TypeOK, NEW c \in Calls, NEW local, MemSets(c, local)
  PROVE  call'[c] = local /\ \A d \in Calls \ {c} : call'[d] = call[d]
BY DEF Mem!TypeOK, MemSets

\* A step of a call that gives no reward and changes no growth.
LEMMA AddsUndisturbed ==
  ASSUME Mem!TypeOK, AddsInv, NEW c \in Calls, NEW local, MemSets(c, local),
         growth' = growth, overlapped' = overlapped, failures' = failures,
         \A u \in Users : /\ profiles'[u].growthValue = profiles[u].growthValue
                          /\ profiles[u].exists => profiles'[u].exists,
         call[c].pc # "saveGrowth",
         local.pc \notin {"saveGrowth"} \cup Saving
  PROVE  AddsInv'
<1> SUFFICES ASSUME failures = 0 PROVE AddsInv'
  BY DEF AddsInv
<1>1. call'[c] = local /\ \A d \in Calls \ {c} : call'[d] = call[d]
  BY MemSetFacts
<1>2. ASSUME NEW u \in Users, u \notin overlapped
      PROVE  RewardAlone(u)' /\ Summed(u)'
  <2>1. \A a \in Mem!Rewarding(u)' : a \in Mem!Rewarding(u) /\ call'[a] = call[a]
    BY <1>1 DEF Mem!Rewarding, Saving
  <2>2. Mem!Given(u)' = Mem!Given(u)
    BY <1>1 DEF Mem!Given, Mem!At
  <2>3. RewardAlone(u) /\ Summed(u)
    BY <1>2 DEF AddsInv
  <2>4. RewardAlone(u)'
    BY <2>1, <2>3 DEF RewardAlone
  <2>5. ComeTo(Mem!Given(u)', profiles'[u].growthValue)
    BY <2>2, <2>3 DEF Summed
  <2>6. QED
    BY <2>4, <2>5, SummedThen
<1>3. \A u \in Users : profiles'[u].exists \/ profiles'[u].growthValue = 0
  BY DEF AddsInv
<1>4. \A a \in Calls : call'[a].pc \in Saving => SavesNew(a)'
  <2>1. ASSUME NEW a \in Calls, call'[a].pc \in Saving
        PROVE  /\ call'[a].profile.exists
               /\ call'[a].pc = "insertProfile" \/ profiles'[call'[a].user].exists
    <3>1. call'[a] = call[a] /\ SavesNew(a) /\ call[a].user \in Users
      BY <1>1, <2>1, MemCallTypes DEF AddsInv, Saving, Stages
    <3>2. QED
      BY <3>1 DEF SavesNew
  <2>2. QED
    BY <2>1 DEF SavesNew
<1>5. QED
  BY <1>2, <1>3, <1>4 DEF AddsInv

\* The profile is read: from here the call is the one, or the user is overlapped.
LEMMA AddsFind ==
  ASSUME MemNumbersOK, Mem!TypeOK, AddsInv, NEW c \in Calls, Mem!FindProfile(c)
  PROVE  AddsInv'
<1> SUFFICES ASSUME failures = 0 PROVE AddsInv'
  BY DEF AddsInv, Mem!FindProfile
<1>1. PICK pc \in {"saveProfile", "insertProfile"} :
        /\ MemSets(c, [call[c] EXCEPT !.pc = pc, !.profile = Grown(c)])
        /\ pc = "saveProfile" => profiles[call[c].user].exists
  BY FindProfileSets
<1>2. /\ call[c].pc = "findProfile" /\ call[c].user \in Users
      /\ growth' = growth /\ profiles' = profiles
  BY MemCallTypes DEF Mem!FindProfile, Mem!At, Stages, Mem!tables
<1>3. call[c] \in RewardLocals
  BY <1>2, MemCallTypes DEF Mem!TypeOK, Mem!Local, Stages, RewardLocals
<1>4. \A d \in Calls \ {c} : call'[d] = call[d]
  BY <1>1, MemSetFacts
<1>5. /\ call'[c].pc = pc /\ call'[c].user = call[c].user
      /\ call'[c].growthReward = call[c].growthReward /\ call'[c].profile = Grown(c)
  <2>1. call'[c] = [call[c] EXCEPT !.pc = pc, !.profile = Grown(c)]
    BY <1>1, MemSetFacts
  <2>2. QED
    BY <1>3, <2>1 DEF RewardLocals
<1>6. /\ Grown(c).exists
      /\ Grown(c).growthValue = profiles[call[c].user].growthValue + call[c].growthReward
  <2>1. /\ Grown(c).exists
        /\ Grown(c).growthValue = Found(call[c].user).growthValue + call[c].growthReward
    BY DEF Grown
  <2>2. Found(call[c].user).growthValue = profiles[call[c].user].growthValue
    BY <1>2, NewProfileType DEF AddsInv, Found
  <2>3. QED
    BY <2>1, <2>2
<1>7. ASSUME NEW u \in Users, u \notin overlapped'
      PROVE  RewardAlone(u)' /\ Summed(u)'
  <2>1. u \notin overlapped
    BY <1>7 DEF Mem!FindProfile
  <2>2. Mem!Given(u)' = Mem!Given(u)
    BY <1>2, <1>4, <1>5 DEF Mem!Given, Mem!At
  <2>3. RewardAlone(u) /\ Summed(u)
    BY <2>1 DEF AddsInv
  <2>4. ComeTo(Mem!Given(u)', profiles'[u].growthValue)
    BY <1>2, <2>2, <2>3 DEF Summed
  <2>5. CASE u = call[c].user
    <3>1. Mem!Rewarding(u) = {}
      BY <1>7, <2>5 DEF Mem!FindProfile
    <3>2. \A a \in Mem!Rewarding(u)' : a = c
      BY <1>4, <3>1 DEF Mem!Rewarding
    <3>3. QED
      <4>1. call'[c].profile.growthValue = profiles'[u].growthValue + call'[c].growthReward
        BY <1>2, <1>5, <1>6, <2>5
      <4>2. RewardAlone(u)'
        BY <1>5, <3>2, <4>1 DEF RewardAlone
      <4>3. QED
        BY <2>4, <4>2, SummedThen
  <2>6. CASE u # call[c].user
    <3>1. \A a \in Mem!Rewarding(u)' : a \in Mem!Rewarding(u) /\ call'[a] = call[a]
      BY <1>4, <1>5, <2>6 DEF Mem!Rewarding
    <3>2. profiles'[u] = profiles[u]
      BY <1>2
    <3>3. RewardAlone(u)'
      BY <2>3, <3>1, <3>2 DEF RewardAlone
    <3>4. QED
      BY <2>4, <3>3, SummedThen
  <2>7. QED
    BY <2>5, <2>6
<1>8. \A a \in Calls : call'[a].pc \in Saving => SavesNew(a)'
  <2>1. ASSUME NEW a \in Calls, call'[a].pc \in Saving
        PROVE  /\ call'[a].profile.exists
               /\ call'[a].pc = "insertProfile" \/ profiles'[call'[a].user].exists
    <3>1. CASE a = c
      BY <1>1, <1>2, <1>5, <1>6, <3>1
    <3>2. CASE a # c
      BY <1>2, <1>4, <2>1, <3>2 DEF AddsInv, SavesNew
    <3>3. QED
      BY <3>1, <3>2
  <2>2. QED
    BY <2>1 DEF SavesNew
<1>9. \A u \in Users : profiles'[u].exists \/ profiles'[u].growthValue = 0
  BY <1>2 DEF AddsInv
<1>10. QED
  BY <1>7, <1>8, <1>9 DEF AddsInv

\* The snapshot: the row at hand is the user's profile.
LEMMA AddsSnapshot ==
  ASSUME Mem!TypeOK, AddsInv, NEW c \in Calls, Mem!Snapshot(c)
  PROVE  AddsInv'
<1> SUFFICES ASSUME failures = 0 PROVE AddsInv'
  BY DEF AddsInv, Mem!Snapshot
<1>1. /\ growth' = growth /\ overlapped' = overlapped /\ failures' = failures
      /\ profiles' = profiles
  BY DEF Mem!Snapshot, Mem!tables
<1>2. /\ call'[c] = Snapped(c) /\ call[c].pc = "saveProfile" /\ call[c].user \in Users
      /\ Snapped(c).pc = "writeProfile" /\ Snapped(c).user = call[c].user
      /\ Snapped(c).growthReward = call[c].growthReward
      /\ Snapped(c).profile = call[c].profile /\ Snapped(c).seen = profiles[call[c].user]
  BY SnapshotSets, MemSetFacts
<1>3. \A d \in Calls \ {c} : call'[d] = call[d]
  BY SnapshotSets, MemSetFacts
<1>4. ASSUME NEW u \in Users, u \notin overlapped
      PROVE  RewardAlone(u)' /\ Summed(u)'
  <2>1. RewardAlone(u) /\ Summed(u)
    BY <1>4 DEF AddsInv
  <2>2. Mem!Given(u)' = Mem!Given(u)
    BY <1>1, <1>2, <1>3 DEF Mem!Given, Mem!At
  <2>3. Mem!Rewarding(u)' = Mem!Rewarding(u)
    BY <1>2, <1>3 DEF Mem!Rewarding
  <2>4. ASSUME NEW a \in Mem!Rewarding(u)
        PROVE  /\ call'[a].profile.growthValue = profiles[u].growthValue + call'[a].growthReward
               /\ call'[a].pc = "writeProfile" => call'[a].seen.growthValue = profiles[u].growthValue
    <3>1. a \in Calls /\ call[a].user = u
      BY DEF Mem!Rewarding
    <3>2. QED
      BY <1>2, <1>3, <2>1, <3>1 DEF RewardAlone
  <2>5. RewardAlone(u)'
    BY <1>1, <2>1, <2>3, <2>4 DEF RewardAlone
  <2>6. ComeTo(Mem!Given(u)', profiles'[u].growthValue)
    BY <1>1, <2>1, <2>2 DEF Summed
  <2>7. QED
    BY <2>5, <2>6, SummedThen
<1>5. \A a \in Calls : call'[a].pc \in Saving => SavesNew(a)'
  <2>1. ASSUME NEW a \in Calls, call'[a].pc \in Saving
        PROVE  /\ call'[a].profile.exists
               /\ call'[a].pc = "insertProfile" \/ profiles'[call'[a].user].exists
    <3>1. CASE a = c
      BY <1>1, <1>2, <3>1 DEF AddsInv, SavesNew, Saving
    <3>2. CASE a # c
      BY <1>1, <1>3, <2>1, <3>2 DEF AddsInv, SavesNew
    <3>3. QED
      BY <3>1, <3>2
  <2>2. QED
    BY <2>1 DEF SavesNew
<1>6. QED
  BY <1>1, <1>4, <1>5 DEF AddsInv

\* What a save of a profile does to the row: nothing when it is refused, and
\* else it leaves a profile with the new growth.
SavesRow(c, row) ==
  /\ row \in Mem!Profiles /\ row.exists
  /\ profiles' = [profiles EXCEPT ![call[c].user] = row]
  /\ Mem!GoTo(c, "saveGrowth")
  /\ call[c].user \notin overlapped => row.growthValue = call[c].profile.growthValue

LEMMA SaveOutcome ==
  ASSUME Mem!TypeOK, AddsInv, failures = 0, NEW c \in Calls,
         Mem!InsertProfile(c) \/ Mem!WriteProfile(c)
  PROVE  (profiles' = profiles /\ Mem!Return(c)) \/ \E row : SavesRow(c, row)
<1>1. /\ call[c].pc \in {"insertProfile", "writeProfile"} /\ call[c].pc \in Stages
      /\ call[c].pc \in Saving
  BY DEF Mem!InsertProfile, Mem!WriteProfile, Mem!At, Stages, Saving
<1>2. /\ call[c].user \in Users /\ profiles[call[c].user] \in Mem!Profiles
      /\ call[c].profile \in Mem!Profiles /\ call[c].seen \in Mem!Profiles
  BY <1>1, MemCallTypes DEF Mem!TypeOK
<1>3. SavesNew(c)
  BY <1>1 DEF AddsInv
<1>4. CASE Mem!InsertProfile(c)
  BY <1>2, <1>3, <1>4 DEF Mem!InsertProfile, SavesRow, SavesNew
<1>5. CASE Mem!WriteProfile(c)
  <2>1. PICK merged : merged = Mem!Merge(profiles[call[c].user], call[c].profile, call[c].seen)
    OBVIOUS
  <2>2. /\ merged \in Mem!Profiles
        /\ merged.exists = IF call[c].profile.exists # call[c].seen.exists
                             THEN call[c].profile.exists ELSE profiles[call[c].user].exists
        /\ merged.growthValue = IF call[c].profile.growthValue # call[c].seen.growthValue
                                  THEN call[c].profile.growthValue
                                  ELSE profiles[call[c].user].growthValue
    BY <1>2, <2>1, MergedProfile
  <2>3. call[c].pc = "writeProfile"
    BY <1>5 DEF Mem!WriteProfile, Mem!At
  <2>4. merged.exists
    BY <1>3, <2>2, <2>3 DEF SavesNew
  <2>5. call[c].user \notin overlapped => merged.growthValue = call[c].profile.growthValue
    <3>1. ASSUME call[c].user \notin overlapped
          PROVE  call[c].seen.growthValue = profiles[call[c].user].growthValue
      <4>1. c \in Mem!Rewarding(call[c].user)
        BY <2>3 DEF Mem!Rewarding
      <4>2. RewardAlone(call[c].user)
        BY <1>2, <3>1 DEF AddsInv
      <4>3. QED
        BY <2>3, <4>1, <4>2 DEF RewardAlone
    <3>2. QED
      BY <2>2, <3>1
  <2>6. CASE Mem!Refused(merged)
    BY <1>5, <2>1, <2>6 DEF Mem!WriteProfile
  <2>7. CASE ~ Mem!Refused(merged)
    <3>1. /\ profiles' = [profiles EXCEPT ![call[c].user] = merged]
          /\ Mem!GoTo(c, "saveGrowth")
      BY <1>5, <2>1, <2>7 DEF Mem!WriteProfile
    <3>2. SavesRow(c, merged)
      BY <2>2, <2>4, <2>5, <3>1 DEF SavesRow
    <3>3. QED
      BY <3>2
  <2>8. QED
    BY <2>6, <2>7
<1>6. QED
  BY <1>4, <1>5

\* The profile is saved: the reward is given, and its record is to be written.
LEMMA AddsSave ==
  ASSUME MemNumbersOK, Mem!TypeOK, AddsInv, NEW c \in Calls, Mem!InsertProfile(c) \/ Mem!WriteProfile(c)
  PROVE  AddsInv'
<1> SUFFICES ASSUME failures = 0 PROVE AddsInv'
  BY DEF AddsInv, Mem!InsertProfile, Mem!WriteProfile
<1>1. /\ call[c].pc \in Saving /\ call[c].pc \in Stages
      /\ growth' = growth /\ overlapped' = overlapped /\ failures' = failures
  BY DEF Mem!InsertProfile, Mem!WriteProfile, Mem!At, Stages, Saving
<1>2. /\ call[c].user \in Users /\ call[c].growthReward \in Int
      /\ call[c].profile \in Mem!Profiles /\ profiles \in [Users -> Mem!Profiles]
  BY <1>1, MemCallTypes DEF MemNumbersOK, Mem!TypeOK
<1>3. CASE profiles' = profiles /\ Mem!Return(c)
  <2>1. MemSets(c, Mem!Done) /\ Mem!Done.pc = "done"
    BY <1>3, MemDoneType DEF Mem!Return, MemSets
  <2>2. call[c].pc # "saveGrowth" /\ Mem!Done.pc \notin {"saveGrowth"} \cup Saving
    BY <1>1, <2>1 DEF Saving
  <2>3. QED
    BY <1>1, <1>3, <2>1, <2>2, AddsUndisturbed
<1>4. ASSUME NEW row, SavesRow(c, row) PROVE AddsInv'
  <2>1. call[c] \in RewardLocals
    BY <1>1, MemCallTypes DEF Mem!TypeOK, Mem!Local, Stages, RewardLocals
  <2>2. MemSets(c, [call[c] EXCEPT !.pc = "saveGrowth"])
    BY <1>4 DEF SavesRow, Mem!GoTo, MemSets
  <2>3. \A d \in Calls \ {c} : call'[d] = call[d]
    BY <2>2, MemSetFacts
  <2>4. /\ call'[c].pc = "saveGrowth" /\ call'[c].user = call[c].user
        /\ call'[c].growthReward = call[c].growthReward
    BY <2>1, <2>2, MemSetFacts DEF RewardLocals
  <2>5. ASSUME NEW u \in Users, u \notin overlapped
        PROVE  RewardAlone(u)' /\ Summed(u)'
    <3>0. RewardAlone(u) /\ Summed(u)
      BY <2>5 DEF AddsInv
    <3>1. CASE u = call[c].user
      <4>1. c \in Mem!Rewarding(u)
        BY <1>1, <3>1 DEF Mem!Rewarding, Saving
      <4>2. /\ \A a \in Mem!Rewarding(u) : a = c
            /\ call[c].profile.growthValue = profiles[u].growthValue + call[c].growthReward
            /\ ComeTo(Mem!Given(u), profiles[u].growthValue)
        BY <3>0, <4>1 DEF RewardAlone, Summed
      <4>3. Mem!Rewarding(u)' = {}
        BY <2>3, <2>4, <4>2 DEF Mem!Rewarding
      <4>4. PICK r : r = <<"call", c, call[c].growthReward>>
        OBVIOUS
      <4>5. /\ Mem!Given(u)' = Mem!Given(u) \cup {r} /\ r \notin Mem!Given(u)
            /\ r[3] = call[c].growthReward
        BY <1>1, <2>3, <2>4, <3>1, <4>4 DEF Mem!Given, Mem!At, Saving
      <4>6. profiles[u].growthValue \in Int
        BY <1>2 DEF Mem!Profiles
      <4>7. ComeTo(Mem!Given(u) \cup {r}, profiles[u].growthValue + call[c].growthReward)
        BY <1>2, <4>2, <4>5, <4>6, RewardAdds
      <4>8. profiles'[u].growthValue = profiles[u].growthValue + call[c].growthReward
        BY <1>2, <1>4, <2>5, <3>1, <4>2 DEF SavesRow
      <4>9. QED
        <5>1. RewardAlone(u)'
          BY <4>3 DEF RewardAlone
        <5>2. ComeTo(Mem!Given(u)', profiles'[u].growthValue)
          BY <4>5, <4>7, <4>8
        <5>3. QED
          BY <5>1, <5>2, SummedThen
    <3>2. CASE u # call[c].user
      <4>1. \A a \in Mem!Rewarding(u)' : a \in Mem!Rewarding(u) /\ call'[a] = call[a]
        BY <2>3, <2>4, <3>2 DEF Mem!Rewarding
      <4>2. Mem!Given(u)' = Mem!Given(u)
        BY <1>1, <2>3, <2>4, <3>2 DEF Mem!Given, Mem!At, Saving
      <4>3. profiles'[u] = profiles[u]
        BY <1>2, <1>4, <3>2 DEF SavesRow
      <4>4. ComeTo(Mem!Given(u)', profiles'[u].growthValue)
        BY <3>0, <4>2, <4>3 DEF Summed
      <4>5. RewardAlone(u)'
        BY <3>0, <4>1, <4>3 DEF RewardAlone
      <4>6. QED
        BY <4>4, <4>5, SummedThen
    <3>3. QED
      BY <3>1, <3>2
  <2>6. \A u \in Users : profiles'[u].exists \/ profiles'[u].growthValue = 0
    BY <1>1, <1>2, <1>4 DEF AddsInv, SavesRow
  <2>7. \A a \in Calls : call'[a].pc \in Saving => SavesNew(a)'
    <3>1. ASSUME NEW a \in Calls, call'[a].pc \in Saving
          PROVE  /\ call'[a].profile.exists
                 /\ call'[a].pc = "insertProfile" \/ profiles'[call'[a].user].exists
      <4>1. a # c
        BY <2>4, <3>1 DEF Saving
      <4>2. call'[a] = call[a] /\ SavesNew(a) /\ call[a].user \in Users
        BY <2>3, <3>1, <4>1, MemCallTypes DEF AddsInv, Saving, Stages
      <4>3. QED
        BY <1>2, <1>4, <4>2 DEF SavesRow, SavesNew
    <3>2. QED
      BY <3>1 DEF SavesNew
  <2>8. QED
    BY <1>1, <2>5, <2>6, <2>7 DEF AddsInv
<1>5. QED
  BY <1>3, <1>4, SaveOutcome

\* The record is written: the reward is in the table now and no longer with the call.
LEMMA AddsRecord ==
  ASSUME MemNumbersOK, Mem!TypeOK, AddsInv, NEW c \in Calls, Mem!SaveGrowth(c)
  PROVE  AddsInv'
<1> SUFFICES ASSUME failures = 0 PROVE AddsInv'
  BY DEF AddsInv, Mem!SaveGrowth
<1>1. /\ call[c].pc = "saveGrowth" /\ call[c].pc \in Stages /\ profiles' = profiles
      /\ overlapped' = overlapped /\ failures' = failures
  BY DEF Mem!SaveGrowth, Mem!At, Stages
<1>2. call[c].user \in Users /\ call[c].growthReward \in Int /\ growth \in Seq(Mem!GrowthRecords)
  BY <1>1, MemCallTypes DEF MemNumbersOK, Mem!TypeOK
<1>3. PICK record : /\ growth' = Append(growth, record) /\ record.user = call[c].user
                    /\ record.delta = call[c].growthReward
  BY DEF Mem!SaveGrowth
<1>4. MemSets(c, Mem!Done) /\ Mem!Done.pc = "done"
  BY MemDoneType DEF Mem!SaveGrowth, Mem!Return, MemSets
<1>5. call'[c].pc = "done" /\ \A d \in Calls \ {c} : call'[d] = call[d]
  BY <1>4, MemSetFacts
<1>6. /\ DOMAIN growth = 1 .. Len(growth) /\ DOMAIN growth' = 1 .. Len(growth) + 1
      /\ Len(growth) \in Nat /\ growth'[Len(growth) + 1] = record
      /\ \A i \in DOMAIN growth : growth'[i] = growth[i]
  BY <1>2, <1>3
<1>7. PICK k : k = Len(growth) + 1
  OBVIOUS
<1>8. DOMAIN growth' = DOMAIN growth \cup {k} /\ k \notin DOMAIN growth /\ growth'[k] = record
  BY <1>6, <1>7
<1>9. ASSUME NEW u \in Users, u \notin overlapped
      PROVE  RewardAlone(u)' /\ Summed(u)'
  <2>1. \A a \in Mem!Rewarding(u)' : a \in Mem!Rewarding(u) /\ call'[a] = call[a]
    BY <1>5 DEF Mem!Rewarding
  <2>2. RewardAlone(u) /\ ComeTo(Mem!Given(u), profiles[u].growthValue)
    BY <1>9 DEF AddsInv, Summed
  <2>3. profiles[u].growthValue \in Int
    BY DEF Mem!TypeOK, Mem!Profiles
  <2>4. RewardAlone(u)'
    BY <1>1, <2>1, <2>2 DEF RewardAlone
  <2>5. CASE u = call[c].user
    <3>1. PICK r : r = <<"call", c, call[c].growthReward>>
      OBVIOUS
    <3>2. PICK s : s = <<"record", k, call[c].growthReward>>
      OBVIOUS
    <3>3. /\ r \in Mem!Given(u) /\ s \notin Mem!Given(u)
          /\ r[3] = call[c].growthReward /\ s[3] = call[c].growthReward
      BY <1>1, <1>8, <2>5, <3>1, <3>2 DEF Mem!Given, Mem!At
    <3>4. Mem!Given(u)' = (Mem!Given(u) \ {r}) \cup {s}
      BY <1>1, <1>3, <1>5, <1>6, <1>8, <2>5, <3>1, <3>2 DEF Mem!Given, Mem!At
    <3>5. ComeTo((Mem!Given(u) \ {r}) \cup {s}, profiles[u].growthValue)
      BY <1>2, <2>2, <2>3, <3>3, RewardMoves
    <3>6. ComeTo(Mem!Given(u)', profiles'[u].growthValue)
      BY <1>1, <3>4, <3>5
    <3>7. QED
      BY <2>4, <3>6, SummedThen
  <2>6. CASE u # call[c].user
    <3>1. Mem!Given(u)' = Mem!Given(u)
      BY <1>1, <1>3, <1>5, <1>6, <1>8, <2>6 DEF Mem!Given, Mem!At
    <3>2. ComeTo(Mem!Given(u)', profiles'[u].growthValue)
      BY <1>1, <2>2, <3>1
    <3>3. QED
      BY <2>4, <3>2, SummedThen
  <2>7. QED
    BY <2>5, <2>6
<1>10. \A a \in Calls : call'[a].pc \in Saving => SavesNew(a)'
  BY <1>1, <1>5 DEF AddsInv, SavesNew, Saving
<1>11. QED
  BY <1>1, <1>9, <1>10 DEF AddsInv

LEMMA AddsInit == Mem!Init => AddsInv
<1> SUFFICES ASSUME Mem!Init PROVE AddsInv
  OBVIOUS
<1>1. ASSUME NEW c \in Calls PROVE call[c].pc = "idle"
  BY DEF Mem!Init
<1>2. ASSUME NEW u \in Users PROVE profiles[u].growthValue = 0
  BY DEF Mem!Init, Mem!NewProfile
<1>3. ASSUME NEW u \in Users PROVE Mem!Rewarding(u) = {} /\ Mem!Given(u) = {}
  BY <1>1 DEF Mem!Init, Mem!Rewarding, Mem!Given, Mem!At
<1>4. Mem!Gained({}) = {} /\ Mem!Lost({}) = {}
  BY DEF Mem!Gained, Mem!Lost
<1>5. IsFiniteSet({}) /\ Cardinality({}) = 0
  BY FS_EmptySet
<1>6. ComeTo({}, 0)
  BY <1>4, <1>5 DEF ComeTo
<1>7. QED
  BY <1>1, <1>2, <1>3, <1>6 DEF AddsInv, RewardAlone, Summed, Saving

LEMMA AddsStep ==
  ASSUME MemNumbersOK
  PROVE  Mem!TypeOK /\ AddsInv /\ [Mem!Next]_(Mem!vars) => AddsInv'
<1> SUFFICES ASSUME Mem!TypeOK, AddsInv, [Mem!Next]_(Mem!vars) PROVE AddsInv'
  OBVIOUS
<1>1. ASSUME NEW c \in Calls, NEW u \in Users, Mem!GetProfile(c, u) PROVE AddsInv'
  <2>1. \E local : /\ MemSets(c, local) /\ local.pc \in {"done", "insertEmpty"}
    <3>1. [pc |-> "insertEmpty", user |-> u].pc = "insertEmpty"
      OBVIOUS
    <3>2. MemSets(c, Mem!Done) \/ MemSets(c, [pc |-> "insertEmpty", user |-> u])
      BY <1>1 DEF Mem!GetProfile, MemSets
    <3>3. QED
      BY <3>1, <3>2, MemDoneType
  <2>2. QED
    BY <1>1, <2>1, AddsUndisturbed DEF Saving, Mem!GetProfile, Mem!At, Mem!tables
<1>2. ASSUME NEW c \in Calls, NEW u \in Users, NEW t \in Tasks, Mem!CompleteTask(c, u, t)
      PROVE AddsInv'
  <2>1. \E local : /\ MemSets(c, local) /\ local.pc \in {"done", "findRecord"}
    <3>1. PICK local : local = [pc |-> "findRecord", user |-> u, task |-> t, new |-> FALSE,
                                growthReward |-> tasks[t].growthReward, profile |-> Mem!NewProfile,
                                seen |-> Mem!NewProfile]
      OBVIOUS
    <3>2. local.pc = "findRecord"
      BY <3>1
    <3>3. MemSets(c, Mem!Done) \/ MemSets(c, local)
      BY <1>2, <3>1 DEF Mem!CompleteTask, MemSets
    <3>4. QED
      BY <3>2, <3>3, MemDoneType
  <2>2. QED
    BY <1>2, <2>1, AddsUndisturbed DEF Saving, Mem!CompleteTask, Mem!At, Mem!tables
<1>3. ASSUME NEW c \in Calls, NEW t \in Tasks, Mem!FindTask(c, t) PROVE AddsInv'
  <2>1. \E local : /\ MemSets(c, local) /\ local.pc \in {"saveTask", "removeTask"}
    <3>1. CASE \E row : MemSets(c, [pc |-> "saveTask", task |-> t, row |-> row])
      BY <3>1
    <3>2. CASE MemSets(c, [pc |-> "removeTask", task |-> t, row |-> tasks[t]])
      BY <3>2
    <3>3. QED
      BY <1>3, <3>1, <3>2 DEF Mem!FindTask, MemSets
  <2>2. QED
    BY <1>3, <2>1, AddsUndisturbed DEF Saving, Mem!FindTask, Mem!At, Mem!tables
<1>4. ASSUME NEW c \in Calls, Mem!InsertEmpty(c) PROVE AddsInv'
  <2>1. MemSets(c, Mem!Done) /\ Mem!Done.pc = "done" /\ call[c].pc = "insertEmpty"
    BY <1>4, MemDoneType DEF Mem!InsertEmpty, Mem!Return, MemSets, Mem!At
  <2>2. CASE failures = 0
    <3>1. \A u \in Users : /\ profiles'[u].growthValue = profiles[u].growthValue
                           /\ profiles[u].exists => profiles'[u].exists
      BY <1>4, <2>2, NewProfileType DEF Mem!InsertEmpty, AddsInv, Mem!TypeOK
    <3>2. QED
      BY <1>4, <2>1, <3>1, AddsUndisturbed DEF Saving, Mem!InsertEmpty
  <2>3. CASE failures # 0
    BY <1>4, <2>3 DEF Mem!InsertEmpty, AddsInv
  <2>4. QED
    BY <2>2, <2>3
<1>5. ASSUME NEW c \in Calls, Mem!FindRecord(c) \/ Mem!SaveRecord(c) PROVE AddsInv'
  <2>1. \E local : /\ MemSets(c, local) /\ local.pc \in {"saveRecord", "findProfile"}
    <3>1. call[c].pc \in Stages
      BY <1>5 DEF Mem!FindRecord, Mem!SaveRecord, Mem!At, Stages
    <3>2. call[c] \in RewardLocals
      BY <3>1, MemCallTypes DEF Mem!TypeOK, Mem!Local, Stages, RewardLocals
    <3>3. CASE Mem!FindRecord(c)
      <4>1. PICK new : MemSets(c, [call[c] EXCEPT !.pc = "saveRecord", !.new = new])
        BY <3>3 DEF Mem!FindRecord, MemSets, Mem!TypeOK
      <4>2. [call[c] EXCEPT !.pc = "saveRecord", !.new = new].pc = "saveRecord"
        BY <3>2 DEF RewardLocals
      <4>3. QED
        BY <4>1, <4>2
    <3>4. CASE Mem!SaveRecord(c)
      <4>1. MemSets(c, [call[c] EXCEPT !.pc = "findProfile"])
        BY <3>4 DEF Mem!SaveRecord, Mem!GoTo, MemSets
      <4>2. [call[c] EXCEPT !.pc = "findProfile"].pc = "findProfile"
        BY <3>2 DEF RewardLocals
      <4>3. QED
        BY <4>1, <4>2
    <3>5. QED
      BY <1>5, <3>3, <3>4
  <2>2. /\ profiles' = profiles /\ growth' = growth /\ overlapped' = overlapped
        /\ failures' = failures /\ call[c].pc # "saveGrowth"
    BY <1>5 DEF Mem!FindRecord, Mem!SaveRecord, Mem!At, Mem!tables
  <2>3. QED
    BY <2>1, <2>2, AddsUndisturbed DEF Saving
<1>6. ASSUME NEW c \in Calls, Mem!SaveTask(c) \/ Mem!RemoveTask(c) PROVE AddsInv'
  <2>1. MemSets(c, Mem!Done) /\ Mem!Done.pc = "done"
    BY <1>6, MemDoneType DEF Mem!SaveTask, Mem!RemoveTask, Mem!Return, MemSets
  <2>2. QED
    BY <1>6, <2>1, AddsUndisturbed DEF Saving, Mem!SaveTask, Mem!RemoveTask, Mem!At
<1>7. ASSUME NEW c \in Calls, Mem!AwaitFails(c) PROVE AddsInv'
  <2>1. failures' # 0
    BY <1>7 DEF Mem!AwaitFails, Mem!TypeOK, MemNumbersOK
  <2>2. QED
    BY <2>1 DEF AddsInv
<1>10. ASSUME NEW c \in Calls, Mem!InsertProfile(c) \/ Mem!WriteProfile(c) PROVE AddsInv'
  BY <1>10, AddsSave
<1>8. CASE UNCHANGED <<profiles, growth, call, overlapped, failures>>
  <2>1. ASSUME failures = 0, NEW u \in Users, u \notin overlapped
        PROVE  RewardAlone(u)' /\ Summed(u)'
    <3>1. RewardAlone(u) /\ Summed(u)
      BY <2>1 DEF AddsInv
    <3>2. Mem!Given(u)' = Mem!Given(u) /\ Mem!Rewarding(u)' = Mem!Rewarding(u)
      BY <1>8 DEF Mem!Given, Mem!Rewarding, Mem!At
    <3>3. RewardAlone(u)'
      BY <1>8, <3>1, <3>2 DEF RewardAlone
    <3>4. ComeTo(Mem!Given(u)', profiles'[u].growthValue)
      BY <1>8, <3>1, <3>2 DEF Summed
    <3>5. QED
      BY <3>3, <3>4, SummedThen
  <2>2. QED
    BY <1>8, <2>1 DEF AddsInv, SavesNew
<1>9. QED
  BY <1>1, <1>2, <1>3, <1>4, <1>5, <1>6, <1>7, <1>8, <1>10, AddsFind, AddsSnapshot, AddsRecord
     DEF Mem!Next, Mem!CreateTask, Mem!vars, Mem!tables

\* A user's growth is the sum of the growth records and of those about to be written.
THEOREM GrowthAddsUpCorrect ==
  ASSUME MemNumbersOK PROVE Mem!Spec => []Mem!GrowthAddsUp
<1>1. Mem!TypeOK /\ AddsInv => Mem!GrowthAddsUp
  <2>0. \A S : Mem!Cardinality(S) = Cardinality(S)
    BY DEF Mem!Cardinality, Cardinality
  <2> SUFFICES ASSUME Mem!TypeOK, AddsInv, NEW u \in Users, u \notin overlapped, ~ failures > 0
               PROVE  profiles[u].growthValue + Cardinality(Mem!Lost(Mem!Given(u)))
                        = Cardinality(Mem!Gained(Mem!Given(u)))
    BY <2>0 DEF Mem!GrowthAddsUp
  <2>1. CASE failures = 0
    BY <2>1 DEF AddsInv, Summed, ComeTo
  <2>2. failures \in Nat
    BY DEF Mem!TypeOK
  <2>3. QED
    BY <2>1, <2>2
<1>2. QED
  BY <1>1, MemTypeInit, MemTypeStep, AddsInit, AddsStep, PTL DEF Mem!Spec

-----------------------------------------------------------------------------
(***************************************************************************)
(* Regions: loads of the file and the tree that clients are shown.         *)
(***************************************************************************)

\* The file lists a code once, and a region after the one it belongs to.
FileWellFormed ==
  /\ File \in Seq([code : Reg!Codes, parent : Reg!Codes \cup {"0"}])
  /\ \A i, j \in DOMAIN File : File[i].code = File[j].code => i = j
  /\ \A i \in DOMAIN File : File[i].parent = "0" \/ \E j \in 1 .. i - 1 : File[j].code = File[i].parent

RegBoundsOK == MaxId \in Nat /\ MaxFailures \in Nat

-----------------------------------------------------------------------------
(***************************************************************************)
(* Types                                                                   *)
(***************************************************************************)
LEMMA FileTypes ==
  ASSUME FileWellFormed
  PROVE  /\ Len(File) \in Nat /\ DOMAIN File = 1 .. Len(File)
         /\ \A i \in 1 .. Len(File) : File[i].code \in Reg!Codes /\ File[i].parent \in Reg!Codes \cup {"0"}
<1> DEFINE Items == [code : Reg!Codes, parent : Reg!Codes \cup {"0"}]
<1>1. File \in Seq(Items)
  BY DEF FileWellFormed
<1>2. \A item \in Items : item.code \in Reg!Codes /\ item.parent \in Reg!Codes \cup {"0"}
  OBVIOUS
<1> HIDE DEF Items
<1>3. QED
  BY <1>1, <1>2

LEMMA MaxOfTwo ==
  ASSUME NEW a \in Int, NEW b \in Int
  PROVE  Reg!Max({a, b}) = IF a >= b THEN a ELSE b
BY DEF Reg!Max

LEMMA RegTypeInit == ASSUME RegBoundsOK PROVE Reg!Init => Reg!TypeOK
<1> SUFFICES ASSUME Reg!Init PROVE Reg!TypeOK
  OBVIOUS
<1>1. [at |-> "idle"] \in Reg!Local
  BY DEF Reg!Local
<1>2. DOMAIN rows = {}
  BY DEF Reg!Init
<1>3. QED
  BY <1>1, <1>2 DEF Reg!Init, Reg!TypeOK, RegBoundsOK

\* What a call has at hand.
LEMMA RegCallTypes ==
  ASSUME NEW c, call[c] \in Reg!Local
  PROVE  /\ Reg!At(c, "insert") => /\ call[c].next \in 1 .. Len(File) + 1
                                   /\ call[c].ids \in [Reg!Codes -> 0 .. MaxId]
                                   /\ call[c].cleared \in BOOLEAN
         /\ Reg!At(c, "save") => call[c].id \in Reg!RegionIds /\ call[c].row \in Reg!RegionRow
BY DEF Reg!Local, Reg!At

LEMMA EndTypes == Reg!Done \in Reg!Local /\ [at |-> "clear"] \in Reg!Local
BY DEF Reg!Done, Reg!Local

LEMMA LoadingType ==
  ASSUME RegBoundsOK, FileWellFormed, NEW cleared \in BOOLEAN
  PROVE Reg!Loading(cleared) \in Reg!Local
<1>1. 1 \in 1 .. Len(File) + 1 /\ 0 \in 0 .. MaxId
  BY FileTypes DEF RegBoundsOK
<1>2. QED
  BY <1>1 DEF Reg!Loading, Reg!Local

LEMMA RegSetType ==
  ASSUME Reg!TypeOK, NEW c \in Calls, NEW local \in Reg!Local, Reg!Set(c, local)
  PROVE  call' \in [Calls -> Reg!Local]
BY DEF Reg!Set, Reg!TypeOK

LEMMA BeginType ==
  ASSUME Reg!TypeOK, NEW c \in Calls, Reg!Begin(c)
  PROVE  overlaps' \subseteq Calls
BY DEF Reg!Begin, Reg!TypeOK, Reg!UnderWay

\* A switch begins: the call holds a row, or it ends.
LEMMA ToggleType ==
  ASSUME Reg!TypeOK, NEW id \in Reg!RegionIds, id \in DOMAIN rows
  PROVE  /\ \A isActive \in BOOLEAN :
              [at |-> "save", id |-> id, row |-> [rows[id] EXCEPT !.isActive = isActive]] \in Reg!Local
         /\ [at |-> "save", id |-> id, row |-> rows[id]] \in Reg!Local
<1>1. rows[id] \in Reg!RegionRow
  BY DEF Reg!TypeOK
<1>2. \A isActive \in BOOLEAN : [rows[id] EXCEPT !.isActive = isActive] \in Reg!RegionRow
  BY <1>1 DEF Reg!RegionRow
<1>3. QED
  BY <1>1, <1>2 DEF Reg!Local

\* What InsertRegion writes.
Item(c) == File[call[c].next]
NewRow(c) == [code |-> Item(c).code, parentId |-> Reg!ParentId(call[c].ids, Item(c)), isActive |-> TRUE]
Moved(c) == [call[c] EXCEPT !.next = @ + 1, !.ids[Item(c).code] = nextId]

LEMMA InsertIs ==
  ASSUME NEW c, Reg!InsertRegion(c)
  PROVE  /\ rows' = [id \in DOMAIN rows \cup {nextId} |-> IF id = nextId THEN NewRow(c) ELSE rows[id]]
         /\ Reg!Set(c, Moved(c))
BY DEF Reg!InsertRegion, NewRow, Item, Moved

LEMMA RegInsertTypes ==
  ASSUME RegBoundsOK, FileWellFormed, Reg!TypeOK, NEW c \in Calls, Reg!InsertRegion(c)
  PROVE  /\ call[c].next \in 1 .. Len(File) /\ Item(c).code \in Reg!Codes
         /\ nextId \in Reg!RegionIds
         /\ NewRow(c) \in Reg!RegionRow
         /\ Moved(c) \in Reg!Local
         /\ Moved(c).next = call[c].next + 1
         /\ Moved(c).ids = [call[c].ids EXCEPT ![Item(c).code] = nextId]
         /\ Moved(c).at = "insert" /\ Moved(c).cleared = call[c].cleared
<1>1. /\ Reg!At(c, "insert") /\ call[c].next \in 1 .. Len(File) + 1
      /\ call[c].ids \in [Reg!Codes -> 0 .. MaxId] /\ call[c].cleared \in BOOLEAN
      /\ call[c].next <= Len(File) /\ nextId <= MaxId
  BY RegCallTypes DEF Reg!InsertRegion, Reg!TypeOK
<1>2. call[c].next \in 1 .. Len(File)
  BY <1>1, FileTypes
<1>3. Item(c).code \in Reg!Codes /\ Item(c).parent \in Reg!Codes \cup {"0"}
  BY <1>2, FileTypes DEF Item
<1>4. nextId \in Reg!RegionIds /\ nextId \in 0 .. MaxId
  BY <1>1 DEF Reg!TypeOK, Reg!RegionIds, RegBoundsOK
<1>5. Reg!ParentId(call[c].ids, Item(c)) \in 0 .. MaxId
  <2>1. CASE Item(c).parent = "0"
    BY <2>1 DEF Reg!ParentId, RegBoundsOK
  <2>2. CASE Item(c).parent # "0"
    BY <2>2, <1>1, <1>3 DEF Reg!ParentId
  <2>3. QED
    BY <2>1, <2>2
<1>6. NewRow(c) \in Reg!RegionRow
  BY <1>3, <1>5 DEF NewRow, Reg!RegionRow
<1>7. call[c].next + 1 \in 1 .. Len(File) + 1
  BY <1>2, FileTypes
<1>8. [call[c].ids EXCEPT ![Item(c).code] = nextId] \in [Reg!Codes -> 0 .. MaxId]
  BY <1>1, <1>4
<1>9. call[c] \in [at : {"insert"}, next : 1 .. Len(File) + 1, ids : [Reg!Codes -> 0 .. MaxId], cleared : BOOLEAN]
  BY <1>1 DEF Reg!TypeOK, Reg!Local, Reg!At
<1>10. /\ Moved(c).next = call[c].next + 1
       /\ Moved(c).ids = [call[c].ids EXCEPT ![Item(c).code] = nextId]
       /\ Moved(c).at = "insert" /\ Moved(c).cleared = call[c].cleared
       /\ Moved(c) \in [at : {"insert"}, next : 1 .. Len(File) + 1, ids : [Reg!Codes -> 0 .. MaxId], cleared : BOOLEAN]
  BY <1>7, <1>8, <1>9 DEF Moved
<1>11. Moved(c) \in Reg!Local
  BY <1>10 DEF Reg!Local
<1>12. QED
  BY <1>2, <1>3, <1>4, <1>6, <1>10, <1>11

\* What SaveRegion writes.
LEMMA SaveIs ==
  ASSUME Reg!TypeOK, NEW c \in Calls, Reg!SaveRegion(c)
  PROVE  /\ call[c].id \in Reg!RegionIds /\ call[c].row \in Reg!RegionRow
         /\ rows' = [id \in DOMAIN rows \cup {call[c].id} |-> IF id = call[c].id THEN call[c].row ELSE rows[id]]
         /\ nextId' = IF nextId >= call[c].id + 1 THEN nextId ELSE call[c].id + 1
<1>1. call[c].id \in Reg!RegionIds /\ call[c].row \in Reg!RegionRow
  BY RegCallTypes DEF Reg!SaveRegion, Reg!TypeOK
<1>2. nextId' = Reg!Max({nextId, call[c].id + 1})
  BY DEF Reg!SaveRegion
<1>3. nextId \in Int /\ call[c].id + 1 \in Int
  BY <1>1 DEF Reg!TypeOK, Reg!RegionIds
<1>4. QED
  BY <1>1, <1>2, <1>3, MaxOfTwo DEF Reg!SaveRegion

LEMMA RegTypeStep ==
  ASSUME RegBoundsOK, FileWellFormed PROVE Reg!TypeOK /\ [Reg!Next]_(Reg!vars) => Reg!TypeOK'
<1> SUFFICES ASSUME Reg!TypeOK, [Reg!Next]_(Reg!vars) PROVE Reg!TypeOK'
  OBVIOUS
<1>1. ASSUME NEW c \in Calls, Reg!InitFromRegionData(c) \/ Reg!Script(c) PROVE Reg!TypeOK'
  <2>1. \E local \in Reg!Local : Reg!Set(c, local)
    BY <1>1, EndTypes, LoadingType DEF Reg!InitFromRegionData, Reg!Script
  <2>2. call' \in [Calls -> Reg!Local]
    BY <2>1, RegSetType
  <2>3. overlaps' \subseteq Calls
    BY <1>1, BeginType DEF Reg!InitFromRegionData, Reg!Script
  <2>4. QED
    BY <1>1, <2>2, <2>3 DEF Reg!InitFromRegionData, Reg!Script, Reg!TypeOK
<1>2. ASSUME NEW c \in Calls, Reg!Clear(c) PROVE Reg!TypeOK'
  <2>1. call' \in [Calls -> Reg!Local]
    BY <1>2, LoadingType, RegSetType DEF Reg!Clear
  <2>2. DOMAIN rows' = {} /\ nextId' \in 1 .. MaxId + 1
    BY <1>2 DEF Reg!Clear, RegBoundsOK
  <2>3. QED
    BY <1>2, <2>1, <2>2 DEF Reg!Clear, Reg!TypeOK
<1>3. ASSUME NEW c \in Calls, Reg!InsertRegion(c) PROVE Reg!TypeOK'
  <2>1. nextId \in Reg!RegionIds /\ NewRow(c) \in Reg!RegionRow /\ Moved(c) \in Reg!Local
    BY <1>3, RegInsertTypes
  <2>2. call' \in [Calls -> Reg!Local]
    BY <1>3, <2>1, InsertIs, RegSetType
  <2>3. DOMAIN rows' \subseteq Reg!RegionIds /\ \A id \in DOMAIN rows' : rows'[id] \in Reg!RegionRow
    BY <1>3, <2>1, InsertIs DEF Reg!TypeOK
  <2>4. nextId' \in 1 .. MaxId + 1
    BY <1>3, <2>1 DEF Reg!InsertRegion, Reg!RegionIds, RegBoundsOK
  <2>5. QED
    BY <1>3, <2>2, <2>3, <2>4 DEF Reg!InsertRegion, Reg!TypeOK
<1>4. ASSUME NEW c \in Calls, Reg!FinishLoad(c) PROVE Reg!TypeOK'
  BY <1>4, EndTypes, RegSetType DEF Reg!FinishLoad, Reg!TypeOK
<1>5. ASSUME NEW c \in Calls, NEW id \in Reg!RegionIds, NEW isActive \in BOOLEAN,
             Reg!ToggleRegionActive(c, id, isActive) \/ Reg!ToggleRegionRemote(c, id)
      PROVE  Reg!TypeOK'
  <2>1. \E local \in Reg!Local : Reg!Set(c, local)
    BY <1>5, EndTypes, ToggleType DEF Reg!ToggleRegionActive, Reg!ToggleRegionRemote
  <2>2. call' \in [Calls -> Reg!Local]
    BY <2>1, RegSetType
  <2>3. overlaps' \subseteq Calls
    BY <1>5, BeginType DEF Reg!ToggleRegionActive, Reg!ToggleRegionRemote
  <2>4. QED
    BY <1>5, <2>2, <2>3 DEF Reg!ToggleRegionActive, Reg!ToggleRegionRemote, Reg!TypeOK
<1>6. ASSUME NEW c \in Calls, Reg!SaveRegion(c) PROVE Reg!TypeOK'
  <2>1. call' \in [Calls -> Reg!Local]
    BY <1>6, EndTypes, RegSetType DEF Reg!SaveRegion
  <2>2. /\ call[c].id \in Reg!RegionIds /\ call[c].row \in Reg!RegionRow
        /\ rows' = [id \in DOMAIN rows \cup {call[c].id} |-> IF id = call[c].id THEN call[c].row ELSE rows[id]]
        /\ nextId' = IF nextId >= call[c].id + 1 THEN nextId ELSE call[c].id + 1
    BY <1>6, SaveIs
  <2>3. DOMAIN rows' \subseteq Reg!RegionIds /\ \A id \in DOMAIN rows' : rows'[id] \in Reg!RegionRow
    BY <2>2 DEF Reg!TypeOK
  <2>4. nextId' \in 1 .. MaxId + 1
    BY <2>2 DEF Reg!TypeOK, Reg!RegionIds, RegBoundsOK
  <2>5. QED
    BY <1>6, <2>1, <2>3, <2>4 DEF Reg!SaveRegion, Reg!TypeOK
<1>7. ASSUME NEW c \in Calls, Reg!AwaitFails(c) PROVE Reg!TypeOK'
  BY <1>7, EndTypes, RegSetType DEF Reg!AwaitFails, Reg!TypeOK, RegBoundsOK
<1>8. CASE UNCHANGED Reg!vars
  BY <1>8 DEF Reg!vars, Reg!TypeOK
<1>9. QED
  BY <1>1, <1>2, <1>3, <1>4, <1>5, <1>6, <1>7, <1>8 DEF Reg!Next, Reg!Step

\* Types hold in every reachable state.
THEOREM RegTypeCorrect == ASSUME RegBoundsOK, FileWellFormed PROVE Reg!Spec => []Reg!TypeOK
BY RegTypeInit, RegTypeStep, PTL DEF Reg!Spec

-----------------------------------------------------------------------------
(***************************************************************************)
(* Loads that nothing ran beside                                           *)
(***************************************************************************)
\* A row is that of the file's item of the same number.
RowFits(row, i) ==
  /\ row.code = File[i].code
  /\ IF File[i].parent = "0" THEN row.parentId = 0
     ELSE row.parentId \in 1 .. Len(File) /\ File[row.parentId].code = File[i].parent

\* A call that nothing overlaps with is alone.
AloneInv == \A c \in Reg!UnderWay : c \notin overlaps => Reg!UnderWay \subseteq {c}

\* A load into the cleared table has inserted the first items in their order.
Loads(c) == Reg!At(c, "insert") /\ call[c].cleared /\ c \notin overlaps

LoadedBy(c) ==
  /\ nextId = call[c].next
  /\ DOMAIN rows = 1 .. call[c].next - 1
  /\ \A i \in 1 .. call[c].next - 1 : RowFits(rows[i], i)
  /\ \A i \in 1 .. Len(File) : call[c].ids[File[i].code] = IF i < call[c].next THEN i ELSE 0

\* After such a load the table has the rows of the file, and what is about to be
\* saved fits in.
Intact == loaded # "none" /\ loaded \notin overlaps

Whole ==
  /\ DOMAIN rows = 1 .. Len(File) /\ nextId = Len(File) + 1
  /\ \A i \in 1 .. Len(File) : RowFits(rows[i], i)

Harmless(local) ==
  /\ local.at \notin {"clear", "insert"}
  /\ local.at = "save" => local.id \in 1 .. Len(File) /\ RowFits(local.row, local.id)

LoadInv ==
  /\ AloneInv
  /\ \A c \in Calls : Loads(c) => LoadedBy(c)
  /\ Intact => Whole /\ \A c \in Calls : Harmless(call[c])

LEMMA LoadInit == Reg!Init => LoadInv
BY DEF Reg!Init, LoadInv, AloneInv, Reg!UnderWay, Loads, Reg!At, Intact

\* A call begins: whoever is under way is no longer alone.
LEMMA BeginAlone ==
  ASSUME Reg!TypeOK, AloneInv, NEW c \in Calls, Reg!Begin(c), NEW local, Reg!Set(c, local)
  PROVE  AloneInv' /\ \A d \in Calls : Loads(d)' => d = c /\ c \notin overlaps'
<1>1. overlaps' = overlaps \cup IF Reg!UnderWay = {} THEN {} ELSE Reg!UnderWay \cup {c}
  BY DEF Reg!Begin
<1>2. \A d \in Calls : call'[d] = IF d = c THEN local ELSE call[d]
  BY DEF Reg!Set, Reg!TypeOK
<1>3. Reg!UnderWay' \subseteq Reg!UnderWay \cup {c} /\ c \notin Reg!UnderWay
  BY <1>2 DEF Reg!UnderWay, Reg!Begin, Reg!At
<1>4. CASE Reg!UnderWay = {}
  <2>1. Reg!UnderWay' \subseteq {c}
    BY <1>3, <1>4
  <2>2. \A d \in Calls : Loads(d)' => d \in Reg!UnderWay'
    BY DEF Loads, Reg!At, Reg!UnderWay
  <2>3. \A d \in Calls : Loads(d)' => d \notin overlaps'
    BY DEF Loads
  <2>4. QED
    BY <2>1, <2>2, <2>3 DEF AloneInv
<1>5. CASE Reg!UnderWay # {}
  <2>1. \A d \in Reg!UnderWay' : d \in overlaps'
    BY <1>1, <1>3, <1>5
  <2>2. \A d \in Calls : Loads(d)' => d \in Reg!UnderWay' /\ d \notin overlaps'
    BY DEF Loads, Reg!At, Reg!UnderWay
  <2>3. QED
    BY <2>1, <2>2 DEF AloneInv
<1>6. QED
  BY <1>4, <1>5

\* A call that goes on or ends.
LEMMA StayAlone ==
  ASSUME Reg!TypeOK, AloneInv, NEW c \in Reg!UnderWay, NEW local, Reg!Set(c, local),
         overlaps' = overlaps
  PROVE  /\ AloneInv'
         /\ \A d \in Calls : Loads(d)' => d = c
<1>1. \A d \in Calls : call'[d] = IF d = c THEN local ELSE call[d]
  BY DEF Reg!Set, Reg!TypeOK, Reg!UnderWay
<1>2. Reg!UnderWay' \subseteq Reg!UnderWay
  BY <1>1 DEF Reg!UnderWay
<1>3. AloneInv'
  BY <1>2 DEF AloneInv
<1>4. ASSUME NEW d \in Calls, Loads(d)', d # c PROVE FALSE
  <2>1. d \in Reg!UnderWay /\ d \notin overlaps
    BY <1>1, <1>4 DEF Loads, Reg!At, Reg!UnderWay
  <2>2. Reg!UnderWay \subseteq {d}
    BY <2>1 DEF AloneInv
  <2>3. QED
    BY <1>4, <2>2
<1>5. QED
  BY <1>3, <1>4

LEMMA InitLoadStep ==
  ASSUME Reg!TypeOK, LoadInv, NEW c \in Calls, Reg!InitFromRegionData(c) PROVE LoadInv'
<1>1. Reg!Begin(c) /\ Reg!Set(c, [at |-> "clear"]) /\ loaded' = "none"
  BY DEF Reg!InitFromRegionData
<1>2. AloneInv' /\ \A d \in Calls : Loads(d)' => d = c
  BY <1>1, BeginAlone DEF LoadInv
<1>3. call'[c].at = "clear"
  BY <1>1 DEF Reg!Set, Reg!TypeOK
<1>4. \A d \in Calls : ~ Loads(d)'
  BY <1>2, <1>3 DEF Loads, Reg!At
<1>5. QED
  BY <1>1, <1>2, <1>4 DEF LoadInv, Intact

LEMMA ScriptStep ==
  ASSUME Reg!TypeOK, LoadInv, NEW c \in Calls, Reg!Script(c) PROVE LoadInv'
<1>1. Reg!Begin(c) /\ Reg!Set(c, Reg!Loading(FALSE)) /\ loaded' = "none"
  BY DEF Reg!Script
<1>2. AloneInv' /\ \A d \in Calls : Loads(d)' => d = c
  BY <1>1, BeginAlone DEF LoadInv
<1>3. call'[c].cleared = FALSE
  BY <1>1 DEF Reg!Set, Reg!TypeOK, Reg!Loading
<1>4. \A d \in Calls : ~ Loads(d)'
  BY <1>2, <1>3 DEF Loads, Reg!At
<1>5. QED
  BY <1>1, <1>2, <1>4 DEF LoadInv, Intact

\* The table is empty, and no item has an id.
LEMMA ClearStep ==
  ASSUME FileWellFormed, Reg!TypeOK, LoadInv, NEW c \in Calls, Reg!Clear(c) PROVE LoadInv'
<1>1. /\ Reg!At(c, "clear") /\ Reg!Set(c, Reg!Loading(TRUE)) /\ overlaps' = overlaps /\ loaded' = loaded
      /\ rows' = <<>> /\ nextId' = 1
  BY DEF Reg!Clear
<1>2. c \in Reg!UnderWay
  BY <1>1 DEF Reg!UnderWay, Reg!At
<1>3. AloneInv' /\ \A d \in Calls : Loads(d)' => d = c
  BY <1>1, <1>2, StayAlone DEF LoadInv
<1>4. call'[c] = Reg!Loading(TRUE)
  BY <1>1 DEF Reg!Set, Reg!TypeOK
<1>5. call'[c].next = 1 /\ \A code \in Reg!Codes : call'[c].ids[code] = 0
  BY <1>4 DEF Reg!Loading
<1>6. LoadedBy(c)'
  <2>1. nextId' = call'[c].next /\ 1 .. call'[c].next - 1 = {}
    BY <1>1, <1>5
  <2>2. DOMAIN rows' = {}
    BY <1>1
  <2>3. ASSUME NEW i \in 1 .. Len(File)
        PROVE call'[c].ids[File[i].code] = IF i < call'[c].next THEN i ELSE 0
    BY <1>5, FileTypes
  <2>4. QED
    BY <2>1, <2>2, <2>3 DEF LoadedBy
<1>7. ~ Intact
  BY <1>1 DEF LoadInv, Harmless, Reg!At
<1>8. QED
  BY <1>1, <1>3, <1>6, <1>7 DEF LoadInv, Intact

\* The next item gets the next id, below the id that its parent got before.
LEMMA InsertLoaded ==
  ASSUME RegBoundsOK, FileWellFormed, Reg!TypeOK, NEW c \in Calls, LoadedBy(c),
         Reg!InsertRegion(c)
  PROVE  LoadedBy(c)'
<1> DEFINE n == call[c].next
<1>1. /\ n \in 1 .. Len(File) /\ Len(File) \in Nat
      /\ nextId = n /\ DOMAIN rows = 1 .. n - 1
      /\ nextId' = n + 1
  BY RegInsertTypes, FileTypes DEF LoadedBy, Reg!InsertRegion
<1>2. call'[c] = Moved(c)
  BY InsertIs DEF Reg!Set, Reg!TypeOK
<1>3. call'[c].next = n + 1 /\ call'[c].ids = [call[c].ids EXCEPT ![File[n].code] = n]
  BY <1>1, <1>2, RegInsertTypes DEF Item
<1>4. rows' = [id \in DOMAIN rows \cup {n} |-> IF id = n THEN NewRow(c) ELSE rows[id]]
  BY <1>1, InsertIs
<1>5. call[c].ids \in [Reg!Codes -> 0 .. MaxId] /\ \A i \in 1 .. Len(File) : call[c].ids[File[i].code] = IF i < n THEN i ELSE 0
  BY RegCallTypes DEF Reg!TypeOK, Reg!InsertRegion, LoadedBy
<1>6. RowFits(NewRow(c), n)
  <2>1. NewRow(c).code = File[n].code
    BY DEF NewRow, Item
  <2>2. NewRow(c).parentId = IF File[n].parent = "0" THEN 0 ELSE call[c].ids[File[n].parent]
    BY DEF NewRow, Item, Reg!ParentId
  <2>3. CASE File[n].parent = "0"
    BY <2>1, <2>2, <2>3 DEF RowFits
  <2>4. CASE File[n].parent # "0"
    <3>1. PICK j \in 1 .. n - 1 : File[j].code = File[n].parent
      BY <1>1, <2>4, FileTypes DEF FileWellFormed
    <3>2. j \in 1 .. Len(File) /\ j < n
      BY <1>1
    <3>3. call[c].ids[File[j].code] = j
      BY <1>5, <3>2
    <3>4. NewRow(c).parentId = j
      BY <2>2, <2>4, <3>1, <3>3
    <3>5. QED
      BY <2>1, <2>4, <3>1, <3>2, <3>4 DEF RowFits
  <2>5. QED
    BY <2>3, <2>4
<1>7. DOMAIN rows' = 1 .. n
  <2>1. 1 .. n = (1 .. n - 1) \cup {n}
    BY <1>1
  <2>2. QED
    BY <1>1, <1>4, <2>1
<1>8. ASSUME NEW i \in 1 .. n PROVE RowFits(rows'[i], i)
  <2>1. CASE i = n
    BY <1>4, <1>6, <1>7, <2>1
  <2>2. CASE i # n
    <3>1. i \in 1 .. n - 1
      BY <1>1, <2>2
    <3>2. rows'[i] = rows[i]
      BY <1>4, <1>7, <2>2
    <3>3. RowFits(rows[i], i)
      BY <3>1 DEF LoadedBy
    <3>4. QED
      BY <3>2, <3>3
  <2>3. QED
    BY <2>1, <2>2
<1>9. ASSUME NEW i \in 1 .. Len(File)
      PROVE call'[c].ids[File[i].code] = IF i < n + 1 THEN i ELSE 0
  <2>1. File[i].code \in Reg!Codes /\ File[n].code \in Reg!Codes
    BY <1>1, FileTypes
  <2>2. CASE i = n
    BY <1>3, <1>5, <2>1, <2>2
  <2>3. CASE i # n
    <3>1. File[i].code # File[n].code
      BY <1>1, <2>3, FileTypes DEF FileWellFormed
    <3>2. call'[c].ids[File[i].code] = call[c].ids[File[i].code]
      BY <1>3, <1>5, <2>1, <3>1
    <3>3. i < n + 1 <=> i < n
      BY <1>1, <2>3
    <3>4. QED
      BY <1>5, <3>2, <3>3
  <2>4. QED
    BY <2>2, <2>3
<1> HIDE DEF n
<1>10. call'[c].next - 1 = n
  BY <1>1, <1>3
<1>11. QED
  BY <1>1, <1>3, <1>7, <1>8, <1>9, <1>10 DEF LoadedBy, RowFits

LEMMA InsertStep ==
  ASSUME RegBoundsOK, FileWellFormed, Reg!TypeOK, LoadInv, NEW c \in Calls, Reg!InsertRegion(c)
  PROVE LoadInv'
<1>1. /\ Reg!At(c, "insert") /\ Reg!Set(c, Moved(c)) /\ overlaps' = overlaps /\ loaded' = loaded
  BY InsertIs DEF Reg!InsertRegion
<1>2. c \in Reg!UnderWay
  BY <1>1 DEF Reg!UnderWay, Reg!At
<1>3. AloneInv' /\ \A d \in Calls : Loads(d)' => d = c
  BY <1>1, <1>2, StayAlone DEF LoadInv
<1>4. call'[c] = Moved(c)
  BY <1>1 DEF Reg!Set, Reg!TypeOK
<1>5. Loads(c)' => Loads(c)
  BY <1>1, <1>4, RegInsertTypes DEF Loads
<1>6. Loads(c)' => LoadedBy(c)'
  BY <1>5, InsertLoaded DEF LoadInv
<1>7. ~ Intact
  BY <1>1 DEF LoadInv, Harmless, Reg!At
<1>8. QED
  BY <1>1, <1>3, <1>6, <1>7 DEF LoadInv, Intact

LEMMA FinishStep ==
  ASSUME FileWellFormed, Reg!TypeOK, LoadInv, NEW c \in Calls, Reg!FinishLoad(c) PROVE LoadInv'
<1>1. /\ Reg!At(c, "insert") /\ Reg!Set(c, Reg!Done) /\ overlaps' = overlaps
      /\ loaded' = IF call[c].cleared THEN c ELSE "none"
      /\ rows' = rows /\ nextId' = nextId
      /\ call[c].next > Len(File) /\ call[c].next \in 1 .. Len(File) + 1
  BY RegCallTypes DEF Reg!FinishLoad, Reg!TypeOK
<1>2. c \in Reg!UnderWay
  BY <1>1 DEF Reg!UnderWay, Reg!At
<1>3. AloneInv' /\ \A d \in Calls : Loads(d)' => d = c
  BY <1>1, <1>2, StayAlone DEF LoadInv
<1>4. \A d \in Calls : call'[d] = IF d = c THEN Reg!Done ELSE call[d]
  BY <1>1 DEF Reg!Set, Reg!TypeOK
<1>5. \A d \in Calls : ~ Loads(d)'
  BY <1>3, <1>4 DEF Loads, Reg!At, Reg!Done
<1>6. ASSUME Intact' PROVE Whole' /\ \A d \in Calls : Harmless(call'[d])
  <2>1. call[c].cleared /\ c \notin overlaps
    BY <1>1, <1>6 DEF Intact
  <2>2. LoadedBy(c)
    BY <1>1, <2>1 DEF LoadInv, Loads
  <2>3. call[c].next = Len(File) + 1 /\ call[c].next - 1 = Len(File)
    BY <1>1, FileTypes
  <2>4. Whole'
    BY <1>1, <2>2, <2>3 DEF LoadedBy, Whole, RowFits
  <2>5. Reg!UnderWay \subseteq {c}
    BY <1>2, <2>1 DEF LoadInv, AloneInv
  <2>6. \A d \in Calls : call'[d].at \in {"idle", "done"}
    BY <1>4, <2>5 DEF Reg!UnderWay, Reg!Done
  <2>7. \A d \in Calls : Harmless(call'[d])
    BY <2>6 DEF Harmless
  <2>8. QED
    BY <2>4, <2>7
<1>7. QED
  BY <1>3, <1>5, <1>6 DEF LoadInv, Harmless

LEMMA ToggleStep ==
  ASSUME FileWellFormed, Reg!TypeOK, LoadInv, NEW c \in Calls, NEW id \in Reg!RegionIds,
         NEW isActive \in BOOLEAN,
         Reg!ToggleRegionActive(c, id, isActive) \/ Reg!ToggleRegionRemote(c, id)
  PROVE  LoadInv'
<1>1. /\ Reg!Begin(c) /\ rows' = rows /\ nextId' = nextId /\ loaded' = loaded
      /\ \/ Reg!Set(c, Reg!Done)
         \/ /\ id \in DOMAIN rows
            /\ \/ Reg!Set(c, [at |-> "save", id |-> id, row |-> [rows[id] EXCEPT !.isActive = isActive]])
               \/ Reg!Set(c, [at |-> "save", id |-> id, row |-> rows[id]])
  BY DEF Reg!ToggleRegionActive, Reg!ToggleRegionRemote
<1>2. PICK local :
        /\ Reg!Set(c, local) /\ local.at \in {"save", "done"}
        /\ local.at = "save" => /\ local.id = id /\ id \in DOMAIN rows
                                /\ local.row.code = rows[id].code /\ local.row.parentId = rows[id].parentId
  <2>1. id \in DOMAIN rows => rows[id] \in Reg!RegionRow
    BY DEF Reg!TypeOK
  <2>2. CASE Reg!Set(c, Reg!Done)
    BY <2>2 DEF Reg!Done
  <2>3. CASE id \in DOMAIN rows /\ Reg!Set(c, [at |-> "save", id |-> id, row |-> rows[id]])
    BY <2>3
  <2>4. CASE id \in DOMAIN rows /\ Reg!Set(c, [at |-> "save", id |-> id, row |-> [rows[id] EXCEPT !.isActive = isActive]])
    BY <2>1, <2>4 DEF Reg!RegionRow
  <2>5. QED
    BY <1>1, <2>2, <2>3, <2>4
<1>3. AloneInv' /\ \A d \in Calls : Loads(d)' => d = c
  BY <1>1, <1>2, BeginAlone DEF LoadInv
<1>4. \A d \in Calls : call'[d] = IF d = c THEN local ELSE call[d]
  BY <1>2 DEF Reg!Set, Reg!TypeOK
<1>5. \A d \in Calls : ~ Loads(d)'
  BY <1>2, <1>3, <1>4 DEF Loads, Reg!At
<1>6. Intact' => Intact
  BY <1>1 DEF Intact, Reg!Begin
<1>7. ASSUME Intact PROVE Whole' /\ \A d \in Calls : Harmless(call'[d])
  <2>1. Whole /\ \A d \in Calls : Harmless(call[d])
    BY <1>7 DEF LoadInv
  <2>2. Whole'
    BY <1>1, <2>1 DEF Whole, RowFits
  <2>3. ASSUME local.at = "save"
        PROVE local.id \in 1 .. Len(File) /\ RowFits(local.row, local.id)
    BY <1>2, <2>1, <2>3 DEF Whole, RowFits
  <2>4. Harmless(local)
    BY <1>2, <2>3 DEF Harmless
  <2>5. QED
    BY <1>4, <2>1, <2>2, <2>4
<1>8. QED
  BY <1>3, <1>5, <1>6, <1>7 DEF LoadInv, Harmless

LEMMA SaveStep ==
  ASSUME FileWellFormed, Reg!TypeOK, LoadInv, NEW c \in Calls, Reg!SaveRegion(c) PROVE LoadInv'
<1>1. /\ Reg!At(c, "save") /\ Reg!Set(c, Reg!Done) /\ overlaps' = overlaps /\ loaded' = loaded
  BY DEF Reg!SaveRegion
<1>2. c \in Reg!UnderWay
  BY <1>1 DEF Reg!UnderWay, Reg!At
<1>3. AloneInv' /\ \A d \in Calls : Loads(d)' => d = c
  BY <1>1, <1>2, StayAlone DEF LoadInv
<1>4. \A d \in Calls : call'[d] = IF d = c THEN Reg!Done ELSE call[d]
  BY <1>1 DEF Reg!Set, Reg!TypeOK
<1>5. \A d \in Calls : ~ Loads(d)'
  BY <1>3, <1>4 DEF Loads, Reg!At, Reg!Done
<1>6. ASSUME Intact PROVE Whole' /\ \A d \in Calls : Harmless(call'[d])
  <2>1. Whole /\ \A d \in Calls : Harmless(call[d])
    BY <1>6 DEF LoadInv
  <2>2. call[c].id \in 1 .. Len(File) /\ RowFits(call[c].row, call[c].id)
    BY <1>1, <2>1 DEF Harmless, Reg!At
  <2>3. /\ rows' = [id \in DOMAIN rows \cup {call[c].id} |-> IF id = call[c].id THEN call[c].row ELSE rows[id]]
        /\ nextId' = IF nextId >= call[c].id + 1 THEN nextId ELSE call[c].id + 1
    BY SaveIs
  <2>4. DOMAIN rows' = 1 .. Len(File)
    BY <2>1, <2>2, <2>3 DEF Whole
  <2>5. nextId' = Len(File) + 1
    BY <2>1, <2>2, <2>3, FileTypes DEF Whole
  <2>6. ASSUME NEW i \in 1 .. Len(File) PROVE RowFits(rows'[i], i)
    <3>1. rows'[i] = IF i = call[c].id THEN call[c].row ELSE rows[i]
      BY <2>1, <2>3 DEF Whole
    <3>2. RowFits(rows[i], i)
      BY <2>1 DEF Whole
    <3>3. QED
      BY <2>2, <3>1, <3>2
  <2>7. Whole'
    BY <2>4, <2>5, <2>6 DEF Whole, RowFits
  <2>8. \A d \in Calls : Harmless(call'[d])
    BY <1>4, <2>1 DEF Harmless, Reg!Done
  <2>9. QED
    BY <2>7, <2>8
<1>7. Intact' => Intact
  BY <1>1 DEF Intact
<1>8. QED
  BY <1>3, <1>5, <1>6, <1>7 DEF LoadInv, Harmless

LEMMA FailsStep ==
  ASSUME Reg!TypeOK, LoadInv, NEW c \in Calls, Reg!AwaitFails(c) PROVE LoadInv'
<1>1. /\ c \in Reg!UnderWay /\ Reg!Set(c, Reg!Done) /\ overlaps' = overlaps /\ loaded' = loaded
      /\ rows' = rows /\ nextId' = nextId
  BY DEF Reg!AwaitFails
<1>2. AloneInv' /\ \A d \in Calls : Loads(d)' => d = c
  BY <1>1, StayAlone DEF LoadInv
<1>3. \A d \in Calls : call'[d] = IF d = c THEN Reg!Done ELSE call[d]
  BY <1>1 DEF Reg!Set, Reg!TypeOK
<1>4. \A d \in Calls : ~ Loads(d)'
  BY <1>2, <1>3 DEF Loads, Reg!At, Reg!Done
<1>5. ASSUME Intact' PROVE Whole' /\ \A d \in Calls : Harmless(call'[d])
  <2>1. Whole /\ \A d \in Calls : Harmless(call[d])
    BY <1>1, <1>5 DEF LoadInv, Intact
  <2>2. QED
    BY <1>1, <1>3, <2>1 DEF Whole, RowFits, Harmless, Reg!Done
<1>6. QED
  BY <1>2, <1>4, <1>5 DEF LoadInv, Harmless

LEMMA LoadStep ==
  ASSUME RegBoundsOK, FileWellFormed, Reg!TypeOK, LoadInv, [Reg!Next]_(Reg!vars) PROVE LoadInv'
<1>1. CASE UNCHANGED Reg!vars
  BY <1>1 DEF Reg!vars, LoadInv, AloneInv, Reg!UnderWay, Loads, LoadedBy, Intact, Whole,
     Harmless, RowFits, Reg!At
<1>2. ASSUME NEW c \in Calls, Reg!Step(c) PROVE LoadInv'
  BY <1>2, InitLoadStep, ClearStep, ScriptStep, InsertStep, FinishStep, ToggleStep, SaveStep,
     FailsStep DEF Reg!Step
<1>3. QED
  BY <1>1, <1>2 DEF Reg!Next

-----------------------------------------------------------------------------
(***************************************************************************)
(* The tree                                                                *)
(***************************************************************************)
\* One level more of rows and of codes.
BelowRows(tree) == {id \in DOMAIN rows : rows[id].isActive /\ rows[id].parentId \in tree \cup {0}}

On == {code \in Reg!Codes : \A id \in DOMAIN rows : rows[id].code = code => rows[id].isActive}

BelowCodes(codes) ==
  {File[i].code : i \in {j \in DOMAIN File : File[j].code \in On /\ File[j].parent \in codes \cup {"0"}}}

CodesOf(tree) == {rows[id].code : id \in tree}

LEMMA LevelsAgree ==
  ASSUME FileWellFormed, Reg!TypeOK, Whole, NEW tree, tree \subseteq DOMAIN rows
  PROVE  BelowRows(tree) \subseteq DOMAIN rows /\ CodesOf(BelowRows(tree)) = BelowCodes(CodesOf(tree))
<1>1. /\ DOMAIN rows = 1 .. Len(File) /\ DOMAIN File = 1 .. Len(File)
      /\ \A i \in 1 .. Len(File) : RowFits(rows[i], i) /\ rows[i].code = File[i].code
  BY FileTypes DEF Whole, RowFits
<1>2. \A i, j \in 1 .. Len(File) : File[i].code = File[j].code => i = j
  BY <1>1 DEF FileWellFormed
<1>3. ASSUME NEW i \in 1 .. Len(File) PROVE rows[i].isActive <=> File[i].code \in On
  <2>1. File[i].code \in Reg!Codes
    BY FileTypes
  <2>2. QED
    BY <1>1, <1>2, <2>1 DEF On
<1>4. ASSUME NEW i \in 1 .. Len(File)
      PROVE  rows[i].parentId \in tree \cup {0} <=> File[i].parent \in CodesOf(tree) \cup {"0"}
  <2>1. CASE File[i].parent = "0"
    BY <1>1, <2>1 DEF RowFits
  <2>2. CASE File[i].parent # "0"
    <3>1. rows[i].parentId \in 1 .. Len(File) /\ File[rows[i].parentId].code = File[i].parent
      BY <1>1, <2>2 DEF RowFits
    <3>2. rows[i].parentId # 0
      BY <3>1
    <3>3. File[i].parent \in CodesOf(tree) <=> rows[i].parentId \in tree
      BY <1>1, <1>2, <3>1 DEF CodesOf
    <3>4. QED
      BY <2>2, <3>2, <3>3
  <2>3. QED
    BY <2>1, <2>2
<1>5. BelowRows(tree) = {i \in 1 .. Len(File) : File[i].code \in On /\ File[i].parent \in CodesOf(tree) \cup {"0"}}
  BY <1>1, <1>3, <1>4 DEF BelowRows
<1>6. CodesOf(BelowRows(tree)) = BelowCodes(CodesOf(tree))
  BY <1>1, <1>5 DEF CodesOf, BelowCodes
<1>7. QED
  BY <1>1, <1>5, <1>6

LEMMA TreeIs ==
  /\ Reg!BuildTree = BelowRows(BelowRows(BelowRows({})))
  /\ Reg!Reachable = BelowCodes(BelowCodes(BelowCodes({})))
BY DEF Reg!BuildTree, Reg!Reachable, BelowRows, BelowCodes, On

LEMMA TreeShown ==
  ASSUME FileWellFormed, Reg!TypeOK, LoadInv PROVE Reg!TreeShowsFile
<1> SUFFICES ASSUME Intact
             PROVE  /\ CodesOf(Reg!BuildTree) = Reg!Reachable
                    /\ \A i, j \in Reg!BuildTree : rows[i].code = rows[j].code => i = j
                    /\ \A id \in Reg!BuildTree :
                         \E i \in DOMAIN File :
                           /\ File[i].code = rows[id].code
                           /\ CodesOf({q \in Reg!BuildTree : q = rows[id].parentId}) = {File[i].parent} \ {"0"}
  BY DEF Reg!TreeShowsFile, Intact, CodesOf
<1> DEFINE one == BelowRows({})
           two == BelowRows(one)
           three == BelowRows(two)
<1>1. Whole
  BY DEF LoadInv
<1>2. /\ DOMAIN rows = 1 .. Len(File) /\ DOMAIN File = 1 .. Len(File)
      /\ \A i \in 1 .. Len(File) : RowFits(rows[i], i) /\ rows[i].code = File[i].code
      /\ \A i, j \in 1 .. Len(File) : File[i].code = File[j].code => i = j
  BY <1>1, FileTypes DEF Whole, RowFits, FileWellFormed
<1>3. one \subseteq DOMAIN rows /\ CodesOf(one) = BelowCodes(CodesOf({}))
  BY <1>1, LevelsAgree
<1>4. CodesOf({}) = {}
  BY DEF CodesOf
<1>5. two \subseteq DOMAIN rows /\ CodesOf(two) = BelowCodes(CodesOf(one))
  BY <1>1, <1>3, LevelsAgree
<1>6. three \subseteq DOMAIN rows /\ CodesOf(three) = BelowCodes(CodesOf(two))
  BY <1>1, <1>5, LevelsAgree
<1>7. Reg!BuildTree = three
  BY TreeIs
<1>8. one \subseteq two /\ two \subseteq three
  BY DEF BelowRows
<1>9. CodesOf(Reg!BuildTree) = Reg!Reachable
  BY <1>3, <1>4, <1>5, <1>6, <1>7, TreeIs
<1>10. \A id \in three : rows[id].parentId \in two \cup {0}
  BY DEF BelowRows
<1> HIDE DEF one, two, three
<1>11. \A i, j \in Reg!BuildTree : rows[i].code = rows[j].code => i = j
  BY <1>2, <1>6, <1>7
<1>12. ASSUME NEW id \in Reg!BuildTree
       PROVE  /\ id \in DOMAIN File /\ File[id].code = rows[id].code
              /\ CodesOf({q \in Reg!BuildTree : q = rows[id].parentId}) = {File[id].parent} \ {"0"}
  <2>1. id \in 1 .. Len(File) /\ RowFits(rows[id], id)
    BY <1>2, <1>6, <1>7
  <2>2. CASE File[id].parent = "0"
    <3>1. rows[id].parentId = 0 /\ 0 \notin Reg!BuildTree
      BY <1>2, <1>6, <1>7, <2>1, <2>2 DEF RowFits
    <3>2. {q \in Reg!BuildTree : q = rows[id].parentId} = {}
      BY <3>1
    <3>3. QED
      BY <1>2, <2>1, <2>2, <3>2 DEF CodesOf
  <2>3. CASE File[id].parent # "0"
    <3>1. rows[id].parentId \in 1 .. Len(File) /\ File[rows[id].parentId].code = File[id].parent
      BY <2>1, <2>3 DEF RowFits
    <3>2. rows[id].parentId \in Reg!BuildTree
      BY <1>7, <1>8, <1>10, <3>1
    <3>3. {q \in Reg!BuildTree : q = rows[id].parentId} = {rows[id].parentId}
      BY <3>2
    <3>4. rows[rows[id].parentId].code = File[id].parent
      BY <1>2, <3>1
    <3>5. CodesOf({q \in Reg!BuildTree : q = rows[id].parentId}) = {File[id].parent}
      BY <3>3, <3>4 DEF CodesOf
    <3>6. QED
      BY <1>2, <2>1, <2>3, <3>5
  <2>4. QED
    BY <2>2, <2>3
<1>13. QED
  BY <1>9, <1>11, <1>12

\* After an initialisation that nothing ran beside, clients are shown each region
\* of the file that is reachable, once and below its parent: for every file, number
\* of calls and history of switches.
THEOREM TreeShowsFileCorrect ==
  ASSUME RegBoundsOK, FileWellFormed PROVE Reg!Spec => []Reg!TreeShowsFile
<1>1. Reg!TypeOK /\ LoadInv /\ [Reg!Next]_(Reg!vars) => LoadInv'
  BY LoadStep
<1>2. Reg!TypeOK /\ LoadInv => Reg!TreeShowsFile
  BY TreeShown
<1>3. QED
  BY <1>1, <1>2, LoadInit, RegTypeCorrect, PTL DEF Reg!Spec
==============================================================================
