------------------------------ MODULE MCProgress ------------------------------
(***************************************************************************)
(* What must happen in the end: liveness of the payment configuration, of  *)
(* withdrawals, of recharge orders and of the request log, on small        *)
(* instances.  As in MCServices, the initial state puts one of them in     *)
(* focus and only that one moves.  PaymentConfig, extended, keeps its      *)
(* variables; the others use registers x1 to x9.                           *)
(***************************************************************************)
EXTENDS PaymentConfig

VARIABLES focus, x1, x2, x3, x4, x5, x6, x7, x8, x9

all == <<vars, focus, x1, x2, x3, x4, x5, x6, x7, x8, x9>>

Submits == {"s1", "s2"}
Decisions == {"d1", "d2"}

\* Two requests of one user, of which both are covered, and no failure.
Wit == INSTANCE Withdrawal WITH
  Users <- {"user"}, Submits <- Submits, Decisions <- Decisions, Saves <- {},
  Parts <- 1, Amounts <- {1}, MinAmount <- 1, MaxAmount <- 1, InitialBalance <- [u \in {"user"} |-> 3],
  AdjustTo <- {1}, NoPrivacyRow <- {}, MaxFailures <- 0, present <- x1, balance <- x2,
  withdrawal <- x3, ledger <- x4, submit <- x5, decision <- x6, save <- x7,
  stopped <- x8, failures <- x9

Orders == {"o1"}

Pay == INSTANCE Payments WITH
  Calls <- {"c1", "c2"}, Orders <- Orders, Transactions <- {}, Notifies <- {},
  Receipts <- {"receipt"}, MaxFailures <- 1, orders <- x1, transactions <- x2,
  notifies <- x3, overdue <- x4, call <- x5, failures <- x6, mixed <- x7

Entries == {"e1", "e2", "e3"}

Api == INSTANCE ApiMonitor WITH
  Entries <- Entries, FlushSize <- 2, MaxFailures <- 1, mode <- x1,
  buffer <- x2, saving <- x3, last <- x4, stored <- x5, fate <- x6, failures <- x7

MCInit ==
  /\ Init /\ cache.object = NewCall.object
  /\ \/ /\ focus = "paymentConfig"
        /\ x1 = {} /\ x2 = {} /\ x3 = {} /\ x4 = {} /\ x5 = {} /\ x6 = {} /\ x7 = {}
        /\ x8 = {} /\ x9 = {}
     \/ focus = "withdrawal" /\ Wit!Init
     \/ /\ focus = "payments" /\ Pay!Init
        /\ x8 = {} /\ x9 = {}
     \/ /\ focus = "apiMonitor" /\ Api!Init
        /\ x8 = {} /\ x9 = {}

\* What else stays as it is while a service moves.
ConfigOnly == focus = "paymentConfig" /\ UNCHANGED <<focus, x1, x2, x3, x4, x5, x6, x7, x8, x9>>
WithdrawalOnly == focus = "withdrawal" /\ UNCHANGED <<vars, focus>>
PaymentsOnly == focus = "payments" /\ UNCHANGED <<vars, focus, x8, x9>>
ApiMonitorOnly == focus = "apiMonitor" /\ UNCHANGED <<vars, focus, x8, x9>>

\* Entities in memory are interchangeable, and one that is neither cached nor
\* being saved is garbage: the first free one is as good as any.
FirstFree ==
  \/ cache' = None
  \/ cache # None /\ cache'.object = cache.object
  \/ \A o \in Objects : Free(o) => cache'.object <= o

MCNext ==
  \/ ConfigOnly /\ Next /\ FirstFree
  \/ WithdrawalOnly /\ Wit!Next
  \/ PaymentsOnly /\ Pay!Next
  \/ ApiMonitorOnly /\ Api!Next

\* The fairness of the four modules, each for the behaviours in its focus.
MCFairness ==
  /\ WF_all(ConfigOnly /\ Tick)
  /\ \A c \in Calls : WF_all(ConfigOnly /\ CallStep(c))
  /\ \A s \in Submits : WF_all(WithdrawalOnly /\ Wit!SubmitStep(s))
  /\ \A d \in Decisions : WF_all(WithdrawalOnly /\ Wit!DecisionStep(d))
  /\ \A o \in Orders : WF_all(PaymentsOnly /\ Pay!BecomesOverdue(o))
  /\ WF_all(PaymentsOnly /\ Pay!CancelExpiredRecharges)
  /\ WF_all(ApiMonitorOnly /\ Api!TimerFlush)
  /\ WF_all(ApiMonitorOnly /\ Api!Exit)

MCSpec == MCInit /\ [][MCNext]_all /\ MCFairness

-----------------------------------------------------------------------------
(***************************************************************************)
(* Properties: those of the modules, each for the behaviours in its focus. *)
(* Those of PaymentConfig hold under their own names.                      *)
(***************************************************************************)
\* Without failures and removed users, a rejected request's money comes back.
RejectedComesBack ==
  \A s \in Submits : (focus = "withdrawal" /\ x3[s] = "rejected")
                       ~> (focus = "withdrawal" /\ Wit!Refunded(s))

\* Without failures, frozen money is always filed for an administrator to decide.
FrozenGetsFiled ==
  \A s \in Submits : (focus = "withdrawal" /\ Wit!Deducted(s))
                       ~> (focus = "withdrawal" /\ x3[s] # "none")

\* No recharge order waits for its payment for ever.
PendingEnds ==
  \A o \in Orders : (focus = "payments" /\ x1[o].status = "PENDING")
                      ~> (focus = "payments" /\ x1[o].status # "PENDING")

\* No entry of the request log stays in memory.
BufferDrains ==
  \A e \in Entries : (focus = "apiMonitor" /\ e \in x2)
                       ~> (focus = "apiMonitor" /\ e \notin x2)
===============================================================================
