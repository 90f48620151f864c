--------------------------- MODULE WithdrawalMoney ---------------------------
(***************************************************************************)
(* What a withdrawal promises about money, without calls, reads, ledger    *)
(* rows or failures: a claim freezes an amount of its user's balance, is   *)
(* then filed for review, and ends approved (paid out) or rejected and     *)
(* given back, each at most once and in that order.  What is taken and     *)
(* what is due back are rounded apart: the claim may gain a cent, never    *)
(* lose one.  A claim may stay where it is for ever: liveness is the       *)
(* detailed module's business.                                             *)
(***************************************************************************)
EXTENDS Integers

CONSTANTS Users, Claims, InitialBalance

VARIABLES
  funds,  \* balance of each user
  claim,  \* phase, user, amount taken and amount due back of each claim
  rewritten  \* users whose row another module has written or removed

moneyVars == <<funds, claim, rewritten>>

NoClaim == [phase |-> "none"]

ClaimIn(phase, u, taken, due) ==
  [phase |-> phase, user |-> u, taken |-> taken, due |-> due]

MoneyInit ==
  /\ funds = InitialBalance
  /\ claim = [c \in Claims |-> NoClaim]
  /\ rewritten = {}

\* An amount leaves the balance, which covers it.
Freeze(c, u) ==
  /\ claim[c] = NoClaim /\ claim'[c] # NoClaim
  /\ \E taken \in 0 .. funds[u], gain \in {0, 1} :
       /\ funds' = [funds EXCEPT ![u] = @ - taken]
       /\ claim' = [claim EXCEPT ![c] = ClaimIn("frozen", u, taken, taken + gain)]
  /\ UNCHANGED rewritten

\* A claim goes from one phase to the next and no money moves.
Move(c, from, to) ==
  /\ claim[c].phase = from
  /\ claim' = [claim EXCEPT ![c].phase = to]
  /\ UNCHANGED <<funds, rewritten>>

\* What is due returns to the user of a rejected claim; it may return to nobody
\* only when the user's row is gone.
GiveBack(c) ==
  /\ claim[c].phase = "rejected"
  /\ \/ funds' = [funds EXCEPT ![claim[c].user] = @ + claim[c].due]
     \/ claim[c].user \in rewritten /\ UNCHANGED funds
  /\ claim' = [claim EXCEPT ![c].phase = "returned"]
  /\ UNCHANGED rewritten

\* Another module writes or removes the whole row of u, and no other row.
Rewrite(u) ==
  /\ funds' \in [Users -> Nat]
  /\ \A v \in Users \ {u} : funds'[v] = funds[v]
  /\ rewritten' = rewritten \cup {u}
  /\ UNCHANGED claim

MoneyNext ==
  \/ \E c \in Claims, u \in Users : Freeze(c, u)
  \/ \E c \in Claims :
       \/ Move(c, "frozen", "filed")
       \/ Move(c, "filed", "approved")
       \/ Move(c, "filed", "rejected")
       \/ GiveBack(c)
  \/ \E u \in Users : Rewrite(u)

MoneySpec == MoneyInit /\ [][MoneyNext]_moneyVars
===============================================================================
