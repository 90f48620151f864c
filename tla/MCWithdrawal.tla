---------------------------- MODULE MCWithdrawal ----------------------------
(***************************************************************************)
(* Withdrawal on small instances.                                          *)
(***************************************************************************)
EXTENDS Withdrawal, TLC

\* In cents; with amounts of a cent and a half and of two cents it covers one
\* request of each, but not two of the larger one.
MCInitialBalance == [u \in Users |-> 3]

Symmetry == Permutations(Submits) \cup Permutations(Decisions)
=============================================================================
