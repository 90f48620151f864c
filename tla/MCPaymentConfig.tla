--------------------------- MODULE MCPaymentConfig ---------------------------
(***************************************************************************)
(* PaymentConfig on a small instance.                                      *)
(***************************************************************************)
EXTENDS PaymentConfig, TLC

Symmetry == Permutations(Objects) \cup Permutations(Updates)
===============================================================================
