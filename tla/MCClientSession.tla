--------------------------- MODULE MCClientSession ---------------------------
(***************************************************************************)
(* ClientSession on a small instance.                                      *)
(***************************************************************************)
EXTENDS ClientSession, TLC

Symmetry == Permutations(Refreshes)
===============================================================================
