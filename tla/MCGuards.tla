------------------------------ MODULE MCGuards ------------------------------
(***************************************************************************)
(* Guards on a small instance: roles that grant the wallet or nothing.     *)
(***************************************************************************)
EXTENDS Guards

MCGrants == {{}, {"client:wallet"}}
=============================================================================
