----------------------------- MODULE MCDelegates -----------------------------
(***************************************************************************)
(* Rounds of two slots.  Two genesis delegates and an account that may     *)
(* become the third compete for votes, retire, lower their rate, withdraw  *)
(* their pay and miss slots, while blocks are added, dropped and popped.   *)
(***************************************************************************)
EXTENDS Delegates

DeSlates == {{}, {1}, {2, 3}}
DePayTable == <<3, 4>>
=============================================================================
