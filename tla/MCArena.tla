------------------------------- MODULE MCArena -------------------------------
(***************************************************************************)
(* Arena at the size TLC explores: two jobs, a hold strictly between the   *)
(* challenge and the settlement window, a node one block behind.           *)
(***************************************************************************)
EXTENDS Arena, TLC

=============================================================================
