---------------------------- MODULE MCWatchtower ----------------------------
(***************************************************************************)
(* Watchtower at the size TLC explores: requests that live at most five    *)
(* blocks, a lookback of that length, a node one block behind.             *)
(***************************************************************************)
EXTENDS Watchtower, TLC

=============================================================================
