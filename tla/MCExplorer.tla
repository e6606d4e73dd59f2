----------------------------- MODULE MCExplorer -----------------------------
EXTENDS Explorer, TLC

CONSTANTS bohr, botchain, r1, r2, a1, a2

MCAgentOf == r1 :> a1 @@ r2 :> a2
MCMaxTxs == bohr :> 4 @@ botchain :> 1

=============================================================================
