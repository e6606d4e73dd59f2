------------------------------ MODULE Amounts ------------------------------
(***************************************************************************)
(* The arithmetic the contracts share: shares in basis points and sums of  *)
(* token amounts.  Amounts are natural numbers (token base units); the     *)
(* contracts use uint128 and uint256 for them and never come near 2^128,   *)
(* because the whole supply of the bond token does not.                    *)
(***************************************************************************)
EXTENDS Naturals, FiniteSets

\* Basis points in a whole: the literal 10_000 of every contract.
BpsDenominator == 10000

Bps == 0 .. BpsDenominator

\* `(amount * bps) / 10_000`, rounding down as Solidity's division does.
BpsOf(amount, bps) == (amount * bps) \div BpsDenominator

Lesser(x, y) == IF x <= y THEN x ELSE y

(***************************************************************************)
(* The sum of f[x] over the finite set S, written as the number of units   *)
(* <<x, i>> it stands for: x contributes f[x] of them.  Counting units     *)
(* instead of folding over S is what lets the sums be reasoned about with  *)
(* the cardinality theorems of FiniteSetTheorems alone.                    *)
(***************************************************************************)
Units(f, S) == UNION { {x} \X (1 .. f[x]) : x \in S }

SumOver(f, S) == Cardinality(Units(f, S))

=============================================================================
