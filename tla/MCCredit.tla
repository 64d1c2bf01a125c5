------------------------------- MODULE MCCredit -------------------------------
(***************************************************************************)
(* Small instances of the credit ledger.                                   *)
(***************************************************************************)
EXTENDS CreditProperties, TLC

CONSTANTS u1, h1, h2, k1, d1, p1, p2
\* Every payment is the one account's.
MCPayer == [k \in Pack \cup Pay |-> u1]
\* The calls are alike.
Swaps == Permutations(Proc)
\* Bound: ledgers grow to four rows; those are checked, and go no further.
Short == \A u \in User : Len(ledger[u]) <= 3
=============================================================================
