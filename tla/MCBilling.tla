------------------------------ MODULE MCBilling ------------------------------
(***************************************************************************)
(* Small instances of billing.                                             *)
(***************************************************************************)
EXTENDS BillingProperties, TLC

CONSTANTS u1, o1, o2, a1, k1, c1, c2, w1, w2
OneOwner == [o \in Order |-> u1]
Requests == Permutations(Handler)

\* Which histories BillingPastRefund looks at: payments come in their order, and the
\* first of them is refunded before the third one, or the second is charged back, a
\* fifth one made and the third refunded.
PastRefunds ==
  /\ \A p, q \in Pay : q < p /\ charge[p].status # "none" => charge[q].status # "none"
  /\ charge[5].status # "none" => charge[2].status = "chargeback"
  /\ \A p \in Pay : charge[p].status = "refunded" =>
       (p = 1 /\ charge[3].status = "none") \/ (p = 3 /\ charge[5].status # "none")
  /\ \A p \in Pay : charge[p].status = "chargeback" => p = 2 /\ charge[4].status # "none"
=============================================================================
