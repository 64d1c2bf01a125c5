-------------------------------- MODULE Wallet --------------------------------
(***************************************************************************)
(* What the credits of an account promise (D132, D135, D140), without the  *)
(* ledger: a purse of plan credits, weekly credits and durable credits.    *)
(* A new period replaces what was left of the old one; a spend takes plan  *)
(* credits first, then weekly ones, then durable ones; a reversal takes    *)
(* nothing else than what it reverses.                                     *)
(***************************************************************************)
EXTENDS Integers

CONSTANTS User, Weekly, PlanAmount, Prices   \* Prices: what one spend may cost
VARIABLE purse

Empty == [plan |-> 0, weekly |-> 0, durable |-> 0]
Total(w) == w.plan + w.weekly + w.durable
Smaller(m, n) == IF m < n THEN m ELSE n

Init == purse = [u \in User |-> Empty]

\* Plan credits live for one period of the plan, weekly ones for one week.
Renewed(w) ==
  {w, [w EXCEPT !.plan = PlanAmount], [w EXCEPT !.weekly = Weekly],
   [w EXCEPT !.plan = 0], [w EXCEPT !.plan = 0, !.weekly = Weekly]}

Paid(w, n) ==
  LET fromPlan == Smaller(w.plan, n)
      fromWeekly == Smaller(w.weekly, n - fromPlan)
  IN  [plan |-> w.plan - fromPlan, weekly |-> w.weekly - fromWeekly,
       durable |-> w.durable - (n - fromPlan - fromWeekly)]

\* The periods turn, and then the account spends if it can afford to.
Spend(w, v) ==
  \E r \in Renewed(w) : v = r \/ \E price \in Prices : Total(r) >= price /\ v = Paid(r, price)

\* A spend that opens a period of the plan may take what was left of the period before.
SpendEarly(w, v) ==
  \E price \in Prices :
    /\ Total(w) - w.plan + PlanAmount >= price
    /\ v = [Paid(w, Smaller(price, Total(w))) EXCEPT !.plan = PlanAmount]

\* A pack, an admin's gift, the courtesy for a bad address.
Earn(w, v) == v.durable > w.durable /\ v = [w EXCEPT !.durable = v.durable]

\* A refund takes durable or plan credits that are there, and the periods may turn.
Reverse(w, v) ==
  \/ v.durable \in 0..(w.durable) /\ v = [w EXCEPT !.durable = v.durable]
  \/ \E plan \in 0..(w.plan) : v \in Renewed([w EXCEPT !.plan = plan])

\* What is left goes with the account.
Close(w, v) == Total(w) > 0 /\ v = Empty

Changes(w, v) ==
  w = v \/ Spend(w, v) \/ SpendEarly(w, v) \/ Earn(w, v) \/ Reverse(w, v) \/ Close(w, v)

Next ==
  \E u \in User :
    /\ \E w \in {purse[u]}, v \in {purse'[u]} : Changes(w, v)
    /\ \A other \in User \ {u} : purse'[other] = purse[other]
Spec == Init /\ [][Next]_purse
=============================================================================
