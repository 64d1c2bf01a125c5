------------------------------ MODULE PlanSlices ------------------------------
(***************************************************************************)
(* The window of a plan and the slices of it that its payments bought, as  *)
(* apply_rebill_event computes them: what a payment adds, what the refund  *)
(* of one month takes out, and which payment owns the grant of a period.   *)
(* e is a row of access_entitlements, f the rows of rebill_payment_effects *)
(* by payment, o whose plan it is, t the now() of the transaction.         *)
(***************************************************************************)
EXTENDS Integers, FiniteSets, FiniteSetsExt

CONSTANTS
  Pay,           \* payments, ordered like their ids
  MonthLength    \* 30 days, in ticks

ASSUME SliceConstants == Pay \subseteq Nat /\ IsFiniteSet(Pay) /\ MonthLength \in Nat \ {0}

NoEnt == [status |-> "none", start |-> 0, expires |-> 0]

Covers(e, t) == e.status = "active" /\ e.start <= t /\ t < e.expires
Lapsed(e, t) == IF e.status = "active" /\ e.expires <= t THEN [e EXCEPT !.status = "expired"] ELSE e

\* Fault: a period before the window is not taken for the first.
PeriodRaw(e, t) == (t - e.start) \div MonthLength
Period(e, t) == IF t < e.start THEN 0 ELSE (t - e.start) \div MonthLength
KeyOf(o, e, n) == <<o, e.start, n>>

\* The window a payment opens, or extends by its length.
Extended(e, length, t) ==
  IF e.status \notin {"none", "revoked"} /\ e.expires > t
  THEN [status |-> "active", start |-> e.start, expires |-> e.expires + length]
  ELSE [status |-> "active", start |-> t, expires |-> t + length]

\* The payment owns the first period from the present one that no payment has
\* claimed, and not the present one if its grant was there before ("had").
Claimed(f, o, e, had, t) ==
  LET first == Period(e, t)
      free == {n \in first..(first + Cardinality(Pay) + 1) :
                 (n > first \/ ~had) /\ \A q \in Pay : f[q].key # KeyOf(o, e, n)}
  IN  KeyOf(o, e, Min(free))

-----------------------------------------------------------------------------
\* The refund of a month: x is the refunded payment's row.

Current(x, t) == x.start <= t /\ t < x.end

\* The rows after the slices behind one that is not the present one have moved up.
MovedUp(f, p, x, t) ==
  [q \in Pay |->
    IF q # p /\ f[q].state = "granted" /\ f[q].order = x.order /\ ~Current(x, t) /\ f[q].start >= x.end
    THEN [f[q] EXCEPT !.start = @ - (x.end - x.start), !.end = @ - (x.end - x.start)]
    ELSE f[q]]

\* The other granted slices of the plan.
Slices(f, p, o) == {q \in Pay \ {p} : f[q].state = "granted" /\ f[q].order = o}

\* Grant keys are dealt out again in the order of the slices.
Renumbered(f, p, o, e) ==
  LET mine == Slices(f, p, o)
      before(q) == {r \in mine : f[r].start < f[q].start \/ (f[r].start = f[q].start /\ r < q)}
      number[n \in 0..Cardinality(mine)] ==
        \* the period of the n-th slice
        IF n = 0 THEN -1
        ELSE LET q == CHOOSE r \in mine : Cardinality(before(r)) = n - 1
             IN  Max({Period(e, f[q].start), number[n - 1] + 1})
  IN  [q \in Pay |-> IF q \in mine
                     THEN [f[q] EXCEPT !.key = KeyOf(o, e, number[Cardinality(before(q)) + 1])]
                     ELSE f[q]]

Later(f, p, o, t) == {q \in Slices(f, p, o) : f[q].end > t}

\* Whether the window goes on: later slices are left, and not under the present one.
GoesOn(f, p, x, t) ==
  LET later == Later(f, p, x.order, t)
  IN  later # {} /\ (Current(x, t) => Min({f[q].start : q \in later}) > t)

\* The window after slice x is taken out.
Cut(e, f, p, x, t) ==
  LET later == Later(f, p, x.order, t) IN
  IF ~GoesOn(f, p, x, t)
  THEN [e EXCEPT !.expires = Min({@, t}), !.status = IF @ = "revoked" THEN @ ELSE "expired"]
  ELSE IF e.status = "revoked" THEN [e EXCEPT !.expires = Min({@, t})]
  ELSE [status |-> "active",
        start |-> IF Current(x, t) THEN Min({f[q].start : q \in later}) ELSE e.start,
        expires |-> Max({f[q].end : q \in later})]

\* A chargeback, or the refund of an annual payment, ends the plan.
Terminated(e, status, t) ==
  [e EXCEPT !.expires = Min({@, t}),
            !.status = IF status = "chargeback" \/ @ = "revoked" THEN "revoked" ELSE "expired"]
=============================================================================
