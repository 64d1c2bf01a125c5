----------------------------- MODULE LedgerReplay -----------------------------
(***************************************************************************)
(* Two readings of one account's credit_ledger.  The ledger stores only    *)
(* signed rows; which credits are still unspent is worked out by replaying *)
(* them in the order of created_at, and of the idempotency key where       *)
(* created_at is the same: rows of one transaction have one created_at.    *)
(* ensure_credit_grants replays them to find what is left of the plan and  *)
(* the weekly grant, rebill_unused_credits to find what is left of one     *)
(* grant.                                                                  *)
(***************************************************************************)
EXTENDS Integers, Sequences

\* The kinds of rows, each the prefix of an idempotency key, in the order of keys.
KeyOrder ==
  <<"account_deletion", "admin_grant", "ai_draft", "courtesy", "free_weekly",
    "free_weekly_expire", "pack", "plan_expire", "plan_monthly", "rebill_revoke",
    "rebill_revoke:chargeback", "rebill_revoke_plan", "unlock">>
Kinds == {KeyOrder[i] : i \in DOMAIN KeyOrder}
PlaceOf(kind) == CHOOSE i \in DOMAIN KeyOrder : KeyOrder[i] = kind
Spends == {"unlock", "ai_draft"}

Least(m, n) == IF m < n THEN m ELSE n
AtLeast0(n) == IF n < 0 THEN 0 ELSE n

\* The idempotency key of a row is its kind and ref; the key is unique per account.
Has(L, kind, ref) == \E i \in 1..Len(L) : L[i].kind = kind /\ L[i].ref = ref

\* The sum of a sequence of numbers.
Total(s) ==
  LET sum[i \in 0..Len(s)] == IF i = 0 THEN 0 ELSE sum[i - 1] + s[i]
  IN  sum[Len(s)]

Balance(L) == Total([i \in 1..Len(L) |-> L[i].delta])

\* The sum of the rows of some kinds that carry one ref.
SumOf(L, kinds, ref) ==
  Total([i \in 1..Len(L) |-> IF L[i].kind \in kinds /\ L[i].ref = ref THEN L[i].delta ELSE 0])

\* Whether row r is replayed after row s.
After(r, s) == r.at > s.at \/ (r.at = s.at /\ PlaceOf(r.kind) > PlaceOf(s.kind))

\* A ledger is kept in the order both replays read it.
Insert(L, row) ==
  LET earlier == CHOOSE i \in 0..Len(L) : /\ i > 0 => ~After(L[i], row)
                                          /\ \A j \in 1..Len(L) : j > i => After(L[j], row)
  IN  SubSeq(L, 1, earlier) \o <<row>> \o SubSeq(L, earlier + 1, Len(L))

Post(L, rows) ==
  LET posted[i \in 0..Len(rows)] == IF i = 0 THEN L ELSE Insert(posted[i - 1], rows[i])
  IN  posted[Len(rows)]

-----------------------------------------------------------------------------
\* ensure_credit_grants: what is left of the plan and of the weekly grant.

LessPlan(w, n) == [w EXCEPT !.plan = @ - Least(@, n)]
LessWeekly(w, n) == [w EXCEPT !.weekly = @ - Least(@, n)]
\* Fault: weekly credits are spent before plan credits.
SpentWeeklyFirst(w, n) == LessPlan(LessWeekly(w, n), n - Least(w.weekly, n))
Spent(w, n) == LessWeekly(LessPlan(w, n), n - Least(w.plan, n))

\* Fault: the reversal of a pack takes plan credits.
CountedPackAsPlan(w, r, L) ==
  CASE r.kind = "plan_monthly" -> [w EXCEPT !.plan = @ + r.delta]
    [] r.kind = "free_weekly" -> [w EXCEPT !.weekly = @ + r.delta]
    [] r.kind = "free_weekly_expire" -> LessWeekly(w, -r.delta)
    [] OTHER -> IF r.delta > 0 THEN w
                ELSE IF r.kind \in Spends THEN Spent(w, -r.delta) ELSE LessPlan(w, -r.delta)
Counted(w, r, L) ==
  CASE r.kind = "plan_monthly" -> [w EXCEPT !.plan = @ + r.delta]
    [] r.kind = "free_weekly" -> [w EXCEPT !.weekly = @ + r.delta]
    [] r.kind \in {"plan_expire", "rebill_revoke_plan"} -> LessPlan(w, -r.delta)
    [] r.kind = "free_weekly_expire" -> LessWeekly(w, -r.delta)
    \* No pack has the key "pack:<payment>:chargeback".
    [] r.kind \in {"rebill_revoke", "rebill_revoke:chargeback"} ->
         IF r.kind = "rebill_revoke" /\ Has(L, "pack", r.ref) THEN w ELSE LessPlan(w, -r.delta)
    [] OTHER -> IF r.delta > 0 THEN w ELSE Spent(w, -r.delta)

Unspent(L) ==
  LET left[i \in 0..Len(L)] ==
        IF i = 0 THEN [plan |-> 0, weekly |-> 0] ELSE Counted(left[i - 1], L[i], L)
  IN  left[Len(L)]

-----------------------------------------------------------------------------
\* rebill_unused_credits: what is left in every bucket, the oldest first.

NoBuckets == [weekly |-> 0, kept |-> <<>>]
Bucket(r) == [kind |-> r.kind, ref |-> r.ref, left |-> r.delta]
Labelled(kept, kind, ref) == {i \in DOMAIN kept : kept[i].kind = kind /\ kept[i].ref = ref}
OfPlan(kept) == {i \in DOMAIN kept : kept[i].kind = "plan_monthly"}
\* What the first i buckets hold, of those at the indices "from".
LeftUpTo(kept, from, i) ==
  LET sum[j \in 0..i] ==
        IF j = 0 THEN 0 ELSE sum[j - 1] + (IF j \in from THEN kept[j].left ELSE 0)
  IN  sum[i]
LeftIn(kept, from) == LeftUpTo(kept, from, Len(kept))

\* Take n from the buckets at the indices "from", the oldest first.
Drain(kept, from, n) ==
  LET take(i) == Least(kept[i].left, AtLeast0(n - LeftUpTo(kept, from, i - 1)))
  IN  [i \in DOMAIN kept |-> IF i \in from THEN [kept[i] EXCEPT !.left = @ - take(i)] ELSE kept[i]]

\* A spend takes plan credits, then weekly ones, then those that last.
Debited(b, n) ==
  LET plan == OfPlan(b.kept)
      rest == AtLeast0(n - LeftIn(b.kept, plan))
      fromPlan == Drain(b.kept, plan, n)
      lasting == Drain(b.kept, DOMAIN b.kept \ plan, AtLeast0(rest - b.weekly))
  IN  [weekly |-> b.weekly - Least(b.weekly, rest),
       kept |-> [i \in DOMAIN b.kept |-> IF i \in plan THEN fromPlan[i] ELSE lasting[i]]]

\* The buckets that rebill_revoke:<payment> takes from: the pack's, or those of the
\* payment's grant, or else the plan's.  "key" is rebill_payment_effects.grant_key.
Revoked(kept, payment, key) ==
  LET pack == Labelled(kept, "pack", payment)
      own == IF payment \in DOMAIN key THEN Labelled(kept, "plan_monthly", key[payment]) ELSE {}
  IN  IF pack # {} THEN pack ELSE IF own # {} THEN own ELSE OfPlan(kept)

Bucketed(b, r, key) ==
  CASE r.delta > 0 /\ r.kind = "free_weekly" -> [b EXCEPT !.weekly = @ + r.delta]
    [] r.delta > 0 /\ r.kind # "free_weekly" -> [b EXCEPT !.kept = Append(@, Bucket(r))]
    [] r.delta <= 0 /\ r.kind \in {"plan_expire", "rebill_revoke_plan"} ->
         [b EXCEPT !.kept = Drain(@, OfPlan(@), -r.delta)]
    [] r.delta <= 0 /\ r.kind = "free_weekly_expire" -> LessWeekly(b, -r.delta)
    [] r.delta <= 0 /\ r.kind \in {"rebill_revoke", "rebill_revoke:chargeback"} ->
         [b EXCEPT !.kept = Drain(@, Revoked(@, r.ref, key), -r.delta)]
    [] OTHER -> Debited(b, -r.delta)

Buckets(L, key) ==
  LET kept[i \in 0..Len(L)] ==
        IF i = 0 THEN NoBuckets
        \* The one element, and not Bucketed of it: TLC would evaluate kept[i - 1] anew for
        \* every occurrence of the parameter.
        ELSE CHOOSE b \in {Bucketed(before, L[i], key) : before \in {kept[i - 1]}} : TRUE
  IN  kept[Len(L)]

UnusedPlan(L, key) ==
  LET kept == Buckets(L, key).kept IN AtLeast0(LeftIn(kept, OfPlan(kept)))
UnusedOf(L, key, kind, ref) ==
  LET kept == Buckets(L, key).kept IN AtLeast0(LeftIn(kept, Labelled(kept, kind, ref)))
=============================================================================
