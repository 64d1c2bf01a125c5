--------------------------- MODULE CreditProperties ---------------------------
(***************************************************************************)
(* What the credit ledger promises.                                        *)
(***************************************************************************)
EXTENDS CreditLedger

\* What the key of a row names, by its kind.
Periodic == User \X Int \X Nat
RefsOf(kind) ==
  CASE kind = "plan_monthly" -> Periodic
    [] kind = "plan_expire" -> Periodic \cup (User \X Int \X Nat \X {0})
    [] kind \in {"free_weekly", "free_weekly_expire"} -> [1..1 -> Nat]
    [] kind \in {"pack", "rebill_revoke", "rebill_revoke:chargeback", "rebill_revoke_plan"} -> Pack \cup Pay
    [] kind \in {"unlock", "courtesy"} -> Hotel
    [] kind = "ai_draft" -> Draft
    [] OTHER -> {None}
Rows(kind) == [kind : {kind}, ref : RefsOf(kind), delta : Int \ {0}, at : Nat]
Typed(L) ==
  /\ DOMAIN L = 1..Len(L)
  /\ \A i \in DOMAIN L : L[i].kind \in Kinds /\ L[i] \in Rows(L[i].kind)

Entitlement == [status : {"none", "active", "expired", "revoked"}, start : Int, expires : Int]
Effect == [state : {"none", "refused", "granted", "revoked"}, order : User \cup {None},
           start : Int, end : Int, key : {<<>>} \cup Periodic]

\* Every table and call holds values of its type.
TypeOK ==
  /\ now \in Nat
  /\ DOMAIN ledger = User /\ \A u \in User : Typed(ledger[u])
  /\ plan \in [User -> Entitlement] /\ effect \in [Pay -> Effect]
  /\ closed \subseteq User
  /\ owned \subseteq User \X Hotel /\ reported \subseteq User \X Hotel
  /\ cache \in [Hotel -> {"none", "found", "not_found", "invalid"}]
  /\ saved \in [User -> SUBSET Hotel]
  /\ paid \in [Pack -> {"none", "refused", "granted", "revoked"}]
  /\ call \in [Proc -> [pc : {"idle", "begun", "lookup", "entered"},
                        op : {"refresh", "unlock", "draft", "pay", "refund", "chargeback",
                              "review", "admin_grant", "delete"},
                        user : User \cup {None}, ref : {None} \cup Hotel \cup Draft \cup Pack \cup Pay,
                        at : Nat, second : BOOLEAN, locked : BOOLEAN,
                        grants : {call[p].grants : p \in Proc}, amount : Int, was : Entitlement]]
  /\ \A p \in Proc : Typed(call[p].grants)

Granted(L) == Total([i \in 1..Len(L) |-> AtLeast0(L[i].delta)])
SpentTotal(L) == Total([i \in 1..Len(L) |-> IF L[i].kind \in Spends THEN -L[i].delta ELSE 0])

\* Whatever tabs, drafts, refreshes and reversals overlap, an account never spends
\* a credit twice: its unlocks and drafts never cost more than it was granted (D100, D143).
\* A closing account takes no credit_grant lock, and only a gift, or a payment that was
\* being granted, gives it credits again.
Gifted(u) ==
  \E i \in 1..Len(ledger[u]) : ledger[u][i].kind \in {"admin_grant", "courtesy", "pack"}
SpentWasGranted ==
  \A u \in User : (u \in closed /\ Gifted(u)) \/ SpentTotal(ledger[u]) <= Granted(ledger[u])

ChargedBack(u) ==
  \E i \in 1..Len(ledger[u]), k \in Disputed \cap Pack :
    ledger[u][i].ref = k /\ ledger[u][i].delta < 0

\* A draft whose transaction opened a period of the plan is replayed before it.
Early(u) ==
  \E i, j \in 1..Len(ledger[u]) :
    /\ ledger[u][i].kind = "ai_draft" /\ ledger[u][j].kind = "plan_monthly"
    /\ ledger[u][i].at = ledger[u][j].at

\* Only a chargeback takes the balance of an open account below zero: a refund takes no
\* more than the balance (D140), and an expiry takes what is left of its own grant.
BalanceFloor == \A u \in User \ closed : ~ChargedBack(u) => Balance(ledger[u]) >= 0

\* Both replays of the ledger agree on what is left of the plan: a reversal of a
\* pack leaves plan credits alone in both (D140).
ReplaysAgree == \A u \in User : Unspent(ledger[u]).plan = UnusedPlan(ledger[u], Keys)

\* The buckets hold the balance: no row takes from a bucket what is not in it.
BucketsHold ==
  \A u \in User \ closed :
    LET b == Buckets(ledger[u], Keys)
    IN  ChargedBack(u) \/ Early(u) \/ b.weekly + LeftIn(b.kept, DOMAIN b.kept) = Balance(ledger[u])

\* One call after the other, expiries, refunds and the chargebacks of a plan take no more
\* than is there, whichever of the two replays measured it.
ReversalsFit == ReplaysAgree /\ BucketsHold

\* An unlock that costs a credit shows an address: the provider's refusal, a missing
\* contact or a paused lookup is never charged, in either call of the action (D100).
PaidForAddress == \A u \in User, h \in Hotel : <<u, h>> \in owned => cache[h] \in {"found", "invalid"}

\* A hotel is on the creator's pipeline the moment its unlock is paid, and a free
\* pipeline never holds more than its allowance because of an unlock, although hotels
\* are saved and closed while the unlock is under way (D108).
DebitSaves ==
  [][\A u \in User, h \in Hotel :
       <<u, h>> \in owned' \ owned =>
         /\ h \in saved'[u]
         /\ \/ h \in saved[u] \/ Cardinality(saved[u]) < FreeSaved
            \/ \E p \in Proc : call[p].user = u /\ Covers(plan[u], call[p].at)]_vars

\* However often and in whatever order refunds and chargebacks of one pack arrive, they
\* take no more than the pack gave (D140).
PackReversedOnce == \A u \in User, k \in Pack : PackRest(ledger[u], k) >= 0

\* Nothing is taken twice, whatever overlaps: no credit by two spends, no pack by two
\* reversals.
NothingTwice == SpentWasGranted /\ PackReversedOnce

PurseOf(u) ==
  LET b == Buckets(ledger[u], Keys)
  IN  [plan |-> LeftIn(b.kept, OfPlan(b.kept)), weekly |-> b.weekly,
       durable |-> LeftIn(b.kept, DOMAIN b.kept \ OfPlan(b.kept))]

\* The ledger, read by its replay, keeps the promise of the purse: an expiry takes
\* nothing but the unspent rest of its own period, a reversal nothing but what it
\* reverses, and a spend follows the order of D135.
W == INSTANCE Wallet WITH purse <- [u \in User |-> PurseOf(u)], Prices <- {UnlockCost, DraftCost}
KeepsWallet == W!Spec

\* Plan credits are reversed when the next period opens or the plan is over (D135),
\* never while the period that was paid for is running.
ActivePlanKept ==
  [][\A u \in User :
       Covers(plan[u], now) /\ Len(ledger'[u]) > Len(ledger[u]) /\ plan'[u].status = "active"
       => \A i \in 1..Len(ledger'[u]) :
            LET r == ledger'[u][i]
            IN  r.kind = "plan_expire" /\ Len(r.ref) = 4 => Has(ledger[u], r.kind, r.ref)]_vars

\* A spend reduces plan credits first, then weekly ones, then durable ones (D135): one
\* that takes a durable credit leaves no plan and no weekly credit.
SpendOrder ==
  [][\A u \in User :
       /\ Len(ledger'[u]) = Len(ledger[u]) + 1 /\ SpentTotal(ledger'[u]) > SpentTotal(ledger[u])
       /\ PurseOf(u)'.durable < PurseOf(u).durable
       => PurseOf(u)'.plan = 0 /\ PurseOf(u)'.weekly = 0]_vars
=============================================================================
