----------------------------- MODULE CreditLedger -----------------------------
(***************************************************************************)
(* Credits of TheUGC.life: the append-only ledger, the grants of every     *)
(* period, and the transactions that earn, spend and reverse credits.      *)
(*                                                                         *)
(* A transaction begins at an instant of its own, which its now() returns  *)
(* to the end and its ledger rows carry; it waits for its advisory locks,  *)
(* reads, and commits.  Those are separate steps, so that others may begin *)
(* and commit in between.  The unlock is the server action around its      *)
(* transaction: the first call, the provider, the cache, the second call.  *)
(***************************************************************************)
EXTENDS LedgerReplay, PlanSlices

CONSTANTS
  User, Hotel, Pack,    \* accounts, hotels, payments of a pack (Pay: those of a plan)
  Payer,                \* the account of each payment
  Annual,               \* accounts whose plan is an annual one
  Draft,                \* request ids of assistant drafts
  Proc,                 \* calls that may overlap
  None,
  Disputed,             \* payments the provider may charge back
  Operations,           \* which calls an instance makes
  Weekly, PlanAmount, PackSize, UnlockCost, DraftCost,   \* credit_config
  ChargeOnMiss,         \* credit_config.charge_on_not_found
  WeekLength, YearLength,   \* 7 days and 12 months, in instants
  FreeSaved,            \* 10 hotels on the pipeline of a free account
  MaxTime, MaxReports,  \* bounds: instants, accepted reports of one account
  Known                 \* hotels whose address was imported

ASSUME CreditConstants ==
  /\ {Weekly, MaxTime, MaxReports, FreeSaved} \subseteq Nat
  /\ {PlanAmount, PackSize, UnlockCost, DraftCost} \subseteq Nat \ {0}
  /\ {WeekLength, YearLength} \subseteq Nat \ {0}
  /\ ChargeOnMiss \in BOOLEAN
  /\ Pack \cap Pay = {}
  /\ Payer \in [Pack \cup Pay -> User] /\ Annual \subseteq User
  /\ Disputed \subseteq Pack \cup Pay /\ Known \subseteq Hotel
  /\ None \notin User \cup Hotel \cup Pack \cup Pay \cup Draft

VARIABLES
  now,       \* the instant of the next transaction
  ledger,    \* credit_ledger of each account, in the order of its replay
  plan,      \* its Rebill entitlement
  effect,    \* rebill_payment_effects of each payment of a plan
  closed,    \* accounts whose deletion was requested
  owned,     \* contact_unlocks
  cache,     \* contact_cache.status of each hotel
  saved,     \* hotels with an open pipeline item
  reported,  \* pending contact_reports
  paid,      \* what became of each pack payment
  call       \* the calls under way

vars == <<now, ledger, plan, effect, closed, owned, cache, saved, reported, paid, call>>

NoEffect == [state |-> "none", order |-> None, start |-> 0, end |-> 0, key |-> <<>>]
Idle == [pc |-> "idle", op |-> "refresh", user |-> None, ref |-> None, at |-> 0,
         second |-> FALSE, locked |-> FALSE, grants |-> <<>>, amount |-> 0, was |-> NoEnt]

Init ==
  /\ now = 0
  /\ ledger = [u \in User |-> <<>>]
  /\ plan = [u \in User |-> NoEnt]
  /\ effect = [k \in Pay |-> NoEffect]
  /\ closed = {} /\ owned = {} /\ reported = {}
  /\ cache = [h \in Hotel |-> IF h \in Known THEN "found" ELSE "none"]
  /\ saved = [u \in User |-> {}]
  /\ paid = [k \in Pack |-> "none"]
  /\ call = [p \in Proc |-> Idle]

NewRow(kind, ref, delta, at) == [kind |-> kind, ref |-> ref, delta |-> delta, at |-> at]

-----------------------------------------------------------------------------
(* ensure_credit_grants *)

\* A run that finds a Rebill window over closes the entitlement.
Settled(u, pl, t) == IF u \in closed THEN pl ELSE Lapsed(pl, t)

\* Fault: a new period does not reverse what is left of the old one.
PlanRowsKeep(u, L, pl, at) ==
  LET period == KeyOf(u, pl, Period(pl, at))
  IN  IF Has(L, "plan_monthly", period) THEN <<>>
      ELSE <<NewRow("plan_monthly", period, PlanAmount, at)>>
PlanRows(u, L, pl, at) ==
  LET period == KeyOf(u, pl, Period(pl, at))
      left == Unspent(L).plan
  IN  IF Has(L, "plan_monthly", period) THEN <<>>
      ELSE (IF left > 0 /\ ~Has(L, "plan_expire", period)
            THEN <<NewRow("plan_expire", period, -left, at)>> ELSE <<>>)
           \o <<NewRow("plan_monthly", period, PlanAmount, at)>>

\* The key of the reversal when the plan is over: that of the last period, and "lapse".
Periods(L) == {i \in 1..Len(L) : L[i].kind = "plan_monthly"}
LapseKey(L) ==
  LET last == CHOOSE i \in Periods(L) : \A j \in Periods(L) : j <= i
  IN  Append(L[last].ref, 0)

\* Fault: a lapsed plan is reversed although nothing of it is left.
LapseRowsEmpty(L, at) ==
  IF Periods(L) = {} THEN <<>>
  ELSE <<NewRow("plan_expire", LapseKey(L), -Unspent(L).plan, at)>>
\* Fault: the whole last grant is reversed.
LapseRowsWhole(L, at) ==
  IF Periods(L) = {} \/ Has(L, "plan_expire", LapseKey(L)) THEN <<>>
  ELSE <<NewRow("plan_expire", LapseKey(L), -PlanAmount, at)>>
LapseRows(L, at) ==
  LET left == Unspent(L).plan IN
  IF left = 0 \/ Periods(L) = {} THEN <<>>
  ELSE IF Has(L, "plan_expire", LapseKey(L)) THEN <<>>
  ELSE <<NewRow("plan_expire", LapseKey(L), -left, at)>>

WeeklyRows(L, at) ==
  LET week == <<at \div WeekLength>>
      left == Unspent(L).weekly
  IN  IF Weekly = 0 \/ Has(L, "free_weekly", week) THEN <<>>
      ELSE (IF left > 0 /\ ~Has(L, "free_weekly_expire", week)
            THEN <<NewRow("free_weekly_expire", week, -left, at)>> ELSE <<>>)
           \o <<NewRow("free_weekly", week, Weekly, at)>>

\* The rows a transaction that began at "at" adds to L for the account.
GrantRows(u, L, pl, at) ==
  IF u \in closed THEN <<>>
  ELSE IF Covers(Settled(u, pl, at), at) THEN PlanRows(u, L, pl, at)
  ELSE LapseRows(L, at) \o WeeklyRows(L, at)

\* The credit_grant lock is taken by ensure_credit_grants and kept to the end.
\* Fault: it is not taken.
GrantLockNone(u) == u \in User
GrantLockFree(u) == \A q \in Proc : ~(call[q].locked /\ call[q].user = u)

\* One call of its kind per account is past its own lock.
OpLockFree(p) ==
  \A q \in Proc \ {p} :
    ~(call[q].pc = "entered" /\ call[q].user = call[p].user /\ call[q].op = call[p].op)

-----------------------------------------------------------------------------
(* save_hotel_to_pipeline *)

SaveResult(u, h, t) ==
  IF h \in saved[u] THEN "already_saved"
  ELSE IF Covers(plan[u], t) \/ Cardinality(saved[u]) < FreeSaved THEN "created"
  ELSE "limit_reached"

SaveHotel(u, h) ==
  /\ "save" \in Operations
  /\ SaveResult(u, h, now) = "created"
  /\ saved' = [saved EXCEPT ![u] = @ \cup {h}]
  /\ UNCHANGED <<now, ledger, plan, effect, closed, owned, cache, reported, paid, call>>

CloseItem(u, h) ==
  /\ "save" \in Operations /\ h \in saved[u]
  /\ saved' = [saved EXCEPT ![u] = @ \ {h}]
  /\ UNCHANGED <<now, ledger, plan, effect, closed, owned, cache, reported, paid, call>>

-----------------------------------------------------------------------------
(* Calls: begin, wait for the locks, read, commit *)

Goes(p, c) == call' = [call EXCEPT ![p] = c]
Ended(p) == Goes(p, Idle)

Begin(p, u, op, ref) ==
  /\ op \in Operations /\ call[p].pc = "idle" /\ now < MaxTime
  /\ now' = now + 1
  /\ Goes(p, [Idle EXCEPT !.pc = "begun", !.op = op, !.user = u, !.ref = ref, !.at = now])
  /\ UNCHANGED <<ledger, plan, effect, closed, owned, cache, saved, reported, paid>>

\* ensure_own_credit_grants, or the annual refresh: nothing but the grants.
Refresh(p) ==
  LET c == call[p] IN
  /\ c.pc = "begun" /\ c.op = "refresh" /\ GrantLockFree(c.user)
  /\ ledger' = [ledger EXCEPT ![c.user] = Post(@, GrantRows(c.user, @, plan[c.user], c.at))]
  /\ plan' = [plan EXCEPT ![c.user] = Settled(c.user, @, c.at)]
  /\ Ended(p)
  /\ UNCHANGED <<now, effect, closed, owned, cache, saved, reported, paid>>

\* What unlock_hotel_contact decides from the ledger L its grants leave.  A hotel
\* that is unlocked has had its pipeline item, so nothing is saved for it again.
\* Fault: a hotel without an address is charged.
VerdictCharges(u, h, L, t) ==
  IF <<u, h>> \in owned THEN "already_unlocked"
  ELSE IF cache[h] = "none" THEN "needs_provider"
  ELSE IF Balance(L) < UnlockCost THEN "insufficient_credits" ELSE "unlocked"
Verdict(u, h, L, t) ==
  LET poor == Balance(L) < UnlockCost
      missing == cache[h] = "invalid" \/ (cache[h] = "not_found" /\ ~ChargeOnMiss)
  IN  IF <<u, h>> \in owned THEN "already_unlocked"
      ELSE IF Has(L, "unlock", h) THEN "idempotent_replay"
      ELSE IF SaveResult(u, h, t) = "limit_reached" THEN "pipeline_limit"
      ELSE IF poor /\ cache[h] = "none" THEN "insufficient_credits"
      ELSE IF cache[h] = "none" THEN "needs_provider"
      ELSE IF missing THEN "not_found"
      ELSE IF poor THEN "insufficient_credits"
      ELSE "unlocked"

\* The transaction past its locks: whatever does not debit commits at once.
EnterUnlock(p) ==
  LET c == call[p]
      rows == GrantRows(c.user, ledger[c.user], plan[c.user], c.at)
      L == Post(ledger[c.user], rows)
      verdict == Verdict(c.user, c.ref, L, c.at)
  IN
  /\ c.pc = "begun" /\ c.op = "unlock"
  /\ OpLockFree(p) /\ (c.user \in closed \/ GrantLockFree(c.user))
  /\ plan' = [plan EXCEPT ![c.user] = Settled(c.user, @, c.at)]
  /\ \/ /\ verdict = "unlocked"
        /\ Goes(p, [c EXCEPT !.pc = "entered", !.locked = c.user \notin closed,
                             !.grants = rows,
                             !.amount = IF cache[c.ref] = "found" THEN 1 ELSE 0])
        /\ UNCHANGED <<ledger, saved>>
     \/ /\ verdict = "needs_provider" /\ ~c.second
        /\ ledger' = [ledger EXCEPT ![c.user] = L]
        /\ Goes(p, [c EXCEPT !.pc = "lookup"])
        /\ UNCHANGED saved
     \/ /\ verdict # "unlocked" /\ (verdict = "needs_provider" => c.second)
        /\ ledger' = [ledger EXCEPT ![c.user] = L]
        /\ Ended(p)
        /\ UNCHANGED saved
  /\ UNCHANGED <<now, effect, closed, owned, cache, reported, paid>>

\* The rest of the same transaction.  The balance and the cache were read before;
\* the save is tried again, and a full pipeline refuses without a debit.
\* Fault: the second answer of the save is not looked at.
CommitUnlockAnyway(p) ==
  LET c == call[p]
      debit == NewRow("unlock", c.ref, -UnlockCost, c.at)
  IN
  /\ c.pc = "entered" /\ c.op = "unlock"
  /\ ledger' = [ledger EXCEPT ![c.user] = Post(@, Append(c.grants, debit))]
  /\ owned' = owned \cup {<<c.user, c.ref>>}
  /\ saved' = [saved EXCEPT ![c.user] = @ \cup {c.ref}]
  /\ Ended(p)
  /\ UNCHANGED <<now, plan, effect, closed, cache, reported, paid>>
CommitUnlock(p) ==
  LET c == call[p]
      shown == c.amount = 1
      full == shown /\ SaveResult(c.user, c.ref, c.at) = "limit_reached"
      debit == IF full THEN <<>> ELSE <<NewRow("unlock", c.ref, -UnlockCost, c.at)>>
  IN
  /\ c.pc = "entered" /\ c.op = "unlock"
  /\ ledger' = [ledger EXCEPT ![c.user] = Post(@, c.grants \o debit)]
  /\ owned' = IF full THEN owned ELSE owned \cup {<<c.user, c.ref>>}
  /\ saved' = IF full \/ ~shown THEN saved ELSE [saved EXCEPT ![c.user] = @ \cup {c.ref}]
  /\ Ended(p)
  /\ UNCHANGED <<now, plan, effect, closed, cache, reported, paid>>

\* findHotelEmail answered, upsert_contact_cache kept an older row, and the
\* server action calls the unlock again.
Lookup(p, answer) ==
  LET c == call[p] IN
  /\ c.pc = "lookup" /\ now < MaxTime
  /\ now' = now + 1
  /\ cache' = [cache EXCEPT ![c.ref] = IF @ = "none" THEN answer ELSE @]
  /\ Goes(p, [c EXCEPT !.pc = "begun", !.at = now, !.second = TRUE])
  /\ UNCHANGED <<ledger, plan, effect, closed, owned, saved, reported, paid>>

EnterDraft(p) ==
  LET c == call[p]
      rows == GrantRows(c.user, ledger[c.user], plan[c.user], c.at)
      L == Post(ledger[c.user], rows)
  IN
  /\ c.pc = "begun" /\ c.op = "draft"
  /\ OpLockFree(p) /\ (c.user \in closed \/ GrantLockFree(c.user))
  /\ IF ~Covers(plan[c.user], c.at)
     THEN Ended(p) /\ UNCHANGED <<ledger, plan>>
     ELSE /\ plan' = [plan EXCEPT ![c.user] = Settled(c.user, @, c.at)]
          /\ IF Has(L, "ai_draft", c.ref) \/ Balance(L) < DraftCost
             THEN Ended(p) /\ ledger' = [ledger EXCEPT ![c.user] = L]
             ELSE /\ Goes(p, [c EXCEPT !.pc = "entered", !.locked = c.user \notin closed,
                                       !.grants = rows])
                  /\ UNCHANGED ledger
  /\ UNCHANGED <<now, effect, closed, owned, cache, saved, reported, paid>>

CommitDraft(p) ==
  LET c == call[p] IN
  /\ c.pc = "entered" /\ c.op = "draft"
  /\ ledger' = [ledger EXCEPT ![c.user] =
       Post(@, Append(c.grants, NewRow("ai_draft", c.ref, -DraftCost, c.at)))]
  /\ Ended(p)
  /\ UNCHANGED <<now, plan, effect, closed, owned, cache, saved, reported, paid>>

\* The server died or the connection was lost: an open transaction rolls back.
Die(p) ==
  /\ "die" \in Operations /\ call[p].pc # "idle"
  /\ Ended(p)
  /\ UNCHANGED <<now, ledger, plan, effect, closed, owned, cache, saved, reported, paid>>

-----------------------------------------------------------------------------
(* Billing: payments and their reversals, as apply_rebill_event writes them *)

\* The rebill_pay lock.  Fault: it is not taken.
PayLockNone(p, k) == p \in Proc /\ k \in Pack \cup Pay
PayLockFree(p, k) ==
  \A q \in Proc \ {p} :
    ~(call[q].pc = "entered" /\ call[q].ref = k /\ call[q].op \in {"pay", "refund", "chargeback"})

\* "refused": a reversal came before the payment.
State(k) == IF k \in Pack THEN paid[k] ELSE effect[k].state

Length(u) == IF u \in Annual THEN YearLength ELSE MonthLength
Window(c) == Extended(c.was, Length(c.user), c.at)

\* An approved payment that is new, of an account that is open: the window and
\* whether the grant of its present period is there are read ...
EnterPayment(p) ==
  LET c == call[p]
      new == [c EXCEPT !.was = plan[c.user]]
      key == KeyOf(c.user, Window(new), Period(Window(new), c.at))
  IN
  /\ c.pc = "begun" /\ c.op = "pay" /\ PayLockFree(p, c.ref)
  /\ IF State(c.ref) # "none" \/ c.user \in closed THEN Ended(p)
     ELSE Goes(p, [new EXCEPT !.pc = "entered",
                   !.amount = IF c.ref \in Pay /\ Has(ledger[c.user], "plan_monthly", key) THEN 1 ELSE 0])
  /\ UNCHANGED <<now, ledger, plan, effect, closed, owned, cache, saved, reported, paid>>

\* ... and then written, with the grants of a plan.
GrantPack(p) ==
  LET c == call[p] IN
  /\ c.pc = "entered" /\ c.op = "pay" /\ c.ref \in Pack
  /\ paid' = [paid EXCEPT ![c.ref] = "granted"]
  /\ ledger' = [ledger EXCEPT ![c.user] = Post(@, <<NewRow("pack", c.ref, PackSize, c.at)>>)]
  /\ Ended(p)
  /\ UNCHANGED <<now, plan, effect, closed, owned, cache, saved, reported>>

GrantPlan(p) ==
  LET c == call[p]
      new == Window(c)
  IN
  /\ c.pc = "entered" /\ c.op = "pay" /\ c.ref \in Pay
  /\ c.user \in closed \/ GrantLockFree(c.user)
  /\ plan' = [plan EXCEPT ![c.user] = new]
  /\ ledger' = [ledger EXCEPT ![c.user] = Post(@, GrantRows(c.user, @, new, c.at))]
  /\ effect' = [effect EXCEPT ![c.ref] =
       [state |-> "granted", order |-> c.user, start |-> new.expires - Length(c.user),
        end |-> new.expires, key |-> Claimed(effect, c.user, new, c.amount = 1, c.at)]]
  /\ Ended(p)
  /\ UNCHANGED <<now, closed, owned, cache, saved, reported, paid>>

\* A chargeback, or the refund of an annual payment, ends the plan.
Whole(u, op) == op = "chargeback" \/ u \in Annual
Keys == [k \in Pay |-> effect[k].key]
Sold(L, kind, ref) == AtLeast0(SumOf(L, {kind}, ref))
PackRest(L, k) == SumOf(L, {"pack", "rebill_revoke", "rebill_revoke:chargeback"}, k)

\* What a reversal takes.  Faults: a refund takes the whole pack; it takes all that is
\* left of the plan.
TakeWhole(u, op, k) == LET rest == PackRest(ledger[u], k) IN IF k \in Pack THEN rest ELSE 0
TakePlan(u, op, k) ==
  IF k \in Pay THEN Least(UnusedPlan(ledger[u], Keys), AtLeast0(Balance(ledger[u])))
  ELSE AtLeast0(PackRest(ledger[u], k))
Take(u, op, k) ==
  LET L == ledger[u]
      within(unused, granted) == Least(Least(unused, granted), AtLeast0(Balance(L)))
      key == effect[k].key
  IN
  IF k \in Pack
  THEN IF op = "chargeback" THEN AtLeast0(PackRest(L, k))
       ELSE within(UnusedOf(L, Keys, "pack", k), Sold(L, "pack", k))
  ELSE IF Whole(u, op) THEN within(UnusedPlan(L, Keys), UnusedPlan(L, Keys))
  ELSE within(UnusedOf(L, Keys, "plan_monthly", key), Sold(L, "plan_monthly", key))

\* A payment was refunded or charged back: what to take is read first, under no lock
\* that a spend or a refresh of the account takes ...
ReadReversal(p) ==
  LET c == call[p] IN
  /\ c.pc = "begun" /\ c.op \in {"refund", "chargeback"} /\ PayLockFree(p, c.ref)
  /\ \/ /\ State(c.ref) \in {"none", "refused"}
        /\ Ended(p)
        /\ paid' = IF c.ref \in Pack THEN [paid EXCEPT ![c.ref] = "refused"] ELSE paid
        /\ effect' = IF c.ref \in Pay THEN [effect EXCEPT ![c.ref].state = "refused"] ELSE effect
     \/ /\ State(c.ref) = "revoked" /\ c.op = "refund"
        /\ Ended(p) /\ UNCHANGED <<paid, effect>>
     \/ /\ State(c.ref) = "granted" \/ (State(c.ref) = "revoked" /\ c.op = "chargeback")
        /\ Goes(p, [c EXCEPT !.pc = "entered", !.amount = Take(c.user, c.op, c.ref)])
        /\ UNCHANGED <<paid, effect>>
  /\ UNCHANGED <<now, ledger, plan, closed, owned, cache, saved, reported>>

\* The ledger with the reversal's row, unless its key is there already.
Taken(L, kind, c) ==
  IF c.amount = 0 \/ Has(L, kind, c.ref) THEN L
  ELSE Post(L, <<NewRow(kind, c.ref, -c.amount, c.at)>>)

\* ... and written later.
ReversePack(p) ==
  LET c == call[p]
      kind == IF c.op = "chargeback" /\ Has(ledger[c.user], "rebill_revoke", c.ref)
              THEN "rebill_revoke:chargeback" ELSE "rebill_revoke"
  IN
  /\ c.pc = "entered" /\ c.op \in {"refund", "chargeback"} /\ c.ref \in Pack
  /\ paid' = [paid EXCEPT ![c.ref] = "revoked"]
  /\ ledger' = [ledger EXCEPT ![c.user] = Taken(@, kind, c)]
  /\ Ended(p)
  /\ UNCHANGED <<now, plan, effect, closed, owned, cache, saved, reported>>

\* The reversal of a plan payment changes the window, too; where the present window
\* ends or moves, the grants run on what the reversal leaves.
ReversePlan(p) ==
  LET c == call[p]
      u == c.user
      whole == Whole(u, c.op)
      x == effect[c.ref]
      f == IF whole THEN effect ELSE MovedUp(effect, c.ref, x, c.at)
      g == [f EXCEPT ![c.ref].state = "revoked"]
      after == IF whole THEN Terminated(plan[u], c.op, c.at) ELSE Cut(plan[u], f, c.ref, x, c.at)
      settles == whole \/ Current(x, c.at) \/ ~GoesOn(f, c.ref, x, c.at)
      L == Taken(ledger[u], IF whole THEN "rebill_revoke_plan" ELSE "rebill_revoke", c)
  IN
  /\ c.pc = "entered" /\ c.op \in {"refund", "chargeback"} /\ c.ref \in Pay
  /\ settles => u \in closed \/ GrantLockFree(u)
  /\ effect' = IF whole \/ after.status = "revoked" THEN g ELSE Renumbered(g, c.ref, u, after)
  /\ plan' = [plan EXCEPT ![u] = IF settles THEN Settled(u, after, c.at) ELSE after]
  /\ ledger' = [ledger EXCEPT ![u] =
       IF settles THEN Post(L, GrantRows(u, L, after, c.at)) ELSE L]
  /\ Ended(p)
  /\ UNCHANGED <<now, closed, owned, cache, saved, reported, paid>>

-----------------------------------------------------------------------------
(* Reports of bad addresses, and the request to delete the account *)

Courtesies(u) == Cardinality({i \in 1..Len(ledger[u]) : ledger[u][i].kind = "courtesy"})

Report(u, h) ==
  /\ "report" \in Operations /\ <<u, h>> \in owned \ reported
  /\ Courtesies(u) < MaxReports
  /\ reported' = reported \cup {<<u, h>>}
  /\ UNCHANGED <<now, ledger, plan, effect, closed, owned, cache, saved, paid, call>>

\* review_contact_report holds the report's row; one that was decided stays so.
ReviewReport(p, decision) ==
  LET c == call[p] IN
  /\ c.pc = "begun" /\ c.op = "review"
  /\ reported' = reported \ {<<c.user, c.ref>>}
  /\ IF decision = "reject" \/ <<c.user, c.ref>> \notin reported THEN UNCHANGED <<ledger, cache>>
     ELSE /\ ledger' = [ledger EXCEPT ![c.user] =
               Post(@, <<NewRow("courtesy", c.ref, UnlockCost, c.at)>>)]
          /\ cache' = [cache EXCEPT ![c.ref] = "invalid"]
  /\ Ended(p)
  /\ UNCHANGED <<now, plan, effect, closed, owned, saved, paid>>

\* admin_grant_credits: the form carries one key, so a repeat adds nothing.
AdminGrant(p) ==
  LET c == call[p] IN
  /\ c.pc = "begun" /\ c.op = "admin_grant"
  /\ ledger' = IF Has(ledger[c.user], "admin_grant", None) THEN ledger
               ELSE [ledger EXCEPT ![c.user] = Post(@, <<NewRow("admin_grant", None, 1, c.at)>>)]
  /\ Ended(p)
  /\ UNCHANGED <<now, plan, effect, closed, owned, cache, saved, reported, paid>>

\* request_own_account_deletion holds the users row, which a transaction that has
\* already written grants refers to.
RequestDeletion(p) ==
  LET c == call[p]
      balance == Balance(ledger[c.user])
  IN
  /\ c.pc = "begun" /\ c.op = "delete"
  /\ \A q \in Proc : call[q].user = c.user => call[q].grants = <<>>
  /\ closed' = closed \cup {c.user}
  /\ ledger' = IF c.user \in closed \/ balance <= 0 THEN ledger
               ELSE [ledger EXCEPT ![c.user] =
                       Post(@, <<NewRow("account_deletion", None, -balance, c.at)>>)]
  /\ Ended(p)
  /\ UNCHANGED <<now, plan, effect, owned, cache, saved, reported, paid>>

\* Time passes.
Tick ==
  /\ now < MaxTime /\ now' = now + 1
  /\ UNCHANGED <<ledger, plan, effect, closed, owned, cache, saved, reported, paid, call>>

-----------------------------------------------------------------------------
Next ==
  \/ Tick
  \/ \E p \in Proc, u \in User :
       \/ \E op \in {"refresh", "admin_grant", "delete"} : Begin(p, u, op, None)
       \/ \E h \in Hotel :
            \/ Begin(p, u, "unlock", h)
            \/ <<u, h>> \in reported /\ Begin(p, u, "review", h)
       \/ \E d \in Draft : Begin(p, u, "draft", d)
  \/ \E p \in Proc, k \in Pack \cup Pay :
       \/ Begin(p, Payer[k], "pay", k) \/ Begin(p, Payer[k], "refund", k)
       \/ k \in Disputed /\ Begin(p, Payer[k], "chargeback", k)
  \/ \E p \in Proc :
       \/ Refresh(p) \/ EnterUnlock(p) \/ CommitUnlock(p)
       \/ EnterDraft(p) \/ CommitDraft(p)
       \/ EnterPayment(p) \/ GrantPack(p) \/ GrantPlan(p)
       \/ ReadReversal(p) \/ ReversePack(p) \/ ReversePlan(p)
       \/ AdminGrant(p) \/ RequestDeletion(p) \/ Die(p)
       \/ \E d \in {"accept", "reject"} : ReviewReport(p, d)
       \/ \E answer \in {"found", "not_found"} : Lookup(p, answer)
  \/ \E u \in User, h \in Hotel : SaveHotel(u, h) \/ CloseItem(u, h) \/ Report(u, h)

Spec == Init /\ [][Next]_vars
=============================================================================
