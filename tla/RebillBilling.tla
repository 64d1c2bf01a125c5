---------------------------- MODULE RebillBilling ----------------------------
(***************************************************************************)
(* Billing of TheUGC.life: hosted checkouts, the webhooks of Rebill, the   *)
(* access windows and slices they write, refunds and chargebacks, and the  *)
(* cancels that follow a request to delete the account.                    *)
(*                                                                         *)
(* A webhook names a payment or a subscription; the handler asks Rebill    *)
(* for its present status and applies that under two advisory locks, one   *)
(* for the log id and one for the payment.  Rebill delivers a log in any   *)
(* order and any number of times.  Answer, apply and commit are steps of   *)
(* their own; a tick is much longer than a transaction.                    *)
(***************************************************************************)
EXTENDS Sequences, PlanSlices

CONSTANTS
  User, Order,          \* accounts, checkouts (and their subscription); Pay: payments
  Owner,                \* the account of each checkout
  Packs, Annual,        \* checkouts of a pack, of an annual plan
  Handler,              \* webhook requests that may overlap
  Canceller,            \* callers of Rebill's cancel
  Job,                  \* those of them that are the daily job; the others are deletion actions
  None,
  YearLength,           \* 12 months, in ticks
  BatchSize,            \* p_limit of read_rebill_pending_cancels
  Grace,                \* ticks between the request and the erasure
  MaxTime, MaxLogs,     \* bounds: ticks, webhooks
  Events                \* what Rebill and the creators do in an instance

ASSUME BillingConstants ==
  /\ Owner \in [Order -> User] /\ Packs \subseteq Order /\ Annual \subseteq Order \ Packs
  /\ {YearLength, BatchSize} \subseteq Nat \ {0}
  /\ {Grace, MaxTime, MaxLogs} \subseteq Nat
  /\ None \notin Order \cup Pay /\ Job \subseteq Canceller
  /\ IsFiniteSet(Order)

VARIABLES
  now,         \* the clock
  requested,   \* deletion_requested_at of each account, or None
  erased,      \* accounts that are gone
  checkout,    \* rebill_checkouts.status
  sub,         \* subscriptions.status of the subscription of each checkout
  ent,         \* its access_entitlements row
  effect,      \* rebill_payment_effects
  keys,        \* plan_monthly grants in the ledger: checkout, window, period
  known,       \* private.rebill_closed_provider_ids
  refunds,     \* private.rebill_refund_queue
  cancels,     \* private.rebill_cancel_queue, oldest first
  log,         \* webhooks sent by Rebill, with the result rebill_webhook_events holds
  charge,      \* Rebill: the status of each payment
  standing,    \* Rebill: the payment link and then the subscription of each checkout
  handler,     \* webhook requests
  canceller    \* what a caller of the cancel has still to do

tables == <<requested, erased, checkout, sub, ent, effect, keys, known, refunds, cancels>>
rebill == <<charge, standing>>
vars == <<now, tables, log, rebill, handler, canceller>>

NoEffect == [state |-> "none", order |-> None, start |-> 0, end |-> 0, key |-> <<>>]
Quiet == [pc |-> "idle", log |-> 0, status |-> "none", ent |-> NoEnt, effect |-> NoEffect]
Rest == [todo |-> <<>>, told |-> <<>>, job |-> FALSE]

Init ==
  /\ now = 0
  /\ requested = [u \in User |-> None] /\ erased = {}
  /\ checkout = [o \in Order |-> "none"]
  /\ sub = [o \in Order |-> "none"]
  /\ ent = [o \in Order |-> NoEnt]
  /\ effect = [p \in Pay |-> NoEffect]
  /\ keys = {} /\ known = {} /\ refunds = {} /\ cancels = <<>>
  /\ log = <<>>
  /\ charge = [p \in Pay |-> [order |-> None, status |-> "none"]]
  /\ standing = [o \in Order |-> "none"]
  /\ handler = [h \in Handler |-> Quiet]
  /\ canceller = [c \in Canceller |-> Rest]

Closing(u) == requested[u] # None
IsPlan(o) == o \notin Packs
Length(o) == IF o \in Annual THEN YearLength ELSE MonthLength

\* rebill_account_closed_for_payment
Closed(o) == (Closing(Owner[o]) /\ Owner[o] \notin erased) \/ o \in known

-----------------------------------------------------------------------------
(* Grants of plan periods (ensure_credit_grants), here only their keys *)

Granted(o, e, t) ==
  IF Covers(e, t) /\ ~Closing(Owner[o]) THEN keys \cup {KeyOf(o, e, Period(e, t))} ELSE keys

\* A page or the annual refresh runs the grants.
GrantRun(o) ==
  /\ ~Closing(Owner[o]) /\ ent[o].status # "none"
  /\ ent' = [ent EXCEPT ![o] = Lapsed(@, now)]
  /\ keys' = Granted(o, ent[o], now)
  /\ sub' = [sub EXCEPT ![o] = IF @ \in {"active", "past_due"} /\ ent[o].expires <= now
                               THEN "expired" ELSE @]
  /\ UNCHANGED <<now, requested, erased, checkout, effect, known, refunds, cancels,
                 log, rebill, handler, canceller>>

-----------------------------------------------------------------------------
(* Checkouts: the row, then the link *)

CreateCheckout(o) ==
  /\ checkout[o] = "none" /\ ~Closing(Owner[o])
  /\ checkout' = [checkout EXCEPT ![o] = "pending"]
  /\ UNCHANGED <<now, requested, erased, sub, ent, effect, keys, known, refunds, cancels,
                 log, rebill, handler, canceller>>

AttachLink(o) ==
  /\ checkout[o] = "pending"
  /\ checkout' = [checkout EXCEPT ![o] = "open"]
  /\ standing' = [standing EXCEPT ![o] = "link"]
  /\ UNCHANGED <<now, requested, erased, sub, ent, effect, keys, known, refunds, cancels,
                 log, charge, handler, canceller>>

-----------------------------------------------------------------------------
(* Rebill.  A change of status sends one log. *)

Sends(kind, ref) ==
  /\ Len(log) < MaxLogs
  /\ log' = Append(log, [kind |-> kind, ref |-> ref, result |-> "none"])

\* The single-use link is paid, or Rebill charges the next period.
Charge(p, o, status) ==
  /\ charge[p].status = "none" /\ Sends("payment", p)
  /\ \/ standing[o] = "link" /\ (\A q \in Pay : charge[q].order = o => charge[q].status = "rejected")
     \/ "renew" \in Events /\ standing[o] = "active"
  /\ status = "rejected" => "reject" \in Events
  /\ charge' = [charge EXCEPT ![p] = [order |-> o, status |-> status]]
  /\ standing' = [standing EXCEPT ![o] = IF IsPlan(o) /\ status = "approved" THEN "active" ELSE @]
  /\ UNCHANGED <<now, tables, handler, canceller>>

GiveBack(p, status) ==
  /\ status \in Events /\ Sends("payment", p)
  /\ charge[p].status \in (IF status = "refunded" THEN {"approved"} ELSE {"approved", "refunded"})
  /\ charge' = [charge EXCEPT ![p].status = status]
  /\ UNCHANGED <<now, tables, standing, handler, canceller>>

\* payment.updated follows payment.created for the same status.
TellAgain(p) ==
  /\ "updated" \in Events /\ charge[p].status # "none" /\ Sends("payment", p)
  /\ UNCHANGED <<now, tables, rebill, handler, canceller>>

SubscriptionMoves(o, status) ==
  /\ (IF status = "finished" THEN "finish" ELSE "subscription") \in Events /\ Sends("subscription", o)
  /\ standing[o] \notin {"none", "link", "cancelled", "finished", status}
  /\ standing' = [standing EXCEPT ![o] = status]
  /\ UNCHANGED <<now, tables, charge, handler, canceller>>

-----------------------------------------------------------------------------
(* apply_rebill_event *)

Becomes(h, c) == handler' = [handler EXCEPT ![h] = c]
Record(l, result) == log' = [log EXCEPT ![l].result = result]

\* The handler verified the signature and read the status from Rebill.
Confirm(h, l) ==
  LET ref == log[l].ref IN
  /\ handler[h].pc = "idle"
  /\ Becomes(h, [Quiet EXCEPT !.pc = "confirmed", !.log = l,
                 !.status = IF log[l].kind = "payment" THEN charge[ref].status ELSE standing[ref]])
  /\ UNCHANGED <<now, tables, log, rebill, canceller>>

\* No other transaction holds the log id or the payment.
LocksFree(h) ==
  LET l == handler[h].log IN
  \A g \in Handler \ {h} :
    handler[g].pc = "entered" =>
      handler[g].log # l /\ <<log[handler[g].log].kind, log[handler[g].log].ref>> # <<log[l].kind, log[l].ref>>

Seen(p) == {log[l].result : l \in {k \in DOMAIN log : log[k].kind = "payment" /\ log[k].ref = p}}

\* Fault: a refund that arrived first is not looked for.
VerdictForgets(p, status) ==
  IF status \in {"refunded", "chargeback"}
  THEN IF effect[p].state = "none" THEN "refund_without_grant" ELSE "reverse"
  ELSE IF status = "rejected" THEN "past_due"
  ELSE IF effect[p].state # "none" THEN "already_applied" ELSE "grant"

\* Fault: a closed account's payment is queued although it was granted.
VerdictQueues(p, status) ==
  IF status = "approved" /\ Closed(charge[p].order) THEN "deletion_pending"
  ELSE VerdictForgets(p, status)

\* What a payment's status leads to; "grant" and "reverse" are written later.
Verdict(p, status) ==
  LET o == charge[p].order
      found == effect[p].state # "none"
  IN
  IF status \in {"refunded", "chargeback"}
  THEN IF ~found THEN "refund_without_grant"
       ELSE IF effect[p].state = "revoked" /\ status = "refunded" THEN "already_revoked"
       ELSE "reverse"
  ELSE IF status = "approved" /\ Closed(o) THEN IF found THEN "already_applied" ELSE "deletion_pending"
  ELSE IF Owner[o] \in erased THEN "unknown_checkout"
  ELSE IF status = "rejected" THEN "past_due"
  ELSE IF Seen(p) \cap {"revoked", "refund_without_grant"} # {} THEN "refunded_before_grant"
  ELSE IF found THEN "already_applied"
  ELSE "grant"

\* Everything up to the first write: a payment that changes nothing ends here.
Enter(h) ==
  LET c == handler[h]
      p == log[c.log].ref
      o == charge[p].order
      verdict == Verdict(p, c.status)
  IN
  /\ c.pc = "confirmed" /\ log[c.log].kind = "payment" /\ LocksFree(h)
  /\ IF log[c.log].result # "none"
     THEN Becomes(h, Quiet) /\ UNCHANGED <<refunds, sub, log>>
     ELSE IF verdict \in {"grant", "reverse"}
     THEN /\ Becomes(h, [c EXCEPT !.pc = "entered", !.ent = ent[o], !.effect = effect[p]])
          /\ UNCHANGED <<refunds, sub, log>>
     ELSE /\ Becomes(h, Quiet) /\ Record(c.log, verdict)
          /\ refunds' = IF verdict = "deletion_pending" THEN refunds \cup {p} ELSE refunds
          /\ sub' = [sub EXCEPT ![o] = IF verdict = "past_due" /\ @ = "active" THEN "past_due" ELSE @]
  /\ UNCHANGED <<now, requested, erased, checkout, ent, effect, keys, known, cancels, rebill,
                 canceller>>

\* Fault: a renewal counts from the present moment.
WindowFromNow(e, o) ==
  [status |-> "active", start |-> IF Covers(e, now) THEN e.start ELSE now, expires |-> now + Length(o)]

\* The window a payment opens or extends, from the row as it was read.
Window(e, o) == Extended(e, Length(o), now)

\* Fault: the payment owns the present period.
OwnKeyPresent(o, e) == KeyOf(o, e, Period(e, now))

OwnKey(o, e) == Claimed(effect, o, e, KeyOf(o, e, Period(e, now)) \in keys, now)

Grant(h) ==
  LET c == handler[h]
      p == log[c.log].ref
      o == charge[p].order
      e == Window(c.ent, o)
  IN
  /\ c.pc = "entered" /\ log[c.log].kind = "payment" /\ c.status = "approved" /\ Owner[o] \notin erased
  /\ checkout' = [checkout EXCEPT ![o] = "completed"]
  /\ IF ~IsPlan(o)
     THEN /\ effect' = [effect EXCEPT ![p] = [NoEffect EXCEPT !.state = "granted", !.order = o]]
          /\ UNCHANGED <<sub, ent, keys>>
     ELSE /\ sub' = [sub EXCEPT ![o] = "active"]
          /\ ent' = [ent EXCEPT ![o] = e]
          /\ keys' = Granted(o, e, now)
          /\ effect' = [effect EXCEPT ![p] =
               [state |-> "granted", order |-> o, start |-> e.expires - Length(o), end |-> e.expires,
                key |-> OwnKey(o, e)]]
  /\ Record(c.log, "applied") /\ Becomes(h, Quiet)
  /\ UNCHANGED <<now, requested, erased, known, refunds, cancels, rebill, canceller>>

\* The slices that a refund leaves.  Fault: they stay where they are.
ShiftedNot(p, x) == [q \in Pay |-> IF q = p THEN [effect[q] EXCEPT !.order = x.order] ELSE effect[q]]
Shifted(p, x) == MovedUp(effect, p, x, now)

\* Whether a refund leaves the status of the subscription as it is.
\* Fault: only a revoked window is left alone.
StaysIfRevoked(o, e) == o \in Order /\ e.status = "revoked"
Stays(o, e) == sub[o] \in {"canceled", "past_due"} \/ e.status = "revoked"

\* The window and the subscription after a monthly payment's slice x is taken out.
AfterSlice(p, x, f) ==
  LET e == ent[x.order]
      moved == GoesOn(f, p, x, now)
  IN
  [ent |-> Cut(e, f, p, x, now),
   sub |-> IF ~moved THEN IF sub[x.order] = "canceled" THEN "canceled" ELSE "expired"
           ELSE IF Stays(x.order, e) THEN sub[x.order] ELSE "active",
   ended |-> moved => Current(x, now)]

\* A chargeback, or the refund of an annual payment, ends the plan.
AfterPlan(x, status) ==
  [ent |-> Terminated(ent[x.order], status, now), sub |-> "canceled", ended |-> TRUE]

Reverse(h) ==
  LET c == handler[h]
      p == log[c.log].ref
      x == c.effect
      o == x.order
      whole == c.status = "chargeback" \/ o \in Annual
      f == IF IsPlan(o) /\ ~whole THEN Shifted(p, x) ELSE effect
      g == [f EXCEPT ![p].state = "revoked"]
      after == IF whole THEN AfterPlan(x, c.status) ELSE AfterSlice(p, x, f)
  IN
  /\ c.pc = "entered" /\ log[c.log].kind = "payment" /\ c.status \in {"refunded", "chargeback"}
  /\ Owner[o] \notin erased
  /\ IF ~IsPlan(o)
     THEN effect' = g /\ UNCHANGED <<ent, sub, keys>>
     ELSE /\ ent' = [ent EXCEPT ![o] = after.ent]
          /\ sub' = [sub EXCEPT ![o] = IF @ = "none" THEN @ ELSE after.sub]
          /\ effect' = IF whole \/ after.ent.status = "revoked" THEN g
                       ELSE Renumbered(g, p, o, after.ent)
          /\ keys' = IF after.ended THEN Granted(o, after.ent, now) ELSE keys
  /\ Record(c.log, "revoked") /\ Becomes(h, Quiet)
  /\ UNCHANGED <<now, requested, erased, checkout, known, refunds, cancels, rebill, canceller>>

\* subscription.updated: whether the account is closed is read first ...
Mapped(status) ==
  CASE status = "active" -> "active"
    [] status = "defaulted" -> "past_due"
    [] status \in {"paused", "cancelled"} -> "canceled"
    [] status = "finished" -> "expired"

EnterSubscription(h) ==
  LET c == handler[h]
      o == log[c.log].ref
      to == Mapped(c.status)
  IN
  /\ c.pc = "confirmed" /\ log[c.log].kind = "subscription" /\ LocksFree(h)
  /\ IF log[c.log].result # "none" THEN Becomes(h, Quiet) /\ UNCHANGED log
     ELSE IF sub[o] = "none" THEN Becomes(h, Quiet) /\ Record(c.log, "unknown_subscription")
     ELSE /\ Becomes(h, [c EXCEPT !.pc = "entered",
                                  !.status = IF Closed(o) /\ to \notin {"canceled", "expired"}
                                             THEN "none" ELSE to])
          /\ UNCHANGED log
  /\ UNCHANGED <<now, tables, rebill, canceller>>

\* ... and the row of the subscription is written afterwards.
WriteSubscription(h) ==
  LET c == handler[h]
      o == log[c.log].ref
  IN
  /\ c.pc = "entered" /\ log[c.log].kind = "subscription"
  /\ sub' = [sub EXCEPT ![o] = IF c.status = "none" \/ @ = "none" THEN @ ELSE c.status]
  /\ Record(c.log, "subscription_updated") /\ Becomes(h, Quiet)
  /\ UNCHANGED <<now, requested, erased, checkout, ent, effect, keys, known, refunds, cancels,
                 rebill, canceller>>

\* The request dies, the read of Rebill fails, or the transaction is rolled back:
\* Rebill gets no 200 and delivers the log again.  Rows of an erased account refuse.
DropRequest(h) ==
  /\ handler[h].pc # "idle"
  /\ "drop" \in Events \/ (handler[h].pc = "entered" /\ log[handler[h].log].kind = "payment"
                         /\ Owner[charge[log[handler[h].log].ref].order] \in erased)
  /\ Becomes(h, Quiet)
  /\ UNCHANGED <<now, tables, log, rebill, canceller>>

-----------------------------------------------------------------------------
(* Deletion of the account, and the cancels at Rebill *)

OrdersOf(u) == {o \in Order : Owner[o] = u /\ checkout[o] # "none"}
SubsOf(u) == {o \in OrdersOf(u) : sub[o] # "none"}
InQueue == {cancels[i] : i \in DOMAIN cancels}
Listed(S) == CHOOSE s \in [1..Cardinality(S) -> S] : \A i, j \in DOMAIN s : s[i] = s[j] => i = j

\* request_own_account_deletion, first or repeated, and the action's list of ids.
RequestDeletion(u, c) ==
  /\ "delete" \in Events /\ u \notin erased /\ c \notin Job /\ canceller[c] = Rest
  /\ requested' = [requested EXCEPT ![u] = IF @ = None THEN now ELSE @]
  /\ known' = known \cup OrdersOf(u)
  /\ sub' = [o \in Order |-> IF o \in SubsOf(u) /\ sub[o] # "expired" THEN "canceled" ELSE sub[o]]
  /\ cancels' = cancels \o Listed(SubsOf(u) \ InQueue)
  /\ canceller' = [canceller EXCEPT ![c] = [Rest EXCEPT !.todo = Listed(SubsOf(u))]]
  /\ UNCHANGED <<now, erased, checkout, ent, effect, keys, refunds, log, rebill, handler>>

\* read_rebill_pending_cancels, by the daily job.
ReadQueue(c) ==
  /\ c \in Job /\ canceller[c] = Rest /\ cancels # <<>>
  /\ canceller' = [canceller EXCEPT ![c] =
       [Rest EXCEPT !.todo = SubSeq(cancels, 1, Min({BatchSize, Len(cancels)})), !.job = TRUE]]
  /\ UNCHANGED <<now, tables, log, rebill, handler>>

\* The job records each answer before it asks again; the action asks for all first.
Asks(c) == canceller[c].todo # <<>> /\ (canceller[c].job => canceller[c].told = <<>>)
Told(c, answer) ==
  canceller' = [canceller EXCEPT ![c].todo = Tail(@), ![c].told = Append(@, <<Head(canceller[c].todo), answer>>)]

\* Fault: an answer that is no success counts as one.
CancelAtRebillTrusts(c, done, heard) ==
  /\ Asks(c) /\ (done => standing[Head(canceller[c].todo)] # "finished")
  /\ standing' = IF done THEN [standing EXCEPT ![Head(canceller[c].todo)] = "cancelled"] ELSE standing
  /\ Told(c, IF heard THEN "cancelled" ELSE "provider_error")
  /\ UNCHANGED <<now, tables, log, charge, handler>>

\* Fault: the refusal of a second cancel is taken for a failure.
CancelAtRebillTwice(c, done, heard) ==
  LET o == Head(canceller[c].todo) IN
  /\ Asks(c) /\ (done => standing[o] # "finished")
  /\ standing' = IF done THEN [standing EXCEPT ![o] = "cancelled"] ELSE standing
  /\ Told(c, IF done /\ heard /\ standing[o] # "cancelled" THEN "cancelled" ELSE "provider_error")
  /\ UNCHANGED <<now, tables, log, charge, handler>>

\* PATCH with status cancelled: Rebill does it and answers, does it and is not
\* heard, or fails.  A subscription that is cancelled already is confirmed by a GET;
\* one that is finished can no longer be cancelled.
CancelAtRebill(c, done, heard) ==
  /\ Asks(c) /\ (done => standing[Head(canceller[c].todo)] # "finished")
  /\ standing' = IF done THEN [standing EXCEPT ![Head(canceller[c].todo)] = "cancelled"] ELSE standing
  /\ Told(c, IF done /\ heard THEN "cancelled" ELSE "provider_error")
  /\ UNCHANGED <<now, tables, log, charge, handler>>

\* The queue after the row of a checkout is deleted; the id is the key of the table.
Without(o) ==
  LET i == CHOOSE j \in DOMAIN cancels : cancels[j] = o
  IN  IF o \in InQueue THEN SubSeq(cancels, 1, i - 1) \o SubSeq(cancels, i + 1, Len(cancels)) ELSE cancels

\* rebill_finish_provider_cancel or rebill_queue_provider_cancel.
RecordCancel(c) ==
  LET k == canceller[c]
      o == Head(k.told)[1]
  IN
  /\ k.told # <<>> /\ (k.job \/ k.todo = <<>>)
  /\ cancels' = IF Head(k.told)[2] = "cancelled" THEN Without(o)
                ELSE IF o \in InQueue THEN cancels ELSE Append(cancels, o)
  /\ canceller' = [canceller EXCEPT ![c] =
       IF k.todo = <<>> /\ Len(k.told) = 1 THEN Rest ELSE [k EXCEPT !.told = Tail(@)]]
  /\ UNCHANGED <<now, requested, erased, checkout, sub, ent, effect, keys, known, refunds,
                 log, rebill, handler>>

CancellerDies(c) ==
  /\ "drop" \in Events /\ canceller[c] # Rest
  /\ canceller' = [canceller EXCEPT ![c] = Rest]
  /\ UNCHANGED <<now, tables, log, rebill, handler>>

\* erase_creator_account: the rows of the account go, the remembered ids stay.
Erase(u) ==
  /\ requested[u] # None /\ u \notin erased /\ now >= requested[u] + Grace
  /\ erased' = erased \cup {u}
  /\ known' = known \cup OrdersOf(u)
  /\ checkout' = [o \in Order |-> IF Owner[o] = u THEN "none" ELSE checkout[o]]
  /\ sub' = [o \in Order |-> IF Owner[o] = u THEN "none" ELSE sub[o]]
  /\ ent' = [o \in Order |-> IF Owner[o] = u THEN NoEnt ELSE ent[o]]
  /\ effect' = [p \in Pay |-> IF effect[p].order \in OrdersOf(u) THEN NoEffect ELSE effect[p]]
  /\ keys' = {k \in keys : Owner[k[1]] # u}
  /\ UNCHANGED <<now, requested, refunds, cancels, log, rebill, handler, canceller>>

Tick ==
  /\ now < MaxTime /\ now' = now + 1
  /\ \A h \in Handler : handler[h].pc # "entered"
  /\ UNCHANGED <<tables, log, rebill, handler, canceller>>

-----------------------------------------------------------------------------
Next ==
  \/ Tick
  \/ \E o \in Order :
       \/ GrantRun(o) \/ CreateCheckout(o) \/ AttachLink(o)
       \/ \E p \in Pay, s \in {"approved", "rejected"} : Charge(p, o, s)
       \/ \E s \in {"active", "paused", "defaulted", "cancelled", "finished"} : SubscriptionMoves(o, s)
  \/ \E p \in Pay : TellAgain(p) \/ \E s \in {"refunded", "chargeback"} : GiveBack(p, s)
  \/ \E h \in Handler :
       \/ \E l \in DOMAIN log : Confirm(h, l)
       \/ Enter(h) \/ Grant(h) \/ Reverse(h) \/ EnterSubscription(h) \/ WriteSubscription(h) \/ DropRequest(h)
  \/ \E u \in User : Erase(u) \/ \E c \in Canceller : RequestDeletion(u, c)
  \/ \E c \in Canceller :
       \/ ReadQueue(c) \/ RecordCancel(c) \/ CancellerDies(c)
       \/ \E done, heard \in BOOLEAN : CancelAtRebill(c, done, heard)

Spec == Init /\ [][Next]_vars

\* The scheduler runs the job every day, Rebill does not fail for ever, and the
\* platform does not kill every run of the job that has heard from Rebill.
Cancelled(c, o) ==
  canceller[c].todo # <<>> /\ Head(canceller[c].todo) = o /\ CancelAtRebill(c, TRUE, TRUE)
Finished(c, o) ==
  canceller[c].told # <<>> /\ Head(canceller[c].told) = <<o, "cancelled">> /\ RecordCancel(c)
Fairness ==
  \A c \in Job :
    /\ WF_vars(ReadQueue(c)) /\ WF_vars(RecordCancel(c))
    /\ WF_vars(\E done, heard \in BOOLEAN : CancelAtRebill(c, done, heard))
    /\ \A o \in Order : SF_vars(Cancelled(c, o)) /\ SF_vars(Finished(c, o))

LiveSpec == Spec /\ Fairness
=============================================================================
