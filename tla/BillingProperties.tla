-------------------------- MODULE BillingProperties --------------------------
(***************************************************************************)
(* What billing promises (D135, D136, D140, D151).                         *)
(***************************************************************************)
EXTENDS RebillBilling

Ent == [status : {"none", "active", "expired", "revoked"}, start : Nat, expires : Nat]
Effect == [state : {"none", "granted", "revoked"}, order : Order \cup {None},
           start : Int, end : Int, key : {<<>>} \cup (Order \X Nat \X Nat)]
SubStatus == {"none", "active", "past_due", "canceled", "expired"}
Standings == {"none", "link", "active", "paused", "defaulted", "cancelled", "finished"}
Results == {"none", "refund_without_grant", "already_revoked", "already_applied",
            "deletion_pending", "unknown_checkout", "past_due", "refunded_before_grant",
            "applied", "revoked", "unknown_subscription", "subscription_updated"}

\* What a request is told by Rebill, or is to write.
Answers == Standings \cup SubStatus \cup {"approved", "rejected", "refunded", "chargeback"}

\* Every table, request and log holds values of its type.
TypeOK ==
  /\ now \in Nat
  /\ requested \in [User -> Nat \cup {None}] /\ erased \subseteq User
  /\ checkout \in [Order -> {"none", "pending", "open", "completed"}]
  /\ sub \in [Order -> SubStatus] /\ ent \in [Order -> Ent] /\ effect \in [Pay -> Effect]
  /\ keys \subseteq Order \X Nat \X Nat
  /\ known \subseteq Order /\ refunds \subseteq Pay /\ cancels \in Seq(Order)
  /\ log \in Seq([kind : {"payment", "subscription"}, ref : Pay \cup Order, result : Results])
  /\ charge \in [Pay -> [order : Order \cup {None},
                         status : {"none", "approved", "rejected", "refunded", "chargeback"}]]
  /\ standing \in [Order -> Standings]
  /\ handler \in [Handler -> [pc : {"idle", "confirmed", "entered"}, log : Nat,
                              status : Answers, ent : Ent, effect : Effect]]
  /\ canceller \in [Canceller -> [todo : Seq(Order), job : BOOLEAN,
                                  told : Seq(Order \X {"cancelled", "provider_error"})]]

\* However often, in whatever order and how many at a time the webhooks of a payment
\* arrive, it is granted once (D136), and never after its refund was told.
GrantedOnce ==
  \A p \in Pay :
    /\ Cardinality({l \in DOMAIN log : log[l].kind = "payment" /\ log[l].ref = p /\ log[l].result = "applied"}) <= 1
    /\ effect[p].state = "granted" => Seen(p) \cap {"revoked", "refund_without_grant"} = {}

\* The money of a payment is answered by a grant or by an alert in the refund queue,
\* never by both, although webhooks of the payment race the deletion of its account.
GrantedOrQueued == \A p \in refunds : effect[p].state = "none"

\* A payment has one answer for good, however its webhooks race each other and the
\* deletion of its account: a grant, or an alert, or neither once it is refunded.
OneAnswer == GrantedOnce /\ GrantedOrQueued

HasSlice(p, o) == effect[p].state = "granted" /\ effect[p].order = o

\* A chargeback ends a plan and leaves the slices of its other payments as they are.
Disputed(o) == \E p \in Pay : charge[p].order = o /\ charge[p].status = "chargeback"

PaidFor(o) == \E p \in Pay : HasSlice(p, o) /\ effect[p].start <= now /\ now < effect[p].end

\* Whoever has access has paid for this moment: a granted payment's slice covers it
\* (D135, D140), whichever payments were refunded or renewed before, or charged back
\* if the plan is annual.
AccessIsPaid ==
  \A o \in Order \ Packs : Covers(ent[o], now) /\ (Disputed(o) => o \in Annual) => PaidFor(o)

\* Every payment of a monthly plan buys days of its own: the slices of its subscription
\* do not overlap (D135), until a chargeback ends the plan.
OwnSlice ==
  \A o \in Order \ (Packs \cup Annual), p, q \in Pay :
    ~Disputed(o) /\ HasSlice(p, o) /\ HasSlice(q, o) /\ p # q => effect[p].end <= effect[q].start \/ effect[q].end <= effect[p].start

\* No two payments of a subscription own one period's credits: a refund reverses the
\* credits of its own period and nobody else's (D140).
OwnPeriod ==
  \A o \in Order \ Packs, p, q \in Pay :
    HasSlice(p, o) /\ HasSlice(q, o) /\ p # q => effect[p].key # effect[q].key

\* No order of renewals and refunds lets two payments of a subscription share days or
\* the credits of a period.
NothingShared == OwnSlice /\ OwnPeriod

\* After any order of renewals, refunds and chargebacks, access and slices are those of
\* the payments: nobody has days that were not paid for, nobody pays twice for a day.
DaysArePaid == AccessIsPaid /\ NothingShared

\* A cancel stays in the queue until Rebill has cancelled, whoever of the deletion
\* action and the daily job dies, is not heard or is late (0107).
CancelStaysPending ==
  [][\A o \in Order : o \in InQueue /\ o \notin InQueue' => standing[o] = "cancelled"]_vars

\* Every cancel in the queue is done in the end, if Rebill does not fail for ever.
CancelDone == \A o \in Order : o \in InQueue ~> o \notin InQueue

\* Approved money for an account whose deletion was requested is not granted (0106).
ClosedNotGranted ==
  [][\A p \in Pay : effect'[p].state = "granted" /\ effect[p].state = "none" => ~Closing(Owner[effect'[p].order])]_vars

\* A refund takes only the period its payment bought; other paid periods stay (D140).
RefundKeepsOthers ==
  [][\A p, q \in Pay :
       /\ effect[p].state = "granted" /\ effect'[p].state = "revoked" /\ charge[p].status = "refunded"
       /\ q # p /\ HasSlice(q, effect[p].order) /\ effect[p].order \notin Annual
       /\ Covers(ent[effect[p].order], now) /\ effect[q].start <= now /\ now < effect[q].end
       => Covers(ent'[effect[p].order], now)]_vars

\* Access is paid for after a chargeback and a new renewal as well (D135).
RenewedIsPaid == \A o \in Order \ Packs : Covers(ent[o], now) => PaidFor(o)

\* A refund puts nothing back: neither a subscription that was cancelled nor access
\* that a chargeback revoked, whichever slices move up (D140).
RefundRevivesNothing ==
  [][\A p \in Pay :
       effect[p].state = "granted" /\ effect'[p].state = "revoked" =>
         LET o == effect[p].order
         IN  /\ sub[o] = "canceled" => sub'[o] = "canceled"
             /\ ent[o].status = "revoked" => ent'[o].status = "revoked"]_vars

\* A closed account is not reactivated by what Rebill tells of its subscription (0106).
ClosedNotRevived ==
  [][\A o \in Order : Closing(Owner[o]) /\ sub[o] = "canceled" => sub'[o] # "active"]_vars

\* Deletion stops future charges: what Rebill still charges for a closed account is
\* in the cancel queue, on its way to be cancelled, or not yet told to the server.
ClosedIsCancelled ==
  \A o \in Order : \A p \in refunds :
    charge[p].order = o /\ IsPlan(o) /\ standing[o] = "active"
    => o \in InQueue \/ \E c \in Canceller : 
         \/ o \in {canceller[c].todo[i] : i \in DOMAIN canceller[c].todo}
         \/ o \in {canceller[c].told[i][1] : i \in DOMAIN canceller[c].told}
=============================================================================
