----------------------------- MODULE BillingProofs -----------------------------
(***************************************************************************)
(* Proofs about billing, for any accounts, checkouts, payments, handlers   *)
(* and callers: a payment has one answer, a cancel is kept until it is     *)
(* done, a refund puts nothing back, payments own their periods, and days  *)
(* of access are paid and are one payment's.                               *)
(*                                                                         *)
(* A handler decides in one step and writes in another.  The inductive     *)
(* invariant IInv says what of its decision still holds when it writes     *)
(* (Ready): the locks of the log and the payment keep other handlers away  *)
(* (Locks), a deletion in between changes none of it, and after an erasure *)
(* nothing is written.  The days need more (DInv): slices do not overlap   *)
(* and leave no gap up to the end of the window (Tiled, Paid), and what a  *)
(* handler has read of them is what it writes from (Fresh), which holds    *)
(* while no two handlers write payments of one subscription (Apart).       *)
(***************************************************************************)
EXTENDS BillingProperties, PlanSlicesProofs

\* The tables of the accounts and checkouts, and what Rebill has, have their types.
Facts ==
  /\ now \in Nat /\ requested \in [User -> Nat \cup {None}] /\ erased \subseteq User
  /\ checkout \in [Order -> {"none", "pending", "open", "completed"}]
  /\ known \subseteq Order /\ refunds \subseteq Pay
  /\ charge \in [Pay -> [order : Order \cup {None},
                         status : {"none", "approved", "rejected", "refunded", "chargeback"}]]
  /\ standing \in [Order -> Standings]

\* Subscriptions, windows and effects have their fields.
EntFields == {"status", "start", "expires"}
Rows ==
  /\ DOMAIN sub = Order
  /\ DOMAIN ent = Order /\ \A o \in Order : DOMAIN ent[o] = EntFields
  /\ DOMAIN effect = Pay /\ \A p \in Pay : DOMAIN effect[p] = EffectFields

\* Logs have their types and handlers their fields.
Logs == [kind : {"payment", "subscription"}, ref : Pay \cup Order, result : Results]
HandlerFields == {"pc", "log", "status", "ent", "effect"}
Webhooks ==
  /\ log \in Seq(Logs)
  /\ DOMAIN handler = Handler /\ \A h \in Handler : DOMAIN handler[h] = HandlerFields

\* The cancel queue and the callers of the cancel have their types.
Todos == [todo : Seq(Order), job : BOOLEAN, told : Seq(Order \X {"cancelled", "provider_error"})]
Cancelling == cancels \in Seq(Order) /\ canceller \in [Canceller -> Todos]

Shapes == Facts /\ Rows /\ Webhooks /\ Cancelling

\* What a sequence holds.
Held(s) == {s[i] : i \in DOMAIN s}

IsPayment(l) == log[l].kind = "payment"
Entered(h) == handler[h].pc = "entered"
LogOf(h) == log[handler[h].log]

\* A log is about a payment that Rebill has, or a checkout; a handler has a log, and one
\* that is about to write has a log without a result.
Wired ==
  /\ \A l \in DOMAIN log :
       IF IsPayment(l) THEN log[l].ref \in Pay /\ charge[log[l].ref].status # "none" ELSE log[l].ref \in Order
  /\ \A p \in Pay : charge[p].status # "none" => charge[p].order \in Order /\ standing[charge[p].order] # "none"
  /\ \A h \in Handler : handler[h].pc # "idle" => handler[h].log \in DOMAIN log
  /\ \A h \in Handler : Entered(h) => LogOf(h).result = "none"

\* What Rebill has, the database has, until the account is erased; its id stays known.
Checkouts ==
  /\ \A u \in erased : Closing(u)
  /\ \A o \in Order :
       /\ Owner[o] \in erased => checkout[o] = "none" /\ (standing[o] # "none" => o \in known)
       /\ checkout[o] = "none" /\ standing[o] # "none" => Owner[o] \in erased
       /\ checkout[o] = "pending" => standing[o] = "none"
       /\ sub[o] # "none" => standing[o] # "none"

\* Handlers that are about to write have logs and payments of their own.
Locks ==
  \A g, h \in Handler : g # h /\ Entered(g) /\ Entered(h) =>
    handler[g].log # handler[h].log /\ ~(LogOf(g).kind = LogOf(h).kind /\ LogOf(g).ref = LogOf(h).ref)

\* Cancels are asked for what Rebill has, and told "cancelled" means cancelled.
CancelsTrue ==
  /\ \A o \in InQueue : standing[o] # "none"
  /\ \A c \in Canceller :
       /\ \A o \in Held(canceller[c].todo) : standing[o] # "none"
       /\ \A t \in Held(canceller[c].told) :
            standing[t[1]] # "none" /\ (t[2] = "cancelled" => standing[t[1]] = "cancelled")

\* A payment with an effect is one of Rebill's, and the effect is on its order.
Effects ==
  \A p \in Pay : effect[p].state # "none" => charge[p].status # "none" /\ effect[p].order = charge[p].order

\* A queued refund is of a payment without an effect, on a checkout closed for payment.
Queued == \A p \in refunds : effect[p].state = "none" /\ charge[p].status # "none" /\ Closed(charge[p].order)

\* An applied log has left an effect, unless the account is erased; a payment has one.
Applied ==
  /\ \A l \in DOMAIN log : IsPayment(l) /\ log[l].result = "applied" =>
       effect[log[l].ref].state # "none" \/ Owner[charge[log[l].ref].order] \in erased
  /\ \A l, k \in DOMAIN log :
       IsPayment(l) /\ IsPayment(k) /\ log[l].ref = log[k].ref
         /\ log[l].result = "applied" /\ log[k].result = "applied" => l = k

\* A granted payment has not been told to be refunded.
NotRefunded(p) == Seen(p) \cap {"revoked", "refund_without_grant"} = {}
GrantStands == \A p \in Pay : effect[p].state = "granted" => NotRefunded(p)

\* What a handler has read when it is about to grant or to reverse still holds.
Ready ==
  \A h \in Handler : Entered(h) /\ LogOf(h).kind = "payment" =>
    LET p == LogOf(h).ref IN
    /\ handler[h].status = "approved" =>
         effect[p].state = "none" /\ p \notin refunds /\ NotRefunded(p) /\ "applied" \notin Seen(p)
    /\ handler[h].status \in {"refunded", "chargeback"} =>
         /\ handler[h].effect.order = charge[p].order
         /\ effect[p].state # "none" \/ Owner[charge[p].order] \in erased

IInv ==
  /\ Shapes /\ Wired /\ Checkouts /\ Locks /\ CancelsTrue
  /\ Effects /\ Queued /\ Applied /\ GrantStands /\ Ready
-----------------------------------------------------------------------------
(* What sequences hold. *)

\* What a sequence holds has the type of its items; taking one off or on changes what
\* it holds by it.
LEMMA HeldOf ==
  ASSUME NEW S, NEW s \in Seq(S)
  PROVE  /\ Held(s) \subseteq S
         /\ s # <<>> => /\ Tail(s) \in Seq(S) /\ Held(Tail(s)) \subseteq Held(s)
                        /\ Head(s) = s[1] /\ s[1] \in Held(s) /\ 1 \in DOMAIN s
         /\ \A e \in S : Append(s, e) \in Seq(S) /\ Held(Append(s, e)) = Held(s) \cup {e}
<1>1. Held(s) \subseteq S
  BY DEF Held
<1>2. ASSUME s # <<>>
      PROVE  /\ Tail(s) \in Seq(S) /\ Held(Tail(s)) \subseteq Held(s)
             /\ Head(s) = s[1] /\ s[1] \in Held(s) /\ 1 \in DOMAIN s
  <2>1. Tail(s) \in Seq(S) /\ Len(Tail(s)) = Len(s) - 1 /\ Head(s) = s[1] /\ Len(s) \in Nat /\ Len(s) > 0
    BY <1>2
  <2>2. \A i \in 1..(Len(s) - 1) : Tail(s)[i] = s[i + 1] /\ i + 1 \in 1..Len(s)
    BY <1>2, <2>1
  <2>3. DOMAIN Tail(s) = 1..(Len(s) - 1) /\ DOMAIN s = 1..Len(s) /\ 1 \in 1..Len(s)
    BY <2>1
  <2> QED BY <2>1, <2>2, <2>3 DEF Held
<1>3. ASSUME NEW e \in S PROVE Append(s, e) \in Seq(S) /\ Held(Append(s, e)) = Held(s) \cup {e}
  <2>1. /\ Append(s, e) \in Seq(S) /\ DOMAIN Append(s, e) = 1..(Len(s) + 1) /\ DOMAIN s = 1..Len(s) /\ Len(s) \in Nat
        /\ Append(s, e)[Len(s) + 1] = e /\ \A i \in 1..Len(s) : Append(s, e)[i] = s[i]
    OBVIOUS
  <2>2. \A i : i \in 1..(Len(s) + 1) <=> i \in 1..Len(s) \/ i = Len(s) + 1
    BY <2>1
  <2> QED BY <2>1, <2>2 DEF Held
<1> QED BY <1>1, <1>2, <1>3

\* Two sequences in a row hold what both hold.
LEMMA HeldOfBoth ==
  ASSUME NEW S, NEW s \in Seq(S), NEW t \in Seq(S)
  PROVE  s \o t \in Seq(S) /\ Held(s \o t) = Held(s) \cup Held(t)
<1>1. /\ s \o t \in Seq(S) /\ DOMAIN (s \o t) = 1..(Len(s) + Len(t)) /\ DOMAIN s = 1..Len(s) /\ DOMAIN t = 1..Len(t)
      /\ Len(s) \in Nat /\ Len(t) \in Nat
  OBVIOUS
<1>2. /\ \A i \in 1..Len(s) : (s \o t)[i] = s[i] /\ i \in 1..(Len(s) + Len(t))
      /\ \A i \in 1..Len(t) : (s \o t)[Len(s) + i] = t[i] /\ Len(s) + i \in 1..(Len(s) + Len(t))
  BY <1>1
<1>3. \A i \in 1..(Len(s) + Len(t)) : i \in 1..Len(s) \/ (i - Len(s) \in 1..Len(t) /\ i = Len(s) + (i - Len(s)))
  BY <1>1
<1>4. ASSUME NEW x \in Held(s \o t) PROVE x \in Held(s) \cup Held(t)
  <2>1. PICK i \in 1..(Len(s) + Len(t)) : x = (s \o t)[i]
    BY <1>1 DEF Held
  <2>2. CASE i \in 1..Len(s)
    BY <1>1, <1>2, <2>1, <2>2 DEF Held
  <2>3. CASE i \notin 1..Len(s)
    <3>1. PICK j \in 1..Len(t) : i = Len(s) + j
      BY <1>3, <2>3
    <3> QED BY <1>1, <1>2, <2>1, <3>1 DEF Held
  <2> QED BY <2>2, <2>3
<1>5. ASSUME NEW x \in Held(s) \cup Held(t) PROVE x \in Held(s \o t)
  BY <1>1, <1>2, <1>5 DEF Held
<1> QED BY <1>1, <1>4, <1>5

-----------------------------------------------------------------------------
(* Which steps touch what. *)

\* Each variable is touched by these actions only.
LEMMA Movers ==
  ASSUME Next
  PROVE  /\ UNCHANGED effect \/ (\E h \in Handler : Grant(h) \/ Reverse(h)) \/ \E u \in User : Erase(u)
         /\ UNCHANGED refunds \/ \E h \in Handler : Enter(h)
         /\ UNCHANGED <<charge, standing>>
            \/ (\E o \in Order : \/ AttachLink(o)
                                 \/ \E p \in Pay, s \in {"approved", "rejected"} : Charge(p, o, s)
                                 \/ \E s \in {"active", "paused", "defaulted", "cancelled", "finished"} : SubscriptionMoves(o, s))
            \/ (\E p \in Pay : \E s \in {"refunded", "chargeback"} : GiveBack(p, s))
            \/ (\E c \in Canceller : \E done, heard \in BOOLEAN : CancelAtRebill(c, done, heard))
         /\ UNCHANGED checkout \/ (\E o \in Order : CreateCheckout(o) \/ AttachLink(o))
            \/ (\E h \in Handler : Grant(h)) \/ \E u \in User : Erase(u)
         /\ UNCHANGED <<requested, erased, known>>
            \/ \E u \in User : Erase(u) \/ \E c \in Canceller : RequestDeletion(u, c)
         /\ UNCHANGED <<cancels, canceller>>
            \/ (\E u \in User : \E c \in Canceller : RequestDeletion(u, c))
            \/ \E c \in Canceller :
                 \/ ReadQueue(c) \/ RecordCancel(c) \/ CancellerDies(c)
                 \/ \E done, heard \in BOOLEAN : CancelAtRebill(c, done, heard)
         /\ UNCHANGED handler
            \/ \E h \in Handler :
                 \/ \E l \in DOMAIN log : Confirm(h, l)
                 \/ Enter(h) \/ Grant(h) \/ Reverse(h) \/ EnterSubscription(h) \/ WriteSubscription(h) \/ DropRequest(h)
         /\ UNCHANGED log
            \/ (\E o \in Order :
                 \/ \E p \in Pay, s \in {"approved", "rejected"} : Charge(p, o, s)
                 \/ \E s \in {"active", "paused", "defaulted", "cancelled", "finished"} : SubscriptionMoves(o, s))
            \/ (\E p \in Pay : TellAgain(p) \/ \E s \in {"refunded", "chargeback"} : GiveBack(p, s))
            \/ (\E h \in Handler : Enter(h) \/ Grant(h) \/ Reverse(h) \/ EnterSubscription(h) \/ WriteSubscription(h))
         /\ UNCHANGED now \/ Tick
         /\ UNCHANGED <<sub, ent>>
            \/ (\E o \in Order : GrantRun(o))
            \/ (\E h \in Handler : Enter(h) \/ Grant(h) \/ Reverse(h) \/ WriteSubscription(h))
            \/ \E u \in User : Erase(u) \/ \E c \in Canceller : RequestDeletion(u, c)
<1>1. CASE Tick
  <2>1. UNCHANGED <<effect, refunds, charge, standing, checkout, requested, erased, known, cancels, canceller, handler, log, sub, ent>>
    BY <1>1 DEF Tick, tables, rebill
  <2> QED BY <1>1, <2>1
<1>2. CASE \E o \in Order : GrantRun(o)
  <2>1. UNCHANGED <<effect, refunds, charge, standing, checkout, requested, erased, known, cancels, canceller, handler, log, now>>
    BY <1>2 DEF GrantRun, rebill
  <2> QED BY <1>2, <2>1
<1>3. CASE \E o \in Order : CreateCheckout(o)
  <2>1. UNCHANGED <<effect, refunds, charge, standing, requested, erased, known, cancels, canceller, handler, log, now, sub, ent>>
    BY <1>3 DEF CreateCheckout, rebill
  <2> QED BY <1>3, <2>1
<1>4. CASE \E o \in Order : AttachLink(o)
  <2>1. UNCHANGED <<effect, refunds, requested, erased, known, cancels, canceller, handler, log, now, sub, ent>>
    BY <1>4 DEF AttachLink
  <2> QED BY <1>4, <2>1
<1>5. CASE \E o \in Order : \E p \in Pay, s \in {"approved", "rejected"} : Charge(p, o, s)
  <2>1. UNCHANGED <<effect, refunds, checkout, requested, erased, known, cancels, canceller, handler, now, sub, ent>>
    BY <1>5 DEF Charge, tables
  <2> QED BY <1>5, <2>1
<1>6. CASE \E o \in Order : \E s \in {"active", "paused", "defaulted", "cancelled", "finished"} : SubscriptionMoves(o, s)
  <2>1. UNCHANGED <<effect, refunds, checkout, requested, erased, known, cancels, canceller, handler, now, sub, ent>>
    BY <1>6 DEF SubscriptionMoves, tables
  <2> QED BY <1>6, <2>1
<1>7. CASE \E p \in Pay : TellAgain(p)
  <2>1. UNCHANGED <<effect, refunds, charge, standing, checkout, requested, erased, known, cancels, canceller, handler, now, sub, ent>>
    BY <1>7 DEF TellAgain, tables, rebill
  <2> QED BY <1>7, <2>1
<1>8. CASE \E p \in Pay : \E s \in {"refunded", "chargeback"} : GiveBack(p, s)
  <2>1. UNCHANGED <<effect, refunds, checkout, requested, erased, known, cancels, canceller, handler, now, sub, ent>>
    BY <1>8 DEF GiveBack, tables
  <2> QED BY <1>8, <2>1
<1>9. CASE \E h \in Handler : \E l \in DOMAIN log : Confirm(h, l)
  <2>1. UNCHANGED <<effect, refunds, charge, standing, checkout, requested, erased, known, cancels, canceller, log, now, sub, ent>>
    BY <1>9 DEF Confirm, tables, rebill
  <2> QED BY <1>9, <2>1
<1>10. CASE \E h \in Handler : Enter(h)
  <2>1. PICK h \in Handler : Enter(h)
    BY <1>10
  <2>2. UNCHANGED <<now, requested, erased, checkout, ent, effect, keys, known, cancels, rebill, canceller>>
    BY <2>1, Zenon DEF Enter
  <2>3. UNCHANGED <<effect, charge, standing, checkout, requested, erased, known, cancels, canceller, now>>
    BY <2>2 DEF rebill
  <2> QED BY <1>10, <2>3
<1>11. CASE \E h \in Handler : Grant(h)
  <2>1. PICK h \in Handler : Grant(h)
    BY <1>11
  <2>2. UNCHANGED <<now, requested, erased, known, refunds, cancels, rebill, canceller>>
    BY <2>1, Zenon DEF Grant
  <2>3. UNCHANGED <<refunds, charge, standing, requested, erased, known, cancels, canceller, now>>
    BY <2>2 DEF rebill
  <2> QED BY <1>11, <2>3
<1>12. CASE \E h \in Handler : Reverse(h)
  <2>1. PICK h \in Handler : Reverse(h)
    BY <1>12
  <2>2. UNCHANGED <<now, requested, erased, checkout, known, refunds, cancels, rebill, canceller>>
    BY <2>1, Zenon DEF Reverse
  <2>3. UNCHANGED <<refunds, charge, standing, checkout, requested, erased, known, cancels, canceller, now>>
    BY <2>2 DEF rebill
  <2> QED BY <1>12, <2>3
<1>13. CASE \E h \in Handler : EnterSubscription(h)
  <2>1. UNCHANGED <<effect, refunds, charge, standing, checkout, requested, erased, known, cancels, canceller, now, sub, ent>>
    BY <1>13 DEF EnterSubscription, tables, rebill
  <2> QED BY <1>13, <2>1
<1>14. CASE \E h \in Handler : WriteSubscription(h)
  <2>1. UNCHANGED <<effect, refunds, charge, standing, checkout, requested, erased, known, cancels, canceller, now>>
    BY <1>14 DEF WriteSubscription, rebill
  <2> QED BY <1>14, <2>1
<1>15. CASE \E h \in Handler : DropRequest(h)
  <2>1. UNCHANGED <<effect, refunds, charge, standing, checkout, requested, erased, known, cancels, canceller, log, now, sub, ent>>
    BY <1>15 DEF DropRequest, tables, rebill
  <2> QED BY <1>15, <2>1
<1>16. CASE \E u \in User : Erase(u)
  <2>1. UNCHANGED <<refunds, charge, standing, cancels, canceller, handler, log, now>>
    BY <1>16 DEF Erase, rebill
  <2> QED BY <1>16, <2>1
<1>17. CASE \E u \in User : \E c \in Canceller : RequestDeletion(u, c)
  <2>1. UNCHANGED <<effect, refunds, charge, standing, checkout, handler, log, now>>
    BY <1>17 DEF RequestDeletion, rebill
  <2> QED BY <1>17, <2>1
<1>18. CASE \E c \in Canceller : ReadQueue(c)
  <2>1. UNCHANGED <<effect, refunds, charge, standing, checkout, requested, erased, known, handler, log, now, sub, ent>>
    BY <1>18 DEF ReadQueue, tables, rebill
  <2> QED BY <1>18, <2>1
<1>19. CASE \E c \in Canceller : RecordCancel(c)
  <2>1. UNCHANGED <<effect, refunds, charge, standing, checkout, requested, erased, known, handler, log, now, sub, ent>>
    BY <1>19 DEF RecordCancel, rebill
  <2> QED BY <1>19, <2>1
<1>20. CASE \E c \in Canceller : CancellerDies(c)
  <2>1. UNCHANGED <<effect, refunds, charge, standing, checkout, requested, erased, known, handler, log, now, sub, ent>>
    BY <1>20 DEF CancellerDies, tables, rebill
  <2> QED BY <1>20, <2>1
<1>21. CASE \E c \in Canceller : \E done, heard \in BOOLEAN : CancelAtRebill(c, done, heard)
  <2>1. UNCHANGED <<effect, refunds, checkout, requested, erased, known, handler, log, now, sub, ent>>
    BY <1>21 DEF CancelAtRebill, tables
  <2> QED BY <1>21, <2>1
<1> QED BY <1>1, <1>2, <1>3, <1>4, <1>5, <1>6, <1>7, <1>8, <1>9, <1>10, <1>11, <1>12, <1>13, <1>14, <1>15, <1>16, <1>17, <1>18, <1>19, <1>20, <1>21 DEF Next

-----------------------------------------------------------------------------
(* What the steps leave of the rows they write. *)

\* What a request that is about to read or write has before it.
LEMMA AtWork ==
  ASSUME Shapes, Wired, NEW h \in Handler, handler[h].pc # "idle"
  PROVE  /\ handler[h].log \in DOMAIN log /\ LogOf(h) \in Logs
         /\ LogOf(h).kind = "payment" => /\ LogOf(h).ref \in Pay /\ charge[LogOf(h).ref].status # "none"
                                        /\ charge[LogOf(h).ref].order \in Order
                                        /\ standing[charge[LogOf(h).ref].order] # "none"
         /\ LogOf(h).kind = "subscription" => LogOf(h).ref \in Order
<1>1. handler[h].log \in DOMAIN log
  BY DEF Wired
<1>2. LogOf(h) \in Logs
  BY <1>1 DEF Shapes, Webhooks, LogOf
<1>3. LogOf(h).kind = "payment" => LogOf(h).ref \in Pay /\ charge[LogOf(h).ref].status # "none"
  BY <1>1 DEF Wired, IsPayment, LogOf
<1>4. LogOf(h).kind = "subscription" => LogOf(h).ref \in Order
  BY <1>1 DEF Wired, IsPayment, LogOf
<1>5. \A p \in Pay : charge[p].status # "none" => charge[p].order \in Order /\ standing[charge[p].order] # "none"
  BY DEF Wired
<1> QED BY <1>1, <1>2, <1>3, <1>4, <1>5

\* A result is recorded in one log, and nothing else of the logs changes.
LEMMA Recorded ==
  ASSUME log \in Seq(Logs), NEW l \in DOMAIN log, NEW r \in Results, Record(l, r)
  PROVE  /\ log' \in Seq(Logs) /\ DOMAIN log' = DOMAIN log
         /\ \A k \in DOMAIN log : log'[k].kind = log[k].kind /\ log'[k].ref = log[k].ref
         /\ \A k \in DOMAIN log : k # l => log'[k] = log[k]
         /\ log'[l].result = r
<1>1. log' = [log EXCEPT ![l] = [@ EXCEPT !.result = r]] /\ log[l] \in Logs
  BY DEF Record
<1>2. [log[l] EXCEPT !.result = r] \in Logs
  BY <1>1 DEF Logs
<1>3. /\ [log[l] EXCEPT !.result = r].kind = log[l].kind /\ [log[l] EXCEPT !.result = r].ref = log[l].ref
      /\ [log[l] EXCEPT !.result = r].result = r
  BY <1>1 DEF Logs
<1>4. PICK n \in Logs : /\ log' = [log EXCEPT ![l] = n] /\ n.kind = log[l].kind /\ n.ref = log[l].ref
                        /\ n.result = r
  BY <1>1, <1>2, <1>3
<1>5. log' \in Seq(Logs)
  BY <1>4
<1>6. DOMAIN log' = DOMAIN log /\ \A k \in DOMAIN log : log'[k] = IF k = l THEN n ELSE log[k]
  BY <1>4
<1> QED BY <1>4, <1>5, <1>6

\* A log that Rebill sends is the last, without a result.
LEMMA Sent ==
  ASSUME log \in Seq(Logs), NEW kind \in {"payment", "subscription"}, NEW ref \in Pay \cup Order, Sends(kind, ref)
  PROVE  /\ log' \in Seq(Logs) /\ DOMAIN log' = 1..(Len(log) + 1) /\ DOMAIN log = 1..Len(log)
         /\ \A k \in DOMAIN log : log'[k] = log[k]
         /\ log'[Len(log) + 1] = [kind |-> kind, ref |-> ref, result |-> "none"]
<1>1. [kind |-> kind, ref |-> ref, result |-> "none"] \in Logs
  BY DEF Logs, Results
<1> QED BY <1>1 DEF Sends

\* A grant writes an effect of its payment, on the order that was charged.
LEMMA GrantedEffect ==
  ASSUME Shapes, Wired, NEW h \in Handler, Grant(h)
  PROVE  /\ LogOf(h).ref \in Pay
         /\ \E d : /\ DOMAIN d = EffectFields /\ d.state = "granted" /\ d.order = charge[LogOf(h).ref].order
                 /\ effect' = [effect EXCEPT ![LogOf(h).ref] = d]
<1> DEFINE p == LogOf(h).ref
           o == charge[p].order
<1>1. p \in Pay
  BY Zenon, AtWork DEF Grant, LogOf
<1>2. CASE ~IsPlan(o)
  <2> DEFINE d == [NoEffect EXCEPT !.state = "granted", !.order = o]
  <2>1. effect' = [effect EXCEPT ![p] = d]
    BY Zenon, <1>2 DEF Grant, LogOf
  <2>2. DOMAIN d = EffectFields /\ d.state = "granted" /\ d.order = o
    BY DEF NoEffect, EffectFields
  <2> HIDE DEF d
  <2> QED BY Zenon, <1>1, <2>1, <2>2
<1>3. CASE IsPlan(o)
  <2> DEFINE e == Window(handler[h].ent, o)
             d == [state |-> "granted", order |-> o, start |-> e.expires - Length(o), end |-> e.expires,
                   key |-> OwnKey(o, e)]
  <2>1. effect' = [effect EXCEPT ![p] = d]
    BY Zenon, <1>3 DEF Grant, LogOf
  <2>2. DOMAIN d = EffectFields /\ d.state = "granted" /\ d.order = o
    BY DEF EffectFields
  <2> HIDE DEF d
  <2> QED BY Zenon, <1>1, <2>1, <2>2
<1> QED BY <1>2, <1>3

\* What a refund or a chargeback leaves of the effects: its own is revoked, and of the
\* others neither the state nor the order changes.
LEMMA ShiftedKeeps ==
  ASSUME Rows, NEW p, NEW x
  PROVE  /\ DOMAIN Shifted(p, x) = Pay
         /\ \A q \in Pay : /\ DOMAIN Shifted(p, x)[q] = EffectFields
                           /\ Shifted(p, x)[q].state = effect[q].state /\ Shifted(p, x)[q].order = effect[q].order
<1>1. DOMAIN Shifted(p, x) = Pay
  BY DEF Shifted, MovedUp, Current
<1>2. ASSUME NEW q \in Pay
      PROVE  /\ DOMAIN Shifted(p, x)[q] = EffectFields
             /\ Shifted(p, x)[q].state = effect[q].state /\ Shifted(p, x)[q].order = effect[q].order
  <2>1. DOMAIN effect[q] = EffectFields
    BY DEF Rows
  <2>2. \/ Shifted(p, x)[q] = effect[q]
        \/ Shifted(p, x)[q] = [effect[q] EXCEPT !.start = @ - (x.end - x.start), !.end = @ - (x.end - x.start)]
    BY DEF Shifted, MovedUp, Current
  <2>3. CASE Shifted(p, x)[q] = effect[q]
    BY <2>1, <2>3
  <2>4. CASE Shifted(p, x)[q] = [effect[q] EXCEPT !.start = @ - (x.end - x.start), !.end = @ - (x.end - x.start)]
    BY <2>1, <2>4 DEF EffectFields
  <2> QED BY <2>2, <2>3, <2>4
<1> QED BY <1>1, <1>2

\* Dealing the periods out again changes nothing but the keys.
LEMMA RenumberedKeeps ==
  ASSUME NEW f, \A q \in Pay : DOMAIN f[q] = EffectFields, NEW p, NEW o, NEW e
  PROVE  /\ DOMAIN Renumbered(f, p, o, e) = Pay
         /\ \A q \in Pay : /\ DOMAIN Renumbered(f, p, o, e)[q] = EffectFields
                           /\ Renumbered(f, p, o, e)[q].state = f[q].state
                           /\ Renumbered(f, p, o, e)[q].order = f[q].order
<1>1. DOMAIN Renumbered(f, p, o, e) = Pay
  BY DEF Renumbered
<1>2. ASSUME NEW q \in Pay
      PROVE  /\ DOMAIN Renumbered(f, p, o, e)[q] = EffectFields
             /\ Renumbered(f, p, o, e)[q].state = f[q].state
             /\ Renumbered(f, p, o, e)[q].order = f[q].order
  <2>1. \E k : Renumbered(f, p, o, e)[q] = f[q] \/ Renumbered(f, p, o, e)[q] = [f[q] EXCEPT !.key = k]
    BY DEF Renumbered
  <2>2. PICK k : Renumbered(f, p, o, e)[q] = f[q] \/ Renumbered(f, p, o, e)[q] = [f[q] EXCEPT !.key = k]
    BY <2>1
  <2> QED BY <2>2 DEF EffectFields
<1> QED BY <1>1, <1>2

\* A reversal revokes the effect of its own payment, and others keep state and
\* checkout.
LEMMA ReversedEffect ==
  ASSUME Shapes, Wired, NEW h \in Handler, Reverse(h)
  PROVE  /\ DOMAIN effect' = Pay /\ LogOf(h).ref \in Pay
         /\ \A q \in Pay : /\ DOMAIN effect'[q] = EffectFields /\ effect'[q].order = effect[q].order
                           /\ effect'[q].state = IF q = LogOf(h).ref THEN "revoked" ELSE effect[q].state
<1> DEFINE c == handler[h]
           x == c.effect
           o == x.order
           p == LogOf(h).ref
           whole == c.status = "chargeback" \/ o \in Annual
           f == IF IsPlan(o) /\ ~whole THEN Shifted(p, x) ELSE effect
           g == [f EXCEPT ![p].state = "revoked"]
           Kept(e) == /\ DOMAIN e = Pay
                      /\ \A q \in Pay : /\ DOMAIN e[q] = EffectFields /\ e[q].order = effect[q].order
                                        /\ e[q].state = IF q = p THEN "revoked" ELSE effect[q].state
<1>1. p \in Pay
  BY Zenon, AtWork DEF Reverse, LogOf
<1>2. effect' = g \/ \E e : effect' = Renumbered(g, p, o, e)
  BY Zenon DEF Reverse, LogOf
<1>3. DOMAIN f = Pay /\ \A q \in Pay : DOMAIN f[q] = EffectFields /\ f[q].state = effect[q].state /\ f[q].order = effect[q].order
  BY ShiftedKeeps DEF Shapes, Rows
<1> HIDE DEF f
<1>4. Kept(g)
  <2>1. g = [f EXCEPT ![p] = [f[p] EXCEPT !.state = "revoked"]]
    BY <1>1, <1>3
  <2>2. DOMAIN g = Pay
    BY <2>1, <1>3
  <2>3. \A q \in Pay : q # p => g[q] = f[q]
    BY <2>1, <1>3
  <2>4. g[p] = [f[p] EXCEPT !.state = "revoked"] /\ DOMAIN f[p] = EffectFields /\ f[p].order = effect[p].order
    BY <2>1, <1>1, <1>3
  <2>5. DOMAIN g[p] = EffectFields /\ g[p].order = effect[p].order /\ g[p].state = "revoked"
    BY <2>4 DEF EffectFields
  <2> HIDE DEF g
  <2> QED BY <2>2, <2>3, <2>5, <1>3
<1> HIDE DEF g
<1>5. \A e : Kept(Renumbered(g, p, o, e))
  BY <1>4, RenumberedKeeps
<1>6. Kept(effect')
  BY <1>2, <1>4, <1>5
<1> QED BY <1>1, <1>6

-----------------------------------------------------------------------------
(* Every step keeps the shapes. *)

\* Accounts, checkouts and what Rebill has keep their types.
LEMMA FactsStep == ASSUME Shapes, Wired, Next PROVE Facts'
<1> USE DEF Shapes
<1>1. now' \in Nat
  BY Movers DEF Facts, Tick
<1>2. requested' \in [User -> Nat \cup {None}] /\ erased' \subseteq User /\ known' \subseteq Order
  <2>1. CASE UNCHANGED <<requested, erased, known>>
    BY <2>1 DEF Facts
  <2>2. ASSUME NEW u \in User, Erase(u) PROVE <1>2
    BY <2>2 DEF Erase, Facts, OrdersOf
  <2>3. ASSUME NEW u \in User, NEW c \in Canceller, RequestDeletion(u, c) PROVE <1>2
    BY <2>3 DEF RequestDeletion, Facts, OrdersOf
  <2> QED BY <2>1, <2>2, <2>3, Movers
<1>3. checkout' \in [Order -> {"none", "pending", "open", "completed"}]
  <2>1. ASSUME NEW o \in Order, CreateCheckout(o) \/ AttachLink(o) PROVE <1>3
    BY <2>1 DEF CreateCheckout, AttachLink, Facts
  <2>2. ASSUME NEW h \in Handler, Grant(h) PROVE <1>3
    BY Zenon, <2>2 DEF Grant, Facts
  <2>3. ASSUME NEW u \in User, Erase(u) PROVE <1>3
    BY <2>3 DEF Erase, Facts
  <2> QED BY <2>1, <2>2, <2>3, Movers DEF Facts
<1>4. refunds' \subseteq Pay
  <2>1. ASSUME NEW h \in Handler, Enter(h) PROVE refunds' \subseteq Pay
    <3>1. LogOf(h).ref \in Pay
      BY ZenonT(30), <2>1, AtWork DEF Enter, LogOf
    <3>2. refunds' = refunds \/ refunds' = refunds \cup {LogOf(h).ref}
      BY <2>1 DEF Enter, LogOf
    <3> QED BY <3>1, <3>2 DEF Facts
  <2> QED BY <2>1, Movers DEF Facts
<1>5. /\ charge' \in [Pay -> [order : Order \cup {None},
                              status : {"none", "approved", "rejected", "refunded", "chargeback"}]]
      /\ standing' \in [Order -> Standings]
  <2>1. ASSUME NEW o \in Order, AttachLink(o) PROVE <1>5
    BY <2>1 DEF AttachLink, Facts, Standings
  <2>2. ASSUME NEW o \in Order, NEW p \in Pay, NEW s \in {"approved", "rejected"}, Charge(p, o, s) PROVE <1>5
    BY <2>2 DEF Charge, Facts, Standings
  <2>3. ASSUME NEW o \in Order, NEW s \in {"active", "paused", "defaulted", "cancelled", "finished"}, SubscriptionMoves(o, s)
        PROVE <1>5
    BY <2>3 DEF SubscriptionMoves, Facts, Standings
  <2>4. ASSUME NEW p \in Pay, NEW s \in {"refunded", "chargeback"}, GiveBack(p, s) PROVE <1>5
    BY <2>4 DEF GiveBack, Facts
  <2>5. ASSUME NEW c \in Canceller, NEW done \in BOOLEAN, NEW heard \in BOOLEAN, CancelAtRebill(c, done, heard)
        PROVE <1>5
    BY <2>5 DEF CancelAtRebill, Facts, Standings
  <2> QED BY <2>1, <2>2, <2>3, <2>4, <2>5, Movers DEF Facts
<1> QED BY <1>1, <1>2, <1>3, <1>4, <1>5 DEF Facts

\* The window that a slice or a plan leaves behind has the fields of one.
LEMMA AfterFields ==
  ASSUME NEW p, NEW x, NEW f, NEW s, DOMAIN ent[x.order] = EntFields
  PROVE  DOMAIN AfterSlice(p, x, f).ent = EntFields /\ DOMAIN AfterPlan(x, s).ent = EntFields
<1>1. DOMAIN AfterPlan(x, s).ent = EntFields
  BY DEF AfterPlan, Terminated
<1>2. ASSUME NEW v, NEW w PROVE DOMAIN [ent[x.order] EXCEPT !.expires = v, !.status = w] = EntFields
  OBVIOUS
<1>3. ASSUME NEW v PROVE DOMAIN [ent[x.order] EXCEPT !.expires = v] = EntFields
  OBVIOUS
<1>4. ASSUME NEW u, NEW v, NEW w PROVE DOMAIN [status |-> u, start |-> v, expires |-> w] = EntFields
  BY DEF EntFields
<1>5. DOMAIN AfterSlice(p, x, f).ent = EntFields
  BY <1>2, <1>3, <1>4 DEF AfterSlice, Cut, GoesOn, Later, Current
<1> QED BY <1>1, <1>5

\* Subscriptions, windows and effects keep their fields.
LEMMA RowsStep == ASSUME Shapes, Wired, Ready, Next PROVE Rows'
<1> USE DEF Shapes
<1> DEFINE Good(d) == DOMAIN d = EntFields
<1>0. Rows
  OBVIOUS
<1>1. DOMAIN sub' = Order
  <2>1. ASSUME NEW o \in Order, GrantRun(o) PROVE <1>1
    BY <2>1, <1>0 DEF GrantRun, Rows
  <2>2. ASSUME NEW h \in Handler, Enter(h) \/ WriteSubscription(h) PROVE <1>1
    BY Zenon, <2>2, <1>0 DEF Enter, WriteSubscription, Rows
  <2>3. ASSUME NEW h \in Handler, Grant(h) \/ Reverse(h) PROVE <1>1
    BY Zenon, <2>3, <1>0 DEF Grant, Reverse, Rows
  <2>4. ASSUME NEW u \in User, Erase(u) PROVE <1>1
    BY <2>4 DEF Erase
  <2>5. ASSUME NEW u \in User, NEW c \in Canceller, RequestDeletion(u, c) PROVE <1>1
    BY <2>5 DEF RequestDeletion
  <2> QED BY <1>0, <2>1, <2>2, <2>3, <2>4, <2>5, Movers DEF Rows
<1>2. DOMAIN ent' = Order /\ \A o \in Order : DOMAIN ent'[o] = EntFields
  <2>0. ASSUME NEW o \in Order, NEW d, DOMAIN d = EntFields, ent' = [ent EXCEPT ![o] = d] PROVE <1>2
    BY <1>0, <2>0 DEF Rows
  <2>a. UNCHANGED ent => <1>2
    BY <1>0 DEF Rows
  <2>1. ASSUME NEW o \in Order, GrantRun(o) PROVE <1>2
    <3>1. ent' = [ent EXCEPT ![o] = Lapsed(ent[o], now)]
      BY <2>1, <1>0 DEF GrantRun, Rows
    <3>2. DOMAIN Lapsed(ent[o], now) = EntFields
      BY <1>0 DEF Lapsed, Rows
    <3> QED BY Zenon, <3>1, <3>2, <2>0
  <2>2. ASSUME NEW h \in Handler, Enter(h) \/ WriteSubscription(h) PROVE <1>2
    BY Zenon, <2>2, <2>a DEF Enter, WriteSubscription
  <2>3. ASSUME NEW h \in Handler, Grant(h) PROVE <1>2
    <3> DEFINE o == charge[LogOf(h).ref].order
    <3>1. o \in Order
      BY Zenon, <2>3, AtWork DEF Grant, LogOf
    <3>2. UNCHANGED ent \/ ent' = [ent EXCEPT ![o] = Window(handler[h].ent, o)]
      BY Zenon, <2>3 DEF Grant, LogOf
    <3>3. DOMAIN Window(handler[h].ent, o) = EntFields
      BY DEF Window, Extended, EntFields
    <3> HIDE DEF o
    <3> QED BY <3>1, <3>2, <3>3, <2>0, <2>a
  <2>4. ASSUME NEW h \in Handler, Reverse(h) PROVE <1>2
    <3> DEFINE x == handler[h].effect
    <3>1. x.order \in Order
      BY Zenon, <2>4, AtWork DEF Reverse, LogOf, Ready, Entered
    <3>2. DOMAIN ent[x.order] = EntFields
      BY <1>0, <3>1 DEF Rows
    <3>3. \/ UNCHANGED ent
          \/ ent' = [ent EXCEPT ![x.order] = AfterPlan(x, handler[h].status).ent]
          \/ \E f : ent' = [ent EXCEPT ![x.order] = AfterSlice(LogOf(h).ref, x, f).ent]
      BY Zenon, <2>4 DEF Reverse, LogOf
    <3> HIDE DEF x
    <3> QED BY <3>1, <3>2, <3>3, <2>0, <2>a, AfterFields
  <2>5. ASSUME NEW u \in User, Erase(u) PROVE <1>2
    <3>1. DOMAIN NoEnt = EntFields
      BY DEF NoEnt, EntFields
    <3> QED BY <2>5, <3>1, <1>0 DEF Erase, Rows
  <2>6. ASSUME NEW u \in User, NEW c \in Canceller, RequestDeletion(u, c) PROVE <1>2
    BY <2>6, <2>a DEF RequestDeletion
  <2> QED BY <2>a, <2>1, <2>2, <2>3, <2>4, <2>5, <2>6, Movers
<1>3. DOMAIN effect' = Pay /\ \A p \in Pay : DOMAIN effect'[p] = EffectFields
  <2>1. ASSUME NEW h \in Handler, Grant(h) PROVE <1>3
    BY <2>1, <1>0, GrantedEffect DEF Rows
  <2>2. ASSUME NEW h \in Handler, Reverse(h) PROVE <1>3
    BY <2>2, ReversedEffect
  <2>3. ASSUME NEW u \in User, Erase(u) PROVE <1>3
    <3>1. DOMAIN NoEffect = EffectFields
      BY DEF NoEffect, EffectFields
    <3> QED BY <2>3, <3>1, <1>0 DEF Erase, Rows
  <2> QED BY <1>0, <2>1, <2>2, <2>3, Movers DEF Rows
<1> QED BY <1>1, <1>2, <1>3 DEF Rows

\* What is decided of a payment is a result, or that it is written later.
LEMMA VerdictResult == ASSUME NEW p, NEW s PROVE Verdict(p, s) \in Results \cup {"grant", "reverse"}
BY DEF Verdict, Results

\* The logs stay as they are but for their results; what Rebill sends is wired.
LEMMA LogMoves ==
  ASSUME Shapes, Wired, Next
  PROVE  /\ log' \in Seq(Logs)
         /\ \A k \in DOMAIN log : k \in DOMAIN log' /\ log'[k].kind = log[k].kind /\ log'[k].ref = log[k].ref
         /\ \A k \in DOMAIN log' : k \notin DOMAIN log =>
              /\ log'[k].result = "none"
              /\ IF log'[k].kind = "payment" THEN log'[k].ref \in Pay /\ charge'[log'[k].ref].status # "none"
                 ELSE log'[k].ref \in Order
         /\ \A k \in DOMAIN log :
              \/ log'[k] = log[k]
              \/ \E h \in Handler : /\ handler[h].log = k /\ handler[h].pc # "idle" /\ handler'[h].pc = "idle"
                                    /\ Entered(h) \/ LocksFree(h)
<1> USE DEF Shapes, Webhooks
<1>0. log \in Seq(Logs) /\ charge' \in [Pay -> [order : Order \cup {None},
                              status : {"none", "approved", "rejected", "refunded", "chargeback"}]]
  BY FactsStep DEF Facts
<1> DEFINE Goal == /\ log' \in Seq(Logs)
                   /\ \A k \in DOMAIN log : k \in DOMAIN log' /\ log'[k].kind = log[k].kind /\ log'[k].ref = log[k].ref
                   /\ \A k \in DOMAIN log' : k \notin DOMAIN log =>
                        /\ log'[k].result = "none"
                        /\ IF log'[k].kind = "payment" THEN log'[k].ref \in Pay /\ charge'[log'[k].ref].status # "none"
                           ELSE log'[k].ref \in Order
                   /\ \A k \in DOMAIN log :
                        \/ log'[k] = log[k]
                        \/ \E h \in Handler : /\ handler[h].log = k /\ handler[h].pc # "idle" /\ handler'[h].pc = "idle"
                                              /\ Entered(h) \/ LocksFree(h)
<1>a. UNCHANGED log => Goal
  BY <1>0
<1>b. ASSUME NEW p \in Pay, Sends("payment", p), charge'[p].status # "none" PROVE Goal
  <2>1. /\ log' \in Seq(Logs) /\ DOMAIN log' = 1..(Len(log) + 1) /\ DOMAIN log = 1..Len(log)
        /\ \A k \in DOMAIN log : log'[k] = log[k]
        /\ log'[Len(log) + 1] = [kind |-> "payment", ref |-> p, result |-> "none"]
    BY <1>0, <1>b, Sent
  <2>2. \A k \in DOMAIN log' : k \in DOMAIN log \/ k = Len(log) + 1
    BY <2>1, <1>0
  <2>3. \A k \in DOMAIN log : k \in DOMAIN log'
    BY <2>1, <1>0
  <2> QED BY <1>b, <2>1, <2>2, <2>3
<1>c. ASSUME NEW o \in Order, Sends("subscription", o) PROVE Goal
  <2>1. /\ log' \in Seq(Logs) /\ DOMAIN log' = 1..(Len(log) + 1) /\ DOMAIN log = 1..Len(log)
        /\ \A k \in DOMAIN log : log'[k] = log[k]
        /\ log'[Len(log) + 1] = [kind |-> "subscription", ref |-> o, result |-> "none"]
    BY <1>0, <1>c, Sent
  <2>2. \A k \in DOMAIN log' : k \in DOMAIN log \/ k = Len(log) + 1
    BY <2>1, <1>0
  <2>3. \A k \in DOMAIN log : k \in DOMAIN log'
    BY <2>1, <1>0
  <2> QED BY <2>1, <2>2, <2>3
<1>d. ASSUME NEW h \in Handler, handler[h].pc # "idle", Entered(h) \/ LocksFree(h),
             NEW r \in Results, Record(handler[h].log, r), Becomes(h, Quiet)
      PROVE  Goal
  <2>1. handler[h].log \in DOMAIN log
    BY <1>d DEF Wired
  <2>2. /\ log' \in Seq(Logs) /\ DOMAIN log' = DOMAIN log
        /\ \A k \in DOMAIN log : log'[k].kind = log[k].kind /\ log'[k].ref = log[k].ref
        /\ \A k \in DOMAIN log : k # handler[h].log => log'[k] = log[k]
    BY <1>0, <1>d, <2>1, Recorded
  <2>3. handler'[h].pc = "idle"
    BY <1>d DEF Becomes, Quiet
  <2> QED BY <1>d, <2>2, <2>3
<1> SUFFICES Goal
  OBVIOUS
<1> HIDE DEF Goal
<1>1. ASSUME NEW o \in Order, NEW p \in Pay, NEW s \in {"approved", "rejected"}, Charge(p, o, s) PROVE Goal
  <2>1. charge'[p].status = s
    BY <1>0, <1>1 DEF Charge, Facts
  <2> QED BY <1>1, <1>b, <2>1 DEF Charge
<1>2. ASSUME NEW o \in Order, NEW s \in {"active", "paused", "defaulted", "cancelled", "finished"}, SubscriptionMoves(o, s)
      PROVE  Goal
  BY <1>2, <1>c DEF SubscriptionMoves
<1>3. ASSUME NEW p \in Pay, TellAgain(p) PROVE Goal
  BY <1>3, <1>b DEF TellAgain, rebill
<1>4. ASSUME NEW p \in Pay, NEW s \in {"refunded", "chargeback"}, GiveBack(p, s) PROVE Goal
  <2>1. charge'[p].status = s
    BY <1>4 DEF GiveBack, Facts
  <2> QED BY <1>4, <1>b, <2>1 DEF GiveBack
<1>5. ASSUME NEW h \in Handler, Enter(h) PROVE Goal
  <2>1. CASE UNCHANGED log
    BY <2>1, <1>a
  <2>2. CASE ~UNCHANGED log
    <3> DEFINE v == Verdict(LogOf(h).ref, handler[h].status)
    <3>1. v \notin {"grant", "reverse"} /\ Record(handler[h].log, v) /\ Becomes(h, Quiet)
      BY <1>5, <2>2 DEF Enter, LogOf
    <3>2. v \in Results
      BY SMTT(30), <3>1, VerdictResult
    <3>3. handler[h].pc # "idle" /\ LocksFree(h)
      BY <1>5 DEF Enter
    <3> HIDE DEF v
    <3> QED BY SMTT(30), <3>1, <3>2, <3>3, <1>d
  <2> QED BY <2>1, <2>2
<1>6. ASSUME NEW h \in Handler, Grant(h) \/ Reverse(h) \/ WriteSubscription(h) PROVE Goal
  <2>1. Entered(h) /\ handler[h].pc # "idle" /\ Becomes(h, Quiet)
    BY Zenon, <1>6 DEF Grant, Reverse, WriteSubscription, Entered
  <2>2. \E r \in Results : Record(handler[h].log, r)
    BY Zenon, <1>6 DEF Grant, Reverse, WriteSubscription, Results
  <2> QED BY <2>1, <2>2, <1>d
<1>7. ASSUME NEW h \in Handler, EnterSubscription(h) PROVE Goal
  <2>1. handler[h].pc # "idle" /\ LocksFree(h)
    BY <1>7 DEF EnterSubscription
  <2>2. UNCHANGED log \/ \E r \in Results : Record(handler[h].log, r) /\ Becomes(h, Quiet)
    BY <1>7 DEF EnterSubscription, Results
  <2> QED BY <2>1, <2>2, <1>a, <1>d
<1> QED BY <1>a, <1>1, <1>2, <1>3, <1>4, <1>5, <1>6, <1>7, Movers

\* One handler moves at a time: it comes to its end, reads a log, or enters with the locks.
LEMMA HandlerMoves ==
  ASSUME Shapes, Next
  PROVE  \/ UNCHANGED handler
         \/ \E h \in Handler :
              /\ DOMAIN handler' = Handler /\ DOMAIN handler'[h] = HandlerFields
              /\ \A g \in Handler : g # h => handler'[g] = handler[g]
              /\ \/ handler'[h] = Quiet
                 \/ handler'[h].pc = "confirmed" /\ handler'[h].log \in DOMAIN log
                 \/ /\ handler'[h].pc = "entered" /\ handler'[h].log = handler[h].log
                    /\ handler[h].pc = "confirmed" /\ LocksFree(h) /\ LogOf(h).result = "none"
                    /\ UNCHANGED log
<1> DEFINE Moves(h) ==
              /\ DOMAIN handler' = Handler /\ DOMAIN handler'[h] = HandlerFields
              /\ \A g \in Handler : g # h => handler'[g] = handler[g]
              /\ \/ handler'[h] = Quiet
                 \/ handler'[h].pc = "confirmed" /\ handler'[h].log \in DOMAIN log
                 \/ /\ handler'[h].pc = "entered" /\ handler'[h].log = handler[h].log
                    /\ handler[h].pc = "confirmed" /\ LocksFree(h) /\ LogOf(h).result = "none"
                    /\ UNCHANGED log
<1>0. DOMAIN handler = Handler /\ \A h \in Handler : DOMAIN handler[h] = HandlerFields
  BY DEF Shapes, Webhooks
<1>a. ASSUME NEW h \in Handler, NEW c, Becomes(h, c)
      PROVE  DOMAIN handler' = Handler /\ handler'[h] = c /\ \A g \in Handler : g # h => handler'[g] = handler[g]
  BY <1>0, <1>a DEF Becomes
<1>b. DOMAIN Quiet = HandlerFields
  BY DEF Quiet, HandlerFields
<1>c. ASSUME NEW h \in Handler, Becomes(h, Quiet) PROVE Moves(h)
  BY <1>a, <1>b, <1>c
<1>1. ASSUME NEW h \in Handler, NEW l \in DOMAIN log, Confirm(h, l) PROVE Moves(h)
  <2>1. PICK s : Becomes(h, [Quiet EXCEPT !.pc = "confirmed", !.log = l, !.status = s])
    BY Zenon, <1>1 DEF Confirm
  <2> DEFINE c == [Quiet EXCEPT !.pc = "confirmed", !.log = l, !.status = s]
  <2>2. c.pc = "confirmed" /\ c.log = l /\ DOMAIN c = HandlerFields
    BY <1>b DEF HandlerFields
  <2> HIDE DEF c
  <2> QED BY <1>a, <2>1, <2>2 DEF c
<1>2. ASSUME NEW h \in Handler, Enter(h) PROVE Moves(h)
  <2>1. CASE Becomes(h, Quiet)
    BY <2>1, <1>c
  <2>2. CASE ~Becomes(h, Quiet)
    <3>1. /\ handler[h].pc = "confirmed" /\ LocksFree(h) /\ LogOf(h).result = "none" /\ UNCHANGED log
          /\ \E e, f : Becomes(h, [handler[h] EXCEPT !.pc = "entered", !.ent = e, !.effect = f])
      BY Zenon, <1>2, <2>2 DEF Enter, LogOf
    <3>2. PICK e, f : Becomes(h, [handler[h] EXCEPT !.pc = "entered", !.ent = e, !.effect = f])
      BY Zenon, <3>1
    <3> DEFINE c == [handler[h] EXCEPT !.pc = "entered", !.ent = e, !.effect = f]
    <3>3. c.pc = "entered" /\ c.log = handler[h].log /\ DOMAIN c = HandlerFields
      BY <1>0 DEF HandlerFields
    <3>4. handler'[h] = c
      BY <1>a, <3>2
    <3>5. DOMAIN handler' = Handler /\ \A g \in Handler : g # h => handler'[g] = handler[g]
      BY <1>a, <3>2
    <3> HIDE DEF c
    <3> QED BY <3>1, <3>3, <3>4, <3>5
  <2> QED BY <2>1, <2>2
<1>3. ASSUME NEW h \in Handler, EnterSubscription(h) PROVE Moves(h)
  <2>1. CASE Becomes(h, Quiet)
    BY <2>1, <1>c
  <2>2. CASE ~Becomes(h, Quiet)
    <3>1. /\ handler[h].pc = "confirmed" /\ LocksFree(h) /\ LogOf(h).result = "none" /\ UNCHANGED log
          /\ \E s : Becomes(h, [handler[h] EXCEPT !.pc = "entered", !.status = s])
      BY Zenon, <1>3, <2>2 DEF EnterSubscription, LogOf
    <3>2. PICK s : Becomes(h, [handler[h] EXCEPT !.pc = "entered", !.status = s])
      BY Zenon, <3>1
    <3> DEFINE c == [handler[h] EXCEPT !.pc = "entered", !.status = s]
    <3>3. c.pc = "entered" /\ c.log = handler[h].log /\ DOMAIN c = HandlerFields
      BY <1>0 DEF HandlerFields
    <3>4. handler'[h] = c
      BY <1>a, <3>2
    <3>5. DOMAIN handler' = Handler /\ \A g \in Handler : g # h => handler'[g] = handler[g]
      BY <1>a, <3>2
    <3> HIDE DEF c
    <3> QED BY <3>1, <3>3, <3>4, <3>5
  <2> QED BY <2>1, <2>2
<1>4. ASSUME NEW h \in Handler, Grant(h) \/ Reverse(h) \/ WriteSubscription(h) \/ DropRequest(h) PROVE Moves(h)
  BY Zenon, <1>4, <1>c DEF Grant, Reverse, WriteSubscription, DropRequest
<1> HIDE DEF Moves
<1>5. UNCHANGED handler \/ \E h \in Handler : Moves(h)
  BY <1>1, <1>2, <1>3, <1>4, Movers
<1> QED BY <1>5 DEF Moves

\* Logs keep their types, handlers their fields.
LEMMA WebhooksStep == ASSUME Shapes, Wired, Next PROVE Webhooks'
<1>1. log' \in Seq(Logs)
  BY LogMoves
<1>2. DOMAIN handler = Handler /\ \A h \in Handler : DOMAIN handler[h] = HandlerFields
  BY DEF Shapes, Webhooks
<1>3. DOMAIN handler' = Handler /\ \A h \in Handler : DOMAIN handler'[h] = HandlerFields
  BY <1>2, HandlerMoves
<1> QED BY <1>1, <1>3 DEF Webhooks

-----------------------------------------------------------------------------
(* What stays: what Rebill has, and that an account is closed for payment. *)

\* What Rebill has of a checkout begins as its link and never goes; a cancel is for good.
LEMMA StandingMoves ==
  ASSUME Shapes, Checkouts, CancelsTrue, Next, NEW o \in Order
  PROVE  \/ standing'[o] = standing[o]
         \/ AttachLink(o) /\ standing'[o] = "link" /\ checkout[o] = "pending" /\ standing[o] = "none"
         \/ /\ standing[o] # "none" /\ standing'[o] # "none"
            /\ standing[o] = "cancelled" => standing'[o] = "cancelled"
<1> DEFINE Goal == \/ standing'[o] = standing[o]
                   \/ AttachLink(o) /\ standing'[o] = "link" /\ checkout[o] = "pending" /\ standing[o] = "none"
                   \/ /\ standing[o] # "none" /\ standing'[o] # "none"
                      /\ standing[o] = "cancelled" => standing'[o] = "cancelled"
<1>0. DOMAIN standing = Order
  BY DEF Shapes, Facts
<1>1. ASSUME NEW q \in Order, AttachLink(q) PROVE Goal
  <2>1. checkout[q] = "pending" /\ standing' = [standing EXCEPT ![q] = "link"]
    BY <1>1 DEF AttachLink
  <2>2. standing[q] = "none"
    BY <2>1 DEF Checkouts
  <2>3. q # o => standing'[o] = standing[o]
    BY <2>1, <1>0
  <2>4. q = o => AttachLink(o) /\ standing'[o] = "link"
    BY <1>1, <2>1, <1>0
  <2> QED BY <2>1, <2>2, <2>3, <2>4
<1>2. ASSUME NEW q \in Order, NEW p \in Pay, NEW s \in {"approved", "rejected"}, Charge(p, q, s) PROVE Goal
  BY <1>0, <1>2 DEF Charge
<1>3. ASSUME NEW q \in Order, NEW s \in {"active", "paused", "defaulted", "cancelled", "finished"}, SubscriptionMoves(q, s)
      PROVE  Goal
  BY <1>0, <1>3 DEF SubscriptionMoves
<1>4. ASSUME NEW p \in Pay, NEW s \in {"refunded", "chargeback"}, GiveBack(p, s) PROVE Goal
  BY <1>4 DEF GiveBack
<1>5. ASSUME NEW c \in Canceller, NEW done \in BOOLEAN, NEW heard \in BOOLEAN, CancelAtRebill(c, done, heard)
      PROVE  Goal
  <2>1. canceller[c].todo \in Seq(Order) /\ canceller[c].todo # <<>>
    BY <1>5 DEF CancelAtRebill, Asks, Shapes, Cancelling, Todos
  <2>2. standing[Head(canceller[c].todo)] # "none"
    <3>1. Head(canceller[c].todo) \in Held(canceller[c].todo)
      BY <2>1, HeldOf
    <3> QED BY <3>1 DEF CancelsTrue
  <2>3. standing' = standing \/ standing' = [standing EXCEPT ![Head(canceller[c].todo)] = "cancelled"]
    BY <1>5 DEF CancelAtRebill
  <2> QED BY <1>0, <2>2, <2>3
<1> HIDE DEF Goal
<1>6. UNCHANGED standing => Goal
  BY DEF Goal
<1>7. Goal
  BY <1>1, <1>2, <1>3, <1>4, <1>5, <1>6, Movers
<1> QED BY <1>7 DEF Goal

\* What Rebill has it keeps, and what it has cancelled stays cancelled.
LEMMA StandingStays ==
  ASSUME Shapes, Checkouts, CancelsTrue, Next, NEW o \in Order, standing[o] # "none"
  PROVE  standing'[o] # "none" /\ (standing[o] = "cancelled" => standing'[o] = "cancelled")
BY StandingMoves

\* A payment stays that of its checkout.
LEMMA ChargeStays ==
  ASSUME Shapes, Next, NEW p \in Pay, charge[p].status # "none"
  PROVE  charge'[p].status # "none" /\ charge'[p].order = charge[p].order
<1> DEFINE Goal == charge'[p].status # "none" /\ charge'[p].order = charge[p].order
<1>0. charge \in [Pay -> [order : Order \cup {None},
                          status : {"none", "approved", "rejected", "refunded", "chargeback"}]]
  BY DEF Shapes, Facts
<1>1. ASSUME NEW o \in Order, NEW q \in Pay, NEW s \in {"approved", "rejected"}, Charge(q, o, s) PROVE Goal
  BY <1>0, <1>1 DEF Charge
<1>2. ASSUME NEW q \in Pay, NEW s \in {"refunded", "chargeback"}, GiveBack(q, s) PROVE Goal
  <2>1. charge' = [charge EXCEPT ![q] = [charge[q] EXCEPT !.status = s]]
    BY <1>2 DEF GiveBack
  <2>2. [charge[q] EXCEPT !.status = s].order = charge[q].order /\ [charge[q] EXCEPT !.status = s].status = s
    BY <1>0
  <2> QED BY <1>0, <2>1, <2>2
<1>3. UNCHANGED charge => Goal
  OBVIOUS
<1>4. ASSUME NEW o \in Order, AttachLink(o) PROVE Goal
  BY <1>4 DEF AttachLink
<1>5. ASSUME NEW o \in Order, NEW s \in {"active", "paused", "defaulted", "cancelled", "finished"}, SubscriptionMoves(o, s)
      PROVE  Goal
  BY <1>5 DEF SubscriptionMoves
<1>6. ASSUME NEW c \in Canceller, NEW done \in BOOLEAN, NEW heard \in BOOLEAN, CancelAtRebill(c, done, heard)
      PROVE  Goal
  BY <1>6 DEF CancelAtRebill
<1> HIDE DEF Goal
<1>7. Goal
  BY <1>1, <1>2, <1>3, <1>4, <1>5, <1>6, Movers
<1> QED BY <1>7 DEF Goal

\* Accounts stay closed, erased and known.
LEMMA AccountsStay ==
  ASSUME Shapes, Next
  PROVE  /\ erased \subseteq erased' /\ known \subseteq known'
         /\ \A u \in User : Closing(u) => requested'[u] # None
<1> DEFINE Goal == /\ erased \subseteq erased' /\ known \subseteq known'
                   /\ \A u \in User : Closing(u) => requested'[u] # None
<1>0. requested \in [User -> Nat \cup {None}]
  BY DEF Shapes, Facts
<1>1. CASE UNCHANGED <<requested, erased, known>>
  BY <1>1 DEF Closing
<1>2. ASSUME NEW u \in User, Erase(u) PROVE Goal
  BY <1>2 DEF Erase, Closing
<1>3. ASSUME NEW u \in User, NEW c \in Canceller, RequestDeletion(u, c) PROVE Goal
  BY <1>0, <1>3 DEF RequestDeletion, Closing
<1> QED BY <1>1, <1>2, <1>3, Movers

\* A checkout that Rebill has, once closed for payment, stays closed.
LEMMA ClosedStays ==
  ASSUME Shapes, Checkouts, CancelsTrue, Next, NEW o \in Order, standing[o] # "none", Closed(o)
  PROVE  Closed(o)'
<1>1. Owner[o] \in User
  BY BillingConstants, SliceConstants
<1>2. CASE o \in known
  BY <1>2, AccountsStay DEF Closed
<1>3. CASE o \notin known
  <2>1. Closing(Owner[o]) /\ Owner[o] \notin erased
    BY <1>3 DEF Closed
  <2>2. requested'[Owner[o]] # None
    BY <1>1, <2>1, AccountsStay
  <2>3. CASE Owner[o] \notin erased'
    BY <2>2, <2>3 DEF Closed, Closing
  <2>4. CASE Owner[o] \in erased'
    <3>1. \E u \in User : Erase(u) /\ Owner[o] = u
      <4>1. ~UNCHANGED erased
        BY <2>1, <2>4
      <4>2. ASSUME NEW u \in User, Erase(u) PROVE Owner[o] = u
        BY <2>1, <2>4, <4>2 DEF Erase
      <4>3. ASSUME NEW u \in User, NEW c \in Canceller, RequestDeletion(u, c) PROVE UNCHANGED erased
        BY <4>3 DEF RequestDeletion
      <4> QED BY <4>1, <4>2, <4>3, Movers
    <3>2. checkout[o] # "none"
      BY <2>1 DEF Checkouts
    <3>3. o \in known'
      BY <3>1, <3>2 DEF Erase, OrdersOf
    <3> QED BY <3>3 DEF Closed
  <2> QED BY <2>3, <2>4
<1> QED BY <1>2, <1>3

-----------------------------------------------------------------------------
(* Every step keeps the parts of the invariant. *)

\* Logs and handlers keep pointing at what Rebill has.
LEMMA WiredStep ==
  ASSUME Shapes, Wired, Checkouts, Locks, CancelsTrue, Next
  PROVE  Wired'
<1>1. ASSUME NEW l \in DOMAIN log'
      PROVE  IF log'[l].kind = "payment" THEN log'[l].ref \in Pay /\ charge'[log'[l].ref].status # "none"
             ELSE log'[l].ref \in Order
  <2>1. CASE l \in DOMAIN log
    <3>1. log'[l].kind = log[l].kind /\ log'[l].ref = log[l].ref
      BY <2>1, LogMoves
    <3>2. IF log[l].kind = "payment" THEN log[l].ref \in Pay /\ charge[log[l].ref].status # "none"
          ELSE log[l].ref \in Order
      BY <2>1 DEF Wired, IsPayment
    <3> QED BY <3>1, <3>2, ChargeStays
  <2> QED BY <2>1, LogMoves
<1>2. ASSUME NEW p \in Pay, charge'[p].status # "none"
      PROVE  charge'[p].order \in Order /\ standing'[charge'[p].order] # "none"
  <2>1. CASE charge[p].status # "none"
    <3>1. charge[p].order \in Order /\ standing[charge[p].order] # "none" /\ charge'[p].order = charge[p].order
      BY <2>1, ChargeStays DEF Wired
    <3> QED BY <3>1, StandingStays
  <2>2. CASE charge[p].status = "none"
    <3>0. /\ charge \in [Pay -> [order : Order \cup {None},
                          status : {"none", "approved", "rejected", "refunded", "chargeback"}]]
          /\ standing \in [Order -> Standings]
      BY DEF Shapes, Facts
    <3>1. ASSUME NEW o \in Order, NEW q \in Pay, NEW s \in {"approved", "rejected"}, Charge(q, o, s) PROVE charge'[p].order \in Order /\ standing'[charge'[p].order] # "none"
      <4>1. charge' = [charge EXCEPT ![q] = [order |-> o, status |-> s]] /\ standing[o] # "none"
        BY <3>1 DEF Charge
      <4>2. p = q
        BY <4>1, <3>0, <2>2, <1>2
      <4>3. charge'[p].order = o
        BY <4>1, <4>2, <3>0
      <4> QED BY <4>1, <4>3, StandingStays
    <3>2. ASSUME NEW q \in Pay, NEW s \in {"refunded", "chargeback"}, GiveBack(q, s) PROVE FALSE
      <4>1. charge' = [charge EXCEPT ![q].status = s] /\ charge[q].status # "none"
        BY <3>2 DEF GiveBack
      <4> QED BY <4>1, <3>0, <2>2, <1>2
    <3>3. UNCHANGED charge => FALSE
      BY <1>2, <2>2
    <3>4. ASSUME NEW o \in Order, AttachLink(o) PROVE UNCHANGED charge
      BY <3>4 DEF AttachLink
    <3>5. ASSUME NEW o \in Order, NEW s \in {"active", "paused", "defaulted", "cancelled", "finished"}, SubscriptionMoves(o, s)
          PROVE  UNCHANGED charge
      BY <3>5 DEF SubscriptionMoves
    <3>6. ASSUME NEW c \in Canceller, NEW done \in BOOLEAN, NEW heard \in BOOLEAN, CancelAtRebill(c, done, heard)
          PROVE  UNCHANGED charge
      BY <3>6 DEF CancelAtRebill
    <3> QED BY <3>1, <3>2, <3>3, <3>4, <3>5, <3>6, Movers
  <2> QED BY <2>1, <2>2
<1>3. ASSUME NEW h \in Handler, handler'[h].pc # "idle" PROVE handler'[h].log \in DOMAIN log'
  <2>1. \A k \in DOMAIN log : k \in DOMAIN log'
    BY LogMoves
  <2>2. CASE handler'[h] = handler[h]
    BY <1>3, <2>1, <2>2 DEF Wired
  <2>3. CASE handler'[h] # handler[h]
    <3>1. \/ handler'[h] = Quiet
          \/ handler'[h].pc = "confirmed" /\ handler'[h].log \in DOMAIN log
          \/ handler'[h].log = handler[h].log /\ handler[h].pc = "confirmed"
      BY <2>3, HandlerMoves
    <3> QED BY <1>3, <2>1, <3>1 DEF Quiet, Wired
  <2> QED BY <2>2, <2>3
<1>4. ASSUME NEW h \in Handler, handler'[h].pc = "entered" PROVE log'[handler'[h].log].result = "none"
  <2>1. CASE handler'[h] = handler[h]
    <3> DEFINE l == handler[h].log
    <3>1. Entered(h) /\ l \in DOMAIN log /\ log[l].result = "none"
      BY <1>4, <2>1 DEF Wired, Entered, LogOf
    <3>2. CASE log'[l] = log[l]
      BY <2>1, <3>1, <3>2
    <3>3. CASE log'[l] # log[l]
      <4>1. PICK g \in Handler : handler[g].log = l /\ handler'[g].pc = "idle" /\ (Entered(g) \/ LocksFree(g))
        BY <3>1, <3>3, LogMoves
      <4>2. g # h
        BY <1>4, <4>1
      <4>3. ~Entered(g)
        BY <3>1, <4>1, <4>2 DEF Locks
      <4>4. LocksFree(g)
        BY <4>1, <4>3
      <4>5. handler[h].log # handler[g].log
        BY <3>1, <4>2, <4>4 DEF LocksFree, Entered
      <4> QED BY <4>1, <4>5
    <3> QED BY <3>2, <3>3
  <2>2. CASE handler'[h] # handler[h]
    <3>1. handler'[h].log = handler[h].log /\ LogOf(h).result = "none" /\ log' = log
      BY <1>4, <2>2, HandlerMoves DEF Quiet
    <3> QED BY <3>1 DEF LogOf
  <2> QED BY <2>1, <2>2
<1> QED BY <1>1, <1>2, <1>3, <1>4 DEF Wired, IsPayment, Entered, LogOf

\* A handler enters only where no other holds its log or its payment.
LEMMA LocksStep == ASSUME Shapes, Wired, Locks, Next PROVE Locks'
<1> SUFFICES ASSUME NEW g \in Handler, NEW h \in Handler, g # h,
                    handler'[g].pc = "entered", handler'[h].pc = "entered"
             PROVE  /\ handler'[g].log # handler'[h].log
                    /\ ~(LogOf(g)'.kind = LogOf(h)'.kind /\ LogOf(g)'.ref = LogOf(h)'.ref)
  BY DEF Locks, Entered
<1> DEFINE Apart(a, b) == /\ handler[a].log \in DOMAIN log /\ handler[b].log \in DOMAIN log
                          /\ handler'[a].log = handler[a].log /\ handler'[b].log = handler[b].log
                          /\ handler[a].log # handler[b].log
                          /\ ~(LogOf(a).kind = LogOf(b).kind /\ LogOf(a).ref = LogOf(b).ref)
<1>1. ASSUME handler'[g] = handler[g], handler'[h] = handler[h] PROVE Apart(g, h)
  <2>1. handler[g].log \in DOMAIN log /\ handler[h].log \in DOMAIN log /\ Entered(g) /\ Entered(h)
    BY <1>1 DEF Entered, Wired
  <2> QED BY <1>1, <2>1 DEF Locks
<1>2. ASSUME NEW a \in Handler, NEW b \in Handler, a # b, handler'[a] # handler[a],
             handler'[a].pc = "entered", handler'[b].pc = "entered"
      PROVE  Apart(a, b)
  <2>1. /\ handler'[a].log = handler[a].log /\ handler[a].pc = "confirmed" /\ LocksFree(a)
        /\ handler'[b] = handler[b]
    BY <1>2, HandlerMoves DEF Quiet
  <2>2. /\ handler[b].pc = "entered" /\ handler[b].log # handler[a].log
        /\ <<LogOf(b).kind, LogOf(b).ref>> # <<LogOf(a).kind, LogOf(a).ref>>
    BY <1>2, <2>1 DEF LocksFree, LogOf
  <2> QED BY <2>1, <2>2 DEF Wired
<1>3. Apart(g, h) \/ Apart(h, g)
  <2> HIDE DEF Apart
  <2> QED BY <1>1, <1>2
<1> HIDE DEF Apart
<1>4. ASSUME NEW a \in Handler, NEW b \in Handler, Apart(a, b)
      PROVE  /\ handler'[a].log # handler'[b].log
             /\ ~(LogOf(a)'.kind = LogOf(b)'.kind /\ LogOf(a)'.ref = LogOf(b)'.ref)
  <2>1. \A k \in DOMAIN log : log'[k].kind = log[k].kind /\ log'[k].ref = log[k].ref
    BY LogMoves
  <2> QED BY <1>4, <2>1 DEF Apart, LogOf
<1> QED BY <1>3, <1>4

\* A checkout that Rebill has is in the database until its account is erased, and known
\* afterwards.
LEMMA CheckoutsStep ==
  ASSUME Shapes, Wired, Checkouts, CancelsTrue, Next
  PROVE  Checkouts'
<1>0. /\ requested \in [User -> Nat \cup {None}] /\ erased \subseteq User /\ erased' \subseteq User
      /\ DOMAIN checkout = Order /\ DOMAIN sub = Order /\ DOMAIN standing = Order
  BY FactsStep DEF Shapes, Facts, Rows
<1>1. ASSUME NEW u \in erased' PROVE requested'[u] # None
  <2>1. CASE u \in erased
    BY <2>1, <1>0, AccountsStay DEF Checkouts
  <2>2. CASE u \notin erased
    <3>1. ASSUME NEW w \in User, Erase(w) PROVE requested'[u] # None
      BY <2>2, <3>1 DEF Erase
    <3>2. ASSUME NEW w \in User, NEW c \in Canceller, RequestDeletion(w, c) PROVE FALSE
      BY <2>2, <3>2 DEF RequestDeletion
    <3> QED BY <2>2, <3>1, <3>2, Movers
  <2> QED BY <2>1, <2>2
<1>2. ASSUME NEW o \in Order
      PROVE  /\ Owner[o] \in erased' => checkout'[o] = "none" /\ (standing'[o] # "none" => o \in known')
             /\ checkout'[o] = "none" /\ standing'[o] # "none" => Owner[o] \in erased'
             /\ checkout'[o] = "pending" => standing'[o] = "none"
  <2> DEFINE Goal == /\ Owner[o] \in erased' => checkout'[o] = "none" /\ (standing'[o] # "none" => o \in known')
                     /\ checkout'[o] = "none" /\ standing'[o] # "none" => Owner[o] \in erased'
                     /\ checkout'[o] = "pending" => standing'[o] = "none"
  <2>0. /\ Owner[o] \in erased => checkout[o] = "none" /\ (standing[o] # "none" => o \in known)
        /\ checkout[o] = "none" /\ standing[o] # "none" => Owner[o] \in erased
        /\ checkout[o] = "pending" => standing[o] = "none"
    BY DEF Checkouts
  <2>1. ASSUME NEW q \in Order, CreateCheckout(q) PROVE Goal
    <3>1. /\ UNCHANGED <<erased, known, standing>> /\ checkout[q] = "none" /\ Owner[q] \notin erased
          /\ checkout' = [checkout EXCEPT ![q] = "pending"]
      BY <2>1 DEF CreateCheckout, rebill, Checkouts
    <3> QED BY <1>0, <2>0, <3>1
  <2>2. ASSUME NEW q \in Order, AttachLink(q) PROVE Goal
    <3>1. /\ UNCHANGED <<erased, known>> /\ checkout[q] = "pending"
          /\ checkout' = [checkout EXCEPT ![q] = "open"] /\ standing' = [standing EXCEPT ![q] = "link"]
      BY <2>2 DEF AttachLink
    <3> QED BY <1>0, <2>0, <3>1
  <2>3. ASSUME NEW h \in Handler, Grant(h) PROVE Goal
    <3> DEFINE q == charge[LogOf(h).ref].order
    <3>1. /\ UNCHANGED <<erased, known, standing>> /\ Owner[q] \notin erased
          /\ checkout' = [checkout EXCEPT ![q] = "completed"]
      BY Zenon, <2>3 DEF Grant, rebill, LogOf
    <3> HIDE DEF q
    <3> QED BY <1>0, <2>0, <3>1
  <2>4. ASSUME NEW u \in User, Erase(u) PROVE Goal
    <3>1. /\ UNCHANGED standing /\ u \notin erased /\ erased' = erased \cup {u}
          /\ checkout'[o] = IF Owner[o] = u THEN "none" ELSE checkout[o]
          /\ known \subseteq known' /\ (Owner[o] = u /\ checkout[o] # "none" => o \in known')
      BY <2>4 DEF Erase, rebill, OrdersOf
    <3> QED BY <2>0, <3>1
  <2>5. ASSUME NEW u \in User, NEW c \in Canceller, RequestDeletion(u, c) PROVE Goal
    BY <2>0, <2>5, AccountsStay DEF RequestDeletion, rebill
  <2>6. ASSUME UNCHANGED checkout, UNCHANGED <<requested, erased, known>>, \A q \in Order : ~AttachLink(q)
        PROVE  Goal
    BY <2>0, <2>6, StandingMoves
  <2> HIDE DEF Goal
  <2>7. ASSUME UNCHANGED checkout, UNCHANGED <<requested, erased, known>> PROVE Goal
    BY <2>2, <2>6, <2>7
  <2>8. Goal \/ UNCHANGED <<requested, erased, known>>
    BY <2>4, <2>5, Movers
  <2>9. Goal \/ UNCHANGED checkout
    BY <2>1, <2>2, <2>3, <2>4, Movers
  <2>10. Goal
    BY <2>7, <2>8, <2>9
  <2> QED BY <2>10 DEF Goal
<1>3. ASSUME NEW o \in Order, sub'[o] # "none" PROVE standing'[o] # "none"
  <2>1. SUFFICES sub[o] # "none" \/ standing[o] # "none"
    BY StandingStays DEF Checkouts
  <2>2. ASSUME NEW q \in Order, GrantRun(q) PROVE sub[o] # "none"
    BY <1>0, <1>3, <2>2 DEF GrantRun
  <2>3. ASSUME NEW h \in Handler, Enter(h) PROVE sub[o] # "none"
    BY Zenon, <1>0, <1>3, <2>3 DEF Enter
  <2>4. ASSUME NEW h \in Handler, Grant(h) PROVE sub[o] # "none" \/ standing[o] # "none"
    <3> DEFINE q == charge[LogOf(h).ref].order
    <3>1. standing[q] # "none"
      BY Zenon, <2>4, AtWork DEF Grant, LogOf
    <3>2. sub' = sub \/ sub' = [sub EXCEPT ![q] = "active"]
      BY Zenon, <2>4 DEF Grant, LogOf
    <3> HIDE DEF q
    <3> QED BY <1>0, <1>3, <3>1, <3>2
  <2>5. ASSUME NEW h \in Handler, Reverse(h) PROVE sub[o] # "none"
    <3>1. \/ sub' = sub
          \/ \E a : sub' = [sub EXCEPT ![handler[h].effect.order] = IF @ = "none" THEN @ ELSE a]
      BY Zenon, <2>5 DEF Reverse
    <3> QED BY <1>0, <1>3, <3>1
  <2>6. ASSUME NEW h \in Handler, WriteSubscription(h) PROVE sub[o] # "none"
    BY <1>0, <1>3, <2>6 DEF WriteSubscription
  <2>7. ASSUME NEW u \in User, Erase(u) PROVE sub[o] # "none"
    BY <1>3, <2>7 DEF Erase
  <2>8. ASSUME NEW u \in User, NEW c \in Canceller, RequestDeletion(u, c) PROVE sub[o] # "none"
    BY <1>3, <2>8 DEF RequestDeletion, SubsOf
  <2> QED BY <1>3, <2>2, <2>3, <2>4, <2>5, <2>6, <2>7, <2>8, Movers
<1> QED BY <1>1, <1>2, <1>3 DEF Checkouts, Closing

-----------------------------------------------------------------------------
(* The answers: who writes an effect or a result, and under which locks. *)

\* What a verdict says of the payment.
LEMMA VerdictSays ==
  ASSUME NEW p, NEW s
  PROVE  /\ Verdict(p, s) \notin {"applied", "revoked"}
         /\ Verdict(p, s) = "refund_without_grant" => effect[p].state = "none"
         /\ Verdict(p, s) = "deletion_pending" => effect[p].state = "none" /\ Closed(charge[p].order)
         /\ s = "approved" => Verdict(p, s) # "reverse"
         /\ s = "approved" /\ Verdict(p, s) = "grant" =>
              /\ effect[p].state = "none" /\ NotRefunded(p)
              /\ ~Closed(charge[p].order) /\ Owner[charge[p].order] \notin erased
         /\ s \in {"refunded", "chargeback"} /\ Verdict(p, s) \in {"grant", "reverse"} => effect[p].state # "none"
<1>1. CASE s \in {"refunded", "chargeback"}
  BY <1>1 DEF Verdict
<1>2. CASE s \notin {"refunded", "chargeback"}
  BY <1>2 DEF Verdict, NotRefunded
<1> QED BY <1>1, <1>2

\* The effect of a payment is written by its own handler, or goes with the account.
LEMMA EffectMoves ==
  ASSUME Shapes, Wired, Next, NEW p \in Pay
  PROVE  \/ effect'[p].state = effect[p].state /\ effect'[p].order = effect[p].order
         \/ \E h \in Handler :
              /\ Grant(h) /\ LogOf(h).ref = p
              /\ effect'[p].state = "granted" /\ effect'[p].order = charge[p].order
         \/ \E h \in Handler :
              /\ Reverse(h) /\ LogOf(h).ref = p
              /\ effect'[p].state = "revoked" /\ effect'[p].order = effect[p].order
         \/ \E u \in User : Erase(u) /\ effect[p].order \in OrdersOf(u) /\ effect'[p].state = "none"
<1>1. UNCHANGED effect => effect'[p].state = effect[p].state /\ effect'[p].order = effect[p].order
  OBVIOUS
<1>2. ASSUME NEW h \in Handler, Grant(h)
      PROVE  \/ effect'[p] = effect[p]
             \/ LogOf(h).ref = p /\ effect'[p].state = "granted" /\ effect'[p].order = charge[p].order
  <2> DEFINE q == LogOf(h).ref
             o == charge[q].order
  <2>1. q \in Pay /\ DOMAIN effect = Pay
    BY <1>2, GrantedEffect DEF Shapes, Rows
  <2>2. PICK d : effect' = [effect EXCEPT ![q] = d] /\ d.state = "granted" /\ d.order = o
    BY <1>2, GrantedEffect
  <2>3. p # q => effect'[p] = effect[p]
    BY <2>1, <2>2
  <2>4. p = q => effect'[p] = d
    BY <2>1, <2>2
  <2> QED BY <2>2, <2>3, <2>4
<1>3. ASSUME NEW h \in Handler, Reverse(h)
      PROVE  /\ effect'[p].order = effect[p].order
             /\ effect'[p].state = IF LogOf(h).ref = p THEN "revoked" ELSE effect[p].state
  BY <1>3, ReversedEffect
<1>4. ASSUME NEW u \in User, Erase(u)
      PROVE  effect'[p] = effect[p] \/ (effect[p].order \in OrdersOf(u) /\ effect'[p].state = "none")
  BY <1>4 DEF Erase, NoEffect
<1> QED BY <1>1, <1>2, <1>3, <1>4, Movers

\* A result is written by the handler that holds the log.
LEMMA ResultBy ==
  ASSUME Shapes, Wired, Next, NEW l \in DOMAIN log, IsPayment(l), log'[l].result # log[l].result
  PROVE  \E h \in Handler :
           /\ handler[h].log = l /\ LogOf(h).kind = "payment" /\ handler'[h] = Quiet
           /\ \A k \in DOMAIN log : k # l => log'[k] = log[k]
           /\ \/ Grant(h) /\ log'[l].result = "applied"
              \/ Reverse(h) /\ log'[l].result = "revoked"
              \/ Enter(h) /\ log'[l].result = Verdict(log[l].ref, handler[h].status)
<1>0. log \in Seq(Logs) /\ DOMAIN handler = Handler
  BY DEF Shapes, Webhooks
<1> DEFINE Goal(h) ==
           /\ handler[h].log = l /\ LogOf(h).kind = "payment" /\ handler'[h] = Quiet
           /\ \A k \in DOMAIN log : k # l => log'[k] = log[k]
           /\ \/ Grant(h) /\ log'[l].result = "applied"
              \/ Reverse(h) /\ log'[l].result = "revoked"
              \/ Enter(h) /\ log'[l].result = Verdict(log[l].ref, handler[h].status)
<1>a. ASSUME NEW h \in Handler, handler[h].pc # "idle", NEW r \in Results, Record(handler[h].log, r), Becomes(h, Quiet)
      PROVE  /\ handler[h].log = l /\ LogOf(h).kind = "payment" /\ handler'[h] = Quiet
             /\ log'[l].result = r /\ \A k \in DOMAIN log : k # l => log'[k] = log[k]
  <2>1. handler[h].log \in DOMAIN log
    BY <1>a, AtWork
  <2>2. /\ \A k \in DOMAIN log : k # handler[h].log => log'[k] = log[k]
        /\ log'[handler[h].log].result = r
    BY <1>0, <1>a, <2>1, Recorded
  <2>3. handler'[h] = Quiet
    BY <1>0, <1>a DEF Becomes
  <2> QED BY <2>1, <2>2, <2>3 DEF IsPayment, LogOf
<1>b. ASSUME NEW kind \in {"payment", "subscription"}, NEW ref \in Pay \cup Order, Sends(kind, ref) PROVE FALSE
  BY <1>0, <1>b, Sent
<1>1. ASSUME NEW o \in Order, NEW p \in Pay, NEW s \in {"approved", "rejected"}, Charge(p, o, s) PROVE FALSE
  BY <1>1, <1>b DEF Charge
<1>2. ASSUME NEW o \in Order, NEW s \in {"active", "paused", "defaulted", "cancelled", "finished"}, SubscriptionMoves(o, s)
      PROVE  FALSE
  BY <1>2, <1>b DEF SubscriptionMoves
<1>3. ASSUME NEW p \in Pay, TellAgain(p) \/ \E s \in {"refunded", "chargeback"} : GiveBack(p, s) PROVE FALSE
  BY <1>3, <1>b DEF TellAgain, GiveBack
<1>4. ASSUME NEW h \in Handler, Grant(h) PROVE Goal(h)
  <2>1. handler[h].pc # "idle" /\ Record(handler[h].log, "applied") /\ Becomes(h, Quiet) /\ "applied" \in Results
    BY Zenon, <1>4 DEF Grant, Results
  <2> QED BY <1>4, <1>a, <2>1
<1>5. ASSUME NEW h \in Handler, Reverse(h) PROVE Goal(h)
  <2>1. handler[h].pc # "idle" /\ Record(handler[h].log, "revoked") /\ Becomes(h, Quiet) /\ "revoked" \in Results
    BY Zenon, <1>5 DEF Reverse, Results
  <2> QED BY <1>5, <1>a, <2>1
<1>6. ASSUME NEW h \in Handler, Enter(h) PROVE Goal(h)
  <2> DEFINE v == Verdict(LogOf(h).ref, handler[h].status)
  <2>1. ~UNCHANGED log
    OBVIOUS
  <2>2. /\ handler[h].pc # "idle" /\ Record(handler[h].log, v) /\ Becomes(h, Quiet)
        /\ v \notin {"grant", "reverse"}
    BY Zenon, <1>6, <2>1 DEF Enter, LogOf
  <2>3. v \in Results
    BY <2>2, VerdictResult
  <2> HIDE DEF v
  <2> QED BY <1>6, <1>a, <2>2, <2>3 DEF v, LogOf
<1>7. ASSUME NEW h \in Handler, EnterSubscription(h) \/ WriteSubscription(h) PROVE FALSE
  <2>1. /\ LogOf(h).kind = "subscription" /\ handler[h].pc # "idle"
        /\ UNCHANGED log \/ \E r \in Results : Record(handler[h].log, r) /\ Becomes(h, Quiet)
    BY <1>7 DEF EnterSubscription, WriteSubscription, LogOf, Results
  <2> QED BY <1>a, <2>1
<1> HIDE DEF Goal
<1>8. \E h \in Handler : Goal(h)
  BY <1>1, <1>2, <1>3, <1>4, <1>5, <1>6, <1>7, Movers
<1> QED BY <1>8 DEF Goal

\* Nobody else holds the payment of a handler that has entered with it.
LEMMA LocksExclude ==
  ASSUME Shapes, Wired, Locks, Next,
         NEW h \in Handler, Entered(h), LogOf(h).kind = "payment", handler'[h].pc = "entered",
         NEW g \in Handler, LogOf(g).ref = LogOf(h).ref
  PROVE  ~Grant(g) /\ ~Reverse(g) /\ ~(Enter(g) /\ LogOf(g).kind = "payment")
<1>0. DOMAIN handler = Handler
  BY DEF Shapes, Webhooks
<1>1. ASSUME Grant(g) \/ Reverse(g) PROVE FALSE
  <2>1. Entered(g) /\ LogOf(g).kind = "payment" /\ Becomes(g, Quiet)
    BY Zenon, <1>1 DEF Grant, Reverse, Entered, LogOf
  <2>2. handler'[g] = Quiet
    BY <1>0, <2>1 DEF Becomes
  <2>3. g # h
    BY <2>2 DEF Quiet
  <2> QED BY <2>1, <2>3 DEF Locks
<1>2. ASSUME Enter(g), LogOf(g).kind = "payment" PROVE FALSE
  <2>1. handler[g].pc = "confirmed" /\ LocksFree(g)
    BY Zenon, <1>2 DEF Enter
  <2>2. g # h /\ handler[h].pc = "entered"
    BY <2>1 DEF Entered
  <2>3. <<LogOf(h).kind, LogOf(h).ref>> # <<LogOf(g).kind, LogOf(g).ref>>
    BY <2>1, <2>2 DEF LocksFree, LogOf
  <2> QED BY <1>2, <2>3
<1> QED BY <1>1, <1>2

\* A grant and a refund find the payment as the request read it.
LEMMA GrantReady ==
  ASSUME Ready, NEW h \in Handler, Grant(h)
  PROVE  /\ effect[LogOf(h).ref].state = "none" /\ LogOf(h).ref \notin refunds
         /\ NotRefunded(LogOf(h).ref) /\ "applied" \notin Seen(LogOf(h).ref)
BY Zenon DEF Ready, Grant, Entered, LogOf

\* A reversal is of an effect, on the checkout of its payment.
LEMMA ReverseReady ==
  ASSUME Ready, NEW h \in Handler, Reverse(h)
  PROVE  effect[LogOf(h).ref].state # "none" /\ handler[h].effect.order = charge[LogOf(h).ref].order
<1>1. /\ Entered(h) /\ LogOf(h).kind = "payment" /\ handler[h].status \in {"refunded", "chargeback"}
      /\ Owner[handler[h].effect.order] \notin erased
  BY Zenon DEF Reverse, Entered, LogOf
<1>2. /\ handler[h].effect.order = charge[LogOf(h).ref].order
      /\ effect[LogOf(h).ref].state # "none" \/ Owner[charge[LogOf(h).ref].order] \in erased
  BY <1>1 DEF Ready
<1> QED BY <1>1, <1>2

\* What was told of a payment for the first time was told by a handler of it.
LEMMA SeenMoves ==
  ASSUME Shapes, Wired, Next, NEW p \in Pay, NEW r, r \in Seen(p)', r \notin Seen(p), r # "none"
  PROVE  \E h \in Handler :
           /\ LogOf(h).kind = "payment" /\ LogOf(h).ref = p
           /\ \/ Grant(h) /\ r = "applied"
              \/ Reverse(h) /\ r = "revoked"
              \/ Enter(h) /\ r = Verdict(p, handler[h].status) /\ UNCHANGED effect
<1>1. PICK l \in DOMAIN log' : log'[l].kind = "payment" /\ log'[l].ref = p /\ log'[l].result = r
  BY DEF Seen
<1>2. l \in DOMAIN log
  BY <1>1, LogMoves
<1>3. log[l].kind = "payment" /\ log[l].ref = p
  BY <1>1, <1>2, LogMoves
<1>4. log[l].result # r
  BY <1>2, <1>3 DEF Seen
<1>5. IsPayment(l) /\ log'[l].result # log[l].result
  BY <1>1, <1>3, <1>4 DEF IsPayment
<1>6. PICK h \in Handler :
           /\ handler[h].log = l
           /\ \/ Grant(h) /\ log'[l].result = "applied"
              \/ Reverse(h) /\ log'[l].result = "revoked"
              \/ Enter(h) /\ log'[l].result = Verdict(log[l].ref, handler[h].status)
  BY <1>2, <1>5, ResultBy
<1>7. LogOf(h).kind = "payment" /\ LogOf(h).ref = p
  BY SMTT(30), <1>3, <1>6 DEF LogOf
<1>8. Enter(h) => UNCHANGED effect
  BY DEF Enter
<1> QED BY <1>1, <1>3, <1>6, <1>7, <1>8

\* An effect is written for a payment Rebill has, on its checkout.
LEMMA EffectsStep ==
  ASSUME Shapes, Wired, Effects, Ready, Next
  PROVE  Effects'
<1> SUFFICES ASSUME NEW p \in Pay, effect'[p].state # "none"
             PROVE  charge'[p].status # "none" /\ effect'[p].order = charge'[p].order
  BY DEF Effects
<1>1. charge[p].status # "none" /\ effect'[p].order = charge[p].order
  <2>1. CASE effect'[p].state = effect[p].state /\ effect'[p].order = effect[p].order
    BY <2>1 DEF Effects
  <2>2. ASSUME NEW h \in Handler, Grant(h), LogOf(h).ref = p, effect'[p].order = charge[p].order PROVE <1>1
    <3>1. charge[p].status # "none"
      BY <2>2, AtWork DEF Grant, LogOf
    <3> QED BY <2>2, <3>1
  <2>3. ASSUME NEW h \in Handler, Reverse(h), LogOf(h).ref = p, effect'[p].order = effect[p].order PROVE <1>1
    BY <2>3, ReverseReady DEF Effects
  <2> QED BY <2>1, <2>2, <2>3, EffectMoves
<1> QED BY <1>1, ChargeStays

\* A queued refund stays without an effect: a closed checkout stays closed, and a
\* handler about to grant has its payment's lock.
LEMMA QueuedStep ==
  ASSUME Shapes, Wired, Checkouts, CancelsTrue, Queued, Ready, Next
  PROVE  Queued'
<1> SUFFICES ASSUME NEW p \in refunds'
             PROVE  effect'[p].state = "none" /\ charge'[p].status # "none" /\ Closed(charge[p].order)'
  BY DEF Queued
<1>0. refunds \subseteq Pay /\ refunds' \subseteq Pay
  BY FactsStep DEF Shapes, Facts
<1>a. PICK o : o = charge[p].order
  OBVIOUS
<1>1. /\ charge[p].status # "none" /\ Closed(o) /\ effect[p].state = "none"
      /\ \A h \in Handler : Grant(h) => LogOf(h).ref # p
  <2>1. CASE p \in refunds
    BY <2>1, <1>a, GrantReady DEF Queued
  <2>2. CASE p \notin refunds
    <3>1. PICK h \in Handler : Enter(h)
      BY <2>2, Movers
    <3>2. /\ refunds' = refunds \cup {LogOf(h).ref} /\ handler[h].pc # "idle" /\ LogOf(h).kind = "payment"
          /\ Verdict(LogOf(h).ref, handler[h].status) = "deletion_pending" /\ UNCHANGED <<effect, checkout>>
      BY Zenon, <2>2, <3>1 DEF Enter, LogOf
    <3>3. p = LogOf(h).ref
      BY <2>2, <3>2
    <3>4. charge[p].status # "none"
      BY <3>2, <3>3, AtWork
    <3>5. effect[p].state = "none" /\ Closed(o)
      BY <1>a, <3>2, <3>3, VerdictSays
    <3>6. \A g \in Handler : ~Grant(g) \/ LogOf(g).ref # p
      <4>1. ASSUME NEW g \in Handler, Grant(g), LogOf(g).ref = p PROVE FALSE
        <5>1. UNCHANGED refunds
          BY Zenon, <4>1 DEF Grant
        <5> QED BY <2>2, <5>1
      <4> QED BY <4>1
    <3> QED BY <3>4, <3>5, <3>6
  <2> QED BY <2>1, <2>2
<1>2. effect'[p].state = "none"
  <2>1. \A h \in Handler : Reverse(h) => LogOf(h).ref # p
    BY <1>1, ReverseReady
  <2> QED BY <1>0, <1>1, <2>1, EffectMoves
<1>3. o \in Order /\ standing[o] # "none"
  BY <1>0, <1>1, <1>a DEF Wired
<1>4. Closed(o)'
  BY <1>1, <1>3, ClosedStays
<1>5. charge'[p].status # "none" /\ charge'[p].order = o
  BY <1>0, <1>1, <1>a, ChargeStays
<1> QED BY <1>2, <1>4, <1>5 DEF Closed, Closing

\* A second log of a payment is not applied, since the first has left an effect.
LEMMA AppliedStep ==
  ASSUME Shapes, Wired, Effects, Applied, Ready, Next
  PROVE  Applied'
<1>0. \A l \in DOMAIN log' : IsPayment(l)' /\ log'[l].result = "applied" =>
        l \in DOMAIN log /\ IsPayment(l) /\ log[l].ref = log'[l].ref /\ log[l].ref \in Pay
  BY LogMoves DEF IsPayment, Wired
<1>1. ASSUME NEW l \in DOMAIN log', IsPayment(l)', log'[l].result = "applied"
      PROVE  effect'[log'[l].ref].state # "none" \/ Owner[charge'[log'[l].ref].order] \in erased'
  <2>0. l \in DOMAIN log /\ IsPayment(l) /\ log[l].ref = log'[l].ref /\ log[l].ref \in Pay
    BY <1>0, <1>1
  <2> DEFINE p == log[l].ref
  <2>1. charge[p].status # "none" /\ charge'[p].order = charge[p].order
    BY <2>0, ChargeStays DEF Wired
  <2>2. CASE log[l].result = "applied"
    <3>1. effect[p].state # "none" \/ Owner[charge[p].order] \in erased
      BY <2>0, <2>2 DEF Applied
    <3>2. CASE Owner[charge[p].order] \in erased
      BY <2>0, <2>1, <3>2, AccountsStay
    <3>3. CASE effect[p].state # "none"
      <4>1. ASSUME NEW u \in User, Erase(u), effect[p].order \in OrdersOf(u) PROVE Owner[charge'[p].order] \in erased'
        <5>1. effect[p].order = charge'[p].order
          BY <2>0, <2>1, <3>3 DEF Effects
        <5> QED BY <4>1, <5>1 DEF Erase, OrdersOf
      <4>2. effect'[p].state # "none" \/ \E u \in User : Erase(u) /\ effect[p].order \in OrdersOf(u)
        BY <2>0, <3>3, EffectMoves
      <4> QED BY <2>0, <4>1, <4>2
    <3> QED BY <3>1, <3>2, <3>3
  <2>3. CASE log[l].result # "applied"
    <3>1. PICK h \in Handler : Grant(h) /\ handler[h].log = l
      BY <1>1, <2>0, <2>3, ResultBy, VerdictSays
    <3>2. effect[p].state = "none" /\ LogOf(h).ref = p
      BY <3>1, GrantReady DEF LogOf
    <3>3. effect'[p].state # "none"
      <4>1. DOMAIN effect = Pay
        BY DEF Shapes, Rows
      <4> QED BY <3>1, <3>2, <4>1, GrantedEffect
    <3> QED BY <2>0, <3>3
  <2> QED BY <2>2, <2>3
<1>2. ASSUME NEW l \in DOMAIN log', NEW k \in DOMAIN log', IsPayment(l)', IsPayment(k)', log'[l].ref = log'[k].ref,
             log'[l].result = "applied", log'[k].result = "applied"
      PROVE  l = k
  <2>0. /\ l \in DOMAIN log /\ IsPayment(l) /\ log[l].ref \in Pay
        /\ k \in DOMAIN log /\ IsPayment(k) /\ log[k].ref = log[l].ref
    BY <1>0, <1>2
  <2>1. ASSUME NEW a \in DOMAIN log, NEW b \in DOMAIN log, IsPayment(a), IsPayment(b), log[a].ref = log[b].ref,
               log'[a].result = "applied", log'[b].result = "applied", log[a].result # "applied"
        PROVE  a = b
    <3>1. PICK h \in Handler : Grant(h) /\ handler[h].log = a /\ \A i \in DOMAIN log : i # a => log'[i] = log[i]
      BY <2>1, ResultBy, VerdictSays
    <3>2. "applied" \notin Seen(log[a].ref)
      BY <3>1, GrantReady DEF LogOf
    <3>3. log[b].result # "applied"
      BY <2>1, <3>2 DEF Seen, IsPayment
    <3> QED BY <2>1, <3>1, <3>3
  <2>2. CASE log[l].result = "applied" /\ log[k].result = "applied"
    BY <2>0, <2>2 DEF Applied
  <2>3. CASE log[l].result # "applied"
    BY <1>2, <2>0, <2>1, <2>3
  <2>4. CASE log[k].result # "applied"
    BY <1>2, <2>0, <2>1, <2>4
  <2> QED BY <2>2, <2>3, <2>4
<1> QED BY <1>1, <1>2 DEF Applied

\* A grant does not follow the refund, whichever is told first.
LEMMA GrantStandsStep ==
  ASSUME Shapes, Wired, GrantStands, Ready, Next
  PROVE  GrantStands'
<1> SUFFICES ASSUME NEW p \in Pay, effect'[p].state = "granted",
                    NEW r \in {"revoked", "refund_without_grant"}, r \in Seen(p)'
             PROVE  FALSE
  BY DEF GrantStands, NotRefunded
<1>1. r \notin Seen(p)
  <2>1. CASE effect'[p].state = effect[p].state
    BY <2>1 DEF GrantStands, NotRefunded
  <2>2. ASSUME NEW h \in Handler, Grant(h), LogOf(h).ref = p PROVE r \notin Seen(p)
    BY <2>2, GrantReady DEF NotRefunded
  <2> QED BY <2>1, <2>2, EffectMoves
<1>2. PICK h \in Handler : /\ LogOf(h).ref = p
                           /\ \/ Reverse(h)
                              \/ r = Verdict(p, handler[h].status) /\ UNCHANGED effect
  BY <1>1, SeenMoves
<1>3. CASE Reverse(h)
  BY <1>2, <1>3, ReversedEffect
<1>4. CASE r = Verdict(p, handler[h].status) /\ UNCHANGED effect
  BY <1>4, VerdictSays
<1> QED BY <1>2, <1>3, <1>4

\* What a handler has read holds until it writes: who could change it needs the lock it
\* holds.
LEMMA ReadyStep ==
  ASSUME Shapes, Wired, Locks, Effects, Queued, Applied, GrantStands, Ready, Next
  PROVE  Ready'
<1> SUFFICES ASSUME NEW h \in Handler, handler'[h].pc = "entered",
                    NEW p, log'[handler'[h].log].kind = "payment", log'[handler'[h].log].ref = p
             PROVE  /\ handler'[h].status = "approved" =>
                         effect'[p].state = "none" /\ p \notin refunds' /\ NotRefunded(p)' /\ "applied" \notin Seen(p)'
                    /\ handler'[h].status \in {"refunded", "chargeback"} =>
                         /\ handler'[h].effect.order = charge'[p].order
                         /\ effect'[p].state # "none" \/ Owner[charge'[p].order] \in erased'
  BY DEF Ready, Entered, LogOf
<1>0. /\ handler'[h].log = handler[h].log /\ handler[h].pc # "idle"
      /\ LogOf(h).kind = "payment" /\ LogOf(h).ref = p /\ p \in Pay
  <2>1. handler'[h].log = handler[h].log /\ handler[h].pc # "idle"
    <3>1. CASE handler'[h] = handler[h]
      BY <3>1
    <3>2. CASE handler'[h] # handler[h]
      BY <3>2, HandlerMoves DEF Quiet
    <3> QED BY <3>1, <3>2
  <2>2. LogOf(h).kind = "payment" /\ LogOf(h).ref = p
    BY <2>1, AtWork, LogMoves DEF LogOf
  <2> QED BY <2>1, <2>2, AtWork
<1>1. charge[p].status # "none" /\ charge'[p].order = charge[p].order
  BY <1>0, AtWork, ChargeStays
<1>2. CASE handler'[h] = handler[h]
  <2>0. /\ Entered(h)
        /\ \A g \in Handler : LogOf(g).ref = p => ~Grant(g) /\ ~Reverse(g) /\ ~(Enter(g) /\ LogOf(g).kind = "payment")
    BY <1>0, <1>2, LocksExclude DEF Entered
  <2>1. \A r : r # "none" /\ r \in Seen(p)' => r \in Seen(p)
    BY <1>0, <2>0, SeenMoves
  <2>2. \/ effect'[p].state = effect[p].state
        \/ \E u \in User : Erase(u) /\ effect[p].order \in OrdersOf(u) /\ effect'[p].state = "none"
    BY <1>0, <2>0, EffectMoves
  <2>3. ASSUME handler[h].status = "approved"
        PROVE  effect'[p].state = "none" /\ p \notin refunds' /\ NotRefunded(p)' /\ "applied" \notin Seen(p)'
    <3>1. effect[p].state = "none" /\ p \notin refunds /\ NotRefunded(p) /\ "applied" \notin Seen(p)
      BY <1>0, <2>0, <2>3 DEF Ready
    <3>2. effect'[p].state = "none"
      BY <2>2, <3>1
    <3>3. NotRefunded(p)' /\ "applied" \notin Seen(p)'
      BY <2>1, <3>1 DEF NotRefunded
    <3>4. p \notin refunds'
      <4>1. ASSUME NEW g \in Handler, Enter(g), p \in refunds' PROVE FALSE
        <5>1. p = LogOf(g).ref /\ LogOf(g).kind = "payment"
          BY <3>1, <4>1 DEF Enter, LogOf
        <5> QED BY SMTT(30), <2>0, <4>1, <5>1
      <4> QED BY <3>1, <4>1, Movers
    <3> QED BY <3>2, <3>3, <3>4
  <2>4. ASSUME handler[h].status \in {"refunded", "chargeback"}
        PROVE  /\ handler[h].effect.order = charge'[p].order
               /\ effect'[p].state # "none" \/ Owner[charge'[p].order] \in erased'
    <3>1. /\ handler[h].effect.order = charge[p].order
          /\ effect[p].state # "none" \/ Owner[charge[p].order] \in erased
      BY <1>0, <2>0, <2>4 DEF Ready
    <3>2. CASE Owner[charge[p].order] \in erased
      BY <1>1, <3>1, <3>2, AccountsStay
    <3>3. CASE effect[p].state # "none"
      <4>1. effect[p].order = charge[p].order
        BY <1>0, <3>3 DEF Effects
      <4>2. ASSUME NEW u \in User, Erase(u), effect[p].order \in OrdersOf(u) PROVE Owner[charge[p].order] \in erased'
        BY <4>1, <4>2 DEF Erase, OrdersOf
      <4> QED BY <1>1, <2>2, <3>1, <3>3, <4>2
    <3> QED BY <3>1, <3>2, <3>3
  <2> QED BY <1>0, <1>2, <2>3, <2>4
<1>3. CASE handler'[h] # handler[h]
  <2>1. Enter(h)
    <3>0. DOMAIN handler = Handler
      BY DEF Shapes, Webhooks
    <3>a. handler[h].pc = "confirmed"
      BY <1>3, HandlerMoves DEF Quiet
    <3>1. ASSUME NEW g \in Handler, NEW l \in DOMAIN log, Confirm(g, l) PROVE FALSE
      <4>1. g # h /\ \E c : Becomes(g, c)
        BY <3>1, <3>a DEF Confirm
      <4> QED BY <1>3, <3>0, <4>1 DEF Becomes
    <3>2. ASSUME NEW g \in Handler, Grant(g) \/ Reverse(g) \/ WriteSubscription(g) \/ DropRequest(g) PROVE FALSE
      <4>1. Becomes(g, Quiet)
        BY Zenon, <3>2 DEF Grant, Reverse, WriteSubscription, DropRequest
      <4> QED BY <1>3, <3>0, <4>1 DEF Becomes, Quiet
    <3>3. ASSUME NEW g \in Handler, EnterSubscription(g) PROVE FALSE
      <4>1. LogOf(g).kind = "subscription" /\ \E c : Becomes(g, c)
        BY <3>3 DEF EnterSubscription, LogOf
      <4>2. g # h
        BY <1>0, <4>1
      <4> QED BY <1>3, <3>0, <4>1, <4>2 DEF Becomes
    <3>4. ASSUME NEW g \in Handler, Enter(g), g # h PROVE FALSE
      <4>1. \E c : Becomes(g, c)
        BY Zenon, <3>4 DEF Enter
      <4> QED BY <1>3, <3>0, <3>4, <4>1 DEF Becomes
    <3> QED BY <1>3, <3>1, <3>2, <3>3, <3>4, Movers
  <2> DEFINE s == handler[h].status
             c == [handler[h] EXCEPT !.pc = "entered", !.ent = ent[charge[p].order], !.effect = effect[p]]
  <2>2. /\ Verdict(p, s) \in {"grant", "reverse"} /\ Becomes(h, c)
        /\ UNCHANGED <<effect, refunds, log, erased>>
    <3>1. ~Becomes(h, Quiet)
      BY DEF Becomes, Quiet, Shapes, Webhooks
    <3>2. log[handler[h].log].ref = p
      BY <1>0 DEF LogOf
    <3> QED BY <2>1, <3>1, <3>2 DEF Enter
  <2>3. handler'[h].status = s /\ handler'[h].effect = effect[p]
    <3>1. DOMAIN handler = Handler /\ DOMAIN handler[h] = HandlerFields
      BY DEF Shapes, Webhooks
    <3>2. c.status = s /\ c.effect = effect[p]
      BY <3>1 DEF HandlerFields
    <3> HIDE DEF c
    <3> QED BY <2>2, <3>1, <3>2 DEF Becomes
  <2>4. Seen(p)' = Seen(p)
    BY <2>2 DEF Seen
  <2>5. ASSUME s = "approved"
        PROVE  effect[p].state = "none" /\ p \notin refunds /\ NotRefunded(p) /\ "applied" \notin Seen(p)
    <3>1. /\ effect[p].state = "none" /\ NotRefunded(p)
          /\ ~Closed(charge[p].order) /\ Owner[charge[p].order] \notin erased
      BY <2>2, <2>5, VerdictSays
    <3>2. p \notin refunds
      BY <3>1 DEF Queued
    <3>3. "applied" \notin Seen(p)
      BY <3>1 DEF Seen, Applied, IsPayment
    <3> QED BY <3>1, <3>2, <3>3
  <2>6. ASSUME s \in {"refunded", "chargeback"} PROVE effect[p].state # "none" /\ effect[p].order = charge[p].order
    BY <1>0, <2>2, <2>6, VerdictSays DEF Effects
  <2>7. s = "approved" => NotRefunded(p)'
    BY <2>4, <2>5 DEF NotRefunded
  <2> HIDE DEF s
  <2> QED BY <1>0, <1>1, <2>2, <2>3, <2>4, <2>5, <2>6, <2>7
<1> QED BY <1>2, <1>3

-----------------------------------------------------------------------------
(* The cancels: sequences of checkouts, and who takes what out of them. *)

\* A finite set can be listed.
LEMMA ListedIs ==
  ASSUME NEW S \in SUBSET Order
  PROVE  Listed(S) \in Seq(Order) /\ Held(Listed(S)) \subseteq S
<1>1. IsFiniteSet(S)
  BY FS_Subset, BillingConstants, SliceConstants
<1>2. Cardinality(S) \in Nat /\ ExistsBijection(1..Cardinality(S), S)
  BY <1>1, FS_CardinalityType
<1>3. PICK f : f \in Bijection(1..Cardinality(S), S)
  BY <1>2 DEF ExistsBijection
<1>4. /\ f \in [1..Cardinality(S) -> S]
      /\ \A i, j \in 1..Cardinality(S) : f[i] = f[j] => i = j
  BY <1>3 DEF Bijection, Injection, IsInjective
<1>5. Listed(S) \in [1..Cardinality(S) -> S]
  BY <1>4 DEF Listed
<1>6. Listed(S) \in Seq(Order) /\ DOMAIN Listed(S) = 1..Cardinality(S)
  BY <1>2, <1>5
<1> QED BY <1>5, <1>6 DEF Held

\* The queue holds its checkouts.
LEMMA QueueHeld == InQueue = Held(cancels)
BY DEF InQueue, Held

\* One row is deleted from the queue, and no other.
LEMMA WithoutIs ==
  ASSUME cancels \in Seq(Order), NEW o
  PROVE  /\ Without(o) \in Seq(Order) /\ Held(Without(o)) \subseteq InQueue
         /\ \A q \in InQueue : q # o => q \in Held(Without(o))
<1>1. CASE o \notin InQueue
  BY <1>1, QueueHeld DEF Without
<1>2. CASE o \in InQueue
  <2>1. PICK i \in DOMAIN cancels :
          cancels[i] = o /\ Without(o) = SubSeq(cancels, 1, i - 1) \o SubSeq(cancels, i + 1, Len(cancels))
    BY <1>2 DEF Without, InQueue
  <2> DEFINE a == SubSeq(cancels, 1, i - 1)
             b == SubSeq(cancels, i + 1, Len(cancels))
  <2>2. Len(cancels) \in Nat /\ DOMAIN cancels = 1..Len(cancels) /\ i \in 1..Len(cancels)
    OBVIOUS
  <2>3. /\ a \in Seq(Order) /\ DOMAIN a = 1..(i - 1) /\ \A j \in 1..(i - 1) : a[j] = cancels[j] /\ j \in DOMAIN cancels
    BY <2>2
  <2>4. /\ b \in Seq(Order) /\ DOMAIN b = 1..(Len(cancels) - i)
        /\ \A j \in 1..(Len(cancels) - i) : b[j] = cancels[i + j] /\ i + j \in DOMAIN cancels
    BY <2>2
  <2>5. Held(a) \subseteq InQueue /\ Held(b) \subseteq InQueue
    BY <2>3, <2>4 DEF Held, InQueue
  <2>6. ASSUME NEW q \in InQueue, q # o PROVE q \in Held(a) \cup Held(b)
    <3>1. PICK k \in DOMAIN cancels : q = cancels[k]
      BY DEF InQueue
    <3>2. CASE k < i
      <4>1. k \in 1..(i - 1)
        BY <2>2, <3>2
      <4> QED BY <2>3, <3>1, <4>1 DEF Held
    <3>3. CASE k > i
      <4>1. k - i \in 1..(Len(cancels) - i) /\ i + (k - i) = k
        BY <2>2, <3>3
      <4>2. b[k - i] = q
        BY <2>4, <3>1, <4>1
      <4> QED BY <2>4, <4>1, <4>2 DEF Held
    <3>4. k # i
      BY <2>1, <2>6, <3>1
    <3> QED BY <2>2, <3>2, <3>3, <3>4
  <2> HIDE DEF a, b
  <2>7. a \o b \in Seq(Order) /\ Held(a \o b) = Held(a) \cup Held(b)
    BY <2>3, <2>4, HeldOfBoth
  <2> QED BY <2>1, <2>5, <2>6, <2>7 DEF a, b
<1> QED BY <1>1, <1>2

\* What a step leaves in the queue, and where what it puts there comes from.
LEMMA QueueMoves ==
  ASSUME Shapes, Next
  PROVE  /\ cancels' \in Seq(Order)
         /\ \A o \in InQueue' : \/ o \in InQueue \/ (o \in Order /\ sub[o] # "none")
                                \/ \E c \in Canceller : \E t \in Held(canceller[c].told) : o = t[1]
         /\ \A o \in InQueue : \/ o \in InQueue'
                               \/ \E c \in Canceller : <<o, "cancelled">> \in Held(canceller[c].told)
<1> DEFINE Goal == /\ cancels' \in Seq(Order)
                   /\ \A o \in Held(cancels') : \/ o \in InQueue \/ (o \in Order /\ sub[o] # "none")
                                                \/ \E c \in Canceller : \E t \in Held(canceller[c].told) : o = t[1]
                   /\ \A o \in InQueue : \/ o \in Held(cancels')
                                         \/ \E c \in Canceller : <<o, "cancelled">> \in Held(canceller[c].told)
<1>0. cancels \in Seq(Order) /\ canceller \in [Canceller -> Todos] /\ InQueue = Held(cancels)
  BY QueueHeld DEF Shapes, Cancelling
<1>2. ASSUME NEW u \in User, NEW c \in Canceller, RequestDeletion(u, c) PROVE Goal
  <2> DEFINE S == SubsOf(u) \ InQueue
  <2>1. S \in SUBSET Order /\ \A o \in S : sub[o] # "none"
    BY DEF SubsOf, OrdersOf
  <2>2. cancels' = cancels \o Listed(S)
    BY <1>2 DEF RequestDeletion
  <2> HIDE DEF S
  <2>3. Listed(S) \in Seq(Order) /\ Held(Listed(S)) \subseteq S
    BY <2>1, ListedIs
  <2>4. cancels' \in Seq(Order) /\ Held(cancels') = Held(cancels) \cup Held(Listed(S))
    BY <1>0, <2>2, <2>3, HeldOfBoth
  <2> QED BY <1>0, <2>1, <2>3, <2>4
<1>3. ASSUME NEW c \in Canceller, RecordCancel(c) PROVE Goal
  <2> DEFINE told == canceller[c].told
             o == Head(told)[1]
  <2>1. told \in Seq(Order \X {"cancelled", "provider_error"}) /\ told # <<>>
    BY <1>0, <1>3 DEF RecordCancel, Todos
  <2>2. Head(told) \in Held(told) /\ Head(told) \in Order \X {"cancelled", "provider_error"}
    BY <2>1, HeldOf
  <2>3. o \in Order /\ Head(told) = <<o, Head(told)[2]>>
    BY <2>2
  <2>4. CASE Head(told)[2] = "cancelled"
    <3>1. cancels' = Without(o)
      BY <1>3, <2>4 DEF RecordCancel
    <3>2. <<o, "cancelled">> \in Held(told)
      BY <2>2, <2>3, <2>4
    <3> HIDE DEF o, told
    <3> QED BY <1>0, <3>1, <3>2, WithoutIs DEF told
  <2>5. CASE Head(told)[2] # "cancelled"
    <3>1. cancels' = cancels \/ cancels' = Append(cancels, o)
      BY <1>3, <2>5 DEF RecordCancel
    <3>2. Append(cancels, o) \in Seq(Order) /\ Held(Append(cancels, o)) = InQueue \cup {o}
      BY <1>0, <2>3, HeldOf
    <3>3. \E t \in Held(told) : o = t[1]
      BY <2>2
    <3> HIDE DEF o, told
    <3> QED BY <1>0, <3>1, <3>2, <3>3 DEF told
  <2> QED BY <2>4, <2>5
<1>4. ASSUME NEW c \in Canceller, \/ ReadQueue(c) \/ CancellerDies(c)
                                  \/ \E done, heard \in BOOLEAN : CancelAtRebill(c, done, heard)
      PROVE  UNCHANGED cancels
  BY <1>4 DEF ReadQueue, CancellerDies, CancelAtRebill, tables
<1>a. UNCHANGED cancels => Goal
  BY <1>0
<1> HIDE DEF Goal
<1>5. Goal
  BY <1>2, <1>3, <1>4, <1>a, Movers
<1>6. InQueue' = Held(cancels')
  BY DEF InQueue, Held
<1> QED BY <1>5, <1>6 DEF Goal

\* A caller hears of what it asked for, and asks for subscriptions or what the queue holds.
LEMMA CallerMoves ==
  ASSUME Shapes, Next
  PROVE  /\ canceller' \in [Canceller -> Todos]
         /\ \A c \in Canceller :
              /\ Held(canceller'[c].todo) \subseteq
                   Held(canceller[c].todo) \cup InQueue \cup {o \in Order : sub[o] # "none"}
              /\ \A t \in Held(canceller'[c].told) :
                   \/ t \in Held(canceller[c].told)
                   \/ t[1] \in Held(canceller[c].todo) /\ (t[2] = "cancelled" => standing'[t[1]] = "cancelled")
<1> DEFINE Goal == /\ canceller' \in [Canceller -> Todos]
                   /\ \A c \in Canceller :
                        /\ Held(canceller'[c].todo) \subseteq
                             Held(canceller[c].todo) \cup InQueue \cup {o \in Order : sub[o] # "none"}
                        /\ \A t \in Held(canceller'[c].told) :
                             \/ t \in Held(canceller[c].told)
                             \/ t[1] \in Held(canceller[c].todo) /\ (t[2] = "cancelled" => standing'[t[1]] = "cancelled")
           Good(c, k) == /\ k \in Todos
                         /\ Held(k.todo) \subseteq
                              Held(canceller[c].todo) \cup InQueue \cup {o \in Order : sub[o] # "none"}
                         /\ \A t \in Held(k.told) :
                              \/ t \in Held(canceller[c].told)
                              \/ t[1] \in Held(canceller[c].todo) /\ (t[2] = "cancelled" => standing'[t[1]] = "cancelled")
<1>0. /\ cancels \in Seq(Order) /\ canceller \in [Canceller -> Todos] /\ InQueue = Held(cancels)
      /\ standing \in [Order -> Standings]
  BY QueueHeld DEF Shapes, Cancelling, Facts
<1>a. \A c \in Canceller : /\ canceller[c].todo \in Seq(Order) /\ canceller[c].job \in BOOLEAN
                           /\ canceller[c].told \in Seq(Order \X {"cancelled", "provider_error"})
  BY <1>0 DEF Todos
<1>b. ASSUME NEW c \in Canceller, NEW k, Good(c, k), canceller' = [canceller EXCEPT ![c] = k] PROVE Goal
  <2>1. \A d \in Canceller : canceller'[d] = IF d = c THEN k ELSE canceller[d]
    BY <1>0, <1>b
  <2>2. canceller' \in [Canceller -> Todos]
    BY <1>0, <1>b
  <2> QED BY <1>b, <2>1, <2>2
<1>c. ASSUME NEW c \in Canceller, NEW k \in Todos, k.told = <<>>,
             Held(k.todo) \subseteq InQueue \cup {o \in Order : sub[o] # "none"}
      PROVE  Good(c, k)
  <2>1. Held(<<>>) = {}
    BY DEF Held
  <2> QED BY <1>c, <2>1
<1>d. Held(<<>>) = {} /\ <<>> \in Seq(Order)
  BY DEF Held
<1>e. ASSUME NEW s \in Seq(Order)
      PROVE  /\ [Rest EXCEPT !.todo = s] \in Todos /\ [Rest EXCEPT !.todo = s, !.job = TRUE] \in Todos
             /\ [Rest EXCEPT !.todo = s].todo = s /\ [Rest EXCEPT !.todo = s, !.job = TRUE].todo = s
             /\ [Rest EXCEPT !.todo = s].told = <<>> /\ [Rest EXCEPT !.todo = s, !.job = TRUE].told = <<>>
  <2>1. Rest \in Todos /\ Rest.told = <<>>
    BY <1>d DEF Rest, Todos
  <2> QED BY <2>1 DEF Todos
<1>1. ASSUME NEW u \in User, NEW c \in Canceller, RequestDeletion(u, c) PROVE Goal
  <2> DEFINE s == Listed(SubsOf(u))
             k == [Rest EXCEPT !.todo = s]
  <2>1. canceller' = [canceller EXCEPT ![c] = k]
    BY <1>1 DEF RequestDeletion
  <2>2. SubsOf(u) \in SUBSET Order /\ \A o \in SubsOf(u) : sub[o] # "none"
    BY DEF SubsOf, OrdersOf
  <2>3. s \in Seq(Order) /\ Held(s) \subseteq SubsOf(u)
    BY <2>2, ListedIs
  <2> HIDE DEF s
  <2>4. k \in Todos /\ k.todo = s /\ k.told = <<>>
    BY Zenon, <1>e, <2>3
  <2> HIDE DEF k
  <2>5. Good(c, k)
    <3>1. Held(k.todo) \subseteq InQueue \cup {o \in Order : sub[o] # "none"}
      BY <2>2, <2>3, <2>4
    <3> QED BY <1>c, <2>4, <3>1
  <2> HIDE DEF Good
  <2> QED BY <1>b, <2>1, <2>5
<1>2. ASSUME NEW c \in Canceller, ReadQueue(c) PROVE Goal
  <2> DEFINE n == Min({BatchSize, Len(cancels)})
             s == SubSeq(cancels, 1, n)
             k == [Rest EXCEPT !.todo = s, !.job = TRUE]
  <2>1. canceller' = [canceller EXCEPT ![c] = k]
    BY <1>2 DEF ReadQueue
  <2>2. n \in Nat /\ n <= Len(cancels) /\ Len(cancels) \in Nat
    <3>1. BatchSize \in Nat /\ Len(cancels) \in Nat
      BY <1>0, BillingConstants, SliceConstants
    <3>2. n \in {BatchSize, Len(cancels)} /\ n <= BatchSize /\ n <= Len(cancels)
      <4>1. \E m \in {BatchSize, Len(cancels)} : \A q \in {BatchSize, Len(cancels)} : m <= q
        BY <3>1
      <4> QED BY <4>1 DEF Min
    <3> QED BY <3>1, <3>2
  <2> HIDE DEF n
  <2>3. s \in Seq(Order) /\ Held(s) \subseteq InQueue
    <3>1. /\ s \in Seq(Order) /\ DOMAIN s = 1..n
          /\ \A i \in 1..n : s[i] = cancels[i] /\ i \in DOMAIN cancels
      BY <1>0, <2>2
    <3> QED BY <3>1 DEF Held, InQueue
  <2> HIDE DEF s
  <2>4. k \in Todos /\ k.todo = s /\ k.told = <<>>
    BY Zenon, <1>e, <2>3
  <2> HIDE DEF k
  <2>5. Good(c, k)
    BY <1>c, <2>3, <2>4
  <2> HIDE DEF Good
  <2> QED BY <1>b, <2>1, <2>5
<1>3. ASSUME NEW c \in Canceller, NEW done \in BOOLEAN, NEW heard \in BOOLEAN, CancelAtRebill(c, done, heard) PROVE Goal
  <2> DEFINE k == canceller[c]
             o == Head(k.todo)
             answer == IF done /\ heard THEN "cancelled" ELSE "provider_error"
             told == Append(k.told, <<o, answer>>)
  <2>1. k.todo # <<>> /\ canceller' = [canceller EXCEPT ![c] = [k EXCEPT !.todo = Tail(k.todo), !.told = told]]
    <3>1. k \in Todos
      BY <1>0
    <3>2. /\ k.todo # <<>>
          /\ canceller' = [canceller EXCEPT ![c].todo = Tail(@), ![c].told = Append(@, <<Head(canceller[c].todo), answer>>)]
      BY <1>3 DEF CancelAtRebill, Asks, Told
    <3> HIDE DEF answer, told
    <3>3. canceller' = [canceller EXCEPT ![c].todo = Tail(k.todo), ![c].told = told]
      BY <3>2 DEF told
    <3>4. \A d \in Canceller : canceller'[d] = IF d = c THEN [k EXCEPT !.todo = Tail(k.todo), !.told = told] ELSE canceller[d]
      BY <1>0, <3>1, <3>3 DEF Todos
    <3>5. DOMAIN canceller' = Canceller /\ canceller' = [d \in Canceller |-> canceller'[d]]
      BY <1>0, <3>3
    <3> QED BY <1>0, <3>2, <3>4, <3>5
  <2>2. Tail(k.todo) \in Seq(Order) /\ Held(Tail(k.todo)) \subseteq Held(k.todo) /\ o \in Held(k.todo) /\ o \in Order
    BY <1>a, <2>1, HeldOf
  <2>3. <<o, answer>> \in Order \X {"cancelled", "provider_error"}
    BY <2>2
  <2>4. told \in Seq(Order \X {"cancelled", "provider_error"}) /\ Held(told) = Held(k.told) \cup {<<o, answer>>}
    BY <1>a, <2>3, HeldOf
  <2>5. answer = "cancelled" => standing'[o] = "cancelled"
    BY <1>0, <1>3, <2>2 DEF CancelAtRebill
  <2> DEFINE new == [k EXCEPT !.todo = Tail(k.todo), !.told = told]
  <2> HIDE DEF told, answer
  <2>6. new \in Todos /\ new.todo = Tail(k.todo) /\ new.told = told
    <3>1. k \in Todos
      BY <1>0
    <3> QED BY <3>1, <2>2, <2>4 DEF Todos
  <2> HIDE DEF new
  <2>7. Good(c, new)
    <3>1. \A t \in Held(new.told) :
            \/ t \in Held(canceller[c].told)
            \/ t[1] \in Held(canceller[c].todo) /\ (t[2] = "cancelled" => standing'[t[1]] = "cancelled")
      BY <2>2, <2>4, <2>5, <2>6
    <3> QED BY <2>2, <2>6, <3>1
  <2> HIDE DEF Good
  <2> QED BY <1>b, <2>1, <2>7 DEF new
<1>4. ASSUME NEW c \in Canceller, RecordCancel(c) PROVE Goal
  <2> DEFINE k == canceller[c]
             new == [k EXCEPT !.told = Tail(k.told)]
  <2>1. k.told # <<>> /\ (canceller' = [canceller EXCEPT ![c] = Rest] \/ canceller' = [canceller EXCEPT ![c] = new])
    BY <1>4 DEF RecordCancel
  <2>2. Good(c, Rest)
    <3>1. Rest \in Todos /\ Rest.told = <<>> /\ Rest.todo = <<>>
      BY <1>d DEF Rest, Todos
    <3> HIDE DEF Good
    <3> QED BY <1>c, <1>d, <3>1
  <2>3. Tail(k.told) \in Seq(Order \X {"cancelled", "provider_error"}) /\ Held(Tail(k.told)) \subseteq Held(k.told)
    BY <1>a, <2>1, HeldOf
  <2>4. new \in Todos /\ new.todo = k.todo /\ new.told = Tail(k.told)
    <3>1. k \in Todos
      BY <1>0
    <3> QED BY <3>1, <2>3 DEF Todos
  <2> HIDE DEF new
  <2>5. Good(c, new)
    BY <2>3, <2>4
  <2> HIDE DEF Good
  <2> QED BY <1>b, <2>1, <2>2, <2>5
<1>5. ASSUME NEW c \in Canceller, CancellerDies(c) PROVE Goal
  <2>1. canceller' = [canceller EXCEPT ![c] = Rest]
    BY <1>5 DEF CancellerDies
  <2>2. Good(c, Rest)
    <3>1. Rest \in Todos /\ Rest.told = <<>> /\ Rest.todo = <<>>
      BY <1>d DEF Rest, Todos
    <3> HIDE DEF Good
    <3> QED BY <1>c, <1>d, <3>1
  <2> HIDE DEF Good
  <2> QED BY <1>b, <2>1, <2>2
<1>6. UNCHANGED canceller => Goal
  BY <1>0
<1> HIDE DEF Goal
<1>7. Goal
  BY <1>1, <1>2, <1>3, <1>4, <1>5, <1>6, Movers
<1> QED BY <1>7 DEF Goal

\* The queue and the callers keep their types.
LEMMA CancellingStep == ASSUME Shapes, Next PROVE Cancelling'
BY QueueMoves, CallerMoves DEF Cancelling

\* Nobody notes "cancelled" of what Rebill has not cancelled.
LEMMA CancelsTrueStep ==
  ASSUME Shapes, Checkouts, CancelsTrue, Next
  PROVE  CancelsTrue'
<1>0. /\ cancels \in Seq(Order) /\ canceller \in [Canceller -> Todos] /\ InQueue = Held(cancels)
  BY QueueHeld DEF Shapes, Cancelling
<1>1. InQueue \subseteq Order /\ \A c \in Canceller : /\ Held(canceller[c].todo) \subseteq Order
                                                      /\ \A t \in Held(canceller[c].told) : t[1] \in Order
  <2>1. InQueue \subseteq Order
    BY <1>0, HeldOf
  <2>2. ASSUME NEW c \in Canceller
        PROVE  Held(canceller[c].todo) \subseteq Order /\ \A t \in Held(canceller[c].told) : t[1] \in Order
    <3>1. canceller[c].todo \in Seq(Order) /\ canceller[c].told \in Seq(Order \X {"cancelled", "provider_error"})
      BY <1>0 DEF Todos
    <3>2. Held(canceller[c].told) \subseteq Order \X {"cancelled", "provider_error"}
      BY <3>1, HeldOf
    <3> QED BY <3>1, <3>2, HeldOf
  <2> QED BY <2>1, <2>2
<1>2. \A o \in Order : standing[o] # "none" => /\ standing'[o] # "none"
                                               /\ standing[o] = "cancelled" => standing'[o] = "cancelled"
  BY StandingStays
<1>3. \A o \in Order : sub[o] # "none" \/ o \in InQueue => standing[o] # "none"
  BY DEF Checkouts, CancelsTrue
<1>4. ASSUME NEW o \in InQueue' PROVE standing'[o] # "none"
  <2>1. o \in Order /\ standing[o] # "none"
    BY <1>1, <1>3, QueueMoves DEF CancelsTrue
  <2> QED BY <1>2, <2>1
<1>5. ASSUME NEW c \in Canceller
      PROVE  /\ \A o \in Held(canceller'[c].todo) : standing'[o] # "none"
             /\ \A t \in Held(canceller'[c].told) :
                  standing'[t[1]] # "none" /\ (t[2] = "cancelled" => standing'[t[1]] = "cancelled")
  <2>1. ASSUME NEW o \in Held(canceller'[c].todo) PROVE standing'[o] # "none"
    <3>1. o \in Held(canceller[c].todo) \/ o \in InQueue \/ (o \in Order /\ sub[o] # "none")
      BY CallerMoves
    <3>2. o \in Order /\ standing[o] # "none"
      BY <1>1, <1>3, <3>1 DEF CancelsTrue
    <3> QED BY <1>2, <3>2
  <2>2. ASSUME NEW t \in Held(canceller'[c].told)
        PROVE  standing'[t[1]] # "none" /\ (t[2] = "cancelled" => standing'[t[1]] = "cancelled")
    <3>1. CASE t \in Held(canceller[c].told)
      BY <1>1, <1>2, <3>1 DEF CancelsTrue
    <3>2. CASE t \notin Held(canceller[c].told)
      <4>1. t[1] \in Held(canceller[c].todo) /\ (t[2] = "cancelled" => standing'[t[1]] = "cancelled")
        BY <3>2, CallerMoves
      <4>2. t[1] \in Order /\ standing[t[1]] # "none"
        BY <1>1, <4>1 DEF CancelsTrue
      <4> QED BY <1>2, <4>1, <4>2
    <3> QED BY <3>1, <3>2
  <2> QED BY <2>1, <2>2
<1> QED BY <1>4, <1>5 DEF CancelsTrue

-----------------------------------------------------------------------------
(* The invariant. *)

\* The invariant holds at the start.
LEMMA InitIInv == Init => IInv
<1> SUFFICES ASSUME Init PROVE IInv
  OBVIOUS
<1> USE DEF Init
<1>1. Facts
  BY DEF Facts, Standings
<1>2. Rows
  <2>1. DOMAIN NoEnt = EntFields /\ DOMAIN NoEffect = EffectFields
    BY DEF NoEnt, NoEffect, EntFields, EffectFields
  <2> QED BY <2>1 DEF Rows
<1>3. Webhooks
  <2>1. DOMAIN Quiet = HandlerFields
    BY DEF Quiet, HandlerFields
  <2>2. log \in Seq(Logs)
    OBVIOUS
  <2> QED BY <2>1, <2>2 DEF Webhooks
<1>4. Held(<<>>) = {} /\ InQueue = {} /\ Rest.todo = <<>> /\ Rest.told = <<>> /\ \A c \in Canceller : canceller[c] = Rest
  BY DEF Held, InQueue, Rest
<1>5. Cancelling
  <2>1. Rest \in Todos
    BY DEF Rest, Todos
  <2>2. cancels \in Seq(Order)
    OBVIOUS
  <2> QED BY <2>1, <2>2 DEF Cancelling
<1>6. CancelsTrue
  BY <1>4 DEF CancelsTrue
<1>7. /\ DOMAIN log = {} /\ \A p \in Pay : effect[p].state = "none" /\ charge[p].status = "none"
      /\ \A h \in Handler : handler[h].pc = "idle"
  BY DEF NoEffect, Quiet
<1>8. Wired /\ Locks /\ Ready
  BY <1>7 DEF Wired, Locks, Ready, Entered
<1>9. Checkouts
  BY DEF Checkouts
<1>10. Effects /\ Queued /\ Applied /\ GrantStands
  BY <1>7 DEF Effects, Queued, Applied, GrantStands, IsPayment
<1> QED BY <1>1, <1>2, <1>3, <1>5, <1>6, <1>8, <1>9, <1>10 DEF IInv, Shapes

\* Every step keeps the invariant.
LEMMA IInvStep == IInv /\ [Next]_vars => IInv'
<1>1. ASSUME IInv, Next PROVE IInv'
  <2>1. /\ Shapes /\ Wired /\ Checkouts /\ Locks /\ CancelsTrue
        /\ Effects /\ Queued /\ Applied /\ GrantStands /\ Ready /\ Next
    BY <1>1 DEF IInv
  <2>2. Shapes'
    BY <2>1, FactsStep, RowsStep, WebhooksStep, CancellingStep DEF Shapes
  <2>3. Wired' /\ Checkouts' /\ Locks' /\ CancelsTrue'
    BY <2>1, WiredStep, CheckoutsStep, LocksStep, CancelsTrueStep
  <2>4. Effects' /\ Queued' /\ Applied' /\ GrantStands' /\ Ready'
    BY <2>1, EffectsStep, QueuedStep, AppliedStep, GrantStandsStep, ReadyStep
  <2> QED BY <2>2, <2>3, <2>4 DEF IInv
<1>2. ASSUME IInv, UNCHANGED vars PROVE IInv'
  <2>1. UNCHANGED <<now, requested, erased, checkout, sub, ent, effect, keys, known, refunds, cancels, log,
                    charge, standing, handler, canceller>>
    BY <1>2 DEF vars, tables, rebill
  <2>2. Shapes'
    BY <1>2, <2>1 DEF IInv, Shapes, Facts, Rows, Webhooks, Cancelling
  <2>3. Wired' /\ Locks' /\ Ready'
    BY <1>2, <2>1 DEF IInv, Wired, Locks, Ready, IsPayment, Entered, LogOf, NotRefunded, Seen
  <2>4. Checkouts' /\ CancelsTrue'
    BY <1>2, <2>1 DEF IInv, Checkouts, CancelsTrue, Closing, InQueue
  <2>5. Effects' /\ Queued' /\ Applied' /\ GrantStands'
    BY <1>2, <2>1 DEF IInv, Effects, Queued, Applied, GrantStands, NotRefunded, Seen, IsPayment, Closed, Closing
  <2> QED BY <2>2, <2>3, <2>4, <2>5 DEF IInv
<1> QED BY <1>1, <1>2

\* The invariant holds in every state of billing: what the rows of a payment say of
\* each other holds between any two steps of the webhooks that race for it.
THEOREM BillingInvariant == Spec => []IInv
BY InitIInv, IInvStep, PTL DEF Spec

-----------------------------------------------------------------------------
(* The properties. *)

\* The invariant says that a payment has one answer.
LEMMA Answered == IInv => OneAnswer
<1> SUFFICES ASSUME IInv PROVE OneAnswer
  OBVIOUS
<1>1. GrantedOrQueued
  BY DEF IInv, Queued, GrantedOrQueued
<1>2. ASSUME NEW p \in Pay
      PROVE  Cardinality({l \in DOMAIN log : log[l].kind = "payment" /\ log[l].ref = p /\ log[l].result = "applied"}) <= 1
  <2> DEFINE S == {l \in DOMAIN log : log[l].kind = "payment" /\ log[l].ref = p /\ log[l].result = "applied"}
  <2>1. \A l, k \in S : l = k
    BY DEF IInv, Applied, IsPayment
  <2> HIDE DEF S
  <2>2. S = {} \/ \E l : S = {l}
    BY <2>1
  <2>3. Cardinality(S) = 0 \/ Cardinality(S) = 1
    BY <2>2, FS_EmptySet, FS_Singleton
  <2> QED BY <2>3 DEF S
<1>3. \A p \in Pay : effect[p].state = "granted" => Seen(p) \cap {"revoked", "refund_without_grant"} = {}
  BY DEF IInv, GrantStands, NotRefunded
<1> QED BY <1>1, <1>2, <1>3 DEF OneAnswer, GrantedOnce

\* A payment has one answer for good, a grant or an alert, however its webhooks race
\* each other, the deletion of its account and its refund (D136, 0106).
THEOREM AnsweredOnce == Spec => []OneAnswer
BY BillingInvariant, Answered, PTL

\* What is taken out of the queue was told cancelled, and is.
LEMMA CancelLeaves ==
  ASSUME IInv, Next, NEW o \in Order, o \in InQueue, o \notin InQueue'
  PROVE  standing[o] = "cancelled"
<1>1. Shapes /\ CancelsTrue
  BY DEF IInv
<1>2. PICK c \in Canceller : <<o, "cancelled">> \in Held(canceller[c].told)
  BY <1>1, QueueMoves
<1> QED BY <1>1, <1>2 DEF CancelsTrue

\* A cancel leaves the queue only after Rebill has cancelled, whoever of the deletion
\* action and the daily job dies, is not heard or is late (0107).
THEOREM CancelsAreKept == Spec => CancelStaysPending
<1>1. IInv /\ [Next]_vars => [\A o \in Order : o \in InQueue /\ o \notin InQueue' => standing[o] = "cancelled"]_vars
  BY CancelLeaves
<1> QED BY <1>1, BillingInvariant, PTL DEF Spec, CancelStaysPending

\* Neither end of a plan nor the loss of a slice makes a cancelled subscription or a
\* revoked window live.
LEMMA AfterKeeps ==
  ASSUME NEW p, NEW x, NEW f, NEW s, DOMAIN ent[x.order] = EntFields
  PROVE  /\ sub[x.order] = "canceled" => AfterPlan(x, s).sub = "canceled" /\ AfterSlice(p, x, f).sub = "canceled"
         /\ ent[x.order].status = "revoked" =>
              AfterPlan(x, s).ent.status = "revoked" /\ AfterSlice(p, x, f).ent.status = "revoked"
<1>1. ASSUME NEW v, NEW w PROVE [ent[x.order] EXCEPT !.expires = v, !.status = w].status = w
  BY DEF EntFields
<1>2. ASSUME NEW v PROVE [ent[x.order] EXCEPT !.expires = v].status = ent[x.order].status
  BY DEF EntFields
<1>3. sub[x.order] = "canceled" => AfterPlan(x, s).sub = "canceled" /\ AfterSlice(p, x, f).sub = "canceled"
  BY DEF AfterPlan, Terminated, AfterSlice, Cut, GoesOn, Later, Current, Stays
<1>4. ent[x.order].status = "revoked" => AfterPlan(x, s).ent.status = "revoked"
  <2> DEFINE v == Min({ent[x.order].expires, now})
             w == IF s = "chargeback" \/ ent[x.order].status = "revoked" THEN "revoked" ELSE "expired"
  <2>1. AfterPlan(x, s).ent = [ent[x.order] EXCEPT !.expires = v, !.status = w]
    BY Zenon DEF AfterPlan, Terminated
  <2>2. ent[x.order].status = "revoked" => w = "revoked"
    OBVIOUS
  <2> HIDE DEF v, w
  <2> QED BY <1>1, <2>1, <2>2
<1>5. ent[x.order].status = "revoked" => AfterSlice(p, x, f).ent.status = "revoked"
  BY <1>1, <1>2 DEF AfterSlice, Cut, GoesOn, Later, Current
<1> QED BY <1>3, <1>4, <1>5

\* A reversal writes what AfterPlan or AfterSlice leave, to the checkout of its
\* payment.
LEMMA ReverseRevives ==
  ASSUME IInv, NEW h \in Handler, Reverse(h), NEW o, o = charge[LogOf(h).ref].order
  PROVE  /\ sub[o] = "canceled" => sub'[o] = "canceled"
         /\ ent[o].status = "revoked" => ent'[o].status = "revoked"
<1>1. Shapes /\ Wired /\ Ready
  BY DEF IInv
<1>2. o \in Order /\ handler[h].effect.order = o
  <2>1. handler[h].effect.order = o
    BY <1>1, ReverseReady
  <2>2. o \in Order
    BY Zenon, <1>1, AtWork DEF Reverse, LogOf
  <2> QED BY <2>1, <2>2
<1> DEFINE x == handler[h].effect
           p == LogOf(h).ref
           s == handler[h].status
<1>3. x.order = o /\ DOMAIN sub = Order /\ DOMAIN ent = Order /\ DOMAIN ent[x.order] = EntFields
  BY <1>1, <1>2 DEF Shapes, Rows
<1>4. \/ UNCHANGED <<ent, sub>>
      \/ \E after : /\ after = AfterPlan(x, s) \/ \E f : after = AfterSlice(p, x, f)
                    /\ ent' = [ent EXCEPT ![x.order] = after.ent]
                    /\ sub' = [sub EXCEPT ![x.order] = IF @ = "none" THEN @ ELSE after.sub]
  BY Zenon DEF Reverse, LogOf
<1> HIDE DEF x, p, s
<1> QED BY <1>2, <1>3, <1>4, AfterKeeps

\* Whoever revokes an effect is the reversal of its payment.
LEMMA RefundRevives ==
  ASSUME IInv, Next, NEW p \in Pay, effect[p].state = "granted", effect'[p].state = "revoked"
  PROVE  LET o == effect[p].order
         IN  /\ sub[o] = "canceled" => sub'[o] = "canceled"
             /\ ent[o].status = "revoked" => ent'[o].status = "revoked"
<1>1. Shapes /\ Wired /\ effect[p].order = charge[p].order
  BY DEF IInv, Effects
<1>2. PICK h \in Handler : Reverse(h) /\ LogOf(h).ref = p
  BY <1>1, EffectMoves
<1> QED BY <1>1, <1>2, ReverseRevives

\* A refund puts nothing back, neither a cancelled subscription nor a window that a
\* chargeback revoked, in whatever order refunds and chargebacks are told (D140).
THEOREM RefundsReviveNothing == Spec => RefundRevivesNothing
<1>1. IInv /\ [Next]_vars =>
        [\A p \in Pay :
           effect[p].state = "granted" /\ effect'[p].state = "revoked" =>
             LET o == effect[p].order
             IN  /\ sub[o] = "canceled" => sub'[o] = "canceled"
                 /\ ent[o].status = "revoked" => ent'[o].status = "revoked"]_vars
  BY RefundRevives
<1> QED BY <1>1, BillingInvariant, PTL DEF Spec, RefundRevivesNothing
-----------------------------------------------------------------------------
(* Types. *)

\* A payment claims a period that no payment has.
LEMMA OwnKeyIs ==
  ASSUME NEW o, NEW e, e.start \in Nat, now \in Nat
  PROVE  \E n \in Nat : OwnKey(o, e) = KeyOf(o, e, n) /\ \A q \in Pay : effect[q].key # KeyOf(o, e, n)
<1>1. \A had : \E n \in Nat : Claimed(effect, o, e, had, now) = KeyOf(o, e, n) /\ \A q \in Pay : effect[q].key # KeyOf(o, e, n)
  BY ClaimedIs
<1> QED BY <1>1 DEF OwnKey

\* Subscriptions, windows, effects, grant keys and requests hold values of their types.
Requests == [pc : {"idle", "confirmed", "entered"}, log : Nat, status : Answers, ent : Ent, effect : Effect]
Typed ==
  /\ sub \in [Order -> SubStatus] /\ ent \in [Order -> Ent] /\ effect \in [Pay -> Effect]
  /\ keys \subseteq Order \X Nat \X Nat
  /\ handler \in [Handler -> Requests]

\* Rebill tells of a subscription once it is one, and the handler knows what it is told.
Reported == {"active", "paused", "defaulted", "cancelled", "finished"}
Heard ==
  /\ \A l \in DOMAIN log : ~IsPayment(l) => standing[log[l].ref] \in Reported
  /\ \A h \in Handler : handler[h].pc # "idle" /\ LogOf(h).kind = "subscription" =>
       handler[h].status \in IF Entered(h) THEN {"none", "active", "past_due", "canceled", "expired"} ELSE Reported

\* The invariant with the types of the data.
TInv == IInv /\ Typed /\ Heard

\* A plan lasts for some time.
LEMMA LengthType == ASSUME NEW o PROVE Length(o) \in Nat \ {0}
BY BillingConstants, SliceConstants DEF Length

\* A window that lapses is a window.
LEMMA LapsedType == ASSUME NEW e \in Ent, NEW t PROVE Lapsed(e, t) \in Ent
<1>1. e.status \in {"none", "active", "expired", "revoked"} /\ e.start \in Nat /\ e.expires \in Nat
  BY DEF Ent
<1>2. [e EXCEPT !.status = "expired"] \in Ent
  BY DEF Ent
<1> QED BY <1>2 DEF Lapsed

\* The grants of a window have keys of their type.
LEMMA GrantedType ==
  ASSUME keys \subseteq Order \X Nat \X Nat, now \in Nat, NEW o \in Order, NEW e \in Ent
  PROVE  Granted(o, e, now) \subseteq Order \X Nat \X Nat
<1>1. e.start \in Nat /\ Period(e, now) \in Nat
  <2>1. e.start \in Nat
    BY DEF Ent
  <2> QED BY <2>1, PeriodType
<1>2. KeyOf(o, e, Period(e, now)) \in Order \X Nat \X Nat
  BY <1>1 DEF KeyOf
<1> QED BY <1>2 DEF Granted

\* A payment opens or extends a window, and its slice ends with it.
LEMMA WindowType ==
  ASSUME now \in Nat, NEW e \in Ent, NEW o
  PROVE  /\ Window(e, o) \in Ent /\ Window(e, o).status = "active"
         /\ Window(e, o).expires - Length(o) \in Int
<1>1. e.start \in Nat /\ e.expires \in Nat /\ Length(o) \in Nat
  BY LengthType DEF Ent
<1> QED BY <1>1 DEF Window, Extended, Ent

\* A plan that ends leaves a window.
LEMMA AfterPlanType ==
  ASSUME now \in Nat, NEW x, NEW s, ent[x.order] \in Ent
  PROVE  AfterPlan(x, s).ent \in Ent /\ AfterPlan(x, s).sub \in SubStatus
<1>1. PICK e : e = ent[x.order]
  OBVIOUS
<1>2. /\ e.status \in {"none", "active", "expired", "revoked"} /\ e.start \in Nat /\ e.expires \in Nat
      /\ e = [status |-> e.status, start |-> e.start, expires |-> e.expires]
  BY <1>1 DEF Ent
<1>3. Min({e.expires, now}) \in Nat
  BY <1>2, TwoOf
<1>4. AfterPlan(x, s).ent = [status |-> IF s = "chargeback" \/ e.status = "revoked" THEN "revoked" ELSE "expired",
                             start |-> e.start, expires |-> Min({e.expires, now})]
  BY <1>1, <1>2 DEF AfterPlan, Terminated
<1> QED BY <1>2, <1>3, <1>4 DEF AfterPlan, Terminated, Ent, SubStatus

\* The slices that end later than now, the first of them and the last.
LaterOf(p, x, f) == {q \in Slices(f, p, x.order) : f[q].end > now}
FirstStart(p, x, f) == Min({f[q].start : q \in LaterOf(p, x, f)})
LastEnd(p, x, f) == Max({f[q].end : q \in LaterOf(p, x, f)})
CurrentOf(x) == x.start <= now /\ now < x.end
Moved(p, x, f) == LaterOf(p, x, f) # {} /\ (CurrentOf(x) => FirstStart(p, x, f) > now)

\* A window with a new end, and a new status.
LEMMA EntWith ==
  ASSUME NEW e \in Ent, NEW v, NEW w
  PROVE  /\ [e EXCEPT !.expires = v, !.status = w] = [status |-> w, start |-> e.start, expires |-> v]
         /\ [e EXCEPT !.expires = v] = [status |-> e.status, start |-> e.start, expires |-> v]
<1>0. DOMAIN e = {"status", "start", "expires"}
  BY DEF Ent
<1>1. [e EXCEPT !.expires = v, !.status = w] = [status |-> w, start |-> e.start, expires |-> v]
  <2>1. PICK d : d = [e EXCEPT !.expires = v, !.status = w]
    OBVIOUS
  <2>2. d = [x \in {"status", "start", "expires"} |-> d[x]]
    BY <1>0, <2>1
  <2>3. d.status = w /\ d.expires = v /\ d.start = e.start
    BY <1>0, <2>1
  <2>4. d = [status |-> w, start |-> e.start, expires |-> v]
    BY <2>2, <2>3
  <2> QED BY <2>1, <2>4
<1>2. [e EXCEPT !.expires = v] = [status |-> e.status, start |-> e.start, expires |-> v]
  <2>1. PICK d : d = [e EXCEPT !.expires = v]
    OBVIOUS
  <2>2. d = [x \in {"status", "start", "expires"} |-> d[x]]
    BY <1>0, <2>1
  <2>3. d.status = e.status /\ d.expires = v /\ d.start = e.start
    BY <1>0, <2>1
  <2>4. d = [status |-> e.status, start |-> e.start, expires |-> v]
    BY <2>2, <2>3
  <2> QED BY <2>1, <2>4
<1> QED BY <1>1, <1>2

\* The window that is left of a slice that is taken out: a part of it, or nothing more.
LEMMA AfterSliceIs ==
  ASSUME NEW p, NEW x, NEW f, ent[x.order] \in Ent
  PROVE  /\ ~Moved(p, x, f) => \E s \in {"expired", "revoked"} :
              /\ AfterSlice(p, x, f).ent =
                    [status |-> s, start |-> ent[x.order].start, expires |-> Min({ent[x.order].expires, now})]
              /\ s = "revoked" => ent[x.order].status = "revoked"
         /\ Moved(p, x, f) /\ ent[x.order].status = "revoked" => AfterSlice(p, x, f).ent =
              [status |-> "revoked", start |-> ent[x.order].start, expires |-> Min({ent[x.order].expires, now})]
         /\ Moved(p, x, f) /\ ent[x.order].status # "revoked" => AfterSlice(p, x, f).ent =
              [status |-> "active", start |-> IF CurrentOf(x) THEN FirstStart(p, x, f) ELSE ent[x.order].start,
               expires |-> LastEnd(p, x, f)]
<1>1. /\ ~Moved(p, x, f) => AfterSlice(p, x, f).ent =
           [ent[x.order] EXCEPT !.expires = Min({@, now}), !.status = IF @ = "revoked" THEN @ ELSE "expired"]
      /\ Moved(p, x, f) /\ ent[x.order].status = "revoked" => AfterSlice(p, x, f).ent =
           [ent[x.order] EXCEPT !.expires = Min({@, now})]
      /\ Moved(p, x, f) /\ ent[x.order].status # "revoked" => AfterSlice(p, x, f).ent =
           [status |-> "active", start |-> IF CurrentOf(x) THEN FirstStart(p, x, f) ELSE ent[x.order].start,
            expires |-> LastEnd(p, x, f)]
  BY DEF AfterSlice, Cut, GoesOn, Later, Current, Moved, LaterOf, FirstStart, LastEnd, CurrentOf
<1>2. ASSUME ~Moved(p, x, f)
      PROVE  \E s \in {"expired", "revoked"} :
              /\ AfterSlice(p, x, f).ent =
                    [status |-> s, start |-> ent[x.order].start, expires |-> Min({ent[x.order].expires, now})]
              /\ s = "revoked" => ent[x.order].status = "revoked"
  <2> DEFINE s == IF ent[x.order].status = "revoked" THEN ent[x.order].status ELSE "expired"
             m == Min({ent[x.order].expires, now})
  <2>1. AfterSlice(p, x, f).ent = [ent[x.order] EXCEPT !.expires = m, !.status = s]
    BY Zenon, <1>1, <1>2
  <2>2. s \in {"expired", "revoked"} /\ (s = "revoked" => ent[x.order].status = "revoked")
    OBVIOUS
  <2> HIDE DEF s, m
  <2>3. AfterSlice(p, x, f).ent = [status |-> s, start |-> ent[x.order].start, expires |-> m]
    BY Zenon, <2>1, EntWith
  <2> QED BY <2>2, <2>3 DEF m
<1>3. ASSUME Moved(p, x, f), ent[x.order].status = "revoked"
      PROVE  AfterSlice(p, x, f).ent =
              [status |-> "revoked", start |-> ent[x.order].start, expires |-> Min({ent[x.order].expires, now})]
  <2> DEFINE m == Min({ent[x.order].expires, now})
  <2>1. AfterSlice(p, x, f).ent = [ent[x.order] EXCEPT !.expires = m]
    BY Zenon, <1>1, <1>3
  <2> HIDE DEF m
  <2>2. AfterSlice(p, x, f).ent = [status |-> ent[x.order].status, start |-> ent[x.order].start, expires |-> m]
    BY Zenon, <2>1, EntWith
  <2> QED BY <1>3, <2>2 DEF m
<1> QED BY <1>1, <1>2, <1>3

\* The first start and the last end are those of slices that end later.
LEMMA LaterEnds ==
  ASSUME NEW p, NEW x, NEW f, \A q \in Pay : f[q].start \in Int /\ f[q].end \in Int, LaterOf(p, x, f) # {}
  PROVE  /\ \E q \in LaterOf(p, x, f) : LastEnd(p, x, f) = f[q].end
         /\ \A q \in LaterOf(p, x, f) : f[q].end <= LastEnd(p, x, f)
         /\ \E q \in LaterOf(p, x, f) : FirstStart(p, x, f) = f[q].start
         /\ \A q \in LaterOf(p, x, f) : FirstStart(p, x, f) <= f[q].start
<1>6. LaterOf(p, x, f) \subseteq Pay /\ IsFiniteSet(LaterOf(p, x, f))
  BY SlicesFinite DEF LaterOf
<1>7. /\ \E q \in LaterOf(p, x, f) : LastEnd(p, x, f) = f[q].end
      /\ \A q \in LaterOf(p, x, f) : f[q].end <= LastEnd(p, x, f)
  <2> DEFINE v == [q \in LaterOf(p, x, f) |-> f[q].end]
  <2>1. \A q \in LaterOf(p, x, f) : v[q] \in Int /\ v[q] = f[q].end
    BY <1>6
  <2>2. {v[q] : q \in LaterOf(p, x, f)} = {f[q].end : q \in LaterOf(p, x, f)}
    BY <2>1
  <2> HIDE DEF v
  <2>3. /\ \E q \in LaterOf(p, x, f) : Max({v[r] : r \in LaterOf(p, x, f)}) = v[q]
        /\ \A r \in LaterOf(p, x, f) : v[r] <= Max({v[s] : s \in LaterOf(p, x, f)})
    BY <1>6, <2>1, MaxOf
  <2>4. LastEnd(p, x, f) = Max({v[r] : r \in LaterOf(p, x, f)})
    BY <2>2 DEF LastEnd
  <2> QED BY <2>1, <2>3, <2>4
<1>8. /\ \E q \in LaterOf(p, x, f) : FirstStart(p, x, f) = f[q].start
      /\ \A q \in LaterOf(p, x, f) : FirstStart(p, x, f) <= f[q].start
  <2> DEFINE v == [q \in LaterOf(p, x, f) |-> f[q].start]
  <2>1. \A q \in LaterOf(p, x, f) : v[q] \in Int /\ v[q] = f[q].start
    BY <1>6
  <2>2. {v[q] : q \in LaterOf(p, x, f)} = {f[q].start : q \in LaterOf(p, x, f)}
    BY <2>1
  <2> HIDE DEF v
  <2>3. /\ \E q \in LaterOf(p, x, f) : Min({v[r] : r \in LaterOf(p, x, f)}) = v[q]
        /\ \A r \in LaterOf(p, x, f) : Min({v[s] : s \in LaterOf(p, x, f)}) <= v[r]
    BY <1>6, <2>1, MinOf
  <2>4. FirstStart(p, x, f) = Min({v[r] : r \in LaterOf(p, x, f)})
    BY <2>2 DEF FirstStart
  <2> QED BY <2>1, <2>3, <2>4
<1> QED BY <1>7, <1>8

\* What is left of a slice has its type.
LEMMA AfterSliceType ==
  ASSUME now \in Nat, NEW p, NEW x, NEW f, ent[x.order] \in Ent, sub[x.order] \in SubStatus,
         \A q \in Pay : f[q].start \in Int /\ f[q].end \in Int
  PROVE  AfterSlice(p, x, f).ent \in Ent /\ AfterSlice(p, x, f).sub \in SubStatus
<1>1. AfterSlice(p, x, f).sub \in SubStatus
  BY DEF AfterSlice, Cut, GoesOn, Later, Current, SubStatus
<1>2. ent[x.order].start \in Nat /\ Min({ent[x.order].expires, now}) \in Nat
  <2>1. ent[x.order].start \in Nat /\ ent[x.order].expires \in Nat
    BY DEF Ent
  <2> QED BY <2>1, TwoOf
<1>3. \A s \in {"none", "active", "expired", "revoked"}, v, w \in Nat : [status |-> s, start |-> v, expires |-> w] \in Ent
  BY DEF Ent
<1>4. CASE ~Moved(p, x, f)
  <2>1. PICK s \in {"expired", "revoked"} : AfterSlice(p, x, f).ent =
            [status |-> s, start |-> ent[x.order].start, expires |-> Min({ent[x.order].expires, now})]
    BY <1>4, AfterSliceIs
  <2>2. s \in {"none", "active", "expired", "revoked"}
    OBVIOUS
  <2> QED BY Zenon, <1>1, <1>2, <1>3, <2>1, <2>2
<1>5. CASE Moved(p, x, f) /\ ent[x.order].status = "revoked"
  <2>1. AfterSlice(p, x, f).ent =
            [status |-> "revoked", start |-> ent[x.order].start, expires |-> Min({ent[x.order].expires, now})]
    BY <1>5, AfterSliceIs
  <2>2. "revoked" \in {"none", "active", "expired", "revoked"}
    OBVIOUS
  <2> QED BY Zenon, <1>1, <1>2, <1>3, <2>1, <2>2
<1>6. CASE Moved(p, x, f) /\ ent[x.order].status # "revoked"
  <2>1. LaterOf(p, x, f) # {} /\ \A q \in LaterOf(p, x, f) : q \in Pay /\ f[q].end > now
    BY <1>6 DEF Moved, LaterOf, Slices
  <2>2. LastEnd(p, x, f) \in Nat
    BY <2>1, LaterEnds
  <2>3. CurrentOf(x) => FirstStart(p, x, f) \in Nat
    BY <1>6, <2>1, LaterEnds DEF Moved
  <2>4. AfterSlice(p, x, f).ent =
              [status |-> "active", start |-> IF CurrentOf(x) THEN FirstStart(p, x, f) ELSE ent[x.order].start,
               expires |-> LastEnd(p, x, f)]
    BY <1>6, AfterSliceIs
  <2>5. (IF CurrentOf(x) THEN FirstStart(p, x, f) ELSE ent[x.order].start) \in Nat
    BY <1>2, <2>3
  <2> QED BY <1>1, <1>3, <2>2, <2>4, <2>5
<1> QED BY <1>4, <1>5, <1>6

\* Slices that move up keep their types.
LEMMA ShiftedType ==
  ASSUME effect \in [Pay -> Effect], NEW p, NEW x \in Effect PROVE Shifted(p, x) \in [Pay -> Effect]
<1>1. x.start \in Int /\ x.end \in Int
  BY DEF Effect
<1>2. ASSUME NEW d \in Effect PROVE [d EXCEPT !.start = @ - (x.end - x.start), !.end = @ - (x.end - x.start)] \in Effect
  <2>1. d.start - (x.end - x.start) \in Int /\ d.end - (x.end - x.start) \in Int
    BY <1>1 DEF Effect
  <2> QED BY <2>1 DEF Effect
<1>3. ASSUME NEW q \in Pay PROVE Shifted(p, x)[q] \in Effect
  BY <1>2 DEF Shifted, MovedUp, Current
<1> QED BY <1>3 DEF Shifted, MovedUp, Current

\* Slices that are numbered again keep their types.
LEMMA RenumberedType ==
  ASSUME NEW f \in [Pay -> Effect], NEW p, NEW o \in Order, NEW e \in Ent
  PROVE  Renumbered(f, p, o, e) \in [Pay -> Effect]
<1>1. e.start \in Nat
  BY DEF Ent
<1>2. \A q \in Pay : DOMAIN f[q] = EffectFields /\ f[q].start \in Int
  BY DEF Effect, EffectFields
<1>3. ASSUME NEW q \in Pay PROVE Renumbered(f, p, o, e)[q] \in Effect
  <2>1. CASE q \notin Slices(f, p, o)
    BY <1>1, <1>2, <2>1, RenumberedKeys
  <2>2. CASE q \in Slices(f, p, o)
    <3>1. PICK n \in Nat : Renumbered(f, p, o, e)[q] = [f[q] EXCEPT !.key = KeyOf(o, e, n)]
      BY <1>1, <1>2, <2>2, RenumberedKeys
    <3>2. KeyOf(o, e, n) \in Order \X Nat \X Nat
      BY <1>1 DEF KeyOf
    <3>3. f[q] \in Effect
      OBVIOUS
    <3> QED BY <3>1, <3>2, <3>3 DEF Effect
  <2> QED BY <2>1, <2>2
<1> QED BY <1>3 DEF Renumbered

\* A request that hears of a log.
LEMMA RequestHears ==
  ASSUME NEW r \in Requests, NEW u, NEW v, NEW w
  PROVE  [r EXCEPT !.pc = u, !.log = v, !.status = w] =
           [pc |-> u, log |-> v, status |-> w, ent |-> r.ent, effect |-> r.effect]
<1>1. DOMAIN r = HandlerFields
  BY DEF Requests, HandlerFields
<1>2. PICK d : d = [r EXCEPT !.pc = u, !.log = v, !.status = w]
  OBVIOUS
<1>3. d = [x \in HandlerFields |-> d[x]]
  BY <1>1, <1>2
<1>4. d.pc = u /\ d.log = v /\ d.status = w /\ d.ent = r.ent /\ d.effect = r.effect
  BY <1>1, <1>2 DEF HandlerFields
<1>5. d = [pc |-> u, log |-> v, status |-> w, ent |-> r.ent, effect |-> r.effect]
  BY <1>3, <1>4 DEF HandlerFields
<1> QED BY <1>2, <1>5

\* A request that reads the rows.
LEMMA RequestReads ==
  ASSUME NEW r \in Requests, NEW u, NEW v, NEW w
  PROVE  [r EXCEPT !.pc = u, !.ent = v, !.effect = w] =
           [pc |-> u, log |-> r.log, status |-> r.status, ent |-> v, effect |-> w]
<1>1. DOMAIN r = HandlerFields
  BY DEF Requests, HandlerFields
<1>2. PICK d : d = [r EXCEPT !.pc = u, !.ent = v, !.effect = w]
  OBVIOUS
<1>3. d = [x \in HandlerFields |-> d[x]]
  BY <1>1, <1>2
<1>4. d.pc = u /\ d.log = r.log /\ d.status = r.status /\ d.ent = v /\ d.effect = w
  BY <1>1, <1>2 DEF HandlerFields
<1>5. d = [pc |-> u, log |-> r.log, status |-> r.status, ent |-> v, effect |-> w]
  BY <1>3, <1>4 DEF HandlerFields
<1> QED BY <1>2, <1>5

\* A request that is to write a status.
LEMMA RequestTurns ==
  ASSUME NEW r \in Requests, NEW u, NEW v
  PROVE  [r EXCEPT !.pc = u, !.status = v] =
           [pc |-> u, log |-> r.log, status |-> v, ent |-> r.ent, effect |-> r.effect]
<1>1. DOMAIN r = HandlerFields
  BY DEF Requests, HandlerFields
<1>2. PICK d : d = [r EXCEPT !.pc = u, !.status = v]
  OBVIOUS
<1>3. d = [x \in HandlerFields |-> d[x]]
  BY <1>1, <1>2
<1>4. d.pc = u /\ d.log = r.log /\ d.status = v /\ d.ent = r.ent /\ d.effect = r.effect
  BY <1>1, <1>2 DEF HandlerFields
<1>5. d = [pc |-> u, log |-> r.log, status |-> v, ent |-> r.ent, effect |-> r.effect]
  BY <1>3, <1>4 DEF HandlerFields
<1> QED BY <1>2, <1>5

\* Nothing is a window, an effect or a request at rest.
LEMMA NothingType == NoEnt \in Ent /\ NoEffect \in Effect /\ Quiet \in Requests
<1>1. NoEnt \in Ent
  BY DEF NoEnt, Ent
<1>2. NoEffect \in Effect
  BY DEF NoEffect, Effect
<1> QED BY <1>1, <1>2 DEF Quiet, Requests, Answers, Standings

\* What a request knows, and from whom: it asks Rebill, and then reads the rows.
LEMMA Reads ==
  ASSUME Shapes, Typed, Next, NEW h \in Handler
  PROVE  \/ handler'[h] = handler[h]
         \/ handler'[h] = Quiet
         \/ \E l \in DOMAIN log :
              /\ Confirm(h, l)
              /\ handler'[h] = [pc |-> "confirmed", log |-> l,
                                status |-> IF IsPayment(l) THEN charge[log[l].ref].status ELSE standing[log[l].ref],
                                ent |-> NoEnt, effect |-> NoEffect]
         \/ /\ Enter(h) /\ handler[h].pc = "confirmed" /\ LogOf(h).kind = "payment"
            /\ Verdict(LogOf(h).ref, handler[h].status) \in {"grant", "reverse"}
            /\ UNCHANGED <<refunds, sub, log>>
            /\ handler'[h] = [pc |-> "entered", log |-> handler[h].log, status |-> handler[h].status,
                              ent |-> ent[charge[LogOf(h).ref].order], effect |-> effect[LogOf(h).ref]]
         \/ /\ EnterSubscription(h) /\ handler[h].pc = "confirmed" /\ LogOf(h).kind = "subscription"
            /\ UNCHANGED log
            /\ \E s \in {"none", Mapped(handler[h].status)} :
                 handler'[h] = [pc |-> "entered", log |-> handler[h].log, status |-> s,
                                ent |-> handler[h].ent, effect |-> handler[h].effect]
<1>0. handler \in [Handler -> Requests] /\ handler[h] \in Requests
  BY DEF Typed
<1>a. ASSUME NEW g \in Handler, NEW c, Becomes(g, c)
      PROVE  handler'[g] = c /\ \A k \in Handler : k # g => handler'[k] = handler[k]
  BY <1>0, <1>a DEF Becomes
<1> DEFINE Goal ==
         \/ handler'[h] = handler[h]
         \/ handler'[h] = Quiet
         \/ \E l \in DOMAIN log :
              /\ Confirm(h, l)
              /\ handler'[h] = [pc |-> "confirmed", log |-> l,
                                status |-> IF IsPayment(l) THEN charge[log[l].ref].status ELSE standing[log[l].ref],
                                ent |-> NoEnt, effect |-> NoEffect]
         \/ /\ Enter(h) /\ handler[h].pc = "confirmed" /\ LogOf(h).kind = "payment"
            /\ Verdict(LogOf(h).ref, handler[h].status) \in {"grant", "reverse"}
            /\ UNCHANGED <<refunds, sub, log>>
            /\ handler'[h] = [pc |-> "entered", log |-> handler[h].log, status |-> handler[h].status,
                              ent |-> ent[charge[LogOf(h).ref].order], effect |-> effect[LogOf(h).ref]]
         \/ /\ EnterSubscription(h) /\ handler[h].pc = "confirmed" /\ LogOf(h).kind = "subscription"
            /\ UNCHANGED log
            /\ \E s \in {"none", Mapped(handler[h].status)} :
                 handler'[h] = [pc |-> "entered", log |-> handler[h].log, status |-> s,
                                ent |-> handler[h].ent, effect |-> handler[h].effect]
<1>c. ASSUME NEW g \in Handler, NEW c, Becomes(g, c), g # h PROVE Goal
  BY <1>a, <1>c
<1>d. ASSUME Becomes(h, Quiet) PROVE Goal
  BY <1>a, <1>d
<1>1. ASSUME NEW l \in DOMAIN log, Confirm(h, l) PROVE Goal
  <2> DEFINE s == IF log[l].kind = "payment" THEN charge[log[l].ref].status ELSE standing[log[l].ref]
  <2>1. Becomes(h, [Quiet EXCEPT !.pc = "confirmed", !.log = l, !.status = s])
    BY Zenon, <1>1 DEF Confirm
  <2>2. s = IF IsPayment(l) THEN charge[log[l].ref].status ELSE standing[log[l].ref]
    BY DEF IsPayment
  <2> HIDE DEF s
  <2>3. [Quiet EXCEPT !.pc = "confirmed", !.log = l, !.status = s] =
          [pc |-> "confirmed", log |-> l, status |-> s, ent |-> NoEnt, effect |-> NoEffect]
    <3>1. Quiet.ent = NoEnt /\ Quiet.effect = NoEffect
      BY DEF Quiet
    <3>2. [Quiet EXCEPT !.pc = "confirmed", !.log = l, !.status = s] =
            [pc |-> "confirmed", log |-> l, status |-> s, ent |-> Quiet.ent, effect |-> Quiet.effect]
      BY Zenon, NothingType, RequestHears
    <3> QED BY Zenon, <3>1, <3>2
  <2>4. handler'[h] = [pc |-> "confirmed", log |-> l, status |-> s, ent |-> NoEnt, effect |-> NoEffect]
    BY <1>a, <2>1, <2>3
  <2> QED BY Zenon, <1>1, <2>2, <2>4
<1>2. ASSUME Enter(h) PROVE Goal
  <2>1. CASE Becomes(h, Quiet)
    BY <2>1, <1>d
  <2>2. CASE ~Becomes(h, Quiet)
    <3> DEFINE e == ent[charge[LogOf(h).ref].order]
               d == effect[LogOf(h).ref]
    <3>1. /\ handler[h].pc = "confirmed" /\ LogOf(h).kind = "payment"
          /\ Becomes(h, [handler[h] EXCEPT !.pc = "entered", !.ent = e, !.effect = d])
          /\ Verdict(LogOf(h).ref, handler[h].status) \in {"grant", "reverse"}
          /\ UNCHANGED <<refunds, sub, log>>
      BY Zenon, <1>2, <2>2 DEF Enter, LogOf
    <3> HIDE DEF e, d
    <3>2. [handler[h] EXCEPT !.pc = "entered", !.ent = e, !.effect = d] =
            [pc |-> "entered", log |-> handler[h].log, status |-> handler[h].status, ent |-> e, effect |-> d]
      BY Zenon, <1>0, RequestReads
    <3>3. handler'[h] = [pc |-> "entered", log |-> handler[h].log, status |-> handler[h].status, ent |-> e, effect |-> d]
      BY Zenon, <1>a, <3>1, <3>2
    <3> QED BY Zenon, <1>2, <3>1, <3>3 DEF e, d
  <2> QED BY <2>1, <2>2
<1>3. ASSUME EnterSubscription(h) PROVE Goal
  <2>1. CASE Becomes(h, Quiet)
    BY <2>1, <1>d
  <2>2. CASE ~Becomes(h, Quiet)
    <3>1. /\ handler[h].pc = "confirmed" /\ LogOf(h).kind = "subscription" /\ UNCHANGED log
          /\ \E s \in {"none", Mapped(handler[h].status)} : Becomes(h, [handler[h] EXCEPT !.pc = "entered", !.status = s])
      BY Zenon, <1>3, <2>2 DEF EnterSubscription, LogOf
    <3>2. PICK s \in {"none", Mapped(handler[h].status)} : Becomes(h, [handler[h] EXCEPT !.pc = "entered", !.status = s])
      BY Zenon, <3>1
    <3>3. handler'[h] = [pc |-> "entered", log |-> handler[h].log, status |-> s,
                         ent |-> handler[h].ent, effect |-> handler[h].effect]
      <4>1. [handler[h] EXCEPT !.pc = "entered", !.status = s] =
              [pc |-> "entered", log |-> handler[h].log, status |-> s, ent |-> handler[h].ent, effect |-> handler[h].effect]
        BY Zenon, <1>0, RequestTurns
      <4> QED BY Zenon, <1>a, <3>2, <4>1
    <3> QED BY Zenon, <1>3, <3>1, <3>3
  <2> QED BY <2>1, <2>2
<1>4. ASSUME NEW g \in Handler, Grant(g) \/ Reverse(g) \/ WriteSubscription(g) \/ DropRequest(g) PROVE Goal
  <2>1. Becomes(g, Quiet)
    BY Zenon, <1>4 DEF Grant, Reverse, WriteSubscription, DropRequest
  <2> HIDE DEF Goal
  <2> QED BY <2>1, <1>c, <1>d
<1>5. ASSUME NEW g \in Handler, g # h, Enter(g) \/ EnterSubscription(g) \/ \E l \in DOMAIN log : Confirm(g, l) PROVE Goal
  <2>1. \E c : Becomes(g, c)
    BY Zenon, <1>5 DEF Enter, EnterSubscription, Confirm
  <2> HIDE DEF Goal
  <2> QED BY <1>5, <2>1, <1>c
<1>6. UNCHANGED handler => Goal
  OBVIOUS
<1> HIDE DEF Goal
<1>7. Goal
  BY <1>1, <1>2, <1>3, <1>4, <1>5, <1>6, Movers
<1> QED BY <1>7 DEF Goal

\* Requests keep their types.
LEMMA RequestsStep ==
  ASSUME IInv, Typed, Heard, Next PROVE handler' \in [Handler -> Requests]
<1>0. Shapes /\ Wired /\ ent \in [Order -> Ent] /\ effect \in [Pay -> Effect] /\ handler \in [Handler -> Requests]
  BY DEF IInv, Typed
<1>1. handler' = [h \in Handler |-> handler'[h]]
  <2>1. ASSUME NEW g, NEW c, Becomes(g, c) PROVE handler' = [h \in Handler |-> handler'[h]]
    BY <1>0, <2>1 DEF Becomes
  <2>2. UNCHANGED handler \/ \E g \in Handler : \E c : Becomes(g, c)
    <3>1. ASSUME NEW g \in Handler,
                 \/ \E l \in DOMAIN log : Confirm(g, l)
                 \/ Enter(g) \/ Grant(g) \/ Reverse(g) \/ EnterSubscription(g) \/ WriteSubscription(g) \/ DropRequest(g)
          PROVE  \E c : Becomes(g, c)
      BY Zenon, <3>1 DEF Confirm, Enter, Grant, Reverse, EnterSubscription, WriteSubscription, DropRequest
    <3> QED BY <3>1, Movers, <1>0
  <2>3. UNCHANGED handler => handler' = [h \in Handler |-> handler'[h]]
    BY <1>0
  <2> QED BY <2>1, <2>2, <2>3
<1>2. ASSUME NEW u \in {"idle", "confirmed", "entered"}, NEW l \in Nat, NEW s \in Answers,
             NEW e \in Ent, NEW d \in Effect
      PROVE  [pc |-> u, log |-> l, status |-> s, ent |-> e, effect |-> d] \in Requests
  BY DEF Requests
<1>3. ASSUME NEW h \in Handler PROVE handler'[h] \in Requests
  <2>0. handler[h] \in Requests /\ handler[h].log \in Nat /\ handler[h].status \in Answers
        /\ handler[h].ent \in Ent /\ handler[h].effect \in Effect
    BY <1>0 DEF Requests
  <2>1. ASSUME NEW l \in DOMAIN log,
               handler'[h] = [pc |-> "confirmed", log |-> l,
                       status |-> IF IsPayment(l) THEN charge[log[l].ref].status ELSE standing[log[l].ref],
                       ent |-> NoEnt, effect |-> NoEffect]
        PROVE  handler'[h] \in Requests
    <3>1. l \in Nat
      BY <1>0 DEF Shapes, Webhooks
    <3>2. IF IsPayment(l) THEN log[l].ref \in Pay ELSE log[l].ref \in Order
      BY <1>0 DEF Wired
    <3>3. PICK s : s = IF IsPayment(l) THEN charge[log[l].ref].status ELSE standing[log[l].ref]
      OBVIOUS
    <3>4. s \in Answers
      BY <1>0, <3>2, <3>3 DEF Shapes, Facts, Standings, Answers
    <3> QED BY <1>2, <2>1, <3>1, <3>3, <3>4, NothingType
  <2>2. ASSUME handler[h].pc = "confirmed", LogOf(h).kind = "payment",
               handler'[h] = [pc |-> "entered", log |-> handler[h].log, status |-> handler[h].status,
                     ent |-> ent[charge[LogOf(h).ref].order], effect |-> effect[LogOf(h).ref]]
        PROVE  handler'[h] \in Requests
    <3>1. LogOf(h).ref \in Pay /\ charge[LogOf(h).ref].order \in Order
      BY <1>0, <2>2, AtWork
    <3>2. ent[charge[LogOf(h).ref].order] \in Ent /\ effect[LogOf(h).ref] \in Effect
      BY <1>0, <3>1
    <3> QED BY <1>2, <2>0, <2>2, <3>2
  <2>3. ASSUME handler[h].pc = "confirmed", LogOf(h).kind = "subscription",
               NEW s \in {"none", Mapped(handler[h].status)},
               handler'[h] = [pc |-> "entered", log |-> handler[h].log, status |-> s,
                       ent |-> handler[h].ent, effect |-> handler[h].effect]
        PROVE  handler'[h] \in Requests
    <3>1. handler[h].status \in Reported
      BY <2>3 DEF Heard, Entered
    <3>2. s \in Answers
      BY <2>3, <3>1 DEF Mapped, Reported, Answers, Standings, SubStatus
    <3> QED BY <1>2, <2>0, <2>3, <3>2
  <2> QED BY <1>0, <2>0, <2>1, <2>2, <2>3, Reads, NothingType
<1> QED BY <1>1, <1>3

-----------------------------------------------------------------------------
(* What a grant and a reversal write. *)

\* A revoked effect is an effect, and the others are as they were.
LEMMA RevokedIs ==
  ASSUME NEW f \in [Pay -> Effect], NEW p \in Pay
  PROVE  /\ [f EXCEPT ![p].state = "revoked"] \in [Pay -> Effect]
         /\ \A q \in Pay : /\ [f EXCEPT ![p].state = "revoked"][q].state = IF q = p THEN "revoked" ELSE f[q].state
                           /\ [f EXCEPT ![p].state = "revoked"][q].order = f[q].order
                           /\ [f EXCEPT ![p].state = "revoked"][q].start = f[q].start
                           /\ [f EXCEPT ![p].state = "revoked"][q].end = f[q].end
                           /\ [f EXCEPT ![p].state = "revoked"][q].key = f[q].key
<1>1. PICK d : d = [f[p] EXCEPT !.state = "revoked"]
  OBVIOUS
<1>2. d \in Effect /\ d.state = "revoked" /\ d.order = f[p].order /\ d.start = f[p].start /\ d.end = f[p].end /\ d.key = f[p].key
  BY <1>1 DEF Effect
<1>3. PICK g : g = [f EXCEPT ![p].state = "revoked"]
  OBVIOUS
<1>4. g = [f EXCEPT ![p] = d]
  BY <1>1, <1>3
<1>5. g \in [Pay -> Effect] /\ \A q \in Pay : g[q] = IF q = p THEN d ELSE f[q]
  BY <1>2, <1>4
<1>6. \A q \in Pay : /\ g[q].state = IF q = p THEN "revoked" ELSE f[q].state
                     /\ g[q].order = f[q].order /\ g[q].start = f[q].start /\ g[q].end = f[q].end /\ g[q].key = f[q].key
  BY <1>2, <1>5
<1> QED BY Zenon, <1>3, <1>5, <1>6

\* The slices that move up, and by how much.
Behind(p, x, q) ==
  q # p /\ effect[q].state = "granted" /\ effect[q].order = x.order /\ ~CurrentOf(x) /\ effect[q].start >= x.end

\* A slice has moved up by the length of the one that is taken out, or is as it was.
LEMMA ShiftedIs ==
  ASSUME effect \in [Pay -> Effect], NEW p, NEW x \in Effect, NEW q \in Pay
  PROVE  /\ Shifted(p, x)[q].state = effect[q].state /\ Shifted(p, x)[q].order = effect[q].order
         /\ Shifted(p, x)[q].key = effect[q].key
         /\ Shifted(p, x)[q].start = IF Behind(p, x, q) THEN effect[q].start - (x.end - x.start) ELSE effect[q].start
         /\ Shifted(p, x)[q].end = IF Behind(p, x, q) THEN effect[q].end - (x.end - x.start) ELSE effect[q].end
<1>1. CASE Behind(p, x, q)
  <2>1. Shifted(p, x)[q] = [effect[q] EXCEPT !.start = @ - (x.end - x.start), !.end = @ - (x.end - x.start)]
    BY <1>1 DEF Shifted, MovedUp, Current, Behind, CurrentOf
  <2>2. effect[q] \in Effect
    OBVIOUS
  <2> QED BY <1>1, <2>1, <2>2 DEF Effect
<1>2. CASE ~Behind(p, x, q)
  <2>1. Shifted(p, x)[q] = effect[q]
    BY <1>2 DEF Shifted, MovedUp, Current, Behind, CurrentOf
  <2> QED BY <1>2, <2>1
<1> QED BY <1>1, <1>2

\* The payment a request is about, and its checkout.
PayOf(h) == LogOf(h).ref
OrderOf(h) == charge[PayOf(h)].order

\* A grant of a pack writes an effect; one of a plan also a window e, and a grant key
\* that is the payment's own.
GrantsPack(p, o) ==
  /\ effect' = [effect EXCEPT ![p] = [NoEffect EXCEPT !.state = "granted", !.order = o]]
  /\ UNCHANGED <<sub, ent, keys>>
GrantsPlan(h, p, o, e, n) ==
  /\ e = Window(handler[h].ent, o)
  /\ sub' = [sub EXCEPT ![o] = "active"]
  /\ ent' = [ent EXCEPT ![o] = e]
  /\ keys' = Granted(o, e, now)
  /\ effect' = [effect EXCEPT ![p] = [state |-> "granted", order |-> o, start |-> e.expires - Length(o),
                                      end |-> e.expires, key |-> KeyOf(o, e, n)]]
  /\ \A q \in Pay : effect[q].key # KeyOf(o, e, n)

\* Who is about to grant or to reverse.
Grants(h, p, o) ==
  /\ p \in Pay /\ o \in Order /\ Owner[o] \notin erased /\ effect[p].state = "none"
  /\ Entered(h) /\ LogOf(h).kind = "payment" /\ handler[h].status = "approved"
Reverses(h, p, o, x) ==
  /\ p \in Pay /\ o \in Order /\ Owner[o] \notin erased /\ x \in Effect /\ x.order = o
  /\ Entered(h) /\ LogOf(h).kind = "payment" /\ handler[h].status \in {"refunded", "chargeback"}

\* A grant writes the payment's slice, and a window of its own or a longer one.
LEMMA GrantWrites ==
  ASSUME IInv, Typed, NEW h \in Handler, Grant(h), NEW p, p = PayOf(h), NEW o, o = OrderOf(h)
  PROVE  /\ Grants(h, p, o)
         /\ o \in Packs => GrantsPack(p, o)
         /\ o \notin Packs => \E e \in Ent, n \in Nat : GrantsPlan(h, p, o, e, n)
<1> USE DEF PayOf, OrderOf
<1>0. Shapes /\ Wired /\ now \in Nat /\ handler[h].ent \in Ent
  <2>1. handler[h] \in Requests /\ Shapes /\ Wired
    BY DEF IInv, Typed
  <2> QED BY <2>1 DEF Requests, Shapes, Facts
<1>1. /\ Entered(h) /\ LogOf(h).kind = "payment" /\ handler[h].status = "approved" /\ handler[h].pc # "idle"
      /\ Owner[o] \notin erased
  BY Zenon DEF Grant, LogOf, Entered
<1>2. p \in Pay /\ o \in Order
  BY <1>0, <1>1, AtWork
<1>3. effect[p].state = "none"
  BY <1>1 DEF IInv, Ready
<1>4. ASSUME o \in Packs PROVE GrantsPack(p, o)
  BY Zenon, <1>4 DEF Grant, LogOf, IsPlan, GrantsPack
<1>5. ASSUME o \notin Packs PROVE \E e \in Ent, n \in Nat : GrantsPlan(h, p, o, e, n)
  <2>1. PICK e : e = Window(handler[h].ent, o)
    OBVIOUS
  <2>2. e \in Ent /\ e.start \in Nat
    <3>1. e \in Ent
      BY <1>0, <2>1, WindowType
    <3> QED BY <3>1 DEF Ent
  <2>3. PICK n \in Nat : OwnKey(o, e) = KeyOf(o, e, n) /\ \A q \in Pay : effect[q].key # KeyOf(o, e, n)
    BY <1>0, <2>2, OwnKeyIs
  <2>4. /\ sub' = [sub EXCEPT ![o] = "active"]
        /\ ent' = [ent EXCEPT ![o] = e]
        /\ keys' = Granted(o, e, now)
        /\ effect' = [effect EXCEPT ![p] = [state |-> "granted", order |-> o, start |-> e.expires - Length(o),
                                            end |-> e.expires, key |-> OwnKey(o, e)]]
    BY Zenon, <1>5, <2>1 DEF Grant, LogOf, IsPlan
  <2>5. GrantsPlan(h, p, o, e, n)
    BY Zenon, <2>1, <2>3, <2>4 DEF GrantsPlan
  <2> QED BY <2>2, <2>3, <2>5
<1>6. Grants(h, p, o)
  BY <1>1, <1>2, <1>3 DEF Grants
<1> QED BY <1>4, <1>5, <1>6

\* A reversal takes out one slice, and others keep their payment and checkout.  A pack
\* has no window; a chargeback, or the refund of a year, ends the plan.  The refund of a
\* month leaves what AfterSlice says: months behind it move up, and the grant keys of the
\* checkout stay or are dealt out again, no two the same.
Others(p) ==
  /\ effect' \in [Pay -> Effect]
  /\ \A q \in Pay : effect'[q].order = effect[q].order /\ effect'[q].state = IF q = p THEN "revoked" ELSE effect[q].state
Stay == \A q \in Pay : /\ effect'[q].start = effect[q].start /\ effect'[q].end = effect[q].end
                       /\ effect'[q].key = effect[q].key
ReversesPack(o) == o \in Packs /\ UNCHANGED <<ent, sub, keys>> /\ Stay
ReversesPlan(h, o, x) ==
  /\ o \notin Packs /\ (handler[h].status = "chargeback" \/ o \in Annual)
  /\ ent' = [ent EXCEPT ![o] = AfterPlan(x, handler[h].status).ent]
  /\ sub' = [sub EXCEPT ![o] = IF @ = "none" THEN @ ELSE AfterPlan(x, handler[h].status).sub]
  /\ keys' \in {keys, Granted(o, AfterPlan(x, handler[h].status).ent, now)}
  /\ Stay
MoveUp(p, o, x) ==
  /\ \A q \in Pay : effect'[q].start = Shifted(p, x)[q].start /\ effect'[q].end = Shifted(p, x)[q].end
  /\ \A q \in Pay : q \notin Slices(effect, p, o) => effect'[q].key = effect[q].key
  /\ \/ \A q \in Pay : effect'[q].key = effect[q].key
     \/ \A q, r \in Slices(effect, p, o) : q # r => effect'[q].key # effect'[r].key
ReversesSlice(h, p, o, x) ==
  /\ o \notin Packs \cup Annual /\ handler[h].status = "refunded"
  /\ ent' = [ent EXCEPT ![o] = AfterSlice(p, x, Shifted(p, x)).ent]
  /\ sub' = [sub EXCEPT ![o] = IF @ = "none" THEN @ ELSE AfterSlice(p, x, Shifted(p, x)).sub]
  /\ keys' \in {keys, Granted(o, AfterSlice(p, x, Shifted(p, x)).ent, now)}
  /\ MoveUp(p, o, x)

\* A reversal writes one of these.
LEMMA ReverseWrites ==
  ASSUME IInv, Typed, NEW h \in Handler, Reverse(h), NEW p, p = PayOf(h), NEW o, o = OrderOf(h),
         NEW x, x = handler[h].effect
  PROVE  /\ Reverses(h, p, o, x) /\ Others(p)
         /\ ReversesPack(o) \/ ReversesPlan(h, o, x) \/ ReversesSlice(h, p, o, x)
<1> USE DEF PayOf, OrderOf
<1>r. SUFFICES /\ Reverses(h, p, o, x) /\ Others(p)
               /\ o \in Packs => ReversesPack(o)
               /\ o \notin Packs /\ (handler[h].status = "chargeback" \/ o \in Annual) => ReversesPlan(h, o, x)
               /\ o \notin Packs /\ handler[h].status # "chargeback" /\ o \notin Annual => ReversesSlice(h, p, o, x)
  OBVIOUS
<1>0. /\ Shapes /\ Wired /\ Ready /\ now \in Nat /\ x \in Effect /\ effect \in [Pay -> Effect]
      /\ ent \in [Order -> Ent] /\ sub \in [Order -> SubStatus]
  <2>1. handler[h] \in Requests /\ Shapes /\ Wired /\ Ready
    BY DEF IInv, Typed
  <2> QED BY <2>1 DEF Requests, Shapes, Facts, Typed
<1>1. /\ Entered(h) /\ LogOf(h).kind = "payment" /\ handler[h].status \in {"refunded", "chargeback"} /\ handler[h].pc # "idle"
      /\ Owner[x.order] \notin erased
  BY Zenon DEF Reverse, LogOf, Entered
<1>2. p \in Pay /\ o \in Order /\ x.order = o
  <2>1. p \in Pay /\ o \in Order
    BY <1>0, <1>1, AtWork
  <2> QED BY <1>0, <1>1, <2>1 DEF Ready
<1> DEFINE Same(f) == \A q \in Pay : /\ f[q].order = effect[q].order
                                     /\ f[q].state = IF q = p THEN "revoked" ELSE effect[q].state
           Kept(f) == \A q \in Pay : /\ f[q].start = effect[q].start /\ f[q].end = effect[q].end
                                     /\ f[q].key = effect[q].key
<1>3. CASE o \in Packs \/ handler[h].status = "chargeback" \/ o \in Annual
  <2> DEFINE g == [effect EXCEPT ![p].state = "revoked"]
  <2>1. g \in [Pay -> Effect] /\ Same(g) /\ Kept(g)
    BY <1>0, <1>2, RevokedIs
  <2>2. o \in Packs => effect' = g /\ UNCHANGED <<ent, sub, keys>>
    BY Zenon, <1>2 DEF Reverse, LogOf, IsPlan
  <2>3. o \notin Packs =>
          /\ effect' = g
          /\ ent' = [ent EXCEPT ![o] = AfterPlan(x, handler[h].status).ent]
          /\ sub' = [sub EXCEPT ![o] = IF @ = "none" THEN @ ELSE AfterPlan(x, handler[h].status).sub]
          /\ keys' \in {keys, Granted(o, AfterPlan(x, handler[h].status).ent, now)}
    BY Zenon, <1>2, <1>3 DEF Reverse, LogOf, IsPlan
  <2> HIDE DEF g
  <2>4. effect' = g
    BY <2>2, <2>3
  <2>5. Reverses(h, p, o, x) /\ Others(p) /\ Stay
    BY <1>0, <1>1, <1>2, <2>1, <2>4 DEF Reverses, Others, Stay
  <2>6. o \in Packs => ReversesPack(o)
    BY <2>2, <2>5 DEF ReversesPack
  <2>7. o \notin Packs => ReversesPlan(h, o, x)
    BY Zenon, <1>3, <2>3, <2>5 DEF ReversesPlan
  <2> QED BY <1>3, <2>5, <2>6, <2>7
<1>4. CASE o \notin Packs /\ handler[h].status # "chargeback" /\ o \notin Annual
  <2> DEFINE f == Shifted(p, x)
             g == [f EXCEPT ![p].state = "revoked"]
             after == AfterSlice(p, x, f)
  <2>1. f \in [Pay -> Effect] /\ \A q \in Pay : f[q].state = effect[q].state /\ f[q].order = effect[q].order /\ f[q].key = effect[q].key
    BY <1>0, <1>2, ShiftedType, ShiftedIs
  <2>2. /\ ent' = [ent EXCEPT ![o] = after.ent]
        /\ sub' = [sub EXCEPT ![o] = IF @ = "none" THEN @ ELSE after.sub]
        /\ keys' \in {keys, Granted(o, after.ent, now)}
        /\ effect' = g \/ effect' = Renumbered(g, p, o, after.ent)
    BY Zenon, <1>2, <1>4 DEF Reverse, LogOf, IsPlan
  <2>3. after.ent \in Ent
    <3>1. ent[x.order] \in Ent /\ sub[x.order] \in SubStatus /\ \A q \in Pay : f[q].start \in Int /\ f[q].end \in Int
      BY <1>0, <1>2, <2>1 DEF Effect
    <3> QED BY <1>0, <3>1, AfterSliceType
  <2> HIDE DEF f
  <2>4. g \in [Pay -> Effect] /\ \A q \in Pay : /\ g[q].state = IF q = p THEN "revoked" ELSE f[q].state
                                               /\ g[q].order = f[q].order /\ g[q].start = f[q].start
                                               /\ g[q].end = f[q].end /\ g[q].key = f[q].key
    BY <1>2, <2>1, RevokedIs
  <2> HIDE DEF g
  <2>5. Slices(g, p, o) = Slices(effect, p, o)
    BY <2>1, <2>4 DEF Slices
  <2>6. PICK e \in Ent : e = after.ent
    BY <2>3
  <2>7. /\ \A q \in Pay : DOMAIN g[q] = EffectFields /\ g[q].start \in Int
        /\ e.start \in Int
    BY <2>4 DEF Effect, EffectFields, Ent
  <2>8. /\ Renumbered(g, p, o, e) \in [Pay -> Effect]
        /\ \A q \in Pay : /\ Renumbered(g, p, o, e)[q].state = g[q].state /\ Renumbered(g, p, o, e)[q].order = g[q].order
                          /\ Renumbered(g, p, o, e)[q].start = g[q].start /\ Renumbered(g, p, o, e)[q].end = g[q].end
        /\ \A q \in Pay : q \notin Slices(effect, p, o) => Renumbered(g, p, o, e)[q].key = g[q].key
        /\ \A q, r \in Slices(effect, p, o) : q # r => Renumbered(g, p, o, e)[q].key # Renumbered(g, p, o, e)[r].key
    <3>1. Renumbered(g, p, o, e) \in [Pay -> Effect]
      BY <1>2, <2>4, RenumberedType
    <3>2. /\ \A q \in Slices(g, p, o) : \E n \in Nat : Renumbered(g, p, o, e)[q] = [g[q] EXCEPT !.key = KeyOf(o, e, n)]
          /\ \A q \in Pay : q \notin Slices(g, p, o) => Renumbered(g, p, o, e)[q] = g[q]
          /\ \A q, r \in Slices(g, p, o) : q # r => Renumbered(g, p, o, e)[q].key # Renumbered(g, p, o, e)[r].key
      BY <2>7, RenumberedKeys
    <3>3. ASSUME NEW q \in Pay
          PROVE  /\ Renumbered(g, p, o, e)[q].state = g[q].state /\ Renumbered(g, p, o, e)[q].order = g[q].order
                 /\ Renumbered(g, p, o, e)[q].start = g[q].start /\ Renumbered(g, p, o, e)[q].end = g[q].end
      <4>1. \E k : Renumbered(g, p, o, e)[q] = g[q] \/ Renumbered(g, p, o, e)[q] = [g[q] EXCEPT !.key = k]
        <5>1. CASE q \in Slices(g, p, o)
          <6>1. PICK n \in Nat : Renumbered(g, p, o, e)[q] = [g[q] EXCEPT !.key = KeyOf(o, e, n)]
            BY <3>2, <5>1
          <6> QED BY Zenon, <6>1
        <5>2. CASE q \notin Slices(g, p, o)
          BY <3>2, <5>2
        <5> QED BY <5>1, <5>2
      <4>2. PICK k : Renumbered(g, p, o, e)[q] = g[q] \/ Renumbered(g, p, o, e)[q] = [g[q] EXCEPT !.key = k]
        BY <4>1
      <4> QED BY <2>7, <4>2 DEF EffectFields
    <3> QED BY <2>5, <3>1, <3>2, <3>3
  <2> HIDE DEF after
  <2>9. effect' = g \/ effect' = Renumbered(g, p, o, e)
    BY <2>2, <2>6
  <2>10. /\ effect' \in [Pay -> Effect] /\ Same(effect')
         /\ \A q \in Pay : effect'[q].start = f[q].start /\ effect'[q].end = f[q].end
         /\ \A q \in Pay : q \notin Slices(effect, p, o) => effect'[q].key = effect[q].key
         /\ \/ \A q \in Pay : effect'[q].key = effect[q].key
            \/ \A q, r \in Slices(effect, p, o) : q # r => effect'[q].key # effect'[r].key
    <3>1. CASE effect' = g
      BY <2>1, <2>4, <3>1
    <3>2. CASE effect' = Renumbered(g, p, o, e)
      <4>1. PICK R : R = Renumbered(g, p, o, e)
        OBVIOUS
      <4>2. /\ R \in [Pay -> Effect] /\ effect' = R
            /\ \A q \in Pay : /\ R[q].state = g[q].state /\ R[q].order = g[q].order
                              /\ R[q].start = g[q].start /\ R[q].end = g[q].end
            /\ \A q \in Pay : q \notin Slices(effect, p, o) => R[q].key = g[q].key
            /\ \A q, r \in Slices(effect, p, o) : q # r => R[q].key # R[r].key
        BY <2>8, <3>2, <4>1
      <4> QED BY <2>1, <2>4, <4>2
    <3> QED BY <2>9, <3>1, <3>2
  <2>11. Reverses(h, p, o, x) /\ Others(p)
    BY <1>0, <1>1, <1>2, <2>10 DEF Reverses, Others
  <2>12. MoveUp(p, o, x)
    BY Zenon, <2>10 DEF MoveUp, f
  <2>13. handler[h].status = "refunded"
    BY <1>1, <1>4
  <2>14. ReversesSlice(h, p, o, x)
    BY Zenon, <1>4, <2>2, <2>12, <2>13 DEF ReversesSlice, f, after
  <2> QED BY <1>4, <2>11, <2>14
<1> QED BY <1>3, <1>4

-----------------------------------------------------------------------------
(* Every step keeps the types. *)

\* Rows of an account go with it.
LEMMA EraseWrites ==
  ASSUME NEW u \in User, Erase(u)
  PROVE  /\ sub' = [o \in Order |-> IF Owner[o] = u THEN "none" ELSE sub[o]]
         /\ ent' = [o \in Order |-> IF Owner[o] = u THEN NoEnt ELSE ent[o]]
         /\ effect' = [p \in Pay |-> IF effect[p].order \in OrdersOf(u) THEN NoEffect ELSE effect[p]]
         /\ keys' = {k \in keys : Owner[k[1]] # u}
BY DEF Erase

\* What a payment or a plan leaves for the subscription and its window has its type.
LEMMA LeftType ==
  ASSUME IInv, Typed, NEW h \in Handler, Reverse(h), NEW p, p = PayOf(h), NEW x, x = handler[h].effect
  PROVE  /\ AfterPlan(x, handler[h].status).ent \in Ent /\ AfterPlan(x, handler[h].status).sub \in SubStatus
         /\ AfterSlice(p, x, Shifted(p, x)).ent \in Ent /\ AfterSlice(p, x, Shifted(p, x)).sub \in SubStatus
<1>1. x \in Effect /\ x.order \in Order
  <2>1. PICK o : o = OrderOf(h)
    OBVIOUS
  <2> QED BY Zenon, <2>1, ReverseWrites DEF Reverses
<1>2. now \in Nat /\ effect \in [Pay -> Effect] /\ ent[x.order] \in Ent /\ sub[x.order] \in SubStatus
  BY <1>1 DEF IInv, Shapes, Facts, Typed
<1>3. Shifted(p, x) \in [Pay -> Effect]
  BY <1>1, <1>2, ShiftedType
<1>4. \A q \in Pay : Shifted(p, x)[q].start \in Int /\ Shifted(p, x)[q].end \in Int
  <2> HIDE DEF Shifted, MovedUp, Current
  <2> QED BY <1>3 DEF Effect
<1> QED BY <1>2, <1>4, AfterPlanType, AfterSliceType

\* Subscriptions keep their types.
LEMMA SubsType == ASSUME IInv, Typed, Heard, Next PROVE sub' \in [Order -> SubStatus]
<1>0. Shapes /\ Wired /\ sub \in [Order -> SubStatus]
  BY DEF IInv, Typed
<1>a. ASSUME NEW o, NEW s \in SubStatus, sub' = [sub EXCEPT ![o] = s] PROVE sub' \in [Order -> SubStatus]
  BY <1>0, <1>a
<1>1. ASSUME NEW o \in Order, GrantRun(o) PROVE sub' \in [Order -> SubStatus]
  BY <1>0, <1>1 DEF GrantRun, SubStatus
<1>2. ASSUME NEW h \in Handler, Enter(h) PROVE sub' \in [Order -> SubStatus]
  <2>1. \E o, s : sub' = [sub EXCEPT ![o] = s] /\ s \in {"past_due", sub[o]}
    <3>1. UNCHANGED sub \/ \E v : sub' = [sub EXCEPT ![charge[LogOf(h).ref].order] =
                                           IF v = "past_due" /\ @ = "active" THEN "past_due" ELSE @]
      BY Zenon, <1>2 DEF Enter, LogOf
    <3> QED
      <4> DEFINE o == charge[LogOf(h).ref].order
      <4>1. o \in Order
        BY ZenonT(30), <1>0, <1>2, AtWork DEF Enter, LogOf
      <4>2. CASE UNCHANGED sub
        <5>1. sub' = [sub EXCEPT ![o] = sub[o]]
          BY <1>0, <4>2
        <5> QED BY <5>1
      <4>3. CASE ~UNCHANGED sub
        <5>1. PICK v : sub' = [sub EXCEPT ![o] = IF v = "past_due" /\ sub[o] = "active" THEN "past_due" ELSE sub[o]]
          BY <3>1, <4>3
        <5> QED BY <5>1
      <4> QED BY <4>2, <4>3
  <2>2. PICK o, s : sub' = [sub EXCEPT ![o] = s] /\ s \in {"past_due", sub[o]}
    BY <2>1
  <2> QED BY <1>0, <2>2 DEF SubStatus
<1>3. ASSUME NEW h \in Handler, Grant(h) PROVE sub' \in [Order -> SubStatus]
  <2>1. UNCHANGED sub \/ \E o : sub' = [sub EXCEPT ![o] = "active"]
    BY Zenon, <1>3 DEF Grant
  <2> QED BY <1>0, <2>1 DEF SubStatus
<1>4. ASSUME NEW h \in Handler, Reverse(h) PROVE sub' \in [Order -> SubStatus]
  <2>1. PICK p, x, o : p = PayOf(h) /\ x = handler[h].effect /\ o = OrderOf(h)
    OBVIOUS
  <2>2. \/ UNCHANGED sub
        \/ \E s \in SubStatus : sub' = [sub EXCEPT ![o] = IF @ = "none" THEN @ ELSE s]
    <3>1. \/ UNCHANGED sub
          \/ sub' = [sub EXCEPT ![o] = IF @ = "none" THEN @ ELSE AfterPlan(x, handler[h].status).sub]
          \/ sub' = [sub EXCEPT ![o] = IF @ = "none" THEN @ ELSE AfterSlice(p, x, Shifted(p, x)).sub]
      <4>1. ReversesPack(o) \/ ReversesPlan(h, o, x) \/ ReversesSlice(h, p, o, x)
        BY Zenon, <1>4, <2>1, ReverseWrites
      <4> QED BY Zenon, <4>1 DEF ReversesPack, ReversesPlan, ReversesSlice
    <3>2. AfterPlan(x, handler[h].status).sub \in SubStatus /\ AfterSlice(p, x, Shifted(p, x)).sub \in SubStatus
      BY <1>4, <2>1, LeftType
    <3> QED BY Zenon, <3>1, <3>2
  <2> QED BY <1>0, <2>2
<1>5. ASSUME NEW h \in Handler, WriteSubscription(h) PROVE sub' \in [Order -> SubStatus]
  <2>1. handler[h].pc = "entered" /\ LogOf(h).kind = "subscription"
    BY <1>5 DEF WriteSubscription, LogOf
  <2>2. handler[h].status \in SubStatus
    BY <2>1 DEF Heard, Entered, SubStatus
  <2>3. sub' = [sub EXCEPT ![LogOf(h).ref] = IF handler[h].status = "none" \/ @ = "none" THEN @ ELSE handler[h].status]
    BY <1>5 DEF WriteSubscription, LogOf
  <2> QED BY <1>0, <2>2, <2>3
<1>6. ASSUME NEW u \in User, Erase(u) PROVE sub' \in [Order -> SubStatus]
  BY <1>0, <1>6, EraseWrites DEF SubStatus
<1>7. ASSUME NEW u \in User, NEW c \in Canceller, RequestDeletion(u, c) PROVE sub' \in [Order -> SubStatus]
  BY <1>0, <1>7 DEF RequestDeletion, SubStatus
<1> QED BY <1>0, <1>1, <1>2, <1>3, <1>4, <1>5, <1>6, <1>7, Movers

\* Windows keep their types.
LEMMA EntsType == ASSUME IInv, Typed, Next PROVE ent' \in [Order -> Ent]
<1>0. Shapes /\ Wired /\ ent \in [Order -> Ent] /\ now \in Nat
  BY DEF IInv, Typed, Shapes, Facts
<1>1. ASSUME NEW o \in Order, GrantRun(o) PROVE ent' \in [Order -> Ent]
  <2>1. ent' = [ent EXCEPT ![o] = Lapsed(ent[o], now)]
    BY <1>0, <1>1 DEF GrantRun
  <2>2. Lapsed(ent[o], now) \in Ent
    BY <1>0, LapsedType
  <2> QED BY <1>0, <2>1, <2>2
<1>2. ASSUME NEW h \in Handler, Enter(h) \/ WriteSubscription(h) PROVE ent' \in [Order -> Ent]
  BY Zenon, <1>0, <1>2 DEF Enter, WriteSubscription
<1>3. ASSUME NEW h \in Handler, Grant(h) PROVE ent' \in [Order -> Ent]
  <2>1. PICK p, o : p = PayOf(h) /\ o = OrderOf(h)
    OBVIOUS
  <2>2. UNCHANGED ent \/ \E e \in Ent : ent' = [ent EXCEPT ![o] = e]
    <3>1. GrantsPack(p, o) \/ \E e \in Ent, n \in Nat : GrantsPlan(h, p, o, e, n)
      BY Zenon, <1>3, <2>1, GrantWrites
    <3> QED BY Zenon, <3>1 DEF GrantsPack, GrantsPlan
  <2> QED BY <1>0, <2>2
<1>4. ASSUME NEW h \in Handler, Reverse(h) PROVE ent' \in [Order -> Ent]
  <2>1. PICK p, x, o : p = PayOf(h) /\ x = handler[h].effect /\ o = OrderOf(h)
    OBVIOUS
  <2>2. UNCHANGED ent \/ \E e \in Ent : ent' = [ent EXCEPT ![o] = e]
    <3>1. ReversesPack(o) \/ ReversesPlan(h, o, x) \/ ReversesSlice(h, p, o, x)
      BY Zenon, <1>4, <2>1, ReverseWrites
    <3>2. AfterPlan(x, handler[h].status).ent \in Ent /\ AfterSlice(p, x, Shifted(p, x)).ent \in Ent
      BY Zenon, <1>4, <2>1, LeftType
    <3> QED BY Zenon, <3>1, <3>2 DEF ReversesPack, ReversesPlan, ReversesSlice
  <2> QED BY <1>0, <2>2
<1>5. ASSUME NEW u \in User, Erase(u) PROVE ent' \in [Order -> Ent]
  BY <1>0, <1>5, EraseWrites, NothingType
<1>6. ASSUME NEW u \in User, NEW c \in Canceller, RequestDeletion(u, c) PROVE ent' \in [Order -> Ent]
  BY <1>0, <1>6 DEF RequestDeletion
<1> QED BY <1>0, <1>1, <1>2, <1>3, <1>4, <1>5, <1>6, Movers

\* Effects keep their types.
LEMMA EffectsType == ASSUME IInv, Typed, Next PROVE effect' \in [Pay -> Effect]
<1>0. Shapes /\ Wired /\ effect \in [Pay -> Effect] /\ now \in Nat
  BY DEF IInv, Typed, Shapes, Facts
<1>1. ASSUME NEW h \in Handler, Grant(h) PROVE effect' \in [Pay -> Effect]
  <2>1. PICK p, o : p = PayOf(h) /\ o = OrderOf(h)
    OBVIOUS
  <2>2. p \in Pay /\ o \in Order
    BY Zenon, <1>1, <2>1, GrantWrites DEF Grants
  <2>3. CASE o \in Packs
    <3>1. PICK d : d = [NoEffect EXCEPT !.state = "granted", !.order = o]
      OBVIOUS
    <3>2. d \in Effect
      BY <2>2, <3>1, NothingType DEF Effect
    <3>3. effect' = [effect EXCEPT ![p] = d]
      <4>1. GrantsPack(p, o)
        BY Zenon, <1>1, <2>1, <2>3, GrantWrites
      <4> QED BY Zenon, <3>1, <4>1 DEF GrantsPack
    <3> QED BY <1>0, <3>2, <3>3
  <2>4. CASE o \notin Packs
    <3>1. PICK e \in Ent, n \in Nat :
            effect' = [effect EXCEPT ![p] = [state |-> "granted", order |-> o, start |-> e.expires - Length(o),
                                             end |-> e.expires, key |-> KeyOf(o, e, n)]]
      <4>1. PICK e \in Ent, n \in Nat : GrantsPlan(h, p, o, e, n)
        BY Zenon, <1>1, <2>1, <2>4, GrantWrites
      <4> QED BY Zenon, <4>1 DEF GrantsPlan
    <3>2. e.start \in Nat /\ e.expires \in Nat /\ Length(o) \in Nat
      BY LengthType DEF Ent
    <3>3. KeyOf(o, e, n) \in Order \X Nat \X Nat
      BY <2>2, <3>2 DEF KeyOf
    <3>4. [state |-> "granted", order |-> o, start |-> e.expires - Length(o),
           end |-> e.expires, key |-> KeyOf(o, e, n)] \in Effect
      BY <2>2, <3>2, <3>3 DEF Effect
    <3> QED BY <1>0, <3>1, <3>4
  <2> QED BY <2>3, <2>4
<1>2. ASSUME NEW h \in Handler, Reverse(h) PROVE effect' \in [Pay -> Effect]
  <2>1. PICK p, x, o : p = PayOf(h) /\ x = handler[h].effect /\ o = OrderOf(h)
    OBVIOUS
  <2> QED BY Zenon, <1>2, <2>1, ReverseWrites DEF Others
<1>3. ASSUME NEW u \in User, Erase(u) PROVE effect' \in [Pay -> Effect]
  BY <1>0, <1>3, EraseWrites, NothingType
<1> QED BY <1>0, <1>1, <1>2, <1>3, Movers

\* Grants are written by a run of the grants, by a payment and by its reversal.
LEMMA KeysMove ==
  ASSUME Next
  PROVE  \/ UNCHANGED keys
         \/ \E o \in Order : GrantRun(o)
         \/ \E h \in Handler : Grant(h) \/ Reverse(h)
         \/ \E u \in User : Erase(u)
<1>1. Tick => UNCHANGED keys
  BY DEF Tick, tables
<1>2. ASSUME NEW o \in Order, CreateCheckout(o) \/ AttachLink(o) PROVE UNCHANGED keys
  BY <1>2 DEF CreateCheckout, AttachLink
<1>3. ASSUME NEW o \in Order, NEW p \in Pay, NEW s \in {"approved", "rejected"}, Charge(p, o, s) PROVE UNCHANGED keys
  BY <1>3 DEF Charge, tables
<1>4. ASSUME NEW o \in Order, NEW s \in {"active", "paused", "defaulted", "cancelled", "finished"}, SubscriptionMoves(o, s)
      PROVE  UNCHANGED keys
  BY <1>4 DEF SubscriptionMoves, tables
<1>5. ASSUME NEW p \in Pay, TellAgain(p) \/ \E s \in {"refunded", "chargeback"} : GiveBack(p, s) PROVE UNCHANGED keys
  BY <1>5 DEF TellAgain, GiveBack, tables
<1>6. ASSUME NEW h \in Handler,
             \/ \E l \in DOMAIN log : Confirm(h, l)
             \/ Enter(h) \/ EnterSubscription(h) \/ WriteSubscription(h) \/ DropRequest(h)
      PROVE  UNCHANGED keys
  <2>1. (\E l \in DOMAIN log : Confirm(h, l)) => UNCHANGED keys
    BY DEF Confirm, tables
  <2>2. Enter(h) => UNCHANGED keys
    BY Zenon DEF Enter
  <2>3. EnterSubscription(h) \/ DropRequest(h) => UNCHANGED keys
    BY DEF EnterSubscription, DropRequest, tables
  <2>4. WriteSubscription(h) => UNCHANGED keys
    BY DEF WriteSubscription
  <2> QED BY <1>6, <2>1, <2>2, <2>3, <2>4
<1>7. ASSUME NEW u \in User, NEW c \in Canceller, RequestDeletion(u, c) PROVE UNCHANGED keys
  BY <1>7 DEF RequestDeletion
<1>8. ASSUME NEW c \in Canceller,
             \/ ReadQueue(c) \/ RecordCancel(c) \/ CancellerDies(c)
             \/ \E done, heard \in BOOLEAN : CancelAtRebill(c, done, heard)
      PROVE  UNCHANGED keys
  <2>1. ReadQueue(c) \/ CancellerDies(c) => UNCHANGED keys
    BY DEF ReadQueue, CancellerDies, tables
  <2>2. RecordCancel(c) => UNCHANGED keys
    BY DEF RecordCancel
  <2>3. (\E done, heard \in BOOLEAN : CancelAtRebill(c, done, heard)) => UNCHANGED keys
    BY DEF CancelAtRebill, tables
  <2> QED BY <1>8, <2>1, <2>2, <2>3
<1> QED BY Zenon, <1>1, <1>2, <1>3, <1>4, <1>5, <1>6, <1>7, <1>8 DEF Next

\* Grant keys keep their types.
LEMMA KeysType == ASSUME IInv, Typed, Next PROVE keys' \subseteq Order \X Nat \X Nat
<1>0. /\ keys \subseteq Order \X Nat \X Nat /\ now \in Nat /\ ent \in [Order -> Ent]
  BY DEF IInv, Typed, Shapes, Facts
<1>1. ASSUME NEW o \in Order, GrantRun(o) PROVE keys' \subseteq Order \X Nat \X Nat
  <2>1. keys' = Granted(o, ent[o], now) /\ ent[o] \in Ent
    BY <1>0, <1>1 DEF GrantRun
  <2> QED BY <1>0, <2>1, GrantedType
<1>2. ASSUME NEW h \in Handler, Grant(h) PROVE keys' \subseteq Order \X Nat \X Nat
  <2>1. PICK p, o : p = PayOf(h) /\ o = OrderOf(h)
    OBVIOUS
  <2>2. Grants(h, p, o) /\ (GrantsPack(p, o) \/ \E e \in Ent, n \in Nat : GrantsPlan(h, p, o, e, n))
    BY Zenon, <1>2, <2>1, GrantWrites
  <2>3. o \in Order /\ (UNCHANGED keys \/ \E e \in Ent : keys' = Granted(o, e, now))
    BY Zenon, <2>2 DEF Grants, GrantsPack, GrantsPlan
  <2> QED BY <1>0, <2>3, GrantedType
<1>3. ASSUME NEW h \in Handler, Reverse(h) PROVE keys' \subseteq Order \X Nat \X Nat
  <2>1. PICK p, x, o : p = PayOf(h) /\ x = handler[h].effect /\ o = OrderOf(h)
    OBVIOUS
  <2>2. Reverses(h, p, o, x) /\ (ReversesPack(o) \/ ReversesPlan(h, o, x) \/ ReversesSlice(h, p, o, x))
    BY Zenon, <1>3, <2>1, ReverseWrites
  <2>3. AfterPlan(x, handler[h].status).ent \in Ent /\ AfterSlice(p, x, Shifted(p, x)).ent \in Ent
    BY Zenon, <1>3, <2>1, LeftType
  <2>4. o \in Order /\ (keys' = keys \/ \E e \in Ent : keys' = Granted(o, e, now))
    <3>1. o \in Order /\ (\/ UNCHANGED keys
                          \/ keys' \in {keys, Granted(o, AfterPlan(x, handler[h].status).ent, now)}
                          \/ keys' \in {keys, Granted(o, AfterSlice(p, x, Shifted(p, x)).ent, now)})
      BY Zenon, <2>2 DEF Reverses, ReversesPack, ReversesPlan, ReversesSlice
    <3> QED BY Zenon, <2>3, <3>1
  <2> QED BY <1>0, <2>4, GrantedType
<1>4. ASSUME NEW u \in User, Erase(u) PROVE keys' \subseteq Order \X Nat \X Nat
  BY <1>0, <1>4 DEF Erase
<1> QED BY <1>0, <1>1, <1>2, <1>3, <1>4, KeysMove

\* What Rebill tells of as a subscription stays one.
LEMMA ReportedStays ==
  ASSUME Shapes, Checkouts, CancelsTrue, Next, NEW o \in Order, standing[o] \in Reported
  PROVE  standing'[o] \in Reported
<1> DEFINE Goal == standing'[o] \in Reported
<1>0. standing \in [Order -> Standings] /\ standing[o] # "none"
  BY DEF Shapes, Facts, Reported
<1>1. ASSUME NEW q \in Order, AttachLink(q) PROVE Goal
  <2>1. checkout[q] = "pending" /\ standing' = [standing EXCEPT ![q] = "link"]
    BY <1>1 DEF AttachLink
  <2>2. standing[q] = "none"
    BY <2>1 DEF Checkouts
  <2> QED BY <1>0, <2>1, <2>2
<1>2. ASSUME NEW q \in Order, NEW p \in Pay, NEW s \in {"approved", "rejected"}, Charge(p, q, s) PROVE Goal
  BY <1>0, <1>2 DEF Charge, Reported
<1>3. ASSUME NEW q \in Order, NEW s \in {"active", "paused", "defaulted", "cancelled", "finished"}, SubscriptionMoves(q, s)
      PROVE  Goal
  BY <1>0, <1>3 DEF SubscriptionMoves, Reported
<1>4. ASSUME NEW p \in Pay, NEW s \in {"refunded", "chargeback"}, GiveBack(p, s) PROVE Goal
  BY <1>4 DEF GiveBack
<1>5. ASSUME NEW c \in Canceller, NEW done \in BOOLEAN, NEW heard \in BOOLEAN, CancelAtRebill(c, done, heard)
      PROVE  Goal
  BY <1>0, <1>5 DEF CancelAtRebill, Reported
<1> HIDE DEF Goal
<1>6. UNCHANGED standing => Goal
  BY DEF Goal
<1>7. Goal
  BY <1>1, <1>2, <1>3, <1>4, <1>5, <1>6, Movers
<1> QED BY <1>7 DEF Goal

\* A log of a subscription is sent when it moves.
LEMMA LogHeard ==
  ASSUME Shapes, Wired, Next, NEW k \in DOMAIN log', k \notin DOMAIN log, log'[k].kind = "subscription"
  PROVE  standing'[log'[k].ref] \in Reported
<1> DEFINE Goal == standing'[log'[k].ref] \in Reported
<1>0. log \in Seq(Logs) /\ standing \in [Order -> Standings]
  BY DEF Shapes, Webhooks, Facts
<1>1. ASSUME NEW p \in Pay, Sends("payment", p) PROVE FALSE
  <2>1. /\ DOMAIN log' = 1..(Len(log) + 1) /\ DOMAIN log = 1..Len(log)
        /\ log'[Len(log) + 1] = [kind |-> "payment", ref |-> p, result |-> "none"]
    BY <1>0, <1>1, Sent
  <2>2. k = Len(log) + 1
    BY <2>1, <1>0
  <2> QED BY <2>1, <2>2
<1>2. ASSUME NEW o \in Order, NEW s \in {"active", "paused", "defaulted", "cancelled", "finished"}, SubscriptionMoves(o, s) PROVE Goal
  <2>1. Sends("subscription", o) /\ standing' = [standing EXCEPT ![o] = s]
    BY <1>2 DEF SubscriptionMoves
  <2>2. /\ DOMAIN log' = 1..(Len(log) + 1) /\ DOMAIN log = 1..Len(log)
        /\ log'[Len(log) + 1] = [kind |-> "subscription", ref |-> o, result |-> "none"]
    BY <1>0, <2>1, Sent
  <2>3. k = Len(log) + 1
    BY <2>2, <1>0
  <2>4. log'[k].ref = o
    BY <2>2, <2>3
  <2> QED BY <1>0, <2>1, <2>4 DEF Reported
<1>3. ASSUME NEW h \in Handler, Enter(h) \/ Grant(h) \/ Reverse(h) \/ EnterSubscription(h) \/ WriteSubscription(h) PROVE FALSE
  <2>1. UNCHANGED log \/ \E l, r : Record(l, r)
    BY Zenon, <1>3 DEF Enter, Grant, Reverse, EnterSubscription, WriteSubscription
  <2>2. DOMAIN log' = DOMAIN log
    BY <1>0, <2>1 DEF Record
  <2> QED BY <2>2
<1>4. ~UNCHANGED log
  OBVIOUS
<1>5. ASSUME NEW o \in Order, NEW p \in Pay, NEW s \in {"approved", "rejected"}, Charge(p, o, s) PROVE FALSE
  BY <1>1, <1>5 DEF Charge
<1>6. ASSUME NEW p \in Pay, TellAgain(p) \/ \E s \in {"refunded", "chargeback"} : GiveBack(p, s) PROVE FALSE
  BY <1>1, <1>6 DEF TellAgain, GiveBack
<1> HIDE DEF Goal
<1>7. Goal
  BY <1>2, <1>3, <1>4, <1>5, <1>6, Movers
<1> QED BY <1>7 DEF Goal

\* Rebill goes on telling of subscriptions, and requests know what they are told.
LEMMA HeardStep == ASSUME IInv, Typed, Heard, Next PROVE Heard'
<1>0. Shapes /\ Wired /\ Checkouts /\ CancelsTrue /\ Next /\ log \in Seq(Logs)
  BY DEF IInv, Shapes, Webhooks
<1>1. ASSUME NEW l \in DOMAIN log', ~(log'[l].kind = "payment") PROVE standing'[log'[l].ref] \in Reported
  <2>1. CASE l \in DOMAIN log
    <3>1. log'[l].kind = log[l].kind /\ log'[l].ref = log[l].ref
      BY <1>0, <2>1, LogMoves
    <3>2. log[l].ref \in Order /\ standing[log[l].ref] \in Reported
      BY <1>0, <1>1, <2>1, <3>1 DEF Wired, Heard, IsPayment
    <3> QED BY <1>0, <3>1, <3>2, ReportedStays
  <2>2. CASE l \notin DOMAIN log
    <3>1. log'[l].kind = "subscription"
      <4>1. log' \in Seq(Logs)
        BY <1>0, LogMoves
      <4>2. log'[l] \in Logs
        BY <1>1, <4>1
      <4> QED BY <1>1, <4>2 DEF Logs
    <3> QED BY <1>0, <2>2, <3>1, LogHeard
  <2> QED BY <2>1, <2>2
<1>2. ASSUME NEW h \in Handler, handler'[h].pc # "idle", log'[handler'[h].log].kind = "subscription"
      PROVE  handler'[h].status \in IF handler'[h].pc = "entered" THEN {"none", "active", "past_due", "canceled", "expired"} ELSE Reported
  <2>1. CASE handler'[h] = handler[h]
    <3>1. handler[h].pc # "idle" /\ handler[h].log \in DOMAIN log
      BY <1>0, <1>2, <2>1 DEF Wired
    <3>2. LogOf(h).kind = "subscription"
      BY <1>0, <1>2, <2>1, <3>1, LogMoves DEF LogOf
    <3> QED BY <2>1, <3>1, <3>2 DEF Heard, Entered
  <2>2. CASE handler'[h] = Quiet
    BY <1>2, <2>2 DEF Quiet
  <2>3. ASSUME NEW l \in DOMAIN log,
               handler'[h] = [pc |-> "confirmed", log |-> l,
                       status |-> IF IsPayment(l) THEN charge[log[l].ref].status ELSE standing[log[l].ref],
                       ent |-> NoEnt, effect |-> NoEffect]
        PROVE  handler'[h].status \in Reported /\ handler'[h].pc = "confirmed"
    <3>1. log'[l].kind = log[l].kind /\ handler'[h].log = l
      BY <1>0, <2>3, LogMoves
    <3>2. ~IsPayment(l)
      BY <1>2, <3>1 DEF IsPayment
    <3>3. standing[log[l].ref] \in Reported
      BY <3>2 DEF Heard
    <3> QED BY <2>3, <3>2, <3>3
  <2>4. ASSUME LogOf(h).kind = "payment", handler[h].pc = "confirmed",
               handler'[h] = [pc |-> "entered", log |-> handler[h].log, status |-> handler[h].status,
                     ent |-> ent[charge[LogOf(h).ref].order], effect |-> effect[LogOf(h).ref]]
        PROVE  FALSE
    <3>1. handler[h].log \in DOMAIN log /\ handler'[h].log = handler[h].log
      BY <1>0, <2>4 DEF Wired
    <3> QED BY <1>0, <1>2, <2>4, <3>1, LogMoves DEF LogOf
  <2>5. ASSUME handler[h].pc = "confirmed", LogOf(h).kind = "subscription",
               NEW s \in {"none", Mapped(handler[h].status)},
               handler'[h] = [pc |-> "entered", log |-> handler[h].log, status |-> s,
                       ent |-> handler[h].ent, effect |-> handler[h].effect]
        PROVE  handler'[h].status \in {"none", "active", "past_due", "canceled", "expired"} /\ handler'[h].pc = "entered"
    <3>1. handler[h].status \in Reported
      BY <2>5 DEF Heard, Entered
    <3> QED BY <2>5, <3>1 DEF Mapped, Reported
  <2>6. "confirmed" # "entered"
    OBVIOUS
  <2> QED BY <1>0, <2>1, <2>2, <2>3, <2>4, <2>5, <2>6, Reads
<1> QED BY <1>1, <1>2 DEF Heard, Entered, LogOf, IsPayment

\* The types hold at the start.
LEMMA InitTInv == Init => TInv
<1> SUFFICES ASSUME Init PROVE TInv
  OBVIOUS
<1>1. IInv
  BY InitIInv
<1>2. Typed
  <2>1. "none" \in SubStatus
    BY DEF SubStatus
  <2> QED BY <2>1, NothingType DEF Init, Typed
<1>3. Heard
  <2>1. DOMAIN log = {} /\ \A h \in Handler : handler[h].pc = "idle"
    BY DEF Init, Quiet
  <2> QED BY <2>1 DEF Heard
<1> QED BY <1>1, <1>2, <1>3 DEF TInv

\* Every step keeps the types.
LEMMA TInvStep == TInv /\ [Next]_vars => TInv'
<1>1. ASSUME TInv, Next PROVE TInv'
  <2>1. IInv /\ Typed /\ Heard /\ Next
    BY <1>1 DEF TInv
  <2>2. IInv'
    BY <2>1, IInvStep
  <2>3. Typed'
    BY <2>1, SubsType, EntsType, EffectsType, KeysType, RequestsStep DEF Typed
  <2>4. Heard'
    BY <2>1, HeardStep
  <2> QED BY <2>2, <2>3, <2>4 DEF TInv
<1>2. ASSUME TInv, UNCHANGED vars PROVE TInv'
  <2>1. IInv'
    BY <1>2, IInvStep DEF TInv
  <2>2. UNCHANGED <<sub, ent, effect, keys, log, standing, handler>>
    BY <1>2 DEF vars, tables, rebill
  <2>3. Typed' /\ Heard'
    BY <1>2, <2>2 DEF TInv, Typed, Heard, IsPayment, LogOf, Entered
  <2> QED BY <2>1, <2>3 DEF TInv
<1> QED BY <1>1, <1>2

\* The rows have their types between any two steps.
THEOREM BillingTyped == Spec => []TInv
BY InitTInv, TInvStep, PTL DEF Spec

\* Every table, request, log and queue of billing holds values of its type.
THEOREM BillingTypes == Spec => []TypeOK
<1>1. TInv => TypeOK
  <2> SUFFICES ASSUME TInv PROVE TypeOK
    OBVIOUS
  <2>1. Facts /\ Webhooks /\ Cancelling /\ Typed
    BY DEF TInv, IInv, Shapes
  <2> QED BY <2>1 DEF TypeOK, Facts, Webhooks, Cancelling, Typed, Logs, Todos, Requests
<1> QED BY <1>1, BillingTyped, PTL

-----------------------------------------------------------------------------
(* A period of its own for every payment. *)

\* No two payments of a subscription come to own one period's credits: a payment takes a
\* period that no payment has, and a refund deals the periods out one by one.
LEMMA OwnPeriodStep == ASSUME TInv, OwnPeriod, Next PROVE OwnPeriod'
<1>0. IInv /\ Typed /\ effect \in [Pay -> Effect]
  BY DEF TInv, Typed
<1> SUFFICES ASSUME NEW o \in Order \ Packs, NEW p \in Pay, NEW q \in Pay, HasSlice(p, o)', HasSlice(q, o)', p # q
             PROVE  effect'[p].key # effect'[q].key
  BY DEF OwnPeriod
<1> DEFINE Had(r) == effect[r].state = "granted" /\ effect[r].order = o
<1>a. \A r \in {p, q} : effect'[r].state = "granted" /\ effect'[r].order = o
  BY DEF HasSlice
<1>b. Had(p) /\ Had(q) => effect[p].key # effect[q].key
  BY DEF OwnPeriod, HasSlice
<1>1. CASE UNCHANGED effect
  BY <1>1, <1>a, <1>b
<1>2. ASSUME NEW h \in Handler, Grant(h) PROVE effect'[p].key # effect'[q].key
  <2>1. PICK s, c : s = PayOf(h) /\ c = OrderOf(h)
    OBVIOUS
  <2>2. Grants(h, s, c) /\ (c \in Packs => GrantsPack(s, c))
        /\ (c \notin Packs => \E e \in Ent, n \in Nat : GrantsPlan(h, s, c, e, n))
    BY Zenon, <1>0, <1>2, <2>1, GrantWrites
  <2>3. s \in Pay
    BY <2>2 DEF Grants
  <2>4. CASE c \in Packs
    <3>1. PICK d : d = [NoEffect EXCEPT !.state = "granted", !.order = c]
      OBVIOUS
    <3>2. effect' = [effect EXCEPT ![s] = d]
      BY Zenon, <2>2, <2>4, <3>1 DEF GrantsPack
    <3>3. d.order = c
      BY <3>1 DEF NoEffect
    <3>4. p # s /\ q # s
      BY <1>0, <1>a, <2>3, <2>4, <3>2, <3>3
    <3> QED BY <1>0, <1>a, <1>b, <3>2, <3>4
  <2>5. CASE c \notin Packs
    <3>1. PICK e \in Ent, n \in Nat : GrantsPlan(h, s, c, e, n)
      BY <2>2, <2>5
    <3>2. PICK d : d = [state |-> "granted", order |-> c, start |-> e.expires - Length(c),
                        end |-> e.expires, key |-> KeyOf(c, e, n)]
      OBVIOUS
    <3>3. effect' = [effect EXCEPT ![s] = d] /\ \A r \in Pay : effect[r].key # KeyOf(c, e, n)
      BY Zenon, <3>1, <3>2 DEF GrantsPlan
    <3>4. d.key = KeyOf(c, e, n)
      BY <3>2
    <3>5. \A r \in Pay : effect'[r] = IF r = s THEN d ELSE effect[r]
      BY <1>0, <2>3, <3>3
    <3> QED BY <1>a, <1>b, <3>3, <3>4, <3>5
  <2> QED BY <2>4, <2>5
<1>3. ASSUME NEW h \in Handler, Reverse(h) PROVE effect'[p].key # effect'[q].key
  <2>1. PICK s, x, c : s = PayOf(h) /\ x = handler[h].effect /\ c = OrderOf(h)
    OBVIOUS
  <2>2. Others(s) /\ (ReversesPack(c) \/ ReversesPlan(h, c, x) \/ ReversesSlice(h, s, c, x))
    BY Zenon, <1>0, <1>3, <2>1, ReverseWrites
  <2>3. Stay \/ MoveUp(s, c, x)
    BY Zenon, <2>2 DEF ReversesPack, ReversesPlan, ReversesSlice
  <2>4. \A r \in {p, q} : r # s /\ Had(r)
    BY <1>a, <2>2 DEF Others
  <2>5. CASE \A r \in Pay : effect'[r].key = effect[r].key
    BY <1>b, <2>4, <2>5
  <2>6. CASE ~(\A r \in Pay : effect'[r].key = effect[r].key)
    <3>1. /\ \A r \in Pay : r \notin Slices(effect, s, c) => effect'[r].key = effect[r].key
          /\ \A r, t \in Slices(effect, s, c) : r # t => effect'[r].key # effect'[t].key
      BY Zenon, <2>3, <2>6 DEF Stay, MoveUp
    <3>2. \A r \in {p, q} : r \in Slices(effect, s, c) <=> c = o
      BY <2>4 DEF Slices
    <3> QED BY <1>b, <2>4, <3>1, <3>2
  <2> QED BY <2>5, <2>6
<1>4. ASSUME NEW u \in User, Erase(u) PROVE effect'[p].key # effect'[q].key
  <2>1. \A r \in {p, q} : effect'[r] = effect[r]
    BY <1>a, <1>4 DEF Erase, NoEffect
  <2> QED BY <1>a, <1>b, <2>1
<1> QED BY <1>1, <1>2, <1>3, <1>4, Movers

\* No order of grants, renewals, refunds and chargebacks, told by any number of requests
\* at once, lets two payments of a subscription own the credits of one period (D140).
THEOREM PeriodsAreOwn == Spec => []OwnPeriod
<1>1. Init => OwnPeriod
  BY DEF Init, OwnPeriod, HasSlice, NoEffect
<1>2. TInv /\ OwnPeriod /\ [Next]_vars => OwnPeriod'
  <2>1. ASSUME UNCHANGED vars, OwnPeriod PROVE OwnPeriod'
    BY <2>1 DEF vars, tables, OwnPeriod, HasSlice
  <2> QED BY <2>1, OwnPeriodStep
<1> QED BY <1>1, <1>2, BillingTyped, PTL DEF Spec

-----------------------------------------------------------------------------
(* Days that are paid. *)

\* Monthly plans, and those that no chargeback has ended.
Monthly(o) == o \in Order /\ o \notin Packs \cup Annual
Settled(o) == Monthly(o) /\ ~Disputed(o)

\* No two requests are about to write payments of one subscription.
Apart ==
  \A g, h \in Handler :
    g # h /\ Entered(g) /\ Entered(h) /\ LogOf(g).kind = "payment" /\ LogOf(h).kind = "payment" => OrderOf(g) # OrderOf(h)

\* A moment is within a slice of the checkout.
Covered(o, t) == \E q \in Pay : HasSlice(q, o) /\ effect[q].start <= t /\ t < effect[q].end

\* The slices of a monthly plan are disjoint, those that last end within the window, and
\* from the first of these to the end of the window there is no gap.
Tiled(o) ==
  /\ \A q \in Pay : HasSlice(q, o) => effect[q].start < effect[q].end
  /\ \A q \in Pay : HasSlice(q, o) /\ effect[q].end > now => effect[q].end <= ent[o].expires
  /\ \A q \in Pay : \A t \in Int :
       HasSlice(q, o) /\ effect[q].end > now /\ effect[q].start <= t /\ now <= t /\ t < ent[o].expires => Covered(o, t)
  /\ \A q, r \in Pay : HasSlice(q, o) /\ HasSlice(r, o) /\ q # r =>
       effect[q].end <= effect[r].start \/ effect[r].end <= effect[q].start

\* What is left of the window is within slices.
Paid(o) == \A t \in Int : now <= t /\ ent[o].start <= t /\ t < ent[o].expires => Covered(o, t)

\* A window that is not active has no time left.
Over == \A o \in Order : ent[o].status # "active" => ent[o].expires <= now

\* A monthly window is revoked by a chargeback, which a request has from Rebill.
Disputes ==
  /\ \A o \in Order : Monthly(o) /\ ent[o].status = "revoked" => Disputed(o)
  /\ \A h \in Handler : handler[h].pc # "idle" /\ LogOf(h).kind = "payment" /\ handler[h].status = "chargeback" =>
       charge[PayOf(h)].status = "chargeback"

\* A request that is about to write has the rows as they are, or a window that is as
\* over as the one there is.
Fresh ==
  \A h \in Handler : Entered(h) /\ LogOf(h).kind = "payment" /\ Owner[OrderOf(h)] \notin erased =>
    /\ handler[h].status = "approved" =>
         handler[h].ent = ent[OrderOf(h)] \/ (handler[h].ent.expires <= now /\ ent[OrderOf(h)].expires <= now)
    /\ handler[h].status \in {"refunded", "chargeback"} => handler[h].effect = effect[PayOf(h)]
    /\ handler[h].status = "refunded" => handler[h].effect.state = "granted"

\* The inductive invariant of windows and slices.
DInv ==
  /\ Over /\ Disputes /\ Fresh
  /\ \A o \in Order : Settled(o) => Tiled(o)
  /\ \A o \in Order \ Packs : o \in Annual \/ Settled(o) => Paid(o)

\* A chargeback is for good.
LEMMA ChargebackStays ==
  ASSUME Shapes, Next, NEW p \in Pay, charge[p].status = "chargeback"
  PROVE  charge'[p].status = "chargeback" /\ charge'[p].order = charge[p].order
<1> DEFINE Goal == charge'[p].status = "chargeback" /\ charge'[p].order = charge[p].order
<1>0. charge \in [Pay -> [order : Order \cup {None},
                          status : {"none", "approved", "rejected", "refunded", "chargeback"}]]
  BY DEF Shapes, Facts
<1>1. ASSUME NEW o \in Order, NEW q \in Pay, NEW s \in {"approved", "rejected"}, Charge(q, o, s) PROVE Goal
  BY <1>0, <1>1 DEF Charge
<1>2. ASSUME NEW q \in Pay, NEW s \in {"refunded", "chargeback"}, GiveBack(q, s) PROVE Goal
  <2>1. charge' = [charge EXCEPT ![q] = [charge[q] EXCEPT !.status = s]]
        /\ charge[q].status \in (IF s = "refunded" THEN {"approved"} ELSE {"approved", "refunded"})
    BY <1>2 DEF GiveBack
  <2>2. q # p
    BY <2>1
  <2> QED BY <1>0, <2>1, <2>2
<1>3. UNCHANGED charge => Goal
  OBVIOUS
<1>4. ASSUME NEW o \in Order, AttachLink(o) PROVE Goal
  BY <1>4 DEF AttachLink
<1>5. ASSUME NEW o \in Order, NEW s \in {"active", "paused", "defaulted", "cancelled", "finished"}, SubscriptionMoves(o, s)
      PROVE  Goal
  BY <1>5 DEF SubscriptionMoves
<1>6. ASSUME NEW c \in Canceller, NEW done \in BOOLEAN, NEW heard \in BOOLEAN, CancelAtRebill(c, done, heard)
      PROVE  Goal
  BY <1>6 DEF CancelAtRebill
<1> HIDE DEF Goal
<1>7. Goal
  BY <1>1, <1>2, <1>3, <1>4, <1>5, <1>6, Movers
<1> QED BY <1>7 DEF Goal

\* What has been disputed stays so.
LEMMA DisputedStays == ASSUME Shapes, Next, NEW o \in Order PROVE Disputed(o) => Disputed(o)'
BY ChargebackStays DEF Disputed

\* The slices of a checkout and the window stay as they are, or lapse.
SameSlices(o) == \A q \in Pay : (HasSlice(q, o)' <=> HasSlice(q, o)) /\ (HasSlice(q, o) => effect'[q] = effect[q])
SameWindow(o) ==
  \/ ent'[o] = ent[o]
  \/ /\ ent'[o].status = "expired" /\ ent'[o].start = ent[o].start
     /\ ent'[o].expires = ent[o].expires /\ ent[o].expires <= now

\* Slices and window of a checkout are moved by payments of it, and go with its account.
LEMMA OrderMoves ==
  ASSUME TInv, Next, NEW o \in Order
  PROVE  \/ /\ SameSlices(o) /\ SameWindow(o)
            /\ now' = now \/ (now' = now + 1 /\ \A h \in Handler : ~Entered(h))
         \/ \E h \in Handler : (Grant(h) \/ Reverse(h)) /\ OrderOf(h) = o /\ now' = now
         \/ Erase(Owner[o]) /\ ent'[o] = NoEnt /\ now' = now /\ \A q \in Pay : ~HasSlice(q, o)'
<1>0. /\ IInv /\ Typed /\ Shapes /\ Wired /\ Checkouts /\ Effects
      /\ ent \in [Order -> Ent] /\ effect \in [Pay -> Effect] /\ now \in Nat
  BY DEF TInv, IInv, Typed, Shapes, Facts
<1>a. UNCHANGED effect => SameSlices(o)
  BY DEF SameSlices, HasSlice
<1>b. UNCHANGED ent => SameWindow(o)
  BY DEF SameWindow
<1>t. now' = now \/ (now' = now + 1 /\ \A h \in Handler : ~Entered(h))
  BY Movers DEF Tick, Entered
<1>1. ASSUME NEW h \in Handler, Grant(h), OrderOf(h) # o PROVE SameSlices(o) /\ SameWindow(o)
  <2>1. PICK p, c : p = PayOf(h) /\ c = OrderOf(h)
    OBVIOUS
  <2>2. Grants(h, p, c) /\ (c \in Packs => GrantsPack(p, c))
        /\ (c \notin Packs => \E e \in Ent, n \in Nat : GrantsPlan(h, p, c, e, n))
    BY Zenon, <1>0, <1>1, <2>1, GrantWrites
  <2>3. \E d : effect' = [effect EXCEPT ![p] = d] /\ d.order = c
    <3>1. CASE c \in Packs
      <4>1. PICK d : d = [NoEffect EXCEPT !.state = "granted", !.order = c]
        OBVIOUS
      <4>2. effect' = [effect EXCEPT ![p] = d]
        BY Zenon, <2>2, <3>1, <4>1 DEF GrantsPack
      <4>3. d.order = c
        BY <4>1 DEF NoEffect
      <4> QED BY <4>2, <4>3
    <3>2. CASE c \notin Packs
      <4>1. PICK e \in Ent, n \in Nat : GrantsPlan(h, p, c, e, n)
        BY <2>2, <3>2
      <4>2. PICK d : d = [state |-> "granted", order |-> c, start |-> e.expires - Length(c),
                          end |-> e.expires, key |-> KeyOf(c, e, n)]
        OBVIOUS
      <4>3. effect' = [effect EXCEPT ![p] = d]
        BY Zenon, <4>1, <4>2 DEF GrantsPlan
      <4>4. d.order = c
        BY <4>2
      <4> QED BY <4>3, <4>4
    <3> QED BY <3>1, <3>2
  <2>4. PICK d : effect' = [effect EXCEPT ![p] = d] /\ d.order = c
    BY <2>3
  <2>5. ~HasSlice(p, o) /\ p \in Pay /\ c # o
    BY <1>1, <2>1, <2>2 DEF Grants, HasSlice
  <2>6. SameSlices(o)
    BY <1>0, <2>4, <2>5 DEF SameSlices, HasSlice
  <2>7. \E e : ent' = [ent EXCEPT ![c] = e]
    <3>1. c \in Packs => ent' = [ent EXCEPT ![c] = ent[c]]
      BY <1>0, <2>2 DEF GrantsPack, Grants
    <3>2. c \notin Packs => \E e : ent' = [ent EXCEPT ![c] = e]
      BY Zenon, <2>2 DEF GrantsPlan
    <3> QED BY <3>1, <3>2
  <2>8. ent'[o] = ent[o]
    BY <1>0, <2>5, <2>7
  <2> QED BY <2>6, <2>8 DEF SameWindow
<1>2. ASSUME NEW h \in Handler, Reverse(h), OrderOf(h) # o PROVE SameSlices(o) /\ SameWindow(o)
  <2>1. PICK p, x, c : p = PayOf(h) /\ x = handler[h].effect /\ c = OrderOf(h)
    OBVIOUS
  <2>2. /\ Reverses(h, p, c, x) /\ Others(p)
        /\ ReversesPack(c) \/ ReversesPlan(h, c, x) \/ ReversesSlice(h, p, c, x)
    BY Zenon, <1>0, <1>2, <2>1, ReverseWrites
  <2>3. p \in Pay /\ c \in Order /\ x \in Effect /\ x.order = c /\ c # o
    BY <1>2, <2>1, <2>2 DEF Reverses
  <2>4. ~HasSlice(p, o)
    <3>1. effect[p].state # "none" => effect[p].order = c
      BY <1>0, <2>1, <2>3 DEF Effects, OrderOf
    <3> QED BY <2>3, <3>1 DEF HasSlice
  <2>5. ASSUME NEW q \in Pay, HasSlice(q, o) PROVE effect'[q] = effect[q] /\ q # p
    <3>1. q # p /\ effect[q].order = o /\ effect[q].state = "granted"
      BY <2>4, <2>5 DEF HasSlice
    <3>2. /\ effect'[q] \in Effect /\ effect[q] \in Effect
          /\ effect'[q].state = effect[q].state /\ effect'[q].order = effect[q].order
      BY <1>0, <2>2, <3>1 DEF Others
    <3>3. effect'[q].start = effect[q].start /\ effect'[q].end = effect[q].end /\ effect'[q].key = effect[q].key
      <4>1. Stay \/ MoveUp(p, c, x)
        BY Zenon, <2>2 DEF ReversesPack, ReversesPlan, ReversesSlice
      <4>2. q \notin Slices(effect, p, c) /\ ~Behind(p, x, q)
        BY <2>3, <3>1 DEF Slices, Behind
      <4>3. Shifted(p, x)[q].start = effect[q].start /\ Shifted(p, x)[q].end = effect[q].end
        BY <1>0, <2>3, <4>2, ShiftedIs
      <4> QED BY Zenon, <4>1, <4>2, <4>3 DEF Stay, MoveUp
    <3> QED BY <3>1, <3>2, <3>3 DEF Effect
  <2>6. \A q \in Pay : HasSlice(q, o)' <=> HasSlice(q, o)
    BY <2>2, <2>4 DEF HasSlice, Others
  <2>7. UNCHANGED ent \/ \E e : ent' = [ent EXCEPT ![c] = e]
    BY Zenon, <2>2 DEF ReversesPack, ReversesPlan, ReversesSlice
  <2>8. ent'[o] = ent[o]
    BY <1>0, <2>3, <2>7
  <2> QED BY <2>5, <2>6, <2>8 DEF SameSlices, SameWindow
<1>3. ASSUME NEW u \in User, Erase(u), Owner[o] # u PROVE SameSlices(o) /\ SameWindow(o)
  <2>1. ent'[o] = ent[o]
    BY <1>3, EraseWrites
  <2>2. o \notin OrdersOf(u)
    BY <1>3 DEF OrdersOf
  <2>3. \A q \in Pay : IF effect[q].order \in OrdersOf(u) THEN effect'[q].state = "none" ELSE effect'[q] = effect[q]
    BY <1>3, EraseWrites DEF NoEffect
  <2> QED BY <2>1, <2>2, <2>3 DEF SameSlices, SameWindow, HasSlice
<1>4. ASSUME NEW u \in User, Erase(u), Owner[o] = u
      PROVE  ent'[o] = NoEnt /\ \A q \in Pay : ~HasSlice(q, o)'
  <2>1. ent'[o] = NoEnt
    BY <1>4, EraseWrites
  <2>2. \A q \in Pay : IF effect[q].order \in OrdersOf(u) THEN effect'[q].state = "none" ELSE effect'[q] = effect[q]
    BY <1>4, EraseWrites DEF NoEffect
  <2>3. ASSUME NEW q \in Pay, HasSlice(q, o) PROVE o \in OrdersOf(u)
    <3>1. standing[o] # "none"
      BY <1>0, <2>3 DEF HasSlice, Effects, Wired
    <3>2. u \notin erased
      BY <1>4 DEF Erase
    <3>3. checkout[o] # "none"
      BY <1>0, <1>4, <3>1, <3>2 DEF Checkouts
    <3> QED BY <1>4, <3>3 DEF OrdersOf
  <2> QED BY <2>1, <2>2, <2>3 DEF HasSlice
<1>5. ASSUME NEW c \in Order, GrantRun(c) PROVE SameWindow(o)
  <2>1. ent' = [ent EXCEPT ![c] = Lapsed(ent[c], now)]
    BY <1>0, <1>5 DEF GrantRun
  <2>2. CASE c # o
    BY <1>0, <2>1, <2>2 DEF SameWindow
  <2>3. CASE c = o
    <3>1. ent[o] \in Ent /\ ent'[o] = Lapsed(ent[o], now)
      BY <1>0, <2>1, <2>3
    <3>2. CASE ent[o].status = "active" /\ ent[o].expires <= now
      <4>1. ent'[o] = [ent[o] EXCEPT !.status = "expired"]
        BY <3>1, <3>2 DEF Lapsed
      <4> QED BY <3>1, <3>2, <4>1 DEF SameWindow, Ent
    <3>3. CASE ~(ent[o].status = "active" /\ ent[o].expires <= now)
      BY <3>1, <3>3 DEF Lapsed, SameWindow
    <3> QED BY <3>2, <3>3
  <2> QED BY <2>2, <2>3
<1>6. ASSUME NEW h \in Handler, Enter(h) \/ WriteSubscription(h) PROVE UNCHANGED ent
  BY Zenon, <1>6 DEF Enter, WriteSubscription
<1>7. ASSUME NEW u \in User, NEW c \in Canceller, RequestDeletion(u, c) PROVE UNCHANGED ent
  BY <1>7 DEF RequestDeletion
<1>8. ASSUME NEW h \in Handler, Grant(h) \/ Reverse(h) PROVE now' = now
  <2>1. UNCHANGED now
    BY Zenon, <1>8 DEF Grant, Reverse
  <2> QED BY <2>1
<1>9. ASSUME NEW u \in User, Erase(u) PROVE now' = now
  BY <1>9 DEF Erase
<1> QED
  <2>1. CASE \E h \in Handler : Grant(h) \/ Reverse(h)
    BY <2>1, <1>1, <1>2, <1>8
  <2>2. CASE \E u \in User : Erase(u)
    BY <2>2, <1>3, <1>4, <1>9
  <2>3. CASE ~(\E h \in Handler : Grant(h) \/ Reverse(h)) /\ ~(\E u \in User : Erase(u))
    <3>1. UNCHANGED effect
      BY <2>3, Movers
    <3>2. UNCHANGED ent \/ \E c \in Order : GrantRun(c)
      BY <2>3, <1>6, <1>7, Movers
    <3> QED BY <1>a, <1>b, <1>t, <1>5, <3>1, <3>2
  <2> QED BY <2>1, <2>2, <2>3

\* What a grant leaves of its checkout's window and slices.
LEMMA GrantOn ==
  ASSUME TInv, NEW h \in Handler, Grant(h), NEW p, p = PayOf(h), NEW o, o = OrderOf(h)
  PROVE  /\ Grants(h, p, o) /\ ~HasSlice(p, o)
         /\ \A q \in Pay : q # p => effect'[q] = effect[q]
         /\ o \in Packs => ent' = ent
         /\ o \notin Packs => /\ ent'[o] = Window(handler[h].ent, o) /\ HasSlice(p, o)'
                              /\ effect'[p].start = ent'[o].expires - Length(o) /\ effect'[p].end = ent'[o].expires
<1>0. IInv /\ Typed /\ ent \in [Order -> Ent] /\ effect \in [Pay -> Effect]
  BY DEF TInv, Typed
<1>1. Grants(h, p, o) /\ (o \in Packs => GrantsPack(p, o))
      /\ (o \notin Packs => \E e \in Ent, n \in Nat : GrantsPlan(h, p, o, e, n))
  BY Zenon, <1>0, GrantWrites
<1>2. p \in Pay /\ o \in Order /\ ~HasSlice(p, o)
  BY <1>1 DEF Grants, HasSlice
<1>3. ASSUME o \in Packs PROVE ent' = ent /\ \A q \in Pay : q # p => effect'[q] = effect[q]
  <2>1. UNCHANGED ent /\ \E d : effect' = [effect EXCEPT ![p] = d]
    BY Zenon, <1>1, <1>3 DEF GrantsPack
  <2> QED BY <1>0, <1>2, <2>1
<1>4. ASSUME o \notin Packs
      PROVE  /\ \A q \in Pay : q # p => effect'[q] = effect[q]
             /\ ent'[o] = Window(handler[h].ent, o) /\ HasSlice(p, o)'
             /\ effect'[p].start = ent'[o].expires - Length(o) /\ effect'[p].end = ent'[o].expires
  <2>1. PICK e \in Ent, n \in Nat : GrantsPlan(h, p, o, e, n)
    BY <1>1, <1>4
  <2>2. PICK d : d = [state |-> "granted", order |-> o, start |-> e.expires - Length(o),
                      end |-> e.expires, key |-> KeyOf(o, e, n)]
    OBVIOUS
  <2>3. effect' = [effect EXCEPT ![p] = d] /\ e = Window(handler[h].ent, o) /\ ent' = [ent EXCEPT ![o] = e]
    BY Zenon, <2>1, <2>2 DEF GrantsPlan
  <2>4. effect'[p] = d /\ ent'[o] = e /\ \A q \in Pay : q # p => effect'[q] = effect[q]
    BY <1>0, <1>2, <2>3
  <2>5. d.state = "granted" /\ d.order = o /\ d.start = e.expires - Length(o) /\ d.end = e.expires
    BY <2>2
  <2> QED BY <2>3, <2>4, <2>5 DEF HasSlice
<1> QED BY <1>1, <1>2, <1>3, <1>4

\* What a reversal leaves of its checkout's window and slices: those of a plan that
\* ends, or of one without a month.
EndsPlan(h, o, x) ==
  /\ o \notin Packs /\ (handler[h].status = "chargeback" \/ o \in Annual)
  /\ ent'[o] = AfterPlan(x, handler[h].status).ent
TakesSlice(h, p, o, x) ==
  /\ o \notin Packs \cup Annual /\ handler[h].status = "refunded"
  /\ ent'[o] = AfterSlice(p, x, Shifted(p, x)).ent
  /\ \A q \in Pay : effect'[q].start = Shifted(p, x)[q].start /\ effect'[q].end = Shifted(p, x)[q].end

\* A reversal of a payment leaves its checkout one of these.
LEMMA ReverseOn ==
  ASSUME TInv, NEW h \in Handler, Reverse(h), NEW p, p = PayOf(h), NEW o, o = OrderOf(h),
         NEW x, x = handler[h].effect
  PROVE  /\ Reverses(h, p, o, x)
         /\ \A q \in Pay : HasSlice(q, o)' <=> HasSlice(q, o) /\ q # p
         /\ (o \in Packs /\ ent' = ent) \/ EndsPlan(h, o, x) \/ TakesSlice(h, p, o, x)
<1>0. IInv /\ Typed /\ ent \in [Order -> Ent] /\ effect \in [Pay -> Effect]
  BY DEF TInv, Typed
<1>1. /\ Reverses(h, p, o, x) /\ Others(p)
      /\ ReversesPack(o) \/ ReversesPlan(h, o, x) \/ ReversesSlice(h, p, o, x)
  BY Zenon, <1>0, ReverseWrites
<1>2. p \in Pay /\ o \in Order
  BY <1>1 DEF Reverses
<1>3. \A q \in Pay : HasSlice(q, o)' <=> HasSlice(q, o) /\ q # p
  BY <1>1 DEF Others, HasSlice
<1>4. CASE ReversesPack(o)
  BY <1>1, <1>3, <1>4 DEF ReversesPack
<1>5. CASE ReversesPlan(h, o, x)
  <2>1. /\ o \notin Packs /\ (handler[h].status = "chargeback" \/ o \in Annual)
        /\ ent' = [ent EXCEPT ![o] = AfterPlan(x, handler[h].status).ent]
    BY Zenon, <1>5 DEF ReversesPlan
  <2>2. ent'[o] = AfterPlan(x, handler[h].status).ent
    BY <1>0, <1>2, <2>1
  <2>3. EndsPlan(h, o, x)
    BY Zenon, <2>1, <2>2 DEF EndsPlan
  <2> QED BY <1>1, <1>3, <2>3
<1>6. CASE ReversesSlice(h, p, o, x)
  <2>1. /\ o \notin Packs \cup Annual /\ handler[h].status = "refunded"
        /\ ent' = [ent EXCEPT ![o] = AfterSlice(p, x, Shifted(p, x)).ent] /\ MoveUp(p, o, x)
    BY Zenon, <1>6 DEF ReversesSlice
  <2>2. ent'[o] = AfterSlice(p, x, Shifted(p, x)).ent
    BY <1>0, <1>2, <2>1
  <2>3. \A q \in Pay : effect'[q].start = Shifted(p, x)[q].start /\ effect'[q].end = Shifted(p, x)[q].end
    BY Zenon, <2>1 DEF MoveUp
  <2>4. TakesSlice(h, p, o, x)
    BY Zenon, <2>1, <2>2, <2>3 DEF TakesSlice
  <2> QED BY <1>1, <1>3, <2>4
<1> QED BY <1>1, <1>4, <1>5, <1>6

\* A plan that ends has no time left, and is revoked by a chargeback.
LEMMA AfterPlanIs ==
  ASSUME now \in Nat, NEW x, NEW s, ent[x.order] \in Ent
  PROVE  /\ AfterPlan(x, s).ent.expires <= now
         /\ AfterPlan(x, s).ent.status = "revoked" => s = "chargeback" \/ ent[x.order].status = "revoked"
<1>1. PICK e : e = ent[x.order]
  OBVIOUS
<1>2. e \in Ent /\ e.expires \in Nat
  BY <1>1 DEF Ent
<1> DEFINE m == Min({e.expires, now})
           v == IF s = "chargeback" \/ e.status = "revoked" THEN "revoked" ELSE "expired"
<1>3. AfterPlan(x, s).ent = [e EXCEPT !.expires = m, !.status = v]
  BY Zenon, <1>1 DEF AfterPlan, Terminated
<1>4. m <= now
  BY <1>2, TwoOf
<1>5. v = "revoked" => s = "chargeback" \/ ent[x.order].status = "revoked"
  BY <1>1
<1> HIDE DEF m, v
<1>6. AfterPlan(x, s).ent = [status |-> v, start |-> e.start, expires |-> m]
  BY Zenon, <1>2, <1>3, EntWith
<1> QED BY <1>4, <1>5, <1>6

\* A slice that is taken out leaves an active window, or one without time, and revokes
\* nothing.
LEMMA AfterSliceOver ==
  ASSUME now \in Nat, NEW p, NEW x, NEW f, ent[x.order] \in Ent
  PROVE  /\ AfterSlice(p, x, f).ent.status # "active" => AfterSlice(p, x, f).ent.expires <= now
         /\ AfterSlice(p, x, f).ent.status = "revoked" => ent[x.order].status = "revoked"
<1>1. PICK m : m = Min({ent[x.order].expires, now})
  OBVIOUS
<1>2. m <= now
  <2>1. ent[x.order].expires \in Nat
    BY DEF Ent
  <2> QED BY <1>1, <2>1, TwoOf
<1>3. CASE ~Moved(p, x, f)
  <2>1. PICK s \in {"expired", "revoked"} :
              /\ AfterSlice(p, x, f).ent =
                    [status |-> s, start |-> ent[x.order].start, expires |-> Min({ent[x.order].expires, now})]
              /\ s = "revoked" => ent[x.order].status = "revoked"
    BY Zenon, <1>3, AfterSliceIs
  <2> QED BY <1>1, <1>2, <2>1
<1>4. CASE Moved(p, x, f) /\ ent[x.order].status = "revoked"
  <2>1. AfterSlice(p, x, f).ent = [status |-> "revoked", start |-> ent[x.order].start, expires |-> m]
    BY <1>1, <1>4, AfterSliceIs
  <2> QED BY <1>2, <1>4, <2>1
<1>5. CASE Moved(p, x, f) /\ ent[x.order].status # "revoked"
  <2>1. AfterSlice(p, x, f).ent =
          [status |-> "active", start |-> IF CurrentOf(x) THEN FirstStart(p, x, f) ELSE ent[x.order].start,
           expires |-> LastEnd(p, x, f)]
    BY Zenon, <1>5, AfterSliceIs
  <2> QED BY <2>1
<1> QED BY <1>3, <1>4, <1>5

\* Windows that are not active stay without time.
LEMMA OverStep == ASSUME TInv, Over, Next PROVE Over'
<1>0. IInv /\ Typed /\ ent \in [Order -> Ent] /\ now \in Nat
  BY DEF TInv, IInv, Typed, Shapes, Facts
<1> SUFFICES ASSUME NEW o \in Order, ent'[o].status # "active" PROVE ent'[o].expires <= now'
  BY DEF Over
<1>a. ent[o].expires \in Nat /\ (ent[o].status # "active" => ent[o].expires <= now)
  <2>1. ent[o] \in Ent
    BY <1>0
  <2> QED BY <2>1 DEF Over, Ent
<1>1. CASE SameWindow(o) /\ (now' = now \/ now' = now + 1)
  BY <1>0, <1>1, <1>a DEF SameWindow
<1>2. ASSUME NEW h \in Handler, Grant(h), OrderOf(h) = o, now' = now PROVE ent'[o].expires <= now'
  <2>1. PICK p : p = PayOf(h)
    OBVIOUS
  <2>2. o \in Packs => ent' = ent
    BY Zenon, <1>2, <2>1, GrantOn
  <2>3. o \notin Packs => ent'[o] = Window(handler[h].ent, o)
    BY Zenon, <1>2, <2>1, GrantOn
  <2>4. handler[h].ent \in Ent
    BY <1>0 DEF Typed, Requests
  <2>5. Window(handler[h].ent, o).status = "active"
    BY <1>0, <2>4, WindowType
  <2> QED BY <1>2, <1>a, <2>2, <2>3, <2>5
<1>3. ASSUME NEW h \in Handler, Reverse(h), OrderOf(h) = o, now' = now PROVE ent'[o].expires <= now'
  <2>1. PICK p, x : p = PayOf(h) /\ x = handler[h].effect
    OBVIOUS
  <2>0. Reverses(h, p, o, x) /\ (ent' = ent \/ EndsPlan(h, o, x) \/ TakesSlice(h, p, o, x))
    BY Zenon, <1>3, <2>1, ReverseOn
  <2>2. /\ Reverses(h, p, o, x)
        /\ \/ ent' = ent
           \/ ent'[o] = AfterPlan(x, handler[h].status).ent
           \/ ent'[o] = AfterSlice(p, x, Shifted(p, x)).ent
    BY Zenon, <2>0 DEF EndsPlan, TakesSlice
  <2>3. ent[x.order] \in Ent
    BY <1>0, <2>2 DEF Reverses
  <2> QED BY <1>0, <1>3, <1>a, <2>2, <2>3, AfterPlanIs, AfterSliceOver
<1>4. CASE ent'[o] = NoEnt /\ now' = now
  BY <1>0, <1>4 DEF NoEnt
<1> QED BY <1>1, <1>2, <1>3, <1>4, OrderMoves

\* A request about a chargeback has it from Rebill, and a revoked window too.
LEMMA DisputesStep == ASSUME TInv, Disputes, Next PROVE Disputes'
<1>0. IInv /\ Typed /\ Shapes /\ Wired /\ ent \in [Order -> Ent] /\ now \in Nat
  BY DEF TInv, IInv, Typed, Shapes, Facts
<1>1. ASSUME NEW o \in Order, Monthly(o), ent'[o].status = "revoked" PROVE Disputed(o)'
  <2>0. ent[o].status = "revoked" => Disputed(o)'
    BY <1>0, <1>1, DisputedStays DEF Disputes
  <2>1. CASE SameWindow(o)
    BY <1>1, <2>0, <2>1 DEF SameWindow
  <2>2. ASSUME NEW h \in Handler, Grant(h), OrderOf(h) = o PROVE Disputed(o)'
    <3>1. PICK p : p = PayOf(h)
      OBVIOUS
    <3>2. ent'[o] = Window(handler[h].ent, o)
      BY Zenon, <1>1, <2>2, <3>1, GrantOn DEF Monthly
    <3>3. handler[h].ent \in Ent
      BY <1>0 DEF Typed, Requests
    <3>4. Window(handler[h].ent, o).status = "active"
      BY <1>0, <3>3, WindowType
    <3> QED BY <1>1, <3>2, <3>4
  <2>3. ASSUME NEW h \in Handler, Reverse(h), OrderOf(h) = o PROVE Disputed(o)'
    <3>1. PICK p, x : p = PayOf(h) /\ x = handler[h].effect
      OBVIOUS
    <3>0. Reverses(h, p, o, x) /\ ((o \in Packs /\ ent' = ent) \/ EndsPlan(h, o, x) \/ TakesSlice(h, p, o, x))
      BY Zenon, <2>3, <3>1, ReverseOn
    <3>2. /\ Reverses(h, p, o, x)
          /\ \/ handler[h].status = "chargeback" /\ ent'[o] = AfterPlan(x, handler[h].status).ent
             \/ ent'[o] = AfterSlice(p, x, Shifted(p, x)).ent
      <4>1. o \notin Packs \cup Annual
        BY <1>1 DEF Monthly
      <4> QED BY <3>0, <4>1 DEF EndsPlan, TakesSlice
    <3>3. ent[x.order] \in Ent /\ x.order = o /\ p \in Pay /\ Entered(h) /\ LogOf(h).kind = "payment"
      BY <1>0, <3>2 DEF Reverses
    <3>4. handler[h].status = "chargeback" => Disputed(o)
      BY <2>3, <3>1, <3>3 DEF Disputes, Disputed, OrderOf, Entered
    <3>5. handler[h].status = "chargeback" \/ ent[o].status = "revoked"
      BY <1>0, <1>1, <3>2, <3>3, AfterSliceOver
    <3> QED BY <1>0, <2>0, <3>4, <3>5, DisputedStays
  <2>4. CASE ent'[o] = NoEnt
    BY <1>1, <2>4 DEF NoEnt
  <2> QED BY <2>1, <2>2, <2>3, <2>4, OrderMoves
<1>2. ASSUME NEW h \in Handler, handler'[h].pc # "idle", LogOf(h)'.kind = "payment", handler'[h].status = "chargeback"
      PROVE  charge'[PayOf(h)'].status = "chargeback"
  <2>0. ASSUME NEW l \in DOMAIN log, log[l].kind = "payment", charge[log[l].ref].status = "chargeback", handler'[h].log = l
        PROVE  charge'[PayOf(h)'].status = "chargeback"
    <3>1. log'[l].ref = log[l].ref /\ log[l].ref \in Pay
      BY <1>0, <2>0, LogMoves DEF Wired, IsPayment
    <3>2. PayOf(h)' = log[l].ref
      BY <2>0, <3>1 DEF PayOf, LogOf
    <3> QED BY <1>0, <2>0, <3>1, <3>2, ChargebackStays
  <2>a. \A l \in DOMAIN log : handler'[h].log = l => log[l].kind = "payment"
    BY <1>0, <1>2, LogMoves DEF LogOf
  <2>1. ASSUME handler[h].pc # "idle", handler'[h].log = handler[h].log, handler'[h].status = handler[h].status
        PROVE  charge'[PayOf(h)'].status = "chargeback"
    <3>1. handler[h].log \in DOMAIN log /\ LogOf(h).kind = "payment"
      BY <1>0, <2>1, <2>a DEF Wired, LogOf
    <3>2. charge[log[handler[h].log].ref].status = "chargeback"
      BY <1>2, <2>1, <3>1 DEF Disputes, PayOf, LogOf
    <3> QED BY <2>0, <2>1, <3>1, <3>2 DEF LogOf
  <2>2. CASE handler'[h] = handler[h]
    BY <1>2, <2>1, <2>2
  <2>3. CASE handler'[h] = Quiet
    BY <1>2, <2>3 DEF Quiet
  <2>4. ASSUME NEW l \in DOMAIN log,
               handler'[h] = [pc |-> "confirmed", log |-> l,
                       status |-> IF IsPayment(l) THEN charge[log[l].ref].status ELSE standing[log[l].ref],
                       ent |-> NoEnt, effect |-> NoEffect]
        PROVE  charge'[PayOf(h)'].status = "chargeback"
    <3>1. handler'[h].log = l /\ IsPayment(l)
      BY <2>4, <2>a DEF IsPayment
    <3>2. charge[log[l].ref].status = "chargeback"
      BY <1>2, <2>4, <3>1
    <3> QED BY <2>0, <3>1, <3>2 DEF IsPayment
  <2>5. ASSUME handler[h].pc = "confirmed",
               handler'[h] = [pc |-> "entered", log |-> handler[h].log, status |-> handler[h].status,
                     ent |-> ent[charge[LogOf(h).ref].order], effect |-> effect[LogOf(h).ref]]
        PROVE  charge'[PayOf(h)'].status = "chargeback"
    BY <2>1, <2>5
  <2>6. ASSUME LogOf(h).kind = "subscription", handler[h].pc = "confirmed", handler'[h].log = handler[h].log
        PROVE  FALSE
    BY <1>0, <2>6, <2>a DEF Wired, LogOf
  <2>7. ASSUME NEW s, handler'[h] = [pc |-> "entered", log |-> handler[h].log, status |-> s,
                                     ent |-> handler[h].ent, effect |-> handler[h].effect]
        PROVE  handler'[h].log = handler[h].log
    BY <2>7
  <2> QED BY <1>0, <2>2, <2>3, <2>4, <2>5, <2>6, <2>7, Reads
<1> QED BY <1>1, <1>2 DEF Disputes, Monthly

\* What was taken back stays as it is, until its payment is taken back again or its
\* account goes.
LEMMA RevokedStays ==
  ASSUME TInv, Next, NEW p \in Pay, effect[p].state = "revoked"
  PROVE  \/ effect'[p] = effect[p]
         \/ \E g \in Handler : (Grant(g) \/ Reverse(g)) /\ PayOf(g) = p
         \/ \E u \in User : Erase(u) /\ effect[p].order \in OrdersOf(u)
<1>0. IInv /\ Typed /\ effect \in [Pay -> Effect]
  BY DEF TInv, Typed
<1>1. ASSUME NEW g \in Handler, Grant(g), PayOf(g) # p PROVE effect'[p] = effect[p]
  <2>1. PICK s, c : s = PayOf(g) /\ c = OrderOf(g)
    OBVIOUS
  <2>2. \A q \in Pay : q # s => effect'[q] = effect[q]
    BY <1>1, <2>1, GrantOn
  <2> QED BY <1>1, <2>1, <2>2
<1>2. ASSUME NEW g \in Handler, Reverse(g), PayOf(g) # p PROVE effect'[p] = effect[p]
  <2>1. PICK s, x, c : s = PayOf(g) /\ x = handler[g].effect /\ c = OrderOf(g)
    OBVIOUS
  <2>2. /\ Reverses(g, s, c, x) /\ Others(s)
        /\ ReversesPack(c) \/ ReversesPlan(g, c, x) \/ ReversesSlice(g, s, c, x)
    BY Zenon, <1>0, <1>2, <2>1, ReverseWrites
  <2>3. Stay \/ MoveUp(s, c, x)
    BY Zenon, <2>2 DEF ReversesPack, ReversesPlan, ReversesSlice
  <2>4. p \notin Slices(effect, s, c) /\ ~Behind(s, x, p) /\ x \in Effect
    BY <2>2 DEF Slices, Behind, Reverses
  <2>5. Shifted(s, x)[p].start = effect[p].start /\ Shifted(s, x)[p].end = effect[p].end
    BY <1>0, <2>4, ShiftedIs
  <2>6. effect'[p].start = effect[p].start /\ effect'[p].end = effect[p].end /\ effect'[p].key = effect[p].key
    BY Zenon, <2>3, <2>4, <2>5 DEF Stay, MoveUp
  <2>7. /\ effect'[p] \in Effect /\ effect[p] \in Effect
        /\ effect'[p].state = effect[p].state /\ effect'[p].order = effect[p].order
    BY <1>0, <1>2, <2>1, <2>2 DEF Others
  <2> QED BY <2>6, <2>7 DEF Effect
<1>3. ASSUME NEW u \in User, Erase(u), effect[p].order \notin OrdersOf(u) PROVE effect'[p] = effect[p]
  <2>1. PICK N : N = NoEffect
    OBVIOUS
  <2>2. effect' = [q \in Pay |-> IF effect[q].order \in OrdersOf(u) THEN N ELSE effect[q]]
    BY Zenon, <1>3, <2>1, EraseWrites
  <2> QED BY <1>3, <2>2
<1> QED BY <1>1, <1>2, <1>3, Movers

\* A request that goes on has the payment and the checkout it had.
LEMMA KeepsOn ==
  ASSUME TInv, Next, NEW h \in Handler, Entered(h), LogOf(h)'.kind = "payment",
         handler'[h].log = handler[h].log
  PROVE  /\ LogOf(h).kind = "payment" /\ PayOf(h)' = PayOf(h) /\ OrderOf(h)' = OrderOf(h)
         /\ PayOf(h) \in Pay /\ OrderOf(h) \in Order
<1>0. Shapes /\ Wired /\ handler[h].pc # "idle"
  BY DEF TInv, IInv, Entered
<1>1. handler[h].log \in DOMAIN log
  BY <1>0 DEF Wired
<1>2. log'[handler[h].log].kind = log[handler[h].log].kind /\ log'[handler[h].log].ref = log[handler[h].log].ref
  BY <1>0, <1>1, LogMoves
<1>3. LogOf(h).kind = "payment" /\ PayOf(h)' = PayOf(h)
  BY <1>2 DEF LogOf, PayOf
<1>4. PayOf(h) \in Pay /\ charge[PayOf(h)].status # "none" /\ OrderOf(h) \in Order
  BY <1>0, <1>3, AtWork DEF PayOf, OrderOf
<1> QED BY <1>0, <1>3, <1>4, ChargeStays DEF OrderOf

\* What a request has read stays what there is until it writes, for no other request
\* writes payments of the checkout before.
LEMMA FreshStep == ASSUME TInv, Fresh, Apart, Next PROVE Fresh'
<1>0. /\ IInv /\ Typed /\ Shapes /\ Wired /\ Ready /\ Effects
      /\ ent \in [Order -> Ent] /\ effect \in [Pay -> Effect] /\ now \in Nat
      /\ handler \in [Handler -> Requests]
  BY DEF TInv, IInv, Typed, Shapes, Facts
<1> SUFFICES ASSUME NEW h \in Handler, Entered(h)', LogOf(h)'.kind = "payment", Owner[OrderOf(h)'] \notin erased'
             PROVE  /\ handler'[h].status = "approved" =>
                         \/ handler'[h].ent = ent'[OrderOf(h)']
                         \/ handler'[h].ent.expires <= now' /\ ent'[OrderOf(h)'].expires <= now'
                    /\ handler'[h].status \in {"refunded", "chargeback"} => handler'[h].effect = effect'[PayOf(h)']
                    /\ handler'[h].status = "refunded" => handler'[h].effect.state = "granted"
  BY DEF Fresh
<1> DEFINE Good == /\ handler'[h].status = "approved" =>
                         \/ handler'[h].ent = ent'[OrderOf(h)']
                         \/ handler'[h].ent.expires <= now' /\ ent'[OrderOf(h)'].expires <= now'
                   /\ handler'[h].status \in {"refunded", "chargeback"} => handler'[h].effect = effect'[PayOf(h)']
                   /\ handler'[h].status = "refunded" => handler'[h].effect.state = "granted"
<1>1. CASE handler'[h] = handler[h]
  <2>1. Entered(h)
    BY <1>1 DEF Entered
  <2>2. PICK p \in Pay, c \in Order :
              /\ p = PayOf(h) /\ c = OrderOf(h) /\ PayOf(h)' = p /\ OrderOf(h)' = c /\ LogOf(h).kind = "payment"
    BY <1>1, <2>1, KeepsOn
  <2>3. Owner[c] \notin erased' /\ Owner[c] \notin erased
    BY <1>0, <2>2, AccountsStay
  <2>4. /\ handler[h].status = "approved" =>
              handler[h].ent = ent[c] \/ (handler[h].ent.expires <= now /\ ent[c].expires <= now)
        /\ handler[h].status \in {"refunded", "chargeback"} => handler[h].effect = effect[p]
        /\ handler[h].status = "refunded" => handler[h].effect.state = "granted"
    BY <2>1, <2>2, <2>3 DEF Fresh
  <2>5. ASSUME NEW g \in Handler, Grant(g) \/ Reverse(g) PROVE OrderOf(g) # c
    <3>1. Entered(g) /\ LogOf(g).kind = "payment" /\ Becomes(g, Quiet)
      BY Zenon, <2>5 DEF Grant, Reverse, Entered, LogOf
    <3>2. g # h
      BY <1>0, <1>1, <2>1, <3>1 DEF Becomes, Quiet, Entered
    <3> QED BY <2>1, <2>2, <3>1, <3>2 DEF Apart
  <2>6. ~Erase(Owner[c])
    BY <1>0, <2>3 DEF Erase
  <2>7. SameSlices(c) /\ SameWindow(c) /\ now' = now
    BY <2>1, <2>5, <2>6, OrderMoves
  <2>8. handler[h].status \in {"refunded", "chargeback"} => effect'[p] = effect[p]
    <3>1. handler[h].status \in {"refunded", "chargeback"} => effect[p].state # "none" /\ effect[p].order = c
      BY <1>0, <2>1, <2>2, <2>3 DEF Ready, Effects, PayOf, OrderOf
    <3>2. CASE effect[p].state = "granted" /\ effect[p].order = c
      BY <2>7, <3>2 DEF SameSlices, HasSlice
    <3>3. CASE effect[p].state = "revoked" /\ effect[p].order = c
      <4>1. ASSUME NEW g \in Handler, Grant(g) \/ Reverse(g) PROVE PayOf(g) # p
        BY <2>2, <2>5, <4>1 DEF OrderOf
      <4>2. ASSUME NEW u \in User, Erase(u) PROVE c \notin OrdersOf(u)
        BY <2>6, <4>2 DEF OrdersOf
      <4> QED BY <3>3, <4>1, <4>2, RevokedStays
    <3>4. effect[p].state \in {"none", "granted", "revoked"}
      <4>1. effect[p] \in Effect
        BY <1>0
      <4> QED BY <4>1 DEF Effect
    <3> QED BY <3>1, <3>2, <3>3, <3>4
  <2>9. CASE handler[h].ent = ent[c]
    BY <1>1, <2>2, <2>4, <2>7, <2>8, <2>9 DEF SameWindow
  <2>10. CASE handler[h].ent # ent[c]
    BY <1>1, <2>2, <2>4, <2>7, <2>8, <2>10 DEF SameWindow
  <2> QED BY <2>9, <2>10
<1>2. ASSUME Enter(h), LogOf(h).kind = "payment", Verdict(LogOf(h).ref, handler[h].status) \in {"grant", "reverse"},
             UNCHANGED <<refunds, sub, log>>,
             handler'[h] = [pc |-> "entered", log |-> handler[h].log, status |-> handler[h].status,
                            ent |-> ent[charge[LogOf(h).ref].order], effect |-> effect[LogOf(h).ref]],
             handler[h].pc = "confirmed"
      PROVE  Good
  <2>1. UNCHANGED <<ent, effect, rebill>>
    BY Zenon, <1>2 DEF Enter
  <2>2. UNCHANGED <<ent, effect, charge, log>>
    BY <1>2, <2>1 DEF rebill
  <2>3. handler'[h].log = handler[h].log
    BY <1>2
  <2>4. PayOf(h)' = LogOf(h).ref /\ OrderOf(h)' = charge[LogOf(h).ref].order /\ LogOf(h).ref \in Pay
    <3>1. LogOf(h).ref \in Pay
      BY <1>0, <1>2, AtWork
    <3> QED BY <2>2, <2>3, <3>1 DEF PayOf, OrderOf, LogOf
  <2>5. handler[h].status = "refunded" => effect[LogOf(h).ref].state = "granted"
    <3>1. PICK p \in Pay : p = LogOf(h).ref
      BY <2>4
    <3>2. effect[p].state \in {"none", "granted", "revoked"}
      <4>1. effect[p] \in Effect
        BY <1>0
      <4> QED BY <4>1 DEF Effect
    <3>3. handler[h].status = "refunded" => effect[p].state # "none" /\ effect[p].state # "revoked"
      BY Zenon, <1>2, <3>1 DEF Verdict
    <3> QED BY <3>1, <3>2, <3>3
  <2> QED BY <1>2, <2>2, <2>4, <2>5
<1>3. CASE handler'[h] = Quiet
  BY <1>3 DEF Quiet, Entered
<1>4. ASSUME NEW l \in DOMAIN log, NEW s,
             handler'[h] = [pc |-> "confirmed", log |-> l, status |-> s, ent |-> NoEnt, effect |-> NoEffect]
      PROVE  FALSE
  BY <1>4 DEF Entered
<1>5. ASSUME LogOf(h).kind = "subscription", UNCHANGED log, NEW s,
             handler'[h] = [pc |-> "entered", log |-> handler[h].log, status |-> s,
                            ent |-> handler[h].ent, effect |-> handler[h].effect]
      PROVE  FALSE
  <2>1. handler'[h].log = handler[h].log
    BY <1>5
  <2> QED BY <1>5, <2>1 DEF LogOf
<1> HIDE DEF Good
<1>6. CASE \E l \in DOMAIN log :
              /\ Confirm(h, l)
              /\ handler'[h] = [pc |-> "confirmed", log |-> l,
                                status |-> IF IsPayment(l) THEN charge[log[l].ref].status ELSE standing[log[l].ref],
                                ent |-> NoEnt, effect |-> NoEffect]
  <2>1. PICK l \in DOMAIN log : \E s : handler'[h] = [pc |-> "confirmed", log |-> l, status |-> s,
                                                      ent |-> NoEnt, effect |-> NoEffect]
    BY Zenon, <1>6
  <2> QED BY <1>4, <2>1
<1>7. CASE \E s \in {"none", Mapped(handler[h].status)} :
              handler'[h] = [pc |-> "entered", log |-> handler[h].log, status |-> s,
                             ent |-> handler[h].ent, effect |-> handler[h].effect]
           /\ LogOf(h).kind = "subscription" /\ UNCHANGED log
  <2>1. PICK s : handler'[h] = [pc |-> "entered", log |-> handler[h].log, status |-> s,
                                ent |-> handler[h].ent, effect |-> handler[h].effect]
    BY Zenon, <1>7
  <2> QED BY <1>5, <1>7, <2>1
<1>9. Good
  BY Zenon, <1>0, <1>1, <1>2, <1>3, <1>6, <1>7, Reads DEF Good
<1> QED BY <1>9 DEF Good

\* Slices and windows that stay leave paid what was paid, whether time passes or not.
LEMMA SameDays ==
  ASSUME Typed, now \in Nat, now' \in {now, now + 1}, NEW o \in Order, SameSlices(o), SameWindow(o)
  PROVE  (Tiled(o) => Tiled(o)') /\ (Paid(o) => Paid(o)')
<1>1. \A q \in Pay : (HasSlice(q, o)' <=> HasSlice(q, o)) /\ (HasSlice(q, o) => effect'[q] = effect[q])
  BY DEF SameSlices
<1>2. /\ ent'[o].start = ent[o].start /\ ent'[o].expires = ent[o].expires
      /\ ent[o].start \in Nat /\ ent[o].expires \in Nat
      /\ \A q \in Pay : effect[q].start \in Int /\ effect[q].end \in Int
  BY DEF SameWindow, Typed, Ent, Effect
<1>3. \A t : Covered(o, t) => Covered(o, t)'
  BY <1>1 DEF Covered
<1>4. ASSUME Tiled(o) PROVE Tiled(o)'
  <2>1. \A q \in Pay : HasSlice(q, o)' => effect'[q].start < effect'[q].end
    BY <1>1, <1>4 DEF Tiled
  <2>2. \A q \in Pay : HasSlice(q, o)' /\ effect'[q].end > now' => effect'[q].end <= ent'[o].expires
    BY <1>1, <1>2, <1>4 DEF Tiled
  <2>3. ASSUME NEW q \in Pay, NEW t \in Int, HasSlice(q, o)', effect'[q].end > now', effect'[q].start <= t, now' <= t,
               t < ent'[o].expires
        PROVE  Covered(o, t)'
    <3>1. HasSlice(q, o) /\ effect[q].end > now /\ effect[q].start <= t /\ now <= t /\ t < ent[o].expires
      BY <1>1, <1>2, <2>3
    <3>2. Covered(o, t)
      BY <1>4, <3>1 DEF Tiled
    <3> QED BY <1>3, <3>2
  <2>4. \A q, r \in Pay : HasSlice(q, o)' /\ HasSlice(r, o)' /\ q # r =>
          effect'[q].end <= effect'[r].start \/ effect'[r].end <= effect'[q].start
    BY <1>1, <1>4 DEF Tiled
  <2> QED BY <2>1, <2>2, <2>3, <2>4 DEF Tiled
<1>5. ASSUME Paid(o) PROVE Paid(o)'
  <2> SUFFICES ASSUME NEW t \in Int, now' <= t, ent'[o].start <= t, t < ent'[o].expires PROVE Covered(o, t)'
    BY DEF Paid
  <2>1. now <= t /\ ent[o].start <= t /\ t < ent[o].expires
    BY <1>2
  <2>2. Covered(o, t)
    BY <1>5, <2>1 DEF Paid
  <2> QED BY <1>3, <2>2
<1> QED BY <1>4, <1>5

\* A payment extends a window that lasts by its slice, or opens one that is its slice.
Extends(o, p) ==
  /\ ent[o].expires > now /\ ent'[o].start = ent[o].start
  /\ effect'[p].start = ent[o].expires /\ effect'[p].end = ent'[o].expires /\ ent'[o].expires > ent[o].expires
Opens(o, p) ==
  /\ ent[o].expires <= now /\ ent'[o].start = now
  /\ effect'[p].start = now /\ effect'[p].end = ent'[o].expires /\ ent'[o].expires > now

\* A grant does one of these, from the window as the request read it.
LEMMA GrantOpens ==
  ASSUME TInv, DInv, NEW h \in Handler, Grant(h), NEW p, p = PayOf(h), NEW o, o = OrderOf(h), o \notin Packs
  PROVE  Extends(o, p) \/ Opens(o, p)
<1>1. /\ Grants(h, p, o) /\ ent'[o] = Window(handler[h].ent, o)
      /\ effect'[p].start = ent'[o].expires - Length(o) /\ effect'[p].end = ent'[o].expires
  BY Zenon, GrantOn
<1>2. PICK e, r : e = ent[o] /\ r = handler[h].ent
  OBVIOUS
<1>3. e \in Ent /\ r \in Ent /\ now \in Nat /\ o \in Order
  <2>1. o \in Order
    BY <1>1 DEF Grants
  <2>2. ent[o] \in Ent /\ handler[h].ent \in Ent /\ now \in Nat
    BY <2>1 DEF TInv, Typed, Requests, IInv, Shapes, Facts
  <2> QED BY <1>2, <2>1, <2>2
<1>4. /\ e.start \in Nat /\ e.expires \in Nat /\ e.status \in {"none", "active", "expired", "revoked"}
      /\ r.start \in Nat /\ r.expires \in Nat
  BY <1>3 DEF Ent
<1>5. r = e \/ (r.expires <= now /\ e.expires <= now)
  BY <1>1, <1>2 DEF DInv, Fresh, Grants
<1>6. e.status # "active" => e.expires <= now
  BY <1>2, <1>3 DEF DInv, Over
<1>7. PICK L \in Nat \ {0} : L = Length(o)
  BY LengthType
<1>8. CASE r.status \notin {"none", "revoked"} /\ r.expires > now
  <2>1. r = e
    BY <1>3, <1>4, <1>5, <1>8
  <2>2. ent'[o].start = e.start /\ ent'[o].expires = e.expires + L
    BY <1>1, <1>2, <1>7, <1>8, <2>1 DEF Window, Extended
  <2> QED BY <1>1, <1>2, <1>4, <1>7, <1>8, <2>1, <2>2 DEF Extends
<1>9. CASE ~(r.status \notin {"none", "revoked"} /\ r.expires > now)
  <2>1. e.expires <= now
    BY <1>3, <1>4, <1>5, <1>6, <1>9
  <2>2. ent'[o].start = now /\ ent'[o].expires = now + L
    BY <1>1, <1>2, <1>7, <1>9 DEF Window, Extended
  <2> QED BY <1>1, <1>2, <1>3, <1>7, <2>1, <2>2 DEF Opens
<1> QED BY <1>8, <1>9

\* The days of a payment that is granted are its own.
LEMMA GrantDays ==
  ASSUME Typed, now \in Nat, now' = now, NEW o \in Order, NEW p \in Pay, ~HasSlice(p, o), HasSlice(p, o)',
         \A q \in Pay : q # p => effect'[q] = effect[q], Extends(o, p) \/ Opens(o, p),
         effect'[p].start \in Int, effect'[p].end \in Int
  PROVE  (Tiled(o) => Tiled(o)') /\ (Paid(o) => Paid(o)')
<1>1. \A q \in Pay : q # p => (HasSlice(q, o)' <=> HasSlice(q, o)) /\ effect'[q] = effect[q]
  BY DEF HasSlice
<1>2. /\ ent[o].start \in Nat /\ ent[o].expires \in Nat
      /\ \A q \in Pay : effect[q].start \in Int /\ effect[q].end \in Int
  BY DEF Typed, Ent, Effect
<1>3. PICK a \in Int, b \in Int : a = effect'[p].start /\ b = effect'[p].end
  OBVIOUS
<1>4. /\ a < b /\ ent'[o].expires = b
      /\ \/ a = ent[o].expires /\ a > now /\ ent'[o].start = ent[o].start
         \/ a = now /\ ent[o].expires <= now /\ ent'[o].start = now
  BY <1>3 DEF Extends, Opens
<1>5. \A t : Covered(o, t) => Covered(o, t)'
  BY <1>1 DEF Covered
<1>6. \A t \in Int : a <= t /\ t < b => Covered(o, t)'
  BY <1>3 DEF Covered
<1>7. ASSUME Tiled(o) PROVE Tiled(o)'
  <2>0. \A q \in Pay : HasSlice(q, o) => effect[q].start < effect[q].end
    BY <1>7 DEF Tiled
  <2>a. \A q \in Pay : HasSlice(q, o) /\ effect[q].end > now => effect[q].end <= ent[o].expires
    BY <1>7 DEF Tiled
  <2>1. \A q \in Pay : HasSlice(q, o)' => effect'[q].start < effect'[q].end
    BY <1>1, <1>3, <1>4, <2>0
  <2>2. \A q \in Pay : HasSlice(q, o)' /\ effect'[q].end > now' => effect'[q].end <= ent'[o].expires
    <3>1. \A q \in Pay : q # p /\ HasSlice(q, o) /\ effect[q].end > now => effect[q].end <= b
      BY <1>2, <1>4, <2>a
    <3> QED BY <1>1, <1>3, <1>4, <3>1
  <2>3. ASSUME NEW q \in Pay, NEW t \in Int, HasSlice(q, o)', effect'[q].end > now', effect'[q].start <= t, now' <= t,
               t < ent'[o].expires
        PROVE  Covered(o, t)'
    <3>1. CASE a <= t
      BY <1>4, <1>6, <2>3, <3>1
    <3>2. CASE t < a
      <4>1. q # p /\ HasSlice(q, o) /\ effect[q].end > now /\ effect[q].start <= t /\ t < ent[o].expires /\ now <= t
        BY <1>1, <1>3, <1>4, <2>3, <3>2
      <4>2. Covered(o, t)
        BY <1>7, <4>1 DEF Tiled
      <4> QED BY <1>5, <4>2
    <3> QED BY <3>1, <3>2
  <2>4. ASSUME NEW q \in Pay, NEW r \in Pay, HasSlice(q, o)', HasSlice(r, o)', q # r
        PROVE  effect'[q].end <= effect'[r].start \/ effect'[r].end <= effect'[q].start
    <3>1. \A s \in Pay : s # p /\ HasSlice(s, o) => effect[s].end <= a
      BY <1>2, <1>4, <2>a
    <3>2. CASE q # p /\ r # p
      BY <1>1, <1>7, <2>4, <3>2 DEF Tiled
    <3>3. CASE q = p
      BY <1>1, <1>3, <2>4, <3>1, <3>3
    <3>4. CASE r = p
      BY <1>1, <1>3, <2>4, <3>1, <3>4
    <3> QED BY <3>2, <3>3, <3>4
  <2> QED BY <2>1, <2>2, <2>3, <2>4 DEF Tiled
<1>8. ASSUME Paid(o) PROVE Paid(o)'
  <2> SUFFICES ASSUME NEW t \in Int, now' <= t, ent'[o].start <= t, t < ent'[o].expires PROVE Covered(o, t)'
    BY DEF Paid
  <2>1. CASE a <= t
    BY <1>4, <1>6, <2>1
  <2>2. CASE t < a
    <3>1. now <= t /\ ent[o].start <= t /\ t < ent[o].expires
      BY <1>4, <2>2
    <3>2. Covered(o, t)
      BY <1>8, <3>1 DEF Paid
    <3> QED BY <1>5, <3>2
  <2> QED BY <2>1, <2>2
<1> QED BY <1>7, <1>8

\* A slice that is taken out of a monthly plan leaves the others days that are theirs and
\* paid: those behind it move up by its length, or the window shrinks to them.
MovesUp(p, x, q) == ~CurrentOf(x) /\ effect[q].start >= x.end
Remains(p, o, q) == q \in Pay /\ q # p /\ HasSlice(q, o)
TakenOut(p, o, x) ==
  /\ p \in Pay /\ HasSlice(p, o) /\ x = effect[p] /\ ent[o].status # "revoked" /\ now' = now
  /\ \A q \in Pay : HasSlice(q, o)' <=> HasSlice(q, o) /\ q # p
  /\ \A q \in Pay : effect'[q].start = Shifted(p, x)[q].start /\ effect'[q].end = Shifted(p, x)[q].end
  /\ ent'[o] = AfterSlice(p, x, Shifted(p, x)).ent

\* Where a slice that remains has gone, and which of them last.
LEMMA Remainders ==
  ASSUME Typed, now \in Nat, NEW o \in Order, NEW p, NEW x, TakenOut(p, o, x), Tiled(o)
  PROVE  /\ x.start \in Int /\ x.end \in Int /\ x.start < x.end
         /\ \A q \in Pay : effect[q].start \in Int /\ effect[q].end \in Int
         /\ \A q \in Pay : Remains(p, o, q) =>
              /\ effect[q].start < effect[q].end
              /\ effect[q].end <= x.start \/ x.end <= effect[q].start
              /\ MovesUp(p, x, q) => /\ effect'[q].start = effect[q].start - (x.end - x.start)
                                     /\ effect'[q].end = effect[q].end - (x.end - x.start)
              /\ ~MovesUp(p, x, q) => effect'[q].start = effect[q].start /\ effect'[q].end = effect[q].end
         /\ \A q : q \in LaterOf(p, x, Shifted(p, x)) <=> Remains(p, o, q) /\ effect'[q].end > now
<1>0. /\ p \in Pay /\ HasSlice(p, o) /\ x = effect[p]
      /\ \A q \in Pay : effect'[q].start = Shifted(p, x)[q].start /\ effect'[q].end = Shifted(p, x)[q].end
  BY Zenon DEF TakenOut
<1>1. effect \in [Pay -> Effect] /\ x \in Effect /\ x.order = o
  BY <1>0 DEF Typed, HasSlice
<1>2. \A q \in Pay : effect[q].start \in Int /\ effect[q].end \in Int
  BY <1>1 DEF Effect
<1>3. ASSUME NEW q \in Pay, Remains(p, o, q)
      PROVE  /\ effect[q].start < effect[q].end
             /\ effect[q].end <= x.start \/ x.end <= effect[q].start
             /\ MovesUp(p, x, q) => /\ effect'[q].start = effect[q].start - (x.end - x.start)
                                    /\ effect'[q].end = effect[q].end - (x.end - x.start)
             /\ ~MovesUp(p, x, q) => effect'[q].start = effect[q].start /\ effect'[q].end = effect[q].end
  <2>1. HasSlice(q, o) /\ q # p
    BY <1>3 DEF Remains
  <2>2. effect[q].start < effect[q].end /\ (effect[q].end <= x.start \/ x.end <= effect[q].start)
    BY <1>0, <2>1 DEF Tiled
  <2>3. MovesUp(p, x, q) <=> Behind(p, x, q)
    BY <1>1, <2>1 DEF MovesUp, Behind, HasSlice
  <2>4. /\ Shifted(p, x)[q].start = IF Behind(p, x, q) THEN effect[q].start - (x.end - x.start) ELSE effect[q].start
        /\ Shifted(p, x)[q].end = IF Behind(p, x, q) THEN effect[q].end - (x.end - x.start) ELSE effect[q].end
    BY <1>1, ShiftedIs
  <2> QED BY <1>0, <2>2, <2>3, <2>4
<1>4. \A q : q \in LaterOf(p, x, Shifted(p, x)) <=> Remains(p, o, q) /\ effect'[q].end > now
  <2>1. PICK f : f = Shifted(p, x)
    OBVIOUS
  <2>2. \A q \in Pay : f[q].state = effect[q].state /\ f[q].order = effect[q].order /\ f[q].end = effect'[q].end
    BY <1>0, <1>1, <2>1, ShiftedIs
  <2>3. \A q : q \in Slices(f, p, o) <=> Remains(p, o, q)
    BY <2>2 DEF Slices, Remains, HasSlice
  <2>4. \A q : q \in LaterOf(p, x, f) <=> q \in Slices(f, p, o) /\ f[q].end > now
    BY <1>1 DEF LaterOf
  <2>5. \A q : q \in LaterOf(p, x, f) <=> Remains(p, o, q) /\ effect'[q].end > now
    BY <2>2, <2>3, <2>4 DEF Remains
  <2> QED BY <2>1, <2>5
<1>5. x.start < x.end /\ x.start \in Int /\ x.end \in Int
  BY <1>0, <1>2 DEF Tiled
<1> QED BY <1>2, <1>3, <1>4, <1>5

\* The window that is left has no time and no slice that lasts, or ends with the last slice
\* and begins as it did, or with the first slice that is left.
LEMMA WindowLeft ==
  ASSUME Typed, now \in Nat, NEW o \in Order, NEW p, NEW x, TakenOut(p, o, x), Tiled(o)
  PROVE  \/ ent'[o].expires <= now /\ \A q \in Pay : Remains(p, o, q) => effect'[q].end <= now
         \/ /\ \E z \in Pay : Remains(p, o, z) /\ effect'[z].end > now /\ ent'[o].expires = effect'[z].end
            /\ \A q \in Pay : Remains(p, o, q) /\ effect'[q].end > now => effect'[q].end <= ent'[o].expires
            /\ \/ ~CurrentOf(x) /\ ent'[o].start = ent[o].start
               \/ /\ CurrentOf(x)
                  /\ \E w \in Pay : Remains(p, o, w) /\ effect'[w].end > now /\ ent'[o].start = effect'[w].start
<1>1. PICK f : f = Shifted(p, x)
  OBVIOUS
<1>0. /\ p \in Pay /\ HasSlice(p, o) /\ x = effect[p] /\ ent[o].status # "revoked"
      /\ \A q \in Pay : effect'[q].start = f[q].start /\ effect'[q].end = f[q].end
      /\ ent'[o] = AfterSlice(p, x, f).ent
  BY Zenon, <1>1 DEF TakenOut
<1>2. /\ x.start \in Int /\ x.end \in Int /\ x.start < x.end
      /\ \A q \in Pay : effect[q].start \in Int /\ effect[q].end \in Int
  BY Remainders
<1>3. \A q \in Pay : Remains(p, o, q) =>
        /\ effect[q].start < effect[q].end
        /\ effect[q].end <= x.start \/ x.end <= effect[q].start
        /\ CurrentOf(x) => effect'[q].start = effect[q].start /\ effect'[q].end = effect[q].end
  BY Remainders DEF MovesUp
<1>4. \A q : q \in LaterOf(p, x, f) <=> Remains(p, o, q) /\ effect'[q].end > now
  BY <1>1, Remainders
<1>5. f \in [Pay -> Effect] /\ ent[o] \in Ent /\ x.order = o
  <2>1. effect \in [Pay -> Effect] /\ x \in Effect
    BY <1>0 DEF Typed
  <2> QED BY <1>0, <1>1, <2>1, ShiftedType DEF Typed, HasSlice
<1>6. \A q \in Pay : f[q].start \in Int /\ f[q].end \in Int
  BY <1>5 DEF Effect
<1>7. CASE LaterOf(p, x, f) = {}
  <2>1. ~Moved(p, x, f)
    BY <1>7 DEF Moved
  <2>2. ent'[o].expires = Min({ent[o].expires, now})
    <3>1. PICK m : m = Min({ent[o].expires, now})
      OBVIOUS
    <3>2. PICK s : AfterSlice(p, x, f).ent = [status |-> s, start |-> ent[x.order].start, expires |-> Min({ent[x.order].expires, now})]
      BY Zenon, <1>5, <2>1, AfterSliceIs
    <3> QED BY <1>0, <1>5, <3>2
  <2>3. ent'[o].expires <= now
    <3>1. ent[o].expires \in Nat
      BY <1>5 DEF Ent
    <3> QED BY <2>2, <3>1, TwoOf
  <2>4. \A q \in Pay : Remains(p, o, q) => effect'[q].end <= now
    BY <1>0, <1>4, <1>6, <1>7
  <2> QED BY <2>3, <2>4
<1>8. CASE LaterOf(p, x, f) # {}
  <2>1. /\ \E q \in LaterOf(p, x, f) : LastEnd(p, x, f) = f[q].end
        /\ \A q \in LaterOf(p, x, f) : f[q].end <= LastEnd(p, x, f)
        /\ \E q \in LaterOf(p, x, f) : FirstStart(p, x, f) = f[q].start
    BY <1>6, <1>8, LaterEnds
  <2>2. PICK E, F : E = LastEnd(p, x, f) /\ F = FirstStart(p, x, f)
    OBVIOUS
  <2>3. PICK z \in Pay, w \in Pay : /\ Remains(p, o, z) /\ effect'[z].end > now /\ E = effect'[z].end
                                    /\ Remains(p, o, w) /\ effect'[w].end > now /\ F = effect'[w].start
    BY <1>0, <1>4, <2>1, <2>2 DEF Remains
  <2>4. \A q \in Pay : Remains(p, o, q) /\ effect'[q].end > now => effect'[q].end <= E
    BY <1>0, <1>4, <2>1, <2>2
  <2>5. CurrentOf(x) => F > now
    BY <1>2, <1>3, <2>3 DEF CurrentOf
  <2>6. Moved(p, x, f)
    BY <1>8, <2>2, <2>5 DEF Moved
  <2>7. ent'[o] = [status |-> "active", start |-> IF CurrentOf(x) THEN F ELSE ent[o].start, expires |-> E]
    <3>1. ent[x.order] \in Ent /\ ent[x.order].status # "revoked"
      BY <1>0, <1>5
    <3>2. AfterSlice(p, x, f).ent =
            [status |-> "active", start |-> IF CurrentOf(x) THEN FirstStart(p, x, f) ELSE ent[x.order].start,
             expires |-> LastEnd(p, x, f)]
      BY Zenon, <2>6, <3>1, AfterSliceIs
    <3> QED BY <1>0, <1>5, <2>2, <3>2
  <2>8. ent'[o].expires = E /\ (CurrentOf(x) => ent'[o].start = F) /\ (~CurrentOf(x) => ent'[o].start = ent[o].start)
    BY <2>7
  <2> QED BY <2>3, <2>4, <2>8
<1> QED BY <1>7, <1>8

\* The days of the slices that are left are theirs, and paid.
LEMMA SliceDays ==
  ASSUME Typed, now \in Nat, NEW o \in Order, NEW p, NEW x, TakenOut(p, o, x), Tiled(o), Paid(o), ent'[o] \in Ent
  PROVE  Tiled(o)' /\ Paid(o)'
<1>0. /\ p \in Pay /\ HasSlice(p, o) /\ x = effect[p] /\ now' = now
      /\ \A q \in Pay : HasSlice(q, o)' <=> Remains(p, o, q)
  BY Zenon DEF TakenOut, Remains
<1>1. /\ x.start \in Int /\ x.end \in Int /\ x.start < x.end
      /\ \A q \in Pay : effect[q].start \in Int /\ effect[q].end \in Int
  BY Remainders
<1>2. \A q \in Pay : Remains(p, o, q) =>
        /\ effect[q].start < effect[q].end
        /\ effect[q].end <= x.start \/ x.end <= effect[q].start
        /\ MovesUp(p, x, q) => /\ effect'[q].start = effect[q].start - (x.end - x.start)
                               /\ effect'[q].end = effect[q].end - (x.end - x.start)
        /\ ~MovesUp(p, x, q) => effect'[q].start = effect[q].start /\ effect'[q].end = effect[q].end
  BY Remainders
<1>3. PICK L \in Nat \ {0} : L = x.end - x.start
  BY <1>1
<1>4. ent[o].start \in Nat /\ ent[o].expires \in Nat
  BY DEF Typed, Ent
<1>5. \A q \in Pay : Remains(p, o, q) =>
        /\ effect'[q].start \in Int /\ effect'[q].end \in Int /\ effect'[q].start < effect'[q].end
        /\ effect'[q].end <= effect[q].end
  BY <1>1, <1>2, <1>3
<1>6. \A q \in Pay : Remains(p, o, q) /\ effect[q].end > now => effect[q].end <= ent[o].expires
  BY DEF Tiled, Remains
<1>a. \A t \in Int : (\E q \in Pay : Remains(p, o, q) /\ effect'[q].start <= t /\ t < effect'[q].end) => Covered(o, t)'
  BY <1>0 DEF Covered
\* A day before the slice that is taken out, and a day after it that has moved up.
<1>b. ASSUME NEW t \in Int, Covered(o, t), t < x.start \/ (CurrentOf(x) /\ x.end <= t) PROVE Covered(o, t)'
  <2>1. PICK y \in Pay : HasSlice(y, o) /\ effect[y].start <= t /\ t < effect[y].end
    BY <1>b DEF Covered
  <2>2. Remains(p, o, y)
    BY <1>0, <1>1, <1>b, <2>1 DEF Remains
  <2>3. ~MovesUp(p, x, y)
    BY <1>1, <1>b, <2>1 DEF MovesUp
  <2> QED BY <1>2, <1>a, <2>1, <2>2, <2>3
<1>c. ASSUME NEW t \in Int, Covered(o, t + L), x.start <= t, ~CurrentOf(x) PROVE Covered(o, t)'
  <2>1. PICK y \in Pay : HasSlice(y, o) /\ effect[y].start <= t + L /\ t + L < effect[y].end
    BY <1>c DEF Covered
  <2>2. x.end <= t + L
    BY <1>1, <1>3, <1>c
  <2>3. Remains(p, o, y)
    BY <1>0, <1>1, <1>c, <2>1, <2>2 DEF Remains
  <2>4. x.end <= effect[y].start
    BY <1>1, <1>2, <2>1, <2>2, <2>3
  <2>5. MovesUp(p, x, y)
    BY <1>c, <2>4 DEF MovesUp
  <2>6. effect'[y].start = effect[y].start - L /\ effect'[y].end = effect[y].end - L
    BY <1>2, <1>3, <2>3, <2>5
  <2>7. effect'[y].start <= t /\ t < effect'[y].end
    BY <1>1, <1>3, <2>1, <2>6
  <2> QED BY <1>a, <2>3, <2>7
\* What is left ends within the window there was, and after the slice has moved up.
<1>d. ASSUME NEW z \in Pay, Remains(p, o, z), effect'[z].end > now
      PROVE  /\ effect'[z].end <= ent[o].expires
             /\ ~CurrentOf(x) /\ x.start < effect'[z].end => effect'[z].end + L <= ent[o].expires
  <2>1. effect[z].end <= ent[o].expires /\ effect'[z].end <= ent[o].expires
    BY <1>1, <1>4, <1>5, <1>6, <1>d
  <2>2. ASSUME ~CurrentOf(x), x.start < effect'[z].end PROVE effect'[z].end + L <= ent[o].expires
    <3>1. MovesUp(p, x, z)
      BY <1>1, <1>2, <1>d, <2>2 DEF MovesUp
    <3>2. effect'[z].end = effect[z].end - L
      BY <1>2, <1>3, <1>d, <3>1
    <3> QED BY <1>1, <1>3, <2>1, <3>2
  <2> QED BY <2>1, <2>2
\* No two slices that are left come to share a day.
<1>e. ASSUME NEW q \in Pay, NEW r \in Pay, Remains(p, o, q), Remains(p, o, r), q # r
      PROVE  effect'[q].end <= effect'[r].start \/ effect'[r].end <= effect'[q].start
  <2>1. effect[q].end <= effect[r].start \/ effect[r].end <= effect[q].start
    BY <1>e DEF Tiled, Remains
  <2>2. CASE MovesUp(p, x, q) <=> MovesUp(p, x, r)
    BY <1>1, <1>2, <1>3, <1>e, <2>1, <2>2
  <2>3. ASSUME NEW y \in Pay, NEW z \in Pay, Remains(p, o, y), Remains(p, o, z), MovesUp(p, x, y), ~MovesUp(p, x, z)
        PROVE  effect'[z].end <= effect'[y].start
    <3>1. x.end <= effect[y].start /\ effect[z].end <= x.start
      BY <1>1, <1>2, <2>3 DEF MovesUp
    <3>2. effect'[z].end = effect[z].end /\ effect'[y].start = effect[y].start - L
      BY <1>2, <1>3, <2>3
    <3> QED BY <1>1, <1>3, <3>1, <3>2
  <2> QED BY <1>e, <2>2, <2>3
<1>f. /\ \A q \in Pay : HasSlice(q, o)' => effect'[q].start < effect'[q].end
      /\ \A q, r \in Pay : HasSlice(q, o)' /\ HasSlice(r, o)' /\ q # r =>
           effect'[q].end <= effect'[r].start \/ effect'[r].end <= effect'[q].start
  BY <1>0, <1>5, <1>e
<1>g. ent'[o].expires \in Int
  BY DEF Ent
<1>7. CASE ent'[o].expires <= now /\ \A q \in Pay : Remains(p, o, q) => effect'[q].end <= now
  <2>1. \A q \in Pay : ~(HasSlice(q, o)' /\ effect'[q].end > now')
    BY <1>0, <1>5, <1>7
  <2>2. Tiled(o)'
    BY <1>f, <2>1 DEF Tiled
  <2>3. \A t \in Int : ~(now' <= t /\ t < ent'[o].expires)
    BY <1>0, <1>g, <1>7
  <2>4. Paid(o)'
    BY <2>3 DEF Paid
  <2> QED BY <2>2, <2>4
<1>8. ASSUME NEW z \in Pay, Remains(p, o, z), effect'[z].end > now, ent'[o].expires = effect'[z].end,
             \A q \in Pay : Remains(p, o, q) /\ effect'[q].end > now => effect'[q].end <= ent'[o].expires,
             \/ ~CurrentOf(x) /\ ent'[o].start = ent[o].start
             \/ /\ CurrentOf(x)
                /\ \E w \in Pay : Remains(p, o, w) /\ effect'[w].end > now /\ ent'[o].start = effect'[w].start
      PROVE  Tiled(o)' /\ Paid(o)'
  <2>1. PICK E \in Int : E = ent'[o].expires
    BY <1>5, <1>8
  <2>2. E <= ent[o].expires /\ (~CurrentOf(x) /\ x.start < E => E + L <= ent[o].expires)
    BY <1>8, <1>d, <2>1
  <2>3. ASSUME NEW q \in Pay, NEW t \in Int, Remains(p, o, q), effect'[q].end > now, effect'[q].start <= t, now <= t, t < E
        PROVE  Covered(o, t)'
    <3>0. HasSlice(q, o) /\ effect[q].end > now
      BY <1>1, <1>5, <2>3 DEF Remains
    <3>a. effect[q].start <= t => Covered(o, t)
      BY <1>1, <1>4, <2>1, <2>2, <2>3, <3>0 DEF Tiled
    <3>1. CASE CurrentOf(x)
      <4>1. effect[q].start = effect'[q].start /\ effect[q].end = effect'[q].end
        BY <1>2, <2>3, <3>1 DEF MovesUp
      <4>2. x.end <= effect[q].start
        BY <1>1, <1>2, <2>3, <3>1, <4>1 DEF CurrentOf
      <4>3. x.end <= t
        BY <1>1, <2>3, <4>1, <4>2
      <4> QED BY <1>b, <2>3, <3>1, <3>a, <4>1, <4>3
    <3>2. CASE ~CurrentOf(x) /\ t < x.start
      <4>1. ~MovesUp(p, x, q)
        BY <1>1, <1>2, <1>3, <2>3, <3>2 DEF MovesUp
      <4>2. effect[q].start = effect'[q].start
        BY <1>2, <2>3, <4>1
      <4> QED BY <1>b, <2>3, <3>2, <3>a, <4>2
    <3>3. CASE ~CurrentOf(x) /\ x.start <= t
      <4>1. t + L < ent[o].expires /\ now <= t + L /\ t + L \in Int
        BY <1>1, <1>3, <1>4, <2>1, <2>2, <2>3, <3>3
      <4>2. \E y \in Pay : HasSlice(y, o) /\ effect[y].end > now /\ effect[y].start <= t + L
        <5>1. CASE MovesUp(p, x, q)
          <6>1. effect'[q].start = effect[q].start - L
            BY <1>2, <1>3, <2>3, <5>1
          <6> QED BY <1>1, <1>3, <2>3, <3>0, <6>1
        <5>2. CASE ~MovesUp(p, x, q)
          <6>1. effect[q].end <= x.start
            BY <1>1, <1>2, <2>3, <3>3, <5>2 DEF MovesUp
          <6>2. x.end > now /\ x.start <= t + L
            BY <1>1, <1>3, <3>0, <3>3, <6>1
          <6> QED BY <1>0, <6>2
        <5> QED BY <5>1, <5>2
      <4>3. Covered(o, t + L)
        BY <4>1, <4>2 DEF Tiled
      <4> QED BY <1>c, <3>3, <4>3
    <3> QED BY <1>1, <2>3, <3>1, <3>2, <3>3
  <2>4. Tiled(o)'
    <3>1. \A q \in Pay : HasSlice(q, o)' /\ effect'[q].end > now' => effect'[q].end <= ent'[o].expires
      BY <1>0, <1>8
    <3>2. \A q \in Pay : \A t \in Int :
            HasSlice(q, o)' /\ effect'[q].end > now' /\ effect'[q].start <= t /\ now' <= t /\ t < ent'[o].expires => Covered(o, t)'
      BY <1>0, <2>1, <2>3
    <3> QED BY <1>f, <3>1, <3>2 DEF Tiled
  <2>5. ASSUME NEW t \in Int, now <= t, ent'[o].start <= t, t < E PROVE Covered(o, t)'
    <3>1. CASE CurrentOf(x)
      <4>1. PICK w \in Pay : Remains(p, o, w) /\ effect'[w].end > now /\ ent'[o].start = effect'[w].start
        BY <1>8, <3>1
      <4> QED BY <2>3, <2>5, <4>1
    <3>2. CASE ~CurrentOf(x) /\ t < x.start
      <4>1. ent[o].start <= t /\ t < ent[o].expires
        BY <1>4, <1>8, <2>1, <2>2, <2>5, <3>2
      <4>2. Covered(o, t)
        BY <2>5, <4>1 DEF Paid
      <4> QED BY <1>b, <2>5, <3>2, <4>2
    <3>3. CASE ~CurrentOf(x) /\ x.start <= t
      <4>1. ent[o].start <= t + L /\ t + L < ent[o].expires /\ now <= t + L /\ t + L \in Int
        BY <1>1, <1>3, <1>4, <1>8, <2>1, <2>2, <2>5, <3>3
      <4>2. Covered(o, t + L)
        BY <4>1 DEF Paid
      <4> QED BY <1>c, <2>5, <3>3, <4>2
    <3> QED BY <1>1, <2>5, <3>1, <3>2, <3>3
  <2>6. Paid(o)'
    BY <1>0, <2>1, <2>5 DEF Paid
  <2> QED BY <2>4, <2>6
<1> QED BY <1>7, <1>8, WindowLeft

\* Every step leaves the days of a checkout paid.
DaysOf(o) == (Settled(o) => Tiled(o)) /\ (o \in Annual \/ Settled(o) => Paid(o))

\* No step leaves a day of the checkout unpaid, or paid twice.
LEMMA DaysStep ==
  ASSUME TInv, DInv, Next, NEW o \in Order \ Packs
  PROVE  DaysOf(o)'
<1>0. /\ IInv /\ Typed /\ Shapes /\ Wired /\ ent \in [Order -> Ent] /\ effect \in [Pay -> Effect] /\ now \in Nat
      /\ Disputes /\ Over /\ Fresh
  BY DEF TInv, IInv, Typed, Shapes, Facts, DInv
<1>1. ent' \in [Order -> Ent] /\ effect' \in [Pay -> Effect]
  BY <1>0, EntsType, EffectsType
<1>2. /\ ent'[o].start \in Nat /\ ent'[o].expires \in Nat
      /\ \A q \in Pay : effect'[q].start \in Int /\ effect'[q].end \in Int
  BY <1>1 DEF Ent, Effect
<1>3. Settled(o)' => Settled(o)
  BY <1>0, DisputedStays DEF Settled, Monthly
<1>4. DaysOf(o)
  BY DEF DInv, DaysOf
<1>5. CASE (Tiled(o) => Tiled(o)') /\ (Paid(o) => Paid(o)')
  BY <1>3, <1>4, <1>5 DEF DaysOf
<1>6. CASE SameSlices(o) /\ SameWindow(o) /\ now' \in {now, now + 1}
  BY <1>0, <1>5, <1>6, SameDays
<1>7. ASSUME NEW h \in Handler, Grant(h), OrderOf(h) = o, now' = now PROVE DaysOf(o)'
  <2>1. PICK p : p = PayOf(h)
    OBVIOUS
  <2>2. /\ Grants(h, p, o) /\ ~HasSlice(p, o) /\ HasSlice(p, o)'
        /\ \A q \in Pay : q # p => effect'[q] = effect[q]
    BY <1>7, <2>1, GrantOn
  <2>3. Extends(o, p) \/ Opens(o, p)
    BY <1>7, <2>1, GrantOpens
  <2>4. p \in Pay
    BY <2>2 DEF Grants
  <2>5. (Tiled(o) => Tiled(o)') /\ (Paid(o) => Paid(o)')
    BY <1>0, <1>2, <1>7, <2>2, <2>3, <2>4, GrantDays
  <2> QED BY <1>5, <2>5
<1>8. ASSUME NEW h \in Handler, Reverse(h), OrderOf(h) = o, now' = now PROVE DaysOf(o)'
  <2>1. PICK p, x : p = PayOf(h) /\ x = handler[h].effect
    OBVIOUS
  <2>2. /\ Reverses(h, p, o, x)
        /\ \A q \in Pay : HasSlice(q, o)' <=> HasSlice(q, o) /\ q # p
        /\ EndsPlan(h, o, x) \/ TakesSlice(h, p, o, x)
    BY <1>8, <2>1, ReverseOn
  <2>3. p \in Pay /\ x.order = o /\ Owner[o] \notin erased /\ Entered(h) /\ LogOf(h).kind = "payment"
        /\ handler[h].status \in {"refunded", "chargeback"}
    BY <2>2 DEF Reverses
  <2>4. CASE EndsPlan(h, o, x)
    <3>1. handler[h].status = "chargeback" => Disputed(o)
      BY <1>0, <1>8, <2>1, <2>3 DEF Disputes, Disputed, OrderOf, Entered
    <3>2. ~Settled(o)'
      BY <1>3, <2>4, <3>1 DEF EndsPlan, Settled, Monthly
    <3>3. ent'[o].expires <= now
      BY <1>0, <2>3, <2>4, AfterPlanIs DEF EndsPlan
    <3>4. Paid(o)'
      BY <1>0, <1>2, <1>8, <3>3 DEF Paid
    <3> QED BY <3>2, <3>4 DEF DaysOf
  <2>5. CASE TakesSlice(h, p, o, x)
    <3>1. SUFFICES ASSUME Settled(o)' PROVE Tiled(o)' /\ Paid(o)'
      BY <2>5 DEF DaysOf, TakesSlice
    <3>2. Settled(o) /\ Tiled(o) /\ Paid(o)
      BY <1>3, <1>4, <3>1 DEF DaysOf
    <3>3. x = effect[p] /\ x.state = "granted"
      BY <1>0, <1>8, <2>1, <2>3, <2>5 DEF Fresh, TakesSlice
    <3>4. HasSlice(p, o) /\ ent[o].status # "revoked"
      BY <1>0, <2>3, <3>2, <3>3 DEF HasSlice, Disputes, Settled
    <3>5. /\ \A q \in Pay : effect'[q].start = Shifted(p, x)[q].start /\ effect'[q].end = Shifted(p, x)[q].end
          /\ ent'[o] = AfterSlice(p, x, Shifted(p, x)).ent
      BY Zenon, <2>5 DEF TakesSlice
    <3>6. TakenOut(p, o, x)
      BY Zenon, <1>8, <2>2, <2>3, <3>3, <3>4, <3>5 DEF TakenOut
    <3>7. ent'[o] \in Ent
      BY <1>1
    <3> QED BY <1>0, <3>2, <3>6, <3>7, SliceDays
  <2> QED BY <2>2, <2>4, <2>5
<1>9. CASE ent'[o] = NoEnt /\ now' = now /\ \A q \in Pay : ~HasSlice(q, o)'
  <2>1. Paid(o)'
    <3>1. ent'[o].expires = 0
      BY <1>9 DEF NoEnt
    <3> QED BY <1>0, <1>9, <3>1 DEF Paid
  <2>2. Tiled(o)'
    BY <1>9 DEF Tiled
  <2> QED BY <2>1, <2>2 DEF DaysOf
<1> QED
  <2>1. \/ /\ SameSlices(o) /\ SameWindow(o)
           /\ now' = now \/ (now' = now + 1 /\ \A h \in Handler : ~Entered(h))
        \/ \E h \in Handler : (Grant(h) \/ Reverse(h)) /\ OrderOf(h) = o /\ now' = now
        \/ Erase(Owner[o]) /\ ent'[o] = NoEnt /\ now' = now /\ \A q \in Pay : ~HasSlice(q, o)'
    BY OrderMoves
  <2> QED BY <1>6, <1>7, <1>8, <1>9, <2>1

\* No step takes paid days, while requests are apart.
LEMMA DInvStep == TInv /\ DInv /\ Apart /\ [Next]_vars => DInv'
<1> SUFFICES ASSUME TInv, DInv, Apart, [Next]_vars PROVE DInv'
  OBVIOUS
<1>1. CASE Next
  <2>1. Over' /\ Disputes' /\ Fresh'
    BY <1>1, OverStep, DisputesStep, FreshStep DEF DInv
  <2>2. \A o \in Order \ Packs : DaysOf(o)'
    BY <1>1, DaysStep
  <2>3. \A o \in Order : Settled(o)' => o \notin Packs
    BY DEF Settled, Monthly
  <2> QED BY <2>1, <2>2, <2>3 DEF DInv, DaysOf
<1>2. CASE UNCHANGED vars
  <2>1. UNCHANGED <<now, erased, ent, effect, log, charge, handler>>
    BY <1>2 DEF vars, tables, rebill
  <2>2. \A o : (Settled(o)' <=> Settled(o)) /\ (Tiled(o)' <=> Tiled(o)) /\ (Paid(o)' <=> Paid(o))
    BY <2>1 DEF Settled, Monthly, Disputed, Tiled, Paid, Covered, HasSlice
  <2>3. Over' /\ Disputes' /\ Fresh'
    BY <2>1 DEF DInv, Over, Disputes, Fresh, Entered, LogOf, PayOf, OrderOf, Monthly, Disputed
  <2> QED BY <2>2, <2>3 DEF DInv
<1> QED BY <1>1, <1>2

\* At first there are no windows and no slices.
LEMMA InitDInv == Init => DInv
<1> SUFFICES ASSUME Init PROVE DInv
  OBVIOUS
<1>1. /\ now = 0 /\ ent = [o \in Order |-> NoEnt] /\ effect = [p \in Pay |-> NoEffect] /\ handler = [h \in Handler |-> Quiet]
  BY DEF Init
<1>2. \A o \in Order : ent[o].expires = 0 /\ ent[o].status = "none"
  BY <1>1 DEF NoEnt
<1>3. \A p \in Pay : \A o : ~HasSlice(p, o)
  BY <1>1 DEF HasSlice, NoEffect
<1>4. \A h \in Handler : handler[h].pc = "idle"
  BY <1>1 DEF Quiet
<1>5. Over /\ Disputes /\ Fresh
  BY <1>1, <1>2, <1>4 DEF Over, Disputes, Fresh, Entered
<1>6. \A o \in Order : Tiled(o) /\ Paid(o)
  BY <1>1, <1>2, <1>3 DEF Tiled, Paid
<1> QED BY <1>5, <1>6 DEF DInv

\* What is left of windows and slices is what the payments bought.
LEMMA DaysPaid == ASSUME TInv, DInv, OwnPeriod PROVE DaysArePaid
<1>0. ent \in [Order -> Ent] /\ now \in Nat
  BY DEF TInv, IInv, Typed, Shapes, Facts
<1>1. AccessIsPaid
  <2> SUFFICES ASSUME NEW o \in Order \ Packs, Covers(ent[o], now), Disputed(o) => o \in Annual
               PROVE  Covered(o, now)
    BY DEF AccessIsPaid, PaidFor, Covered
  <2>1. Paid(o)
    BY DEF DInv, Settled, Monthly
  <2>2. ent[o].start <= now /\ now < ent[o].expires /\ now \in Int
    BY <1>0 DEF Covers
  <2> QED BY <2>1, <2>2 DEF Paid
<1>2. OwnSlice
  BY DEF OwnSlice, DInv, Settled, Monthly, Tiled
<1> QED BY <1>1, <1>2 DEF DaysArePaid, NothingShared

\* Whoever has access has paid for this moment, and no two payments of a subscription
\* share days or a period, after any order of renewals, refunds and chargebacks; provided
\* that two payments of one subscription are never written by requests that overlap.
THEOREM DaysAreOwnAndPaid == Spec /\ []Apart => []DaysArePaid
<1>1. TInv /\ OwnPeriod /\ DInv => DaysArePaid
  BY DaysPaid
<1> QED BY <1>1, InitDInv, DInvStep, BillingTyped, PeriodsAreOwn, PTL DEF Spec
=============================================================================
