------------------------- MODULE GmailSendProperties -------------------------
(***************************************************************************)
(* What the Gmail send queue promises.                                     *)
(***************************************************************************)
EXTENDS GmailSend

\* gmail_send_attempts_failure_check: a failure code is stored exactly when the row
\* has failed.
Coded(r) == r.status = "failed" <=> r.code # ""

Typed ==
  /\ rows \in [Attempt -> Row] /\ made \in Nat
  /\ fu \in [Slot -> FollowUp]
  /\ event \in [Attempt -> Nat] /\ accepted \in [Attempt -> Nat]
  /\ gap \in [User -> Nat]
  /\ paused \in [User -> BOOLEAN] /\ blocked \in [User -> BOOLEAN]
  /\ standing \in [User -> {"ok", "unpaid", "no_mailbox"}]
  /\ halted \subseteq Attempt /\ valid \subseteq Recipient
  /\ hour \in 0..(DayLen - 1)
  /\ run \in [Worker -> Run]

\* Every table, account and run holds values of its type, and every row passes the
\* CHECKs of its table (0091:22, 0093:63): no statement that fails a row forgets the
\* reason, and none that moves a row on leaves one behind.
TypeOK == Typed /\ \A a \in Attempt : Coded(rows[a])

\* Whatever is claimed, killed, swept, requeued or retried, Gmail accepts at most
\* one message for one attempt: a key that reached the provider never calls it
\* again (D157).
CalledOnce == \A a \in Attempt : accepted[a] <= 1

\* The row says that Gmail was called before Gmail can have accepted anything: a
\* message in Gmail never belongs to a row that is still waiting (D157).
RecordedBeforeCall ==
  \A a \in Attempt : accepted[a] > 0 => rows[a].status \notin {"none", "queued", "reserved"}

\* A row is sent exactly when it has its sent event, and the event holds the id of
\* the message that Gmail accepted for that very attempt (D158).
SentIsAccepted ==
  \A a \in Attempt :
    /\ rows[a].status = "sent" <=> event[a] # 0
    /\ event[a] # 0 => event[a] = accepted[a] /\ rows[a].msg = event[a]

\* Two runs never handle the same attempt before Gmail has answered.
OneRunPerCall ==
  \A v, w \in Worker :
    /\ run[v].pc \in {"token", "arm", "call"} /\ run[w].pc \in {"token", "arm", "call"}
    /\ run[v].att = run[w].att
    => v = w

\* One thread never has two follow-ups on their way: cancel, stop and reschedule
\* only free a slot whose attempt can no longer be sent (D173).
Live(a) == rows[a].kind = "follow_up" /\ rows[a].status \in Waiting \cup InFlight
OneLiveFollowUp ==
  \A a, b \in Attempt : Live(a) /\ Live(b) /\ rows[a].thread = rows[b].thread => a = b

\* A queued follow-up names one follow-up attempt of its own thread that was not
\* sent, and a sent follow-up names an attempt that was.
FollowUpMatchesAttempt ==
  \A ps \in Slot :
    fu[ps].status \in {"queued", "sent"} =>
      /\ fu[ps].att \in Attempt
      /\ rows[fu[ps].att].kind = "follow_up" /\ rows[fu[ps].att].thread = ps[1]
      /\ (fu[ps].status = "sent") <=> (rows[fu[ps].att].status = "sent")
      /\ \A qs \in Slot : fu[qs].att = fu[ps].att => qs = ps

\* Follow-ups and the queue agree, whatever is cancelled, stopped, rescheduled or sent
\* meanwhile: one live follow-up by thread, each row with the attempt it names.
FollowUpsAgree == OneLiveFollowUp /\ FollowUpMatchesAttempt

\* No creator has more provider starts in a local day than the plan's cap, however
\* many runs deliver for that creator (D168).
WithinDailyCap == \A u \in User : Used(rows, u) <= DailyCap

\* What a creator has been told stays true: a sent row keeps its message, a failed
\* row its reason, an unknown row only turns out to be sent, and a row whose call
\* was recorded never waits again.
OutcomesStick ==
  [][\A a \in Attempt :
       /\ rows[a].status = "sent" => rows'[a].status = "sent" /\ event'[a] = event[a]
       /\ rows[a].status = "failed" => rows'[a].status = "failed" /\ rows'[a].code = rows[a].code
       /\ rows[a].status = "unknown" => rows'[a].status \in {"unknown", "sent"}
       /\ rows[a].status = "provider_called" => rows'[a].status \notin Waiting
       /\ rows[a].msg # 0 => rows'[a].msg = rows[a].msg]_vars

\* The queue implements the promise made for every single attempt: a row that
\* waits or is being called is pending, and nothing else is told of it.
Told(r) == CASE r.status = "none" -> "nothing"
             [] r.status \in {"queued", "reserved", "provider_called"} -> "pending"
             [] OTHER -> r.status

Promise == INSTANCE SendPromise WITH
  told <- [a \in Attempt |-> Told(rows[a])],
  delivered <- [a \in Attempt |-> accepted[a] > 0]

KeepsPromise == Promise!PromiseSpec

\* A stored message id ends as a sent event, whatever kills the runs on the way.
StoredIdCommitted == \A a \in Attempt : rows[a].msg # 0 ~> rows[a].status = "sent"

\* No attempt stays reserved or called: a run finishes it or the lease does.
LeaseReleases ==
  \A a \in Attempt : rows[a].status \in {"reserved", "provider_called"}
                       ~> rows[a].status \notin {"reserved", "provider_called"}

\* However runs are killed and calls lost, every row that a run has touched comes to
\* rest, as a sent event where Gmail has told an id.
ComesToRest == StoredIdCommitted /\ LeaseReleases

\* After a deletion request nothing of that creator is left waiting or in a call.
DeletionDrains ==
  \A u \in User : blocked[u] ~> \A a \in Attempt :
    rows[a].user = u => rows[a].status \notin Waiting \cup {"provider_called"}

-----------------------------------------------------------------------------
\* Statements of the repository that the code does not keep.

\* D157: a stored provider_error is "a definite non-send failure", and the button
\* says "Gmail didn't accept the message. It was not sent."
ProviderErrorMeansNotSent ==
  \A a \in Attempt :
    rows[a].status = "failed" /\ rows[a].code = "provider_error" => accepted[a] = 0

\* D171: "At most two follow-ups on that Gmail thread."  Counted here are follow-ups
\* the queue itself records as sent.
SentFollowUps(p) == {a \in Attempt : rows[a].kind = "follow_up" /\ rows[a].thread = p
                                     /\ rows[a].status = "sent"}
AtMostTwoFollowUps == \A p \in Attempt : Cardinality(SentFollowUps(p)) <= 2

\* Comment on gmail_send_reserve: "An in-flight unknown or provider_called attempt
\* for the same creator, hotel, and recipient is not sent again."
Same3(r, q) == r.user = q.user /\ r.hotel = q.hotel /\ r.recipient = q.recipient
NothingBesideInFlight ==
  [][\A a, b \in Attempt :
       rows[a].status = "none" /\ rows'[a].status = "queued" /\ rows'[a].kind # "follow_up"
       /\ rows[b].status \in InFlight => ~Same3(rows'[a], rows[b])]_vars

=============================================================================
