--------------------------- MODULE GmailSendProofs ---------------------------
(***************************************************************************)
(* Proofs about the Gmail send queue, for any number of creators, runs and *)
(* attempts and any lease, spacing and cap: first of one attempt and the   *)
(* runs that work on it, then of what ties the rows of the queue together, *)
(* the starts that a creator has in a local day, and the follow-ups of one *)
(* thread with the attempts they are queued for.                           *)
(***************************************************************************)
EXTENDS GmailSendProperties, FiniteSetTheorems, TLAPS

Rows == [Attempt -> Row]

\* How the tables' statements change a row, but for the four steps below.
Moves(r, s) ==
  /\ s.msg = r.msg /\ (Coded(r) => Coded(s))
  /\ \/ s.status = r.status /\ s.code = r.code
     \/ r.status = "none" /\ s.status \in Waiting \cup {"failed"}
     \/ r.status = "queued" /\ s.status \in {"reserved", "failed"}
     \/ r.status = "reserved" /\ s.status \in {"provider_called", "failed", "unknown"}
     \/ r.status = "provider_called" /\ s.status = "failed"

\* The mark puts a reserved row back.
Requeues(r, s) == /\ s.msg = r.msg /\ (Coded(r) => Coded(s))
                  /\ r.status = "reserved" /\ s.status = "queued"

\* A run gives up a call whose answer it does not know.
GivesUp(r, s) == /\ s.msg = r.msg /\ (Coded(r) => Coded(s))
                 /\ r.status = "provider_called" /\ s.status = "unknown"

\* The message id is stored.
StoresId(r, s) ==
  s.status = r.status /\ s.code = r.code /\ r.status \in InFlight /\ r.msg \in {0, s.msg}

\* A run holds an attempt from its claim until Gmail has accepted its message.
Holds(w) == \/ run[w].pc \in {"gate", "mark", "token", "arm", "call"}
            \/ run[w].pc = "fail" /\ accepted[run[w].att] = 0

\* A row agrees with Gmail and with the sent events.
RowAgrees(a) ==
  /\ accepted[a] <= 1
  /\ rows[a].status \in {"none", "queued", "reserved"} => accepted[a] = 0
  /\ rows[a].msg # 0 => rows[a].msg = accepted[a]
  /\ rows[a].status = "sent" <=> event[a] # 0
  /\ event[a] # 0 => event[a] = rows[a].msg
  /\ a > made => rows[a].status = "none"
  /\ Coded(rows[a])

\* A run that gives up says why.
Excused(w) == run[w].pc = "fail" => run[w].code # ""

\* A run agrees with the row it works on.
RunAgrees(w) ==
  /\ run[w].pc \notin {"idle", "claim"} => run[w].att \in Attempt
  /\ Holds(w) => rows[run[w].att].status \notin {"none", "queued"}
  /\ run[w].pc \in {"token", "arm", "call"} =>
       /\ accepted[run[w].att] = 0
       /\ rows[run[w].att].status \in {"provider_called", "failed"}
  /\ run[w].pc \in {"remember", "commit"} => run[w].msg = 1 /\ accepted[run[w].att] = 1
  /\ run[w].pc = "commit" => rows[run[w].att].msg = 1
  /\ Excused(w)

RowsAgree == \A a \in Attempt : RowAgrees(a)
RunsAgree == \A w \in Worker : RunAgrees(w)

\* No attempt is held by two runs.
OneHolder == \A v, w \in Worker : Holds(v) /\ Holds(w) /\ run[v].att = run[w].att => v = w

IInv == Typed /\ RowsAgree /\ RunsAgree /\ OneHolder

-----------------------------------------------------------------------------
\* The statements on the table

\* A failed row is a row, and keeps its message id.
LEMMA FailedRow ==
  ASSUME NEW r \in Row, NEW c \in Codes
  PROVE  /\ Failed(r, c) \in Row
         /\ Failed(r, c).status = "failed" /\ Failed(r, c).code = c
         /\ Failed(r, c).msg = r.msg /\ Coded(Failed(r, c))
<1>1. c # "" /\ c \in {""} \cup Codes BY DEF Codes
<1>2. /\ Failed(r, c) \in Row
      /\ Failed(r, c).status = "failed" /\ Failed(r, c).code = c
      /\ Failed(r, c).msg = r.msg
  BY <1>1 DEF Row, Failed, Statuses
<1>. QED BY <1>1, <1>2 DEF Coded

\* So is a queued row.
LEMMA QueuedRow ==
  ASSUME NEW r \in Row, NEW n \in Nat
  PROVE  /\ Queued(r, n) \in Row
         /\ Queued(r, n).status = "queued" /\ Queued(r, n).msg = r.msg
         /\ Coded(r) /\ r.status # "failed" => Coded(Queued(r, n))
BY DEF Row, Queued, Statuses, Coded

\* So is a row whose status alone is written.
LEMMA StatusRow ==
  ASSUME NEW r \in Row, NEW x \in Statuses
  PROVE  /\ [r EXCEPT !.status = x, !.age = 0] \in Row
         /\ [r EXCEPT !.status = x, !.age = 0].status = x
         /\ [r EXCEPT !.status = x, !.age = 0].msg = r.msg
         /\ Coded(r) /\ r.status # "failed" /\ x # "failed"
              => Coded([r EXCEPT !.status = x, !.age = 0])
BY DEF Row, Coded

\* So is a row that is marked as called.
LEMMA CalledRow ==
  ASSUME NEW r \in Row
  PROVE  LET s == [r EXCEPT !.status = "provider_called", !.age = 0, !.today = TRUE]
         IN  /\ s \in Row /\ s.status = "provider_called" /\ s.msg = r.msg
             /\ Coded(r) /\ r.status # "failed" => Coded(s)
BY DEF Row, Statuses, Coded

\* The sweep keeps the type and only moves rows forward.
LEMMA SweepStaleMoves ==
  ASSUME NEW rs \in Rows
  PROVE  /\ SweepStale(rs) \in Rows
         /\ \A a \in Attempt : Moves(rs[a], SweepStale(rs)[a])
<1>1. ASSUME NEW a \in Attempt
      PROVE  SweepStale(rs)[a] \in Row /\ Moves(rs[a], SweepStale(rs)[a])
  <2>1. rs[a] \in Row BY DEF Rows
  <2>2. CASE rs[a].status = "reserved" /\ rs[a].age > Lease
    BY <2>1, <2>2, StatusRow DEF SweepStale, Moves, Waiting, Statuses
  <2>3. CASE ~(rs[a].status = "reserved" /\ rs[a].age > Lease)
             /\ rs[a].status = "provider_called" /\ rs[a].msg = 0 /\ rs[a].age > Lease
    BY <2>1, <2>3, FailedRow DEF SweepStale, Moves, Codes
  <2>4. CASE SweepStale(rs)[a] = rs[a]
    BY <2>1, <2>4 DEF Moves
  <2>. QED BY <2>2, <2>3, <2>4 DEF SweepStale
<1>. QED BY <1>1 DEF SweepStale, Rows

\* A pending deletion fails rows and does nothing else.
LEMMA FailBlockedMoves ==
  ASSUME NEW rs \in Rows
  PROVE  /\ FailBlocked(rs) \in Rows
         /\ \A a \in Attempt :
              \/ FailBlocked(rs)[a] = rs[a]
              \/ /\ FailBlocked(rs)[a] = Failed(rs[a], "deletion_pending")
                 /\ rs[a].status \in Waiting \cup {"provider_called"}
<1>1. ASSUME NEW a \in Attempt
      PROVE  /\ FailBlocked(rs)[a] \in Row
             /\ \/ FailBlocked(rs)[a] = rs[a]
                \/ /\ FailBlocked(rs)[a] = Failed(rs[a], "deletion_pending")
                   /\ rs[a].status \in Waiting \cup {"provider_called"}
  <2>1. rs[a] \in Row BY DEF Rows
  <2>. QED BY <2>1, FailedRow DEF FailBlocked, Codes
<1>. QED BY <1>1 DEF FailBlocked, Rows

\* The row of a queued follow-up.
LEMMA FollowUpRowType ==
  ASSUME Typed, NEW p \in Attempt
  PROVE  /\ FollowUpRow(p) \in Row
         /\ FollowUpRow(p).status = "queued" /\ FollowUpRow(p).msg = 0
         /\ Coded(FollowUpRow(p))
BY BoundsAssumption DEF Typed, FollowUpRow, NoRow, Row, Attempt, Statuses, Codes, Coded

\* Settling inserts queued rows beyond made and fails waiting rows.
LEMMA SettleRowsMoves ==
  ASSUME Typed, NEW us, NEW rs \in Rows
  PROVE  /\ SettleRows(us, rs) \in Rows
         /\ \A a \in Attempt :
              \/ SettleRows(us, rs)[a] = rs[a]
              \/ /\ SettleRows(us, rs)[a] = Failed(rs[a], "followup_stopped")
                 /\ rs[a].status \in Waiting
              \/ /\ a > made
                 /\ \E ps \in SettleQueues(us) : NewAttempt(us, ps) = a
                 /\ SettleRows(us, rs)[a].status = "queued"
                 /\ SettleRows(us, rs)[a].msg = 0 /\ Coded(SettleRows(us, rs)[a])
<1>1. ASSUME NEW a \in Attempt
      PROVE  /\ SettleRows(us, rs)[a] \in Row
             /\ \/ SettleRows(us, rs)[a] = rs[a]
                \/ /\ SettleRows(us, rs)[a] = Failed(rs[a], "followup_stopped")
                   /\ rs[a].status \in Waiting
                \/ /\ a > made
                   /\ \E ps \in SettleQueues(us) : NewAttempt(us, ps) = a
                   /\ SettleRows(us, rs)[a].status = "queued"
                   /\ SettleRows(us, rs)[a].msg = 0 /\ Coded(SettleRows(us, rs)[a])
  <2>1. rs[a] \in Row BY DEF Rows
  <2>2. CASE a > made /\ \E ps \in SettleQueues(us) : NewAttempt(us, ps) = a
    <3>. DEFINE qs == CHOOSE ps \in SettleQueues(us) : NewAttempt(us, ps) = a
    <3>1. qs \in SettleQueues(us) BY <2>2
    <3>2. qs[1] \in Attempt
      <4>. HIDE DEF qs
      <4>. QED BY <3>1 DEF SettleQueues, Slot
    <3>3. SettleRows(us, rs)[a] = FollowUpRow(qs[1]) BY <2>2 DEF SettleRows
    <3>. QED BY <2>2, <3>2, <3>3, FollowUpRowType
  <2>3. CASE ~(a > made /\ \E ps \in SettleQueues(us) : NewAttempt(us, ps) = a)
    BY <2>1, <2>3, FailedRow DEF SettleRows, Codes
  <2>. QED BY <2>2, <2>3
<1>. QED BY <1>1 DEF SettleRows, Rows

\* Only finitely many follow-ups are queued at once.
LEMMA SettleCounts ==
  ASSUME NEW us, made \in Nat
  PROVE  /\ SettleMade(us) \in Nat /\ SettleMade(us) >= made
         /\ \A ps \in Slot : NewAttempt(us, ps) \in Nat /\ NewAttempt(us, ps) <= SettleMade(us)
<1>1. IsFiniteSet(Slot)
  <2>1. IsFiniteSet(Attempt)
    <3>1. MaxRows \in Int BY BoundsAssumption
    <3>. QED BY <3>1, FS_Interval DEF Attempt
  <2>2. IsFiniteSet({1, 2})
    <3>1. IsFiniteSet({1}) BY FS_Singleton
    <3>2. IsFiniteSet({1} \cup {2}) BY <3>1, FS_AddElement
    <3>3. {1} \cup {2} = {1, 2} OBVIOUS
    <3>. QED BY <3>2, <3>3
  <2>. QED BY <2>1, <2>2, FS_Product DEF Slot
<1>2. IsFiniteSet(SettleQueues(us))
  BY <1>1, FS_Subset, SettleQueues(us) \subseteq Slot DEF SettleQueues
<1>3. Cardinality(SettleQueues(us)) \in Nat BY <1>2, FS_CardinalityType
<1>4. ASSUME NEW ps \in Slot
      PROVE  NewAttempt(us, ps) \in Nat /\ NewAttempt(us, ps) <= SettleMade(us)
  <2>. DEFINE before == {qs \in SettleQueues(us) : qs[1] <= ps[1]}
  <2>1. before \in SUBSET SettleQueues(us) OBVIOUS
  <2>2. Cardinality(before) \in Nat /\ Cardinality(before) <= Cardinality(SettleQueues(us))
    BY <1>2, <2>1, FS_Subset, FS_CardinalityType
  <2>. HIDE DEF before
  <2>3. NewAttempt(us, ps) = made + Cardinality(before) BY DEF NewAttempt, before
  <2>. QED BY <1>3, <2>2, <2>3 DEF SettleMade
<1>. QED BY <1>3, <1>4 DEF SettleMade

\* A follow-up row keeps its type when it is stopped, queued or closed.
LEMMA FollowUpTypes ==
  ASSUME NEW f \in FollowUp
  PROVE  /\ \A c \in {"terminal", "recipient_rejected"} :
              [f EXCEPT !.status = "stopped", !.reason = c, !.due = 0] \in FollowUp
         /\ \A n \in Nat : [f EXCEPT !.status = "queued", !.att = n] \in FollowUp
         /\ [f EXCEPT !.status = "sent"] \in FollowUp
BY DEF FollowUp

\* Settling keeps every follow-up a follow-up.
LEMMA SettleFollowUpsType ==
  ASSUME Typed, NEW us
  PROVE  SettleFollowUps(us) \in [Slot -> FollowUp]
<1>1. ASSUME NEW ps \in Slot PROVE SettleFollowUps(us)[ps] \in FollowUp
  <2>1. fu[ps] \in FollowUp /\ NewAttempt(us, ps) \in Nat BY SettleCounts DEF Typed
  <2>2. CASE ps \in SettleStops(us)
    <3>1. SettleStop(ps[1], ps[2]) \in {"terminal", "recipient_rejected"}
      BY <2>2 DEF SettleStops, SettleStop
    <3>. QED BY <2>1, <2>2, <3>1, FollowUpTypes DEF SettleFollowUps
  <2>3. CASE ps \notin SettleStops(us)
    BY <2>1, <2>3, FollowUpTypes DEF SettleFollowUps
  <2>. QED BY <2>2, <2>3
<1>. QED BY <1>1 DEF SettleFollowUps

\* Stopping a blocked follow-up keeps every follow-up a follow-up.
LEMMA BlockFollowUpsType ==
  ASSUME Typed, NEW a
  PROVE  BlockFollowUps(a) \in [Slot -> FollowUp]
<1>1. ASSUME NEW ps \in Slot, NEW p PROVE
        [fu[ps] EXCEPT !.status = "stopped", !.due = 0,
           !.reason = IF p \in halted THEN "terminal" ELSE "recipient_rejected"] \in FollowUp
  <2>1. fu[ps] \in FollowUp BY DEF Typed
  <2>. QED BY <2>1 DEF FollowUp
<1>. QED BY <1>1 DEF BlockFollowUps, Typed

\* Closing a sent follow-up keeps every follow-up a follow-up.
LEMMA ClosedType ==
  ASSUME Typed, NEW a
  PROVE  Closed(a) \in [Slot -> FollowUp]
<1>1. ASSUME NEW ps \in Slot
      PROVE fu[ps] \in FollowUp /\ [fu[ps] EXCEPT !.status = "sent"] \in FollowUp
  BY FollowUpTypes DEF Typed
<1>. QED BY <1>1 DEF Closed

\* Failing a row that waits or is called moves it, whatever moved it there.
LEMMA MovesFail ==
  ASSUME NEW r \in Row, NEW s \in Row, NEW c \in Codes, Moves(r, s),
         s.status \in Waiting \cup {"provider_called"}
  PROVE  Moves(r, Failed(s, c))
<1>1. Failed(s, c).status = "failed" /\ Failed(s, c).msg = s.msg /\ Coded(Failed(s, c))
  BY FailedRow
<1>. QED BY <1>1 DEF Moves, Waiting

\* A row that looks the same in what the moves are about is moved the same.
LEMMA MovesSame ==
  ASSUME NEW r, NEW s, NEW t, Moves(r, s),
         t.status = s.status, t.code = s.code, t.msg = s.msg
  PROVE  Moves(r, t)
BY DEF Moves, Coded

\* What every claim does first moves rows forward and inserts rows up to the new count.
LEMMA ClaimRowsMoves ==
  ASSUME IInv
  PROVE  /\ ClaimRows \in Rows
         /\ \A a \in Attempt : Moves(rows[a], ClaimRows[a])
         /\ \A a \in Attempt : a > SettleMade(User) => ClaimRows[a].status = "none"
<1>. DEFINE swept == SweepStale(rows)
            settled == SettleRows(User, swept)
<1>1. Typed /\ rows \in Rows BY DEF IInv, Typed, Rows
<1>2. swept \in Rows /\ \A a \in Attempt : Moves(rows[a], swept[a])
  BY <1>1, SweepStaleMoves
<1>. HIDE DEF swept
<1>3. /\ settled \in Rows
      /\ \A a \in Attempt :
           \/ settled[a] = swept[a]
           \/ settled[a] = Failed(swept[a], "followup_stopped") /\ swept[a].status \in Waiting
           \/ /\ a > made
              /\ \E ps \in SettleQueues(User) : NewAttempt(User, ps) = a
              /\ settled[a].status = "queued"
              /\ settled[a].msg = 0 /\ Coded(settled[a])
  BY <1>1, <1>2, SettleRowsMoves
<1>. HIDE DEF settled
<1>4. ClaimRows = FailBlocked(settled) BY DEF ClaimRows, settled, swept
<1>5. ASSUME NEW a \in Attempt, a > made
      PROVE  rows[a].status = "none" /\ rows[a].msg = 0
  BY <1>5 DEF IInv, RowsAgree, RowAgrees
<1>6. ASSUME NEW a \in Attempt
      PROVE  Moves(rows[a], settled[a])
  <2>1. rows[a] \in Row /\ swept[a] \in Row BY <1>1, <1>2 DEF Rows
  <2>2. CASE settled[a] = swept[a] BY <1>2, <2>2
  <2>3. CASE settled[a] = Failed(swept[a], "followup_stopped") /\ swept[a].status \in Waiting
    BY <1>2, <2>1, <2>3, MovesFail DEF Codes
  <2>4. CASE /\ a > made /\ settled[a].status = "queued" /\ settled[a].msg = 0
             /\ Coded(settled[a])
    BY <1>5, <2>4 DEF Moves, Waiting
  <2>. QED BY <1>3, <2>2, <2>3, <2>4
<1>7. ASSUME NEW a \in Attempt, a > SettleMade(User)
      PROVE  settled[a].status = "none"
  <2>1. made \in Nat /\ SettleMade(User) \in Nat /\ SettleMade(User) >= made
    BY <1>1, SettleCounts DEF Typed
  <2>2. a \in Nat BY DEF Attempt
  <2>3. a > made BY <1>7, <2>1, <2>2
  <2>4. rows[a].status = "none" BY <1>5, <2>3
  <2>5. swept[a].status = "none"
    BY <2>4 DEF swept, SweepStale
  <2>6. ~\E ps \in SettleQueues(User) : NewAttempt(User, ps) = a
    <3>1. ASSUME NEW ps \in SettleQueues(User) PROVE NewAttempt(User, ps) # a
      <4>1. ps \in Slot BY DEF SettleQueues
      <4>2. NewAttempt(User, ps) \in Nat /\ NewAttempt(User, ps) <= SettleMade(User)
        BY <1>1, <4>1, SettleCounts DEF Typed
      <4>. QED BY <1>7, <2>1, <2>2, <4>2
    <3>. QED BY <3>1
  <2>. QED BY <1>3, <2>5, <2>6 DEF Waiting
<1>8. ASSUME NEW a \in Attempt
      PROVE  /\ Moves(rows[a], ClaimRows[a])
             /\ a > SettleMade(User) => ClaimRows[a].status = "none"
  <2>1. rows[a] \in Row /\ settled[a] \in Row BY <1>1, <1>3 DEF Rows
  <2>2. CASE ClaimRows[a] = settled[a] BY <1>6, <1>7, <2>2
  <2>3. CASE /\ ClaimRows[a] = Failed(settled[a], "deletion_pending")
             /\ settled[a].status \in Waiting \cup {"provider_called"}
    <3>1. Moves(rows[a], ClaimRows[a]) BY <1>6, <2>1, <2>3, MovesFail DEF Codes
    <3>2. a <= SettleMade(User)
      <4>1. settled[a].status # "none" BY <2>3 DEF Waiting
      <4>2. SettleMade(User) \in Nat /\ a \in Nat BY <1>1, SettleCounts DEF Typed, Attempt
      <4>. QED BY <1>7, <4>1, <4>2
    <3>3. SettleMade(User) \in Nat /\ a \in Nat BY <1>1, SettleCounts DEF Typed, Attempt
    <3>. QED BY <3>1, <3>2, <3>3
  <2>. QED BY <1>3, <1>4, <2>2, <2>3, FailBlockedMoves
<1>. QED BY <1>3, <1>4, <1>8, FailBlockedMoves

-----------------------------------------------------------------------------
\* What a step does to the rows, Gmail and the runs

\* No message is accepted and none is committed.
Quiet ==
  /\ event' = event /\ accepted' = accepted
  /\ \A a \in Attempt :
       \/ Moves(rows[a], rows'[a]) \/ Requeues(rows[a], rows'[a])
       \/ GivesUp(rows[a], rows'[a])
       \/ StoresId(rows[a], rows'[a]) /\ rows'[a].msg = 1 /\ accepted[a] = 1

\* Gmail accepts the one message of an attempt that is being called.
Accepts ==
  /\ rows' = rows /\ event' = event
  /\ \E a \in Attempt : /\ accepted[a] = 0
                        /\ rows[a].status \in {"provider_called", "failed"}
                        /\ accepted' = [accepted EXCEPT ![a] = @ + 1]

\* A stored message id becomes a sent event.
Commits ==
  /\ accepted' = accepted
  /\ \E a \in Attempt :
       /\ accepted[a] = 1 /\ rows[a].msg = 1 /\ rows[a].status \in InFlight
       /\ rows' = [rows EXCEPT ![a].status = "sent", ![a].age = 0]
       /\ event' = [event EXCEPT ![a] = 1]

Evolves == Quiet \/ Accepts \/ Commits

Unmade == \A a \in Attempt : a > made => rows[a].status = "none"

\* The rows and Gmail agree after every such step.
LEMMA EvolvesRowsAgree ==
  ASSUME IInv, Typed', Unmade', Evolves
  PROVE  RowsAgree'
<1>. SUFFICES ASSUME NEW a \in Attempt PROVE RowAgrees(a)'
  BY DEF RowsAgree
<1>1. RowAgrees(a) /\ rows[a] \in Row /\ rows'[a] \in Row /\ accepted[a] \in Nat
      /\ event[a] \in Nat
  BY DEF IInv, RowsAgree, Typed
<1>2. a > made' => rows'[a].status = "none" BY DEF Unmade
<1>3. CASE Quiet
  <2>1. event'[a] = event[a] /\ accepted'[a] = accepted[a] BY <1>3 DEF Quiet
  <2>2. CASE Moves(rows[a], rows'[a])
    BY <1>1, <1>2, <2>1, <2>2 DEF RowAgrees, Moves, Waiting
  <2>3. CASE Requeues(rows[a], rows'[a])
    BY <1>1, <1>2, <2>1, <2>3 DEF RowAgrees, Requeues
  <2>4. CASE GivesUp(rows[a], rows'[a])
    BY <1>1, <1>2, <2>1, <2>4 DEF RowAgrees, GivesUp
  <2>5. CASE StoresId(rows[a], rows'[a]) /\ rows'[a].msg = 1 /\ accepted[a] = 1
    BY <1>1, <1>2, <2>1, <2>5 DEF RowAgrees, StoresId, InFlight, Coded
  <2>. QED BY <1>3, <2>2, <2>3, <2>4, <2>5 DEF Quiet
<1>4. CASE Accepts
  <2>1. PICK b \in Attempt : /\ accepted[b] = 0
                             /\ rows[b].status \in {"provider_called", "failed"}
                             /\ accepted' = [accepted EXCEPT ![b] = @ + 1]
    BY <1>4 DEF Accepts
  <2>2. rows' = rows /\ event' = event BY <1>4 DEF Accepts
  <2>3. CASE a = b
    <3>1. accepted'[a] = 1 BY <2>1, <2>3 DEF IInv, Typed
    <3>. QED BY <1>1, <1>2, <2>1, <2>2, <2>3, <3>1 DEF RowAgrees
  <2>4. CASE a # b
    <3>1. accepted'[a] = accepted[a] BY <2>1, <2>4 DEF IInv, Typed
    <3>. QED BY <1>1, <1>2, <2>2, <3>1 DEF RowAgrees
  <2>. QED BY <2>3, <2>4
<1>5. CASE Commits
  <2>1. PICK b \in Attempt :
          /\ accepted[b] = 1 /\ rows[b].msg = 1 /\ rows[b].status \in InFlight
          /\ rows' = [rows EXCEPT ![b].status = "sent", ![b].age = 0]
          /\ event' = [event EXCEPT ![b] = 1]
    BY <1>5 DEF Commits
  <2>2. accepted' = accepted BY <1>5 DEF Commits
  <2>3. CASE a = b
    <3>1. rows'[a] = [rows[a] EXCEPT !.status = "sent", !.age = 0] /\ event'[a] = 1
      BY <2>1, <2>3 DEF IInv, Typed
    <3>2. /\ rows'[a].status = "sent" /\ rows'[a].msg = rows[a].msg
          /\ rows'[a].code = rows[a].code
      BY <1>1, <3>1 DEF Row
    <3>4. Coded(rows'[a]) BY <1>1, <2>1, <2>3, <3>2 DEF RowAgrees, Coded, InFlight
    <3>3. accepted'[a] = 1 /\ rows'[a].msg = 1 BY <2>1, <2>2, <2>3, <3>2
    <3>. QED BY <1>2, <3>1, <3>2, <3>3, <3>4 DEF RowAgrees
  <2>4. CASE a # b
    <3>1. rows'[a] = rows[a] /\ event'[a] = event[a] BY <2>1, <2>4 DEF IInv, Typed
    <3>. QED BY <1>1, <1>2, <2>2, <3>1 DEF RowAgrees
  <2>. QED BY <2>3, <2>4
<1>. QED BY <1>3, <1>4, <1>5 DEF Evolves

\* What the runs that do not take a step rely on.
Steady(a) ==
  /\ rows[a].status \notin {"none", "queued"} => rows'[a].status \notin {"none", "queued"}
  /\ accepted[a] = 0 /\ rows[a].status \in {"provider_called", "failed"}
       => rows'[a].status \in {"provider_called", "failed"}
  /\ rows[a].msg # 0 => rows'[a].msg = rows[a].msg

\* A move of the tables' statements keeps what is sent, failed or stored.
LEMMA MovesSteady ==
  ASSUME NEW a \in Attempt, Moves(rows[a], rows'[a])
  PROVE  Steady(a)
BY DEF Moves, Steady, Waiting

\* Only the run w takes a step.
Alone(w) == /\ run' \in [Worker -> Run]
            /\ \A v \in Worker \ {w} : run'[v] = run[v]

\* A step of the run w leaves the other runs in order: w holds its attempt alone.
LEMMA RunStep ==
  ASSUME IInv, NEW w \in Worker, Alone(w), accepted' = accepted,
         \A a \in Attempt : \/ Steady(a)
                            \/ /\ Holds(w) /\ run[w].att = a
                               /\ rows'[a].msg = rows[a].msg,
         RunAgrees(w)',
         Holds(w)' => \/ Holds(w) /\ run'[w].att = run[w].att
                      \/ \A v \in Worker \ {w} : Holds(v) => run[v].att # run'[w].att
  PROVE  RunsAgree' /\ OneHolder'
<1>1. ASSUME NEW v \in Worker \ {w}
      PROVE  RunAgrees(v)' /\ (Holds(v)' <=> Holds(v)) /\ run'[v].att = run[v].att
  <2>1. run'[v] = run[v] /\ RunAgrees(v) /\ run[v] \in Run BY DEF Alone, IInv, RunsAgree, Typed
  <2>2. Holds(v)' <=> Holds(v) BY <2>1 DEF Holds
  <2>3. Holds(v) => ~(Holds(w) /\ run[w].att = run[v].att) BY DEF IInv, OneHolder
  <2>4. Holds(v) => run[v].att \in Attempt BY <2>1 DEF RunAgrees, Holds
  <2>5. Holds(v) => Steady(run[v].att) BY <2>3, <2>4
  <2>6. run[v].pc \in {"token", "arm", "call"} => Holds(v) BY DEF Holds
  <2>7. run[v].pc = "commit" => rows'[run[v].att].msg = 1
    <3>1. \A a \in Attempt : rows[a].msg # 0 => rows'[a].msg = rows[a].msg BY DEF Steady
    <3>. QED BY <2>1, <3>1 DEF RunAgrees
  <2>. QED BY <2>1, <2>2, <2>5, <2>6, <2>7 DEF RunAgrees, Steady, Excused
<1>2. RunsAgree'
  <2>1. ASSUME NEW v \in Worker PROVE RunAgrees(v)' BY <1>1
  <2>. QED BY <2>1 DEF RunsAgree
<1>3. OneHolder'
  <2>. SUFFICES ASSUME NEW u \in Worker, NEW v \in Worker,
                       Holds(u)', Holds(v)', run'[u].att = run'[v].att
                PROVE  u = v
    BY DEF OneHolder
  <2>1. CASE u # w /\ v # w BY <1>1, <2>1 DEF IInv, OneHolder
  <2>2. CASE u = w /\ v # w BY <1>1, <2>2 DEF IInv, OneHolder
  <2>3. CASE u # w /\ v = w BY <1>1, <2>3 DEF IInv, OneHolder
  <2>. QED BY <2>1, <2>2, <2>3
<1>. QED BY <1>2, <1>3

\* Nor does a step of nobody's run disturb any.
LEMMA RunsStay ==
  ASSUME IInv, accepted' = accepted, \A a \in Attempt : Steady(a),
         \A v \in Worker : /\ run'[v].pc = run[v].pc
                           /\ run'[v].att = run[v].att /\ run'[v].msg = run[v].msg
                           /\ run'[v].code = run[v].code
  PROVE  RunsAgree' /\ OneHolder'
<1>1. ASSUME NEW v \in Worker
      PROVE  RunAgrees(v)' /\ (Holds(v)' <=> Holds(v))
  <2>1. RunAgrees(v) BY DEF IInv, RunsAgree
  <2>2. Holds(v)' <=> Holds(v) BY DEF Holds
  <2>3. Holds(v) => run[v].att \in Attempt BY <2>1 DEF RunAgrees, Holds
  <2>4. run[v].pc = "commit" => run[v].att \in Attempt BY <2>1 DEF RunAgrees
  <2>5. run[v].pc \in {"token", "arm", "call"} => Holds(v) BY DEF Holds
  <2>6. Excused(v)' BY <2>1 DEF RunAgrees, Excused
  <2>. QED BY <2>1, <2>2, <2>3, <2>4, <2>5, <2>6 DEF RunAgrees, Steady
<1>. QED BY <1>1 DEF RunsAgree, IInv, OneHolder

-----------------------------------------------------------------------------
\* The invariant is inductive: steps of no run

Good == IInv' /\ Evolves

\* A step that moves rows forward and leaves the runs where they are is good.
LEMMA MovesGood ==
  ASSUME IInv, Typed', Unmade', event' = event, accepted' = accepted,
         \A a \in Attempt : Moves(rows[a], rows'[a]),
         \A v \in Worker : /\ run'[v].pc = run[v].pc
                           /\ run'[v].att = run[v].att /\ run'[v].msg = run[v].msg
                           /\ run'[v].code = run[v].code
  PROVE  Good
<1>1. Quiet BY DEF Quiet
<1>2. RunsAgree' /\ OneHolder' BY MovesSteady, RunsStay
<1>3. RowsAgree' BY <1>1, EvolvesRowsAgree DEF Evolves
<1>. QED BY <1>1, <1>2, <1>3 DEF Good, IInv, Evolves

\* The facts of the invariant that most steps need.
LEMMA Facts ==
  ASSUME IInv
  PROVE  /\ Typed /\ Unmade /\ rows \in Rows /\ made \in Nat
         /\ \A a \in Attempt : Moves(rows[a], rows[a])
BY DEF IInv, Typed, Unmade, RowsAgree, RowAgrees, Rows, Moves

\* Failing one row that waits or is called.
LEMMA FailOne ==
  ASSUME IInv, NEW a, NEW c \in Codes, rows[a].status \in Waiting \cup {"provider_called"},
         rows' = [rows EXCEPT ![a] = Failed(rows[a], c)]
  PROVE  /\ rows' \in Rows
         /\ \A b \in Attempt : Moves(rows[b], rows'[b])
         /\ \A b \in Attempt : rows[b].status = "none" => rows'[b].status = "none"
<1>1. rows \in Rows /\ \A b \in Attempt : Moves(rows[b], rows[b]) BY Facts
<1>2. CASE a \in Attempt
  <2>1. rows[a] \in Row BY <1>1, <1>2 DEF Rows
  <2>2. Failed(rows[a], c) \in Row /\ Moves(rows[a], Failed(rows[a], c))
    BY <1>1, <1>2, <2>1, MovesFail, FailedRow
  <2>3. rows' \in Rows BY <1>1, <2>2 DEF Rows
  <2>4. ASSUME NEW b \in Attempt
        PROVE  Moves(rows[b], rows'[b]) /\ (rows[b].status = "none" => rows'[b].status = "none")
    <3>1. CASE b = a BY <1>1, <1>2, <2>2, <3>1 DEF Rows, Waiting
    <3>2. CASE b # a BY <1>1, <3>2 DEF Rows
    <3>. QED BY <3>1, <3>2
  <2>. QED BY <2>3, <2>4
<1>3. CASE a \notin Attempt
  <2>1. rows' = rows BY <1>1, <1>3 DEF Rows
  <2>. QED BY <1>1, <2>1
<1>. QED BY <1>2, <1>3

\* gmail_send_reserve preserves the invariant.
LEMMA ReserveGood ==
  ASSUME IInv, NEW u \in User, NEW k \in Key, NEW q \in Request, Reserve(u, k, q)
  PROVE  Good
<1>. DEFINE row == [NoRow EXCEPT
              !.user = u, !.key = k, !.kind = q.kind,
              !.hotel = IF q.hotel # None THEN q.hotel ELSE q.itemHotel,
              !.recipient = q.recipient,
              !.thread = IF q.thread \in {a \in Attempt : rows[a].status = "sent"}
                           THEN q.thread ELSE 0]
            new == rows'[made + 1]
<1>1. Typed /\ Unmade /\ rows \in Rows /\ made \in Nat BY Facts
<1>2. row \in Row /\ row.msg = 0 /\ row.status # "failed" /\ Coded(row)
  <2>1. /\ q.kind \in {"pitch", "reply"} /\ q.hotel \in Hotel \cup {None}
        /\ q.itemHotel \in Hotel \cup {None} /\ q.recipient \in Recipient
        /\ q.thread \in {0} \cup Attempt
    BY RequestAssumption
  <2>. QED BY <2>1 DEF Row, NoRow, Statuses, Coded
<1>3. /\ made' = made + 1
      /\ \/ rows' = [rows EXCEPT ![made + 1] = Queued(row, gap[u])]
         \/ rows' = [rows EXCEPT ![made + 1] = Failed(row, "refused")]
      /\ UNCHANGED <<fu, event, gap, account, outside, hour, run, accepted>>
  BY DEF Reserve
<1>. HIDE DEF row
<1>4. ASSUME NEW a \in Attempt
      PROVE  rows'[a] \in Row /\ Moves(rows[a], rows'[a]) /\ (a # made + 1 => rows'[a] = rows[a])
  <2>1. rows[a] \in Row /\ gap[u] \in Nat BY <1>1 DEF Rows, Typed
  <2>2. CASE a = made + 1
    <3>1. rows[a].status = "none" /\ rows[a].msg = 0
      BY <1>1, <2>2 DEF Unmade, IInv, RowsAgree, RowAgrees
    <3>2. rows'[a] \in {Queued(row, gap[u]), Failed(row, "refused")}
      BY <1>1, <1>3, <2>2 DEF Rows
    <3>3. /\ Queued(row, gap[u]) \in Row
          /\ Queued(row, gap[u]).status = "queued" /\ Queued(row, gap[u]).msg = 0
          /\ Coded(Queued(row, gap[u]))
      BY <1>2, <2>1, QueuedRow
    <3>4. /\ Failed(row, "refused") \in Row
          /\ Failed(row, "refused").status = "failed" /\ Failed(row, "refused").msg = 0
          /\ Coded(Failed(row, "refused"))
      BY <1>2, FailedRow DEF Codes
    <3>5. /\ rows'[a] \in Row /\ rows'[a].status \in {"queued", "failed"} /\ rows'[a].msg = 0
          /\ Coded(rows'[a])
      BY <3>2, <3>3, <3>4
    <3>. QED BY <2>2, <3>1, <3>5 DEF Moves, Waiting
  <2>3. CASE a # made + 1
    <3>1. rows'[a] = rows[a] BY <1>1, <1>3, <2>3 DEF Rows
    <3>. QED BY <2>1, <3>1 DEF Moves
  <2>. QED BY <2>2, <2>3
<1>5. rows' \in [Attempt -> Row]
  <2>1. rows' = [a \in Attempt |-> rows'[a]] BY <1>1, <1>3 DEF Rows
  <2>. QED BY <1>4, <2>1
<1>6. Typed' BY <1>1, <1>3, <1>5 DEF Typed, account, outside
<1>7. Unmade' BY <1>1, <1>3, <1>4 DEF Unmade, Attempt
<1>. QED BY <1>3, <1>4, <1>6, <1>7, MovesGood

\* gmail_followup_schedule preserves the invariant.
LEMMA ScheduleGood ==
  ASSUME IInv, NEW p \in Attempt, ScheduleFollowUp(p)
  PROVE  Good
<1>1. PICK d \in 0..FollowDelay, ps \in {<<p, 1>>, <<p, 2>>} :
        fu' = [fu EXCEPT ![ps] = [status |-> "scheduled", reason |-> "", due |-> d, att |-> 0]]
  BY DEF ScheduleFollowUp
<1>2. UNCHANGED <<rows, made, event, gap, account, outside, hour, run, accepted>>
  BY DEF ScheduleFollowUp
<1>3. fu' \in [Slot -> FollowUp]
  <2>1. [status |-> "scheduled", reason |-> "", due |-> d, att |-> 0] \in FollowUp
    BY BoundsAssumption DEF FollowUp
  <2>. QED BY <1>1, <2>1, Facts DEF Typed
<1>4. Typed' BY <1>2, <1>3, Facts DEF Typed, account, outside
<1>. QED BY <1>2, <1>4, Facts, MovesGood DEF Unmade

\* gmail_followup_cancel preserves the invariant.
LEMMA CancelGood ==
  ASSUME IInv, NEW p \in Attempt, NEW s \in {1, 2}, CancelFollowUp(p, s)
  PROVE  Good
<1>1. PICK a, ps :
        /\ \/ rows' = rows
           \/ /\ rows[a].status \in Waiting
              /\ rows' = [rows EXCEPT ![a] = Failed(rows[a], "followup_stopped")]
        /\ fu' = [fu EXCEPT ![ps] = [status |-> "cancelled", reason |-> "cancelled",
                                     due |-> 0, att |-> 0]]
        /\ UNCHANGED <<made, event, gap, account, outside, hour, run, accepted>>
  BY DEF CancelFollowUp
<1>2. fu' \in [Slot -> FollowUp]
  <2>1. [status |-> "cancelled", reason |-> "cancelled", due |-> 0, att |-> 0] \in FollowUp
    BY DEF FollowUp
  <2>. QED BY <1>1, <2>1, Facts DEF Typed
<1>3. rows' \in Rows /\ \A b \in Attempt : Moves(rows[b], rows'[b])
  BY <1>1, Facts, FailOne DEF Codes
<1>4. Typed' BY <1>1, <1>2, <1>3, Facts DEF Typed, Rows, account, outside
<1>5. Unmade' BY <1>1, <1>3, Facts, FailOne DEF Unmade, Codes
<1>. QED BY <1>1, <1>3, <1>4, <1>5, MovesGood

\* gmail_followup_settle preserves the invariant, whichever creators it settles.
LEMMA SettleGood ==
  ASSUME IInv, NEW us, Settle(us)
  PROVE  Good
<1>1. /\ rows' = SettleRows(us, rows) /\ fu' = SettleFollowUps(us) /\ made' = SettleMade(us)
      /\ UNCHANGED <<event, gap, account, outside, hour, run, accepted>>
  BY DEF Settle
<1>2. made' \in Nat /\ made' >= made BY <1>1, Facts, SettleCounts
<1>3. ASSUME NEW a \in Attempt
      PROVE  Moves(rows[a], rows'[a]) /\ (a > made' => rows'[a].status = "none")
  <2>1. rows[a] \in Row /\ a \in Nat /\ made \in Nat BY Facts DEF Rows, Attempt
  <2>2. CASE rows'[a] = rows[a]
    <3>1. a > made' => a > made BY <1>2, <2>1
    <3>. QED BY <2>2, <3>1, Facts DEF Unmade
  <2>3. CASE rows'[a] = Failed(rows[a], "followup_stopped") /\ rows[a].status \in Waiting
    <3>1. Moves(rows[a], rows'[a]) BY <2>1, <2>3, MovesFail, Facts DEF Codes
    <3>2. ~(a > made) BY <2>3, Facts DEF Unmade, Waiting
    <3>3. ~(a > made') BY <1>2, <2>1, <3>2
    <3>. QED BY <3>1, <3>3
  <2>4. CASE /\ a > made /\ \E ps \in SettleQueues(us) : NewAttempt(us, ps) = a
             /\ rows'[a].status = "queued" /\ rows'[a].msg = 0 /\ Coded(rows'[a])
    <3>1. rows[a].status = "none" /\ rows[a].msg = 0
      BY <2>4 DEF IInv, RowsAgree, RowAgrees
    <3>2. Moves(rows[a], rows'[a]) BY <2>4, <3>1 DEF Moves, Waiting
    <3>3. PICK ps \in SettleQueues(us) : NewAttempt(us, ps) = a BY <2>4
    <3>4. NewAttempt(us, ps) <= made' BY <1>1, Facts, SettleCounts DEF SettleQueues
    <3>5. ~(a > made') BY <1>2, <2>1, <3>3, <3>4
    <3>. QED BY <3>2, <3>5
  <2>. QED BY <1>1, <2>2, <2>3, <2>4, SettleRowsMoves, Facts
<1>4. rows' \in Rows BY <1>1, SettleRowsMoves, Facts
<1>5. Typed'
  <2>1. fu' \in [Slot -> FollowUp] BY <1>1, SettleFollowUpsType, Facts
  <2>. QED BY <1>1, <1>2, <1>4, <2>1, Facts DEF Typed, Rows, account, outside
<1>. QED BY <1>1, <1>3, <1>5, MovesGood DEF Unmade

\* What happens around the queue preserves the invariant.
LEMMA EnvironmentGood ==
  ASSUME IInv, Environment
  PROVE  Good
<1>1. UNCHANGED <<rows, made, fu, event, gap, hour, run, accepted>>
  BY DEF Environment, ThreadStops, ContactChanges, PauseChanges, StandingChanges,
         RequestDeletion, table, account, outside
<1>2. /\ paused' \in [User -> BOOLEAN] /\ blocked' \in [User -> BOOLEAN]
      /\ standing' \in [User -> {"ok", "unpaid", "no_mailbox"}]
      /\ halted' \subseteq Attempt /\ valid' \subseteq Recipient
  <2>1. CASE \E p \in Attempt : ThreadStops(p)
    BY <2>1, Facts DEF ThreadStops, Typed, account
  <2>2. CASE \E r \in Recipient : ContactChanges(r)
    BY <2>2, Facts DEF ContactChanges, Typed, account
  <2>3. CASE \E u \in User : PauseChanges(u)
    BY <2>3, Facts DEF PauseChanges, Typed, outside
  <2>4. CASE \E u \in User : StandingChanges(u)
    BY <2>4, Facts, StandingsAssumption DEF StandingChanges, Typed, outside
  <2>5. CASE \E u \in User : RequestDeletion(u)
    BY <2>5, Facts DEF RequestDeletion, Typed, outside
  <2>. QED BY <2>1, <2>2, <2>3, <2>4, <2>5 DEF Environment
<1>3. Typed' BY <1>1, <1>2, Facts DEF Typed
<1>. QED BY <1>1, <1>3, Facts, MovesGood DEF Unmade

\* The passing of time preserves the invariant.
LEMMA TickGood ==
  ASSUME IInv, Tick
  PROVE  Good
<1>1. ASSUME NEW n \in Nat PROVE Down(n) \in Nat BY DEF Down
<1>2. ASSUME NEW a \in Attempt
      PROVE  rows'[a] \in Row /\ Moves(rows[a], rows'[a])
             /\ (rows[a].status = "none" => rows'[a].status = "none")
  <2>1. rows[a] \in Row BY Facts DEF Rows
  <2>2. Down(rows[a].wait) \in Nat BY <1>1, <2>1 DEF Row
  <2>3. PICK n \in Nat, t \in BOOLEAN :
          rows'[a] = [rows[a] EXCEPT !.wait = Down(rows[a].wait), !.today = t, !.age = n]
    <3>1. rows'[a] = [rows[a] EXCEPT
            !.wait = Down(rows[a].wait), !.today = rows[a].today /\ hour' # 0,
            !.age = IF rows[a].status \in {"reserved", "provider_called", "unknown"}
                         /\ rows[a].age <= Lease THEN rows[a].age + 1 ELSE rows[a].age]
      BY DEF Tick
    <3>. DEFINE today == rows[a].today /\ hour' # 0
                age == IF rows[a].status \in {"reserved", "provider_called", "unknown"}
                            /\ rows[a].age <= Lease THEN rows[a].age + 1 ELSE rows[a].age
    <3>2. today \in BOOLEAN OBVIOUS
    <3>3. age \in Nat
      <4>1. rows[a].age \in Nat BY <2>1 DEF Row
      <4>2. rows[a].age + 1 \in Nat BY <4>1
      <4>. QED BY <4>1, <4>2
    <3>. HIDE DEF today, age
    <3>4. rows'[a] = [rows[a] EXCEPT !.wait = Down(rows[a].wait), !.today = today, !.age = age]
      BY <3>1 DEF today, age
    <3>. QED BY <3>2, <3>3, <3>4
  <2>4. rows'[a] \in Row BY <2>1, <2>2, <2>3 DEF Row
  <2>5. rows'[a].status = rows[a].status /\ rows'[a].code = rows[a].code
        /\ rows'[a].msg = rows[a].msg
    BY <2>1, <2>3 DEF Row
  <2>. QED BY <2>4, <2>5 DEF Moves, Coded
<1>3. rows' \in [Attempt -> Row]
  <2>1. rows' = [a \in Attempt |-> rows'[a]] BY DEF Tick
  <2>. QED BY <1>2, <2>1
<1>4. fu' \in [Slot -> FollowUp]
  <2>1. ASSUME NEW ps \in Slot PROVE [fu[ps] EXCEPT !.due = Down(@)] \in FollowUp
    <3>1. fu[ps] \in FollowUp BY Facts DEF Typed
    <3>2. Down(fu[ps].due) \in Nat BY <1>1, <3>1 DEF FollowUp
    <3>. QED BY <3>1, <3>2 DEF FollowUp
  <2>. QED BY <2>1 DEF Tick
<1>5. gap' \in [User -> Nat]
  <2>1. \A u \in User : gap[u] \in Nat BY Facts DEF Typed
  <2>. QED BY <1>1, <2>1 DEF Tick
<1>6. hour' \in 0..(DayLen - 1)
  <2>1. hour \in Nat /\ DayLen \in Nat \ {0} BY Facts, BoundsAssumption DEF Typed
  <2>2. (hour + 1) % DayLen \in 0..(DayLen - 1) BY <2>1
  <2>. QED BY <2>2 DEF Tick
<1>7. ASSUME NEW w \in Worker
      PROVE  /\ run'[w] \in Run /\ run'[w].pc = run[w].pc
             /\ run'[w].att = run[w].att /\ run'[w].msg = run[w].msg
             /\ run'[w].code = run[w].code
  <2>1. run[w] \in Run BY Facts DEF Typed
  <2>2. run'[w] = [run[w] EXCEPT !.old = run[w].pc # "idle"] BY DEF Tick
  <2>. QED BY <2>1, <2>2 DEF Run
<1>8. run' \in [Worker -> Run]
  <2>1. run' = [w \in Worker |-> run'[w]] BY DEF Tick
  <2>. QED BY <1>7, <2>1
<1>9. UNCHANGED <<made, event, account, outside, accepted>> BY DEF Tick
<1>10. Typed' BY <1>3, <1>4, <1>5, <1>6, <1>8, <1>9, Facts DEF Typed, account, outside
<1>11. Unmade' BY <1>2, <1>9, Facts DEF Unmade
<1>. QED BY <1>2, <1>7, <1>9, <1>10, <1>11, MovesGood

-----------------------------------------------------------------------------
\* The invariant is inductive: steps of a run

\* How a run's record changes.
LEMMA ToAlone ==
  ASSUME Typed, NEW w \in Worker, NEW pc \in Steps, To(w, pc)
  PROVE  /\ Alone(w) /\ run'[w].pc = pc
         /\ run'[w].att = run[w].att /\ run'[w].msg = run[w].msg
<1>1. run[w] \in Run /\ run \in [Worker -> Run] BY DEF Typed
<1>2. [run[w] EXCEPT !.pc = pc] \in Run BY <1>1 DEF Run
<1>3. run' = [run EXCEPT ![w] = [run[w] EXCEPT !.pc = pc]] BY <1>1 DEF To
<1>4. run'[w] = [run[w] EXCEPT !.pc = pc] BY <1>1, <1>3
<1>5. Alone(w) BY <1>1, <1>2, <1>3 DEF Alone
<1>. QED BY <1>1, <1>4, <1>5 DEF Run

\* A run that turns to its failure path leaves the other runs alone.
LEMMA ToFailAlone ==
  ASSUME Typed, NEW w \in Worker, NEW c \in {"unknown"} \cup Codes, ToFail(w, c)
  PROVE  /\ Alone(w) /\ run'[w].pc = "fail" /\ run'[w].att = run[w].att /\ Excused(w)'
         /\ Excused(w)'
<1>1. run[w] \in Run /\ run \in [Worker -> Run] BY DEF Typed
<1>. DEFINE x == [run[w] EXCEPT !.pc = "fail", !.code = c]
<1>2. x \in Run /\ x.pc = "fail" /\ x.att = run[w].att /\ x.code # ""
  BY <1>1 DEF Run, Steps, Codes
<1>3. run' = [run EXCEPT ![w] = x] BY <1>1 DEF ToFail
<1>. HIDE DEF x
<1>4. run'[w] = x BY <1>1, <1>3
<1>5. Alone(w) BY <1>1, <1>2, <1>3 DEF Alone
<1>6. Excused(w)' BY <1>2, <1>4 DEF Excused
<1>. QED BY <1>2, <1>4, <1>5, <1>6

\* A run that turns to a stored message id leaves the other runs alone.
LEMMA ToCommitAlone ==
  ASSUME Typed, NEW w \in Worker, NEW m \in Nat, NEW pc \in Steps,
         run' = [run EXCEPT ![w].pc = pc, ![w].msg = m]
  PROVE  Alone(w) /\ run'[w].pc = pc /\ run'[w].att = run[w].att /\ run'[w].msg = m
<1>1. run[w] \in Run /\ run \in [Worker -> Run] BY DEF Typed
<1>. DEFINE x == [run[w] EXCEPT !.pc = pc, !.msg = m]
<1>2. x \in Run /\ x.pc = pc /\ x.att = run[w].att /\ x.msg = m BY <1>1 DEF Run
<1>3. run' = [run EXCEPT ![w] = x] BY <1>1
<1>. HIDE DEF x
<1>4. run'[w] = x BY <1>1, <1>3
<1>5. Alone(w) BY <1>1, <1>2, <1>3 DEF Alone
<1>. QED BY <1>2, <1>4, <1>5

\* A run that is done with its attempt leaves the other runs alone.
LEMMA FreeAlone ==
  ASSUME Typed, NEW w \in Worker, Delivered(w) \/ Ended(w)
  PROVE  Alone(w) /\ run'[w].pc \in {"idle", "claim"}
<1>1. run[w] \in Run /\ run \in [Worker -> Run] BY DEF Typed
<1>2. PICK x \in Run : x.pc \in {"idle", "claim"} /\ run' = [run EXCEPT ![w] = x]
  <2>. DEFINE y == [run[w] EXCEPT !.pc = "claim", !.att = 0, !.code = "", !.msg = 0]
  <2>1. CASE Delivered(w)
    <3>1. y \in Run /\ y.pc = "claim" BY <1>1 DEF Run, Steps
    <3>2. run' = [run EXCEPT ![w] = y] BY <1>1, <2>1 DEF Delivered
    <3>. HIDE DEF y
    <3>. QED BY <3>1, <3>2
  <2>2. CASE Ended(w)
    <3>1. IdleRun \in Run /\ IdleRun.pc = "idle" BY DEF IdleRun, Run, Steps
    <3>. QED BY <2>2, <3>1 DEF Ended
  <2>. QED BY <2>1, <2>2
<1>. QED BY <1>1, <1>2 DEF Alone

\* A quiet step of a run that holds what it held, or nothing, or what nobody did.
LEMMA QuietGood ==
  ASSUME IInv, Typed', Unmade', Quiet, NEW w \in Worker, Alone(w),
         \A a \in Attempt : \/ Steady(a)
                            \/ /\ Holds(w) /\ run[w].att = a
                               /\ rows'[a].msg = rows[a].msg,
         RunAgrees(w)',
         Holds(w)' => \/ Holds(w) /\ run'[w].att = run[w].att
                      \/ \A v \in Worker \ {w} : Holds(v) => run[v].att # run'[w].att
  PROVE  Good
<1>1. accepted' = accepted BY DEF Quiet
<1>2. RunsAgree' /\ OneHolder' BY <1>1, RunStep
<1>3. RowsAgree' BY EvolvesRowsAgree DEF Evolves
<1>. QED BY <1>2, <1>3 DEF Good, IInv, Evolves

\* The run is done with its attempt.
LEMMA FreeGood ==
  ASSUME IInv, Typed', Unmade', event' = event, accepted' = accepted,
         \A a \in Attempt : Moves(rows[a], rows'[a]),
         NEW w \in Worker, Alone(w), run'[w].pc \in {"idle", "claim"}
  PROVE  Good
<1>1. Quiet BY DEF Quiet
<1>2. RunAgrees(w)' /\ ~Holds(w)' BY DEF RunAgrees, Holds, Excused
<1>. QED BY <1>1, <1>2, MovesSteady, QuietGood

\* The run goes on to the mark or to the end of an attempt it holds.
LEMMA HeldGood ==
  ASSUME IInv, Typed', Unmade', event' = event, accepted' = accepted,
         \A a \in Attempt : Moves(rows[a], rows'[a]),
         NEW w \in Worker, Alone(w), Holds(w), run'[w].pc \in {"mark", "fail"},
         run'[w].att = run[w].att, Excused(w)'
  PROVE  Good
<1>1. Quiet BY DEF Quiet
<1>2. RunAgrees(w) BY DEF IInv, RunsAgree
<1>3. run[w].att \in Attempt /\ rows[run[w].att].status \notin {"none", "queued"}
  BY <1>2 DEF RunAgrees, Holds
<1>4. Steady(run[w].att) BY <1>3, MovesSteady
<1>5. RunAgrees(w)' BY <1>3, <1>4 DEF RunAgrees, Steady, Excused
<1>. QED BY <1>1, <1>5, MovesSteady, QuietGood

\* The run gives up after Gmail has accepted its message.
LEMMA LateGood ==
  ASSUME IInv, Typed', Unmade', Quiet, \A a \in Attempt : Steady(a),
         NEW w \in Worker, Alone(w), run[w].pc \in {"remember", "commit"},
         run'[w].pc = "fail", run'[w].att = run[w].att, Excused(w)'
  PROVE  Good
<1>1. RunAgrees(w) /\ accepted' = accepted BY DEF IInv, RunsAgree, Quiet
<1>2. run[w].att \in Attempt /\ accepted[run[w].att] = 1 BY <1>1 DEF RunAgrees
<1>3. ~Holds(w)'
  <2>1. accepted'[run'[w].att] = 1
    <3>1. run'[w].att = run[w].att OBVIOUS
    <3>. QED BY <1>1, <1>2, <3>1
  <2>2. run'[w].pc \notin {"gate", "mark", "token", "arm", "call"} OBVIOUS
  <2>. QED BY <2>1, <2>2 DEF Holds
<1>4. RunAgrees(w)' BY <1>2, <1>3 DEF RunAgrees
<1>. QED BY <1>3, <1>4, QuietGood

\* Every step of a run keeps the type when it keeps that of what it writes.
LEMMA TypeStep ==
  ASSUME IInv, rows' \in Rows, fu' \in [Slot -> FollowUp], made' \in Nat,
         event' \in [Attempt -> Nat], accepted' \in [Attempt -> Nat],
         run' \in [Worker -> Run], UNCHANGED <<gap, account, outside, hour>>
  PROVE  Typed'
BY Facts DEF Typed, Rows, account, outside

\* Starting, ending and killing a run preserve the invariant.
LEMMA StartEndKilledGood ==
  ASSUME IInv, NEW w \in Worker,
         StartRun(w) \/ EndRun(w) \/ Killed(w) \/ MarkUnsent(w)
  PROVE  Good
<1>1. UNCHANGED <<rows, made, fu, event, gap, account, outside, hour, accepted>>
  BY DEF StartRun, EndRun, Killed, MarkUnsent, Same, table
<1>2. Alone(w) /\ run'[w].pc \in {"idle", "claim"}
  <2>1. CASE StartRun(w)
    <3>1. To(w, "claim") BY <2>1 DEF StartRun
    <3>. QED BY <3>1, ToAlone, Facts DEF Steps
  <2>2. CASE EndRun(w) \/ Killed(w) \/ MarkUnsent(w)
    BY <2>2, FreeAlone, Facts DEF EndRun, Killed, MarkUnsent
  <2>. QED BY <2>1, <2>2
<1>3. Typed' BY <1>1, <1>2, Facts, TypeStep DEF Alone, Typed
<1>. QED BY <1>1, <1>2, <1>3, Facts, FreeGood DEF Unmade

\* A claim that serves nobody, and the rows it puts off.
LEMMA DeferredSame ==
  ASSUME IInv, NEW rs \in Rows, NEW us
  PROVE  /\ Deferred(rs, us) \in Rows
         /\ \A a \in Attempt : /\ Deferred(rs, us)[a].status = rs[a].status
                               /\ Deferred(rs, us)[a].code = rs[a].code
                               /\ Deferred(rs, us)[a].msg = rs[a].msg
<1>1. NextMorning \in Nat
  <2>1. hour \in 0..(DayLen - 1) /\ DayLen \in Nat /\ OpenFrom \in Nat
    BY Facts, BoundsAssumption DEF Typed
  <2>. QED BY <2>1 DEF NextMorning
<1>2. ASSUME NEW a \in Attempt
      PROVE  /\ Deferred(rs, us)[a] \in Row
             /\ Deferred(rs, us)[a].status = rs[a].status
             /\ Deferred(rs, us)[a].code = rs[a].code
             /\ Deferred(rs, us)[a].msg = rs[a].msg
  <2>1. rs[a] \in Row BY DEF Rows
  <2>2. /\ [rs[a] EXCEPT !.wait = NextMorning] \in Row
        /\ [rs[a] EXCEPT !.wait = NextMorning].status = rs[a].status
        /\ [rs[a] EXCEPT !.wait = NextMorning].code = rs[a].code
        /\ [rs[a] EXCEPT !.wait = NextMorning].msg = rs[a].msg
    BY <1>1, <2>1 DEF Row
  <2>3. Deferred(rs, us)[a] \in {rs[a], [rs[a] EXCEPT !.wait = NextMorning]}
    BY DEF Deferred
  <2>. QED BY <2>1, <2>2, <2>3
<1>. QED BY <1>2 DEF Deferred, Rows

\* A claim that hands out nothing preserves the invariant.
LEMMA ClaimNothingGood ==
  ASSUME IInv, NEW w \in Worker, ClaimNothing(w)
  PROVE  Good
<1>1. /\ rows' = Deferred(ClaimRows, DueUsers(ClaimRows))
      /\ fu' = SettleFollowUps(User) /\ made' = SettleMade(User) /\ Ended(w)
      /\ UNCHANGED <<event, gap, account, outside, hour, accepted>>
  BY DEF ClaimNothing, Same
<1>2. ClaimRows \in Rows BY ClaimRowsMoves
<1>3. rows' \in Rows /\ \A a \in Attempt : Moves(rows[a], rows'[a])
  <2>1. rows' \in Rows BY <1>1, <1>2, DeferredSame
  <2>2. ASSUME NEW a \in Attempt PROVE Moves(rows[a], rows'[a])
    <3>1. Moves(rows[a], ClaimRows[a]) BY ClaimRowsMoves
    <3>2. /\ rows'[a].status = ClaimRows[a].status /\ rows'[a].code = ClaimRows[a].code
          /\ rows'[a].msg = ClaimRows[a].msg
      BY <1>1, <1>2, DeferredSame
    <3>. QED BY <3>1, <3>2, MovesSame
  <2>. QED BY <2>1, <2>2
<1>4. Alone(w) /\ run'[w].pc \in {"idle", "claim"} BY <1>1, FreeAlone, Facts
<1>5. Typed'
  BY <1>1, <1>3, <1>4, Facts, SettleFollowUpsType, SettleCounts, TypeStep DEF Alone, Typed
<1>6. Unmade' BY <1>1, <1>2, ClaimRowsMoves, DeferredSame DEF Unmade
<1>. QED BY <1>1, <1>3, <1>4, <1>5, <1>6, FreeGood

\* What the answer of a claim makes of a run.
LEMMA ClaimedAlone ==
  ASSUME Typed, NEW w \in Worker, NEW a \in Attempt, NEW pc \in Steps, NEW msg \in Nat,
         NEW heard, Claimed(w, a, pc, msg, heard)
  PROVE  /\ Alone(w)
         /\ \/ run'[w].pc = pc /\ run'[w].att = a /\ run'[w].msg = msg
            \/ run'[w].pc = "idle"
<1>1. run[w] \in Run /\ run \in [Worker -> Run] BY DEF Typed
<1>. DEFINE x == [run[w] EXCEPT !.pc = pc, !.att = a, !.msg = msg, !.seen = @ \cup {a}]
<1>2. x \in Run /\ x.pc = pc /\ x.att = a /\ x.msg = msg BY <1>1 DEF Run
<1>3. CASE run' = [run EXCEPT ![w] = x]
  <2>. HIDE DEF x
  <2>. QED BY <1>1, <1>2, <1>3 DEF Alone
<1>4. CASE Ended(w)
  <2>1. IdleRun \in Run /\ IdleRun.pc = "idle" BY DEF IdleRun, Run, Steps
  <2>. QED BY <1>1, <1>4, <2>1 DEF Ended, Alone
<1>5. CASE ~Ended(w)
  <2>1. run' = [run EXCEPT ![w].pc = pc, ![w].att = a, ![w].msg = msg,
                           ![w].seen = @ \cup {a}]
    BY <1>5 DEF Claimed
  <2>2. run' = [run EXCEPT ![w] = x] BY <1>1, <2>1
  <2>. QED BY <1>3, <2>2
<1>. QED BY <1>4, <1>5

\* A claim that hands out a stored message id preserves the invariant.
LEMMA ClaimCommitGood ==
  ASSUME IInv, NEW w \in Worker, NEW heard, ClaimCommit(w, heard)
  PROVE  Good
<1>1. PICK a \in Uncommitted(ClaimRows) : Claimed(w, a, "commit", ClaimRows[a].msg, heard)
  BY DEF ClaimCommit
<1>2. /\ rows' = ClaimRows /\ fu' = SettleFollowUps(User) /\ made' = SettleMade(User)
      /\ UNCHANGED <<event, gap, account, outside, hour, accepted>>
  BY DEF ClaimCommit, Same
<1>3. a \in Attempt /\ ClaimRows[a].msg # 0 BY <1>1 DEF Uncommitted
<1>4. /\ rows' \in Rows /\ \A b \in Attempt : Moves(rows[b], rows'[b])
      /\ Unmade'
  BY <1>2, ClaimRowsMoves DEF Unmade
<1>5. rows[a].msg = ClaimRows[a].msg BY <1>2, <1>3, <1>4 DEF Moves
<1>6. rows[a].msg = 1 /\ accepted[a] = 1
  <2>1. RowAgrees(a) /\ accepted[a] \in Nat BY <1>3, Facts DEF IInv, RowsAgree, Typed
  <2>. QED BY <1>3, <1>5, <2>1 DEF RowAgrees
<1>7. /\ Alone(w)
      /\ \/ run'[w].pc = "commit" /\ run'[w].att = a /\ run'[w].msg = 1
         \/ run'[w].pc = "idle"
  BY <1>1, <1>3, <1>5, <1>6, ClaimedAlone, Facts DEF Steps
<1>8. Typed'
  BY <1>2, <1>4, <1>7, Facts, SettleFollowUpsType, SettleCounts, TypeStep DEF Alone, Typed
<1>9. RunAgrees(w)' /\ ~Holds(w)'
  BY <1>2, <1>3, <1>5, <1>6, <1>7 DEF RunAgrees, Holds, Excused
<1>10. Quiet BY <1>2, <1>4 DEF Quiet
<1>. QED BY <1>4, <1>7, <1>8, <1>9, <1>10, MovesSteady, QuietGood

\* A claim that reserves a queued send preserves the invariant.
LEMMA ClaimSendGood ==
  ASSUME IInv, NEW w \in Worker, NEW heard, ClaimSend(w, heard)
  PROVE  Good
<1>. PICK u \in DueUsers(ClaimRows), skipped \in SUBSET DueUsers(ClaimRows) :
       /\ \E a \in DueOf(ClaimRows, u) :
            /\ rows' = Reserved(Deferred(ClaimRows, skipped), u, a)
            /\ Claimed(w, a, "gate", 0, heard)
       /\ gap' = [gap EXCEPT ![u] = Spacing]
  BY DEF ClaimSend
<1>1. PICK a \in DueOf(ClaimRows, u) :
        /\ rows' = Reserved(Deferred(ClaimRows, skipped), u, a)
        /\ Claimed(w, a, "gate", 0, heard)
  OBVIOUS
<1>2. /\ fu' = SettleFollowUps(User) /\ made' = SettleMade(User)
      /\ UNCHANGED <<event, account, outside, hour, accepted>>
  BY DEF ClaimSend
<1>. DEFINE rs == Deferred(ClaimRows, skipped)
<1>3. /\ rs \in Rows /\ \A b \in Attempt : Moves(rows[b], rs[b])
      /\ \A b \in Attempt : b > made' => rs[b].status = "none"
  <2>1. rs \in Rows BY ClaimRowsMoves, DeferredSame
  <2>2. ASSUME NEW b \in Attempt
        PROVE  Moves(rows[b], rs[b]) /\ (b > made' => rs[b].status = "none")
    <3>1. Moves(rows[b], ClaimRows[b]) /\ (b > made' => ClaimRows[b].status = "none")
      BY <1>2, ClaimRowsMoves
    <3>2. /\ rs[b].status = ClaimRows[b].status /\ rs[b].code = ClaimRows[b].code
          /\ rs[b].msg = ClaimRows[b].msg
      BY ClaimRowsMoves, DeferredSame
    <3>. HIDE DEF rs
    <3>. QED BY <3>1, <3>2, MovesSame
  <2>. QED BY <2>1, <2>2
<1>4. a \in Attempt /\ rs[a].status = "queued"
  BY <1>1, ClaimRowsMoves, DeferredSame DEF DueOf
<1>. HIDE DEF rs
<1>5. rows' = Reserved(rs, u, a) BY <1>1 DEF rs
<1>6. ASSUME NEW b \in Attempt
      PROVE  /\ rows'[b] \in Row /\ rows'[b].msg = rs[b].msg /\ rows'[b].code = rs[b].code
             /\ rows'[b].status = IF b = a THEN "reserved" ELSE rs[b].status
  <2>1. rs[b] \in Row BY <1>3 DEF Rows
  <2>2. Spacing \in Nat BY BoundsAssumption
  <2>3. CASE b = a
    <3>1. rows'[b] = [rs[b] EXCEPT !.status = "reserved", !.age = 0] BY <1>5, <2>3 DEF Reserved
    <3>2. rows'[b] \in Row
      <4>1. "reserved" \in Statuses BY DEF Statuses
      <4>2. [rs[b] EXCEPT !.status = "reserved", !.age = 0] \in Row BY <2>1, <4>1, StatusRow
      <4>. QED BY <3>1, <4>2
    <3>3. rows'[b].msg = rs[b].msg /\ rows'[b].code = rs[b].code BY <2>1, <3>1 DEF Row
    <3>4. rows'[b].status = "reserved" BY <2>1, <3>1 DEF Row
    <3>. QED BY <2>3, <3>2, <3>3, <3>4
  <2>4. CASE b # a
    <3>. DEFINE n == Later(rs[b].wait, Spacing)
    <3>1. n \in Nat
      <4>1. rs[b].wait \in Nat BY <2>1 DEF Row
      <4>. QED BY <2>2, <4>1 DEF Later
    <3>2. rows'[b] \in {rs[b], [rs[b] EXCEPT !.wait = n]} BY <1>5, <2>4 DEF Reserved
    <3>. HIDE DEF n
    <3>3. /\ [rs[b] EXCEPT !.wait = n] \in Row
          /\ [rs[b] EXCEPT !.wait = n].msg = rs[b].msg
          /\ [rs[b] EXCEPT !.wait = n].code = rs[b].code
          /\ [rs[b] EXCEPT !.wait = n].status = rs[b].status
      BY <2>1, <3>1 DEF Row
    <3>. QED BY <2>1, <2>4, <3>2, <3>3
  <2>. QED BY <2>3, <2>4
<1>7. rows' \in Rows BY <1>5, <1>6 DEF Rows, Reserved
<1>8. ASSUME NEW b \in Attempt PROVE Moves(rows[b], rows'[b])
  <2>1. Moves(rows[b], rs[b]) BY <1>3
  <2>2. CASE b = a BY <1>4, <1>6, <2>1, <2>2 DEF Moves, Waiting, Coded
  <2>3. CASE b # a BY <1>6, <2>1, <2>3 DEF Moves, Coded
  <2>. QED BY <2>2, <2>3
<1>9. Unmade' BY <1>3, <1>4, <1>6 DEF Unmade
<1>10. /\ Alone(w)
       /\ \/ run'[w].pc = "gate" /\ run'[w].att = a
          \/ run'[w].pc = "idle"
  BY <1>1, <1>4, ClaimedAlone, Facts DEF Steps
<1>11. Typed'
  <2>1. gap' \in [User -> Nat] BY BoundsAssumption, Facts DEF Typed
  <2>2. fu' \in [Slot -> FollowUp] /\ made' \in Nat
    BY <1>2, Facts, SettleFollowUpsType, SettleCounts
  <2>. QED BY <1>2, <1>7, <1>10, <2>1, <2>2, Facts DEF Typed, Alone, Rows, account, outside
<1>12. RunAgrees(w)' BY <1>4, <1>6, <1>10 DEF RunAgrees, Holds, Excused
<1>13. ASSUME Holds(w)', NEW v \in Worker \ {w}, Holds(v)
       PROVE  run[v].att # run'[w].att
  <2>1. run'[w].att = a BY <1>10, <1>13 DEF Holds
  <2>2. rows[a].status \in {"none", "queued"} BY <1>3, <1>4 DEF Moves
  <2>3. RunAgrees(v) BY DEF IInv, RunsAgree
  <2>. QED BY <1>13, <2>1, <2>2, <2>3 DEF RunAgrees
<1>14. Quiet BY <1>2, <1>8 DEF Quiet
<1>. QED BY <1>8, <1>9, <1>10, <1>11, <1>12, <1>13, <1>14, MovesSteady, QuietGood

\* The attempt a run holds.
LEMMA HeldFacts ==
  ASSUME IInv, NEW w \in Worker, run[w].pc \notin {"idle", "claim"}
  PROVE  /\ run[w].att \in Attempt /\ rows[run[w].att] \in Row
         /\ RunAgrees(w) /\ RowAgrees(run[w].att) /\ accepted[run[w].att] \in Nat
BY Facts DEF IInv, RunsAgree, RowsAgree, RunAgrees, Typed

\* A stored message id is handed to a run that held the attempt.
LEMMA CommitGood ==
  ASSUME IInv, Typed', Unmade', UNCHANGED <<rows, event, accepted>>,
         NEW w \in Worker, run[w].pc \notin {"idle", "claim"}, rows[run[w].att].msg # 0,
         run' = [run EXCEPT ![w].pc = "commit", ![w].msg = rows[run[w].att].msg]
  PROVE  Good
<1>1. rows[run[w].att].msg = 1 /\ accepted[run[w].att] = 1 /\ run[w].att \in Attempt
  BY HeldFacts DEF RowAgrees
<1>2. Alone(w) /\ run'[w].pc = "commit" /\ run'[w].att = run[w].att /\ run'[w].msg = 1
  BY <1>1, ToCommitAlone, Facts DEF Steps
<1>3. RunAgrees(w)' /\ ~Holds(w)' BY <1>1, <1>2 DEF RunAgrees, Holds, Excused
<1>4. \A b \in Attempt : Moves(rows[b], rows'[b]) BY Facts
<1>. QED BY <1>2, <1>3, <1>4, MovesSteady, QuietGood DEF Quiet

\* The follow-up gate, the guard and the MIME builder preserve the invariant.
LEMMA GateGood ==
  ASSUME IInv, NEW w \in Worker, Gate(w)
  PROVE  Good
<1>. DEFINE a == run[w].att
<1>1. run[w].pc = "gate" /\ Holds(w) BY DEF Gate, Same, Holds
<1>2. UNCHANGED <<made, event, gap, account, outside, hour, accepted>> BY DEF Gate, Same
<1>3. a \in Attempt BY <1>1, HeldFacts
<1>4. \/ /\ BlockStops(a)
         /\ rows' = [rows EXCEPT ![a] = Failed(rows[a], "followup_stopped")]
         /\ fu' = BlockFollowUps(a)
      \/ UNCHANGED <<rows, fu>>
  BY DEF Gate
<1>5. /\ rows' \in Rows /\ \A b \in Attempt : Moves(rows[b], rows'[b])
      /\ Unmade'
  <2>1. CASE UNCHANGED <<rows, fu>> BY <1>2, <2>1, Facts DEF Unmade
  <2>2. CASE /\ BlockStops(a)
             /\ rows' = [rows EXCEPT ![a] = Failed(rows[a], "followup_stopped")]
    <3>1. rows[a].status \in Waiting \cup {"provider_called"} BY <2>2 DEF BlockStops
    <3>. QED BY <1>2, <2>2, <3>1, FailOne, Facts DEF Codes, Unmade
  <2>. QED BY <1>4, <2>1, <2>2
<1>6. fu' \in [Slot -> FollowUp] BY <1>4, Facts, BlockFollowUpsType DEF Typed
<1>7. ASSUME Alone(w) PROVE Typed'
  BY <1>2, <1>5, <1>6, <1>7, Facts, TypeStep DEF Alone, Typed
<1>8. \/ Delivered(w)
      \/ To(w, "mark")
      \/ \E c \in Codes : ToFail(w, c)
      \/ /\ run' = [run EXCEPT ![w].pc = "commit", ![w].msg = rows[a].msg]
         /\ rows[a].msg # 0
  BY DEF Gate, Codes
<1>9. CASE Delivered(w)
  BY <1>2, <1>5, <1>7, <1>9, FreeAlone, Facts, FreeGood
<1>10. CASE To(w, "mark")
  <2>1. Alone(w) /\ run'[w].pc = "mark" /\ run'[w].att = run[w].att
    BY <1>10, ToAlone, Facts DEF Steps
  <2>2. Excused(w)' BY <2>1 DEF Excused
  <2>. QED BY <1>1, <1>2, <1>5, <1>7, <2>1, <2>2, HeldGood
<1>11. CASE \E c \in Codes : ToFail(w, c)
  <2>1. Alone(w) /\ run'[w].pc = "fail" /\ run'[w].att = run[w].att /\ Excused(w)'
    BY <1>11, ToFailAlone, Facts
  <2>. QED BY <1>1, <1>2, <1>5, <1>7, <2>1, HeldGood
<1>12. CASE /\ run' = [run EXCEPT ![w].pc = "commit", ![w].msg = rows[a].msg]
            /\ rows[a].msg # 0
  <2>1. ~BlockStops(a) BY <1>12 DEF BlockStops
  <2>2. rows' = rows BY <1>4, <2>1
  <2>3. rows[a].msg \in Nat BY <1>1, HeldFacts DEF Row
  <2>4. Alone(w) BY <1>12, <2>3, ToCommitAlone, Facts DEF Steps
  <2>. QED BY <1>1, <1>2, <1>5, <1>7, <1>12, <2>2, <2>4, CommitGood
<1>. QED BY <1>8, <1>9, <1>10, <1>11, <1>12

\* gmail_send_mark_provider preserves the invariant.
LEMMA MarkGood ==
  ASSUME IInv, NEW w \in Worker, NEW heard, Mark(w, heard)
  PROVE  Good
<1>. DEFINE a == run[w].att
<1>1. run[w].pc = "mark" /\ Holds(w) BY DEF Mark, Same, Holds
<1>2. /\ UNCHANGED <<made, fu, event, gap, account, outside, hour, accepted>>
      /\ rows' = [rows EXCEPT ![a] = MarkRow(a)]
      /\ \/ Delivered(w)
         \/ /\ To(w, "token") /\ rows[a].status = "reserved"
            /\ MarkRow(a).status = "provider_called"
  BY DEF Mark, Same
<1>3. a \in Attempt /\ rows[a] \in Row /\ RowAgrees(a) /\ accepted[a] \in Nat
  BY <1>1, HeldFacts
<1>4. /\ MarkRow(a) \in Row
      /\ Moves(rows[a], MarkRow(a)) \/ Requeues(rows[a], MarkRow(a))
      /\ rows[a].status = "none" => MarkRow(a) = rows[a]
  <2>1. NextMorning \in Nat
    <3>1. hour \in 0..(DayLen - 1) /\ DayLen \in Nat /\ OpenFrom \in Nat
      BY Facts, BoundsAssumption DEF Typed
    <3>. QED BY <3>1 DEF NextMorning
  <2>2. CASE rows[a].status # "reserved"
    <3>1. MarkRow(a) = rows[a] BY <2>2 DEF MarkRow
    <3>. QED BY <1>3, <3>1 DEF Moves
  <2>3. CASE rows[a].status = "reserved"
    <3>0. Coded(rows[a]) BY <1>3 DEF RowAgrees
    <3>1. \/ \E c \in Codes : MarkRow(a) = Failed(rows[a], c)
          \/ \E n \in Nat : MarkRow(a) = Queued(rows[a], n)
          \/ MarkRow(a) = [rows[a] EXCEPT !.status = "provider_called", !.age = 0, !.today = TRUE]
      BY <2>1, <2>3 DEF MarkRow, Codes
    <3>2. CASE \E c \in Codes : MarkRow(a) = Failed(rows[a], c)
      <4>1. PICK c \in Codes : MarkRow(a) = Failed(rows[a], c) BY <3>2
      <4>2. /\ MarkRow(a) \in Row /\ MarkRow(a).status = "failed"
            /\ MarkRow(a).msg = rows[a].msg /\ Coded(MarkRow(a))
        BY <1>3, <4>1, FailedRow
      <4>. QED BY <2>3, <4>2 DEF Moves
    <3>3. CASE \E n \in Nat : MarkRow(a) = Queued(rows[a], n)
      <4>1. PICK n \in Nat : MarkRow(a) = Queued(rows[a], n) BY <3>3
      <4>2. /\ MarkRow(a) \in Row /\ MarkRow(a).status = "queued"
            /\ MarkRow(a).msg = rows[a].msg /\ Coded(MarkRow(a))
        <5>1. rows[a].status # "failed" BY <2>3
        <5>2. /\ Queued(rows[a], n) \in Row /\ Queued(rows[a], n).status = "queued"
              /\ Queued(rows[a], n).msg = rows[a].msg /\ Coded(Queued(rows[a], n))
          BY <1>3, <3>0, <5>1, QueuedRow
        <5>. QED BY <4>1, <5>2
      <4>. QED BY <2>3, <4>2 DEF Requeues
    <3>4. CASE MarkRow(a) = [rows[a] EXCEPT !.status = "provider_called", !.age = 0, !.today = TRUE]
      <4>1. /\ MarkRow(a) \in Row
            /\ MarkRow(a).status = "provider_called" /\ MarkRow(a).msg = rows[a].msg
            /\ Coded(MarkRow(a))
        BY <1>3, <2>3, <3>0, <3>4, CalledRow
      <4>. QED BY <2>3, <4>1 DEF Moves
    <3>. QED BY <3>1, <3>2, <3>3, <3>4
  <2>. QED BY <2>2, <2>3
<1>. HIDE DEF a
<1>5. rows' \in Rows /\ rows'[a] = MarkRow(a) /\ \A b \in Attempt \ {a} : rows'[b] = rows[b]
  BY <1>2, <1>3, <1>4, Facts DEF Rows
<1>6. Quiet /\ Unmade'
  <2>1. ASSUME NEW b \in Attempt
        PROVE  /\ Moves(rows[b], rows'[b]) \/ Requeues(rows[b], rows'[b])
               /\ rows[b].status = "none" => rows'[b].status = "none"
    <3>1. CASE b = a BY <1>4, <1>5, <3>1
    <3>2. CASE b # a BY <1>5, <3>2, Facts
    <3>. QED BY <3>1, <3>2
  <2>. QED BY <1>2, <2>1, Facts DEF Quiet, Unmade
<1>7. \A b \in Attempt : \/ Steady(b)
                         \/ Holds(w) /\ run[w].att = b /\ rows'[b].msg = rows[b].msg
  <2>1. ASSUME NEW b \in Attempt, b # a PROVE Steady(b)
    BY <1>5, <2>1, Facts, MovesSteady
  <2>2. rows'[a].msg = rows[a].msg BY <1>4, <1>5 DEF Moves, Requeues
  <2>. QED BY <1>1, <2>1, <2>2 DEF a
<1>8. CASE Delivered(w)
  <2>1. Alone(w) /\ run'[w].pc \in {"idle", "claim"} BY <1>8, FreeAlone, Facts
  <2>2. Typed' BY <1>2, <1>5, <2>1, Facts, TypeStep DEF Alone, Typed
  <2>3. RunAgrees(w)' /\ ~Holds(w)' BY <2>1 DEF RunAgrees, Holds, Excused
  <2>. QED BY <1>6, <1>7, <2>1, <2>2, <2>3, QuietGood
<1>9. CASE /\ To(w, "token") /\ rows[a].status = "reserved"
           /\ MarkRow(a).status = "provider_called"
  <2>1. Alone(w) /\ run'[w].pc = "token" /\ run'[w].att = run[w].att
    BY <1>9, ToAlone, Facts DEF Steps
  <2>2. Typed' BY <1>2, <1>5, <2>1, Facts, TypeStep DEF Alone, Typed
  <2>3. accepted'[a] = 0 BY <1>2, <1>3, <1>9 DEF RowAgrees
  <2>4. run'[w].att = a /\ rows'[a].status = "provider_called" BY <1>5, <1>9, <2>1 DEF a
  <2>5. RunAgrees(w)' BY <1>3, <2>1, <2>3, <2>4 DEF RunAgrees, Holds, Excused
  <2>. QED BY <1>1, <1>6, <1>7, <2>1, <2>2, <2>5, QuietGood
<1>. QED BY <1>2, <1>8, <1>9

\* Fetching the access token preserves the invariant.
LEMMA TokenGood ==
  ASSUME IInv, NEW w \in Worker, Token(w)
  PROVE  Good
<1>1. run[w].pc = "token" /\ Holds(w) BY DEF Token, Holds
<1>2. /\ UNCHANGED <<rows, made, fu, event, gap, paused, blocked, outside, hour, accepted>>
      /\ standing' \in [User -> {"ok", "unpaid", "no_mailbox"}]
      /\ To(w, "arm") \/ \E c \in Codes : ToFail(w, c)
  <2>1. UNCHANGED <<rows, made, fu, event, gap, paused, blocked, outside, hour, accepted>>
    BY DEF Token, table
  <2>2. standing \in [User -> {"ok", "unpaid", "no_mailbox"}] BY Facts DEF Typed
  <2>3. \/ standing' = standing
        \/ standing' = [standing EXCEPT ![rows[run[w].att].user] = "no_mailbox"]
    BY DEF Token
  <2>4. To(w, "arm") \/ \E c \in Codes : ToFail(w, c) BY DEF Token, Codes
  <2>. QED BY <2>1, <2>2, <2>3, <2>4
<1>3. ASSUME Alone(w) PROVE Typed' /\ Unmade'
  BY <1>2, <1>3, Facts DEF Typed, Alone, outside, Unmade
<1>4. \A b \in Attempt : Moves(rows[b], rows'[b]) BY <1>2, Facts
<1>5. CASE \E c \in Codes : ToFail(w, c)
  <2>1. Alone(w) /\ run'[w].pc = "fail" /\ run'[w].att = run[w].att /\ Excused(w)'
    BY <1>5, ToFailAlone, Facts
  <2>. QED BY <1>1, <1>2, <1>3, <1>4, <2>1, HeldGood
<1>6. CASE To(w, "arm")
  <2>1. Alone(w) /\ run'[w].pc = "arm" /\ run'[w].att = run[w].att
    BY <1>6, ToAlone, Facts DEF Steps
  <2>2. RunAgrees(w)' BY <1>1, <1>2, <2>1, HeldFacts DEF RunAgrees, Holds, Excused
  <2>. QED BY <1>1, <1>2, <1>3, <1>4, <2>1, <2>2, MovesSteady, QuietGood DEF Quiet
<1>. QED BY <1>2, <1>5, <1>6

\* gmail_send_arm_provider preserves the invariant.
LEMMA ArmGood ==
  ASSUME IInv, NEW w \in Worker, NEW heard, Arm(w, heard)
  PROVE  Good
<1>. DEFINE a == run[w].att
<1>1. run[w].pc = "arm" /\ Holds(w) BY DEF Arm, Same, Holds
<1>2. UNCHANGED <<made, event, gap, account, outside, hour, accepted>> BY DEF Arm, Same
<1>3. a \in Attempt /\ RunAgrees(w) BY <1>1, HeldFacts
<1>4. /\ \/ rows' = rows
         \/ /\ rows[a].status \in Waiting \cup {"provider_called"}
            /\ \E c \in Codes : rows' = [rows EXCEPT ![a] = Failed(rows[a], c)]
      /\ fu' = BlockFollowUps(a) \/ fu' = fu
      /\ \/ Delivered(w) \/ ToFail(w, "unknown")
         \/ To(w, "call") /\ rows' = rows
         \/ /\ run' = [run EXCEPT ![w].pc = "commit", ![w].msg = rows[a].msg]
            /\ rows' = rows /\ rows[a].msg # 0
  BY DEF Arm, Codes, Waiting
<1>5. /\ rows' \in Rows /\ \A b \in Attempt : Moves(rows[b], rows'[b])
      /\ Unmade'
  <2>1. CASE rows' = rows BY <1>2, <2>1, Facts DEF Unmade
  <2>2. CASE /\ rows[a].status \in Waiting \cup {"provider_called"}
             /\ \E c \in Codes : rows' = [rows EXCEPT ![a] = Failed(rows[a], c)]
    BY <1>2, <2>2, FailOne, Facts DEF Unmade
  <2>. QED BY <1>4, <2>1, <2>2
<1>6. fu' \in [Slot -> FollowUp] BY <1>4, Facts, BlockFollowUpsType DEF Typed
<1>7. ASSUME Alone(w) PROVE Typed'
  BY <1>2, <1>5, <1>6, <1>7, Facts, TypeStep DEF Alone, Typed
<1>8. CASE Delivered(w)
  BY <1>2, <1>5, <1>7, <1>8, FreeAlone, Facts, FreeGood
<1>9. CASE ToFail(w, "unknown")
  <2>1. Alone(w) /\ run'[w].pc = "fail" /\ run'[w].att = run[w].att /\ Excused(w)'
    BY <1>9, ToFailAlone, Facts
  <2>. QED BY <1>1, <1>2, <1>5, <1>7, <2>1, HeldGood
<1>10. CASE To(w, "call") /\ rows' = rows
  <2>1. Alone(w) /\ run'[w].pc = "call" /\ run'[w].att = run[w].att
    BY <1>10, ToAlone, Facts DEF Steps
  <2>2. RunAgrees(w)' BY <1>1, <1>2, <1>3, <1>10, <2>1 DEF RunAgrees, Holds, Excused
  <2>. QED BY <1>1, <1>2, <1>5, <1>7, <2>1, <2>2, MovesSteady, QuietGood DEF Quiet
<1>11. CASE /\ run' = [run EXCEPT ![w].pc = "commit", ![w].msg = rows[a].msg]
            /\ rows' = rows /\ rows[a].msg # 0
  <2>1. rows[a].msg \in Nat BY <1>1, HeldFacts DEF Row
  <2>2. Alone(w) BY <1>11, <2>1, ToCommitAlone, Facts DEF Steps
  <2>. QED BY <1>1, <1>2, <1>5, <1>7, <1>11, <2>2, CommitGood
<1>. QED BY <1>4, <1>8, <1>9, <1>10, <1>11

\* A run that gives up before Gmail has accepted anything preserves the invariant.
LEMMA GivenUpGood ==
  ASSUME IInv, NEW w \in Worker, ArmUnsent(w) \/ CallRefused(w)
  PROVE  Good
<1>1. Holds(w) BY DEF ArmUnsent, CallRefused, Same, Holds
<1>2. UNCHANGED <<rows, made, fu, event, gap, account, outside, hour, accepted>>
  BY DEF ArmUnsent, CallRefused, Same, table
<1>3. \E c \in {"unknown"} \cup Codes : ToFail(w, c)
  BY DEF ArmUnsent, CallRefused, Codes
<1>4. Alone(w) /\ run'[w].pc = "fail" /\ run'[w].att = run[w].att /\ Excused(w)'
  BY <1>3, ToFailAlone, Facts
<1>5. Typed' BY <1>2, <1>4, Facts, TypeStep DEF Alone, Typed
<1>. QED BY <1>1, <1>2, <1>4, <1>5, Facts, HeldGood DEF Unmade

\* Gmail accepts the message: the run that armed the attempt holds it alone.
LEMMA CallAcceptedGood ==
  ASSUME IInv, NEW w \in Worker, NEW heard, CallAccepted(w, heard)
  PROVE  Good
<1>. DEFINE a == run[w].att
<1>1. run[w].pc = "call" /\ Holds(w) BY DEF CallAccepted, Same, Holds
<1>2. /\ UNCHANGED <<rows, made, fu, event, gap, account, outside, hour>>
      /\ accepted' = [accepted EXCEPT ![a] = @ + 1]
  BY DEF CallAccepted, Same, table
<1>3. a \in Attempt /\ accepted[a] = 0 /\ rows[a].status \in {"provider_called", "failed"}
  BY <1>1, HeldFacts DEF RunAgrees
<1>4. accepted' \in [Attempt -> Nat] /\ accepted'[a] = 1
      /\ \A b \in Attempt \ {a} : accepted'[b] = accepted[b]
  BY <1>2, <1>3, Facts DEF Typed
<1>5. /\ Alone(w) /\ run'[w].att = a
      /\ \/ run'[w].pc = "remember" /\ run'[w].msg = 1
         \/ run'[w].pc = "fail" /\ Excused(w)'
  <2>1. CASE run' = [run EXCEPT ![w].pc = "remember", ![w].msg = accepted[a] + 1]
    <3>1. accepted[a] + 1 = 1 BY <1>3
    <3>2. run' = [run EXCEPT ![w].pc = "remember", ![w].msg = 1] BY <2>1, <3>1
    <3>3. "remember" \in Steps /\ 1 \in Nat BY DEF Steps
    <3>. QED BY <3>2, <3>3, ToCommitAlone, Facts
  <2>2. CASE ToFail(w, "unknown") BY <2>2, ToFailAlone, Facts
  <2>. QED BY <2>1, <2>2 DEF CallAccepted
<1>6. Accepts BY <1>2, <1>3 DEF Accepts
<1>7. Typed' BY <1>2, <1>4, <1>5, Facts, TypeStep DEF Alone, Typed
<1>8. RowsAgree' BY <1>2, <1>6, <1>7, Facts, EvolvesRowsAgree DEF Evolves, Unmade
<1>. HIDE DEF a
<1>9. RunAgrees(w)' /\ ~Holds(w)'
  <2>1. Excused(w)'
    <3>1. run'[w].pc = "remember" => run'[w].pc # "fail" OBVIOUS
    <3>. QED BY <1>5, <3>1 DEF Excused
  <2>2. ~Holds(w)' BY <1>4, <1>5 DEF Holds
  <2>. QED BY <1>3, <1>4, <1>5, <2>1, <2>2 DEF RunAgrees
<1>10. ASSUME NEW v \in Worker \ {w}
       PROVE  RunAgrees(v)' /\ (Holds(v)' => Holds(v)) /\ run'[v] = run[v]
  <2>1. run'[v] = run[v] /\ RunAgrees(v) BY <1>5 DEF Alone, IInv, RunsAgree
  <2>2. Holds(v) => run[v].att # a BY <1>1 DEF IInv, OneHolder, a
  <2>3. CASE run[v].att = a
    <3>1. ~Holds(v) BY <2>2, <2>3
    <3>2. run[v].pc \in {"fail", "idle", "claim", "remember", "commit"}
          /\ (run[v].pc = "fail" => accepted[a] # 0)
      <4>1. run[v] \in Run BY Facts DEF Typed
      <4>2. run[v].pc \in Steps BY <4>1 DEF Run
      <4>. QED BY <2>3, <3>1, <4>2 DEF Holds, Steps
    <3>3. run[v].pc \in {"idle", "claim"}
      BY <1>3, <2>1, <2>3, <3>2 DEF RunAgrees
    <3>. QED BY <2>1, <3>3 DEF RunAgrees, Holds, Excused
  <2>4. CASE run[v].att # a
    <3>1. run[v].att \in Attempt => accepted'[run[v].att] = accepted[run[v].att]
      BY <1>4, <2>4
    <3>2. Holds(v)' => Holds(v) BY <2>1, <3>1 DEF Holds, RunAgrees
    <3>. QED BY <1>2, <2>1, <3>1, <3>2 DEF RunAgrees, Excused
  <2>. QED BY <2>3, <2>4
<1>11. RunsAgree' BY <1>9, <1>10 DEF RunsAgree
<1>12. OneHolder' BY <1>9, <1>10 DEF OneHolder, IInv
<1>. QED BY <1>6, <1>7, <1>8, <1>11, <1>12 DEF Good, IInv, Evolves

\* gmail_send_remember_provider preserves the invariant.
LEMMA RememberGood ==
  ASSUME IInv, NEW w \in Worker, NEW heard, Remember(w, heard)
  PROVE  Good
<1>. DEFINE a == run[w].att
<1>1. run[w].pc = "remember" BY DEF Remember, Same
<1>2. UNCHANGED <<made, fu, event, gap, account, outside, hour, accepted>>
  BY DEF Remember, Same
<1>3. /\ a \in Attempt /\ rows[a] \in Row /\ RowAgrees(a) /\ run[w].msg = 1
      /\ accepted[a] = 1 /\ rows \in Rows
  BY <1>1, HeldFacts, Facts DEF RunAgrees
<1>4. \/ /\ rows' = rows
         /\ \/ To(w, "commit") /\ rows[a].status = "sent"
            \/ ToFail(w, "unknown")
      \/ /\ rows[a].status \in InFlight /\ rows[a].msg \in {0, 1}
         /\ rows' = [rows EXCEPT ![a] = [rows[a] EXCEPT !.msg = 1, !.age = 0]]
         /\ To(w, "commit") \/ ToFail(w, "unknown")
  <2>1. CASE ~Stores(rows[a], 1) BY <1>3, <2>1 DEF Remember
  <2>2. CASE Stores(rows[a], 1)
    <3>1. rows' = [rows EXCEPT ![a].msg = 1, ![a].age = 0] BY <1>3, <2>2 DEF Remember
    <3>2. rows' = [rows EXCEPT ![a] = [rows[a] EXCEPT !.msg = 1, !.age = 0]]
      BY <1>3, <3>1 DEF Rows
    <3>. QED BY <1>3, <2>2, <3>2 DEF Remember, Stores
  <2>. QED BY <2>1, <2>2
<1>. DEFINE r == [rows[a] EXCEPT !.msg = 1, !.age = 0]
<1>5. r \in Row /\ r.msg = 1 /\ r.status = rows[a].status /\ r.code = rows[a].code
  BY <1>3 DEF Row
<1>. HIDE DEF r
<1>6. /\ rows' \in Rows /\ Quiet /\ Unmade' /\ \A b \in Attempt : Steady(b)
      /\ To(w, "commit") => rows'[a].msg = 1
  <2>1. CASE rows' = rows /\ ((To(w, "commit") /\ rows[a].status = "sent") \/ ToFail(w, "unknown"))
    <3>1. \A b \in Attempt : Moves(rows[b], rows'[b]) BY <2>1, Facts
    <3>2. ~(To(w, "commit") /\ ToFail(w, "unknown"))
      <4>1. To(w, "commit") => run'[w].pc = "commit" BY ToAlone, Facts DEF Steps
      <4>2. ToFail(w, "unknown") => run'[w].pc = "fail" BY ToFailAlone, Facts
      <4>. QED BY <4>1, <4>2
    <3>3. rows[a].status = "sent" => rows[a].msg = 1
      BY <1>3 DEF RowAgrees
    <3>. QED BY <1>2, <2>1, <3>1, <3>2, <3>3, Facts, MovesSteady DEF Quiet, Unmade
  <2>2. CASE /\ rows[a].status \in InFlight /\ rows[a].msg \in {0, 1}
             /\ rows' = [rows EXCEPT ![a] = r]
    <3>1. rows' \in Rows /\ rows'[a] = r /\ \A b \in Attempt \ {a} : rows'[b] = rows[b]
      BY <1>3, <1>5, <2>2 DEF Rows
    <3>2. ASSUME NEW b \in Attempt
          PROVE  /\ \/ Moves(rows[b], rows'[b])
                    \/ StoresId(rows[b], rows'[b]) /\ rows'[b].msg = 1 /\ accepted[b] = 1
                 /\ Steady(b) /\ rows'[b].status = rows[b].status
      <4>1. CASE b = a
        <5>1. rows'[b] = r /\ rows[b].status = r.status /\ rows[b].code = r.code BY <1>5, <3>1, <4>1
        <5>. QED BY <1>3, <1>5, <2>2, <4>1, <5>1 DEF StoresId, Steady
      <4>2. CASE b # a BY <3>1, <4>2, Facts, MovesSteady
      <4>. QED BY <4>1, <4>2
    <3>. QED BY <1>2, <1>5, <3>1, <3>2, Facts DEF Quiet, Unmade
  <2>. QED BY <1>4, <2>1, <2>2 DEF r
<1>7. ASSUME Alone(w) PROVE Typed'
  BY <1>2, <1>6, <1>7, Facts, TypeStep DEF Alone, Typed
<1>8. CASE To(w, "commit")
  <2>1. Alone(w) /\ run'[w].pc = "commit" /\ run'[w].att = a /\ run'[w].msg = 1
    BY <1>3, <1>8, ToAlone, Facts DEF Steps
  <2>. HIDE DEF a
  <2>2. RunAgrees(w)' /\ ~Holds(w)' BY <1>2, <1>3, <1>6, <1>8, <2>1 DEF RunAgrees, Holds, Excused
  <2>. QED BY <1>6, <1>7, <2>1, <2>2, QuietGood
<1>9. CASE ToFail(w, "unknown")
  <2>1. Alone(w) /\ run'[w].pc = "fail" /\ run'[w].att = run[w].att /\ Excused(w)'
    BY <1>9, ToFailAlone, Facts
  <2>. QED BY <1>1, <1>6, <1>7, <2>1, LateGood
<1>. QED BY <1>4, <1>8, <1>9

\* gmail_send_commit preserves the invariant.
LEMMA CommitStepGood ==
  ASSUME IInv, NEW w \in Worker, NEW heard, Commit(w, heard)
  PROVE  Good
<1>. DEFINE a == run[w].att
<1>1. run[w].pc = "commit" BY DEF Commit, Same
<1>2. UNCHANGED <<made, gap, account, outside, hour, accepted>> BY DEF Commit, Same
<1>3. /\ a \in Attempt /\ rows[a] \in Row /\ RowAgrees(a) /\ run[w].msg = 1
      /\ accepted[a] = 1 /\ rows[a].msg = 1 /\ rows \in Rows
  BY <1>1, HeldFacts, Facts DEF RunAgrees
<1>4. /\ Delivered(w) \/ ToFail(w, "unknown")
      /\ \/ UNCHANGED <<rows, event, fu>>
         \/ /\ rows[a].status \in InFlight
            /\ rows' = [rows EXCEPT ![a].status = "sent", ![a].age = 0]
            /\ event' = [event EXCEPT ![a] = 1] /\ fu' = Closed(a)
  <2>1. Delivered(w) \/ ToFail(w, "unknown") BY DEF Commit
  <2>2. CASE Stores(rows[a], 1) BY <1>3, <2>1, <2>2 DEF Commit, Stores
  <2>3. CASE ~Stores(rows[a], 1) BY <1>3, <2>1, <2>3 DEF Commit
  <2>. QED BY <2>2, <2>3
<1>5. ASSUME Alone(w), UNCHANGED <<rows, event, fu>> PROVE Typed'
  BY <1>2, <1>5, Facts, TypeStep DEF Alone, Typed
<1>6. CASE UNCHANGED <<rows, event, fu>> /\ Delivered(w)
  BY <1>2, <1>5, <1>6, FreeAlone, FreeGood, Facts DEF Unmade
<1>7. CASE UNCHANGED <<rows, event, fu>> /\ ToFail(w, "unknown")
  <2>1. Alone(w) /\ run'[w].pc = "fail" /\ run'[w].att = run[w].att /\ Excused(w)'
    BY <1>7, ToFailAlone, Facts
  <2>2. Quiet /\ Unmade' /\ \A b \in Attempt : Steady(b)
    BY <1>2, <1>7, Facts, MovesSteady DEF Quiet, Unmade
  <2>. QED BY <1>1, <1>5, <1>7, <2>1, <2>2, LateGood
<1>8. CASE /\ rows[a].status \in InFlight
           /\ rows' = [rows EXCEPT ![a].status = "sent", ![a].age = 0]
           /\ event' = [event EXCEPT ![a] = 1] /\ fu' = Closed(a)
  <2>. DEFINE r == [rows[a] EXCEPT !.status = "sent", !.age = 0]
  <2>1. r \in Row /\ r.status = "sent" /\ r.msg = 1 BY <1>3, StatusRow DEF Statuses
  <2>2. rows' = [rows EXCEPT ![a] = r] BY <1>3, <1>8 DEF Rows
  <2>. HIDE DEF r
  <2>3. rows' \in Rows /\ rows'[a] = r /\ \A b \in Attempt \ {a} : rows'[b] = rows[b]
    BY <1>3, <2>1, <2>2 DEF Rows
  <2>4. \A b \in Attempt : Steady(b) /\ (rows[b].status = "none" => rows'[b].status = "none")
    <3>1. ASSUME NEW b \in Attempt, b # a PROVE Steady(b) /\ rows'[b] = rows[b]
      BY <2>3, <3>1, Facts, MovesSteady
    <3>2. Steady(a) BY <1>3, <2>1, <2>3 DEF Steady
    <3>3. rows[a].status # "none" BY <1>8 DEF InFlight
    <3>. QED BY <3>1, <3>2, <3>3
  <2>5. /\ Alone(w)
        /\ \/ run'[w].pc \in {"idle", "claim"}
           \/ run'[w].pc = "fail" /\ run'[w].att = a /\ Excused(w)'
    BY <1>4, FreeAlone, ToFailAlone, Facts
  <2>6. Typed'
    <3>1. event' \in [Attempt -> Nat] BY <1>8, Facts DEF Typed
    <3>2. fu' \in [Slot -> FollowUp] BY <1>8, ClosedType, Facts
    <3>. QED BY <1>2, <2>3, <2>5, <3>1, <3>2, Facts, TypeStep DEF Alone, Typed
  <2>7. Commits BY <1>2, <1>3, <1>8 DEF Commits
  <2>8. Unmade' BY <1>2, <2>4, Facts DEF Unmade
  <2>9. RowsAgree' BY <2>6, <2>7, <2>8, EvolvesRowsAgree DEF Evolves
  <2>. HIDE DEF a
  <2>10. RunAgrees(w)' /\ ~Holds(w)'
    <3>1. Excused(w)'
      <4>1. run'[w].pc \in {"idle", "claim"} => run'[w].pc # "fail" OBVIOUS
      <4>. QED BY <2>5, <4>1 DEF Excused
    <3>2. ~Holds(w)' BY <1>2, <1>3, <2>5 DEF Holds
    <3>. QED BY <1>2, <1>3, <2>5, <3>1, <3>2 DEF RunAgrees
  <2>11. RunsAgree' /\ OneHolder' BY <1>2, <2>4, <2>5, <2>10, RunStep
  <2>. QED BY <2>6, <2>7, <2>9, <2>11 DEF Good, IInv, Evolves
<1>. QED BY <1>4, <1>6, <1>7, <1>8

\* A call that never reached the database preserves the invariant.
LEMMA LostGood ==
  ASSUME IInv, NEW w \in Worker, RememberUnsent(w) \/ CommitUnsent(w)
  PROVE  Good
<1>1. run[w].pc \in {"remember", "commit"} /\ ToFail(w, "unknown")
  BY DEF RememberUnsent, CommitUnsent, Same
<1>2. UNCHANGED <<rows, made, fu, event, gap, account, outside, hour, accepted>>
  BY DEF RememberUnsent, CommitUnsent, Same, table
<1>3. Alone(w) /\ run'[w].pc = "fail" /\ run'[w].att = run[w].att /\ Excused(w)'
  BY <1>1, ToFailAlone, Facts
<1>4. Quiet /\ Unmade' /\ \A b \in Attempt : Steady(b)
  BY <1>2, Facts, MovesSteady DEF Quiet, Unmade
<1>5. Typed' BY <1>2, <1>3, Facts, TypeStep DEF Alone, Typed
<1>. QED BY <1>1, <1>3, <1>4, <1>5, LateGood

\* gmail_send_fail moves a row, or gives a call up.
LEMMA FailRowMoves ==
  ASSUME NEW r \in Row, NEW c \in {"unknown"} \cup Codes, NEW s, s = FailRow(r, c)
  PROVE  /\ s \in Row /\ s.msg = r.msg
         /\ Moves(r, s) \/ GivesUp(r, s)
         /\ r.status = "none" => s = r
<1>1. r.status \in Statuses BY DEF Row
<1>2. \/ s = r
      \/ /\ r.status = "provider_called"
         /\ s = [r EXCEPT !.status = "unknown", !.age = 0]
      \/ /\ r.status \in Waiting \cup {"provider_called"}
         /\ c \in Codes /\ s = Failed(r, c)
  BY <1>1 DEF FailRow, Waiting, Statuses
<1>3. CASE s = r BY <1>3 DEF Moves
<1>4. CASE r.status = "provider_called" /\ s = [r EXCEPT !.status = "unknown", !.age = 0]
  <2>1. "unknown" \in Statuses BY DEF Statuses
  <2>2. /\ [r EXCEPT !.status = "unknown", !.age = 0] \in Row
        /\ [r EXCEPT !.status = "unknown", !.age = 0].status = "unknown"
        /\ [r EXCEPT !.status = "unknown", !.age = 0].msg = r.msg
        /\ Coded(r) => Coded([r EXCEPT !.status = "unknown", !.age = 0])
    BY <1>4, <2>1, StatusRow
  <2>. QED BY <1>4, <2>2 DEF GivesUp
<1>5. CASE /\ r.status \in Waiting \cup {"provider_called"}
           /\ c \in Codes /\ s = Failed(r, c)
  <2>1. c \in Codes BY <1>5
  <2>2. /\ Failed(r, c) \in Row /\ Failed(r, c).status = "failed"
        /\ Failed(r, c).msg = r.msg /\ Coded(Failed(r, c))
    BY <2>1, FailedRow
  <2>3. Moves(r, s) BY <1>5, <2>2 DEF Moves, Waiting
  <2>. QED BY <1>5, <2>2, <2>3 DEF Waiting
<1>. QED BY <1>2, <1>3, <1>4, <1>5

\* gmail_send_fail preserves the invariant.
LEMMA FailGood ==
  ASSUME IInv, NEW w \in Worker, Fail(w)
  PROVE  Good
<1>. DEFINE a == run[w].att
            s == FailRow(rows[a], run[w].code)
<1>1. run[w].pc = "fail" BY DEF Fail, Same
<1>2. /\ UNCHANGED <<made, fu, event, gap, account, outside, hour, accepted>>
      /\ rows' = rows \/ rows' = [rows EXCEPT ![a] = s]
      /\ Delivered(w)
  BY DEF Fail, Same
<1>3. Alone(w) /\ run'[w].pc \in {"idle", "claim"} BY <1>2, FreeAlone, Facts
<1>4. a \in Attempt /\ rows[a] \in Row /\ rows \in Rows /\ run[w].code \in {"unknown"} \cup Codes
  <2>1. run[w] \in Run BY Facts DEF Typed
  <2>. QED BY <1>1, <2>1, HeldFacts, Facts DEF Run, RunAgrees, Excused
<1>5. /\ s \in Row /\ s.msg = rows[a].msg
      /\ Moves(rows[a], s) \/ GivesUp(rows[a], s)
      /\ rows[a].status = "none" => s = rows[a]
  BY <1>4, FailRowMoves
<1>. HIDE DEF s
<1>6. /\ rows' \in Rows
      /\ \A b \in Attempt : \/ rows'[b] = rows[b]
                            \/ b = a /\ rows'[b] = s
  BY <1>2, <1>4, <1>5 DEF Rows
<1>7. Quiet /\ Unmade'
  <2>1. ASSUME NEW b \in Attempt
        PROVE  /\ Moves(rows[b], rows'[b]) \/ GivesUp(rows[b], rows'[b])
               /\ rows[b].status = "none" => rows'[b].status = "none"
    BY <1>5, <1>6, Facts
  <2>. QED BY <1>2, <2>1, Facts DEF Quiet, Unmade
<1>8. Typed' BY <1>2, <1>3, <1>6, Facts, TypeStep DEF Alone, Typed
<1>9. RunAgrees(w)' /\ ~Holds(w)' BY <1>3 DEF RunAgrees, Holds, Excused
<1>10. ASSUME NEW b \in Attempt
       PROVE  Steady(b) \/ (Holds(w) /\ run[w].att = b /\ rows'[b].msg = rows[b].msg)
  <2>1. CASE rows'[b] = rows[b] BY <2>1, Facts, MovesSteady
  <2>2. CASE b = a /\ rows'[b] = s
    <3>1. CASE accepted[a] = 0 BY <1>1, <1>5, <2>2, <3>1 DEF Holds
    <3>2. CASE accepted[a] # 0
      <4>1. rows[b].status \notin {"none", "queued"} => s.status \notin {"none", "queued"}
        BY <1>5, <2>2 DEF Moves, GivesUp, Waiting
      <4>. QED BY <1>5, <2>2, <3>2, <4>1 DEF Steady
    <3>. QED BY <3>1, <3>2
  <2>. QED BY <1>6, <2>1, <2>2
<1>. QED BY <1>3, <1>7, <1>8, <1>9, <1>10, QuietGood

-----------------------------------------------------------------------------
\* The theorems

\* The queue starts in the invariant.
LEMMA InitInv == Init => IInv
<1>. SUFFICES ASSUME Init PROVE IInv
  OBVIOUS
<1>1. PICK n \in 0..MaxRows : DOMAIN SentBefore = 1..n BY SentBeforeAssumption
<1>2. n \in Nat /\ MaxRows \in Nat BY <1>1, BoundsAssumption
<1>3. made = n
  <2>1. Cardinality(1..n) = n BY <1>2, FS_Interval
  <2>. QED BY <1>1, <2>1 DEF Init
<1>4. NoRow \in Row /\ NoRow.status = "none" /\ NoRow.msg = 0 /\ Coded(NoRow)
  BY DEF NoRow, Row, Statuses, Coded
<1>5. ASSUME NEW a \in DOMAIN SentBefore
      PROVE  /\ SentBefore[a] \in Row /\ SentBefore[a].status = "sent"
             /\ SentBefore[a].msg = 1 /\ Coded(SentBefore[a])
  <2>1. PICK u \in User, h \in Hotel, r \in Recipient : SentBefore[a] = SentPitch(u, h, r)
    BY <1>5, SentBeforeAssumption
  <2>. DEFINE x == [NoRow EXCEPT !.user = u, !.hotel = h, !.recipient = r,
                                 !.status = "sent", !.msg = 1]
  <2>3. x \in Row BY <1>4 DEF Row, Statuses
  <2>4. x.status = "sent" /\ x.msg = 1 /\ x.code = "" BY DEF NoRow
  <2>5. SentBefore[a] = x BY <2>1 DEF SentPitch
  <2>. QED BY <2>3, <2>4, <2>5 DEF Coded
<1>6. /\ rows = [a \in Attempt |-> IF a \in DOMAIN SentBefore THEN SentBefore[a] ELSE NoRow]
      /\ event = [a \in Attempt |-> IF a \in DOMAIN SentBefore THEN 1 ELSE 0]
      /\ accepted = event
  BY DEF Init
<1>7. Typed
  <2>1. NoFollowUp \in FollowUp BY DEF NoFollowUp, FollowUp
  <2>2. IdleRun \in Run BY DEF IdleRun, Run, Steps
  <2>3. OpenFrom \in 0..(DayLen - 1) BY BoundsAssumption
  <2>4. rows \in [Attempt -> Row] BY <1>4, <1>5, <1>6
  <2>. QED BY <1>2, <1>3, <1>6, <2>1, <2>2, <2>3, <2>4 DEF Init, Typed
<1>8. RowsAgree
  <2>1. ASSUME NEW a \in Attempt PROVE RowAgrees(a)
    <3>1. a \in Nat /\ a >= 1 BY BoundsAssumption DEF Attempt
    <3>2. a \in DOMAIN SentBefore <=> ~(a > made) BY <1>1, <1>2, <1>3, <3>1
    <3>3. CASE a \in DOMAIN SentBefore
      <4>1. rows[a] = SentBefore[a] /\ event[a] = 1 /\ accepted[a] = 1 BY <1>6, <3>3
      <4>. QED BY <1>5, <3>2, <3>3, <4>1 DEF RowAgrees
    <3>4. CASE a \notin DOMAIN SentBefore
      <4>1. rows[a] = NoRow /\ event[a] = 0 /\ accepted[a] = 0 BY <1>6, <3>4
      <4>. QED BY <1>4, <4>1 DEF RowAgrees
    <3>. QED BY <3>3, <3>4
  <2>. QED BY <2>1 DEF RowsAgree
<1>9. RunsAgree /\ OneHolder
  <2>1. \A w \in Worker : run[w].pc = "idle" BY DEF Init, IdleRun
  <2>. QED BY <2>1 DEF RunsAgree, RunAgrees, OneHolder, Holds, Excused
<1>. QED BY <1>7, <1>8, <1>9 DEF IInv

\* Every step is good; a stuttering step is quiet.
LEMMA NextGood ==
  ASSUME IInv, [Next]_vars
  PROVE  Good
<1>1. CASE Creator
  <2>1. CASE \E u \in User, k \in Key, q \in Request : Reserve(u, k, q) BY <2>1, ReserveGood
  <2>2. CASE \E p \in Attempt : ScheduleFollowUp(p) BY <2>2, ScheduleGood
  <2>3. CASE \E p \in Attempt, s \in {1, 2} : CancelFollowUp(p, s) BY <2>3, CancelGood
  <2>. QED BY <1>1, <2>1, <2>2, <2>3 DEF Creator
<1>2. CASE Settles BY <1>2, SettleGood DEF Settles
<1>3. CASE Environment BY <1>3, EnvironmentGood
<1>4. CASE Tick BY <1>4, TickGood
<1>5. ASSUME NEW w \in Worker, StartRun(w) \/ Progress(w) \/ Killed(w) PROVE Good
  <2>1. CASE StartRun(w) \/ EndRun(w) \/ Killed(w) \/ MarkUnsent(w)
    BY <2>1, StartEndKilledGood
  <2>2. CASE ClaimNothing(w) BY <2>2, ClaimNothingGood
  <2>3. CASE Gate(w) BY <2>3, GateGood
  <2>4. CASE Token(w) BY <2>4, TokenGood
  <2>5. CASE CallRefused(w) \/ ArmUnsent(w) BY <2>5, GivenUpGood
  <2>6. CASE Fail(w) BY <2>6, FailGood
  <2>7. CASE RememberUnsent(w) \/ CommitUnsent(w) BY <2>7, LostGood
  <2>8. ASSUME NEW heard \in BOOLEAN, Answered(w, heard) PROVE Good
    <3>1. CASE ClaimCommit(w, heard) BY <3>1, ClaimCommitGood
    <3>2. CASE ClaimSend(w, heard) BY <3>2, ClaimSendGood
    <3>3. CASE Mark(w, heard) BY <3>3, MarkGood
    <3>4. CASE Arm(w, heard) BY <3>4, ArmGood
    <3>5. CASE CallAccepted(w, heard) BY <3>5, CallAcceptedGood
    <3>6. CASE Remember(w, heard) BY <3>6, RememberGood
    <3>7. CASE Commit(w, heard) BY <3>7, CommitStepGood
    <3>. QED BY <2>8, <3>1, <3>2, <3>3, <3>4, <3>5, <3>6, <3>7 DEF Answered, Claims
  <2>. QED BY <1>5, <2>1, <2>2, <2>3, <2>4, <2>5, <2>6, <2>7, <2>8 DEF Progress, Unsent
<1>6. CASE UNCHANGED vars
  <2>1. UNCHANGED <<rows, made, fu, event, gap, paused, blocked, standing, halted, valid,
                    hour, run, accepted>>
    BY <1>6 DEF vars
  <2>2. Typed' /\ Unmade' BY <2>1, Facts DEF Typed, Unmade
  <2>. QED BY <2>1, <2>2, Facts, MovesGood
<1>. QED BY <1>1, <1>2, <1>3, <1>4, <1>5, <1>6 DEF Next

\* The invariant that all theorems follow from.
THEOREM InvariantHolds == Spec => []IInv
<1>1. IInv /\ [Next]_vars => IInv' BY NextGood DEF Good
<1>. QED BY InitInv, <1>1, PTL DEF Spec

\* Every table, account and run holds values of its type, always.
THEOREM TypeCorrect == Spec => []TypeOK
<1>1. IInv => TypeOK BY DEF IInv, RowsAgree, RowAgrees, TypeOK
<1>. QED BY <1>1, InvariantHolds, PTL

\* Gmail accepts at most one message for an attempt.
THEOREM CallsOnce == Spec => []CalledOnce
<1>1. IInv => CalledOnce BY DEF IInv, RowsAgree, RowAgrees, CalledOnce
<1>. QED BY <1>1, InvariantHolds, PTL

\* A message in Gmail never belongs to a row that is still waiting.
THEOREM RecordsFirst == Spec => []RecordedBeforeCall
<1>1. IInv => RecordedBeforeCall
  <2>1. ASSUME IInv, NEW a \in Attempt, accepted[a] > 0
        PROVE  rows[a].status \notin {"none", "queued", "reserved"}
    <3>1. accepted[a] # 0 BY <2>1, Facts DEF Typed
    <3>. QED BY <2>1, <3>1 DEF IInv, RowsAgree, RowAgrees
  <2>. QED BY <2>1 DEF RecordedBeforeCall
<1>. QED BY <1>1, InvariantHolds, PTL

\* A row is sent exactly when its event holds the id of its own accepted message.
THEOREM SentIsTrue == Spec => []SentIsAccepted
<1>1. IInv => SentIsAccepted
  BY DEF IInv, RowsAgree, RowAgrees, SentIsAccepted
<1>. QED BY <1>1, InvariantHolds, PTL

\* Two runs never handle one attempt between its mark and the call.
THEOREM RunsAreAlone == Spec => []OneRunPerCall
<1>1. IInv => OneRunPerCall BY DEF IInv, OneHolder, Holds, OneRunPerCall
<1>. QED BY <1>1, InvariantHolds, PTL

\* What a creator has been told stays true.
THEOREM OutcomesStay == Spec => OutcomesStick
<1>. DEFINE Sticks(a) ==
       /\ rows[a].status = "sent" => rows'[a].status = "sent" /\ event'[a] = event[a]
       /\ rows[a].status = "failed" => rows'[a].status = "failed" /\ rows'[a].code = rows[a].code
       /\ rows[a].status = "unknown" => rows'[a].status \in {"unknown", "sent"}
       /\ rows[a].status = "provider_called" => rows'[a].status \notin Waiting
       /\ rows[a].msg # 0 => rows'[a].msg = rows[a].msg
<1>1. ASSUME IInv, [Next]_vars, NEW a \in Attempt PROVE Sticks(a)
  <2>1. Good BY <1>1, NextGood
  <2>2. RowAgrees(a) /\ rows[a] \in Row /\ event[a] \in Nat BY <1>1, Facts DEF IInv, RowsAgree, Typed, Rows
  <2>3. CASE Quiet
    <3>1. event'[a] = event[a] BY <2>3 DEF Quiet
    <3>2. CASE Moves(rows[a], rows'[a]) BY <3>1, <3>2 DEF Moves, Waiting
    <3>3. CASE Requeues(rows[a], rows'[a]) BY <3>1, <3>3 DEF Requeues
    <3>4. CASE GivesUp(rows[a], rows'[a]) BY <3>1, <3>4 DEF GivesUp, Waiting
    <3>5. CASE StoresId(rows[a], rows'[a]) BY <3>1, <3>5 DEF StoresId, InFlight, Waiting
    <3>. QED BY <2>3, <3>2, <3>3, <3>4, <3>5 DEF Quiet
  <2>4. CASE Accepts BY <2>4 DEF Accepts, Waiting
  <2>5. CASE Commits
    <3>1. PICK b \in Attempt :
            /\ rows[b].status \in InFlight
            /\ rows' = [rows EXCEPT ![b].status = "sent", ![b].age = 0]
            /\ event' = [event EXCEPT ![b] = 1]
      BY <2>5 DEF Commits
    <3>2. CASE a = b
      <4>1. rows'[a] = [rows[a] EXCEPT !.status = "sent", !.age = 0]
        BY <1>1, <3>1, <3>2, Facts DEF Rows
      <4>2. rows'[a].status = "sent" /\ rows'[a].msg = rows[a].msg BY <2>2, <4>1 DEF Row
      <4>. QED BY <3>1, <3>2, <4>2 DEF InFlight, Waiting
    <3>3. CASE a # b
      <4>1. rows'[a] = rows[a] /\ event'[a] = event[a]
        BY <1>1, <3>1, <3>3, Facts DEF Rows, Typed
      <4>. QED BY <4>1 DEF Waiting
    <3>. QED BY <3>2, <3>3
  <2>. QED BY <2>1, <2>3, <2>4, <2>5 DEF Good, Evolves
<1>2. IInv /\ [Next]_vars => [\A a \in Attempt : Sticks(a)]_vars BY <1>1
<1>. QED BY <1>2, InvariantHolds, PTL DEF Spec, OutcomesStick

-----------------------------------------------------------------------------
\* The queue implements the promise

\* What is told of a row is one of the outcomes.
LEMMA ToldOutcome ==
  ASSUME NEW r \in Row
  PROVE  Told(r) \in Promise!Outcomes
<1>1. r.status \in Statuses BY DEF Row
<1>. QED BY <1>1 DEF Told, Statuses, Promise!Outcomes

\* The steps of a row are steps forward of what is told of it.
LEMMA ToldForward ==
  ASSUME NEW r \in Row, NEW s \in Row, NEW acc,
         Moves(r, s) \/ Requeues(r, s) \/ GivesUp(r, s) \/ StoresId(r, s)
  PROVE  Promise!Forward(Told(r), Told(s), acc)
<1>1. r.status \in Statuses /\ s.status \in Statuses BY DEF Row
<1>2. CASE Moves(r, s)
  <2>1. CASE s.status = r.status BY <2>1 DEF Told, Promise!Forward
  <2>2. CASE s.status # r.status
    BY <1>1, <1>2, <2>2 DEF Moves, Told, Waiting, Statuses, Promise!Forward
  <2>. QED BY <2>1, <2>2
<1>3. CASE Requeues(r, s) BY <1>3 DEF Requeues, Told, Promise!Forward
<1>4. CASE GivesUp(r, s) BY <1>4 DEF GivesUp, Told, Promise!Forward
<1>5. CASE StoresId(r, s) BY <1>5 DEF StoresId, Told, Promise!Forward
<1>. QED BY <1>2, <1>3, <1>4, <1>5

\* The queue implements SendPromise, whoever delivers and whatever is lost: an
\* attempt is told an outcome once, and "sent" only of a message Gmail accepted.
THEOREM QueueKeepsPromise == Spec => KeepsPromise
<1>. DEFINE told == [a \in Attempt |-> Told(rows[a])]
            delivered == [a \in Attempt |-> accepted[a] > 0]
<1>1. Init => Promise!PromiseInit
  <2>. SUFFICES ASSUME Init PROVE Promise!PromiseInit
    OBVIOUS
  <2>1. ASSUME NEW a \in Attempt
        PROVE  /\ told[a] \in {"nothing", "sent"}
               /\ (accepted[a] > 0) <=> (told[a] = "sent")
    <3>1. CASE a \in DOMAIN SentBefore
      <4>1. rows[a] = SentBefore[a] /\ accepted[a] = 1 BY <3>1 DEF Init
      <4>2. PICK u \in User, h \in Hotel, r \in Recipient : SentBefore[a] = SentPitch(u, h, r)
        BY <3>1, SentBeforeAssumption
      <4>3. SentBefore[a].status = "sent" BY <4>2 DEF SentPitch, NoRow
      <4>. QED BY <4>1, <4>3 DEF Told
    <3>2. CASE a \notin DOMAIN SentBefore
      <4>1. rows[a] = NoRow /\ accepted[a] = 0 BY <3>2 DEF Init
      <4>2. NoRow.status = "none" BY DEF NoRow
      <4>. QED BY <4>1, <4>2 DEF Told
    <3>. QED BY <3>1, <3>2
  <2>. QED BY <2>1 DEF Promise!PromiseInit
<1>2. IInv /\ [Next]_vars => [Promise!PromiseNext]_<<told, delivered>>
  <2>. SUFFICES ASSUME IInv, [Next]_vars PROVE Promise!PromiseNext
    OBVIOUS
  <2>1. Good /\ rows \in Rows /\ rows' \in Rows
    BY NextGood, Facts DEF Good, IInv, Typed, Rows
  <2>2. \A a \in Attempt : rows[a] \in Row /\ rows'[a] \in Row BY <2>1 DEF Rows
  <2>3. \A a \in Attempt : accepted[a] \in Nat BY Facts DEF Typed
  <2>4. \A a \in Attempt : Told(rows'[a]) \in Promise!Outcomes BY <2>2, ToldOutcome
  <2>5. CASE Quiet
    <3>1. \A a \in Attempt : Promise!Forward(Told(rows[a]), Told(rows'[a]), accepted[a] > 0)
      BY <2>2, <2>5, ToldForward DEF Quiet
    <3>2. accepted' = accepted BY <2>5 DEF Quiet
    <3>. QED BY <2>4, <3>1, <3>2 DEF Promise!PromiseNext, Promise!Tell
  <2>6. CASE Commits
    <3>1. PICK b \in Attempt :
            /\ accepted[b] = 1 /\ rows[b].status \in InFlight
            /\ rows' = [rows EXCEPT ![b].status = "sent", ![b].age = 0]
      BY <2>6 DEF Commits
    <3>2. accepted' = accepted BY <2>6 DEF Commits
    <3>3. ASSUME NEW a \in Attempt
          PROVE  Promise!Forward(Told(rows[a]), Told(rows'[a]), accepted[a] > 0)
      <4>1. CASE a = b
        <5>1. rows'[a] = [rows[a] EXCEPT !.status = "sent", !.age = 0]
          BY <2>1, <3>1, <4>1 DEF Rows
        <5>2. rows'[a].status = "sent" BY <2>2, <5>1 DEF Row
        <5>3. accepted[a] > 0 BY <3>1, <4>1
        <5>. QED BY <3>1, <4>1, <5>2, <5>3 DEF Told, InFlight, Promise!Forward
      <4>2. CASE a # b
        <5>1. rows'[a] = rows[a] BY <2>1, <3>1, <4>2 DEF Rows
        <5>. QED BY <5>1 DEF Promise!Forward
      <4>. QED BY <4>1, <4>2
    <3>. QED BY <2>4, <3>2, <3>3 DEF Promise!PromiseNext, Promise!Tell
  <2>7. CASE Accepts
    <3>1. PICK b \in Attempt : /\ accepted[b] = 0
                               /\ rows[b].status \in {"provider_called", "failed"}
                               /\ accepted' = [accepted EXCEPT ![b] = @ + 1]
      BY <2>7 DEF Accepts
    <3>2. rows' = rows BY <2>7 DEF Accepts
    <3>3. told[b] \in {"pending", "failed"} /\ ~delivered[b]
      <4>1. told[b] = Told(rows[b]) OBVIOUS
      <4>2. Told(rows[b]) \in {"pending", "failed"} BY <3>1 DEF Told
      <4>3. ~(accepted[b] > 0) BY <3>1
      <4>. QED BY <4>1, <4>2, <4>3
    <3>4. delivered' = [delivered EXCEPT ![b] = TRUE]
      <4>1. accepted'[b] = 1 /\ \A a \in Attempt \ {b} : accepted'[a] = accepted[a]
        BY <3>1, Facts DEF Typed
      <4>2. ASSUME NEW a \in Attempt
            PROVE  (accepted'[a] > 0) <=> (a = b \/ accepted[a] > 0)
        BY <4>1
      <4>3. delivered' = [a \in Attempt |-> accepted'[a] > 0] OBVIOUS
      <4>4. [delivered EXCEPT ![b] = TRUE]
              = [a \in Attempt |-> IF a = b THEN TRUE ELSE accepted[a] > 0]
        OBVIOUS
      <4>5. ASSUME NEW a \in Attempt
            PROVE  (accepted'[a] > 0) = (IF a = b THEN TRUE ELSE accepted[a] > 0)
        <5>1. CASE a = b BY <4>2, <5>1
        <5>2. CASE a # b
          <6>1. accepted'[a] = accepted[a] BY <4>1, <5>2
          <6>. QED BY <5>2, <6>1
        <5>. QED BY <5>1, <5>2
      <4>. QED BY <4>3, <4>4, <4>5
    <3>. QED BY <3>2, <3>3, <3>4 DEF Promise!PromiseNext, Promise!Deliver
  <2>. QED BY <2>1, <2>5, <2>6, <2>7 DEF Good, Evolves
<1>. QED BY <1>1, <1>2, InvariantHolds, PTL
     DEF Spec, KeepsPromise, Promise!PromiseSpec, Promise!promiseVars

-----------------------------------------------------------------------------
(* The rows of a creator and of a thread. *)

\* A row stays with its creator and its thread, and is not revived.
Keeps(r, s) ==
  /\ s.user = r.user /\ s.kind = r.kind /\ s.thread = r.thread
  /\ s.status \in Waiting => r.status \in Waiting
  /\ s.status \in InFlight => r.status \in Waiting \cup InFlight

\* It is not sent meanwhile, and its call is not recorded meanwhile.
SameEnd(r, s) == s.status = "sent" <=> r.status = "sent"
NoStart(r, s) == s.today => r.today
Stays(r, s) == Keeps(r, s) /\ SameEnd(r, s) /\ NoStart(r, s)

-----------------------------------------------------------------------------
\* What the statements on the table keep

\* A row stays what it is.
LEMMA StaysReflexive == \A r : Stays(r, r)
BY DEF Stays, Keeps, SameEnd, NoStart

\* And so it does over two changes.
LEMMA StaysTransitive ==
  ASSUME NEW r, NEW s, NEW t, Stays(r, s), Stays(s, t)
  PROVE  Stays(r, t)
BY DEF Stays, Keeps, SameEnd, NoStart, Waiting, InFlight

\* Failing a row that is not sent.
LEMMA FailedStays ==
  ASSUME NEW r \in Row, NEW c, r.status # "sent"
  PROVE  Stays(r, Failed(r, c)) /\ Failed(r, c).status = "failed"
<1>1. /\ Failed(r, c).user = r.user /\ Failed(r, c).kind = r.kind
      /\ Failed(r, c).thread = r.thread /\ Failed(r, c).status = "failed"
      /\ Failed(r, c).today = r.today
  BY DEF Row, Failed
<1>. QED BY <1>1 DEF Stays, Keeps, SameEnd, NoStart, Waiting, InFlight

\* Queueing a waiting row again.
LEMMA QueuedStays ==
  ASSUME NEW r \in Row, NEW n, r.status \in Waiting
  PROVE  Stays(r, Queued(r, n))
<1>1. /\ Queued(r, n).user = r.user /\ Queued(r, n).kind = r.kind
      /\ Queued(r, n).thread = r.thread /\ Queued(r, n).status = "queued"
      /\ Queued(r, n).today = r.today
  BY DEF Row, Queued
<1>. QED BY <1>1 DEF Stays, Keeps, SameEnd, NoStart, Waiting, InFlight

\* Writing a status that is no revival.
LEMMA StatusStays ==
  ASSUME NEW r \in Row, NEW x,
         \/ x = "reserved" /\ r.status \in Waiting
         \/ x = "unknown" /\ r.status \in {"reserved", "provider_called"}
  PROVE  Stays(r, [r EXCEPT !.status = x, !.age = 0])
<1>. DEFINE s == [r EXCEPT !.status = x, !.age = 0]
<1>1. /\ s.user = r.user /\ s.kind = r.kind /\ s.thread = r.thread /\ s.status = x
      /\ s.today = r.today
  BY DEF Row
<1>. HIDE DEF s
<1>. QED BY <1>1 DEF Stays, Keeps, SameEnd, NoStart, Waiting, InFlight

\* The sweep.
LEMMA SweepStaleStays ==
  ASSUME NEW rs \in Rows, NEW a \in Attempt
  PROVE  Stays(rs[a], SweepStale(rs)[a])
<1>1. rs[a] \in Row BY DEF Rows
<1>2. CASE rs[a].status = "reserved" /\ rs[a].age > Lease
  BY <1>1, <1>2, StatusStays DEF SweepStale
<1>3. CASE ~(rs[a].status = "reserved" /\ rs[a].age > Lease)
           /\ rs[a].status = "provider_called" /\ rs[a].msg = 0 /\ rs[a].age > Lease
  BY <1>1, <1>3, FailedStays DEF SweepStale
<1>4. CASE SweepStale(rs)[a] = rs[a]
  BY <1>4, StaysReflexive
<1>. QED BY <1>2, <1>3, <1>4 DEF SweepStale

\* The failures of a pending deletion.
LEMMA FailBlockedStays ==
  ASSUME NEW rs \in Rows, NEW a \in Attempt
  PROVE  Stays(rs[a], FailBlocked(rs)[a])
<1>1. rs[a] \in Row BY DEF Rows
<1>2. CASE FailBlocked(rs)[a] = rs[a] BY <1>2, StaysReflexive
<1>3. CASE /\ FailBlocked(rs)[a] = Failed(rs[a], "deletion_pending")
           /\ rs[a].status \in Waiting \cup {"provider_called"}
  <2>1. rs[a].status # "sent" BY <1>3 DEF Waiting
  <2>. QED BY <1>1, <1>3, <2>1, FailedStays
<1>. QED BY <1>2, <1>3, FailBlockedMoves

\* A claim that puts rows off.
LEMMA DeferredStays ==
  ASSUME NEW rs \in Rows, NEW us, NEW a \in Attempt
  PROVE  Stays(rs[a], Deferred(rs, us)[a])
<1>1. rs[a] \in Row BY DEF Rows
<1>. DEFINE s == [rs[a] EXCEPT !.wait = NextMorning]
<1>2. /\ s.user = rs[a].user /\ s.kind = rs[a].kind /\ s.thread = rs[a].thread
      /\ s.status = rs[a].status /\ s.today = rs[a].today
  BY <1>1 DEF Row
<1>3. Deferred(rs, us)[a] \in {rs[a], s} BY DEF Deferred
<1>. HIDE DEF s
<1>. QED BY <1>2, <1>3, StaysReflexive DEF Stays, Keeps, SameEnd, NoStart, Waiting, InFlight

\* A claim that reserves the queued row a.
LEMMA ReservedStays ==
  ASSUME NEW rs \in Rows, NEW u, NEW a \in Attempt, rs[a].status = "queued",
         NEW b \in Attempt
  PROVE  Stays(rs[b], Reserved(rs, u, a)[b])
<1>1. rs[b] \in Row BY DEF Rows
<1>2. CASE b = a
  <2>1. Reserved(rs, u, a)[b] = [rs[b] EXCEPT !.status = "reserved", !.age = 0]
    BY <1>2 DEF Reserved
  <2>2. rs[b].status \in Waiting BY <1>2 DEF Waiting
  <2>3. Stays(rs[b], [rs[b] EXCEPT !.status = "reserved", !.age = 0])
    BY <1>1, <2>2, StatusStays
  <2>. QED BY <2>1, <2>3
<1>3. CASE b # a
  <2>. DEFINE n == Later(rs[b].wait, Spacing)
              s == [rs[b] EXCEPT !.wait = n]
  <2>1. Reserved(rs, u, a)[b] \in {rs[b], s} BY <1>3 DEF Reserved
  <2>. HIDE DEF n
  <2>2. /\ s.user = rs[b].user /\ s.kind = rs[b].kind /\ s.thread = rs[b].thread
        /\ s.status = rs[b].status /\ s.today = rs[b].today
    BY <1>1 DEF Row
  <2>. HIDE DEF s
  <2>. QED BY <2>1, <2>2, StaysReflexive DEF Stays, Keeps, SameEnd, NoStart, Waiting, InFlight
<1>. QED BY <1>2, <1>3

\* gmail_send_fail.
LEMMA FailRowStays ==
  ASSUME NEW r \in Row, NEW c
  PROVE  Stays(r, FailRow(r, c))
<1>1. \/ FailRow(r, c) = r
      \/ /\ r.status = "provider_called"
         /\ FailRow(r, c) = [r EXCEPT !.status = "unknown", !.age = 0]
      \/ r.status # "sent" /\ FailRow(r, c) = Failed(r, c)
  BY DEF FailRow
<1>. QED BY <1>1, StaysReflexive, StatusStays, FailedStays

\* gmail_send_mark_provider: the only statement that starts a call.
LEMMA MarkRowStays ==
  ASSUME NEW a \in Attempt, rows[a] \in Row
  PROVE  /\ Keeps(rows[a], MarkRow(a)) /\ SameEnd(rows[a], MarkRow(a))
         /\ \/ NoStart(rows[a], MarkRow(a))
            \/ Cardinality({b \in Attempt \ {a} : rows[b].user = rows[a].user /\ rows[b].today})
                 < DailyCap
<1>. DEFINE called == [rows[a] EXCEPT !.status = "provider_called", !.age = 0, !.today = TRUE]
            others == Cardinality({b \in Attempt \ {a} : rows[b].user = rows[a].user
                                                         /\ rows[b].today})
<1>1. \/ MarkRow(a) = rows[a]
      \/ rows[a].status = "reserved" /\ \E c : MarkRow(a) = Failed(rows[a], c)
      \/ rows[a].status = "reserved" /\ \E n : MarkRow(a) = Queued(rows[a], n)
      \/ rows[a].status = "reserved" /\ MarkRow(a) = called /\ ~(others >= DailyCap)
  BY DEF MarkRow
<1>2. CASE MarkRow(a) = rows[a] BY <1>2, StaysReflexive DEF Stays
<1>3. CASE rows[a].status = "reserved" /\ \E c : MarkRow(a) = Failed(rows[a], c)
  BY <1>3, FailedStays DEF Stays
<1>4. CASE rows[a].status = "reserved" /\ \E n : MarkRow(a) = Queued(rows[a], n)
  BY <1>4, QueuedStays DEF Stays, Waiting
<1>5. CASE rows[a].status = "reserved" /\ MarkRow(a) = called /\ ~(others >= DailyCap)
  <2>1. /\ called.user = rows[a].user /\ called.kind = rows[a].kind
        /\ called.thread = rows[a].thread /\ called.status = "provider_called"
    BY DEF Row
  <2>2. others \in Nat
    <3>1. IsFiniteSet(Attempt)
      <4>1. MaxRows \in Int BY BoundsAssumption
      <4>. QED BY <4>1, FS_Interval DEF Attempt
    <3>2. {b \in Attempt \ {a} : rows[b].user = rows[a].user /\ rows[b].today}
            \in SUBSET Attempt
      OBVIOUS
    <3>. QED BY <3>1, <3>2, FS_Subset, FS_CardinalityType
  <2>3. others < DailyCap BY <1>5, <2>2, BoundsAssumption
  <2>. HIDE DEF called, others
  <2>4. Keeps(rows[a], MarkRow(a)) /\ SameEnd(rows[a], MarkRow(a))
    BY <1>5, <2>1 DEF Keeps, SameEnd, Waiting, InFlight
  <2>. QED BY <2>3, <2>4 DEF others
<1>. QED BY <1>1, <1>2, <1>3, <1>4, <1>5

-----------------------------------------------------------------------------
\* The daily cap

\* No row starts a call.
NoneStarts == \A a \in Attempt : rows'[a].today => rows[a].today /\ rows'[a].user = rows[a].user

\* The row a starts a call, and leaves room for it.
OneStarts ==
  \E a \in Attempt :
    /\ rows'[a].user = rows[a].user /\ \A b \in Attempt \ {a} : rows'[b] = rows[b]
    /\ Cardinality({b \in Attempt \ {a} : rows[b].user = rows[a].user /\ rows[b].today})
         < DailyCap

\* The rows are finitely many.
LEMMA AttemptsFinite == IsFiniteSet(Attempt)
<1>1. MaxRows \in Int BY BoundsAssumption
<1>. QED BY <1>1, FS_Interval DEF Attempt

\* A step that starts nothing, or what the mark has counted, keeps the cap.
LEMMA CapKept ==
  ASSUME WithinDailyCap, NoneStarts \/ OneStarts
  PROVE  WithinDailyCap'
<1>. SUFFICES ASSUME NEW u \in User PROVE Used(rows', u) <= DailyCap
  BY DEF WithinDailyCap
<1>. DEFINE before == {a \in Attempt : rows[a].user = u /\ rows[a].today}
            after == {a \in Attempt : rows'[a].user = u /\ rows'[a].today}
<1>1. /\ Cardinality(before) <= DailyCap
      /\ Used(rows', u) = Cardinality(after)
  BY DEF WithinDailyCap, Used
<1>2. IsFiniteSet(before) /\ IsFiniteSet(after)
  BY AttemptsFinite, FS_Subset, before \in SUBSET Attempt, after \in SUBSET Attempt
<1>3. Cardinality(before) \in Nat /\ Cardinality(after) \in Nat /\ DailyCap \in Nat
  BY <1>2, FS_CardinalityType, BoundsAssumption
<1>4. ASSUME after \subseteq before PROVE Cardinality(after) <= DailyCap
  <2>1. Cardinality(after) <= Cardinality(before) BY <1>2, <1>4, FS_Subset
  <2>. HIDE DEF before, after
  <2>. QED BY <1>1, <1>3, <2>1
<1>5. CASE NoneStarts
  <2>1. after \subseteq before BY <1>5 DEF NoneStarts
  <2>. QED BY <1>1, <1>4, <2>1
<1>6. CASE OneStarts
  <2>1. PICK a \in Attempt :
          /\ rows'[a].user = rows[a].user /\ \A b \in Attempt \ {a} : rows'[b] = rows[b]
          /\ Cardinality({b \in Attempt \ {a} : rows[b].user = rows[a].user /\ rows[b].today})
               < DailyCap
    BY <1>6 DEF OneStarts
  <2>2. CASE rows[a].user # u
    <3>1. after \subseteq before BY <2>1, <2>2
    <3>. QED BY <1>1, <1>4, <3>1
  <2>3. CASE rows[a].user = u
    <3>. DEFINE others == {b \in Attempt \ {a} : rows[b].user = u /\ rows[b].today}
    <3>1. IsFiniteSet(others) BY AttemptsFinite, FS_Subset, others \in SUBSET Attempt
    <3>2. Cardinality(others) \in Nat BY <3>1, FS_CardinalityType
    <3>3. Cardinality(others) < DailyCap BY <2>1, <2>3
    <3>4. after \subseteq others \cup {a} BY <2>1
    <3>5. IsFiniteSet(others \cup {a}) /\ Cardinality(others \cup {a}) = Cardinality(others) + 1
      BY <3>1, FS_AddElement
    <3>6. Cardinality(after) <= Cardinality(others) + 1
      BY <3>4, <3>5, FS_Subset
    <3>. HIDE DEF after, others
    <3>. QED BY <1>1, <1>3, <3>2, <3>3, <3>6
  <2>. QED BY <2>2, <2>3
<1>. QED BY <1>5, <1>6

-----------------------------------------------------------------------------
\* The follow-ups of a thread

\* Only attempts that were made have follow-ups.
Pitched == \A ps \in Slot : fu[ps].status # "none" => ps[1] <= made

\* An attempt is named by one follow-up at most.
OwnAttempt ==
  \A ps \in Slot : fu[ps].att # 0 =>
    /\ fu[ps].att \in Attempt /\ fu[ps].att <= made
    /\ \A qs \in Slot : fu[qs].att = fu[ps].att => qs = ps

\* A thread has one open follow-up at most.
OneOpen ==
  \A ps, qs \in Slot :
    ps[1] = qs[1] /\ fu[ps].status \in Open /\ fu[qs].status \in Open => ps = qs

\* A live follow-up attempt belongs to the creator of its thread.
OnItsThread ==
  \A a \in Attempt : Live(a) =>
    /\ rows[a].thread \in Attempt /\ rows[a].thread <= made
    /\ rows[a].user = rows[rows[a].thread].user

\* A follow-up attempt waits only while its follow-up is queued.
WaitsQueued ==
  \A a \in Attempt : Live(a) /\ rows[a].status \in Waiting =>
    \E ps \in Slot : fu[ps].status = "queued" /\ fu[ps].att = a

\* Beside a live attempt its thread has no follow-up scheduled and none queued for
\* another attempt.
AloneOnThread ==
  \A ps \in Slot, a \in Attempt : Live(a) /\ rows[a].thread = ps[1] =>
    /\ fu[ps].status # "scheduled"
    /\ fu[ps].status = "queued" => fu[ps].att = a

\* A scheduled follow-up finds room for its attempt.
Fits == made + Cardinality(Scheduled) <= MaxRows

ThreadInv == /\ Pitched /\ OwnAttempt /\ OneOpen /\ OnItsThread /\ WaitsQueued
             /\ AloneOnThread /\ OneLiveFollowUp /\ FollowUpMatchesAttempt

\* How most steps change a row: the row stays, or is a new one of no thread.
Carries(a) == \/ Keeps(rows[a], rows'[a])
              \/ a > made /\ rows'[a].kind # "follow_up"

\* How they change a follow-up: it stays as it was, is stopped or cancelled with its
\* waiting attempt, or is sent with its attempt.
SlotCarries(ps) ==
  \/ /\ fu'[ps].status = fu[ps].status /\ fu'[ps].att = fu[ps].att
     /\ fu[ps].status \in {"queued", "sent"} =>
          SameEnd(rows[fu[ps].att], rows'[fu[ps].att])
  \/ /\ fu[ps].status \in Open /\ fu'[ps].status \in {"stopped", "cancelled"}
     /\ fu'[ps].att \in {0, fu[ps].att}
     /\ fu[ps].att # 0 => rows'[fu[ps].att].status \notin Waiting
  \/ /\ fu[ps].status = "queued" /\ fu'[ps].status = "sent"
     /\ fu'[ps].att = fu[ps].att /\ rows'[fu[ps].att].status = "sent"

Calm == /\ made' >= made
        /\ \A a \in Attempt : Carries(a)
        /\ \A ps \in Slot : SlotCarries(ps)

\* What the invariant says of the types and of rows that were not made.
LEMMA ThreadFacts ==
  ASSUME IInv
  PROVE  /\ made \in Nat /\ \A a \in Attempt : a \in Nat /\ a # 0
         /\ \A a \in Attempt : rows[a] \in Row /\ (a > made => rows[a].status = "none")
         /\ \A ps \in Slot : fu[ps] \in FollowUp /\ fu[ps].att \in Nat /\ ps[1] \in Attempt
         /\ \A a \in Attempt : Live(a) => a <= made
<1>1. Typed /\ Unmade /\ made \in Nat BY Facts
<1>2. \A a \in Attempt : a \in Nat /\ a # 0 BY BoundsAssumption DEF Attempt
<1>3. \A a \in Attempt : rows[a] \in Row /\ (a > made => rows[a].status = "none")
  BY <1>1 DEF Typed, Unmade
<1>4. \A ps \in Slot : fu[ps] \in FollowUp /\ ps[1] \in Attempt BY <1>1 DEF Typed, Slot
<1>5. \A ps \in Slot : fu[ps].att \in Nat BY <1>4 DEF FollowUp
<1>6. ASSUME NEW a \in Attempt, Live(a) PROVE a <= made
  <2>1. rows[a].status # "none" BY <1>6 DEF Live, Waiting, InFlight
  <2>. QED BY <1>1, <1>2, <1>3, <2>1
<1>. QED BY <1>1, <1>2, <1>3, <1>4, <1>5, <1>6

\* A row that is live after a step that carries it was live before.
LEMMA CarriesLive ==
  ASSUME NEW a \in Attempt, Carries(a), Live(a)'
  PROVE  /\ Live(a) /\ rows'[a].thread = rows[a].thread /\ rows'[a].user = rows[a].user
         /\ rows'[a].status \in Waiting => rows[a].status \in Waiting
BY DEF Carries, Keeps, Live

\* The row of an attempt that was made stays.
LEMMA MadeKeeps ==
  ASSUME IInv, NEW a \in Attempt, Carries(a), a <= made
  PROVE  Keeps(rows[a], rows'[a])
<1>1. ~(a > made) BY ThreadFacts
<1>. QED BY <1>1 DEF Carries

\* A calm step keeps the threads.
LEMMA CalmKeeps ==
  ASSUME IInv, IInv', ThreadInv, Calm
  PROVE  ThreadInv'
<1>1. made' \in Nat /\ made \in Nat /\ made' >= made
  <2>1. Typed' BY DEF IInv
  <2>. QED BY <2>1, ThreadFacts DEF Typed, Calm
<1>2. ASSUME NEW ps \in Slot
      PROVE  /\ fu'[ps].att \in {0, fu[ps].att}
             /\ fu'[ps].status \in Open => fu'[ps].status = fu[ps].status /\ fu'[ps].att = fu[ps].att
             /\ fu'[ps].status # "none" => fu[ps].status # "none"
  BY DEF Calm, SlotCarries, Open
<1>3. Pitched'
  <2>1. ASSUME NEW ps \in Slot, fu'[ps].status # "none" PROVE ps[1] <= made'
    <3>1. ps[1] <= made BY <1>2, <2>1 DEF ThreadInv, Pitched
    <3>. QED BY <1>1, <3>1, ThreadFacts
  <2>. QED BY <2>1 DEF Pitched
<1>4. OwnAttempt'
  <2>1. ASSUME NEW ps \in Slot, fu'[ps].att # 0
        PROVE  /\ fu'[ps].att \in Attempt /\ fu'[ps].att <= made'
               /\ \A qs \in Slot : fu'[qs].att = fu'[ps].att => qs = ps
    <3>1. fu'[ps].att = fu[ps].att BY <1>2, <2>1
    <3>2. fu[ps].att \in Attempt /\ fu[ps].att <= made
          /\ \A qs \in Slot : fu[qs].att = fu[ps].att => qs = ps
      BY <2>1, <3>1 DEF ThreadInv, OwnAttempt
    <3>3. fu[ps].att <= made' BY <1>1, <3>2, ThreadFacts
    <3>4. ASSUME NEW qs \in Slot, fu'[qs].att = fu'[ps].att PROVE qs = ps
      <4>1. fu'[qs].att = fu[qs].att BY <1>2, <2>1, <3>4
      <4>. QED BY <3>1, <3>2, <3>4, <4>1
    <3>. QED BY <3>1, <3>2, <3>3, <3>4
  <2>. QED BY <2>1 DEF OwnAttempt
<1>5. OneOpen' BY <1>2 DEF ThreadInv, OneOpen
<1>6. OnItsThread'
  <2>1. ASSUME NEW a \in Attempt, Live(a)'
        PROVE  /\ rows'[a].thread \in Attempt /\ rows'[a].thread <= made'
               /\ rows'[a].user = rows'[rows'[a].thread].user
    <3>1. Live(a) /\ rows'[a].thread = rows[a].thread /\ rows'[a].user = rows[a].user
      BY <2>1, CarriesLive DEF Calm
    <3>2. /\ rows[a].thread \in Attempt /\ rows[a].thread <= made
          /\ rows[a].user = rows[rows[a].thread].user
      BY <3>1 DEF ThreadInv, OnItsThread
    <3>3. rows'[rows[a].thread].user = rows[rows[a].thread].user
      BY <3>2, MadeKeeps DEF Calm, Keeps
    <3>4. rows[a].thread <= made' BY <1>1, <3>2, ThreadFacts
    <3>. QED BY <3>1, <3>2, <3>3, <3>4
  <2>. QED BY <2>1 DEF OnItsThread
<1>7. WaitsQueued'
  <2>1. ASSUME NEW a \in Attempt, Live(a)', rows'[a].status \in Waiting
        PROVE  \E ps \in Slot : fu'[ps].status = "queued" /\ fu'[ps].att = a
    <3>1. Live(a) /\ rows[a].status \in Waiting BY <2>1, CarriesLive DEF Calm
    <3>2. PICK ps \in Slot : fu[ps].status = "queued" /\ fu[ps].att = a
      BY <3>1 DEF ThreadInv, WaitsQueued
    <3>3. a # 0 /\ rows'[a].status # "sent" BY <2>1, ThreadFacts DEF Waiting
    <3>4. fu'[ps].status = fu[ps].status /\ fu'[ps].att = fu[ps].att
      BY <2>1, <3>2, <3>3 DEF Calm, SlotCarries
    <3>. QED BY <3>2, <3>4
  <2>. QED BY <2>1 DEF WaitsQueued
<1>8. AloneOnThread'
  <2>1. ASSUME NEW ps \in Slot, NEW a \in Attempt, Live(a)', rows'[a].thread = ps[1]
        PROVE  /\ fu'[ps].status # "scheduled"
               /\ fu'[ps].status = "queued" => fu'[ps].att = a
    <3>1. Live(a) /\ rows[a].thread = ps[1] BY <2>1, CarriesLive DEF Calm
    <3>2. /\ fu[ps].status # "scheduled"
          /\ fu[ps].status = "queued" => fu[ps].att = a
      BY <3>1 DEF ThreadInv, AloneOnThread
    <3>. QED BY <1>2, <3>2 DEF Open
  <2>. QED BY <2>1 DEF AloneOnThread
<1>9. OneLiveFollowUp'
  <2>1. ASSUME NEW a \in Attempt, NEW b \in Attempt, Live(a)', Live(b)',
               rows'[a].thread = rows'[b].thread
        PROVE  a = b
    <3>1. Live(a) /\ Live(b) /\ rows[a].thread = rows[b].thread
      BY <2>1, CarriesLive DEF Calm
    <3>. QED BY <3>1 DEF ThreadInv, OneLiveFollowUp
  <2>. QED BY <2>1 DEF OneLiveFollowUp
<1>10. FollowUpMatchesAttempt'
  <2>1. ASSUME NEW ps \in Slot, fu'[ps].status \in {"queued", "sent"}
        PROVE  /\ fu'[ps].att \in Attempt
               /\ rows'[fu'[ps].att].kind = "follow_up" /\ rows'[fu'[ps].att].thread = ps[1]
               /\ (fu'[ps].status = "sent") <=> (rows'[fu'[ps].att].status = "sent")
               /\ \A qs \in Slot : fu'[qs].att = fu'[ps].att => qs = ps
    <3>1. /\ fu'[ps].att = fu[ps].att /\ fu[ps].status \in {"queued", "sent"}
          /\ \/ fu'[ps].status = fu[ps].status /\ SameEnd(rows[fu[ps].att], rows'[fu[ps].att])
             \/ fu'[ps].status = "sent" /\ rows'[fu[ps].att].status = "sent"
      BY <2>1 DEF Calm, SlotCarries
    <3>2. /\ fu[ps].att \in Attempt
          /\ rows[fu[ps].att].kind = "follow_up" /\ rows[fu[ps].att].thread = ps[1]
          /\ (fu[ps].status = "sent") <=> (rows[fu[ps].att].status = "sent")
      BY <3>1 DEF ThreadInv, FollowUpMatchesAttempt
    <3>3. fu[ps].att # 0 BY <3>2, ThreadFacts
    <3>4. fu[ps].att <= made BY <3>3 DEF ThreadInv, OwnAttempt
    <3>5. Keeps(rows[fu[ps].att], rows'[fu[ps].att]) BY <3>2, <3>4, MadeKeeps DEF Calm
    <3>6. \A qs \in Slot : fu'[qs].att = fu'[ps].att => qs = ps
      BY <1>4, <3>1, <3>3 DEF OwnAttempt
    <3>. QED BY <3>1, <3>2, <3>5, <3>6 DEF Keeps, SameEnd
  <2>. QED BY <2>1 DEF FollowUpMatchesAttempt
<1>. QED BY <1>3, <1>4, <1>5, <1>6, <1>7, <1>8, <1>9, <1>10 DEF ThreadInv


-----------------------------------------------------------------------------
\* Settling

\* What settling makes of a row: the attempt of a queued follow-up, or a row that
\* stays and no longer waits for a follow-up that is stopped.
SettledRow(us, a) ==
  \/ /\ a > made /\ rows'[a].kind = "follow_up"
     /\ rows'[a].status # "sent"
     /\ \E ps \in SettleQueues(us) :
          /\ NewAttempt(us, ps) = a /\ rows'[a].thread = ps[1]
          /\ rows'[a].user = rows[ps[1]].user
  \/ /\ Keeps(rows[a], rows'[a]) /\ SameEnd(rows[a], rows'[a])
     /\ \A ps \in SettleQueues(us) : NewAttempt(us, ps) # a
     /\ \A ps \in SettleStops(us) : fu[ps].att = a => rows'[a].status \notin Waiting

Settled(us) == /\ fu' = SettleFollowUps(us) /\ made' = SettleMade(us)
               /\ \A a \in Attempt : SettledRow(us, a)

\* There are finitely many slots.
LEMMA SlotFinite == IsFiniteSet(Slot)
<1>1. IsFiniteSet({1, 2})
  <2>1. IsFiniteSet({1}) BY FS_Singleton
  <2>2. IsFiniteSet({1} \cup {2}) BY <2>1, FS_AddElement
  <2>3. {1} \cup {2} = {1, 2} OBVIOUS
  <2>. QED BY <2>2, <2>3
<1>. QED BY <1>1, AttemptsFinite, FS_Product DEF Slot

\* The scheduled follow-ups and those that are queued now are finitely many.
LEMMA QueuesFinite ==
  ASSUME NEW us
  PROVE  /\ SettleQueues(us) \subseteq Scheduled /\ IsFiniteSet(Scheduled)
         /\ Cardinality(Scheduled) \in Nat /\ Cardinality(SettleQueues(us)) \in Nat
         /\ Cardinality(SettleQueues(us)) <= Cardinality(Scheduled)
<1>1. IsFiniteSet(Scheduled)
  <2>1. Scheduled \in SUBSET Slot BY DEF Scheduled
  <2>. QED BY <2>1, SlotFinite, FS_Subset
<1>2. SettleQueues(us) \subseteq Scheduled BY DEF SettleQueues, Scheduled
<1>3. IsFiniteSet(SettleQueues(us)) /\ Cardinality(SettleQueues(us)) <= Cardinality(Scheduled)
  BY <1>1, <1>2, FS_Subset
<1>. QED BY <1>1, <1>2, <1>3, FS_CardinalityType

\* A new attempt is one that was not made, and a later pitch gets a later one.
LEMMA NewAttempts ==
  ASSUME IInv, Fits, NEW us, NEW ps \in SettleQueues(us)
  PROVE  /\ NewAttempt(us, ps) \in Attempt /\ NewAttempt(us, ps) > made
         /\ NewAttempt(us, ps) <= SettleMade(us)
         /\ \A qs \in SettleQueues(us) :
              qs[1] > ps[1] => NewAttempt(us, qs) > NewAttempt(us, ps)
<1>. DEFINE upTo(qs) == {xs \in SettleQueues(us) : xs[1] <= qs[1]}
<1>1. SettleQueues(us) \subseteq Slot BY DEF SettleQueues
<1>2. IsFiniteSet(SettleQueues(us)) BY QueuesFinite, FS_Subset
<1>3. ASSUME NEW qs \in SettleQueues(us)
      PROVE  /\ IsFiniteSet(upTo(qs)) /\ Cardinality(upTo(qs)) \in Nat
             /\ Cardinality(upTo(qs)) <= Cardinality(SettleQueues(us))
             /\ NewAttempt(us, qs) = made + Cardinality(upTo(qs))
  <2>1. upTo(qs) \in SUBSET SettleQueues(us) OBVIOUS
  <2>2. NewAttempt(us, qs) = made + Cardinality(upTo(qs)) BY DEF NewAttempt
  <2>. HIDE DEF upTo
  <2>. QED BY <1>2, <2>1, <2>2, FS_Subset, FS_CardinalityType
<1>4. \A qs \in SettleQueues(us) : qs[1] \in Nat BY <1>1, ThreadFacts
<1>5. ps \in upTo(ps) BY <1>4
<1>6. Cardinality(upTo(ps)) # 0
  <2>1. upTo(ps) # {} BY <1>5
  <2>. HIDE DEF upTo
  <2>. QED BY <1>3, <2>1, FS_EmptySet
<1>7. ASSUME NEW qs \in SettleQueues(us), qs[1] > ps[1]
      PROVE  Cardinality(upTo(ps)) < Cardinality(upTo(qs))
  <2>1. qs \in upTo(qs) /\ qs \notin upTo(ps) BY <1>4, <1>7
  <2>2. upTo(ps) \subseteq upTo(qs)
    <3>1. ASSUME NEW xs \in SettleQueues(us), xs[1] <= ps[1] PROVE xs[1] <= qs[1]
      BY <1>4, <1>7, <3>1
    <3>. QED BY <3>1
  <2>. HIDE DEF upTo
  <2>3. upTo(ps) \in SUBSET upTo(qs) /\ upTo(ps) # upTo(qs) BY <2>1, <2>2
  <2>4. Cardinality(upTo(ps)) <= Cardinality(upTo(qs))
        /\ (Cardinality(upTo(qs)) = Cardinality(upTo(ps)) => upTo(qs) = upTo(ps))
    BY <1>3, <2>3, FS_Subset
  <2>. QED BY <1>3, <2>3, <2>4
<1>. HIDE DEF upTo
<1>8. /\ made \in Nat /\ Cardinality(SettleQueues(us)) \in Nat
      /\ Cardinality(Scheduled) \in Nat
      /\ Cardinality(SettleQueues(us)) <= Cardinality(Scheduled)
      /\ made + Cardinality(Scheduled) <= MaxRows /\ MaxRows \in Nat
  BY QueuesFinite, ThreadFacts, BoundsAssumption DEF Fits
<1>9. NewAttempt(us, ps) \in Nat /\ NewAttempt(us, ps) > made
      /\ NewAttempt(us, ps) <= SettleMade(us)
  BY <1>3, <1>6, <1>8 DEF SettleMade
<1>10. NewAttempt(us, ps) <= MaxRows BY <1>3, <1>8
<1>11. NewAttempt(us, ps) \in Attempt BY <1>8, <1>9, <1>10 DEF Attempt
<1>12. ASSUME NEW qs \in SettleQueues(us), qs[1] > ps[1]
       PROVE  NewAttempt(us, qs) > NewAttempt(us, ps)
  BY <1>3, <1>7, <1>8, <1>12
<1>. QED BY <1>9, <1>11, <1>12

\* No two follow-ups get one attempt.
LEMMA NewAttemptsDiffer ==
  ASSUME IInv, ThreadInv, Fits, NEW us, NEW ps \in SettleQueues(us),
         NEW qs \in SettleQueues(us), NewAttempt(us, ps) = NewAttempt(us, qs)
  PROVE  ps = qs
<1>1. /\ ps \in Slot /\ fu[ps].status = "scheduled" /\ qs \in Slot /\ fu[qs].status = "scheduled"
  BY DEF SettleQueues
<1>2. ps[1] \in Nat /\ qs[1] \in Nat BY <1>1, ThreadFacts
<1>3. NewAttempt(us, ps) \in Nat /\ NewAttempt(us, qs) \in Nat
  BY NewAttempts, ThreadFacts
<1>4. ~(qs[1] > ps[1]) /\ ~(ps[1] > qs[1]) BY <1>3, NewAttempts
<1>5. ps[1] = qs[1] BY <1>2, <1>4
<1>. QED BY <1>1, <1>5 DEF ThreadInv, OneOpen, Open

\* What settling makes of a follow-up.
LEMMA SettledSlot ==
  ASSUME NEW us, fu' = SettleFollowUps(us), NEW ps \in Slot, fu[ps] \in FollowUp
  PROVE  \/ /\ ps \in SettleStops(us) /\ ps \notin SettleQueues(us)
            /\ fu[ps].status \in Open /\ fu'[ps].status = "stopped" /\ fu'[ps].att = fu[ps].att
         \/ /\ ps \in SettleQueues(us) /\ ps \notin SettleStops(us)
            /\ fu[ps].status = "scheduled" /\ fu'[ps].status = "queued"
            /\ fu'[ps].att = NewAttempt(us, ps)
         \/ /\ ps \notin SettleStops(us) /\ ps \notin SettleQueues(us) /\ fu'[ps] = fu[ps]
<1>1. CASE ps \in SettleStops(us)
  <2>1. ps \notin SettleQueues(us) /\ fu[ps].status \in Open
    BY <1>1 DEF SettleStops, SettleQueues
  <2>2. fu'[ps] = [fu[ps] EXCEPT !.status = "stopped", !.reason = SettleStop(ps[1], ps[2]),
                                 !.due = 0]
    BY <1>1 DEF SettleFollowUps
  <2>3. fu'[ps].status = "stopped" /\ fu'[ps].att = fu[ps].att BY <2>2 DEF FollowUp
  <2>. QED BY <1>1, <2>1, <2>3
<1>2. CASE ps \in SettleQueues(us) /\ ps \notin SettleStops(us)
  <2>1. fu[ps].status = "scheduled" BY <1>2 DEF SettleQueues
  <2>2. fu'[ps] = [fu[ps] EXCEPT !.status = "queued", !.att = NewAttempt(us, ps)]
    BY <1>2 DEF SettleFollowUps
  <2>3. fu'[ps].status = "queued" /\ fu'[ps].att = NewAttempt(us, ps) BY <2>2 DEF FollowUp
  <2>. QED BY <1>2, <2>1, <2>3
<1>3. CASE ps \notin SettleQueues(us) /\ ps \notin SettleStops(us)
  <2>1. fu'[ps] = fu[ps] BY <1>3 DEF SettleFollowUps
  <2>. QED BY <1>3, <2>1
<1>. QED BY <1>1, <1>2, <1>3

\* Settling leaves room for what is still scheduled.
LEMMA SettledFits ==
  ASSUME IInv, Fits, NEW us, Settled(us)
  PROVE  Fits'
<1>. DEFINE queues == SettleQueues(us)
            left == {ps \in Slot : fu'[ps].status = "scheduled"}
<1>1. left \subseteq Scheduled \ queues
  <2>1. ASSUME NEW ps \in Slot, fu'[ps].status = "scheduled"
        PROVE  fu[ps].status = "scheduled" /\ ps \notin queues
    BY <2>1, SettledSlot, ThreadFacts DEF Settled
  <2>. QED BY <2>1 DEF Scheduled
<1>2. /\ queues \subseteq Scheduled /\ IsFiniteSet(Scheduled)
      /\ Cardinality(Scheduled) \in Nat /\ Cardinality(queues) \in Nat
  BY QueuesFinite
<1>3. IsFiniteSet(Scheduled \ queues)
      /\ Cardinality(Scheduled \ queues) = Cardinality(Scheduled) - Cardinality(queues)
  <2>1. Scheduled \cap queues = queues BY <1>2
  <2>. HIDE DEF queues
  <2>. QED BY <1>2, <2>1, FS_Difference
<1>4. Cardinality(left) \in Nat /\ Cardinality(left) <= Cardinality(Scheduled \ queues)
  <2>1. left \in SUBSET (Scheduled \ queues) BY <1>1
  <2>. HIDE DEF left, queues
  <2>. QED BY <1>3, <2>1, FS_Subset, FS_CardinalityType
<1>5. Scheduled' = left /\ made' = made + Cardinality(queues)
  BY DEF Scheduled, Settled, SettleMade
<1>6. made \in Nat /\ MaxRows \in Nat /\ made + Cardinality(Scheduled) <= MaxRows
  BY ThreadFacts, BoundsAssumption DEF Fits
<1>. HIDE DEF left, queues
<1>. QED BY <1>2, <1>3, <1>4, <1>5, <1>6 DEF Fits


\* An attempt that is settled and was made stays; a new one is a queued follow-up's.
LEMMA SettledMade ==
  ASSUME IInv, NEW us, Settled(us), NEW a \in Attempt, a <= made
  PROVE  /\ Keeps(rows[a], rows'[a]) /\ SameEnd(rows[a], rows'[a])
         /\ \A ps \in SettleStops(us) : fu[ps].att = a => rows'[a].status \notin Waiting
<1>1. ~(a > made) BY ThreadFacts
<1>. QED BY <1>1 DEF Settled, SettledRow

\* A live row after settling is a new attempt or was live before.
LEMMA SettledLive ==
  ASSUME IInv, NEW us, Settled(us), NEW a \in Attempt, Live(a)'
  PROVE  \/ /\ a > made
            /\ \E ps \in SettleQueues(us) :
                 /\ NewAttempt(us, ps) = a /\ rows'[a].thread = ps[1]
                 /\ rows'[a].user = rows[ps[1]].user
         \/ /\ Live(a) /\ rows'[a].thread = rows[a].thread /\ rows'[a].user = rows[a].user
            /\ rows'[a].status \in Waiting =>
                 /\ rows[a].status \in Waiting
                 /\ \A ps \in SettleStops(us) : fu[ps].att # a
BY DEF Settled, SettledRow, Keeps, Live

\* A follow-up queued by settling names a new attempt of its own thread.
LEMMA SettledNew ==
  ASSUME IInv, ThreadInv, Fits, NEW us, Settled(us), NEW ps \in SettleQueues(us)
  PROVE  LET a == NewAttempt(us, ps)
         IN  /\ a \in Attempt /\ a > made /\ a <= made'
             /\ rows'[a].kind = "follow_up" /\ rows'[a].thread = ps[1]
             /\ rows'[a].status # "sent"
<1>. DEFINE a == NewAttempt(us, ps)
<1>1. a \in Attempt /\ a > made /\ a <= made' BY NewAttempts DEF Settled
<1>2. SettledRow(us, a) BY <1>1 DEF Settled
<1>3. PICK qs \in SettleQueues(us) :
        /\ NewAttempt(us, qs) = a /\ rows'[a].thread = qs[1]
        /\ rows'[a].kind = "follow_up" /\ rows'[a].status # "sent"
  BY <1>2 DEF SettledRow
<1>4. qs = ps BY <1>3, NewAttemptsDiffer
<1>. HIDE DEF a
<1>5. rows'[a].kind = "follow_up" /\ rows'[a].thread = ps[1] /\ rows'[a].status # "sent"
  BY <1>3, <1>4
<1>. QED BY <1>1, <1>5 DEF a

\* Settling, and a claim that settles first, keep the threads.
LEMMA SettledKeeps ==
  ASSUME IInv, IInv', ThreadInv, Fits, NEW us, Settled(us)
  PROVE  ThreadInv'
<1>. DEFINE queues == SettleQueues(us)
<1>1. made' \in Nat /\ made \in Nat /\ made' >= made
  <2>1. made' \in Nat BY Facts DEF IInv, Typed
  <2>2. made' = SettleMade(us) BY DEF Settled
  <2>. QED BY <2>1, <2>2, ThreadFacts, SettleCounts
<1>2. ASSUME NEW ps \in Slot
      PROVE  \/ /\ ps \in SettleStops(us) /\ ps \notin queues
                /\ fu[ps].status \in Open /\ fu'[ps].status = "stopped"
                /\ fu'[ps].att = fu[ps].att
             \/ /\ ps \in queues /\ ps \notin SettleStops(us)
                /\ fu[ps].status = "scheduled" /\ fu'[ps].status = "queued"
                /\ fu'[ps].att = NewAttempt(us, ps)
             \/ /\ ps \notin SettleStops(us) /\ ps \notin queues /\ fu'[ps] = fu[ps]
  BY SettledSlot, ThreadFacts DEF Settled
<1>3. ASSUME NEW ps \in queues
      PROVE  /\ ps \in Slot /\ fu[ps].status = "scheduled" /\ ps[1] \in Attempt /\ ps[1] <= made
             /\ fu'[ps].att = NewAttempt(us, ps)
             /\ NewAttempt(us, ps) \in Attempt /\ NewAttempt(us, ps) \in Nat
             /\ NewAttempt(us, ps) > made /\ NewAttempt(us, ps) <= made'
  <2>1. ps \in Slot /\ fu[ps].status = "scheduled" BY DEF SettleQueues
  <2>2. ps[1] <= made BY <2>1 DEF ThreadInv, Pitched
  <2>3. fu'[ps].att = NewAttempt(us, ps) BY <1>2, <2>1
  <2>. QED BY <2>1, <2>2, <2>3, SettledNew, ThreadFacts
<1>. HIDE DEF queues
<1>4. ASSUME NEW ps \in Slot, fu[ps].att # 0
      PROVE  fu[ps].att \in Attempt /\ fu[ps].att \in Nat /\ fu[ps].att <= made
  BY <1>4, ThreadFacts DEF ThreadInv, OwnAttempt
<1>5. Pitched'
  <2>1. ASSUME NEW ps \in Slot, fu'[ps].status # "none" PROVE ps[1] <= made'
    <3>1. fu[ps].status # "none" BY <1>2, <2>1 DEF Open
    <3>2. ps[1] <= made BY <3>1 DEF ThreadInv, Pitched
    <3>. QED BY <1>1, <3>2, ThreadFacts
  <2>. QED BY <2>1 DEF Pitched
<1>6. OwnAttempt'
  <2>1. ASSUME NEW ps \in Slot, fu'[ps].att # 0
        PROVE  /\ fu'[ps].att \in Attempt /\ fu'[ps].att <= made'
               /\ \A qs \in Slot : fu'[qs].att = fu'[ps].att => qs = ps
    <3>1. CASE ps \in queues
      <4>1. ASSUME NEW qs \in Slot, fu'[qs].att = fu'[ps].att PROVE qs = ps
        <5>1. CASE qs \in queues
          BY <1>3, <3>1, <4>1, <5>1, NewAttemptsDiffer DEF queues
        <5>2. CASE qs \notin queues
          <6>1. fu[qs].att = fu'[ps].att BY <1>2, <4>1, <5>2
          <6>2. fu[qs].att <= made BY <1>4, <2>1, <6>1
          <6>. QED BY <1>1, <1>3, <3>1, <6>1, <6>2
        <5>. QED BY <5>1, <5>2
      <4>. QED BY <1>3, <3>1, <4>1
    <3>2. CASE ps \notin queues
      <4>1. fu'[ps].att = fu[ps].att BY <1>2, <3>2
      <4>2. fu[ps].att \in Attempt /\ fu[ps].att \in Nat /\ fu[ps].att <= made
        BY <1>4, <2>1, <4>1
      <4>3. ASSUME NEW qs \in Slot, fu'[qs].att = fu'[ps].att PROVE qs = ps
        <5>1. CASE qs \in queues
          BY <1>1, <1>3, <4>1, <4>2, <4>3, <5>1
        <5>2. CASE qs \notin queues
          <6>1. fu[qs].att = fu[ps].att BY <1>2, <4>1, <4>3, <5>2
          <6>. QED BY <2>1, <4>1, <6>1 DEF ThreadInv, OwnAttempt
        <5>. QED BY <5>1, <5>2
      <4>. QED BY <1>1, <4>1, <4>2, <4>3
    <3>. QED BY <3>1, <3>2
  <2>. QED BY <2>1 DEF OwnAttempt
<1>7. \A ps \in Slot : fu'[ps].status \in Open => fu[ps].status \in Open BY <1>2 DEF Open
<1>8. OneOpen' BY <1>7 DEF ThreadInv, OneOpen
<1>9. OnItsThread'
  <2>1. ASSUME NEW a \in Attempt, Live(a)'
        PROVE  /\ rows'[a].thread \in Attempt /\ rows'[a].thread <= made'
               /\ rows'[a].user = rows'[rows'[a].thread].user
    <3>1. PICK p \in Attempt : /\ rows'[a].thread = p /\ p <= made
                               /\ rows'[a].user = rows[p].user
      <4>1. CASE \E ps \in SettleQueues(us) :
                   rows'[a].thread = ps[1] /\ rows'[a].user = rows[ps[1]].user
        BY <1>3, <4>1 DEF queues
      <4>2. CASE /\ Live(a) /\ rows'[a].thread = rows[a].thread
                 /\ rows'[a].user = rows[a].user
        BY <4>2 DEF ThreadInv, OnItsThread
      <4>. QED BY <2>1, <4>1, <4>2, SettledLive
    <3>2. rows'[p].user = rows[p].user BY <3>1, SettledMade DEF Keeps
    <3>3. p <= made' BY <1>1, <3>1, ThreadFacts
    <3>. QED BY <3>1, <3>2, <3>3
  <2>. QED BY <2>1 DEF OnItsThread
<1>10. WaitsQueued'
  <2>1. ASSUME NEW a \in Attempt, Live(a)', rows'[a].status \in Waiting
        PROVE  \E ps \in Slot : fu'[ps].status = "queued" /\ fu'[ps].att = a
    <3>1. CASE \E ps \in SettleQueues(us) : NewAttempt(us, ps) = a
      <4>1. PICK ps \in queues : NewAttempt(us, ps) = a BY <3>1 DEF queues
      <4>2. ps \in Slot BY <1>3
      <4>. QED BY <1>2, <4>1, <4>2
    <3>2. CASE /\ Live(a) /\ rows[a].status \in Waiting
               /\ \A ps \in SettleStops(us) : fu[ps].att # a
      <4>1. PICK ps \in Slot : fu[ps].status = "queued" /\ fu[ps].att = a
        BY <3>2 DEF ThreadInv, WaitsQueued
      <4>. QED BY <1>2, <3>2, <4>1
    <3>. QED BY <2>1, <3>1, <3>2, SettledLive
  <2>. QED BY <2>1 DEF WaitsQueued
<1>11. AloneOnThread'
  <2>1. ASSUME NEW ps \in Slot, NEW a \in Attempt, Live(a)', rows'[a].thread = ps[1]
        PROVE  /\ fu'[ps].status # "scheduled"
               /\ fu'[ps].status = "queued" => fu'[ps].att = a
    <3>1. CASE \E qs \in SettleQueues(us) : NewAttempt(us, qs) = a /\ rows'[a].thread = qs[1]
      <4>1. PICK qs \in queues : NewAttempt(us, qs) = a /\ qs[1] = ps[1]
        BY <2>1, <3>1 DEF queues
      <4>2. ASSUME fu'[ps].status \in Open PROVE ps = qs
        <5>1. fu[ps].status \in Open BY <1>7, <4>2
        <5>2. qs \in Slot /\ fu[qs].status \in Open BY <1>3 DEF Open
        <5>. QED BY <4>1, <5>1, <5>2 DEF ThreadInv, OneOpen
      <4>3. fu'[qs].status = "queued" /\ fu'[qs].att = a BY <1>2, <1>3, <4>1
      <4>. QED BY <4>2, <4>3 DEF Open
    <3>2. CASE Live(a) /\ rows'[a].thread = rows[a].thread
      <4>1. /\ fu[ps].status # "scheduled"
            /\ fu[ps].status = "queued" => fu[ps].att = a
        BY <2>1, <3>2 DEF ThreadInv, AloneOnThread
      <4>. QED BY <1>2, <4>1
    <3>. QED BY <2>1, <3>1, <3>2, SettledLive
  <2>. QED BY <2>1 DEF AloneOnThread
<1>12. OneLiveFollowUp'
  <2>1. ASSUME NEW a \in Attempt, NEW b \in Attempt, Live(a)', Live(b)',
               rows'[a].thread = rows'[b].thread,
               \E ps \in SettleQueues(us) : NewAttempt(us, ps) = a /\ rows'[a].thread = ps[1]
        PROVE  a = b
    <3>1. PICK ps \in queues : NewAttempt(us, ps) = a /\ rows'[a].thread = ps[1]
      BY <2>1 DEF queues
    <3>2. ps \in Slot /\ fu'[ps].status = "queued" /\ fu'[ps].att = a BY <1>2, <1>3, <3>1
    <3>3. fu'[ps].att = b BY <1>11, <2>1, <3>1, <3>2 DEF AloneOnThread
    <3>. QED BY <3>2, <3>3
  <2>2. ASSUME NEW a \in Attempt, NEW b \in Attempt, Live(a)', Live(b)',
               rows'[a].thread = rows'[b].thread
        PROVE  a = b
    <3>1. CASE Live(a) /\ rows'[a].thread = rows[a].thread
               /\ Live(b) /\ rows'[b].thread = rows[b].thread
      BY <2>2, <3>1 DEF ThreadInv, OneLiveFollowUp
    <3>. QED BY <2>1, <2>2, <3>1, SettledLive
  <2>. QED BY <2>2 DEF OneLiveFollowUp
<1>13. FollowUpMatchesAttempt'
  <2>1. ASSUME NEW ps \in Slot, fu'[ps].status \in {"queued", "sent"}
        PROVE  /\ fu'[ps].att \in Attempt
               /\ rows'[fu'[ps].att].kind = "follow_up" /\ rows'[fu'[ps].att].thread = ps[1]
               /\ (fu'[ps].status = "sent") <=> (rows'[fu'[ps].att].status = "sent")
               /\ \A qs \in Slot : fu'[qs].att = fu'[ps].att => qs = ps
    <3>1. CASE ps \in queues
      <4>1. /\ fu'[ps].status = "queued" /\ fu'[ps].att = NewAttempt(us, ps)
            /\ fu'[ps].att \in Attempt /\ fu'[ps].att # 0
        BY <1>2, <1>3, <3>1, ThreadFacts
      <4>2. /\ rows'[fu'[ps].att].kind = "follow_up" /\ rows'[fu'[ps].att].thread = ps[1]
            /\ rows'[fu'[ps].att].status # "sent"
        BY <3>1, <4>1, SettledNew DEF queues
      <4>3. \A qs \in Slot : fu'[qs].att = fu'[ps].att => qs = ps
        BY <1>6, <4>1 DEF OwnAttempt
      <4>. QED BY <4>1, <4>2, <4>3
    <3>2. CASE ps \notin queues
      <4>1. fu'[ps] = fu[ps] BY <1>2, <2>1, <3>2
      <4>2. /\ fu[ps].att \in Attempt
            /\ rows[fu[ps].att].kind = "follow_up" /\ rows[fu[ps].att].thread = ps[1]
            /\ (fu[ps].status = "sent") <=> (rows[fu[ps].att].status = "sent")
        BY <2>1, <4>1 DEF ThreadInv, FollowUpMatchesAttempt
      <4>3. fu[ps].att # 0 BY <4>2, ThreadFacts
      <4>4. fu[ps].att <= made BY <1>4, <4>3
      <4>5. Keeps(rows[fu[ps].att], rows'[fu[ps].att])
            /\ SameEnd(rows[fu[ps].att], rows'[fu[ps].att])
        BY <4>2, <4>4, SettledMade
      <4>6. \A qs \in Slot : fu'[qs].att = fu'[ps].att => qs = ps
        BY <1>6, <4>1, <4>3 DEF OwnAttempt
      <4>. QED BY <4>1, <4>2, <4>5, <4>6 DEF Keeps, SameEnd
    <3>. QED BY <3>1, <3>2
  <2>. QED BY <2>1 DEF FollowUpMatchesAttempt
<1>. QED BY <1>5, <1>6, <1>8, <1>9, <1>10, <1>11, <1>12, <1>13 DEF ThreadInv


-----------------------------------------------------------------------------
\* What each step does to the threads and to the cap

\* A step carries the threads along or settles them, and starts nothing uncounted.
Tidy == (Calm \/ \E us : Settled(us)) /\ Fits' /\ (NoneStarts \/ OneStarts)

\* Room for what is scheduled is left when nothing is made and nothing scheduled.
LEMMA CalmFits ==
  ASSUME IInv, Fits, Calm, made' = made
  PROVE  Fits'
<1>1. Scheduled' \in SUBSET Scheduled BY DEF Calm, SlotCarries, Scheduled, Open
<1>2. IsFiniteSet(Scheduled) /\ Cardinality(Scheduled) \in Nat BY QueuesFinite
<1>3. Cardinality(Scheduled') <= Cardinality(Scheduled) /\ Cardinality(Scheduled') \in Nat
  BY <1>1, <1>2, FS_Subset, FS_CardinalityType
<1>4. made \in Nat /\ MaxRows \in Nat BY ThreadFacts, BoundsAssumption
<1>. QED BY <1>2, <1>3, <1>4 DEF Fits

\* A step is tidy whose rows stay and whose follow-ups stay or are stopped with them.
LEMMA StayTidy ==
  ASSUME IInv, ThreadInv, Fits, made' = made,
         \A a \in Attempt : Stays(rows[a], rows'[a]),
         \A ps \in Slot :
           \/ fu'[ps].status = fu[ps].status /\ fu'[ps].att = fu[ps].att
           \/ /\ fu[ps].status \in Open /\ fu'[ps].status \in {"stopped", "cancelled"}
              /\ fu'[ps].att \in {0, fu[ps].att}
              /\ fu[ps].att # 0 => rows'[fu[ps].att].status \notin Waiting
  PROVE  Tidy
<1>1. \A a \in Attempt : Carries(a) BY DEF Stays, Carries
<1>2. \A ps \in Slot : fu[ps].status \in {"queued", "sent"} => fu[ps].att \in Attempt
  BY DEF ThreadInv, FollowUpMatchesAttempt
<1>3. \A ps \in Slot : SlotCarries(ps) BY <1>2 DEF SlotCarries, Stays
<1>4. Calm BY <1>1, <1>3, ThreadFacts DEF Calm
<1>5. NoneStarts BY DEF NoneStarts, Stays, NoStart, Keeps
<1>. QED BY <1>4, <1>5, CalmFits DEF Tidy

\* A step that leaves the tables alone.
LEMMA SameTidy ==
  ASSUME IInv, ThreadInv, Fits, UNCHANGED <<rows, made, fu>>
  PROVE  Tidy
BY StayTidy, StaysReflexive

\* gmail_send_reserve.
LEMMA ReserveTidy ==
  ASSUME IInv, ThreadInv, Fits, NEW u \in User, NEW k \in Key, NEW q \in Request,
         Reserve(u, k, q)
  PROVE  Tidy
<1>. DEFINE row == [NoRow EXCEPT
              !.user = u, !.key = k, !.kind = q.kind,
              !.hotel = IF q.hotel # None THEN q.hotel ELSE q.itemHotel,
              !.recipient = q.recipient,
              !.thread = IF q.thread \in {a \in Attempt : rows[a].status = "sent"}
                           THEN q.thread ELSE 0]
<1>1. row.kind = q.kind /\ ~row.today BY DEF NoRow
<1>2. q.kind \in {"pitch", "reply"} BY RequestAssumption
<1>3. /\ made' = made + 1 /\ fu' = fu /\ Room
      /\ \/ rows' = [rows EXCEPT ![made + 1] = Queued(row, gap[u])]
         \/ rows' = [rows EXCEPT ![made + 1] = Failed(row, "refused")]
  BY DEF Reserve
<1>4. /\ Queued(row, gap[u]).kind = q.kind /\ ~Queued(row, gap[u]).today
      /\ Failed(row, "refused").kind = q.kind /\ ~Failed(row, "refused").today
  BY <1>1 DEF Queued, Failed, NoRow
<1>. HIDE DEF row
<1>5. made \in Nat /\ rows \in Rows BY Facts
<1>6. ASSUME NEW a \in Attempt
      PROVE  \/ rows'[a] = rows[a]
             \/ a > made /\ rows'[a].kind # "follow_up" /\ ~rows'[a].today
                /\ rows[a].status = "none"
  <2>1. CASE a = made + 1
    <3>1. rows'[a] \in {Queued(row, gap[u]), Failed(row, "refused")}
      BY <1>3, <1>5, <2>1 DEF Rows
    <3>2. a > made /\ rows[a].status = "none" BY <1>5, <2>1, ThreadFacts
    <3>. QED BY <1>2, <1>4, <3>1, <3>2
  <2>2. CASE a # made + 1 BY <1>3, <1>5, <2>2 DEF Rows
  <2>. QED BY <2>1, <2>2
<1>7. ASSUME NEW ps \in Slot PROVE SlotCarries(ps)
  <2>1. ASSUME fu[ps].status \in {"queued", "sent"}
        PROVE  SameEnd(rows[fu[ps].att], rows'[fu[ps].att])
    <3>1. fu[ps].att \in Attempt BY <2>1 DEF ThreadInv, FollowUpMatchesAttempt
    <3>2. fu[ps].att # 0 BY <3>1, ThreadFacts
    <3>3. fu[ps].att <= made BY <3>2 DEF ThreadInv, OwnAttempt
    <3>4. ~(fu[ps].att > made) BY <1>5, <3>3, ThreadFacts
    <3>5. rows'[fu[ps].att] = rows[fu[ps].att] BY <1>6, <3>1, <3>4
    <3>. QED BY <3>5 DEF SameEnd
  <2>. QED BY <1>3, <2>1 DEF SlotCarries
<1>8. Calm
  <2>1. \A a \in Attempt : Carries(a) BY <1>6, StaysReflexive DEF Carries, Stays
  <2>. QED BY <1>3, <1>5, <1>7, <2>1 DEF Calm
<1>9. NoneStarts BY <1>6 DEF NoneStarts
<1>10. Fits'
  <2>1. Scheduled' = Scheduled BY <1>3 DEF Scheduled
  <2>2. Cardinality(Scheduled) \in Nat BY QueuesFinite
  <2>. QED BY <1>3, <1>5, <2>1, <2>2, BoundsAssumption DEF Fits, Room
<1>. QED BY <1>8, <1>9, <1>10 DEF Tidy

\* Failing one attempt that waits or is called, and nothing else, keeps every row.
LEMMA FailOneStays ==
  ASSUME IInv, NEW a \in Attempt, NEW c, rows[a].status # "sent",
         rows' = [rows EXCEPT ![a] = Failed(rows[a], c)]
  PROVE  (\A b \in Attempt : Stays(rows[b], rows'[b])) /\ rows'[a].status = "failed"
<1>1. rows \in Rows /\ rows[a] \in Row BY Facts DEF Rows
<1>2. rows'[a] = Failed(rows[a], c) /\ \A b \in Attempt \ {a} : rows'[b] = rows[b]
  BY <1>1 DEF Rows
<1>. QED BY <1>1, <1>2, FailedStays, StaysReflexive

\* gmail_followup_cancel.
LEMMA CancelTidy ==
  ASSUME IInv, ThreadInv, Fits, NEW p \in Attempt, NEW s \in {1, 2}, CancelFollowUp(p, s)
  PROVE  Tidy
<1>. DEFINE xs == <<p, s>>
            a == fu[xs].att
<1>1. xs \in Slot /\ fu \in [Slot -> FollowUp] BY Facts DEF Slot, Typed
<1>2. /\ fu[xs].status \in Open /\ made' = made
      /\ a # 0 => rows[a].status \notin InFlight \cup {"sent"}
      /\ rows' = IF a # 0 /\ rows[a].status \in Waiting
                   THEN [rows EXCEPT ![a] = Failed(rows[a], "followup_stopped")] ELSE rows
      /\ fu' = [fu EXCEPT ![xs] = [status |-> "cancelled", reason |-> "cancelled",
                                     due |-> 0, att |-> 0]]
  BY DEF CancelFollowUp
<1>3. a # 0 => a \in Attempt BY <1>1 DEF ThreadInv, OwnAttempt
<1>4. fu'[xs].status = "cancelled" /\ fu'[xs].att = 0 BY <1>1, <1>2
<1>5. \A ps \in Slot : ps # xs => fu'[ps] = fu[ps] BY <1>1, <1>2
<1>. HIDE DEF xs, a
<1>6. /\ \A b \in Attempt : Stays(rows[b], rows'[b])
      /\ a # 0 => rows'[a].status \notin Waiting
  <2>1. CASE a # 0 /\ rows[a].status \in Waiting
    <3>1. rows[a].status # "sent" BY <2>1 DEF Waiting
    <3>2. rows' = [rows EXCEPT ![a] = Failed(rows[a], "followup_stopped")] BY <1>2, <2>1
    <3>. QED BY <1>3, <2>1, <3>1, <3>2, FailOneStays DEF Waiting
  <2>2. CASE ~(a # 0 /\ rows[a].status \in Waiting)
    BY <1>2, <2>2, StaysReflexive
  <2>. QED BY <2>1, <2>2
<1>7. ASSUME NEW ps \in Slot
      PROVE  \/ fu'[ps].status = fu[ps].status /\ fu'[ps].att = fu[ps].att
             \/ /\ fu[ps].status \in Open /\ fu'[ps].status \in {"stopped", "cancelled"}
                /\ fu'[ps].att \in {0, fu[ps].att}
                /\ fu[ps].att # 0 => rows'[fu[ps].att].status \notin Waiting
  <2>1. CASE ps = xs BY <1>2, <1>4, <1>6, <2>1 DEF a
  <2>2. CASE ps # xs BY <1>5, <2>2
  <2>. QED BY <2>1, <2>2
<1>. QED BY <1>2, <1>6, <1>7, StayTidy


\* The passing of time.
LEMMA TickTidy ==
  ASSUME IInv, ThreadInv, Fits, Tick
  PROVE  Tidy
<1>1. ASSUME NEW a \in Attempt PROVE Stays(rows[a], rows'[a])
  <2>1. rows[a] \in Row BY ThreadFacts
  <2>2. PICK n, m : rows'[a] = [rows[a] EXCEPT !.wait = n, !.today = rows[a].today /\ hour' # 0,
                                               !.age = m]
    BY DEF Tick
  <2>3. /\ rows'[a].user = rows[a].user /\ rows'[a].kind = rows[a].kind
        /\ rows'[a].thread = rows[a].thread /\ rows'[a].status = rows[a].status
        /\ rows'[a].today = (rows[a].today /\ hour' # 0)
    BY <2>1, <2>2 DEF Row
  <2>. QED BY <2>3 DEF Stays, Keeps, SameEnd, NoStart, Waiting, InFlight
<1>2. ASSUME NEW ps \in Slot
      PROVE  fu'[ps].status = fu[ps].status /\ fu'[ps].att = fu[ps].att
  <2>1. fu[ps] \in FollowUp BY ThreadFacts
  <2>2. fu'[ps] = [fu[ps] EXCEPT !.due = Down(fu[ps].due)] BY DEF Tick
  <2>. QED BY <2>1, <2>2 DEF FollowUp
<1>3. made' = made BY DEF Tick
<1>. QED BY <1>1, <1>2, <1>3, StayTidy

\* Stopping the follow-up whose attempt a must not be sent, with the row or after it.
LEMMA BlockTidy ==
  ASSUME IInv, ThreadInv, Fits, NEW a \in Attempt, made' = made,
         NEW c, rows[a].status # "sent",
         rows' = [rows EXCEPT ![a] = Failed(rows[a], c)],
         fu' = BlockFollowUps(a) \/ fu' = fu
  PROVE  Tidy
<1>1. (\A b \in Attempt : Stays(rows[b], rows'[b])) /\ rows'[a].status = "failed"
  BY FailOneStays
<1>2. ASSUME NEW ps \in Slot
      PROVE  \/ fu'[ps].status = fu[ps].status /\ fu'[ps].att = fu[ps].att
             \/ /\ fu[ps].status \in Open /\ fu'[ps].status = "stopped"
                /\ fu'[ps].att = fu[ps].att /\ fu[ps].att = a
  <2>1. fu[ps] \in FollowUp BY ThreadFacts
  <2>2. CASE fu'[ps] = fu[ps] BY <2>2
  <2>3. CASE fu' = BlockFollowUps(a) /\ fu'[ps] # fu[ps]
    <3>1. /\ fu[ps].att = a /\ fu[ps].status \in Open
          /\ \E x : fu'[ps] = [fu[ps] EXCEPT !.status = "stopped", !.due = 0, !.reason = x]
      BY <2>3 DEF BlockFollowUps
    <3>2. fu'[ps].status = "stopped" /\ fu'[ps].att = fu[ps].att BY <2>1, <3>1 DEF FollowUp
    <3>. QED BY <3>1, <3>2
  <2>. QED BY <2>2, <2>3
<1>. QED BY <1>1, <1>2, StayTidy DEF Waiting

\* The gate.
LEMMA GateTidy ==
  ASSUME IInv, ThreadInv, Fits, NEW w \in Worker, Gate(w)
  PROVE  Tidy
<1>. DEFINE a == run[w].att
<1>1. run[w].pc = "gate" /\ made' = made BY DEF Gate, Same
<1>2. a \in Attempt BY <1>1, HeldFacts
<1>3. \/ /\ BlockStops(a)
         /\ rows' = [rows EXCEPT ![a] = Failed(rows[a], "followup_stopped")]
         /\ fu' = BlockFollowUps(a)
      \/ UNCHANGED <<rows, fu>>
  BY DEF Gate
<1>4. BlockStops(a) => rows[a].status # "sent" BY DEF BlockStops, Waiting
<1>. QED BY <1>1, <1>2, <1>3, <1>4, BlockTidy, SameTidy

\* gmail_send_arm_provider.
LEMMA ArmTidy ==
  ASSUME IInv, ThreadInv, Fits, NEW w \in Worker, NEW heard, Arm(w, heard)
  PROVE  Tidy
<1>. DEFINE a == run[w].att
            r == rows[a]
            commits == r.msg # 0 /\ r.status \in InFlight \cup {"sent"}
            live == ~commits /\ r.status \in {"reserved", "provider_called"}
            deleted == live /\ blocked[r.user]
            stops == live /\ ~deleted /\ BlockStops(a)
<1>1. run[w].pc = "arm" /\ made' = made BY DEF Arm, Same
<1>2. a \in Attempt BY <1>1, HeldFacts
<1>3. /\ rows' = IF deleted THEN [rows EXCEPT ![a] = Failed(r, "deletion_pending")]
                 ELSE IF stops THEN [rows EXCEPT ![a] = Failed(r, "followup_stopped")]
                 ELSE rows
      /\ fu' = IF stops THEN BlockFollowUps(a) ELSE fu
  BY DEF Arm
<1>4. deleted \/ stops => rows[a].status # "sent" OBVIOUS
<1>5. stops => ~deleted OBVIOUS
<1>. HIDE DEF a, deleted, stops
<1>. QED BY <1>1, <1>2, <1>3, <1>4, <1>5, BlockTidy, SameTidy

\* One row is rewritten and the follow-ups are left alone.
LEMMA OneRowTidy ==
  ASSUME IInv, ThreadInv, Fits, NEW a \in Attempt, NEW s, rows' = [rows EXCEPT ![a] = s],
         UNCHANGED <<made, fu>>, Stays(rows[a], s)
  PROVE  Tidy
<1>1. rows \in Rows BY Facts
<1>2. \A b \in Attempt : Stays(rows[b], rows'[b])
  <2>1. rows'[a] = s /\ \A b \in Attempt \ {a} : rows'[b] = rows[b] BY <1>1 DEF Rows
  <2>. QED BY <2>1, StaysReflexive
<1>. QED BY <1>2, StayTidy

\* gmail_send_remember_provider.
LEMMA RememberTidy ==
  ASSUME IInv, ThreadInv, Fits, NEW w \in Worker, NEW heard, Remember(w, heard)
  PROVE  Tidy
<1>. DEFINE a == run[w].att
            s == [rows[a] EXCEPT !.msg = run[w].msg, !.age = 0]
<1>1. run[w].pc = "remember" /\ UNCHANGED <<made, fu>> BY DEF Remember, Same
<1>2. a \in Attempt /\ rows[a] \in Row /\ rows \in Rows BY <1>1, HeldFacts, Facts
<1>3. /\ s.user = rows[a].user /\ s.kind = rows[a].kind /\ s.thread = rows[a].thread
      /\ s.status = rows[a].status /\ s.today = rows[a].today
  BY <1>2 DEF Row
<1>4. rows' = rows \/ rows' = [rows EXCEPT ![a].msg = run[w].msg, ![a].age = 0]
  BY DEF Remember
<1>5. [rows EXCEPT ![a].msg = run[w].msg, ![a].age = 0] = [rows EXCEPT ![a] = s]
  BY <1>2 DEF Rows
<1>6. Stays(rows[a], s)
  <2>. HIDE DEF s
  <2>. QED BY <1>3 DEF Stays, Keeps, SameEnd, NoStart, Waiting, InFlight
<1>. HIDE DEF s
<1>. QED BY <1>1, <1>2, <1>4, <1>5, <1>6, OneRowTidy, SameTidy

\* gmail_send_fail.
LEMMA FailTidy ==
  ASSUME IInv, ThreadInv, Fits, NEW w \in Worker, Fail(w)
  PROVE  Tidy
<1>. DEFINE a == run[w].att
<1>1. run[w].pc = "fail" /\ UNCHANGED <<made, fu>> BY DEF Fail, Same
<1>2. a \in Attempt /\ rows[a] \in Row BY <1>1, HeldFacts
<1>3. rows' = rows \/ rows' = [rows EXCEPT ![a] = FailRow(rows[a], run[w].code)]
  BY DEF Fail
<1>. QED BY <1>1, <1>2, <1>3, FailRowStays, OneRowTidy, SameTidy

\* gmail_send_mark_provider counts the other starts before it adds one.
LEMMA MarkTidy ==
  ASSUME IInv, ThreadInv, Fits, NEW w \in Worker, NEW heard, Mark(w, heard)
  PROVE  Tidy
<1>. DEFINE a == run[w].att
<1>1. run[w].pc = "mark" /\ UNCHANGED <<made, fu>> /\ rows' = [rows EXCEPT ![a] = MarkRow(a)]
  BY DEF Mark, Same
<1>2. a \in Attempt /\ rows[a] \in Row /\ rows \in Rows BY <1>1, HeldFacts, Facts
<1>. HIDE DEF a
<1>3. rows'[a] = MarkRow(a) /\ \A b \in Attempt \ {a} : rows'[b] = rows[b]
  BY <1>1, <1>2 DEF Rows
<1>4. Keeps(rows[a], rows'[a]) /\ SameEnd(rows[a], rows'[a])
  BY <1>2, <1>3, MarkRowStays
<1>5. ASSUME NEW b \in Attempt
      PROVE  Keeps(rows[b], rows'[b]) /\ SameEnd(rows[b], rows'[b])
  <2>1. CASE b = a BY <1>4, <2>1
  <2>2. CASE b # a
    <3>1. rows'[b] = rows[b] BY <1>3, <2>2
    <3>. QED BY <3>1, StaysReflexive DEF Stays
  <2>. QED BY <2>1, <2>2
<1>6. Calm
  <2>1. \A ps \in Slot : fu[ps].status \in {"queued", "sent"} => fu[ps].att \in Attempt
    BY DEF ThreadInv, FollowUpMatchesAttempt
  <2>2. \A ps \in Slot : SlotCarries(ps) BY <1>1, <1>5, <2>1 DEF SlotCarries
  <2>3. \A b \in Attempt : Carries(b) BY <1>5 DEF Carries
  <2>. QED BY <1>1, <2>2, <2>3, ThreadFacts DEF Calm
<1>7. NoneStarts \/ OneStarts
  <2>1. CASE NoStart(rows[a], MarkRow(a))
    <3>1. \A b \in Attempt : rows'[b].today => rows[b].today BY <1>3, <2>1 DEF NoStart
    <3>. QED BY <1>5, <3>1 DEF NoneStarts, Keeps
  <2>2. CASE Cardinality({b \in Attempt \ {a} : rows[b].user = rows[a].user /\ rows[b].today})
               < DailyCap
    BY <1>2, <1>3, <1>4, <2>2 DEF OneStarts, Keeps
  <2>. QED BY <1>2, <2>1, <2>2, MarkRowStays
<1>. QED BY <1>1, <1>6, <1>7, CalmFits DEF Tidy


\* gmail_send_commit and its trigger.
LEMMA CommitTidy ==
  ASSUME IInv, ThreadInv, Fits, NEW w \in Worker, NEW heard, Commit(w, heard)
  PROVE  Tidy
<1>. DEFINE a == run[w].att
            s == [rows[a] EXCEPT !.status = "sent", !.age = 0]
<1>1. run[w].pc = "commit" /\ made' = made BY DEF Commit, Same
<1>2. a \in Attempt /\ rows[a] \in Row /\ rows \in Rows BY <1>1, HeldFacts, Facts
<1>3. \/ UNCHANGED <<rows, fu>>
      \/ /\ rows[a].status \in InFlight /\ fu' = Closed(a)
         /\ rows' = [rows EXCEPT ![a].status = "sent", ![a].age = 0]
  BY DEF Commit, Stores
<1>4. CASE UNCHANGED <<rows, fu>> BY <1>1, <1>4, SameTidy
<1>5. CASE /\ rows[a].status \in InFlight /\ fu' = Closed(a)
           /\ rows' = [rows EXCEPT ![a].status = "sent", ![a].age = 0]
  <2>1. /\ s.user = rows[a].user /\ s.kind = rows[a].kind /\ s.thread = rows[a].thread
        /\ s.status = "sent" /\ s.today = rows[a].today
    BY <1>2 DEF Row
  <2>2. rows' = [rows EXCEPT ![a] = s] BY <1>2, <1>5 DEF Rows
  <2>. HIDE DEF a, s
  <2>3. rows'[a] = s /\ \A b \in Attempt \ {a} : rows'[b] = rows[b] BY <1>2, <2>2 DEF Rows
  <2>4. ASSUME NEW b \in Attempt
        PROVE  /\ Keeps(rows[b], rows'[b]) /\ NoStart(rows[b], rows'[b])
               /\ b # a => SameEnd(rows[b], rows'[b])
    <3>1. CASE b = a
      BY <2>1, <2>3, <3>1 DEF Keeps, NoStart, Waiting, InFlight
    <3>2. CASE b # a
      <4>1. rows'[b] = rows[b] BY <2>3, <3>2
      <4>. QED BY <4>1, StaysReflexive DEF Stays
    <3>. QED BY <3>1, <3>2
  <2>5. ASSUME NEW ps \in Slot PROVE SlotCarries(ps)
    <3>1. fu[ps] \in FollowUp BY ThreadFacts
    <3>2. CASE rows[a].kind = "follow_up" /\ fu[ps].att = a /\ fu[ps].status = "queued"
      <4>1. fu'[ps] = [fu[ps] EXCEPT !.status = "sent"] BY <1>5, <3>2 DEF Closed
      <4>2. fu'[ps].status = "sent" /\ fu'[ps].att = fu[ps].att BY <3>1, <4>1 DEF FollowUp
      <4>. QED BY <2>1, <2>3, <3>2, <4>2 DEF SlotCarries
    <3>3. CASE ~(rows[a].kind = "follow_up" /\ fu[ps].att = a /\ fu[ps].status = "queued")
      <4>1. fu'[ps] = fu[ps] BY <1>5, <3>3 DEF Closed
      <4>2. ASSUME fu[ps].status \in {"queued", "sent"}
            PROVE  SameEnd(rows[fu[ps].att], rows'[fu[ps].att])
        <5>1. /\ fu[ps].att \in Attempt /\ rows[fu[ps].att].kind = "follow_up"
              /\ (fu[ps].status = "sent") <=> (rows[fu[ps].att].status = "sent")
          BY <4>2 DEF ThreadInv, FollowUpMatchesAttempt
        <5>2. fu[ps].att # a BY <1>5, <3>3, <4>2, <5>1 DEF InFlight
        <5>. QED BY <2>4, <5>1, <5>2
      <4>. QED BY <4>1, <4>2 DEF SlotCarries
    <3>. QED BY <3>2, <3>3
  <2>6. Calm BY <1>1, <2>4, <2>5, ThreadFacts DEF Calm, Carries
  <2>7. NoneStarts BY <2>4 DEF NoneStarts, NoStart, Keeps
  <2>. QED BY <1>1, <2>6, <2>7, CalmFits DEF Tidy
<1>. QED BY <1>3, <1>4, <1>5

\* gmail_followup_settle on the rows rs: new attempts, and rows that stay.
LEMMA SettleRowsStays ==
  ASSUME IInv, Fits, NEW us, NEW rs \in Rows, NEW a \in Attempt
  PROVE  \/ /\ a > made /\ SettleRows(us, rs)[a].kind = "follow_up"
            /\ SettleRows(us, rs)[a].status = "queued" /\ ~SettleRows(us, rs)[a].today
            /\ \E ps \in SettleQueues(us) :
                 /\ NewAttempt(us, ps) = a /\ SettleRows(us, rs)[a].thread = ps[1]
                 /\ SettleRows(us, rs)[a].user = rows[ps[1]].user
         \/ /\ Stays(rs[a], SettleRows(us, rs)[a])
            /\ \A ps \in SettleQueues(us) : NewAttempt(us, ps) # a
            /\ \A ps \in SettleStops(us) : fu[ps].att = a =>
                 SettleRows(us, rs)[a].status \notin Waiting
<1>1. rs[a] \in Row BY DEF Rows
<1>2. CASE a > made /\ \E ps \in SettleQueues(us) : NewAttempt(us, ps) = a
  <2>. DEFINE qs == CHOOSE ps \in SettleQueues(us) : NewAttempt(us, ps) = a
              r == SettleRows(us, rs)[a]
  <2>1. qs \in SettleQueues(us) /\ NewAttempt(us, qs) = a BY <1>2
  <2>2. r = FollowUpRow(qs[1]) BY <1>2 DEF SettleRows
  <2>. HIDE DEF qs
  <2>3. /\ r.kind = "follow_up" /\ r.status = "queued" /\ ~r.today
        /\ r.thread = qs[1] /\ r.user = rows[qs[1]].user
    BY <2>2 DEF FollowUpRow, NoRow
  <2>. HIDE DEF r
  <2>4. \E ps \in SettleQueues(us) : NewAttempt(us, ps) = a /\ r.thread = ps[1]
                                     /\ r.user = rows[ps[1]].user
    BY <2>1, <2>3
  <2>. QED BY <1>2, <2>3, <2>4 DEF r
<1>3. CASE ~(a > made /\ \E ps \in SettleQueues(us) : NewAttempt(us, ps) = a)
  <2>1. \A ps \in SettleQueues(us) : NewAttempt(us, ps) # a BY <1>3, NewAttempts
  <2>2. CASE rs[a].status \in Waiting /\ \E ps \in SettleStops(us) : fu[ps].att = a
    <3>1. SettleRows(us, rs)[a] = Failed(rs[a], "followup_stopped")
      BY <1>3, <2>2 DEF SettleRows
    <3>2. rs[a].status # "sent" BY <2>2 DEF Waiting
    <3>. QED BY <1>1, <2>1, <3>1, <3>2, FailedStays DEF Waiting
  <2>3. CASE ~(rs[a].status \in Waiting /\ \E ps \in SettleStops(us) : fu[ps].att = a)
    <3>1. SettleRows(us, rs)[a] = rs[a] BY <1>3, <2>3 DEF SettleRows
    <3>. QED BY <2>1, <2>3, <3>1, StaysReflexive
  <2>. QED BY <2>2, <2>3
<1>. QED BY <1>2, <1>3

\* A step that settles on rows that stay, and lets them stay afterwards, is tidy.
LEMMA SettledTidy ==
  ASSUME IInv, ThreadInv, Fits, NEW us, NEW rs \in Rows,
         fu' = SettleFollowUps(us), made' = SettleMade(us),
         \A a \in Attempt : Stays(rows[a], rs[a]) /\ Stays(SettleRows(us, rs)[a], rows'[a])
  PROVE  Tidy
<1>. DEFINE r(a) == SettleRows(us, rs)[a]
<1>1. ASSUME NEW a \in Attempt
      PROVE  SettledRow(us, a) /\ (rows'[a].today => rows[a].today /\ rows'[a].user = rows[a].user)
  <2>1. Stays(rows[a], rs[a]) /\ Stays(r(a), rows'[a]) OBVIOUS
  <2>2. CASE /\ a > made /\ r(a).kind = "follow_up" /\ r(a).status = "queued" /\ ~r(a).today
             /\ \E ps \in SettleQueues(us) :
                  /\ NewAttempt(us, ps) = a /\ r(a).thread = ps[1]
                  /\ r(a).user = rows[ps[1]].user
    <3>. HIDE DEF r
    <3>1. /\ rows'[a].kind = "follow_up" /\ rows'[a].status # "sent" /\ ~rows'[a].today
          /\ rows'[a].thread = r(a).thread /\ rows'[a].user = r(a).user
      BY <2>1, <2>2 DEF Stays, Keeps, SameEnd, NoStart
    <3>. QED BY <2>2, <3>1 DEF SettledRow
  <2>3. CASE /\ Stays(rs[a], r(a))
             /\ \A ps \in SettleQueues(us) : NewAttempt(us, ps) # a
             /\ \A ps \in SettleStops(us) : fu[ps].att = a => r(a).status \notin Waiting
    <3>. HIDE DEF r
    <3>1. Stays(rows[a], rows'[a]) BY <2>1, <2>3, StaysTransitive
    <3>2. rows'[a].status \in Waiting => r(a).status \in Waiting BY <2>1 DEF Stays, Keeps
    <3>. QED BY <2>3, <3>1, <3>2 DEF SettledRow, Stays, Keeps, NoStart
  <2>. QED BY <2>2, <2>3, SettleRowsStays
<1>2. Settled(us) BY <1>1 DEF Settled
<1>3. NoneStarts BY <1>1 DEF NoneStarts
<1>. QED BY <1>2, <1>3, SettledFits DEF Tidy

\* gmail_followup_settle outside a claim.
LEMMA SettleTidy ==
  ASSUME IInv, ThreadInv, Fits, NEW us, Settle(us)
  PROVE  Tidy
<1>1. rows' = SettleRows(us, rows) /\ fu' = SettleFollowUps(us) /\ made' = SettleMade(us)
  BY DEF Settle
<1>2. rows \in Rows BY Facts
<1>. QED BY <1>1, <1>2, StaysReflexive, SettledTidy

\* A claim sweeps, settles every creator and fails what is blocked; what it then does
\* to the rows lets them stay.
LEMMA ClaimTidy ==
  ASSUME IInv, ThreadInv, Fits, fu' = SettleFollowUps(User), made' = SettleMade(User),
         \A a \in Attempt : Stays(ClaimRows[a], rows'[a])
  PROVE  Tidy
<1>. DEFINE swept == SweepStale(rows)
            settled == SettleRows(User, swept)
<1>1. Typed /\ rows \in Rows BY Facts
<1>2. swept \in Rows /\ \A a \in Attempt : Stays(rows[a], swept[a])
  BY <1>1, SweepStaleMoves, SweepStaleStays
<1>. HIDE DEF swept
<1>3. settled \in Rows BY <1>1, <1>2, SettleRowsMoves
<1>4. ASSUME NEW a \in Attempt PROVE Stays(settled[a], rows'[a])
  <2>. HIDE DEF settled
  <2>1. ClaimRows = FailBlocked(settled) BY DEF ClaimRows, swept, settled
  <2>2. Stays(settled[a], ClaimRows[a]) BY <1>3, <2>1, FailBlockedStays
  <2>. QED BY <2>2, StaysTransitive
<1>. QED BY <1>2, <1>4, SettledTidy

\* gmail_send_claim_due, whatever it hands out.
LEMMA ClaimsTidy ==
  ASSUME IInv, ThreadInv, Fits, NEW w \in Worker, NEW heard,
         ClaimNothing(w) \/ ClaimCommit(w, heard) \/ ClaimSend(w, heard)
  PROVE  Tidy
<1>1. ClaimRows \in Rows BY ClaimRowsMoves
<1>2. fu' = SettleFollowUps(User) /\ made' = SettleMade(User)
  BY DEF ClaimNothing, ClaimCommit, ClaimSend
<1>3. CASE ClaimNothing(w)
  <2>1. rows' = Deferred(ClaimRows, DueUsers(ClaimRows)) BY <1>3 DEF ClaimNothing
  <2>. QED BY <1>1, <1>2, <2>1, DeferredStays, ClaimTidy
<1>4. CASE ClaimCommit(w, heard)
  <2>1. rows' = ClaimRows BY <1>4 DEF ClaimCommit
  <2>. QED BY <1>2, <2>1, StaysReflexive, ClaimTidy
<1>5. CASE ClaimSend(w, heard)
  <2>1. PICK u \in DueUsers(ClaimRows), skipped \in SUBSET DueUsers(ClaimRows) :
          \E a \in DueOf(ClaimRows, u) : rows' = Reserved(Deferred(ClaimRows, skipped), u, a)
    BY <1>5 DEF ClaimSend
  <2>2. PICK a \in DueOf(ClaimRows, u) : rows' = Reserved(Deferred(ClaimRows, skipped), u, a)
    BY <2>1
  <2>. DEFINE rs == Deferred(ClaimRows, skipped)
  <2>3. a \in Attempt /\ ClaimRows[a].status = "queued" BY <2>2 DEF DueOf
  <2>4. rs \in Rows /\ rs[a].status = "queued" BY <1>1, <2>3, DeferredSame
  <2>5. \A b \in Attempt : Stays(ClaimRows[b], rs[b]) BY <1>1, DeferredStays
  <2>6. rows' = Reserved(rs, u, a) BY <2>2
  <2>. HIDE DEF rs
  <2>7. \A b \in Attempt : Stays(rs[b], rows'[b]) BY <2>3, <2>4, <2>6, ReservedStays
  <2>. QED BY <1>2, <2>5, <2>7, StaysTransitive, ClaimTidy
<1>. QED BY <1>3, <1>4, <1>5


-----------------------------------------------------------------------------
\* The invariant of the threads is inductive

\* gmail_followup_schedule finds no follow-up and no live attempt on the thread.
LEMMA ScheduleKeeps ==
  ASSUME IInv, IInv', ThreadInv, Fits, NEW p \in Attempt, ScheduleFollowUp(p)
  PROVE  ThreadInv' /\ Fits' /\ NoneStarts
<1>1. PICK d \in 0..FollowDelay, xs \in {<<p, 1>>, <<p, 2>>} :
        fu' = [fu EXCEPT ![xs] = [status |-> "scheduled", reason |-> "", due |-> d, att |-> 0]]
  BY DEF ScheduleFollowUp
<1>2. /\ rows' = rows /\ made' = made /\ Room /\ rows[p].status = "sent"
      /\ \A t \in {1, 2} : fu[<<p, t>>].status \notin Open
      /\ \A a \in Attempt : ~(/\ rows[a].thread = p /\ rows[a].user = rows[p].user
                              /\ rows[a].status \in InFlight)
  BY DEF ScheduleFollowUp
<1>3. xs \in Slot /\ xs[1] = p /\ fu \in [Slot -> FollowUp]
  <2>1. <<p, 1>> \in Slot /\ <<p, 2>> \in Slot BY DEF Slot
  <2>2. xs[1] = p OBVIOUS
  <2>. QED BY <2>1, <2>2, Facts DEF Typed
<1>4. ASSUME NEW ps \in Slot, ps[1] = p PROVE ps \in {<<p, 1>>, <<p, 2>>}
  <2>1. PICK q \in Attempt, t \in {1, 2} : ps = <<q, t>> BY DEF Slot
  <2>. QED BY <1>4, <2>1
<1>5. \A ps \in Slot : ps[1] = p => fu[ps].status \notin Open
  <2>1. /\ fu[<<p, 1>>].status \notin Open /\ fu[<<p, 2>>].status \notin Open BY <1>2
  <2>. QED BY <1>4, <2>1
<1>6. fu'[xs].status = "scheduled" /\ fu'[xs].att = 0 BY <1>1, <1>3
<1>7. \A ps \in Slot : ps # xs => fu'[ps] = fu[ps] BY <1>1, <1>3
<1>8. ASSUME NEW a \in Attempt, Live(a), rows[a].thread = p PROVE FALSE
  <2>1. CASE rows[a].status \in InFlight BY <1>2, <1>8, <2>1 DEF ThreadInv, OnItsThread
  <2>2. CASE rows[a].status \in Waiting
    <3>1. PICK ps \in Slot : fu[ps].status = "queued" /\ fu[ps].att = a
      BY <1>8, <2>2 DEF ThreadInv, WaitsQueued
    <3>2. ps[1] = p BY <1>8, <3>1 DEF ThreadInv, FollowUpMatchesAttempt
    <3>. QED BY <1>5, <3>1, <3>2 DEF Open
  <2>. QED BY <1>8, <2>1, <2>2 DEF Live
<1>9. p <= made
  <2>1. ~(p > made) BY <1>2, ThreadFacts
  <2>. QED BY <2>1, ThreadFacts
<1>10. Pitched'
  <2>1. ASSUME NEW ps \in Slot, fu'[ps].status # "none" PROVE ps[1] <= made'
    <3>1. CASE ps = xs BY <1>2, <1>3, <1>9, <3>1
    <3>2. CASE ps # xs
      <4>1. fu[ps].status # "none" BY <1>7, <2>1, <3>2
      <4>. QED BY <1>2, <4>1 DEF ThreadInv, Pitched
    <3>. QED BY <3>1, <3>2
  <2>. QED BY <2>1 DEF Pitched
<1>11. OwnAttempt'
  <2>1. ASSUME NEW ps \in Slot, fu'[ps].att # 0
        PROVE  /\ fu'[ps].att \in Attempt /\ fu'[ps].att <= made'
               /\ \A qs \in Slot : fu'[qs].att = fu'[ps].att => qs = ps
    <3>1. fu'[ps] = fu[ps] BY <1>6, <1>7, <2>1
    <3>2. /\ fu[ps].att \in Attempt /\ fu[ps].att <= made
          /\ \A qs \in Slot : fu[qs].att = fu[ps].att => qs = ps
      BY <2>1, <3>1 DEF ThreadInv, OwnAttempt
    <3>3. ASSUME NEW qs \in Slot, fu'[qs].att = fu'[ps].att PROVE qs = ps
      <4>1. fu'[qs] = fu[qs] BY <1>6, <1>7, <2>1, <3>3
      <4>. QED BY <3>1, <3>2, <3>3, <4>1
    <3>. QED BY <1>2, <3>1, <3>2, <3>3
  <2>. QED BY <2>1 DEF OwnAttempt
<1>12. OneOpen'
  <2>1. ASSUME NEW ps \in Slot, NEW qs \in Slot, ps[1] = qs[1],
               fu'[ps].status \in Open, fu'[qs].status \in Open
        PROVE  ps = qs
    <3>1. CASE ps = xs \/ qs = xs
      <4>1. ps[1] = p /\ qs[1] = p BY <1>3, <2>1, <3>1
      <4>. QED BY <1>5, <1>7, <2>1, <4>1
    <3>2. CASE ps # xs /\ qs # xs
      <4>1. fu'[ps] = fu[ps] /\ fu'[qs] = fu[qs] BY <1>7, <3>2
      <4>. QED BY <2>1, <4>1 DEF ThreadInv, OneOpen
    <3>. QED BY <3>1, <3>2
  <2>. QED BY <2>1 DEF OneOpen
<1>13. \A a \in Attempt : Live(a)' = Live(a) BY <1>2 DEF Live
<1>14. OnItsThread' BY <1>2, <1>13 DEF ThreadInv, OnItsThread
<1>15. WaitsQueued'
  <2>1. ASSUME NEW a \in Attempt, Live(a)', rows'[a].status \in Waiting
        PROVE  \E ps \in Slot : fu'[ps].status = "queued" /\ fu'[ps].att = a
    <3>1. PICK ps \in Slot : fu[ps].status = "queued" /\ fu[ps].att = a
      BY <1>2, <1>13, <2>1 DEF ThreadInv, WaitsQueued
    <3>2. ps # xs BY <1>3, <1>5, <3>1 DEF Open
    <3>. QED BY <1>7, <3>1, <3>2
  <2>. QED BY <2>1 DEF WaitsQueued
<1>16. AloneOnThread'
  <2>1. ASSUME NEW ps \in Slot, NEW a \in Attempt, Live(a)', rows'[a].thread = ps[1]
        PROVE  /\ fu'[ps].status # "scheduled"
               /\ fu'[ps].status = "queued" => fu'[ps].att = a
    <3>1. Live(a) /\ rows[a].thread = ps[1] BY <1>2, <1>13, <2>1
    <3>2. ps # xs BY <1>3, <1>8, <3>1
    <3>3. fu'[ps] = fu[ps] BY <1>7, <3>2
    <3>. QED BY <3>1, <3>3 DEF ThreadInv, AloneOnThread
  <2>. QED BY <2>1 DEF AloneOnThread
<1>17. OneLiveFollowUp' BY <1>2, <1>13 DEF ThreadInv, OneLiveFollowUp
<1>18. FollowUpMatchesAttempt'
  <2>1. ASSUME NEW ps \in Slot, fu'[ps].status \in {"queued", "sent"}
        PROVE  /\ fu'[ps].att \in Attempt
               /\ rows'[fu'[ps].att].kind = "follow_up" /\ rows'[fu'[ps].att].thread = ps[1]
               /\ (fu'[ps].status = "sent") <=> (rows'[fu'[ps].att].status = "sent")
               /\ \A qs \in Slot : fu'[qs].att = fu'[ps].att => qs = ps
    <3>1. fu'[ps] = fu[ps] BY <1>6, <1>7, <2>1
    <3>2. /\ fu[ps].att \in Attempt
          /\ rows[fu[ps].att].kind = "follow_up" /\ rows[fu[ps].att].thread = ps[1]
          /\ (fu[ps].status = "sent") <=> (rows[fu[ps].att].status = "sent")
      BY <2>1, <3>1 DEF ThreadInv, FollowUpMatchesAttempt
    <3>3. fu'[ps].att # 0 BY <3>1, <3>2, ThreadFacts
    <3>. QED BY <1>2, <1>11, <3>1, <3>2, <3>3 DEF OwnAttempt
  <2>. QED BY <2>1 DEF FollowUpMatchesAttempt
<1>19. Fits'
  <2>1. Scheduled' \in SUBSET (Scheduled \cup {xs})
    <3>1. ASSUME NEW ps \in Slot, fu'[ps].status = "scheduled" PROVE ps \in Scheduled \cup {xs}
      BY <1>7, <3>1 DEF Scheduled
    <3>. QED BY <3>1 DEF Scheduled
  <2>2. IsFiniteSet(Scheduled) /\ Cardinality(Scheduled) \in Nat BY QueuesFinite
  <2>3. IsFiniteSet(Scheduled \cup {xs})
        /\ Cardinality(Scheduled \cup {xs}) \in {Cardinality(Scheduled), Cardinality(Scheduled) + 1}
    BY <2>2, FS_AddElement
  <2>4. Cardinality(Scheduled') \in Nat
        /\ Cardinality(Scheduled') <= Cardinality(Scheduled \cup {xs})
    BY <2>1, <2>3, FS_Subset, FS_CardinalityType
  <2>5. made \in Nat /\ MaxRows \in Nat BY ThreadFacts, BoundsAssumption
  <2>6. made + Cardinality(Scheduled) < MaxRows BY <1>2 DEF Room
  <2>. QED BY <1>2, <2>2, <2>3, <2>4, <2>5, <2>6 DEF Fits
<1>20. NoneStarts BY <1>2 DEF NoneStarts
<1>. QED BY <1>10, <1>11, <1>12, <1>14, <1>15, <1>16, <1>17, <1>18, <1>19, <1>20 DEF ThreadInv

\* Every other step is tidy.
LEMMA NextTidy ==
  ASSUME IInv, ThreadInv, Fits, [Next]_vars
  PROVE  Tidy \/ \E p \in Attempt : ScheduleFollowUp(p)
<1>1. CASE Creator
  BY <1>1, ReserveTidy, CancelTidy DEF Creator
<1>2. CASE Settles BY <1>2, SettleTidy DEF Settles
<1>3. CASE Environment
  <2>1. UNCHANGED <<rows, made, fu>>
    BY <1>3 DEF Environment, ThreadStops, ContactChanges, PauseChanges, StandingChanges,
         RequestDeletion, table
  <2>. QED BY <2>1, SameTidy
<1>4. CASE Tick BY <1>4, TickTidy
<1>5. ASSUME NEW w \in Worker, StartRun(w) \/ Progress(w) \/ Killed(w) PROVE Tidy
  <2>1. CASE StartRun(w) \/ EndRun(w) \/ Killed(w) \/ Token(w) \/ CallRefused(w) \/ Unsent(w)
    <3>1. UNCHANGED <<rows, made, fu>>
      BY <2>1 DEF StartRun, EndRun, Killed, Token, CallRefused, Unsent, MarkUnsent, ArmUnsent,
           RememberUnsent, CommitUnsent, table
    <3>. QED BY <3>1, SameTidy
  <2>2. CASE ClaimNothing(w) BY <2>2, ClaimsTidy
  <2>3. CASE Gate(w) BY <2>3, GateTidy
  <2>4. CASE Fail(w) BY <2>4, FailTidy
  <2>5. ASSUME NEW heard \in BOOLEAN, Answered(w, heard) PROVE Tidy
    <3>1. CASE ClaimCommit(w, heard) \/ ClaimSend(w, heard) BY <3>1, ClaimsTidy
    <3>2. CASE Mark(w, heard) BY <3>2, MarkTidy
    <3>3. CASE Arm(w, heard) BY <3>3, ArmTidy
    <3>4. CASE CallAccepted(w, heard)
      <4>1. UNCHANGED <<rows, made, fu>> BY <3>4 DEF CallAccepted, table
      <4>. QED BY <4>1, SameTidy
    <3>5. CASE Remember(w, heard) BY <3>5, RememberTidy
    <3>6. CASE Commit(w, heard) BY <3>6, CommitTidy
    <3>. QED BY <2>5, <3>1, <3>2, <3>3, <3>4, <3>5, <3>6 DEF Answered, Claims
  <2>. QED BY <1>5, <2>1, <2>2, <2>3, <2>4, <2>5 DEF Progress
<1>6. CASE UNCHANGED vars
  <2>1. UNCHANGED <<rows, made, fu>> BY <1>6 DEF vars
  <2>. QED BY <2>1, SameTidy
<1>. QED BY <1>1, <1>2, <1>3, <1>4, <1>5, <1>6 DEF Next

\* So a step keeps the threads and leaves room, and starts nothing uncounted.
LEMMA NextKeeps ==
  ASSUME IInv, ThreadInv, Fits, [Next]_vars
  PROVE  ThreadInv' /\ Fits' /\ (NoneStarts \/ OneStarts)
<1>1. IInv' BY NextGood DEF Good
<1>2. CASE Tidy
  <2>1. Fits' /\ (NoneStarts \/ OneStarts) BY <1>2 DEF Tidy
  <2>2. CASE Calm BY <1>1, <2>1, <2>2, CalmKeeps
  <2>3. CASE \E us : Settled(us) BY <1>1, <2>1, <2>3, SettledKeeps
  <2>. QED BY <1>2, <2>1, <2>2, <2>3 DEF Tidy
<1>3. CASE \E p \in Attempt : ScheduleFollowUp(p) BY <1>1, <1>3, ScheduleKeeps
<1>. QED BY <1>2, <1>3, NextTidy

\* The queue starts without follow-ups and without a start today.
LEMMA InitThreads == Init => ThreadInv /\ Fits /\ WithinDailyCap
<1>. SUFFICES ASSUME Init PROVE ThreadInv /\ Fits /\ WithinDailyCap
  OBVIOUS
<1>1. \A ps \in Slot : fu[ps].status = "none" /\ fu[ps].att = 0
  BY DEF Init, NoFollowUp
<1>2. ASSUME NEW a \in Attempt PROVE rows[a].kind = "pitch" /\ ~rows[a].today
  <2>1. CASE a \in DOMAIN SentBefore
    <3>1. PICK u \in User, h \in Hotel, r \in Recipient : SentBefore[a] = SentPitch(u, h, r)
      BY <2>1, SentBeforeAssumption
    <3>2. rows[a] = SentPitch(u, h, r) BY <2>1, <3>1 DEF Init
    <3>. QED BY <3>2 DEF SentPitch, NoRow
  <2>2. CASE a \notin DOMAIN SentBefore
    <3>1. rows[a] = NoRow BY <2>2 DEF Init
    <3>2. NoRow.kind = "pitch" /\ NoRow.today = FALSE BY DEF NoRow
    <3>. QED BY <3>1, <3>2
  <2>. QED BY <2>1, <2>2
<1>3. \A a \in Attempt : ~Live(a) BY <1>2 DEF Live
<1>4. ThreadInv
  BY <1>1, <1>3 DEF ThreadInv, Pitched, OwnAttempt, OneOpen, OnItsThread, WaitsQueued,
       AloneOnThread, OneLiveFollowUp, FollowUpMatchesAttempt, Open
<1>5. Fits
  <2>1. PICK n \in 0..MaxRows : DOMAIN SentBefore = 1..n BY SentBeforeAssumption
  <2>2. n \in Nat /\ MaxRows \in Nat /\ n <= MaxRows BY <2>1, BoundsAssumption
  <2>3. made = n
    <3>1. Cardinality(1..n) = n BY <2>2, FS_Interval
    <3>. QED BY <2>1, <3>1 DEF Init
  <2>4. Scheduled = {} BY <1>1 DEF Scheduled
  <2>5. Cardinality(Scheduled) = 0 BY <2>4, FS_EmptySet
  <2>. QED BY <2>2, <2>3, <2>5 DEF Fits
<1>6. WithinDailyCap
  <2>1. ASSUME NEW u \in User PROVE Used(rows, u) <= DailyCap
    <3>1. {a \in Attempt : rows[a].user = u /\ rows[a].today} = {} BY <1>2
    <3>2. Used(rows, u) = 0 BY <3>1, FS_EmptySet DEF Used
    <3>. QED BY <3>2, BoundsAssumption
  <2>. QED BY <2>1 DEF WithinDailyCap
<1>. QED BY <1>4, <1>5, <1>6

-----------------------------------------------------------------------------
\* The theorems

\* The invariant of the follow-ups, on top of the queue's.
LEMMA ThreadInvariant == Spec => [](IInv /\ ThreadInv /\ Fits /\ WithinDailyCap)
<1>. DEFINE Inv == IInv /\ ThreadInv /\ Fits /\ WithinDailyCap
<1>1. Init => Inv BY InitInv, InitThreads
<1>2. Inv /\ [Next]_vars => Inv'
  <2>1. ASSUME IInv, ThreadInv, Fits, WithinDailyCap, [Next]_vars
        PROVE  IInv' /\ ThreadInv' /\ Fits' /\ WithinDailyCap'
    <3>1. IInv' BY <2>1, NextGood DEF Good
    <3>2. ThreadInv' /\ Fits' /\ (NoneStarts \/ OneStarts) BY <2>1, NextKeeps
    <3>3. WithinDailyCap' BY <2>1, <3>2, CapKept
    <3>. QED BY <3>1, <3>2, <3>3
  <2>. QED BY <2>1
<1>. QED BY <1>1, <1>2, PTL DEF Spec

\* One thread has one live follow-up attempt at most, and each queued or sent follow-up
\* and its attempt agree, whatever is cancelled, stopped, rescheduled, swept or sent
\* in between.
THEOREM FollowUpsInStep == Spec => []FollowUpsAgree
<1>1. ThreadInv => FollowUpsAgree BY DEF ThreadInv, FollowUpsAgree
<1>. QED BY <1>1, ThreadInvariant, PTL

\* No creator has more provider starts in a local day than the cap, however many runs
\* deliver and whichever rows they were handed: the mark counts again.
THEOREM CapIsKept == Spec => []WithinDailyCap
BY ThreadInvariant, PTL

=============================================================================
