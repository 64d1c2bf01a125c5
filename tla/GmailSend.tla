------------------------------ MODULE GmailSend ------------------------------
(***************************************************************************)
(* The Gmail send queue of TheUGC.life: the rows of gmail_send_attempts    *)
(* and gmail_followups, the SQL functions that change them, the dispatcher *)
(* runs that deliver one claimed attempt at a time, and Gmail.             *)
(*                                                                         *)
(* A SQL function is one step: it locks the creator's users row or the     *)
(* attempt row before it reads what it decides on.  Between two such calls *)
(* a dispatcher run may be overtaken by anybody and may be killed.  A call *)
(* may also be applied and its answer lost.                                *)
(*                                                                         *)
(* Time is kept as what the code compares with now(): the age of a row's   *)
(* updated_at, the wait until dispatch_not_before, the wait until a        *)
(* follow-up is due, the wait until the creator's next_eligible_at, and    *)
(* the local hour.  A value no branch of the code can tell apart from a    *)
(* smaller one is capped, so time itself is unbounded.                     *)
(***************************************************************************)
EXTENDS Naturals, FiniteSets

CONSTANTS
  User, Hotel, Recipient, Key,   \* creators, hotels, addresses, idempotency keys
  Worker,       \* dispatcher runs that may overlap
  None,         \* SQL null
  Request,      \* the sends a creator may ask for
  SentBefore,   \* function from the first attempts, pitches already sent, to their rows
  MaxRows,      \* bound: attempts ever inserted
  Lease,        \* 15 minutes, in ticks
  Spacing,      \* 180 to 300 seconds, in ticks
  FollowDelay,  \* the longest wait for a follow-up, in ticks
  DailyCap,     \* provider starts per creator and local day
  DayLen, OpenFrom, OpenTo,      \* hours in a day, 09:00 and 18:00
  Standings,    \* the account states the environment moves creators between
  Pausable, Deletable, Haltable, \* creators, creators, pitches the environment touches
  Fickle        \* addresses whose contact row the environment (in)validates

Attempt == 1..MaxRows
Slot == Attempt \X {1, 2}        \* a pitch and the sequence of a follow-up on it

ASSUME BoundsAssumption ==
  /\ MaxRows \in Nat \ {0} /\ Lease \in Nat \ {0} /\ Spacing \in Nat
  /\ FollowDelay \in Nat /\ DailyCap \in Nat \ {0}
  /\ DayLen \in Nat \ {0} /\ OpenFrom \in Nat /\ OpenTo \in Nat
  /\ OpenFrom < OpenTo /\ OpenTo <= DayLen

ASSUME NoneAssumption == None \notin User \cup Hotel \cup Recipient \cup Key

ASSUME StandingsAssumption == Standings \subseteq {"ok", "unpaid", "no_mailbox"}

ASSUME RequestAssumption ==
  Request \subseteq [kind : {"pitch", "reply"}, hotel : Hotel \cup {None},
                     itemHotel : Hotel \cup {None}, recipient : Recipient,
                     thread : {0} \cup Attempt]

Codes == {"refused", "provider_error", "deletion_pending", "followup_stopped"}
Statuses == {"none", "queued", "reserved", "provider_called", "sent", "failed", "unknown"}

Row == [user : User \cup {None}, key : Key \cup {None},
        kind : {"pitch", "reply", "follow_up"},
        hotel : Hotel \cup {None}, recipient : Recipient \cup {None},
        thread : {0} \cup Attempt,
        status : Statuses, code : {""} \cup Codes,
        msg : Nat,            \* provider_message_id; 0 is null
        age : Nat,            \* now() - updated_at, up to Lease + 1
        wait : Nat,           \* dispatch_not_before - now()
        today : BOOLEAN]      \* provider_started_at lies in the current local day

NoRow == [user |-> None, key |-> None, kind |-> "pitch", hotel |-> None,
          recipient |-> None, thread |-> 0, status |-> "none", code |-> "",
          msg |-> 0, age |-> 0, wait |-> 0, today |-> FALSE]

\* A pitch sent on an earlier day: what SentBefore maps an attempt to.
SentPitch(u, h, r) == [NoRow EXCEPT !.user = u, !.hotel = h, !.recipient = r,
                                    !.status = "sent", !.msg = 1]

ASSUME SentBeforeAssumption ==
  /\ \E n \in 0..MaxRows : DOMAIN SentBefore = 1..n
  /\ \A a \in DOMAIN SentBefore :
       \E u \in User, h \in Hotel, r \in Recipient : SentBefore[a] = SentPitch(u, h, r)

FollowUp == [status : {"none", "scheduled", "queued", "sent", "stopped", "cancelled"},
             reason : {"", "terminal", "recipient_rejected", "cancelled"},
             due : Nat,       \* earliest_send_at - now()
             att : Nat]       \* send_attempt_id; 0 is null

NoFollowUp == [status |-> "none", reason |-> "", due |-> 0, att |-> 0]

Steps == {"idle", "claim", "gate", "mark", "token", "arm", "call", "remember", "commit", "fail"}

Run == [pc : Steps, att : {0} \cup Attempt, code : {"", "unknown"} \cup Codes,
        msg : Nat, seen : SUBSET Attempt, old : BOOLEAN]

IdleRun == [pc |-> "idle", att |-> 0, code |-> "", msg |-> 0, seen |-> {}, old |-> FALSE]

VARIABLES
  rows,      \* private.gmail_send_attempts
  made,      \* how many attempts were inserted; attempt ids are 1..made, oldest first
  fu,        \* private.gmail_followups
  event,     \* private.gmail_sent_events: the message id recorded for an attempt, or 0
  gap,       \* private.gmail_send_schedule: next_eligible_at - now()
  paused,    \* the creator has an open send pause or account pause
  blocked,   \* users.deletion_requested_at is set
  standing,  \* plan and mailbox of the creator
  halted,    \* pitches whose thread has a hotel reply, a bounce or a closed deal
  valid,     \* addresses that match a non-invalid contact of the hotel
  hour,      \* local hour
  run,       \* dispatcher runs
  accepted   \* how many messages Gmail accepted for an attempt

vars == <<rows, made, fu, event, gap, paused, blocked, standing, halted, valid,
          hour, run, accepted>>
table == <<rows, made, fu, event>>
account == <<paused, blocked, standing>>
outside == <<halted, valid>>

-----------------------------------------------------------------------------
\* State functions

InFlight == {"provider_called", "unknown"}
Waiting == {"queued", "reserved"}
Open == {"scheduled", "queued"}
Later(x, y) == IF x >= y THEN x ELSE y

Paid(u) == standing[u] # "unpaid"
Fit(u) == standing[u] = "ok"
BusinessHours == hour \in OpenFrom..(OpenTo - 1)
NextMorning == IF hour < OpenFrom THEN OpenFrom - hour ELSE DayLen - hour + OpenFrom
Used(rs, u) == Cardinality({a \in Attempt : rs[a].user = u /\ rs[a].today})

Scheduled == {ps \in Slot : fu[ps].status = "scheduled"}
Room == made + Cardinality(Scheduled) < MaxRows

Failed(r, c) == [r EXCEPT !.status = "failed", !.code = c, !.age = 0, !.wait = 0]
Queued(r, n) == [r EXCEPT !.status = "queued", !.age = 0, !.wait = n]

-----------------------------------------------------------------------------
\* SQL functions and statements, as operators on the rows they read

\* Faults that the runs must notice.  Each is a variant of the definition below it.
\* A stale call is queued again instead of failed.
SweepStaleRetries(rs) ==
  [a \in Attempt |->
     IF rs[a].status = "provider_called" /\ rs[a].msg = 0 /\ rs[a].age > Lease
       THEN Queued(rs[a], 0) ELSE rs[a]]

\* The sweep forgets the calls whose run died.
SweepStaleReserved(rs) ==
  [a \in Attempt |->
     IF rs[a].status = "reserved" /\ rs[a].age > Lease
       THEN [rs[a] EXCEPT !.status = "unknown", !.age = 0] ELSE rs[a]]

\* gmail_send_claim_due: rows older than the lease.
SweepStale(rs) ==
  [a \in Attempt |->
     IF rs[a].status = "reserved" /\ rs[a].age > Lease
       THEN [rs[a] EXCEPT !.status = "unknown", !.age = 0]
     ELSE IF rs[a].status = "provider_called" /\ rs[a].msg = 0 /\ rs[a].age > Lease
       THEN Failed(rs[a], "provider_error")
     ELSE rs[a]]

\* A fault: it fails what is in flight, too.
FailBlockedInFlight(rs) ==
  [a \in Attempt |->
     IF rs[a].user \in {u \in User : blocked[u]} /\ rs[a].status \in Waiting \cup InFlight
       THEN Failed(rs[a], "deletion_pending") ELSE rs[a]]

\* A fault: the claim leaves the rows of a pending deletion alone.
FailBlockedNever(rs) == rs

\* gmail_send_claim_due: what a pending account deletion fails.
FailBlocked(rs) ==
  [a \in Attempt |->
     IF /\ rs[a].user \in {u \in User : blocked[u]}
        /\ rs[a].status \in Waiting \/ (rs[a].status = "provider_called" /\ rs[a].msg = 0)
       THEN Failed(rs[a], "deletion_pending")
     ELSE rs[a]]

\* gmail_followup_hold: a due follow-up of u is kept, not queued.
Held(u) == blocked[u] \/ paused[u] \/ ~Fit(u)

ContactOk(p) == rows[p].recipient \in valid

\* Why gmail_followup_settle stops an open follow-up; "" when it does not.
SettleStop(p, s) ==
  IF p \in halted THEN "terminal"
  ELSE IF ~ContactOk(p) /\ (fu[<<p, s>>].status = "queued" \/ fu[<<p, s>>].due = 0)
    THEN "recipient_rejected"
  ELSE ""

SettleStops(us) == {ps \in Slot : /\ rows[ps[1]].user \in us
                                  /\ fu[ps].status \in Open
                                  /\ SettleStop(ps[1], ps[2]) # ""}

SettleQueues(us) == {ps \in Slot : /\ rows[ps[1]].user \in us
                                   /\ fu[ps].status = "scheduled" /\ fu[ps].due = 0
                                   /\ SettleStop(ps[1], ps[2]) = ""
                                   /\ ~Held(rows[ps[1]].user)}

\* The attempt a queued follow-up gets: the next ids, in the order of the pitches.
NewAttempt(us, ps) == made + Cardinality({qs \in SettleQueues(us) : qs[1] <= ps[1]})

FollowUpRow(p) ==
  [NoRow EXCEPT !.user = rows[p].user, !.kind = "follow_up", !.hotel = rows[p].hotel,
                !.recipient = rows[p].recipient, !.thread = p, !.status = "queued"]

\* gmail_followup_settle for the creators us, on the attempts rs.
SettleRows(us, rs) ==
  LET queues == SettleQueues(us)
      stops == SettleStops(us)
  IN  [a \in Attempt |->
         IF a > made /\ \E ps \in queues : NewAttempt(us, ps) = a
           THEN FollowUpRow((CHOOSE ps \in queues : NewAttempt(us, ps) = a)[1])
         ELSE IF rs[a].status \in Waiting /\ \E ps \in stops : fu[ps].att = a
           THEN Failed(rs[a], "followup_stopped")
         ELSE rs[a]]

SettleFollowUps(us) ==
  [ps \in Slot |->
     IF ps \in SettleStops(us)
       THEN [fu[ps] EXCEPT !.status = "stopped", !.reason = SettleStop(ps[1], ps[2]), !.due = 0]
     ELSE IF ps \in SettleQueues(us)
       THEN [fu[ps] EXCEPT !.status = "queued", !.att = NewAttempt(us, ps)]
     ELSE fu[ps]]

SettleMade(us) == made + Cardinality(SettleQueues(us))

\* gmail_followup_block_send: attempt a must not be sent.  A follow-up whose
\* attempt has been cleared is found by no row and counts as cancelled.
BlockStops(a) ==
  /\ rows[a].kind = "follow_up" /\ rows[a].msg = 0
  /\ rows[a].status \in Waiting \cup {"provider_called"}
  /\ LET p == rows[a].thread
     IN  \A s \in {1, 2} : \/ fu[<<p, s>>].att # a
                           \/ fu[<<p, s>>].status \in {"stopped", "cancelled"}
                           \/ p \in halted \/ ~ContactOk(p)

BlockFollowUps(a) ==
  LET p == rows[a].thread
  IN  [ps \in Slot |->
         IF ps[1] = p /\ fu[ps].att = a /\ fu[ps].status \in Open
           THEN [fu[ps] EXCEPT !.status = "stopped", !.due = 0,
                   !.reason = IF p \in halted THEN "terminal" ELSE "recipient_rejected"]
         ELSE fu[ps]]

\* A fault: a call without an answer is tried again.
FailRowRetries(r, c) ==
  IF r.status = "provider_called" /\ c = "unknown" THEN Queued(r, 0) ELSE r

\* A fault: what the answer reports, failure_code unknown, is stored as well.
FailRowCodesUnknown(r, c) ==
  IF r.status = "provider_called" /\ c = "unknown"
    THEN [r EXCEPT !.status = "unknown", !.code = c, !.age = 0] ELSE r

\* gmail_send_fail.
FailRow(r, c) ==
  IF r.status \in {"none", "sent", "unknown", "failed"} THEN r
  ELSE IF c = "unknown"
    THEN IF r.status = "provider_called" THEN [r EXCEPT !.status = "unknown", !.age = 0] ELSE r
  ELSE IF r.status = "reserved" /\ c = "provider_error" THEN r
  ELSE Failed(r, c)

-----------------------------------------------------------------------------
\* The creator

\* gmail_send_reserve.  An idempotency key that is already stored only reports
\* its row.  hotel is what the request names; itemHotel is the hotel of the
\* pipeline item it names, and the row keeps whichever is there.
Reserve(u, k, q) ==
  LET stored == IF q.hotel # None THEN q.hotel ELSE q.itemHotel
      fit == Fit(u) /\ (q.kind = "pitch" => q.recipient \in valid)
      thread == IF q.thread \in {a \in Attempt : rows[a].status = "sent"} THEN q.thread ELSE 0
      row == [NoRow EXCEPT !.user = u, !.key = k, !.kind = q.kind, !.hotel = stored,
                           !.recipient = q.recipient, !.thread = thread]
  IN  /\ Room
      /\ q.kind = "pitch" => q.hotel # None
      /\ q.hotel # None /\ q.itemHotel # None => q.hotel = q.itemHotel
      /\ \A a \in Attempt : ~(rows[a].user = u /\ rows[a].key = k)
      /\ \A a \in Attempt : ~(/\ rows[a].user = u /\ rows[a].recipient = q.recipient
                              /\ rows[a].hotel = q.hotel /\ rows[a].status \in InFlight)
      /\ ~blocked[u] /\ ~paused[u]
      /\ made' = made + 1
      /\ rows' = [rows EXCEPT ![made + 1] = IF fit THEN Queued(row, gap[u])
                                                   ELSE Failed(row, "refused")]
      /\ UNCHANGED <<fu, event, gap, account, outside, hour, run, accepted>>

\* A fault: a follow-up still in flight on the thread is overlooked.
ScheduleBesideInFlight(p) ==
  LET s == IF fu[<<p, 1>>].status = "sent" THEN 2 ELSE 1
  IN  /\ Room
      /\ rows[p].kind = "pitch" /\ rows[p].status = "sent" /\ p \notin halted
      /\ \A t \in {1, 2} : fu[<<p, t>>].status \notin Open
      /\ fu' = [fu EXCEPT ![<<p, s>>] = [status |-> "scheduled", reason |-> "", due |-> 0, att |-> 0]]
      /\ UNCHANGED <<rows, made, event, gap, account, outside, hour, run, accepted>>

\* gmail_followup_schedule on the sent pitch p.  What is left of the chosen
\* delay depends on how long ago the message it counts from was sent.
ScheduleFollowUp(p) ==
  LET s == IF fu[<<p, 1>>].status = "sent" THEN 2 ELSE 1
  IN  /\ Room
      /\ rows[p].kind = "pitch" /\ rows[p].status = "sent"
      /\ Paid(rows[p].user) /\ ContactOk(p) /\ p \notin halted
      /\ \A t \in {1, 2} : ~(fu[<<p, t>>].status = "stopped" /\ fu[<<p, t>>].reason = "terminal")
      /\ \A t \in {1, 2} : fu[<<p, t>>].status \notin Open
      /\ fu[<<p, s>>].status \in {"none", "cancelled", "stopped"}
      /\ \A a \in Attempt : ~(/\ rows[a].thread = p /\ rows[a].user = rows[p].user
                              /\ rows[a].status \in InFlight)
      /\ \E d \in 0..FollowDelay :
           fu' = [fu EXCEPT ![<<p, s>>] = [status |-> "scheduled", reason |-> "", due |-> d, att |-> 0]]
      /\ UNCHANGED <<rows, made, event, gap, account, outside, hour, run, accepted>>

\* gmail_followup_cancel.  An attempt that reached the provider is not touched.
CancelFollowUp(p, s) ==
  LET a == fu[<<p, s>>].att
  IN  /\ fu[<<p, s>>].status \in Open
      /\ a # 0 => rows[a].status \notin InFlight \cup {"sent"}
      /\ rows' = IF a # 0 /\ rows[a].status \in Waiting
                   THEN [rows EXCEPT ![a] = Failed(rows[a], "followup_stopped")] ELSE rows
      /\ fu' = [fu EXCEPT ![<<p, s>>] = [status |-> "cancelled", reason |-> "cancelled",
                                     due |-> 0, att |-> 0]]
      /\ UNCHANGED <<made, event, gap, account, outside, hour, run, accepted>>

\* gmail_followup_settle outside a claim: the housekeeping job settles every
\* creator; listing a hotel and reading a reply settle one.
Settle(us) ==
  /\ SettleStops(us) \cup SettleQueues(us) # {}
  /\ rows' = SettleRows(us, rows)
  /\ fu' = SettleFollowUps(us)
  /\ made' = SettleMade(us)
  /\ UNCHANGED <<event, gap, account, outside, hour, run, accepted>>

-----------------------------------------------------------------------------
\* A dispatcher run: dispatchDueGmailSends and deliverReservedSend

To(w, pc) == run' = [run EXCEPT ![w].pc = pc]
ToFail(w, c) == run' = [run EXCEPT ![w].pc = "fail", ![w].code = c]
\* deliverReservedSend returned: the loop claims again.
Delivered(w) == run' = [run EXCEPT ![w] = [@ EXCEPT !.pc = "claim", !.att = 0, !.code = "", !.msg = 0]]
Ended(w) == run' = [run EXCEPT ![w] = IdleRun]
Same(w, pc) == run[w].pc = pc /\ UNCHANGED <<gap, account, outside, hour>>

StartRun(w) ==
  /\ Same(w, "idle")
  /\ To(w, "claim")
  /\ UNCHANGED <<table, accepted>>

\* The budget or the claim limit is reached; the first claim is always made.
EndRun(w) ==
  /\ Same(w, "claim") /\ run[w].seen # {}
  /\ Ended(w)
  /\ UNCHANGED <<table, accepted>>

\* The platform kills the function, or a call fails in a way the run does not survive.
Killed(w) ==
  /\ run[w].pc # "idle"
  /\ Ended(w)
  /\ UNCHANGED <<table, gap, account, outside, hour, accepted>>

\* What every gmail_send_claim_due call does before it looks for a claim.
ClaimRows == FailBlocked(SettleRows(User, SweepStale(rows)))

\* Faults: a commit is handed out without a message id; only for unknown rows.
UncommittedWithoutId(rs) == {a \in Attempt : rs[a].status \in InFlight}
UncommittedUnknown(rs) == {a \in Attempt : rs[a].status = "unknown" /\ rs[a].msg # 0}

Uncommitted(rs) == {a \in Attempt : rs[a].status \in InFlight /\ rs[a].msg # 0}
DueOf(rs, u) == {a \in Attempt : rs[a].user = u /\ rs[a].status = "queued" /\ rs[a].wait = 0}
DueUsers(rs) == {u \in User : DueOf(rs, u) # {}}
Skipped(u) == paused[u] \/ gap[u] > 0
MayClaim(rs, u) == ~Skipped(u) /\ BusinessHours /\ Used(rs, u) < DailyCap

\* A due creator the claim looks at and cannot serve: outside business hours its
\* due rows wait for the morning, at the daily cap all its queued rows do.
Deferred(rs, us) ==
  [a \in Attempt |->
     IF /\ rs[a].user \in us /\ ~Skipped(rs[a].user) /\ rs[a].status = "queued"
        /\ BusinessHours \/ rs[a].wait = 0
       THEN [rs[a] EXCEPT !.wait = NextMorning]
     ELSE rs[a]]

\* a is reserved and the creator's other queued sends are pushed back.
Reserved(rs, u, a) ==
  [b \in Attempt |->
     IF b = a THEN [rs[b] EXCEPT !.status = "reserved", !.age = 0]
     ELSE IF rs[b].user = u /\ rs[b].status = "queued"
       THEN [rs[b] EXCEPT !.wait = Later(@, Spacing)]
     ELSE rs[b]]

\* The answer of a claim.  A lost answer ends the run and leaves the claimed row
\* to the lease; an attempt this run has already handled ends the run too.
Claimed(w, a, pc, msg, heard) ==
  IF heard /\ a \notin run[w].seen
    THEN run' = [run EXCEPT ![w].pc = pc, ![w].att = a, ![w].msg = msg, ![w].seen = @ \cup {a}]
  ELSE Ended(w)

\* A stored message id is handed out before any queued send, the oldest first.
ClaimCommit(w, heard) ==
  /\ Same(w, "claim")
  /\ LET rs == ClaimRows
     IN  /\ \E a \in Uncommitted(rs) :
              /\ \A b \in Uncommitted(rs) : rs[b].age <= rs[a].age
              /\ Claimed(w, a, "commit", rs[a].msg, heard)
         /\ rows' = rs
  /\ fu' = SettleFollowUps(User) /\ made' = SettleMade(User)
  /\ UNCHANGED <<event, accepted>>

\* One queued send of the creator u is reserved.  skipped are the due creators
\* the claim looked at first.
ClaimSend(w, heard) ==
  /\ run[w].pc = "claim"
  /\ LET claimable == ClaimRows
     IN  /\ Uncommitted(claimable) = {}
         /\ \E u \in DueUsers(claimable), skipped \in SUBSET DueUsers(claimable) :
              /\ MayClaim(claimable, u)
              /\ \A v \in skipped : ~MayClaim(claimable, v)
              /\ \E a \in DueOf(claimable, u) :
                   /\ \A b \in DueOf(claimable, u) : a <= b
                   /\ rows' = Reserved(Deferred(claimable, skipped), u, a)
                   /\ Claimed(w, a, "gate", 0, heard)
              /\ gap' = [gap EXCEPT ![u] = Spacing]
  /\ fu' = SettleFollowUps(User) /\ made' = SettleMade(User)
  /\ UNCHANGED <<event, account, outside, hour, accepted>>

ClaimNothing(w) ==
  /\ Same(w, "claim")
  /\ LET rs == ClaimRows
     IN  /\ Uncommitted(rs) = {}
         /\ \A u \in DueUsers(rs) : ~MayClaim(rs, u)
         /\ rows' = Deferred(rs, DueUsers(rs))
  /\ fu' = SettleFollowUps(User) /\ made' = SettleMade(User)
  /\ Ended(w)
  /\ UNCHANGED <<event, accepted>>

\* followUpGate, assessSendGuard and the MIME builder.  A gate that cannot be read
\* ends a follow-up only.  The guard and the builder depend on the environment
\* and the text.
Gate(w) ==
  LET a == run[w].att
      r == rows[a]
      stops == BlockStops(a)
      commits == r.kind = "follow_up" /\ r.status \in InFlight /\ r.msg # 0
  IN  /\ Same(w, "gate")
      /\ \E applied, heard \in BOOLEAN :
           /\ heard => applied
           /\ IF applied /\ stops
                THEN /\ rows' = [rows EXCEPT ![a] = Failed(r, "followup_stopped")]
                     /\ fu' = BlockFollowUps(a)
              ELSE UNCHANGED <<rows, fu>>
           /\ IF ~heard /\ r.kind = "follow_up" THEN Delivered(w)
              ELSE IF heard /\ stops THEN ToFail(w, "followup_stopped")
              ELSE IF heard /\ commits
                THEN run' = [run EXCEPT ![w].pc = "commit", ![w].msg = r.msg]
              ELSE IF heard /\ r.kind = "follow_up" /\ r.status = "unknown" THEN Delivered(w)
              ELSE \/ To(w, "mark")
                   \/ \E c \in {"refused", "provider_error"} : ToFail(w, c)
      /\ UNCHANGED <<made, event, accepted>>

\* A fault: the mark trusts the count that the claim has made.
MarkRowUncounted(a) ==
  IF rows[a].status # "reserved" THEN rows[a]
  ELSE IF blocked[rows[a].user] THEN Failed(rows[a], "deletion_pending")
  ELSE [rows[a] EXCEPT !.status = "provider_called", !.age = 0, !.today = TRUE]

\* gmail_send_mark_provider: the attempt is recorded as called before the call.
MarkRow(a) ==
  LET r == rows[a]
      u == r.user
      usedByOthers == Cardinality({b \in Attempt \ {a} : rows[b].user = u /\ rows[b].today})
  IN  IF r.status # "reserved" THEN r
      ELSE IF blocked[u] THEN Failed(r, "deletion_pending")
      ELSE IF ~Fit(u) THEN Failed(r, "refused")
      ELSE IF paused[u] THEN Queued(r, 0)
      ELSE IF ~BusinessHours \/ usedByOthers >= DailyCap THEN Queued(r, NextMorning)
      ELSE [r EXCEPT !.status = "provider_called", !.age = 0, !.today = TRUE]

\* A fault: a row the mark has put back is delivered all the same.
MarkGoesOn(w, heard) ==
  LET a == run[w].att
  IN  /\ Same(w, "mark")
      /\ rows' = [rows EXCEPT ![a] = MarkRow(a)]
      /\ IF rows[a].status = "reserved" /\ heard THEN To(w, "token") ELSE Delivered(w)
      /\ UNCHANGED <<made, fu, event, accepted>>

Mark(w, heard) ==
  LET a == run[w].att
      calls == rows[a].status = "reserved" /\ MarkRow(a).status = "provider_called"
  IN  /\ Same(w, "mark")
      /\ rows' = [rows EXCEPT ![a] = MarkRow(a)]
      /\ IF calls /\ heard THEN To(w, "token") ELSE Delivered(w)
      /\ UNCHANGED <<made, fu, event, accepted>>

\* A call that never reached the database: the run gives this attempt up.
MarkUnsent(w) ==
  /\ Same(w, "mark")
  /\ Delivered(w)
  /\ UNCHANGED <<table, accepted>>

\* getFreshGmailAccessToken.  A grant Google calls dead leaves the mailbox
\* disconnected; a deletion request has already deleted the credential.
Token(w) ==
  LET u == rows[run[w].att].user
  IN  /\ run[w].pc = "token"
      /\ \/ ~blocked[u] /\ To(w, "arm") /\ UNCHANGED standing
         \/ \E c \in {"refused", "provider_error"} : ToFail(w, c) /\ UNCHANGED standing
         \/ /\ "no_mailbox" \in Standings /\ standing[u] = "ok"
            /\ ToFail(w, "refused") /\ standing' = [standing EXCEPT ![u] = "no_mailbox"]
      /\ UNCHANGED <<table, gap, paused, blocked, outside, hour, accepted>>

\* gmail_send_arm_provider: the last locked check before the call.
Arm(w, heard) ==
  LET a == run[w].att
      r == rows[a]
      commits == r.msg # 0 /\ r.status \in InFlight \cup {"sent"}
      live == ~commits /\ r.status \in {"reserved", "provider_called"}
      deleted == live /\ blocked[r.user]
      stops == live /\ ~deleted /\ BlockStops(a)
  IN  /\ Same(w, "arm")
      /\ rows' = IF deleted THEN [rows EXCEPT ![a] = Failed(r, "deletion_pending")]
                 ELSE IF stops THEN [rows EXCEPT ![a] = Failed(r, "followup_stopped")]
                 ELSE rows
      /\ fu' = IF stops THEN BlockFollowUps(a) ELSE fu
      /\ IF ~heard THEN ToFail(w, "unknown")
         ELSE IF commits THEN run' = [run EXCEPT ![w].pc = "commit", ![w].msg = r.msg]
         ELSE IF live /\ ~deleted /\ ~stops THEN To(w, "call")
         ELSE Delivered(w)
      /\ UNCHANGED <<made, event, accepted>>

ArmUnsent(w) ==
  /\ Same(w, "arm")
  /\ ToFail(w, "unknown")
  /\ UNCHANGED <<table, accepted>>

\* sendMessage.  Gmail accepts the message and its answer arrives, or is lost;
\* or it does not accept it, and says so or not.
CallAccepted(w, heard) ==
  LET a == run[w].att
  IN  /\ Same(w, "call")
      /\ accepted' = [accepted EXCEPT ![a] = @ + 1]
      /\ IF heard THEN run' = [run EXCEPT ![w].pc = "remember", ![w].msg = accepted[a] + 1]
         ELSE ToFail(w, "unknown")
      /\ UNCHANGED table

CallRefused(w) ==
  /\ Same(w, "call")
  /\ \E c \in {"refused", "provider_error", "unknown"} : ToFail(w, c)
  /\ UNCHANGED <<table, accepted>>

\* A fault: a row that was failed in the meantime takes the message id.
StoresAfterFailure(r, m) == r.status \in InFlight \cup {"failed"} /\ r.msg \in {0, m}

\* gmail_send_remember_provider stores the message id before the commit.
Stores(r, m) == r.status \in InFlight /\ r.msg \in {0, m}

Remember(w, heard) ==
  LET a == run[w].att
      m == run[w].msg
      stores == Stores(rows[a], m)
  IN  /\ Same(w, "remember")
      /\ rows' = IF stores THEN [rows EXCEPT ![a].msg = m, ![a].age = 0] ELSE rows
      /\ IF heard /\ (stores \/ rows[a].status = "sent") THEN To(w, "commit")
         ELSE ToFail(w, "unknown")
      /\ UNCHANGED <<made, fu, event, accepted>>

RememberUnsent(w) ==
  /\ Same(w, "remember")
  /\ ToFail(w, "unknown")
  /\ UNCHANGED <<table, accepted>>

\* A fault: the trigger does not close the follow-up.
ClosedNot(a) == fu

\* gmail_followup_on_attempt_sent: a sent attempt closes the follow-up it is queued for.
Closed(a) ==
  [ps \in Slot |->
     IF rows[a].kind = "follow_up" /\ fu[ps].att = a /\ fu[ps].status = "queued"
       THEN [fu[ps] EXCEPT !.status = "sent"] ELSE fu[ps]]

\* gmail_send_commit and its trigger.
Commit(w, heard) ==
  LET a == run[w].att
      m == run[w].msg
      commits == Stores(rows[a], m)
  IN  /\ Same(w, "commit")
      /\ IF commits
           THEN /\ rows' = [rows EXCEPT ![a].status = "sent", ![a].age = 0]
                /\ event' = [event EXCEPT ![a] = m]
                /\ fu' = Closed(a)
         ELSE UNCHANGED <<rows, event, fu>>
      /\ IF heard /\ (commits \/ rows[a].status = "sent") THEN Delivered(w)
         ELSE ToFail(w, "unknown")
      /\ UNCHANGED <<made, accepted>>

CommitUnsent(w) ==
  /\ Same(w, "commit")
  /\ ToFail(w, "unknown")
  /\ UNCHANGED <<table, accepted>>

\* failAttempt: gmail_send_fail, whose own failure is swallowed.
Fail(w) ==
  LET a == run[w].att
  IN  /\ Same(w, "fail")
      /\ rows' \in {rows, [rows EXCEPT ![a] = FailRow(rows[a], run[w].code)]}
      /\ Delivered(w)
      /\ UNCHANGED <<made, fu, event, accepted>>

-----------------------------------------------------------------------------
\* The environment

\* A reply, a bounce or a closed deal on the thread of a sent pitch.
ThreadStops(p) ==
  /\ p \in Haltable \ halted /\ rows[p].status = "sent"
  /\ halted' = halted \cup {p}
  /\ UNCHANGED <<table, gap, account, valid, hour, run, accepted>>

ContactChanges(r) ==
  /\ r \in Fickle
  /\ valid' = IF r \in valid THEN valid \ {r} ELSE valid \cup {r}
  /\ UNCHANGED <<table, gap, account, halted, hour, run, accepted>>

\* gmail_send_record_bounce or an account pause; admin_unpause_sends.
PauseChanges(u) ==
  /\ u \in Pausable
  /\ paused' = [paused EXCEPT ![u] = ~@]
  /\ UNCHANGED <<table, gap, blocked, standing, outside, hour, run, accepted>>

\* A plan lapses or is bought; a mailbox is disconnected or connected.
StandingChanges(u) ==
  /\ ~blocked[u]
  /\ \E x \in Standings \ {standing[u]} : standing' = [standing EXCEPT ![u] = x]
  /\ UNCHANGED <<table, gap, paused, blocked, outside, hour, run, accepted>>

\* request_own_account_deletion; the mailbox loses its credential and its scopes.
RequestDeletion(u) ==
  /\ u \in Deletable /\ ~blocked[u]
  /\ blocked' = [blocked EXCEPT ![u] = TRUE]
  /\ standing' = [standing EXCEPT ![u] = "no_mailbox"]
  /\ UNCHANGED <<table, gap, paused, outside, hour, run, accepted>>

Down(n) == IF n = 0 THEN 0 ELSE n - 1

\* A tick is longer than the life of a run: a run sees at most one.
Tick ==
  /\ \A w \in Worker : ~run[w].old
  /\ hour' = (hour + 1) % DayLen
  /\ rows' = [a \in Attempt |->
       [rows[a] EXCEPT !.wait = Down(@), !.today = @ /\ hour' # 0,
          !.age = IF rows[a].status \in {"reserved", "provider_called", "unknown"} /\ @ <= Lease
                    THEN @ + 1 ELSE @]]
  /\ fu' = [ps \in Slot |-> [fu[ps] EXCEPT !.due = Down(@)]]
  /\ gap' = [u \in User |-> Down(gap[u])]
  /\ run' = [w \in Worker |-> [run[w] EXCEPT !.old = run[w].pc # "idle"]]
  /\ UNCHANGED <<made, event, account, outside, accepted>>

-----------------------------------------------------------------------------
Init ==
  /\ rows = [a \in Attempt |-> IF a \in DOMAIN SentBefore THEN SentBefore[a] ELSE NoRow]
  /\ made = Cardinality(DOMAIN SentBefore)
  /\ fu = [ps \in Slot |-> NoFollowUp]
  /\ event = [a \in Attempt |-> IF a \in DOMAIN SentBefore THEN 1 ELSE 0]
  /\ accepted = event
  /\ gap = [u \in User |-> 0]
  /\ paused = [u \in User |-> FALSE]
  /\ blocked = [u \in User |-> FALSE]
  /\ standing = [u \in User |-> "ok"]
  /\ halted = {} /\ valid = Recipient
  /\ hour = OpenFrom
  /\ run = [w \in Worker |-> IdleRun]

Creator ==
  \/ \E u \in User, k \in Key, q \in Request : Reserve(u, k, q)
  \/ \E p \in Attempt : ScheduleFollowUp(p)
  \/ \E p \in Attempt, s \in {1, 2} : CancelFollowUp(p, s)

Settles == Settle(User) \/ \E u \in User : Settle({u})

\* What a live run does by itself.
Claims(w, heard) == ClaimCommit(w, heard) \/ ClaimSend(w, heard)
Answered(w, heard) ==
  \/ Claims(w, heard) \/ Mark(w, heard) \/ Arm(w, heard) \/ CallAccepted(w, heard)
  \/ Remember(w, heard) \/ Commit(w, heard)
Unsent(w) == MarkUnsent(w) \/ ArmUnsent(w) \/ RememberUnsent(w) \/ CommitUnsent(w)
Progress(w) ==
  \/ EndRun(w) \/ ClaimNothing(w) \/ Gate(w) \/ Token(w) \/ CallRefused(w) \/ Fail(w)
  \/ Unsent(w) \/ \E heard \in BOOLEAN : Answered(w, heard)

Environment ==
  \/ \E p \in Attempt : ThreadStops(p)
  \/ \E r \in Recipient : ContactChanges(r)
  \/ \E u \in User : PauseChanges(u) \/ StandingChanges(u) \/ RequestDeletion(u)

Next ==
  \/ Creator \/ Settles \/ Environment \/ Tick
  \/ \E w \in Worker : StartRun(w) \/ Progress(w) \/ Killed(w)

Spec == Init /\ [][Next]_vars

\* The scheduler starts runs, a run does not hang, and a claim and a commit that
\* are tried again and again are answered at last.
Fairness ==
  /\ WF_vars(Tick)
  /\ \A w \in Worker : /\ WF_vars(StartRun(w)) /\ WF_vars(Progress(w))
                       /\ SF_vars(Claims(w, TRUE) \/ ClaimNothing(w))
                       /\ SF_vars(Commit(w, TRUE))

LiveSpec == Spec /\ Fairness

=============================================================================
