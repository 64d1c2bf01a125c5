----------------------------- MODULE GmailSync -----------------------------
\* The incremental sync of one mailbox (0047): the cursor, a run with its lease and its
\* threads, the workers of runAccountSync, and the local pipeline that follows a run.
\* What Gmail holds is numbered in the order of its history, and these numbers serve
\* as history ids and as time: a clock that is read says how much mail there is.
EXTENDS Integers, FiniteSets

CONSTANTS
  Thread, Worker, None,
  MaxMail,       \* how much mail there will be
  MaxRev,        \* how often the authorization of the mailbox moves
  MaxRemoved     \* how much mail the creator deletes at Gmail

ASSUME SyncAssumption ==
  /\ MaxMail \in Nat \ {0} /\ MaxRev \in Nat
  /\ MaxRemoved \in Nat
  /\ None \notin Worker /\ None \notin Thread

VARIABLES
  mail,       \* Gmail: the thread of each message, and whether the creator sent it
  now,        \* Gmail: how many messages there are
  deleted,    \* Gmail: messages that the creator has removed
  mailbox,    \* mail_accounts: connection_state and authorization_revision
  cursor,     \* gmail_sync_cursors
  run,        \* the latest of gmail_sync_runs; a mailbox has one that is not over
  thread,     \* gmail_sync_threads of that run
  raw,        \* gmail_raw_messages
  observed,   \* gmail_sync_thread_coverage of the completed runs
  covered,    \* the threads that the last completed run has covered
  work,       \* workers: the claim that each holds, and what Gmail has answered
  unseen,     \* history: covered threads that no pipeline has finished with
  late        \* history: what arrived between the last page of a list and its commit

vars == <<mail, now, deleted, late, mailbox, cursor, run, thread, raw, observed, covered, work,
          unseen>>
gmail == <<mail, now, deleted, late>>

Paused == {"paused_reauth", "paused_consent"}
Active == {"runnable"} \cup Paused
Over == {"cancelled_connection_stopped", "failed", "completed"}

Unlisted == [status |-> "none", ids |-> {}, sent |-> {}, excluded |-> {}]
NoRun == [status |-> "none", mode |-> "history_list", start |-> 0, end |-> 0, latest |-> 0,
          page |-> 0, listed |-> FALSE, known |-> FALSE, withheld |-> FALSE, lease |-> None]
Idle == [at |-> "idle", mine |-> FALSE, step |-> "none", thread |-> None, rev |-> 0,
         page |-> 0, upto |-> 0, hist |-> 0, got |-> {}]

\* A connected mailbox whose historical import has stored the first message, which the
\* creator sent, and has ended there.
Init ==
  /\ mail \in {m \in [1..MaxMail -> [thread : Thread, sent : BOOLEAN]] : m[1].sent}
  /\ now = 1 /\ deleted = {}
  /\ mailbox = [state |-> "connected", rev |-> 0]
  /\ cursor = [history |-> 0, horizon |-> 1, pipeline |-> FALSE, lease |-> None]
  /\ run = NoRun /\ thread = [t \in Thread |-> Unlisted]
  /\ raw = {1} /\ observed = [t \in Thread |-> 0] /\ covered = {}
  /\ work = [w \in Worker |-> Idle] /\ unseen = {} /\ late = {}

Mail(t) == {i \in 1..now : mail[i].thread = t}
Sent(ids) == {i \in ids : mail[i].sent}
\* The mailbox stores a message that the creator wrote into the thread.
Known(t) == \E i \in Sent(raw) : mail[i].thread = t

-----------------------------------------------------------------------------
\* Gmail

\* A worker with the lease holds the last page of history.list.
HoldsLastPage(w) ==
  /\ run.lease = w /\ work[w].at = "read" /\ work[w].step = "enumerate_history"
  /\ work[w].upto = work[w].hist

Arrives ==
  /\ now < MaxMail /\ now' = now + 1
  /\ late' = IF \E w \in Worker : HoldsLastPage(w) THEN late \cup {now + 1} ELSE late
  /\ UNCHANGED <<mail, deleted, mailbox, cursor, run, thread, raw, observed, covered, work, unseen>>

Removes(i) ==
  /\ Cardinality(deleted) < MaxRemoved /\ i \in 1..now \ deleted
  /\ deleted' = deleted \cup {i}
  /\ UNCHANGED <<mail, now, late, mailbox, cursor, run, thread, raw, observed, covered, work, unseen>>

-----------------------------------------------------------------------------
\* The mailbox moves

Freed(r) == [r EXCEPT !.lease = None]
\* Fault: a run that is paused keeps its lease.
LeaselessNot(r, status) == [r EXCEPT !.status = status]
Leaseless(r, status) == [r EXCEPT !.status = status, !.lease = None]
\* What a run that is over has listed is read by the pipeline alone ("covered").
Ended(status) == [NoRun EXCEPT !.status = status]
Rows(r) == [t \in Thread |-> IF r.status \in Over THEN Unlisted ELSE thread[t]]

\* apply_gmail_lifecycle_to_sync_runs; "stopped" is any state of a Disconnect or of
\* the end of the account.
Lifecycle(r, state) ==
  CASE state = "stopped" /\ r.status \in Active -> Ended("cancelled_connection_stopped")
    [] state = "reauth_required" /\ r.status = "runnable" -> Leaseless(r, "paused_reauth")
    [] state = "consent_required" /\ r.status = "runnable" -> Leaseless(r, "paused_consent")
    [] state = "connected" /\ r.status \in Paused -> [r EXCEPT !.status = "runnable"]
    [] OTHER -> r

\* The mailbox takes a state, and the trigger runs in the same transaction.
MovesTo(state) ==
  /\ mailbox.rev < MaxRev
  /\ mailbox' = [state |-> state, rev |-> mailbox.rev + 1]
  /\ run' = IF state = mailbox.state THEN run ELSE Lifecycle(run, state)
  /\ thread' = Rows(run')

\* What GmailConnection may do to a mailbox: a flow lands, a consent, a Disconnect, a
\* token of another caller that Google refuses.
MailboxMoves ==
  /\ \/ mailbox.state = "connected" /\ MovesTo("reauth_required")
     \/ mailbox.state # "stopped" /\ MovesTo("stopped")
     \/ MovesTo("connected")
     \/ mailbox.state # "consent_required" /\ MovesTo("consent_required")
  /\ UNCHANGED <<gmail, cursor, raw, observed, covered, work, unseen>>

-----------------------------------------------------------------------------
\* Claims: gmail_incremental_sync_claim_step

\* Times are left out: a login, the next due time and the end of a backoff are always
\* possible, a lease may expire at any time.
LeaseExpires ==
  /\ run.lease # None /\ run' = Freed(run)
  /\ UNCHANGED <<gmail, mailbox, cursor, thread, raw, observed, covered, work, unseen>>

\* The run that a claim begins; its window ends at the clock.
Begun ==
  [NoRun EXCEPT !.status = "runnable",
                !.mode = IF cursor.history = 0 THEN "bounded_rescan" ELSE "history_list",
                !.start = cursor.horizon, !.end = now,
                !.page = cursor.history, !.known = (cursor.history # 0)]

Pending(ts) == {t \in Thread : ts[t].status = "pending"}

\* Fault: a re-scan lists what the creator sent, and nothing else.
NextStepSent(r, ts) ==
  IF ~r.listed
  THEN IF r.mode = "history_list" THEN "enumerate_history"
       ELSE IF r.latest = 0 THEN "capture_history" ELSE "enumerate_sent"
  ELSE IF Pending(ts) # {} THEN "fetch_thread" ELSE "complete_run"
NextStep(r, ts) ==
  IF ~r.listed
  THEN IF r.mode = "history_list" THEN "enumerate_history"
       ELSE IF r.latest = 0 /\ ~r.known /\ (\A t \in Thread : ts[t].status = "none")
            THEN "capture_history" ELSE "enumerate_sent"
  ELSE IF r.mode = "bounded_rescan" /\ ~r.known THEN "enqueue_known"
       ELSE IF Pending(ts) # {} THEN "fetch_thread" ELSE "complete_run"

\* One step, under a lease and the revision that the mailbox has now. The worker
\* asks for a token if the step reads Gmail.
Leases(w, r, ts) ==
  LET step == NextStep(r, ts) IN
  /\ r.lease = None
  /\ run' = [r EXCEPT !.lease = w]
  /\ thread' = ts
  /\ \E t \in IF step = "fetch_thread" THEN Pending(ts) ELSE {None} :
       work' = [v \in Worker |->
         IF v = w
         THEN [Idle EXCEPT !.at = "ready", !.mine = TRUE, !.step = step, !.thread = t, !.rev = mailbox.rev,
                           !.page = r.page]
         ELSE [work[v] EXCEPT !.mine = @ /\ run.status = "runnable"]]

ClaimStep(w) ==
  /\ work[w].at = "idle" /\ mailbox.state = "connected" /\ run.status = "runnable"
  /\ Leases(w, run, thread)
  /\ UNCHANGED <<gmail, mailbox, cursor, raw, observed, covered, unseen>>

\* Fault: a new run does not wait for the pipeline.
BeginAtOnce(w) ==
  /\ work[w].at = "idle" /\ mailbox.state = "connected"
  /\ run.status \notin Active
  /\ Leases(w, Begun, [t \in Thread |-> Unlisted])
  /\ UNCHANGED <<gmail, mailbox, cursor, raw, observed, covered, unseen>>
BeginRun(w) ==
  /\ work[w].at = "idle" /\ mailbox.state = "connected"
  /\ run.status \notin Active /\ ~cursor.pipeline
  /\ Leases(w, Begun, [t \in Thread |-> Unlisted])
  /\ UNCHANGED <<gmail, mailbox, cursor, raw, observed, covered, unseen>>

-----------------------------------------------------------------------------
\* A step of a worker: token, validation, Gmail, commit

Becomes(w, at) == work' = [work EXCEPT ![w].at = at]
Leaves(w) == work' = [work EXCEPT ![w] = Idle]

\* A step that reads Gmail asks for a token first. A token that is given changes nothing.
AsksToken(w) == work[w].at = "ready" /\ work[w].step \notin {"enqueue_known", "complete_run"}

\* Google refuses the token, which the call records before it answers.
TokenDead(w) ==
  /\ AsksToken(w) /\ mailbox.state = "connected"
  /\ MovesTo("reauth_required") /\ Becomes(w, "paused_reauth")
  /\ UNCHANGED <<gmail, cursor, raw, observed, covered, unseen>>

TokenRefused(w) ==
  /\ AsksToken(w) /\ mailbox.state # "connected"
  /\ Becomes(w, "cancelled_connection_stopped")
  /\ UNCHANGED <<gmail, mailbox, cursor, run, thread, raw, observed, covered, unseen>>

TokenFails(w) ==
  /\ AsksToken(w) /\ Becomes(w, "release")
  /\ UNCHANGED <<gmail, mailbox, cursor, run, thread, raw, observed, covered, unseen>>

\* What the worker does to its run for that answer (applyTokenOutcome): pause and
\* cancel name the run, release the lease.
CarriesOut(w) ==
  /\ work[w].at \in {"paused_reauth", "cancelled_connection_stopped", "release"}
  /\ run' = IF ~work[w].mine THEN run
            ELSE CASE work[w].at = "paused_reauth" /\ run.status = "runnable" ->
                        Leaseless(run, work[w].at)
                   [] work[w].at = "cancelled_connection_stopped" /\ run.status \in Active ->
                        Ended(work[w].at)
                   [] work[w].at = "release" /\ run.lease = w -> Freed(run)
                   [] OTHER -> run
  /\ thread' = Rows(run') /\ Leaves(w)
  /\ UNCHANGED <<gmail, mailbox, cursor, raw, observed, covered, unseen>>

\* gmail_sync_begin_commit, before Gmail is asked and again before an answer is stored.
Holds(w) == run.lease = w /\ run.status = "runnable"
Valid(w) == Holds(w) /\ mailbox = [state |-> "connected", rev |-> work[w].rev]

Refused(w) ==
  /\ work[w].at \in {"ready", "read", "expired", "gone"} /\ ~Valid(w)
  /\ run' = IF Holds(w) THEN Freed(run) ELSE run
  /\ Leaves(w)
  /\ UNCHANGED <<gmail, mailbox, cursor, thread, raw, observed, covered, unseen>>

Asks(w, step) == work[w].at = "ready" /\ work[w].step = step /\ Valid(w)

\* history.list: some of the next messages, or all; the answer names the present id.
ReadHistory(w) ==
  /\ Asks(w, "enumerate_history")
  /\ \E upto \in {i \in work[w].page..now : i > work[w].page \/ i = now} :
       work' = [work EXCEPT ![w].at = "read", ![w].upto = upto, ![w].hist = now,
                            ![w].got = work[w].page + 1 .. upto]
  /\ UNCHANGED <<gmail, mailbox, cursor, run, thread, raw, observed, covered, unseen>>

\* The history id is no longer retained.
HistoryGone(w) ==
  /\ Asks(w, "enumerate_history") /\ Becomes(w, "expired")
  /\ UNCHANGED <<gmail, mailbox, cursor, run, thread, raw, observed, covered, unseen>>

\* users.getProfile
ReadProfile(w) ==
  /\ Asks(w, "capture_history")
  /\ work' = [work EXCEPT ![w].at = "read", ![w].hist = now]
  /\ UNCHANGED <<gmail, mailbox, cursor, run, thread, raw, observed, covered, unseen>>

\* messages.list of sent mail: from the second in which the window opens, without an end.
ReadSent(w) ==
  /\ Asks(w, "enumerate_sent")
  /\ work' = [work EXCEPT ![w].at = "read",
                          ![w].got = {i \in Sent(1..now) \ deleted : i >= run.start}]
  /\ UNCHANGED <<gmail, mailbox, cursor, run, thread, raw, observed, covered, unseen>>

\* threads.get; a thread without messages is gone.
ReadThread(w) ==
  /\ Asks(w, "fetch_thread")
  /\ LET there == Mail(work[w].thread) \ deleted IN
     work' = [work EXCEPT ![w].at = IF there = {} THEN "gone" ELSE "read", ![w].got = there]
  /\ UNCHANGED <<gmail, mailbox, cursor, run, thread, raw, observed, covered, unseen>>

\* A thread that a list names with these messages, of which it wants some, or not.
Noted(t, ids, wanted) ==
  [thread[t] EXCEPT !.ids = @ \cup ids, !.sent = @ \cup Sent(ids),
                    !.status = IF @ \notin {"none", "filtered_out"} THEN @
                               ELSE IF wanted THEN "pending" ELSE "filtered_out"]

Commits(w, step) ==
  /\ work[w].at = "read" /\ work[w].step = step /\ Valid(w)
  /\ Leaves(w)

In(t, ids) == {i \in ids : mail[i].thread = t}

\* gmail_incremental_sync_commit_history_page: the id is Gmail's, the window's end is
\* the clock of this transaction.
CommitHistory(w) ==
  LET got == work[w].got IN
  /\ Commits(w, "enumerate_history")
  /\ IF run.mode # "history_list" \/ run.listed \/ run.page # work[w].page
     THEN run' = Freed(run) /\ UNCHANGED thread
     ELSE /\ thread' = [t \in Thread |->
               IF In(t, got) = {} THEN thread[t]
               ELSE Noted(t, In(t, got), Sent(In(t, got)) # {} \/ Known(t))]
          /\ run' = [Freed(run) EXCEPT !.page = work[w].upto, !.listed = (work[w].upto = work[w].hist),
                                       !.latest = work[w].hist, !.end = now]
  /\ UNCHANGED <<gmail, mailbox, cursor, raw, observed, covered, unseen>>

\* gmail_incremental_sync_history_expired: the run goes on as a re-scan.
CommitExpired(w) ==
  /\ work[w].at = "expired" /\ Valid(w) /\ Leaves(w)
  /\ thread' = [t \in Thread |-> IF thread[t].status \in {"pending", "filtered_out"} THEN Unlisted
                                 ELSE thread[t]]
  /\ cursor' = [cursor EXCEPT !.history = 0]
  /\ run' = [Freed(run) EXCEPT !.mode = "bounded_rescan", !.latest = 0, !.page = 0,
                               !.listed = FALSE, !.known = FALSE]
  /\ UNCHANGED <<gmail, mailbox, raw, observed, covered, unseen>>

\* gmail_incremental_sync_commit_profile_history: the first id stays.
CommitProfile(w) ==
  /\ Commits(w, "capture_history")
  /\ run' = IF run.latest # 0 THEN Freed(run)
            ELSE [Freed(run) EXCEPT !.latest = work[w].hist, !.end = now]
  /\ UNCHANGED <<gmail, mailbox, cursor, thread, raw, observed, covered, unseen>>

\* gmail_incremental_sync_commit_sent_page
CommitSent(w) ==
  LET got == work[w].got IN
  /\ Commits(w, "enumerate_sent")
  /\ IF run.mode # "bounded_rescan" \/ run.listed
     THEN run' = Freed(run) /\ UNCHANGED thread
     ELSE /\ thread' = [t \in Thread |-> IF In(t, got) = {} THEN thread[t]
                                         ELSE Noted(t, In(t, got), TRUE)]
          /\ run' = [Freed(run) EXCEPT !.listed = TRUE]
  /\ UNCHANGED <<gmail, mailbox, cursor, raw, observed, covered, unseen>>

\* gmail_incremental_sync_commit_enqueue_known
CommitKnown(w) ==
  /\ Asks(w, "enqueue_known") /\ Leaves(w)
  /\ thread' = [t \in Thread |-> IF Known(t) THEN Noted(t, {}, TRUE) ELSE thread[t]]
  /\ run' = [Freed(run) EXCEPT !.known = TRUE]
  /\ UNCHANGED <<gmail, mailbox, cursor, raw, observed, covered, unseen>>

\* What is stored of a thread: what lies in the window, and what a list has named.
Included(t, got) == {i \in got : i > run.start /\ (i <= run.end \/ i \in thread[t].ids)}
\* Listed messages from before the window.
Excluded(t, got) == {i \in Sent(got) \cap thread[t].sent : i <= run.start}

\* gmail_incremental_sync_commit_thread
CommitThread(w) ==
  LET t == work[w].thread  got == work[w].got
      wanted == Known(t) \/ Sent(Included(t, got)) # {}
      gone == Excluded(t, got) IN
  /\ Commits(w, "fetch_thread")
  /\ IF thread[t].status # "pending"
     THEN run' = Freed(run) /\ UNCHANGED <<thread, raw>>
     ELSE /\ raw' = IF wanted THEN raw \cup Included(t, got) ELSE raw
          /\ thread' = [thread EXCEPT ![t].status = IF wanted THEN "complete" ELSE "filtered_out",
                                      ![t].excluded = gone]
          /\ run' = [Freed(run) EXCEPT !.withheld = @ \/ ~(thread[t].sent \ gone \subseteq raw')]
  /\ UNCHANGED <<gmail, mailbox, cursor, observed, covered, unseen>>

\* gmail_incremental_sync_record_thread_gone
CommitGone(w) ==
  LET t == work[w].thread IN
  /\ work[w].at = "gone" /\ Valid(w) /\ Leaves(w)
  /\ thread' = [thread EXCEPT ![t].status = IF @ = "pending" THEN "gone" ELSE @]
  /\ run' = Freed(run)
  /\ UNCHANGED <<gmail, mailbox, cursor, raw, observed, covered, unseen>>

\* A read fails: the run waits (gmail_incremental_sync_record_retry), or fails with what
\* it has listed, and the cursor stays (_fail_run). The attempts are not counted.
Retries(w) ==
  /\ AsksToken(w) /\ Valid(w) /\ Leaves(w)
  /\ run' = Freed(run)
  /\ UNCHANGED <<gmail, mailbox, cursor, thread, raw, observed, covered, unseen>>

Fails(w) ==
  /\ AsksToken(w) /\ Valid(w) /\ Leaves(w)
  /\ run' = Ended("failed") /\ thread' = Rows(run')
  /\ UNCHANGED <<gmail, mailbox, cursor, raw, observed, covered, unseen>>

Withheld == run.withheld \/ \E t \in Thread : ~(thread[t].sent \ thread[t].excluded \subseteq raw)

\* Fault: the run looks at the clock once more when it ends.
AdvancedToClock ==
  [cursor EXCEPT !.history = IF Withheld THEN @ ELSE run.latest,
                 !.horizon = IF Withheld THEN @ ELSE now,
                 !.pipeline = TRUE]
Advanced ==
  [cursor EXCEPT !.history = IF Withheld THEN @ ELSE run.latest,
                 !.horizon = IF Withheld THEN @ ELSE run.end,
                 !.pipeline = TRUE]

\* gmail_incremental_sync_commit_completion (0101)
CommitCompletion(w) ==
  LET complete == {t \in Thread : thread[t].status = "complete"} IN
  /\ Asks(w, "complete_run") /\ Leaves(w)
  /\ IF run.latest = 0 \/ ~run.listed \/ \E t \in Thread : thread[t].status = "pending"
     THEN run' = Freed(run) /\ UNCHANGED <<cursor, thread, observed, covered, unseen>>
     ELSE /\ run' = Ended("completed") /\ thread' = Rows(run')
          /\ cursor' = Advanced
          /\ observed' = [t \in Thread |-> IF t \in complete /\ run.end > observed[t] THEN run.end
                                           ELSE observed[t]]
          /\ covered' = complete
          /\ unseen' = unseen \cup complete
  /\ UNCHANGED <<gmail, mailbox, raw>>

-----------------------------------------------------------------------------
\* The local pipeline, which reads no mail. Its lease is renewed while it works, and may
\* still have expired when another worker claims it.

ClaimPipeline(w) ==
  /\ work[w].at = "idle" /\ mailbox.state = "connected"
  /\ cursor.pipeline /\ run.status # "runnable"
  /\ cursor' = [cursor EXCEPT !.lease = w]
  /\ work' = [work EXCEPT ![w] = [Idle EXCEPT !.at = "pipeline", !.got = covered]]
  /\ UNCHANGED <<gmail, mailbox, run, thread, raw, observed, covered, unseen>>

\* Fault: whoever ends clears the flag.
MarkedByAny(w) == mailbox.state = "connected" /\ cursor.lease # None
\* gmail_incremental_sync_mark_pipeline_done asks for the token, not for the time.
Marked(w) == mailbox.state = "connected" /\ cursor.lease = w

PipelineDone(w) ==
  /\ work[w].at = "pipeline" /\ Leaves(w)
  /\ IF Marked(w)
     THEN /\ cursor' = [cursor EXCEPT !.pipeline = FALSE, !.lease = None]
          /\ unseen' = unseen \ work[w].got
     ELSE UNCHANGED <<cursor, unseen>>
  /\ UNCHANGED <<gmail, mailbox, run, thread, raw, observed, covered>>

\* The pipeline is not finished, or throws: gmail_incremental_sync_release_pipeline.
PipelinePending(w) ==
  /\ work[w].at = "pipeline" /\ Leaves(w)
  /\ cursor' = IF cursor.lease = w THEN [cursor EXCEPT !.lease = None] ELSE cursor
  /\ UNCHANGED <<gmail, mailbox, run, thread, raw, observed, covered, unseen>>

\* The process ends, or a call of it is never answered.
Dies(w) ==
  /\ work[w].at # "idle" /\ Leaves(w)
  /\ UNCHANGED <<gmail, mailbox, cursor, run, thread, raw, observed, covered, unseen>>

-----------------------------------------------------------------------------
Steps(w) ==
  \/ ClaimStep(w) \/ BeginRun(w) \/ TokenDead(w) \/ TokenRefused(w) \/ TokenFails(w)
  \/ CarriesOut(w) \/ Refused(w)
Reads(w) ==
  ReadHistory(w) \/ HistoryGone(w) \/ ReadProfile(w) \/ ReadSent(w) \/ ReadThread(w)
Stores(w) ==
  \/ CommitHistory(w) \/ CommitExpired(w) \/ CommitProfile(w) \/ CommitSent(w)
  \/ CommitKnown(w) \/ CommitThread(w) \/ CommitGone(w) \/ CommitCompletion(w)
  \/ Retries(w) \/ Fails(w)
Pipes(w) == ClaimPipeline(w) \/ PipelineDone(w) \/ PipelinePending(w)

Next ==
  \/ Arrives \/ (\E i \in 1..MaxMail : Removes(i)) \/ MailboxMoves
  \/ LeaseExpires
  \/ \E w \in Worker : Steps(w) \/ Reads(w) \/ Stores(w) \/ Pipes(w) \/ Dies(w)

Spec == Init /\ [][Next]_vars
=============================================================================
