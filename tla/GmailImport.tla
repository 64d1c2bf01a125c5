---------------------------- MODULE GmailImport ----------------------------
\* The historical import of a mailbox, on top of the connection it reads with:
\* runs with their lease, cursor and threads, the workers that carry out
\* runOneImportStep, and the trigger that carries a change of the mailbox into the
\* runs. A worker asks for its token as a caller of GmailConnection.
EXTENDS GmailConnection, Sequences, FiniteSets

CONSTANTS
  Run, Thread,
  Pages,         \* the pages of messages.list: a sequence of sets of threads
  MaxAttempts    \* failures that a page or a thread may have

ASSUME ImportAssumption ==
  /\ Pages \in Seq(SUBSET Thread) /\ Pages # <<>>
  /\ MaxAttempts \in Nat \ {0}
  /\ None \notin Caller /\ None \notin Thread /\ None \notin Run

VARIABLES
  run,        \* gmail_historical_import_runs with their _threads
  raw,        \* threads whose messages are in gmail_raw_messages
  work,       \* workers: the claim that each holds, and how far it is
  overtaken   \* history: workers whose claim something has happened to

vars == <<mail, blocked, flow, stop, caller, seq, alive, dropped,
          run, raw, work, overtaken>>

Idle == [at |-> "idle", run |-> None, step |-> "none", thread |-> None, rev |-> 0,
         page |-> 0]

Active == {"runnable", "paused_reauth", "paused_consent"}
Terminal == {"cancelled_connection_stopped", "failed", "completed"}

Init ==
  /\ ConnInit
  /\ run = [r \in Run |-> [status |-> "none", page |-> 1, tries |-> 0, later |-> FALSE,
                           lease |-> None, resumes |-> FALSE,
                           thread |-> [t \in Thread |-> "unseen"],
                           failures |-> [t \in Thread |-> 0], waiting |-> {}]]
  /\ raw = {}
  /\ work = [w \in Caller |-> Idle]
  /\ overtaken = {}

-----------------------------------------------------------------------------
\* The mailbox moves

\* Fault: the lease outlives the status.
StoppedLeased(x, status) == [x EXCEPT !.status = status]
Stopped(x, status) == [x EXCEPT !.status = status, !.lease = None]

\* Fault: a paused run waits for its answer through a Disconnect.
LifecycleOfRunnable(x, state) ==
  CASE state \in {"disconnecting", "disconnected", "deletion_pending"}
       /\ x.status = "runnable" -> Stopped(x, "cancelled_connection_stopped")
    [] state = "reauth_required" /\ x.status = "runnable" -> Stopped(x, "paused_reauth")
    [] state = "consent_required" /\ x.status = "runnable" -> Stopped(x, "paused_consent")
    [] OTHER -> x
\* apply_gmail_lifecycle_to_import_runs, in the transaction that moves the mailbox.
Lifecycle(x, state) ==
  CASE state \in {"disconnecting", "disconnected", "deletion_pending"}
       /\ x.status \in Active -> Stopped(x, "cancelled_connection_stopped")
    [] state = "reauth_required" /\ x.status = "runnable" -> Stopped(x, "paused_reauth")
    [] state = "consent_required" /\ x.status = "runnable" -> Stopped(x, "paused_consent")
    [] OTHER -> x

\* History: a claim is overtaken when its run changes status or is leased again, or
\* the mailbox its revision, while the worker still holds the claim.
Overtakes ==
  overtaken' = {w \in Caller :
    /\ work'[w].run # None
    /\ \/ w \in overtaken
       \/ work[w].run # None /\ \/ run'[work[w].run].status # run[work[w].run].status
                                \/ run'[work[w].run].lease \notin {w, None}
                                \/ mail'.rev # mail.rev}

\* The trigger looks for runs of some statuses and waits for a row that a resume
\* holds only if that row, as last committed, has one of them: a paused run holds up
\* the end of the connection and is passed over by a pause.
TriggerGoes(state) ==
  state \in {"disconnecting", "disconnected", "deletion_pending"}
    => \A r \in Run : ~run[r].resumes

\* A step of the connection, with the trigger.
Connection ==
  /\ \/ FlowNext \/ StopNext \/ OwnerNext
     \/ \E w \in Caller : work[w].at = "token" /\ CallerNext(w)
  /\ mail'.state # mail.state => TriggerGoes(mail'.state)
  /\ run' = IF mail'.state = mail.state THEN run
            ELSE [r \in Run |-> Lifecycle(run[r], mail'.state)]
  /\ UNCHANGED <<raw, work>>

-----------------------------------------------------------------------------
\* gmail_import_authorization_state without an expected revision (0093). "closing" is
\* its answer 'deletion_pending', which workers do not take for the mailbox's state.
Authorization ==
  IF blocked THEN "closing"
  ELSE IF mail.state # "connected" THEN "not_connected"
  ELSE IF mail.consent = "none" THEN "consent_missing"
  ELSE IF mail.consent # mail.scopes THEN "consent_scope_changed" ELSE "ok"

\* gmail_historical_import_start; a mailbox has one run that has not ended.
Start(r) ==
  /\ run[r].status = "none" /\ Authorization = "ok"
  /\ \A q \in Run : run[q].status \notin Active
  /\ run' = [run EXCEPT ![r].status = "runnable"]
  /\ UNCHANGED <<connVars, raw, work>>

\* gmail_historical_import_resume locks the row of the run and looks at the mailbox,
\* which it does not lock.
ResumeReads(r) ==
  /\ run[r].status \in {"paused_reauth", "paused_consent"} /\ ~run[r].resumes
  /\ Authorization = "ok"
  /\ run' = [run EXCEPT ![r].resumes = TRUE]
  /\ UNCHANGED <<connVars, raw, work>>

\* What it writes on that answer, or its transaction is rolled back.
ResumeEnds(r, commits) ==
  /\ run[r].resumes
  /\ run' = [run EXCEPT ![r].resumes = FALSE,
                        ![r].status = IF commits THEN "runnable" ELSE @]
  /\ UNCHANGED <<connVars, raw, work>>

Resume(r) == ResumeReads(r) \/ \E commits \in BOOLEAN : ResumeEnds(r, commits)

\* A lease past its time counts for nothing, whoever's it is.
LeaseExpires(r) ==
  /\ run[r].lease # None
  /\ run' = [run EXCEPT ![r].lease = None]
  /\ UNCHANGED <<connVars, raw, work>>

\* A backoff is over.
Ready(r) ==
  /\ run[r].later \/ run[r].waiting # {}
  /\ run' = [run EXCEPT ![r].later = FALSE, ![r].waiting = {}]
  /\ UNCHANGED <<connVars, raw, work>>

-----------------------------------------------------------------------------
\* One step of a worker: claim, token, validate, read, commit

\* What a worker goes on to do to its run when it is told that it may not read
\* (applyAuthorizationOutcome): the status it asks for, or "idle".
Reaction(told, state) ==
  LET about == IF told = "not_connected" THEN state ELSE told IN
  CASE about = "reauth_required" -> "paused_reauth"
    [] about \in {"consent_missing", "consent_scope_changed", "consent_required"} -> "paused_consent"
    [] about \in (States \cup {"unknown"}) \ {"reauth_required", "consent_required"} ->
         "cancelled_connection_stopped"
    [] OTHER -> "idle"

React(w, r, reaction) ==
  work' = [work EXCEPT ![w] = IF reaction = "idle" THEN Idle
                              ELSE [Idle EXCEPT !.at = reaction, !.run = r]]

ClaimRefused(w, r) ==
  /\ work[w].at = "idle" /\ run[r].status = "runnable" /\ Authorization # "ok"
  /\ React(w, r, Reaction(Authorization, mail.state))
  /\ UNCHANGED <<connVars, run, raw>>

\* gmail_historical_import_claim_step: one step, under a lease and the revision
\* that the mailbox has now.
Claim(w, r, step, thread, at) ==
  /\ work[w].at = "idle" /\ run[r].status = "runnable" /\ Authorization = "ok"
  /\ run[r].lease = None
  /\ run' = [run EXCEPT ![r].lease = w]
  /\ work' = [work EXCEPT ![w] = [at |-> at, run |-> r, step |-> step, thread |-> thread,
                                  rev |-> mail.rev, page |-> run[r].page]]
  /\ UNCHANGED <<connVars, raw>>

Enumerated(r) == run[r].page > Len(Pages)
Pending(r) == {t \in Thread : run[r].thread[t] = "pending"}

ClaimPage(w, r) ==
  ~Enumerated(r) /\ ~run[r].later /\ Claim(w, r, "enumerate_page", None, "token")

ClaimThread(w, r, t) ==
  /\ Enumerated(r) /\ t \in Pending(r) \ run[r].waiting
  /\ Claim(w, r, "fetch_thread", t, "token")

ClaimCompletion(w, r) ==
  Enumerated(r) /\ Pending(r) = {} /\ Claim(w, r, "complete_run", None, "completing")

\* The worker has the answer of getFreshGmailAccessToken. A lease that it cannot
\* use is left to expire.
TokenAnswer(w) ==
  /\ work[w].at = "token" /\ caller[w].at = "told"
  /\ IF caller[w].told = "ok" THEN work' = [work EXCEPT ![w].at = "ready"]
     ELSE React(w, work[w].run, Reaction(caller[w].told, mail.state))
  /\ Leave(w)
  /\ UNCHANGED <<run, raw>>

\* Fault: the state of the mailbox stands for its revision.
GuardUnpinned(w) ==
  LET x == run[work[w].run] IN
  IF x.lease # w THEN "stale_lease"
  ELSE IF x.status # "runnable" THEN "not_runnable" ELSE Authorization
\* gmail_import_commit_guard
Guard(w) ==
  LET x == run[work[w].run] IN
  IF x.lease # w THEN "stale_lease"
  ELSE IF x.status # "runnable" THEN "not_runnable"
  ELSE IF Authorization # "ok" THEN Authorization
  ELSE IF mail.rev # work[w].rev THEN "authorization_changed" ELSE "ok"

\* gmail_historical_import_validate_claim, right before the request to Gmail.
Validate(w) ==
  /\ work[w].at = "ready" /\ Guard(w) = "ok"
  /\ work' = [work EXCEPT ![w].at = "reading"]
  /\ UNCHANGED <<connVars, run, raw>>

\* A refused validation or commit, which waits for the row of its run; a commit that
\* still owns the lease releases it.
\* refusalOutcome looks at the run first, and then at the reason.
Refused(w) ==
  LET r == work[w].run IN
  /\ work[w].at \in {"ready", "reading", "completing"} /\ Guard(w) # "ok"
  /\ ~run[r].resumes
  /\ run' = IF work[w].at = "ready" \/ Guard(w) = "stale_lease" THEN run
            ELSE [run EXCEPT ![r].lease = None]
  /\ React(w, r, IF run[r].status = "runnable" THEN Reaction(Guard(w), mail.state) ELSE "idle")
  /\ UNCHANGED <<connVars, raw>>

\* The pause or the cancel that a worker decided on.
CarryOut(w) ==
  LET r == work[w].run  status == work[w].at IN
  /\ status \in {"paused_reauth", "paused_consent", "cancelled_connection_stopped"}
  /\ ~run[r].resumes
  /\ run' = IF run[r].status = "runnable"
               \/ (status = "cancelled_connection_stopped" /\ run[r].status \in Active)
            THEN [run EXCEPT ![r] = Stopped(@, status)] ELSE run
  /\ work' = [work EXCEPT ![w] = Idle]
  /\ UNCHANGED <<connVars, raw>>

Commits(w, step) ==
  /\ work[w].at = "reading" /\ work[w].step = step /\ Guard(w) = "ok"
  /\ work' = [work EXCEPT ![w] = Idle]
  /\ UNCHANGED <<connVars>>

\* Fault: a page without threads is taken for the last one.
ListedToTheEnd(x, page) ==
  [x EXCEPT !.thread = [t \in Thread |-> IF t \in Pages[page] /\ @[t] = "unseen"
                                         THEN "pending" ELSE @[t]],
            !.page = IF Pages[page] = {} THEN Len(Pages) + 1 ELSE @ + 1,
            !.tries = 0, !.later = FALSE, !.lease = None]
\* The threads of the page and the cursor, in one transaction.
Listed(x, page) ==
  [x EXCEPT !.thread = [t \in Thread |-> IF t \in Pages[page] /\ @[t] = "unseen"
                                         THEN "pending" ELSE @[t]],
            !.page = @ + 1, !.tries = 0, !.later = FALSE, !.lease = None]

\* gmail_historical_import_commit_page
CommitPage(w) ==
  LET r == work[w].run IN
  /\ Commits(w, "enumerate_page")
  /\ run' = IF run[r].page = work[w].page
            THEN [run EXCEPT ![r] = Listed(@, work[w].page)]
            ELSE [run EXCEPT ![r].lease = None]
  /\ UNCHANGED raw

ThreadIs(x, t, status) == [x EXCEPT !.thread[t] = status, !.lease = None]

\* gmail_historical_import_commit_thread: a thread without a sent message in the
\* exact window leaves no message behind.
CommitThread(w, exact) ==
  LET r == work[w].run  t == work[w].thread IN
  /\ Commits(w, "fetch_thread")
  /\ run' = [run EXCEPT ![r] = ThreadIs(@, t, IF exact THEN "complete" ELSE "filtered_out")]
  /\ raw' = IF exact THEN raw \cup {t} ELSE raw

\* gmail_historical_import_record_thread_gone
ThreadGone(w) ==
  /\ Commits(w, "fetch_thread")
  /\ run' = [run EXCEPT ![work[w].run] = ThreadIs(@, work[w].thread, "gone")]
  /\ UNCHANGED raw

\* A failure of a thread; the last one fails the run in the same transaction.
Failed(x, t, last) ==
  [x EXCEPT !.failures[t] = @ + 1, !.lease = None, !.waiting = @ \cup {t},
            !.thread[t] = IF last THEN "failed" ELSE "pending",
            !.status = IF last THEN "failed" ELSE @]

\* gmail_historical_import_record_retry
RetryPage(w, retryable) ==
  LET r == work[w].run  last == ~retryable \/ run[r].tries + 1 >= MaxAttempts IN
  /\ Commits(w, "enumerate_page")
  /\ run' = [run EXCEPT ![r].tries = @ + 1, ![r].later = ~last, ![r].lease = None,
                        ![r].status = IF last THEN "failed" ELSE @]
  /\ UNCHANGED raw

RetryThread(w, retryable) ==
  LET r == work[w].run  t == work[w].thread
      last == ~retryable \/ run[r].failures[t] + 1 >= MaxAttempts IN
  /\ Commits(w, "fetch_thread")
  /\ run' = [run EXCEPT ![r] = Failed(@, t, last)]
  /\ UNCHANGED raw

\* gmail_historical_import_commit_completion
Complete(w) ==
  LET r == work[w].run IN
  /\ work[w].at = "completing" /\ Guard(w) = "ok"
  /\ work' = [work EXCEPT ![w] = Idle]
  /\ run' = IF Pending(r) # {} THEN [run EXCEPT ![r].lease = None]
            ELSE [run EXCEPT ![r] =
                    Stopped(@, IF \E t \in Thread : run[r].thread[t] = "failed"
                               THEN "failed" ELSE "completed")]
  /\ UNCHANGED <<connVars, raw>>

\* The process ends, at any point; what it holds is lost and its lease expires.
Dies(w) ==
  /\ work[w].at # "idle"
  /\ work' = [work EXCEPT ![w] = Idle]
  /\ IF caller[w].at = "idle" THEN UNCHANGED connVars ELSE Leave(w)
  /\ UNCHANGED <<run, raw>>

-----------------------------------------------------------------------------
Worker(w) ==
  \/ \E r \in Run : \/ ClaimRefused(w, r) \/ ClaimPage(w, r) \/ ClaimCompletion(w, r)
                    \/ \E t \in Thread : ClaimThread(w, r, t)
  \/ TokenAnswer(w) \/ Validate(w) \/ Refused(w) \/ CarryOut(w)
  \/ (\E exact \in BOOLEAN : CommitThread(w, exact))
  \/ CommitPage(w) \/ ThreadGone(w) \/ Complete(w) \/ Dies(w)
  \/ \E retryable \in BOOLEAN : RetryPage(w, retryable) \/ RetryThread(w, retryable)

Next ==
  /\ \/ Connection
     \/ \E r \in Run : Start(r) \/ Resume(r) \/ LeaseExpires(r) \/ Ready(r)
     \/ \E w \in Caller : Worker(w)
  /\ Overtakes

Spec == Init /\ [][Next]_vars
=============================================================================
