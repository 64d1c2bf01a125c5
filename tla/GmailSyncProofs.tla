--------------------------- MODULE GmailSyncProofs ---------------------------
(***************************************************************************)
(* Proofs about the incremental sync, for any threads, workers and bounds. *)
(***************************************************************************)
EXTENDS GmailSyncProperties, TLAPS

Places == {"idle", "ready", "read", "expired", "gone", "pipeline"} \cup
          {"paused_reauth", "cancelled_connection_stopped", "release"}
StepNames == {"none", "enumerate_history", "capture_history", "enumerate_sent",
              "enqueue_known", "fetch_thread", "complete_run"}

Works == [at : Places, mine : BOOLEAN, step : StepNames, thread : Thread \cup {None},
          rev : 0..MaxRev, page : 0..MaxMail, upto : 0..MaxMail, hist : 0..MaxMail,
          got : SUBSET ((1..MaxMail) \cup Thread)]
\* What TypeOK leaves open of the workers: a worker reads mail, its pipeline threads.
WorkOK ==
  /\ work \in [Worker -> Works]
  /\ \A w \in Worker : work[w].at # "pipeline" => work[w].got \in Ids
  /\ \A w \in Worker : work[w].step = "fetch_thread" => work[w].thread \in Thread

Live == run.status \in Active

\* Nothing that is stored, read or passed lies ahead of Gmail, and a run's window opens
\* at the horizon.
Clocks ==
  /\ cursor.history <= cursor.horizon /\ cursor.horizon <= now
  /\ \A t \in Thread : observed[t] <= now
  /\ Live => /\ run.start = cursor.horizon /\ run.start <= run.end /\ run.end <= now
             /\ run.latest <= run.end /\ run.page <= now

\* What the status of a listed thread says of its mail.
Status(t) ==
  /\ thread[t].sent = Sent(thread[t].ids)
  /\ thread[t].status = "none" => thread[t].ids = {}
  /\ \A i \in thread[t].excluded : i <= run.start
  /\ thread[t].status = "filtered_out" => ~Known(t)
  /\ thread[t].status = "complete" =>
       \A i \in Mail(t) : run.start < i /\ i <= run.end => i \in raw \cup deleted
  /\ thread[t].status = "gone" => \A i \in Mail(t) : i <= run.end => i \in deleted
  /\ ~run.listed => thread[t].status \in {"none", "pending", "filtered_out"}
Listed == Live => \A t \in Thread : Status(t)

\* A list read to its end has named all mail of the window, a re-scan all that the
\* creator sent; and a re-scan that asked for the known threads has them.
Enumerated ==
  Live =>
    /\ run.mode = "history_list" =>
         /\ \A i \in 1..now : cursor.history < i /\ i <= run.page => i \in thread[mail[i].thread].ids
         /\ run.listed => \A i \in 1..now : run.page < i /\ i <= run.end => i \in late
    /\ run.mode = "bounded_rescan" =>
         /\ run.listed =>
              \A i \in Sent(1..now) : run.start < i /\ i <= run.end => i \in deleted \cup thread[mail[i].thread].ids
         /\ run.known => \A t \in Thread : Known(t) => thread[t].status \notin {"none", "filtered_out"}

\* A worker with the lease is at the step that the run is at, and what Gmail has
\* answered it is what Gmail holds of the window.
Answer(w) ==
  LET k == work[w] IN
  /\ k.at = "expired" => k.step = "enumerate_history"
  /\ k.at = "gone" => k.step = "fetch_thread" /\ k.got = {}
  /\ k.at = "read" /\ k.step = "enumerate_history" =>
       /\ k.got = (k.page + 1)..k.upto /\ k.upto <= k.hist /\ k.hist <= now
       /\ k.upto = k.hist => \A i \in 1..now : k.hist < i => i \in late
  /\ k.at = "read" /\ k.step = "capture_history" => k.hist <= now
  /\ k.at = "read" /\ k.step = "enumerate_sent" =>
       /\ k.got \subseteq Sent(1..now)
       /\ \A i \in Sent(1..now) : run.start < i /\ i <= run.end => i \in k.got \cup deleted
  /\ k.at \in {"read", "gone"} /\ k.step = "fetch_thread" =>
       /\ k.got \subseteq Mail(k.thread)
       /\ \A i \in Mail(k.thread) : i <= run.end => i \in k.got \cup deleted
Leased ==
  \A w \in Worker :
    run.lease = w /\ work[w].at # "idle" =>
      /\ work[w].at # "pipeline" /\ work[w].step = NextStep(run, thread)
      /\ work[w].step = "fetch_thread" => work[w].thread \in Pending(thread)
      /\ Answer(w)

\* A pipeline is due only between two runs, and whoever holds its lease has all that
\* the last run has covered.
Piped ==
  /\ cursor.pipeline => ~Live /\ unseen \subseteq covered
  /\ ~cursor.pipeline => unseen = {} /\ cursor.lease = None
  /\ \A w \in Worker : cursor.lease = w /\ work[w].at = "pipeline" => work[w].got = covered

\* PassedIsStored, told apart by what has passed a message.
BeforeHorizon ==
  \A i \in 1..now : i <= cursor.horizon /\ Wanted(i) => i \in raw \cup deleted \cup late
WhenObserved ==
  \A i \in 1..now :
    cursor.horizon < i /\ i <= observed[mail[i].thread] => i \in raw \cup deleted

TypeInv == TypeOK /\ WorkOK
Window == Clocks /\ Listed /\ Enumerated /\ WhenObserved /\ BeforeHorizon
IInv == TypeInv /\ Window /\ Leased

-----------------------------------------------------------------------------
\* Types

\* What a run becomes has the type of a run.
LEMMA RunTypes ==
  ASSUME NEW r \in Runs
  PROVE  /\ Freed(r) \in Runs /\ Freed(r).lease = None
         /\ \A s \in Active : Leaseless(r, s) \in Runs /\ [r EXCEPT !.status = s] \in Runs
         /\ \A s \in Active : Leaseless(r, s).lease = None
         /\ \A s \in Over : Ended(s) \in Runs
<1>1. NoRun \in Runs
  BY SyncAssumption DEF Runs, NoRun
<1>2. \A s \in Over : Ended(s) \in Runs
  BY <1>1 DEF Runs, Ended
<1>3. \A s \in Active : Leaseless(r, s) \in Runs /\ [r EXCEPT !.status = s] \in Runs
  BY DEF Runs, Leaseless
<1>4. Freed(r) \in Runs /\ Freed(r).lease = None
  BY DEF Runs, Freed
<1>5. \A s \in Active : Leaseless(r, s).lease = None
  BY DEF Runs, Leaseless
<1> QED BY <1>2, <1>3, <1>4, <1>5

\* The trigger answers a state with a run, which it leases to nobody, and never revives
\* a run that is over.
LEMMA LifecycleTypes ==
  ASSUME NEW r \in Runs, NEW state
  PROVE  /\ Lifecycle(r, state) \in Runs
         /\ Lifecycle(r, state).lease \in {r.lease, None}
         /\ Lifecycle(r, state).status \in Active => r.status \in Active
<1>1. CASE state = "stopped" /\ r.status \in Active
  BY <1>1, RunTypes DEF Lifecycle, Ended, NoRun, Active, Paused, Over
<1>2. CASE ~(state = "stopped" /\ r.status \in Active)
  <2>1. \/ Lifecycle(r, state) = Leaseless(r, "paused_reauth") /\ r.status = "runnable"
        \/ Lifecycle(r, state) = Leaseless(r, "paused_consent") /\ r.status = "runnable"
        \/ Lifecycle(r, state) = [r EXCEPT !.status = "runnable"] /\ r.status \in Paused
        \/ Lifecycle(r, state) = r
    BY <1>2 DEF Lifecycle
  <2>2. "paused_reauth" \in Active /\ "paused_consent" \in Active /\ "runnable" \in Active
        /\ Paused \subseteq Active
    BY DEF Active, Paused
  <2>3. CASE Lifecycle(r, state) = Leaseless(r, "paused_reauth") /\ r.status = "runnable"
    BY <2>2, <2>3, RunTypes
  <2>4. CASE Lifecycle(r, state) = Leaseless(r, "paused_consent") /\ r.status = "runnable"
    BY <2>2, <2>4, RunTypes
  <2>5. CASE Lifecycle(r, state) = [r EXCEPT !.status = "runnable"] /\ r.status \in Paused
    BY <2>2, <2>5, RunTypes DEF Runs
  <2> QED BY <2>1, <2>3, <2>4, <2>5
<1> QED BY <1>1, <1>2

\* What becomes of the rows of a run.
LEMMA RowTypes ==
  ASSUME thread \in [Thread -> Listings], NEW r
  PROVE  Rows(r) \in [Thread -> Listings]
BY DEF Rows, Listings, Unlisted, Ids

\* A thread that is noted keeps its type.
LEMMA NotedTypes ==
  ASSUME thread \in [Thread -> Listings], NEW t \in Thread, NEW ids \in Ids, NEW wanted \in BOOLEAN
  PROVE  Noted(t, ids, wanted) \in Listings
BY DEF Noted, Listings, Ids, Sent

\* The answer to a read of mail.
LEMMA AnswerTypes ==
  ASSUME WorkOK, NEW w \in Worker, work[w].at # "pipeline", NEW at \in Places, NEW got \in Ids,
         NEW upto \in 0..MaxMail, NEW hist \in 0..MaxMail,
         work' = [work EXCEPT ![w] = [@ EXCEPT !.at = at, !.upto = upto, !.hist = hist, !.got = got]]
  PROVE  WorkOK'
<1>1. /\ work' \in [Worker -> Works]
      /\ work'[w].got = got /\ work'[w].step = work[w].step /\ work'[w].thread = work[w].thread
      /\ \A v \in Worker \ {w} : work'[v] = work[v]
  BY DEF WorkOK, Works, Ids
<1> QED BY <1>1 DEF WorkOK

\* A worker that moves within its step, or leaves it.
LEMMA WorkTypes ==
  ASSUME WorkOK, NEW w \in Worker
  PROVE  /\ \A at \in Places : work[w].at # "pipeline" /\ Becomes(w, at) => WorkOK'
         /\ Leaves(w) => WorkOK'
<1>1. ASSUME NEW at \in Places, work[w].at # "pipeline", Becomes(w, at)
      PROVE  WorkOK'
  BY <1>1 DEF WorkOK, Works, Becomes
<1>2. Idle \in Works /\ Idle.at = "idle" /\ Idle.step = "none"
  BY SyncAssumption DEF Works, Idle, Places, StepNames
<1>3. ASSUME Leaves(w) PROVE WorkOK'
  BY <1>2, <1>3 DEF WorkOK, Leaves, Idle, Ids
<1> QED BY <1>1, <1>3

\* The types hold at first.
LEMMA TypeInit == Init => TypeInv
BY SyncAssumption DEF Init, TypeInv, TypeOK, WorkOK, Works, Ids, Runs, NoRun, Listings, Unlisted,
  Idle, Places, StepNames, Active, Paused, Over

\* Where a run is when it is at a step.
LEMMA StepsOfRuns ==
  ASSUME NEW r \in Runs, NEW ts
  PROVE  /\ NextStep(r, ts) \in StepNames
         /\ NextStep(r, ts) = "enumerate_history" => r.mode = "history_list" /\ ~r.listed
         /\ NextStep(r, ts) = "capture_history" =>
              /\ r.mode = "bounded_rescan" /\ ~r.listed /\ ~r.known
              /\ \A t \in Thread : ts[t].status = "none"
         /\ NextStep(r, ts) = "enumerate_sent" => r.mode = "bounded_rescan" /\ ~r.listed
         /\ NextStep(r, ts) = "enqueue_known" => r.mode = "bounded_rescan" /\ r.listed
         /\ NextStep(r, ts) \in {"fetch_thread", "complete_run"} =>
              r.listed /\ (r.mode = "bounded_rescan" => r.known)
         /\ NextStep(r, ts) = "fetch_thread" => Pending(ts) # {}
<1> DEFINE H == r.mode = "history_list" /\ ~r.listed
           C == r.mode = "bounded_rescan" /\ r.latest = 0 /\ ~r.listed /\ ~r.known
                /\ (\A t \in Thread : ts[t].status = "none")
           S == r.mode = "bounded_rescan" /\ ~r.listed
           K == r.mode = "bounded_rescan" /\ ~r.known
<1>1. r.mode \in {"history_list", "bounded_rescan"} /\ r.listed \in BOOLEAN /\ r.known \in BOOLEAN
  BY DEF Runs
<1>2. CASE H
  <2>1. NextStep(r, ts) = "enumerate_history"
    BY <1>2 DEF NextStep
  <2> QED BY <1>2, <2>1 DEF StepNames
<1>3. CASE C
  <2>1. NextStep(r, ts) = "capture_history"
    BY <1>3 DEF NextStep
  <2> QED BY <1>3, <2>1 DEF StepNames
<1>4. CASE ~C /\ S
  <2>1. NextStep(r, ts) = "enumerate_sent"
    BY <1>4 DEF NextStep
  <2> QED BY <1>4, <2>1 DEF StepNames
<1>5. CASE ~S /\ K
  <2>1. NextStep(r, ts) = "enqueue_known"
    BY <1>5 DEF NextStep
  <2> QED BY <1>1, <1>5, <2>1 DEF StepNames
<1>6. CASE ~H /\ ~S /\ ~K
  <2>1. NextStep(r, ts) = IF Pending(ts) # {} THEN "fetch_thread" ELSE "complete_run"
    BY <1>1, <1>6 DEF NextStep
  <2> QED BY <1>1, <1>6, <2>1 DEF StepNames
<1> QED BY <1>2, <1>3, <1>4, <1>5, <1>6

\* What the mailbox does keeps the types: the trigger frees a run that it does not let go on.
LEMMA TypeMoves ==
  ASSUME TypeOK, NEW state \in {"connected", "reauth_required", "consent_required", "stopped"},
         MovesTo(state)
  PROVE  /\ mailbox' \in [state : {"connected", "reauth_required", "consent_required", "stopped"},
                          rev : 0..MaxRev]
         /\ run' \in Runs /\ thread' \in [Thread -> Listings]
         /\ run'.lease # None => run'.status = "runnable"
<1>1. mailbox'.state = state /\ mailbox'.rev = mailbox.rev + 1 /\ mailbox.rev + 1 \in 0..MaxRev
      /\ mailbox' = [state |-> state, rev |-> mailbox.rev + 1]
  BY SyncAssumption DEF MovesTo, TypeOK
<1>2. run' \in Runs
  BY LifecycleTypes DEF MovesTo, TypeOK
<1>3. thread' \in [Thread -> Listings]
  BY RowTypes DEF MovesTo, TypeOK
<1>4. run'.lease # None => run'.status = "runnable"
  <2>1. CASE state = "stopped" /\ run.status \in Active /\ state # mailbox.state
    BY <2>1 DEF MovesTo, Lifecycle, Ended, NoRun
  <2>2. CASE ~(state = "stopped" /\ run.status \in Active) /\ state # mailbox.state
    <3>1. \/ run' = Leaseless(run, "paused_reauth")
          \/ run' = Leaseless(run, "paused_consent")
          \/ run' = [run EXCEPT !.status = "runnable"]
          \/ run' = run
      BY <2>2 DEF MovesTo, Lifecycle
    <3>2. run \in Runs /\ (run.lease # None => run.status = "runnable")
      BY DEF TypeOK
    <3> QED BY <3>1, <3>2 DEF Leaseless, Runs
  <2>3. CASE state = mailbox.state
    BY <2>3 DEF MovesTo, TypeOK
  <2> QED BY <2>1, <2>2, <2>3
<1> QED BY <1>1, <1>2, <1>3, <1>4

\* A run that has begun is runnable.
LEMMA BegunTypes ==
  ASSUME TypeOK
  PROVE  Begun \in Runs /\ Begun.status = "runnable"
<1>1. PICK b \in BOOLEAN : Begun =
        [NoRun EXCEPT !.status = "runnable",
                      !.mode = IF cursor.history = 0 THEN "bounded_rescan" ELSE "history_list",
                      !.start = cursor.horizon, !.end = now,
                      !.page = cursor.history, !.known = b]
  BY DEF Begun
<1>2. cursor.horizon \in 0..MaxMail /\ now \in 0..MaxMail /\ cursor.history \in 0..MaxMail
  BY SyncAssumption DEF TypeOK
<1>3. NoRun \in Runs
  BY SyncAssumption DEF NoRun, Runs
<1> QED BY <1>1, <1>2, <1>3 DEF Runs, Active

\* A claim keeps the types of the run, its rows and the workers.
LEMMA TypeLeases ==
  ASSUME TypeInv, NEW w \in Worker, NEW r \in Runs, NEW ts \in [Thread -> Listings],
         r.status = "runnable", Leases(w, r, ts)
  PROVE  /\ run' \in Runs /\ thread' \in [Thread -> Listings]
         /\ run'.status = "runnable" /\ WorkOK'
<1>1. run' \in Runs /\ run'.status = "runnable"
  BY DEF Leases, Runs
<1>2. PICK t \in IF NextStep(r, ts) = "fetch_thread" THEN Pending(ts) ELSE {None} :
        work' = [v \in Worker |->
          IF v = w
          THEN [Idle EXCEPT !.at = "ready", !.mine = TRUE, !.step = NextStep(r, ts), !.thread = t,
                            !.rev = mailbox.rev, !.page = r.page]
          ELSE [work[v] EXCEPT !.mine = @ /\ run.status = "runnable"]]
  BY DEF Leases
<1>3. NextStep(r, ts) \in StepNames
  BY StepsOfRuns
<1>4. t \in Thread \cup {None} /\ (NextStep(r, ts) = "fetch_thread" => t \in Thread)
  BY <1>2 DEF Pending
<1>5. [Idle EXCEPT !.at = "ready", !.mine = TRUE, !.step = NextStep(r, ts), !.thread = t,
                   !.rev = mailbox.rev, !.page = r.page] \in Works
  <2>1. mailbox.rev \in 0..MaxRev /\ r.page \in 0..MaxMail
    BY DEF TypeInv, TypeOK, Runs
  <2>2. Idle \in Works
    BY SyncAssumption DEF Works, Idle, Places, StepNames
  <2> QED BY <1>3, <1>4, <2>1, <2>2 DEF Works, Places
<1>6. \A v \in Worker : [work[v] EXCEPT !.mine = @ /\ run.status = "runnable"] \in Works
  BY DEF TypeInv, WorkOK, Works
<1>7. work' \in [Worker -> Works]
  BY <1>2, <1>5, <1>6
<1>8. ASSUME NEW v \in Worker
      PROVE  /\ work'[v].at # "pipeline" => work'[v].got \in Ids
             /\ work'[v].step = "fetch_thread" => work'[v].thread \in Thread
  <2>1. CASE v = w
    BY <1>2, <1>4, <2>1 DEF Idle, Ids
  <2>2. CASE v # w
    <3>1. work'[v] = [work[v] EXCEPT !.mine = @ /\ run.status = "runnable"] /\ work[v] \in Works
      BY <1>2, <2>2 DEF TypeInv, WorkOK
    <3>2. /\ work'[v].at = work[v].at /\ work'[v].got = work[v].got
          /\ work'[v].step = work[v].step /\ work'[v].thread = work[v].thread
      BY <3>1 DEF Works
    <3>3. /\ work[v].at # "pipeline" => work[v].got \in Ids
          /\ work[v].step = "fetch_thread" => work[v].thread \in Thread
      BY DEF TypeInv, WorkOK
    <3> QED BY <3>2, <3>3
  <2> QED BY <2>1, <2>2
<1>9. WorkOK'
  <2>1. \A v \in Worker : work'[v].at # "pipeline" => work'[v].got \in Ids
    BY <1>8
  <2>2. \A v \in Worker : work'[v].step = "fetch_thread" => work'[v].thread \in Thread
    BY <1>8
  <2> QED BY <1>7, <2>1, <2>2 DEF WorkOK
<1>10. thread' \in [Thread -> Listings]
  BY DEF Leases
<1> QED BY <1>1, <1>9, <1>10

\* The steps of Gmail, the mailbox, the clock and the tokens keep the types.
LEMMA TypeAround ==
  ASSUME TypeInv,
         \/ Arrives \/ (\E i \in 1..MaxMail : Removes(i)) \/ MailboxMoves \/ LeaseExpires
         \/ \E w \in Worker : TokenDead(w) \/ TokenRefused(w) \/ TokenFails(w) \/ CarriesOut(w)
                              \/ Refused(w) \/ Dies(w)
  PROVE  TypeInv'
<1> USE DEF TypeInv
<1>1. CASE Arrives
  <2>1. /\ now \in 1..MaxMail /\ late \in Ids /\ MaxMail \in Nat /\ now < MaxMail
    BY <1>1, SyncAssumption DEF Arrives, TypeOK
  <2>2. now + 1 \in 1..MaxMail
    BY <2>1
  <2>3. late' \in Ids
    BY <1>1, <2>1, <2>2 DEF Arrives, Ids
  <2> QED BY <1>1, <2>2, <2>3 DEF Arrives, TypeOK, WorkOK
<1>2. ASSUME NEW i \in 1..MaxMail, Removes(i) PROVE TypeInv'
  BY <1>2 DEF Removes, TypeOK, WorkOK, Ids
<1>3. CASE MailboxMoves
  <2>1. PICK state \in {"connected", "reauth_required", "consent_required", "stopped"} : MovesTo(state)
    BY <1>3 DEF MailboxMoves
  <2> QED BY <1>3, <2>1, TypeMoves DEF MailboxMoves, gmail, TypeOK, WorkOK
<1>4. CASE LeaseExpires
  <2>1. run' \in Runs /\ run'.lease = None
    BY <1>4, RunTypes DEF LeaseExpires, TypeOK
  <2> QED BY <1>4, <2>1 DEF LeaseExpires, gmail, TypeOK, WorkOK
<1>5. ASSUME NEW w \in Worker, TokenDead(w) PROVE TypeInv'
  <2>1. WorkOK'
    BY <1>5, WorkTypes DEF TokenDead, AsksToken, Places
  <2> QED BY <1>5, <2>1, TypeMoves DEF TokenDead, gmail, TypeOK, WorkOK
<1>6. ASSUME NEW w \in Worker, TokenRefused(w) PROVE TypeInv'
  <2>1. WorkOK'
    BY <1>6, WorkTypes DEF TokenRefused, AsksToken, Places
  <2> QED BY <1>6, <2>1 DEF TokenRefused, gmail, TypeOK, WorkOK
<1>7. ASSUME NEW w \in Worker, TokenFails(w) PROVE TypeInv'
  <2>1. WorkOK'
    BY <1>7, WorkTypes DEF TokenFails, AsksToken, Places
  <2> QED BY <1>7, <2>1 DEF TokenFails, gmail, TypeOK, WorkOK
<1>8. ASSUME NEW w \in Worker, CarriesOut(w) PROVE TypeInv'
  <2>1. WorkOK'
    BY <1>8, WorkTypes DEF CarriesOut
  <2>2. \/ run' = run
        \/ run' = Leaseless(run, "paused_reauth")
        \/ run' = Ended("cancelled_connection_stopped")
        \/ run' = Freed(run)
    BY <1>8 DEF CarriesOut
  <2>3. /\ Ended("cancelled_connection_stopped") \in Runs
        /\ Ended("cancelled_connection_stopped").lease = None
        /\ Leaseless(run, "paused_reauth") \in Runs /\ Leaseless(run, "paused_reauth").lease = None
        /\ Freed(run) \in Runs /\ Freed(run).lease = None
    <3>1. Ended("cancelled_connection_stopped").lease = None
      BY DEF Ended, NoRun
    <3> QED BY <3>1, RunTypes DEF TypeOK, Active, Paused, Over
  <2>4. run' \in Runs /\ (run'.lease # None => run'.status = "runnable")
    BY <2>2, <2>3 DEF TypeOK
  <2>5. thread' \in [Thread -> Listings]
    BY <1>8, RowTypes DEF CarriesOut, TypeOK
  <2> QED BY <1>8, <2>1, <2>4, <2>5 DEF CarriesOut, gmail, TypeOK, WorkOK
<1>9. ASSUME NEW w \in Worker, Refused(w) PROVE TypeInv'
  <2>1. WorkOK'
    BY <1>9, WorkTypes DEF Refused
  <2>2. run' \in Runs /\ (run'.lease # None => run'.status = "runnable")
    BY <1>9, RunTypes DEF Refused, TypeOK
  <2> QED BY <1>9, <2>1, <2>2 DEF Refused, gmail, TypeOK, WorkOK
<1>10. ASSUME NEW w \in Worker, Dies(w) PROVE TypeInv'
  <2>1. WorkOK'
    BY <1>10, WorkTypes DEF Dies
  <2> QED BY <1>10, <2>1 DEF Dies, gmail, TypeOK, WorkOK
<1> QED BY <1>1, <1>2, <1>3, <1>4, <1>5, <1>6, <1>7, <1>8, <1>9, <1>10

\* Claims and what Gmail answers keep the types.
LEMMA TypeReads ==
  ASSUME TypeInv, NEW w \in Worker, ClaimStep(w) \/ BeginRun(w) \/ Reads(w)
  PROVE  TypeInv'
<1> USE DEF TypeInv
<1>1. CASE ClaimStep(w)
  <2>1. run \in Runs /\ thread \in [Thread -> Listings]
    BY DEF TypeOK
  <2>2. /\ run' \in Runs /\ thread' \in [Thread -> Listings]
        /\ run'.status = "runnable" /\ WorkOK'
    BY <1>1, <2>1, TypeLeases DEF ClaimStep
  <2> QED BY <1>1, <2>2 DEF ClaimStep, gmail, TypeOK, WorkOK
<1>2. CASE BeginRun(w)
  <2>1. Begun \in Runs /\ Begun.status = "runnable"
    BY BegunTypes
  <2>2. [t \in Thread |-> Unlisted] \in [Thread -> Listings]
    BY DEF Unlisted, Listings, Ids
  <2>3. /\ run' \in Runs /\ thread' \in [Thread -> Listings]
        /\ run'.status = "runnable" /\ WorkOK'
    BY <1>2, <2>1, <2>2, TypeLeases DEF BeginRun
  <2> QED BY <1>2, <2>3 DEF BeginRun, gmail, TypeOK, WorkOK
<1> DEFINE k == work[w]
<1>0. /\ k \in Works /\ k.upto \in 0..MaxMail /\ k.hist \in 0..MaxMail /\ k.page \in 0..MaxMail
      /\ now \in 0..MaxMail /\ (k.at # "pipeline" => k.got \in Ids) /\ work \in [Worker -> Works]
  BY SyncAssumption DEF TypeOK, WorkOK, Works, Ids
<1>3. CASE ReadHistory(w)
  <2>1. PICK upto \in {i \in k.page..now : i > k.page \/ i = now} :
          work' = [work EXCEPT ![w].at = "read", ![w].upto = upto, ![w].hist = now,
                               ![w].got = k.page + 1 .. upto]
    BY <1>3 DEF ReadHistory
  <2>2. upto \in 0..MaxMail /\ k.page + 1 .. upto \in Ids
    BY <1>0, SyncAssumption DEF Ids
  <2>3. work' = [work EXCEPT ![w] = [@ EXCEPT !.at = "read", !.upto = upto, !.hist = now,
                                              !.got = k.page + 1 .. upto]]
    BY <1>0, <2>1
  <2>4. WorkOK'
    BY <1>0, <1>3, <2>2, <2>3, AnswerTypes DEF ReadHistory, Asks, Places
  <2> QED BY <1>3, <2>4 DEF ReadHistory, gmail, TypeOK, WorkOK
<1>4. CASE HistoryGone(w)
  <2>1. WorkOK'
    BY <1>4, WorkTypes DEF HistoryGone, Asks, Places
  <2> QED BY <1>4, <2>1 DEF HistoryGone, gmail, TypeOK, WorkOK
<1>5. CASE ReadProfile(w)
  <2>2. WorkOK'
    <3>1. work' = [work EXCEPT ![w] = [@ EXCEPT !.at = "read", !.upto = k.upto, !.hist = now,
                                                !.got = k.got]]
      BY <1>0, <1>5 DEF ReadProfile, Works
    <3>2. k.at = "ready" /\ "read" \in Places
      BY <1>5 DEF ReadProfile, Asks, Places
    <3> QED BY <1>0, <3>1, <3>2, AnswerTypes
  <2> QED BY <1>5, <2>2 DEF ReadProfile, gmail, TypeOK, WorkOK
<1>6. CASE ReadSent(w)
  <2> DEFINE got == {i \in Sent(1..now) \ deleted : i >= run.start}
  <2>1. got \in Ids
    BY SyncAssumption DEF TypeOK, Sent, Ids
  <2>2. WorkOK'
    <3>1. work' = [work EXCEPT ![w] = [@ EXCEPT !.at = "read", !.upto = k.upto, !.hist = k.hist,
                                                !.got = got]]
      BY <1>0, <1>6 DEF ReadSent, Works
    <3>2. k.at = "ready" /\ "read" \in Places
      BY <1>6 DEF ReadSent, Asks, Places
    <3> HIDE DEF got
    <3> QED BY <1>0, <2>1, <3>1, <3>2, AnswerTypes
  <2> QED BY <1>6, <2>2 DEF ReadSent, gmail, TypeOK, WorkOK
<1>7. CASE ReadThread(w)
  <2> DEFINE there == Mail(k.thread) \ deleted
             at == IF there = {} THEN "gone" ELSE "read"
  <2>1. there \in Ids /\ at \in Places
    BY SyncAssumption DEF TypeOK, Mail, Ids, Places
  <2>2. WorkOK'
    <3>1. work' = [work EXCEPT ![w] = [@ EXCEPT !.at = at, !.upto = k.upto, !.hist = k.hist,
                                                !.got = there]]
      BY <1>0, <1>7 DEF ReadThread, Works
    <3>2. k.at = "ready"
      BY <1>7 DEF ReadThread, Asks
    <3> HIDE DEF there, at
    <3> QED BY <1>0, <2>1, <3>1, <3>2, AnswerTypes
  <2> QED BY <1>7, <2>2 DEF ReadThread, gmail, TypeOK, WorkOK
<1> QED BY <1>1, <1>2, <1>3, <1>4, <1>5, <1>6, <1>7 DEF Reads

\* What a commit stores keeps the types, and every commit gives the lease back.
LEMMA TypeStores ==
  ASSUME TypeInv, NEW w \in Worker, Stores(w)
  PROVE  TypeInv' /\ run'.lease = None
<1> USE DEF TypeInv
<1> DEFINE k == work[w]
<1>0. /\ k \in Works /\ k.upto \in 0..MaxMail /\ k.hist \in 0..MaxMail /\ now \in 0..MaxMail
      /\ run \in Runs /\ Freed(run) \in Runs /\ Freed(run).lease = None
      /\ thread \in [Thread -> Listings] /\ 0 \in 0..MaxMail
  <2>1. k \in Works
    BY DEF WorkOK
  <2>2. k.upto \in 0..MaxMail /\ k.hist \in 0..MaxMail
    BY <2>1 DEF Works
  <2>3. run \in Runs /\ thread \in [Thread -> Listings] /\ now \in 1..MaxMail
    BY DEF TypeOK
  <2>4. Freed(run) \in Runs /\ Freed(run).lease = None
    BY <2>3, RunTypes
  <2>5. now \in 0..MaxMail /\ 0 \in 0..MaxMail
    BY <2>3, SyncAssumption
  <2> QED BY <2>1, <2>2, <2>3, <2>4, <2>5
<1>a. \A ids : \A t : In(t, ids) \in Ids \/ ~(ids \in Ids)
  BY DEF In, Ids
<1>b. /\ Ended("failed") \in Runs /\ Ended("completed") \in Runs
      /\ Ended("failed").lease = None /\ Ended("completed").lease = None
  <2>1. Ended("failed").lease = None /\ Ended("completed").lease = None
    BY DEF Ended, NoRun
  <2> QED BY <2>1, <1>0, RunTypes DEF Over
<1>c. ASSUME Leaves(w) PROVE WorkOK'
  BY <1>c, WorkTypes
<1>1. CASE CommitHistory(w)
  <2>1. WorkOK' /\ k.at # "pipeline" /\ k.got \in Ids
    BY <1>1, <1>c DEF CommitHistory, Commits, WorkOK
  <2>2. CASE run.mode # "history_list" \/ run.listed \/ run.page # k.page
    BY <1>0, <1>1, <2>1, <2>2 DEF CommitHistory, gmail, TypeOK, WorkOK
  <2>3. CASE ~(run.mode # "history_list" \/ run.listed \/ run.page # k.page)
    <3>1. /\ thread' = [t \in Thread |->
               IF In(t, k.got) = {} THEN thread[t]
               ELSE Noted(t, In(t, k.got), Sent(In(t, k.got)) # {} \/ Known(t))]
          /\ run' = [Freed(run) EXCEPT !.page = k.upto, !.listed = (k.upto = k.hist),
                                       !.latest = k.hist, !.end = now]
      BY <1>1, <2>3 DEF CommitHistory
    <3>2. thread' \in [Thread -> Listings]
      BY <1>0, <1>a, <2>1, <3>1, NotedTypes
    <3>3. PICK b \in BOOLEAN : b = (k.upto = k.hist)
      OBVIOUS
    <3>4. run' = [Freed(run) EXCEPT !.page = k.upto, !.listed = b, !.latest = k.hist, !.end = now]
      BY <3>1, <3>3
    <3>5. run' \in Runs /\ run'.lease = None
      BY <1>0, <3>4 DEF Runs
    <3> QED BY <1>1, <2>1, <3>2, <3>5 DEF CommitHistory, gmail, TypeOK, WorkOK
  <2> QED BY <2>2, <2>3
<1>2. CASE CommitExpired(w)
  <2>1. WorkOK'
    BY <1>2, <1>c DEF CommitExpired
  <2>2. run' \in Runs /\ run'.lease = None
    BY <1>0, <1>2 DEF CommitExpired, Runs
  <2>3. thread' \in [Thread -> Listings]
    BY <1>0, <1>2 DEF CommitExpired, Listings, Unlisted, Ids
  <2> QED BY <1>0, <1>2, <2>1, <2>2, <2>3 DEF CommitExpired, gmail, TypeOK, WorkOK
<1>3. CASE CommitProfile(w)
  <2>1. WorkOK'
    BY <1>3, <1>c DEF CommitProfile, Commits
  <2>2. run' \in Runs /\ run'.lease = None
    BY <1>0, <1>3 DEF CommitProfile, Runs
  <2> QED BY <1>3, <2>1, <2>2 DEF CommitProfile, gmail, TypeOK, WorkOK
<1>4. CASE CommitSent(w)
  <2>1. WorkOK' /\ k.at # "pipeline" /\ k.got \in Ids
    BY <1>4, <1>c DEF CommitSent, Commits, WorkOK
  <2>2. run' \in Runs /\ run'.lease = None
    <3>1. run' = Freed(run) \/ run' = [Freed(run) EXCEPT !.listed = TRUE]
      BY <1>4 DEF CommitSent
    <3> QED BY <1>0, <3>1 DEF Runs
  <2>3. thread' \in [Thread -> Listings]
    <3>1. CASE UNCHANGED thread
      BY <1>0, <3>1
    <3>2. CASE thread' = [t \in Thread |-> IF In(t, k.got) = {} THEN thread[t]
                                           ELSE Noted(t, In(t, k.got), TRUE)]
      BY <1>0, <1>a, <2>1, <3>2, NotedTypes
    <3> QED BY <1>4, <3>1, <3>2 DEF CommitSent
  <2> QED BY <1>4, <2>1, <2>2, <2>3 DEF CommitSent, gmail, TypeOK, WorkOK
<1>5. CASE CommitKnown(w)
  <2>1. WorkOK'
    BY <1>5, <1>c DEF CommitKnown
  <2>2. run' \in Runs /\ run'.lease = None
    BY <1>0, <1>5 DEF CommitKnown, Runs
  <2>3. thread' \in [Thread -> Listings]
    <3>1. {} \in Ids /\ TRUE \in BOOLEAN
      BY DEF Ids
    <3> QED BY <1>0, <1>5, <3>1, NotedTypes DEF CommitKnown
  <2> QED BY <1>5, <2>1, <2>2, <2>3 DEF CommitKnown, gmail, TypeOK, WorkOK
<1>6. CASE CommitThread(w)
  <2>1. WorkOK' /\ k.at # "pipeline" /\ k.got \in Ids
    BY <1>6, <1>c DEF CommitThread, Commits, WorkOK
  <2> DEFINE t == k.thread
             wanted == Known(t) \/ Sent(Included(t, k.got)) # {}
             gone == Excluded(t, k.got)
  <2>2. Included(t, k.got) \in Ids /\ gone \in Ids
    BY <2>1 DEF Included, Excluded, Sent, Ids
  <2>3. CASE thread[t].status # "pending"
    BY <1>0, <1>6, <2>1, <2>3 DEF CommitThread, gmail, TypeOK, WorkOK
  <2>4. CASE thread[t].status = "pending"
    <3>1. /\ raw' = IF wanted THEN raw \cup Included(t, k.got) ELSE raw
          /\ thread' = [thread EXCEPT ![t].status = IF wanted THEN "complete" ELSE "filtered_out",
                                      ![t].excluded = gone]
          /\ run' = [Freed(run) EXCEPT !.withheld = @ \/ ~(thread[t].sent \ gone \subseteq raw')]
      BY <1>6, <2>4 DEF CommitThread
    <3>2. raw' \in Ids
      BY <2>2, <3>1 DEF TypeOK, Ids
    <3>3. thread' \in [Thread -> Listings]
      <4> HIDE DEF wanted, gone, t
      <4> QED BY <1>0, <2>2, <3>1 DEF Listings
    <3>4. PICK b \in BOOLEAN : b = (run.withheld \/ ~(thread[t].sent \ gone \subseteq raw'))
      OBVIOUS
    <3>5. run' = [Freed(run) EXCEPT !.withheld = b]
      BY <3>1, <3>4, <1>0 DEF Freed, Runs
    <3>6. run' \in Runs /\ run'.lease = None
      BY <1>0, <3>5 DEF Runs
    <3> QED BY <1>6, <2>1, <3>2, <3>3, <3>6 DEF CommitThread, gmail, TypeOK, WorkOK
  <2> QED BY <2>3, <2>4
<1>7. CASE CommitGone(w)
  <2>1. WorkOK'
    BY <1>7, <1>c DEF CommitGone
  <2>2. thread' \in [Thread -> Listings]
    BY <1>0, <1>7 DEF CommitGone, Listings
  <2> QED BY <1>0, <1>7, <2>1, <2>2 DEF CommitGone, gmail, TypeOK, WorkOK
<1>8. CASE CommitCompletion(w)
  <2>1. WorkOK'
    BY <1>8, <1>c DEF CommitCompletion
  <2>2. CASE run' = Freed(run) /\ UNCHANGED <<cursor, thread, observed, covered, unseen>>
    BY <1>0, <1>8, <2>1, <2>2 DEF CommitCompletion, gmail, TypeOK, WorkOK
  <2>3. CASE ~(run' = Freed(run) /\ UNCHANGED <<cursor, thread, observed, covered, unseen>>)
    <3> DEFINE complete == {t \in Thread : thread[t].status = "complete"}
    <3>1. /\ run' = Ended("completed") /\ thread' = Rows(run') /\ cursor' = Advanced
          /\ observed' = [t \in Thread |-> IF t \in complete /\ run.end > observed[t] THEN run.end
                                           ELSE observed[t]]
          /\ covered' = complete /\ unseen' = unseen \cup complete
      BY <1>8, <2>3 DEF CommitCompletion
    <3>2. cursor' \in [history : 0..MaxMail, horizon : 0..MaxMail, pipeline : BOOLEAN,
                       lease : Worker \cup {None}]
      BY <1>0, <3>1 DEF Advanced, TypeOK, Runs
    <3>3. observed' \in [Thread -> 0..MaxMail]
      BY <1>0, <3>1 DEF TypeOK, Runs
    <3>4. thread' \in [Thread -> Listings]
      BY <1>0, <3>1, RowTypes
    <3> QED BY <1>8, <1>b, <2>1, <3>1, <3>2, <3>3, <3>4 DEF CommitCompletion, gmail, TypeOK, WorkOK
  <2> QED BY <2>2, <2>3
<1>9. CASE Retries(w)
  BY <1>0, <1>9, <1>c DEF Retries, gmail, TypeOK, WorkOK
<1>10. CASE Fails(w)
  <2>1. WorkOK'
    BY <1>10, <1>c DEF Fails
  <2>2. thread' \in [Thread -> Listings]
    BY <1>0, <1>10, RowTypes DEF Fails
  <2> QED BY <1>10, <1>b, <2>1, <2>2 DEF Fails, gmail, TypeOK, WorkOK
<1> QED BY <1>1, <1>2, <1>3, <1>4, <1>5, <1>6, <1>7, <1>8, <1>9, <1>10 DEF Stores

\* The pipeline keeps the types.
LEMMA TypePipes ==
  ASSUME TypeInv, NEW w \in Worker, Pipes(w)
  PROVE  TypeInv'
<1> USE DEF TypeInv
<1>1. CASE ClaimPipeline(w)
  <2> DEFINE k == [Idle EXCEPT !.at = "pipeline", !.got = covered]
  <2>1. k \in Works
    <3>1. covered \subseteq Thread
      BY DEF TypeOK
    <3>2. covered \in SUBSET ((1..MaxMail) \cup Thread)
      BY <3>1
    <3>3. Idle \in Works
      BY SyncAssumption DEF Idle, Works, Places, StepNames
    <3> QED BY <3>2, <3>3 DEF Works, Places
  <2>2. WorkOK'
    <3>1. k.at = "pipeline" /\ k.step = "none" /\ work' = [work EXCEPT ![w] = k]
      BY <1>1 DEF ClaimPipeline, Idle
    <3> HIDE DEF k
    <3>2. /\ work \in [Worker -> Works]
          /\ \A v \in Worker : work'[v] = IF v = w THEN k ELSE work[v]
      BY <3>1 DEF WorkOK
    <3>3. \A v \in Worker : work'[v].at # "pipeline" => work'[v].got \in Ids
      BY <3>1, <3>2 DEF WorkOK
    <3>4. \A v \in Worker : work'[v].step = "fetch_thread" => work'[v].thread \in Thread
      BY <3>1, <3>2 DEF WorkOK
    <3> QED BY <2>1, <3>1, <3>2, <3>3, <3>4 DEF WorkOK
  <2> QED BY <1>1, <2>2 DEF ClaimPipeline, gmail, TypeOK, WorkOK
<1>2. CASE PipelineDone(w)
  <2>1. WorkOK'
    BY <1>2, WorkTypes DEF PipelineDone
  <2> QED BY <1>2, <2>1 DEF PipelineDone, gmail, TypeOK, WorkOK
<1>3. CASE PipelinePending(w)
  <2>1. WorkOK'
    BY <1>3, WorkTypes DEF PipelinePending
  <2> QED BY <1>3, <2>1 DEF PipelinePending, gmail, TypeOK, WorkOK
<1> QED BY <1>1, <1>2, <1>3 DEF Pipes

\* Every step keeps the types.
LEMMA TypeNext == TypeInv /\ [Next]_vars => TypeInv'
<1> SUFFICES ASSUME TypeInv, [Next]_vars PROVE TypeInv'
  OBVIOUS
<1>1. CASE UNCHANGED vars
  BY <1>1 DEF vars, TypeInv, TypeOK, WorkOK
<1>2. CASE Next
  BY <1>2, TypeAround, TypeReads, TypeStores, TypePipes DEF Next, Steps
<1> QED BY <1>1, <1>2

\* Every state of the synchronization has its type, and a run has a lease only while it
\* goes on.
THEOREM TypeCorrect == Spec => []TypeOK
<1>1. TypeInv => TypeOK
  BY DEF TypeInv
<1> QED BY TypeInit, TypeNext, <1>1, PTL DEF Spec

-----------------------------------------------------------------------------
\* The pipeline

\* A worker takes the lease of the pipeline in one step with all that is covered.
PipesSame ==
  \A v \in Worker : work'[v].at = "pipeline" => work[v].at = "pipeline" /\ work'[v].got = work[v].got

\* No step but a claim begins a run, and no claim of mail or answer makes a pipeline.
LEMMA PipesAside ==
  ASSUME TypeInv,
         \/ Arrives \/ (\E i \in 1..MaxMail : Removes(i)) \/ MailboxMoves \/ LeaseExpires
         \/ \E w \in Worker : Steps(w) \/ Reads(w) \/ Stores(w) \/ Dies(w)
  PROVE  PipesSame
<1> SUFFICES ASSUME NEW v \in Worker, work'[v].at = "pipeline"
             PROVE  work[v].at = "pipeline" /\ work'[v].got = work[v].got
  BY DEF PipesSame
<1>0. work \in [Worker -> Works]
  BY DEF TypeInv, WorkOK
<1>1. CASE UNCHANGED work
  BY <1>1
<1>2. ASSUME NEW w \in Worker, Leaves(w) PROVE work[v].at = "pipeline" /\ work'[v].got = work[v].got
  BY <1>0, <1>2 DEF Leaves, Idle
<1>3. ASSUME NEW w \in Worker, NEW at, at # "pipeline", Becomes(w, at)
      PROVE  work[v].at = "pipeline" /\ work'[v].got = work[v].got
  BY <1>0, <1>3 DEF Becomes, Works
<1>4. ASSUME NEW w \in Worker, NEW r, NEW ts, Leases(w, r, ts)
      PROVE  work[v].at = "pipeline" /\ work'[v].got = work[v].got
  <2>1. v # w
    BY <1>4 DEF Leases, Idle
  <2>2. work'[v] = [work[v] EXCEPT !.mine = @ /\ run.status = "runnable"]
    BY <1>4, <2>1 DEF Leases
  <2> QED BY <1>0, <2>2 DEF Works
<1>5. ASSUME NEW w \in Worker, ReadHistory(w) \/ ReadProfile(w) \/ ReadSent(w) \/ ReadThread(w)
      PROVE  work[v].at = "pipeline" /\ work'[v].got = work[v].got
  <2>1. v # w => work'[v] = work[v]
    BY <1>0, <1>5 DEF ReadHistory, ReadProfile, ReadSent, ReadThread
  <2>2. work'[w].at \in {"read", "gone"}
    <3>1. CASE ReadHistory(w)
      BY <1>0, <3>1 DEF ReadHistory, Works
    <3>2. CASE ReadProfile(w) \/ ReadSent(w)
      BY <1>0, <3>2 DEF ReadProfile, ReadSent, Works
    <3>3. CASE ReadThread(w)
      BY <1>0, <3>3 DEF ReadThread, Works
    <3> QED BY <1>5, <3>1, <3>2, <3>3
  <2> QED BY <2>1, <2>2
<1>6. CASE Arrives \/ (\E i \in 1..MaxMail : Removes(i)) \/ MailboxMoves \/ LeaseExpires
  BY <1>1, <1>6 DEF Arrives, Removes, MailboxMoves, LeaseExpires
<1>7. ASSUME NEW w \in Worker, Steps(w) \/ Reads(w) \/ Stores(w) \/ Dies(w)
      PROVE  work[v].at = "pipeline" /\ work'[v].got = work[v].got
  <2>1. \/ Leaves(w)
        \/ \E at \in {"paused_reauth", "cancelled_connection_stopped", "release", "expired"} : Becomes(w, at)
        \/ Leases(w, run, thread) \/ Leases(w, Begun, [t \in Thread |-> Unlisted])
        \/ ReadHistory(w) \/ ReadProfile(w) \/ ReadSent(w) \/ ReadThread(w)
    <3>1. CASE ClaimStep(w) \/ BeginRun(w)
      BY <3>1 DEF ClaimStep, BeginRun
    <3>2. CASE TokenDead(w) \/ TokenRefused(w) \/ TokenFails(w) \/ HistoryGone(w)
      BY <3>2 DEF TokenDead, TokenRefused, TokenFails, HistoryGone
    <3>3. CASE CarriesOut(w) \/ Refused(w) \/ Stores(w) \/ Dies(w)
      BY <3>3 DEF CarriesOut, Refused, Stores, Dies, CommitHistory, CommitExpired, CommitProfile,
        CommitSent, CommitKnown, CommitThread, CommitGone, CommitCompletion, Retries, Fails, Commits
    <3> QED BY <1>7, <3>1, <3>2, <3>3 DEF Steps, Reads
  <2> QED BY <1>2, <1>3, <1>4, <1>5, <2>1
<1> QED BY <1>6, <1>7

\* A run that is not over goes on, or was begun when no pipeline was due.
LEMMA Revivals ==
  ASSUME TypeInv, Next, Live'
  PROVE  Live \/ ~cursor.pipeline
<1>0. run \in Runs /\ "runnable" \in Active
  BY DEF TypeInv, TypeOK, Active
<1>1. ASSUME NEW state, MovesTo(state) PROVE Live
  BY <1>0, <1>1, LifecycleTypes DEF MovesTo, Live
<1>2. CASE Arrives \/ (\E i \in 1..MaxMail : Removes(i))
  BY <1>2 DEF Arrives, Removes, Live
<1>3. CASE MailboxMoves
  BY <1>1, <1>3 DEF MailboxMoves
<1>4. CASE LeaseExpires
  BY <1>0, <1>4 DEF LeaseExpires, Freed, Runs, Live
<1>5. ASSUME NEW w \in Worker, Steps(w) PROVE Live \/ ~cursor.pipeline
  <2>1. CASE ClaimStep(w)
    BY <1>0, <2>1 DEF ClaimStep, Live
  <2>2. CASE BeginRun(w)
    BY <2>2 DEF BeginRun
  <2>3. CASE TokenDead(w)
    BY <1>1, <2>3 DEF TokenDead
  <2>4. CASE TokenRefused(w) \/ TokenFails(w)
    BY <2>4 DEF TokenRefused, TokenFails, Live
  <2>5. CASE CarriesOut(w)
    <3>1. \/ run' = run \/ run' = Freed(run)
          \/ run.status = "runnable"
          \/ run.status \in Active
      BY <2>5 DEF CarriesOut
    <3> QED BY <1>0, <3>1 DEF Freed, Runs, Live
  <2>6. CASE Refused(w)
    BY <1>0, <2>6 DEF Refused, Holds, Live
  <2> QED BY <1>5, <2>1, <2>2, <2>3, <2>4, <2>5, <2>6 DEF Steps
<1>6. ASSUME NEW w \in Worker, Stores(w) PROVE Live
  <2>1. Valid(w)
    BY <1>6 DEF Stores, CommitHistory, CommitExpired, CommitProfile, CommitSent, CommitKnown,
      CommitThread, CommitGone, CommitCompletion, Retries, Fails, Commits, Asks
  <2> QED BY <1>0, <2>1 DEF Valid, Holds, Live
<1>7. ASSUME NEW w \in Worker, Reads(w) \/ Pipes(w) \/ Dies(w) PROVE Live
  BY <1>7 DEF Reads, Pipes, Dies, ReadHistory, HistoryGone, ReadProfile, ReadSent, ReadThread,
    ClaimPipeline, PipelineDone, PipelinePending, Live
<1> QED BY <1>2, <1>3, <1>4, <1>5, <1>6, <1>7 DEF Next

\* The pipeline has seen everything at first.
LEMMA PipedInit == Init => Piped
BY SyncAssumption DEF Init, Piped, Idle, Live, NoRun, Active, Paused

\* Every step keeps what the pipeline has seen.
LEMMA PipedNext == TypeInv /\ Piped /\ [Next]_vars => Piped'
<1> SUFFICES ASSUME TypeInv, Piped, [Next]_vars PROVE Piped'
  OBVIOUS
<1>0. /\ work \in [Worker -> Works] /\ None \notin Worker
      /\ cursor \in [history : 0..MaxMail, horizon : 0..MaxMail, pipeline : BOOLEAN,
                     lease : Worker \cup {None}]
  BY SyncAssumption DEF TypeInv, TypeOK, WorkOK
<1>1. CASE UNCHANGED vars
  BY <1>1 DEF vars, Piped, Live
<1>2. ASSUME PipesSame, Next, UNCHANGED <<covered, unseen>>,
             cursor'.pipeline = cursor.pipeline, cursor'.lease = cursor.lease
      PROVE  Piped'
  BY <1>2, Revivals DEF Piped, PipesSame
<1>3. CASE Arrives \/ (\E i \in 1..MaxMail : Removes(i)) \/ MailboxMoves \/ LeaseExpires
  <2>1. UNCHANGED <<cursor, covered, unseen>>
    BY <1>3 DEF Arrives, Removes, MailboxMoves, LeaseExpires
  <2> QED BY <1>2, <1>3, <2>1, PipesAside DEF Next
<1>4. ASSUME NEW w \in Worker, Steps(w) \/ Reads(w) \/ Dies(w) PROVE Piped'
  <2>1. UNCHANGED <<cursor, covered, unseen>>
    BY <1>4 DEF Steps, Reads, Dies, ClaimStep, BeginRun, TokenDead, TokenRefused, TokenFails,
      CarriesOut, Refused, ReadHistory, HistoryGone, ReadProfile, ReadSent, ReadThread
  <2> QED BY <1>2, <1>4, <2>1, PipesAside DEF Next
<1>5. ASSUME NEW w \in Worker, Stores(w), ~CommitCompletion(w) PROVE Piped'
  <2>1. UNCHANGED <<covered, unseen>> /\ (UNCHANGED cursor \/ cursor' = [cursor EXCEPT !.history = 0])
    BY <1>5 DEF Stores, CommitHistory, CommitExpired, CommitProfile, CommitSent, CommitKnown,
      CommitThread, CommitGone, Retries, Fails
  <2>2. cursor'.pipeline = cursor.pipeline /\ cursor'.lease = cursor.lease
    BY <1>0, <2>1
  <2> QED BY <1>2, <1>5, <2>1, <2>2, PipesAside DEF Next
<1>6. ASSUME NEW w \in Worker, CommitCompletion(w) PROVE Piped'
  <2>1. PipesSame
    BY <1>6, PipesAside DEF Stores
  <2>2. CASE run' = Freed(run) /\ UNCHANGED <<cursor, thread, observed, covered, unseen>>
    BY <1>2, <1>6, <2>1, <2>2 DEF Next, Stores
  <2>3. CASE ~(run' = Freed(run) /\ UNCHANGED <<cursor, thread, observed, covered, unseen>>)
    <3> DEFINE complete == {t \in Thread : thread[t].status = "complete"}
    <3>1. /\ run' = Ended("completed") /\ cursor' = Advanced
          /\ covered' = complete /\ unseen' = unseen \cup complete
      BY <1>6, <2>3 DEF CommitCompletion
    <3>2. ~Live'
      BY <3>1 DEF Ended, NoRun, Live, Active, Paused
    <3>3. run.status \in Active
      BY <1>6 DEF CommitCompletion, Asks, Valid, Holds, Active
    <3>4. ~cursor.pipeline /\ unseen = {} /\ cursor.lease = None
      BY <3>3 DEF Piped, Live
    <3>5. cursor'.pipeline = TRUE /\ cursor'.lease = None
      BY <1>0, <3>1, <3>4 DEF Advanced
    <3> QED BY <1>0, <3>1, <3>2, <3>4, <3>5 DEF Piped
  <2> QED BY <2>2, <2>3
<1>7. ASSUME NEW w \in Worker, ClaimPipeline(w) PROVE Piped'
  <2>1. /\ cursor'.pipeline = cursor.pipeline /\ cursor.pipeline /\ cursor'.lease = w
        /\ UNCHANGED <<covered, unseen>>
    BY <1>0, <1>7 DEF ClaimPipeline
  <2>2. work'[w].got = covered
    BY <1>0, <1>7 DEF ClaimPipeline, Idle
  <2> QED BY <1>7, <2>1, <2>2 DEF ClaimPipeline, Piped, Live
<1>8. ASSUME NEW w \in Worker, PipelineDone(w) PROVE Piped'
  <2>1. /\ \A v \in Worker : work'[v].at = "pipeline" => v # w /\ work'[v] = work[v]
        /\ UNCHANGED <<run, covered>> /\ work[w].at = "pipeline"
    BY <1>0, <1>8 DEF PipelineDone, Leaves, Idle
  <2>2. CASE Marked(w)
    <3>1. /\ cursor'.pipeline = FALSE /\ cursor'.lease = None /\ unseen' = unseen \ work[w].got
          /\ cursor.lease = w
      BY <1>0, <1>8, <2>2 DEF PipelineDone, Marked
    <3>2. cursor.pipeline /\ unseen \subseteq covered /\ work[w].got = covered
      BY <1>0, <2>1, <3>1 DEF Piped
    <3> QED BY <1>0, <3>1, <3>2 DEF Piped
  <2>3. CASE ~Marked(w)
    <3>1. UNCHANGED <<cursor, unseen>>
      BY <1>8, <2>3 DEF PipelineDone
    <3> QED BY <2>1, <3>1 DEF Piped, Live
  <2> QED BY <2>2, <2>3
<1>9. ASSUME NEW w \in Worker, PipelinePending(w) PROVE Piped'
  <2>1. /\ \A v \in Worker : work'[v].at = "pipeline" => v # w /\ work'[v] = work[v]
        /\ UNCHANGED <<run, covered, unseen>>
    BY <1>0, <1>9 DEF PipelinePending, Leaves, Idle
  <2>2. cursor'.pipeline = cursor.pipeline /\ cursor'.lease \in {cursor.lease, None}
    BY <1>0, <1>9 DEF PipelinePending
  <2> QED BY <1>0, <2>1, <2>2 DEF Piped, Live
<1> QED BY <1>1, <1>3, <1>4, <1>5, <1>6, <1>7, <1>8, <1>9 DEF Next, Pipes

\* Between two pipelines nothing that a completed run has covered is left unseen.
THEOREM PipelineMissesNothing == Spec => []PipelineSeesAll
<1>1. Piped => PipelineSeesAll
  BY DEF Piped, PipelineSeesAll
<1> QED BY TypeInit, TypeNext, PipedInit, PipedNext, <1>1, PTL DEF Spec

-----------------------------------------------------------------------------
\* Steps that keep the run

\* The run ends, or goes on where it was.
Goes ==
  Live' =>
    /\ Live /\ thread' = thread
    /\ run'.mode = run.mode /\ run'.start = run.start /\ run'.end = run.end
    /\ run'.latest = run.latest /\ run'.page = run.page /\ run'.listed = run.listed
    /\ run'.known = run.known /\ run'.withheld = run.withheld
Keeps ==
  /\ UNCHANGED <<mail, now, deleted, late, raw, observed>>
  /\ cursor'.history = cursor.history /\ cursor'.horizon = cursor.horizon
  /\ Goes
\* Whoever holds the lease held it before, and has read nothing since.
KeepsLease ==
  \A v \in Worker :
    run'.lease = v /\ work'[v].at # "idle" =>
      /\ run.lease = v /\ work[v].at # "idle"
      /\ work'[v].step = work[v].step /\ work'[v].thread = work[v].thread
      /\ \/ work'[v] = work[v]
         \/ work'[v].at \in {"ready", "paused_reauth", "cancelled_connection_stopped", "release"}

\* A step that leaves mailbox, cursor and run alone keeps the window.
LEMMA KeepsWindow ==
  ASSUME TypeInv, Window, Keeps
  PROVE  Window'
<1>1. Clocks'
  BY DEF Window, Clocks, Keeps, Goes
<1>2. Listed'
  BY DEF Window, Listed, Status, Keeps, Goes, Mail, Sent, Known
<1>3. Enumerated'
  BY DEF Window, Enumerated, Keeps, Goes, Sent, Known
<1>4. WhenObserved'
  BY DEF Window, WhenObserved, Keeps
<1>5. BeforeHorizon => BeforeHorizon'
  BY DEF BeforeHorizon, Wanted, Keeps
<1> QED BY <1>1, <1>2, <1>3, <1>4, <1>5 DEF Window

\* A step that leaves the run and its holder alone keeps the lease.
LEMMA KeepsLeased ==
  ASSUME TypeInv, TypeInv', Leased, Keeps, KeepsLease
  PROVE  Leased'
<1> SUFFICES ASSUME NEW v \in Worker, run'.lease = v, work'[v].at # "idle"
             PROVE  /\ work'[v].at # "pipeline" /\ work'[v].step = NextStep(run', thread')
                    /\ work'[v].step = "fetch_thread" => work'[v].thread \in Pending(thread')
                    /\ Answer(v)'
  BY DEF Leased
<1>1. Live'
  BY SyncAssumption DEF TypeInv, TypeOK, Live, Active
<1>2. /\ run.lease = v /\ work[v].at # "idle" /\ thread' = thread
      /\ work'[v].step = work[v].step /\ work'[v].thread = work[v].thread
      /\ \/ work'[v] = work[v]
         \/ work'[v].at \in {"ready", "paused_reauth", "cancelled_connection_stopped", "release"}
  BY <1>1 DEF KeepsLease, Keeps, Goes
<1>3. NextStep(run', thread') = NextStep(run, thread)
  BY <1>1, <1>2 DEF NextStep, Keeps, Goes
<1>4. /\ work[v].at # "pipeline" /\ work[v].step = NextStep(run, thread)
      /\ work[v].step = "fetch_thread" => work[v].thread \in Pending(thread)
      /\ Answer(v)
  BY <1>2 DEF Leased
<1>5. Answer(v)'
  <2>1. CASE work'[v] = work[v]
    BY <1>1, <1>4, <2>1 DEF Answer, Keeps, Goes, Mail, Sent
  <2>2. CASE work'[v].at \in {"ready", "paused_reauth", "cancelled_connection_stopped", "release"}
    BY <2>2 DEF Answer
  <2> QED BY <1>2, <2>1, <2>2
<1> QED BY <1>2, <1>3, <1>4, <1>5

\* A lease that no step takes over.
LEMMA LeaseStays ==
  ASSUME TypeInv, run'.lease \in {run.lease, None},
         \A v \in Worker :
           \/ work'[v] = work[v] \/ work'[v].at = "idle"
           \/ /\ work[v].at # "idle"
              /\ work'[v].step = work[v].step /\ work'[v].thread = work[v].thread
              /\ work'[v].at \in {"ready", "paused_reauth", "cancelled_connection_stopped", "release"}
  PROVE  KeepsLease
BY SyncAssumption DEF KeepsLease

\* The trigger lets a run go on where it was.
LEMMA MovesGoes ==
  ASSUME TypeInv, NEW state, MovesTo(state)
  PROVE  Goes /\ run'.lease \in {run.lease, None}
<1>0. run \in Runs /\ thread \in [Thread -> Listings]
  BY DEF TypeInv, TypeOK
<1>1. run'.lease \in {run.lease, None}
  BY <1>0, LifecycleTypes DEF MovesTo
<1>2. ASSUME Live' PROVE Goes
  <2>1. Live /\ thread' = thread
    BY <1>0, <1>2, LifecycleTypes DEF MovesTo, Live, Rows, Over, Active, Paused
  <2>2. \/ run' = Leaseless(run, "paused_reauth")
        \/ run' = Leaseless(run, "paused_consent")
        \/ run' = [run EXCEPT !.status = "runnable"]
        \/ run' = run
    <3>1. ~(state # mailbox.state /\ state = "stopped" /\ run.status \in Active)
      BY <1>2 DEF MovesTo, Lifecycle, Ended, NoRun, Live, Active, Paused
    <3> QED BY <3>1 DEF MovesTo, Lifecycle
  <2> QED BY <1>0, <2>1, <2>2 DEF Goes, Leaseless, Runs
<1> QED BY <1>1, <1>2 DEF Goes

\* A run that keeps all but its lease goes on where it was.
LEMMA FreedGoes ==
  ASSUME TypeInv, run' = run \/ run' = Freed(run) \/ run' = Leaseless(run, "paused_reauth")
                  \/ (\E v \in Worker : run' = [run EXCEPT !.lease = v]) \/ ~Live',
         Live' => thread' = thread, run.status \in Active \/ run' = run \/ run' = Freed(run)
  PROVE  Goes
<1>0. run \in Runs
  BY DEF TypeInv, TypeOK
<1> QED BY <1>0 DEF Goes, Freed, Leaseless, Runs, Live

\* The mailbox, the clock, tokens, refusals, failures, pipelines and deaths let a run go
\* on where it was, or end it.
LEMMA QuietSteps ==
  ASSUME TypeInv,
         \/ MailboxMoves \/ LeaseExpires
         \/ \E w \in Worker : TokenDead(w) \/ TokenRefused(w) \/ TokenFails(w) \/ CarriesOut(w)
              \/ Refused(w) \/ Dies(w) \/ Retries(w) \/ Fails(w) \/ Pipes(w)
  PROVE  Keeps /\ KeepsLease
<1>0. /\ run \in Runs /\ thread \in [Thread -> Listings] /\ work \in [Worker -> Works]
      /\ cursor \in [history : 0..MaxMail, horizon : 0..MaxMail, pipeline : BOOLEAN,
                     lease : Worker \cup {None}]
      /\ "runnable" \in Active /\ "paused_reauth" \in Active
  BY DEF TypeInv, TypeOK, WorkOK, Active, Paused
<1>a. Live' /\ thread' = Rows(run') => thread' = thread
  BY <1>0 DEF Live, Rows, Over, Active, Paused
<1>b. ASSUME NEW w \in Worker, Leaves(w) PROVE \A v \in Worker : work'[v] = work[v] \/ work'[v].at = "idle"
  BY <1>0, <1>b DEF Leaves, Idle
<1>c. ASSUME NEW w \in Worker, work[w].at = "ready",
             NEW at \in {"paused_reauth", "cancelled_connection_stopped", "release"}, Becomes(w, at)
      PROVE  \A v \in Worker :
               \/ work'[v] = work[v]
               \/ /\ work[v].at # "idle"
                  /\ work'[v].step = work[v].step /\ work'[v].thread = work[v].thread
                  /\ work'[v].at \in {"ready", "paused_reauth", "cancelled_connection_stopped", "release"}
  BY <1>0, <1>c DEF Becomes, Works
<1>d. /\ Freed(run).lease = None /\ Leaseless(run, "paused_reauth").lease = None
      /\ \A s \in Over : Ended(s).lease = None /\ Ended(s).status \notin Active
  BY <1>0 DEF Freed, Leaseless, Runs, Ended, NoRun, Over, Active, Paused
<1>1. CASE MailboxMoves
  <2>1. PICK state : MovesTo(state)
    BY <1>1 DEF MailboxMoves
  <2>2. UNCHANGED <<mail, now, deleted, late, raw, observed, cursor, work>>
    BY <1>1 DEF MailboxMoves, gmail
  <2> QED BY <2>1, <2>2, MovesGoes, LeaseStays DEF Keeps
<1>2. CASE LeaseExpires
  <2>1. run' = Freed(run) /\ UNCHANGED <<mail, now, deleted, late, raw, observed, cursor, work, thread>>
    BY <1>2 DEF LeaseExpires, gmail
  <2> QED BY <1>d, <2>1, FreedGoes, LeaseStays DEF Keeps
<1>3. ASSUME NEW w \in Worker, TokenDead(w) PROVE Keeps /\ KeepsLease
  <2>1. MovesTo("reauth_required") /\ UNCHANGED <<mail, now, deleted, late, raw, observed, cursor>>
        /\ Becomes(w, "paused_reauth") /\ work[w].at = "ready"
    BY <1>3 DEF TokenDead, AsksToken, gmail
  <2> QED BY <1>c, <2>1, MovesGoes, LeaseStays DEF Keeps
<1>4. ASSUME NEW w \in Worker, TokenRefused(w) \/ TokenFails(w) PROVE Keeps /\ KeepsLease
  <2>1. UNCHANGED <<mail, now, deleted, late, raw, observed, cursor, run, thread>> /\ work[w].at = "ready"
        /\ \E at \in {"cancelled_connection_stopped", "release"} : Becomes(w, at)
    BY <1>4 DEF TokenRefused, TokenFails, AsksToken, gmail
  <2> QED BY <1>c, <2>1, FreedGoes, LeaseStays DEF Keeps
<1>5. ASSUME NEW w \in Worker, CarriesOut(w) PROVE Keeps /\ KeepsLease
  <2>1. /\ UNCHANGED <<mail, now, deleted, late, raw, observed, cursor>> /\ Leaves(w)
        /\ thread' = Rows(run')
    BY <1>5 DEF CarriesOut, gmail
  <2>2. \/ run' = run \/ run' = Freed(run)
        \/ run' = Leaseless(run, "paused_reauth") /\ run.status = "runnable"
        \/ run' = Ended("cancelled_connection_stopped") /\ run.status \in Active
    BY <1>5 DEF CarriesOut
  <2>3. Goes
    BY <1>0, <1>a, <1>d, <2>1, <2>2, FreedGoes DEF Live, Over
  <2>4. run'.lease \in {run.lease, None}
    BY <1>d, <2>2 DEF Over
  <2> QED BY <1>b, <2>1, <2>3, <2>4, LeaseStays DEF Keeps
<1>6. ASSUME NEW w \in Worker, Refused(w) \/ Dies(w) \/ Retries(w) PROVE Keeps /\ KeepsLease
  <2>1. UNCHANGED <<mail, now, deleted, late, raw, observed, cursor, thread>> /\ Leaves(w)
        /\ (run' = run \/ run' = Freed(run))
    BY <1>6 DEF Refused, Dies, Retries, gmail
  <2> QED BY <1>b, <1>d, <2>1, FreedGoes, LeaseStays DEF Keeps
<1>7. ASSUME NEW w \in Worker, Fails(w) PROVE Keeps /\ KeepsLease
  <2>1. UNCHANGED <<mail, now, deleted, late, raw, observed, cursor>> /\ Leaves(w)
        /\ run' = Ended("failed")
    BY <1>7 DEF Fails, gmail
  <2>2. ~Live' /\ run'.lease = None
    BY <1>d, <2>1 DEF Over, Live
  <2> QED BY <1>b, <2>1, <2>2, LeaseStays DEF Keeps, Goes
<1>8. ASSUME NEW w \in Worker, Pipes(w) PROVE Keeps /\ KeepsLease
  <2>1. UNCHANGED <<mail, now, deleted, late, raw, observed, run, thread>>
    BY <1>8 DEF Pipes, ClaimPipeline, PipelineDone, PipelinePending, gmail
  <2>2. cursor'.history = cursor.history /\ cursor'.horizon = cursor.horizon
    BY <1>0, <1>8 DEF Pipes, ClaimPipeline, PipelineDone, PipelinePending
  <2>3. CASE ~ClaimPipeline(w)
    BY <1>8, <1>b, <2>1, <2>2, <2>3, FreedGoes, LeaseStays DEF Keeps, Pipes, PipelineDone, PipelinePending
  <2>4. CASE ClaimPipeline(w)
    <3>1. run.status # "runnable" /\ run.lease = None
      BY <2>4 DEF ClaimPipeline, TypeInv, TypeOK
    <3> QED BY <2>1, <2>2, <3>1, FreedGoes, SyncAssumption DEF Keeps, KeepsLease
  <2> QED BY <2>3, <2>4
<1> QED BY <1>1, <1>2, <1>3, <1>4, <1>5, <1>6, <1>7, <1>8

\* Most steps move no cursor and store no mail.
LEMMA Quiet ==
  ASSUME IInv, TypeInv',
         \/ MailboxMoves \/ LeaseExpires
         \/ \E w \in Worker : TokenDead(w) \/ TokenRefused(w) \/ TokenFails(w) \/ CarriesOut(w)
              \/ Refused(w) \/ Dies(w) \/ Retries(w) \/ Fails(w) \/ Pipes(w)
  PROVE  IInv'
BY QuietSteps, KeepsWindow, KeepsLeased DEF IInv

-----------------------------------------------------------------------------
\* Gmail, claims and reads

\* A message arrives, with the next history id.
LEMMA GmailArrives ==
  ASSUME IInv, TypeInv', Arrives
  PROVE  IInv'
<1>0. /\ now \in 1..MaxMail /\ now' = now + 1 /\ MaxMail \in Nat
      /\ late \subseteq late'
      /\ UNCHANGED <<mail, deleted, mailbox, cursor, run, thread, raw, observed, covered, work, unseen>>
      /\ \A t : Mail(t) = {i \in Mail(t)' : i <= now}
      /\ \A t \in Thread : observed[t] \in Nat
      /\ cursor.horizon \in Nat /\ run.end \in Nat /\ run.page \in Nat
      /\ \A t : Known(t)' = Known(t)
      /\ \A ids : Sent(ids)' = Sent(ids)
      /\ \A i \in 1..MaxMail : mail[i].thread \in Thread
  BY SyncAssumption DEF IInv, TypeInv, TypeOK, Arrives, Mail, Runs, Known, Sent
<1>1. Clocks'
  BY <1>0 DEF IInv, Window, Clocks, Live
<1>2. Live => run.end <= now /\ run.page <= now
  BY DEF IInv, Window, Clocks
<1>3. Listed'
  <2> SUFFICES ASSUME Live', NEW t \in Thread PROVE Status(t)'
    BY DEF Listed
  <2>1. Status(t) /\ run.end <= now
    BY <1>0, <1>2 DEF IInv, Window, Listed, Live
  <2>2. \A i \in Mail(t)' : i <= run.end => i \in Mail(t)
    <3>1. \A i \in Mail(t)' : i \in Nat
      BY <1>0 DEF Mail
    <3> QED BY <1>0, <2>1, <3>1
  <2> QED BY <1>0, <2>1, <2>2 DEF Status
<1>4. Enumerated'
  <2> SUFFICES ASSUME Live' PROVE Enumerated'
    BY DEF Enumerated
  <2>1. \A i \in 1..now' : i <= now => i \in 1..now
    BY <1>0
  <2>2. \A i \in Sent(1..now') : i <= now => i \in Sent(1..now)
    BY <1>0 DEF Sent
  <2>3. run.end <= now /\ run.page <= now
    BY <1>0, <1>2 DEF Live
  <2> QED BY <1>0, <2>1, <2>2, <2>3 DEF IInv, Window, Enumerated, Live, Sent
<1>5. WhenObserved'
  <2> SUFFICES ASSUME NEW i \in 1..now', cursor.horizon < i, i <= observed[mail[i].thread]
               PROVE  i \in raw \cup deleted
    BY <1>0 DEF WhenObserved
  <2>1. i \in 1..MaxMail
    BY <1>0 DEF Arrives
  <2>2. observed[mail[i].thread] <= now /\ observed[mail[i].thread] \in Nat
    BY <1>0, <2>1 DEF IInv, Window, Clocks
  <2>3. i \in 1..now
    BY <1>0, <2>2
  <2> QED BY <2>3 DEF IInv, Window, WhenObserved
<1>6. BeforeHorizon => BeforeHorizon'
  BY <1>0 DEF IInv, Window, BeforeHorizon, Clocks, Wanted
<1>7. Leased'
  <2> SUFFICES ASSUME NEW w \in Worker, run.lease = w, work[w].at # "idle"
               PROVE  /\ work[w].at # "pipeline" /\ work[w].step = NextStep(run, thread)
                      /\ work[w].step = "fetch_thread" => work[w].thread \in Pending(thread)
                      /\ Answer(w)'
    BY <1>0 DEF Leased, NextStep, Pending
  <2>1. Answer(w)
    BY DEF IInv, Leased
  <2>2. run.end <= now
    BY <1>2, SyncAssumption DEF IInv, TypeInv, TypeOK, Live, Active
  <2>3. /\ work[w].at = "read" /\ work[w].step = "enumerate_history"
           /\ work[w].upto = work[w].hist => now + 1 \in late'
    BY DEF Arrives, HoldsLastPage
  <2>4. work[w].hist \in Nat
    BY SyncAssumption DEF IInv, TypeInv, WorkOK, Works
  <2>5. /\ work[w].at = "expired" => work[w].step = "enumerate_history"
        /\ work[w].at = "gone" => work[w].step = "fetch_thread" /\ work[w].got = {}
    BY <2>1 DEF Answer
  <2>6. work[w].at = "read" /\ work[w].step = "enumerate_history" =>
          /\ work[w].got = (work[w].page + 1)..work[w].upto /\ work[w].upto <= work[w].hist
          /\ work[w].hist <= now'
          /\ work[w].upto = work[w].hist => \A i \in 1..now' : work[w].hist < i => i \in late'
    BY <1>0, <2>1, <2>3, <2>4 DEF Answer
  <2>7. work[w].at = "read" /\ work[w].step = "capture_history" => work[w].hist <= now'
    BY <1>0, <2>1, <2>4 DEF Answer
  <2>8. work[w].at = "read" /\ work[w].step = "enumerate_sent" =>
          /\ work[w].got \subseteq Sent(1..now')
          /\ \A i \in Sent(1..now') : run.start < i /\ i <= run.end => i \in work[w].got \cup deleted
    <3>1. Sent(1..now) \subseteq Sent(1..now') /\ \A i \in Sent(1..now') : i <= now => i \in Sent(1..now)
      BY <1>0 DEF Sent
    <3>2. \A i \in Sent(1..now') : i \in Nat
      BY <1>0 DEF Sent
    <3> QED BY <1>0, <2>1, <2>2, <3>1, <3>2 DEF Answer
  <2>9. work[w].at \in {"read", "gone"} /\ work[w].step = "fetch_thread" =>
          /\ work[w].got \subseteq Mail(work[w].thread)'
          /\ \A i \in Mail(work[w].thread)' : i <= run.end => i \in work[w].got \cup deleted
    <3>1. \A i \in Mail(work[w].thread)' : i \in Nat
      BY <1>0 DEF Mail
    <3>2. Mail(work[w].thread) = {i \in Mail(work[w].thread)' : i <= now}
      BY <1>0 DEF Mail
    <3> QED BY <1>0, <2>1, <2>2, <3>1, <3>2 DEF Answer
  <2>10. Answer(w)'
    <3>1. /\ run' = run /\ work' = work /\ deleted' = deleted
          /\ Sent(1..now)' = Sent(1..now')
      BY <1>0 DEF Sent
    <3> QED BY <2>5, <2>6, <2>7, <2>8, <2>9, <3>1 DEF Answer
  <2> QED BY <2>10 DEF IInv, Leased
<1> QED BY <1>1, <1>3, <1>4, <1>5, <1>6, <1>7 DEF IInv, Window

\* A message is removed.
LEMMA GmailRemoves ==
  ASSUME IInv, TypeInv', NEW j \in 1..MaxMail, Removes(j)
  PROVE  IInv'
<1>0. /\ deleted \subseteq deleted'
      /\ UNCHANGED <<mail, now, late, mailbox, cursor, run, thread, raw, observed, covered, work, unseen>>
  BY DEF Removes
<1>1. Clocks'
  BY <1>0 DEF IInv, Window, Clocks, Live
<1>2. Listed'
  <2> SUFFICES ASSUME Live', NEW t \in Thread PROVE Status(t)'
    BY DEF Listed
  <2>1. Status(t)
    BY <1>0 DEF IInv, Window, Listed, Live
  <2>2. /\ Mail(t)' = Mail(t) /\ Known(t)' = Known(t)
        /\ \A ids : Sent(ids)' = Sent(ids)
    BY <1>0 DEF Mail, Known, Sent
  <2> QED BY <1>0, <2>1, <2>2 DEF Status
<1>3. Enumerated'
  BY <1>0 DEF IInv, Window, Enumerated, Live, Known, Sent
<1>4. WhenObserved' /\ (BeforeHorizon => BeforeHorizon')
  BY <1>0 DEF IInv, Window, WhenObserved, BeforeHorizon, Wanted
<1>5. Leased'
  BY <1>0 DEF IInv, Leased, Answer, NextStep, Pending, Mail, Sent
<1> QED BY <1>1, <1>2, <1>3, <1>4, <1>5 DEF IInv, Window

\* A claim is for the step that the run is at; its worker has read nothing yet.
LEMMA Claimed ==
  ASSUME TypeInv, NEW w \in Worker, NEW r \in Runs, NEW ts \in [Thread -> Listings], Leases(w, r, ts)
  PROVE  Leased'
<1>1. PICK t \in IF NextStep(r, ts) = "fetch_thread" THEN Pending(ts) ELSE {None} :
        work' = [v \in Worker |->
          IF v = w
          THEN [Idle EXCEPT !.at = "ready", !.mine = TRUE, !.step = NextStep(r, ts), !.thread = t,
                            !.rev = mailbox.rev, !.page = r.page]
          ELSE [work[v] EXCEPT !.mine = @ /\ run.status = "runnable"]]
  BY DEF Leases
<1>2. /\ work'[w].at = "ready" /\ work'[w].step = NextStep(r, ts)
      /\ NextStep(r, ts) = "fetch_thread" => work'[w].thread \in Pending(ts)
  BY <1>1 DEF Idle
<1>3. run' = [r EXCEPT !.lease = w] /\ thread' = ts
  BY DEF Leases
<1>4. NextStep(run', thread') = NextStep(r, ts) /\ run'.lease = w
  BY <1>3 DEF NextStep, Runs
<1>5. Answer(w)'
  BY <1>2 DEF Answer
<1> QED BY <1>2, <1>3, <1>4, <1>5 DEF Leased

\* A worker claims the run.
LEMMA Claims ==
  ASSUME IInv, TypeInv', NEW w \in Worker, ClaimStep(w)
  PROVE  IInv'
<1>0. run \in Runs /\ thread \in [Thread -> Listings]
  BY DEF IInv, TypeInv, TypeOK
<1>1. Leased'
  BY <1>0, Claimed DEF ClaimStep, IInv
<1>2. /\ UNCHANGED <<mail, now, deleted, late, raw, observed, cursor, thread>>
      /\ run' = [run EXCEPT !.lease = w] /\ run.status \in Active
  BY DEF ClaimStep, Leases, gmail, Active
<1>3. Keeps
  BY <1>2, FreedGoes DEF Keeps, IInv
<1> QED BY <1>1, <1>3, KeepsWindow DEF IInv

\* A run begins at the horizon, with nothing listed.
LEMMA Begins ==
  ASSUME IInv, TypeInv', NEW w \in Worker, BeginRun(w)
  PROVE  IInv'
<1>0. /\ UNCHANGED <<mail, now, deleted, late, raw, observed, cursor>>
      /\ thread' = [t \in Thread |-> Unlisted]
      /\ run' = [Begun EXCEPT !.lease = w] /\ run' \in Runs
      /\ cursor.history \in Nat /\ cursor.horizon \in Nat /\ now \in Nat
      /\ cursor.history <= cursor.horizon /\ cursor.horizon <= now
      /\ \A t \in Thread : observed[t] <= now
      /\ \A i \in 1..now : mail[i].thread \in Thread
  BY SyncAssumption DEF IInv, Window, Clocks, TypeInv, TypeOK, BeginRun, Leases, gmail
<1>1. /\ run'.start = cursor.horizon /\ run'.end = now /\ run'.latest = 0
      /\ run'.page = cursor.history /\ run'.listed = FALSE
      /\ (cursor.history = 0 => ~run'.known)
      /\ (cursor.history # 0 => run'.mode = "history_list")
  BY <1>0 DEF Begun, NoRun
<1>2. Leased'
  <2>1. Begun \in Runs
    BY BegunTypes DEF IInv, TypeInv
  <2>2. [t \in Thread |-> Unlisted] \in [Thread -> Listings]
    BY <1>0 DEF TypeInv, TypeOK
  <2> QED BY <2>1, <2>2, Claimed DEF BeginRun, IInv
<1>3. Clocks'
  BY <1>0, <1>1 DEF Clocks
<1>4. Listed'
  <2> SUFFICES ASSUME NEW t \in Thread PROVE Status(t)'
    BY DEF Listed
  <2>1. thread'[t] = Unlisted /\ Sent({})' = {}
    BY <1>0 DEF Sent
  <2> QED BY <2>1 DEF Status, Unlisted
<1>5. Enumerated'
  BY <1>0, <1>1, ~("history_list" = "bounded_rescan") DEF Enumerated
<1>6. WhenObserved' /\ (BeforeHorizon => BeforeHorizon')
  BY <1>0 DEF IInv, Window, WhenObserved, BeforeHorizon, Wanted
<1> QED BY <1>2, <1>3, <1>4, <1>5, <1>6 DEF IInv, Window

\* What a holder of the lease has read is what Gmail holds.
LEMMA ReadsKeep ==
  ASSUME IInv, TypeInv', NEW w \in Worker, Reads(w)
  PROVE  IInv'
<1> DEFINE k == work[w]
<1>0. /\ work \in [Worker -> Works] /\ work' \in [Worker -> Works] /\ now \in 1..MaxMail
      /\ run \in Runs /\ MaxMail \in Nat
      /\ k.page \in Nat /\ k.at = "ready" /\ Valid(w)
      /\ UNCHANGED <<mail, now, deleted, late, mailbox, cursor, run, thread, raw, observed, covered, unseen>>
  <2>1. k.at = "ready" /\ Valid(w)
    BY DEF Reads, ReadHistory, HistoryGone, ReadProfile, ReadSent, ReadThread, Asks
  <2>2. UNCHANGED <<mail, now, deleted, late, mailbox, cursor, run, thread, raw, observed, covered, unseen>>
    BY DEF Reads, ReadHistory, HistoryGone, ReadProfile, ReadSent, ReadThread, gmail
  <2>3. work \in [Worker -> Works] /\ work' \in [Worker -> Works]
    BY DEF IInv, TypeInv, WorkOK
  <2>4. now \in 1..MaxMail /\ run \in Runs /\ MaxMail \in Nat
    BY SyncAssumption DEF IInv, TypeInv, TypeOK
  <2>5. k.page \in Nat
    BY <2>3, <2>4 DEF Works
  <2> QED BY <2>1, <2>2, <2>3, <2>4, <2>5
<1>1. Keeps
  BY <1>0, FreedGoes DEF Keeps, IInv
<1>2. Window'
  BY <1>1, KeepsWindow DEF IInv
<1>3. /\ run.lease = w /\ k.step = NextStep(run, thread)
      /\ k.step = "fetch_thread" => k.thread \in Pending(thread) /\ k.thread \in Thread
      /\ run.end <= now
  BY <1>0, SyncAssumption DEF IInv, Leased, Valid, Holds, Window, Clocks, Live, Active, TypeInv, WorkOK
<1>4. work'[w].step = k.step /\ work'[w].thread = k.thread /\ work'[w].at \in {"read", "gone", "expired"}
      /\ work'[w].page = k.page
  <2>1. CASE ReadHistory(w)
    BY <1>0, <2>1 DEF ReadHistory, Works
  <2>2. CASE HistoryGone(w) \/ ReadProfile(w) \/ ReadSent(w)
    BY <1>0, <2>2 DEF HistoryGone, Becomes, ReadProfile, ReadSent, Works
  <2>3. CASE ReadThread(w)
    BY <1>0, <2>3 DEF ReadThread, Works
  <2> QED BY <2>1, <2>2, <2>3 DEF Reads
<1>5. Answer(w)'
  <2>1. CASE ReadHistory(w)
    <3>1. PICK upto \in {i \in k.page..now : i > k.page \/ i = now} :
            work' = [work EXCEPT ![w].at = "read", ![w].upto = upto, ![w].hist = now,
                                 ![w].got = k.page + 1 .. upto]
      BY <2>1 DEF ReadHistory
    <3>2. /\ work'[w].at = "read" /\ work'[w].upto = upto /\ work'[w].hist = now
          /\ work'[w].got = k.page + 1 .. upto /\ upto <= now
      BY <1>0, <3>1 DEF Works
    <3>3. k.step = "enumerate_history"
      BY <2>1 DEF ReadHistory, Asks
    <3> QED BY <1>0, <1>4, <3>2, <3>3 DEF Answer
  <2>2. CASE HistoryGone(w)
    <3>1. k.step = "enumerate_history" /\ work'[w].at = "expired"
      BY <1>0, <2>2 DEF HistoryGone, Asks, Becomes
    <3> QED BY <1>4, <3>1 DEF Answer
  <2>3. CASE ReadProfile(w)
    <3>1. k.step = "capture_history" /\ work'[w].at = "read" /\ work'[w].hist = now
      BY <1>0, <2>3 DEF ReadProfile, Asks, Works
    <3> QED BY <1>0, <1>4, <3>1 DEF Answer
  <2>4. CASE ReadSent(w)
    <3> DEFINE got == {i \in Sent(1..now) \ deleted : i >= run.start}
    <3>1. k.step = "enumerate_sent" /\ work'[w].at = "read" /\ work'[w].got = got
      BY <1>0, <2>4 DEF ReadSent, Asks, Works
    <3>2. Sent(1..now)' = Sent(1..now) /\ \A i \in Sent(1..now) : i \in Nat
      BY <1>0 DEF Sent
    <3>3. got \subseteq Sent(1..now) /\ \A i \in Sent(1..now) : run.start < i => i \in got \cup deleted
      BY <1>0, <3>2 DEF Runs
    <3> HIDE DEF got
    <3> QED BY <1>0, <1>4, <3>1, <3>2, <3>3 DEF Answer
  <2>5. CASE ReadThread(w)
    <3> DEFINE there == Mail(k.thread) \ deleted
    <3>1. k.step = "fetch_thread" /\ work'[w].got = there
          /\ work'[w].at = IF there = {} THEN "gone" ELSE "read"
      <4>1. work' = [work EXCEPT ![w].at = IF there = {} THEN "gone" ELSE "read", ![w].got = there]
            /\ k.step = "fetch_thread"
        BY <2>5 DEF ReadThread, Asks
      <4> HIDE DEF there
      <4> QED BY <1>0, <4>1 DEF Works
    <3>2. \A t : Mail(t)' = Mail(t)
      BY <1>0 DEF Mail
    <3>3. there \subseteq Mail(k.thread) /\ \A i \in Mail(k.thread) : i \in there \cup deleted
      OBVIOUS
    <3> HIDE DEF there
    <3> QED BY <1>0, <1>4, <3>1, <3>2, <3>3 DEF Answer
  <2> QED BY <2>1, <2>2, <2>3, <2>4, <2>5 DEF Reads
<1>6. Leased'
  <2>1. NextStep(run', thread') = NextStep(run, thread) /\ Pending(thread') = Pending(thread)
    BY <1>0
  <2> QED BY <1>0, <1>3, <1>4, <1>5, <2>1 DEF Leased
<1> QED BY <1>2, <1>6 DEF IInv

-----------------------------------------------------------------------------
\* Commits

\* What a valid commit rests on: its step is the one that the run is at.
LEMMA Committed ==
  ASSUME IInv, NEW w \in Worker, Valid(w), work[w].at # "idle"
  PROVE  /\ run.status \in Active /\ work[w].at # "pipeline"
         /\ work[w].step = NextStep(run, thread) /\ Answer(w)
         /\ work[w].step = "fetch_thread" => thread[work[w].thread].status = "pending"
BY DEF IInv, Leased, Valid, Holds, Active, Pending

\* Every message is of a thread.
LEMMA MailThreads ==
  ASSUME TypeInv
  PROVE  \A i \in 1..now : i \in 1..MaxMail /\ mail[i].thread \in Thread
<1>1. now \in 1..MaxMail /\ mail \in [1..MaxMail -> [thread : Thread, sent : BOOLEAN]]
  BY DEF TypeInv, TypeOK
<1> QED BY <1>1, SyncAssumption

\* A run without a lease has no worker to answer for.
LEMMA NoLease ==
  ASSUME run'.lease = None
  PROVE  Leased'
BY SyncAssumption DEF Leased

\* The sent messages of two sets.
LEMMA SentUnion ==
  ASSUME NEW a, NEW b
  PROVE  Sent(a \cup b) = Sent(a) \cup Sent(b) /\ Sent({}) = {}
BY DEF Sent

\* A commit that only gives the lease back.
LEMMA OnlyFrees ==
  ASSUME IInv, TypeInv', run' = Freed(run),
         UNCHANGED <<mail, now, deleted, late, raw, observed, cursor, thread>>
  PROVE  IInv'
<1>1. run'.lease = None
  BY RunTypes DEF IInv, TypeInv, TypeOK
<1>2. Keeps
  BY FreedGoes DEF Keeps, IInv
<1> QED BY <1>1, <1>2, KeepsWindow, NoLease DEF IInv

\* A page of history is committed.
LEMMA StoresHistory ==
  ASSUME IInv, TypeInv', run'.lease = None, NEW w \in Worker, CommitHistory(w)
  PROVE  IInv'
<1> DEFINE k == work[w]
           got == k.got
<1>0. /\ run \in Runs /\ Freed(run) \in Runs /\ thread \in [Thread -> Listings]
      /\ now \in 1..MaxMail /\ MaxMail \in Nat /\ k \in Works
      /\ \A i \in 1..now : mail[i].thread \in Thread
      /\ UNCHANGED <<mail, now, deleted, late, raw, observed, cursor>>
      /\ k.at = "read" /\ k.step = "enumerate_history" /\ Valid(w)
  <2>1. k.at = "read" /\ k.step = "enumerate_history" /\ Valid(w)
        /\ UNCHANGED <<mail, now, deleted, late, raw, observed, cursor>>
    BY DEF CommitHistory, Commits, gmail
  <2>2. k \in Works
    BY DEF IInv, TypeInv, WorkOK
  <2> QED BY <2>1, <2>2, SyncAssumption, RunTypes DEF IInv, TypeInv, TypeOK
<1>1. /\ run.status \in Active /\ run.mode = "history_list" /\ ~run.listed
      /\ got = k.page + 1 .. k.upto /\ k.upto <= k.hist /\ k.hist <= now
      /\ k.upto = k.hist => \A i \in 1..now : k.hist < i => i \in late
  BY <1>0, Committed, StepsOfRuns DEF Answer
<1>2. CASE run.page # k.page
  BY <1>0, <1>2, OnlyFrees DEF CommitHistory, gmail
<1>3. CASE run.page = k.page
  <2>1. /\ thread' = [t \in Thread |->
             IF In(t, got) = {} THEN thread[t]
             ELSE Noted(t, In(t, got), Sent(In(t, got)) # {} \/ Known(t))]
        /\ run' = [Freed(run) EXCEPT !.page = k.upto, !.listed = (k.upto = k.hist),
                                     !.latest = k.hist, !.end = now]
    BY <1>1, <1>3 DEF CommitHistory
  <2>2. /\ run'.mode = "history_list" /\ run'.start = run.start /\ run'.end = now
        /\ run'.latest = k.hist /\ run'.page = k.upto
        /\ run'.listed => k.upto = k.hist
    BY <1>0, <1>1, <2>1 DEF Freed, Runs
  <2>3. /\ run.start = cursor.horizon /\ run.start <= run.end /\ run.end <= now
        /\ \A t \in Thread : Status(t)
        /\ \A i \in 1..now : cursor.history < i /\ i <= run.page => i \in thread[mail[i].thread].ids
    BY <1>1 DEF IInv, Window, Clocks, Listed, Enumerated, Live
  <2>4. run.start <= now /\ k.upto <= now
    <3>1. /\ run.start \in Nat /\ run.end \in Nat /\ now \in Nat
          /\ k.upto \in Nat /\ k.hist \in Nat
      BY <1>0 DEF Runs, Works
    <3> QED BY <1>1, <2>3, <3>1
  <2>5. Clocks'
    <3>1. /\ cursor.history <= cursor.horizon /\ cursor.horizon <= now
          /\ \A t \in Thread : observed[t] <= now
      BY DEF IInv, Window, Clocks
    <3> QED BY <1>0, <1>1, <2>2, <2>3, <2>4, <3>1 DEF Clocks
  <2>6. ASSUME NEW t \in Thread
        PROVE  /\ In(t, got) = {} => thread'[t] = thread[t]
               /\ In(t, got) # {} =>
                    /\ thread'[t].ids = thread[t].ids \cup In(t, got)
                    /\ thread'[t].sent = thread[t].sent \cup Sent(In(t, got))
                    /\ thread'[t].excluded = thread[t].excluded
                    /\ thread'[t].status \in {"pending", "filtered_out"}
                    /\ thread'[t].status = "filtered_out" => ~Known(t)
    <3>1. thread[t].status \in {"none", "pending", "filtered_out"}
      BY <1>1, <2>3 DEF Status
    <3>2. CASE In(t, got) # {}
      <4>1. thread'[t] = Noted(t, In(t, got), Sent(In(t, got)) # {} \/ Known(t))
        BY <2>1, <3>2
      <4> HIDE DEF got
      <4> QED BY <1>0, <2>3, <3>1, <3>2, <4>1 DEF Noted, Listings, Status
    <3> QED BY <2>1, <3>2
  <2>7. Listed'
    <3> SUFFICES ASSUME NEW t \in Thread PROVE Status(t)'
      BY DEF Listed
    <3>1. /\ Known(t)' = Known(t) /\ Mail(t)' = Mail(t) /\ run'.start = run.start
          /\ \A ids : Sent(ids)' = Sent(ids)
      BY <1>0, <2>2 DEF Known, Mail, Sent
    <3>2. Status(t) /\ thread[t].status \in {"none", "pending", "filtered_out"}
      BY <1>1, <2>3 DEF Status
    <3>3. CASE In(t, got) = {}
      BY <2>6, <3>1, <3>2, <3>3 DEF Status
    <3>4. CASE In(t, got) # {}
      <4>1. thread'[t].sent = Sent(thread'[t].ids)
        <5>1. thread[t].sent = Sent(thread[t].ids)
          BY <3>2 DEF Status
        <5>2. Sent(thread[t].ids \cup In(t, got)) = Sent(thread[t].ids) \cup Sent(In(t, got))
          BY SentUnion
        <5> QED BY <2>6, <3>4, <5>1, <5>2
      <4> QED BY <2>6, <3>1, <3>2, <3>4, <4>1 DEF Status
    <3> QED BY <3>3, <3>4
  <2>8. Enumerated'
    <3>1. ASSUME NEW i \in 1..now, cursor.history < i, i <= k.upto
          PROVE  i \in thread'[mail[i].thread].ids
      <4>1. mail[i].thread \in Thread
        BY <1>0
      <4>2. CASE i <= run.page
        BY <2>3, <2>6, <3>1, <4>1, <4>2
      <4>3. CASE ~(i <= run.page)
        <5>1. i \in got
          BY <1>0, <1>1, <1>3, <3>1, <4>3 DEF Works
        <5>2. i \in In(mail[i].thread, got)
          BY <5>1 DEF In
        <5> QED BY <2>6, <4>1, <5>2
      <4> QED BY <4>2, <4>3
    <3> QED BY <1>0, <1>1, <2>2, <3>1 DEF Enumerated
  <2>9. WhenObserved' /\ (BeforeHorizon => BeforeHorizon')
    BY <1>0 DEF IInv, Window, WhenObserved, BeforeHorizon, Wanted
  <2> QED BY <2>5, <2>7, <2>8, <2>9, NoLease DEF IInv, Window
<1> QED BY <1>2, <1>3

\* An expired history: nothing has been fetched, and the re-scan begins with no list.
LEMMA StoresExpired ==
  ASSUME IInv, TypeInv', run'.lease = None, NEW w \in Worker, CommitExpired(w)
  PROVE  IInv'
<1>0. /\ run \in Runs /\ Freed(run) \in Runs /\ thread \in [Thread -> Listings]
      /\ UNCHANGED <<mail, now, deleted, late, raw, observed>>
      /\ cursor'.history = 0 /\ cursor'.horizon = cursor.horizon
      /\ cursor.horizon \in Nat /\ now \in Nat
      /\ work[w].at = "expired" /\ Valid(w)
  BY SyncAssumption, RunTypes DEF IInv, TypeInv, TypeOK, CommitExpired, gmail
<1>1. run.status \in Active /\ ~run.listed
  BY <1>0, Committed, StepsOfRuns DEF Answer
<1>2. /\ run'.mode = "bounded_rescan" /\ run'.latest = 0 /\ run'.page = 0
      /\ run'.listed = FALSE /\ run'.known = FALSE
      /\ run'.start = run.start /\ run'.end = run.end
  BY <1>0 DEF CommitExpired, Freed, Runs
<1>3. /\ run.start = cursor.horizon /\ run.start <= run.end /\ run.end <= now
      /\ run.end \in Nat /\ \A t \in Thread : Status(t)
  BY <1>0, <1>1 DEF IInv, Window, Clocks, Listed, Live, Runs
<1>4. Clocks'
  BY <1>0, <1>2, <1>3 DEF IInv, Window, Clocks
<1>5. Listed'
  <2> SUFFICES ASSUME NEW t \in Thread PROVE Status(t)'
    BY DEF Listed
  <2>1. /\ Known(t)' = Known(t) /\ Mail(t)' = Mail(t)
        /\ \A ids : Sent(ids)' = Sent(ids)
    BY <1>0 DEF Known, Mail, Sent
  <2>2. Status(t) /\ thread[t].status \in {"none", "pending", "filtered_out"}
    BY <1>1, <1>3 DEF Status
  <2>3. CASE thread[t].status = "none"
    <3>1. thread'[t] = thread[t]
      BY <2>3 DEF CommitExpired
    <3> QED BY <1>2, <2>1, <2>2, <2>3, <3>1 DEF Status
  <2>4. CASE thread[t].status # "none"
    <3>1. thread'[t] = Unlisted
      BY <2>2, <2>4 DEF CommitExpired
    <3> QED BY <2>1, <3>1, SentUnion DEF Status, Unlisted
  <2> QED BY <2>3, <2>4
<1>6. Enumerated'
  BY <1>2 DEF Enumerated
<1>7. WhenObserved' /\ (BeforeHorizon => BeforeHorizon')
  BY <1>0 DEF IInv, Window, WhenObserved, BeforeHorizon, Wanted
<1> QED BY <1>4, <1>5, <1>6, <1>7, NoLease DEF IInv, Window

\* The profile is committed.
LEMMA StoresProfile ==
  ASSUME IInv, TypeInv', run'.lease = None, NEW w \in Worker, CommitProfile(w)
  PROVE  IInv'
<1>0. /\ run \in Runs /\ Freed(run) \in Runs /\ now \in Nat /\ work[w].hist \in Nat
      /\ UNCHANGED <<mail, now, deleted, late, raw, observed, cursor, thread>>
      /\ work[w].at = "read" /\ work[w].step = "capture_history" /\ Valid(w)
  <2>1. run \in Runs /\ Freed(run) \in Runs /\ now \in Nat
    BY SyncAssumption, RunTypes DEF IInv, TypeInv, TypeOK
  <2>2. work[w].hist \in Nat
    BY SyncAssumption DEF IInv, TypeInv, WorkOK, Works
  <2> QED BY <2>1, <2>2 DEF CommitProfile, Commits, gmail
<1>1. /\ run.status \in Active /\ run.mode = "bounded_rescan" /\ ~run.listed /\ ~run.known
      /\ \A t \in Thread : thread[t].status = "none"
      /\ work[w].hist <= now
  BY <1>0, Committed, StepsOfRuns DEF Answer
<1>2. CASE run.latest # 0
  BY <1>0, <1>2, OnlyFrees DEF CommitProfile
<1>3. CASE run.latest = 0
  <2>1. /\ run'.mode = "bounded_rescan" /\ run'.latest = work[w].hist /\ run'.page = run.page
        /\ ~run'.listed /\ ~run'.known /\ run'.start = run.start /\ run'.end = now
    BY <1>0, <1>1, <1>3 DEF CommitProfile, Freed, Runs
  <2>2. /\ run.start = cursor.horizon /\ run.start <= run.end /\ run.end <= now /\ run.page <= now
        /\ \A t \in Thread : Status(t)
    BY <1>1 DEF IInv, Window, Clocks, Listed, Live
  <2>3. run.start <= now
    BY <1>0, <2>2 DEF Runs
  <2>4. Clocks'
    BY <1>0, <1>1, <2>1, <2>2, <2>3 DEF IInv, Window, Clocks
  <2>5. Listed'
    <3> SUFFICES ASSUME NEW t \in Thread PROVE Status(t)'
      BY DEF Listed
    <3>1. /\ Known(t)' = Known(t) /\ \A ids : Sent(ids)' = Sent(ids)
      BY <1>0 DEF Known, Sent
    <3> QED BY <1>0, <1>1, <2>1, <2>2, <3>1 DEF Status
  <2>6. Enumerated'
    BY <2>1 DEF Enumerated
  <2>7. WhenObserved' /\ (BeforeHorizon => BeforeHorizon')
    BY <1>0 DEF IInv, Window, WhenObserved, BeforeHorizon, Wanted
  <2> QED BY <2>4, <2>5, <2>6, <2>7, NoLease DEF IInv, Window
<1> QED BY <1>2, <1>3

\* A page of sent messages is committed.
LEMMA StoresSent ==
  ASSUME IInv, TypeInv', run'.lease = None, NEW w \in Worker, CommitSent(w)
  PROVE  IInv'
<1> DEFINE k == work[w]
           got == k.got
<1>0. /\ run \in Runs /\ Freed(run) \in Runs /\ thread \in [Thread -> Listings]
      /\ \A i \in 1..now : mail[i].thread \in Thread
      /\ UNCHANGED <<mail, now, deleted, late, raw, observed, cursor>>
      /\ k.at = "read" /\ k.step = "enumerate_sent" /\ Valid(w)
  <2>1. k.at = "read" /\ k.step = "enumerate_sent" /\ Valid(w)
        /\ UNCHANGED <<mail, now, deleted, late, raw, observed, cursor>>
    BY DEF CommitSent, Commits, gmail
  <2> QED BY <2>1, SyncAssumption, RunTypes DEF IInv, TypeInv, TypeOK
<1>1. /\ run.status \in Active /\ run.mode = "bounded_rescan" /\ ~run.listed
      /\ \A i \in Sent(1..now) : run.start < i /\ i <= run.end => i \in got \cup deleted
  BY <1>0, Committed, StepsOfRuns DEF Answer
<1>2. /\ thread' = [t \in Thread |-> IF In(t, got) = {} THEN thread[t] ELSE Noted(t, In(t, got), TRUE)]
      /\ run' = [Freed(run) EXCEPT !.listed = TRUE]
  BY <1>1 DEF CommitSent
<1>3. /\ run'.mode = "bounded_rescan" /\ run'.listed = TRUE /\ run'.known = run.known
      /\ run'.start = run.start /\ run'.end = run.end /\ run'.latest = run.latest
      /\ run'.page = run.page
  BY <1>0, <1>1, <1>2 DEF Freed, Runs
<1>4. /\ \A t \in Thread : Status(t)
      /\ run.known => \A t \in Thread : Known(t) => thread[t].status \notin {"none", "filtered_out"}
  BY <1>1 DEF IInv, Window, Listed, Enumerated, Live
<1>5. ASSUME NEW t \in Thread
      PROVE  /\ In(t, got) = {} => thread'[t] = thread[t]
             /\ In(t, got) # {} =>
                  /\ thread'[t].ids = thread[t].ids \cup In(t, got)
                  /\ thread'[t].sent = thread[t].sent \cup Sent(In(t, got))
                  /\ thread'[t].excluded = thread[t].excluded
                  /\ thread'[t].status = "pending"
  <2>1. thread[t].status \in {"none", "pending", "filtered_out"}
    BY <1>1, <1>4 DEF Status
  <2>2. CASE In(t, got) # {}
    <3>1. thread'[t] = Noted(t, In(t, got), TRUE)
      BY <1>2, <2>2
    <3> HIDE DEF got
    <3> QED BY <1>0, <2>1, <2>2, <3>1 DEF Noted, Listings
  <2> QED BY <1>2, <2>2
<1>6. Clocks'
  BY <1>0, <1>1, <1>3 DEF IInv, Window, Clocks, Live
<1>7. Listed'
  <2> SUFFICES ASSUME NEW t \in Thread PROVE Status(t)'
    BY DEF Listed
  <2>1. /\ Known(t)' = Known(t) /\ Mail(t)' = Mail(t)
        /\ \A ids : Sent(ids)' = Sent(ids)
    BY <1>0 DEF Known, Mail, Sent
  <2>2. Status(t) /\ thread[t].status \in {"none", "pending", "filtered_out"}
    BY <1>1, <1>4 DEF Status
  <2>3. CASE In(t, got) = {}
    BY <1>3, <1>5, <2>1, <2>2, <2>3 DEF Status
  <2>4. CASE In(t, got) # {}
    <3>1. thread'[t].sent = Sent(thread'[t].ids)
      <4>1. thread[t].sent = Sent(thread[t].ids)
        BY <2>2 DEF Status
      <4>2. Sent(thread[t].ids \cup In(t, got)) = Sent(thread[t].ids) \cup Sent(In(t, got))
        BY SentUnion
      <4> QED BY <1>5, <2>4, <4>1, <4>2
    <3> QED BY <1>3, <1>5, <2>1, <2>2, <2>4, <3>1 DEF Status
  <2> QED BY <2>3, <2>4
<1>8. Enumerated'
  <2>1. ASSUME NEW i \in Sent(1..now), run.start < i, i <= run.end
        PROVE  i \in deleted \cup thread'[mail[i].thread].ids
    <3>1. i \in 1..now /\ mail[i].thread \in Thread /\ i \in got \cup deleted
      BY <1>0, <1>1, <2>1 DEF Sent
    <3>2. i \in got => i \in In(mail[i].thread, got)
      BY DEF In
    <3> QED BY <1>5, <3>1, <3>2
  <2>2. ASSUME run.known, NEW t \in Thread, Known(t)
        PROVE  thread'[t].status \notin {"none", "filtered_out"}
    BY <1>4, <1>5, <2>2
  <2>3. Sent(1..now)' = Sent(1..now) /\ \A t : Known(t)' = Known(t)
    BY <1>0 DEF Sent, Known
  <2> QED BY <1>0, <1>3, <2>1, <2>2, <2>3 DEF Enumerated
<1>9. WhenObserved' /\ (BeforeHorizon => BeforeHorizon')
  BY <1>0 DEF IInv, Window, WhenObserved, BeforeHorizon, Wanted
<1> QED BY <1>6, <1>7, <1>8, <1>9, NoLease DEF IInv, Window

\* The known threads are noted for a re-scan.
LEMMA StoresKnown ==
  ASSUME IInv, TypeInv', run'.lease = None, NEW w \in Worker, CommitKnown(w)
  PROVE  IInv'
<1>0. /\ run \in Runs /\ Freed(run) \in Runs /\ thread \in [Thread -> Listings]
      /\ UNCHANGED <<mail, now, deleted, late, raw, observed, cursor>>
      /\ work[w].at = "ready" /\ work[w].step = "enqueue_known" /\ Valid(w)
  <2>1. run \in Runs /\ Freed(run) \in Runs /\ thread \in [Thread -> Listings]
    BY RunTypes DEF IInv, TypeInv, TypeOK
  <2> QED BY <2>1 DEF CommitKnown, Asks, gmail
<1>1. run.status \in Active /\ run.mode = "bounded_rescan" /\ run.listed
  BY <1>0, Committed, StepsOfRuns
<1>2. /\ thread' = [t \in Thread |-> IF Known(t) THEN Noted(t, {}, TRUE) ELSE thread[t]]
      /\ run' = [Freed(run) EXCEPT !.known = TRUE]
  BY DEF CommitKnown
<1>3. /\ run'.mode = "bounded_rescan" /\ run'.listed = run.listed /\ run'.known = TRUE
      /\ run'.start = run.start /\ run'.end = run.end /\ run'.latest = run.latest
      /\ run'.page = run.page
  BY <1>0, <1>1, <1>2 DEF Freed, Runs
<1>4. /\ \A t \in Thread : Status(t)
      /\ \A i \in Sent(1..now) : run.start < i /\ i <= run.end => i \in deleted \cup thread[mail[i].thread].ids
  BY <1>1 DEF IInv, Window, Listed, Enumerated, Live
<1>5. ASSUME NEW t \in Thread
      PROVE  /\ thread'[t].ids = thread[t].ids /\ thread'[t].sent = thread[t].sent
             /\ thread'[t].excluded = thread[t].excluded
             /\ ~Known(t) => thread'[t].status = thread[t].status
             /\ Known(t) => thread'[t].status = IF thread[t].status \in {"none", "filtered_out"}
                                                THEN "pending" ELSE thread[t].status
  <2>1. Sent({}) = {}
    BY SentUnion
  <2>2. thread'[t] = IF Known(t) THEN Noted(t, {}, TRUE) ELSE thread[t]
    BY <1>2
  <2> QED BY <1>0, <2>1, <2>2 DEF Noted, Listings
<1>6. Clocks'
  BY <1>0, <1>1, <1>3 DEF IInv, Window, Clocks, Live
<1>7. Listed'
  <2> SUFFICES ASSUME NEW t \in Thread PROVE Status(t)'
    BY DEF Listed
  <2>1. /\ Known(t)' = Known(t) /\ Mail(t)' = Mail(t)
        /\ \A ids : Sent(ids)' = Sent(ids)
    BY <1>0 DEF Known, Mail, Sent
  <2> QED BY <1>0, <1>3, <1>4, <1>5, <2>1, <1>1 DEF Status
<1>8. Enumerated'
  <2>1. Sent(1..now)' = Sent(1..now) /\ \A t : Known(t)' = Known(t)
    BY <1>0 DEF Sent, Known
  <2>2. \A i \in Sent(1..now) : mail[i].thread \in Thread
    BY MailThreads DEF Sent, IInv
  <2> QED BY <1>0, <1>3, <1>4, <1>5, <2>1, <2>2 DEF Enumerated
<1>9. WhenObserved' /\ (BeforeHorizon => BeforeHorizon')
  BY <1>0 DEF IInv, Window, WhenObserved, BeforeHorizon, Wanted
<1> QED BY <1>6, <1>7, <1>8, <1>9, NoLease DEF IInv, Window

\* A thread is committed.
LEMMA StoresThread ==
  ASSUME IInv, TypeInv', run'.lease = None, NEW w \in Worker, CommitThread(w)
  PROVE  IInv'
<1> DEFINE k == work[w]
<1>a. k.at = "read" /\ k.step = "fetch_thread" /\ Valid(w)
      /\ UNCHANGED <<mail, now, deleted, late, observed, cursor>>
  BY DEF CommitThread, Commits, gmail
<1>b. PICK t \in Thread : t = k.thread
  BY <1>a DEF IInv, TypeInv, WorkOK
<1> DEFINE included == Included(t, k.got)
           wanted == Known(t) \/ Sent(included) # {}
           gone == Excluded(t, k.got)
<1>0. /\ run \in Runs /\ Freed(run) \in Runs /\ thread \in [Thread -> Listings]
      /\ raw \in Ids /\ now \in Nat /\ t \in Thread
      /\ UNCHANGED <<mail, now, deleted, late, observed, cursor>>
  BY <1>a, SyncAssumption, RunTypes DEF IInv, TypeInv, TypeOK
<1>1. /\ run.status \in Active /\ thread[t].status = "pending"
      /\ run.listed /\ (run.mode = "bounded_rescan" => run.known)
      /\ k.got \subseteq Mail(t)
      /\ \A i \in Mail(t) : i <= run.end => i \in k.got \cup deleted
  BY <1>0, <1>a, <1>b, Committed, StepsOfRuns DEF Answer
<1>2. /\ raw' = IF wanted THEN raw \cup included ELSE raw
      /\ thread' = [thread EXCEPT ![t].status = IF wanted THEN "complete" ELSE "filtered_out",
                                  ![t].excluded = gone]
      /\ run' = [Freed(run) EXCEPT !.withheld = @ \/ ~(thread[t].sent \ gone \subseteq raw')]
  BY <1>1, <1>b DEF CommitThread
<1>3. /\ run'.mode = run.mode /\ run'.listed = run.listed /\ run'.known = run.known
      /\ run'.start = run.start /\ run'.end = run.end /\ run'.latest = run.latest
      /\ run'.page = run.page
  BY <1>0, <1>2 DEF Freed, Runs
<1>4. /\ \A u \in Thread : Status(u)
      /\ run.start = cursor.horizon
  BY <1>1 DEF IInv, Window, Clocks, Listed, Live
<1>5. \A i \in included : i \in k.got /\ i > run.start /\ mail[i].thread = t
  BY <1>1 DEF Included, Mail
<1>6. \A i \in gone : i <= run.start
  BY DEF Excluded
<1> HIDE DEF gone
<1>7. /\ raw \subseteq raw' /\ \A i \in raw' \ raw : i \in included /\ wanted
      /\ wanted => included \subseteq raw'
      /\ ~wanted => raw' = raw
  BY <1>2
<1>8. \A u : u # t => (Known(u)' <=> Known(u))
  BY <1>0, <1>5, <1>7 DEF Known, Sent
<1>9. ~wanted => ~Known(t)'
  BY <1>0, <1>2 DEF Known, Sent
<1>10. /\ \A u \in Thread : /\ thread'[u].ids = thread[u].ids /\ thread'[u].sent = thread[u].sent
                            /\ u # t => thread'[u] = thread[u]
       /\ thread'[t].status = IF wanted THEN "complete" ELSE "filtered_out"
       /\ thread'[t].excluded = gone
  <2> HIDE DEF wanted
  <2> QED BY <1>0, <1>2 DEF Listings
<1>11. Clocks'
  BY <1>0, <1>1, <1>3 DEF IInv, Window, Clocks, Live
<1>12. Listed'
  <2> SUFFICES ASSUME NEW u \in Thread PROVE Status(u)'
    BY DEF Listed
  <2>1. /\ Mail(u)' = Mail(u) /\ \A ids : Sent(ids)' = Sent(ids)
        /\ deleted' = deleted
    BY <1>0 DEF Mail, Sent
  <2>2. Status(u)
    BY <1>4
  <2>3. CASE u # t
    <3>1. thread'[u] = thread[u] /\ (Known(u)' <=> Known(u))
      BY <1>8, <1>10, <2>3
    <3> QED BY <1>3, <1>7, <2>1, <2>2, <3>1 DEF Status
  <2>4. CASE u = t
    <3>1. wanted => \A i \in Mail(t) : run.start < i /\ i <= run.end => i \in raw' \cup deleted
      <4> SUFFICES ASSUME wanted, NEW i \in Mail(t), run.start < i, i <= run.end, i \notin deleted
                   PROVE  i \in raw'
        OBVIOUS
      <4>1. i \in k.got
        BY <1>1
      <4>2. i \in included
        BY <1>0, <4>1 DEF Included, Mail, Runs
      <4> QED BY <1>7, <4>2
    <3>2. /\ thread'[t].sent = Sent(thread'[t].ids)
          /\ \A i \in thread'[t].excluded : i <= run'.start
      BY <1>3, <1>6, <1>10, <2>1, <2>2, <2>4 DEF Status
    <3> HIDE DEF wanted
    <3> QED BY <1>1, <1>3, <1>9, <1>10, <2>1, <2>4, <3>1, <3>2 DEF Status
  <2> QED BY <2>3, <2>4
<1>13. Enumerated'
  <2>1. \A i \in 1..now : mail[i].thread \in Thread
    BY MailThreads DEF IInv
  <2>2. Sent(1..now)' = Sent(1..now) /\ \A i \in Sent(1..now) : i \in 1..now
    BY <1>0 DEF Sent
  <2>3. Enumerated /\ Live
    BY <1>1 DEF IInv, Window, Live
  <2>4. ASSUME run.mode = "history_list"
        PROVE  /\ \A i \in 1..now : cursor.history < i /\ i <= run.page => i \in thread'[mail[i].thread].ids
               /\ run.listed => \A i \in 1..now : run.page < i /\ i <= run.end => i \in late
    BY <1>10, <2>1, <2>3, <2>4 DEF Enumerated
  <2>5. ASSUME run.mode = "bounded_rescan"
        PROVE  /\ \A i \in Sent(1..now) : run.start < i /\ i <= run.end =>
                    i \in deleted \cup thread'[mail[i].thread].ids
               /\ \A u \in Thread : Known(u)' => thread'[u].status \notin {"none", "filtered_out"}
    <3>1. /\ \A i \in Sent(1..now) : run.start < i /\ i <= run.end =>
                i \in deleted \cup thread[mail[i].thread].ids
          /\ \A u \in Thread : Known(u) => thread[u].status \notin {"none", "filtered_out"}
      BY <1>1, <2>3, <2>5 DEF Enumerated
    <3>2. Known(t)' => wanted
      BY <1>9
    <3> HIDE DEF wanted
    <3> QED BY <1>8, <1>10, <2>1, <2>2, <3>1, <3>2
  <2> QED BY <1>0, <1>3, <2>2, <2>4, <2>5 DEF Enumerated
<1>14. WhenObserved'
  BY <1>0, <1>7 DEF IInv, Window, WhenObserved
<1>15. BeforeHorizon => BeforeHorizon'
  <2> SUFFICES ASSUME BeforeHorizon, NEW i \in 1..now, i <= cursor.horizon, Wanted(i)'
               PROVE  i \in raw' \cup deleted \cup late
    BY <1>0 DEF BeforeHorizon
  <2>1. \A j \in raw' : j < i => j \in raw
    <3> SUFFICES ASSUME NEW j \in included, j < i PROVE FALSE
      BY <1>7
    <3>1. j > run.start /\ i <= run.start /\ run.start \in Nat /\ j \in Nat /\ i \in Nat
      <4>1. j \in Nat
        BY <1>0, <1>1, <1>5 DEF Mail
      <4> QED BY <1>0, <1>4, <1>5, <4>1 DEF Runs
    <3> QED BY <3>1
  <2>2. Wanted(i)
    BY <1>0, <2>1 DEF Wanted
  <2> QED BY <1>7, <2>2 DEF BeforeHorizon
<1> QED BY <1>11, <1>12, <1>13, <1>14, <1>15, NoLease DEF IInv, Window

\* A thread that is gone is committed.
LEMMA StoresGone ==
  ASSUME IInv, TypeInv', run'.lease = None, NEW w \in Worker, CommitGone(w)
  PROVE  IInv'
<1> DEFINE t == work[w].thread
<1>0. /\ run \in Runs /\ thread \in [Thread -> Listings]
      /\ UNCHANGED <<mail, now, deleted, late, raw, observed, cursor>>
      /\ work[w].at = "gone" /\ Valid(w)
      /\ run' = Freed(run)
  <2>1. run \in Runs /\ thread \in [Thread -> Listings]
    BY DEF IInv, TypeInv, TypeOK
  <2> QED BY <2>1 DEF CommitGone, gmail
<1>1. /\ run.status \in Active /\ thread[t].status = "pending" /\ t \in Thread
      /\ run.listed
      /\ \A i \in Mail(t) : i <= run.end => i \in deleted
  <2>1. work[w].step = "fetch_thread" /\ work[w].got = {}
    BY <1>0, Committed DEF Answer
  <2> QED BY <1>0, <2>1, Committed, StepsOfRuns DEF Answer, IInv, TypeInv, WorkOK
<1>2. /\ run'.mode = run.mode /\ run'.listed = run.listed /\ run'.known = run.known
      /\ run'.start = run.start /\ run'.end = run.end /\ run'.latest = run.latest
      /\ run'.page = run.page
  BY <1>0 DEF Freed, Runs
<1>3. /\ \A u \in Thread : /\ thread'[u].ids = thread[u].ids /\ thread'[u].sent = thread[u].sent
                           /\ thread'[u].excluded = thread[u].excluded
                           /\ u # t => thread'[u] = thread[u]
      /\ thread'[t].status = "gone"
  <2>1. thread' = [thread EXCEPT ![t].status = "gone"]
    BY <1>0, <1>1 DEF CommitGone
  <2> HIDE DEF t
  <2> QED BY <1>0, <1>1, <2>1 DEF Listings
<1> HIDE DEF t
<1>4. \A u \in Thread : Status(u)
  BY <1>1 DEF IInv, Window, Listed, Live
<1>5. /\ \A u : Known(u)' = Known(u) /\ Mail(u)' = Mail(u)
      /\ \A ids : Sent(ids)' = Sent(ids)
  BY <1>0 DEF Known, Mail, Sent
<1>6. Clocks'
  BY <1>0, <1>1, <1>2 DEF IInv, Window, Clocks, Live
<1>7. Listed'
  <2> SUFFICES ASSUME NEW u \in Thread PROVE Status(u)'
    BY DEF Listed
  <2>1. CASE u # t
    BY <1>0, <1>2, <1>3, <1>4, <1>5, <2>1 DEF Status
  <2>2. CASE u = t
    BY <1>0, <1>1, <1>2, <1>3, <1>4, <1>5, <2>2 DEF Status
  <2> QED BY <2>1, <2>2
<1>8. Enumerated'
  <2>1. \A i \in 1..now : mail[i].thread \in Thread
    BY MailThreads DEF IInv
  <2>2. Sent(1..now)' = Sent(1..now) /\ \A i \in Sent(1..now) : i \in 1..now
    BY <1>0 DEF Sent
  <2>3. Enumerated /\ Live
    BY <1>1 DEF IInv, Window, Live
  <2> QED BY <1>0, <1>2, <1>3, <1>5, <2>1, <2>2, <2>3 DEF Enumerated
<1>9. WhenObserved' /\ (BeforeHorizon => BeforeHorizon')
  BY <1>0 DEF IInv, Window, WhenObserved, BeforeHorizon, Wanted
<1> QED BY <1>6, <1>7, <1>8, <1>9, NoLease DEF IInv, Window

\* A run that completes passes its window: all that is wanted of it is stored or gone.
LEMMA WindowStored ==
  ASSUME IInv, run.status \in Active, run.listed,
         run.mode = "bounded_rescan" => run.known,
         ~Withheld, \A t \in Thread : thread[t].status # "pending",
         NEW i \in 1..now, run.start < i, i <= run.end, Wanted(i)
  PROVE  i \in raw \cup deleted \cup late
<1>0. /\ thread \in [Thread -> Listings] /\ run \in Runs /\ i \in Nat
      /\ mail[i].thread \in Thread /\ i \in Mail(mail[i].thread)
  BY SyncAssumption, MailThreads DEF IInv, TypeInv, TypeOK, Mail
<1> PICK t \in Thread : t = mail[i].thread
  BY <1>0
<1>1. Status(t) /\ Enumerated /\ Live
  BY DEF IInv, Window, Listed, Live
<1>2. CASE thread[t].status = "complete"
  BY <1>0, <1>1, <1>2 DEF Status
<1>3. CASE thread[t].status = "gone"
  BY <1>0, <1>1, <1>3 DEF Status
<1>4. CASE thread[t].status \in {"none", "filtered_out"}
  <2>1. CASE run.mode = "history_list"
    <3>0. CASE run.page < i
      BY <1>1, <2>1, <3>0 DEF Enumerated
    <3>1. cursor.history < i /\ (i <= run.page \/ run.page < i)
      <4>1. cursor.history <= cursor.horizon /\ run.start = cursor.horizon
        BY <1>1, <2>1 DEF IInv, Window, Clocks
      <4>2. cursor.history \in Nat /\ cursor.horizon \in Nat /\ run.page \in Nat
        BY <1>0, SyncAssumption DEF IInv, TypeInv, TypeOK, Runs
      <4> QED BY <1>0, <4>1, <4>2
    <3> SUFFICES ASSUME i <= run.page PROVE i \in raw \cup deleted \cup late
      BY <3>0, <3>1
    <3>2. i \in thread[t].ids
      BY <1>1, <2>1, <3>1 DEF Enumerated
    <3>3. ~Known(t)
      BY <1>1, <1>4, <3>2 DEF Status
    <3>4. mail[i].sent
      BY <3>3 DEF Wanted, Known, Sent
    <3>5. i \in thread[t].sent
      BY <1>1, <3>2, <3>4 DEF Status, Sent
    <3>6. i \notin thread[t].excluded
      BY <1>0, <1>1 DEF Status, Runs
    <3> QED BY <3>5, <3>6 DEF Withheld
  <2>2. CASE run.mode = "bounded_rescan"
    <3>1. ~Known(t)
      BY <1>1, <1>4, <2>2 DEF Enumerated
    <3>2. mail[i].sent
      BY <3>1 DEF Wanted, Known, Sent
    <3>3. i \in deleted \cup thread[t].ids
      BY <1>1, <2>2, <3>2 DEF Enumerated, Sent
    <3>4. i \in thread[t].ids => i \in thread[t].sent
      BY <1>1, <3>2 DEF Status, Sent
    <3>5. i \notin thread[t].excluded
      BY <1>0, <1>1 DEF Status, Runs
    <3> QED BY <3>3, <3>4, <3>5 DEF Withheld
  <2> QED BY <1>0, <2>1, <2>2 DEF Runs
<1> QED BY <1>0, <1>2, <1>3, <1>4 DEF Listings

\* The run is completed.
LEMMA StoresCompletion ==
  ASSUME IInv, TypeInv', run'.lease = None, NEW w \in Worker, CommitCompletion(w)
  PROVE  IInv'
<1>0. /\ run \in Runs /\ thread \in [Thread -> Listings] /\ now \in Nat
      /\ observed \in [Thread -> 0..MaxMail] /\ MaxMail \in Nat
      /\ cursor \in [history : 0..MaxMail, horizon : 0..MaxMail, pipeline : BOOLEAN,
                     lease : Worker \cup {None}]
      /\ UNCHANGED <<mail, now, deleted, late, raw>>
      /\ work[w].at = "ready" /\ work[w].step = "complete_run" /\ Valid(w)
  <2>1. work[w].at = "ready" /\ work[w].step = "complete_run" /\ Valid(w)
        /\ UNCHANGED <<mail, now, deleted, late, raw>>
    BY DEF CommitCompletion, Asks, gmail
  <2> QED BY <2>1, SyncAssumption DEF IInv, TypeInv, TypeOK
<1>1. run.status \in Active /\ run.listed /\ (run.mode = "bounded_rescan" => run.known)
  BY <1>0, Committed, StepsOfRuns
<1>2. CASE run' = Freed(run) /\ UNCHANGED <<cursor, thread, observed, covered, unseen>>
  BY <1>0, <1>2, OnlyFrees
<1>3. CASE ~(run' = Freed(run) /\ UNCHANGED <<cursor, thread, observed, covered, unseen>>)
  <2> DEFINE complete == {t \in Thread : thread[t].status = "complete"}
  <2>1. /\ \A t \in Thread : thread[t].status # "pending"
        /\ run' = Ended("completed") /\ cursor' = Advanced
        /\ observed' = [t \in Thread |-> IF t \in complete /\ run.end > observed[t] THEN run.end
                                         ELSE observed[t]]
    BY <1>3 DEF CommitCompletion
  <2>2. ~Live'
    BY <2>1 DEF Ended, NoRun, Live, Active, Paused
  <2>3. /\ Withheld => cursor'.history = cursor.history /\ cursor'.horizon = cursor.horizon
        /\ ~Withheld => cursor'.history = run.latest /\ cursor'.horizon = run.end
    BY <1>0, <2>1 DEF Advanced
  <2>4. /\ run.start = cursor.horizon /\ run.start <= run.end /\ run.end <= now
        /\ run.latest <= run.end
        /\ cursor.history <= cursor.horizon /\ cursor.horizon <= now
        /\ \A t \in Thread : observed[t] <= now /\ Status(t)
        /\ WhenObserved
    BY <1>1 DEF IInv, Window, Clocks, Listed, Live
  <2>5. /\ run.start \in Nat /\ run.end \in Nat /\ run.latest \in Nat
        /\ cursor.horizon \in Nat /\ \A t \in Thread : observed[t] \in Nat
    BY <1>0 DEF Runs
  <2>6. cursor.horizon <= cursor'.horizon /\ cursor'.horizon \in Nat
    BY <2>3, <2>4, <2>5
  <2>7. Clocks'
    <3>1. cursor'.history <= cursor'.horizon /\ cursor'.horizon <= now
      BY <2>3, <2>4
    <3>2. \A t \in Thread : observed'[t] <= now
      BY <2>1, <2>4
    <3> QED BY <1>0, <2>2, <3>1, <3>2 DEF Clocks
  <2>8. Listed' /\ Enumerated'
    BY <2>2 DEF Listed, Enumerated
  <2>9. WhenObserved'
    <3> SUFFICES ASSUME NEW i \in 1..now, cursor'.horizon < i, i <= observed'[mail[i].thread]
                 PROVE  i \in raw \cup deleted
      BY <1>0 DEF WhenObserved
    <3>1. i \in Nat /\ mail[i].thread \in Thread /\ i \in Mail(mail[i].thread)
      BY MailThreads DEF IInv, Mail
    <3> PICK t \in Thread : t = mail[i].thread
      BY <3>1
    <3>2. cursor.horizon < i
      BY <2>5, <2>6, <3>1
    <3>3. CASE i <= observed[t]
      BY <2>4, <3>2, <3>3 DEF WhenObserved
    <3>4. CASE ~(i <= observed[t])
      <4>1. thread[t].status = "complete" /\ i <= run.end
        BY <2>1, <3>4
      <4> QED BY <2>4, <3>1, <3>2, <4>1 DEF Status
    <3> QED BY <3>3, <3>4
  <2>10. BeforeHorizon'
    <3> SUFFICES ASSUME NEW i \in 1..now, i <= cursor'.horizon, Wanted(i)
                 PROVE  i \in raw \cup deleted \cup late
      BY <1>0 DEF BeforeHorizon, Wanted
    <3>1. CASE i <= cursor.horizon
      BY <3>1 DEF IInv, Window, BeforeHorizon
    <3>2. CASE ~(i <= cursor.horizon)
      <4>1. ~Withheld /\ i <= run.end /\ run.start < i
        BY <2>3, <2>4, <2>5, <3>2
      <4> QED BY <1>1, <2>1, <4>1, WindowStored
    <3> QED BY <3>1, <3>2
  <2> QED BY <2>7, <2>8, <2>9, <2>10, NoLease DEF IInv, Window
<1> QED BY <1>2, <1>3

-----------------------------------------------------------------------------

\* The inductive invariant holds at first.
LEMMA InvInit == Init => IInv
<1> SUFFICES ASSUME Init PROVE IInv
  OBVIOUS
<1>1. ~Live /\ run.lease = None
  BY DEF Init, NoRun, Live, Active, Paused
<1>2. Clocks
  BY <1>1, SyncAssumption DEF Init, Clocks
<1>3. Listed /\ Enumerated
  BY <1>1 DEF Listed, Enumerated
<1>4. Leased
  BY <1>1, SyncAssumption DEF Leased
<1>5. WhenObserved /\ BeforeHorizon
  <2>1. \A t \in Thread : observed[t] = 0
    BY DEF Init
  <2>2. \A i \in 1..now : i = 1 /\ i \in raw
    BY DEF Init
  <2> QED BY <2>2 DEF WhenObserved, BeforeHorizon
<1> QED BY <1>2, <1>3, <1>4, <1>5, TypeInit DEF IInv, Window

\* Every step keeps it.
LEMMA InvNext == IInv /\ [Next]_vars => IInv'
<1> SUFFICES ASSUME IInv, [Next]_vars PROVE IInv'
  OBVIOUS
<1>0. TypeInv /\ TypeInv'
  BY TypeNext DEF IInv
<1>1. CASE UNCHANGED vars
  <2>1. Keeps /\ KeepsLease
    BY <1>0, <1>1, FreedGoes, LeaseStays DEF vars, Keeps
  <2> QED BY <1>0, <2>1, KeepsWindow, KeepsLeased DEF IInv
<1>2. CASE Arrives \/ (\E i \in 1..MaxMail : Removes(i))
  BY <1>0, <1>2, GmailArrives, GmailRemoves
<1>3. ASSUME NEW w \in Worker, ClaimStep(w) \/ BeginRun(w) \/ Reads(w) PROVE IInv'
  BY <1>0, <1>3, Claims, Begins, ReadsKeep
<1>4. ASSUME NEW w \in Worker, Stores(w), ~Retries(w), ~Fails(w) PROVE IInv'
  <2>1. run'.lease = None
    BY <1>0, <1>4, TypeStores
  <2> QED BY <1>0, <1>4, <2>1, StoresHistory, StoresExpired, StoresProfile, StoresSent, StoresKnown,
        StoresThread, StoresGone, StoresCompletion DEF Stores
<1>5. CASE \/ MailboxMoves \/ LeaseExpires
           \/ \E w \in Worker : TokenDead(w) \/ TokenRefused(w) \/ TokenFails(w) \/ CarriesOut(w)
                \/ Refused(w) \/ Dies(w) \/ Retries(w) \/ Fails(w) \/ Pipes(w)
  BY <1>0, <1>5, Quiet
<1> QED BY <1>1, <1>2, <1>3, <1>4, <1>5 DEF Next, Steps

\* Whatever arrives when: neither the cursor nor an observed time ever passes mail that
\* was wanted and is not stored, but for mail that arrived between the last page of a
\* list and its commit; and an observed time alone does not pass that either.
THEOREM PassedStored == Spec => []PassedIsStored
<1>1. IInv => PassedIsStored
  BY DEF IInv, Window, BeforeHorizon, WhenObserved, PassedIsStored
<1> QED BY InvInit, InvNext, <1>1, PTL DEF Spec
=============================================================================
