----------------------- MODULE GmailImportProperties -----------------------
EXTENDS GmailImport

Runs == [status : {"none"} \cup Active \cup Terminal, page : Nat,
         tries : Nat, later : BOOLEAN, lease : Caller \cup {None}, resumes : BOOLEAN,
         thread : [Thread -> {"unseen", "pending", "complete", "filtered_out", "gone", "failed"}],
         failures : [Thread -> Nat], waiting : SUBSET Thread]
Works == [at : {"idle", "token", "ready", "reading", "completing", "paused_reauth",
                "paused_consent", "cancelled_connection_stopped"},
          run : Run \cup {None}, rev : Nat, page : Nat,
          step : {"none", "enumerate_page", "fetch_thread", "complete_run"},
          thread : Thread \cup {None}]

\* Type invariant of the runs, leases, threads and workers: a run has a lease only
\* while it goes on (0037), and only a paused run is being resumed.
ImportTypeOK ==
  /\ run \in [Run -> Runs] /\ work \in [Caller -> Works]
  /\ raw \subseteq Thread /\ overtaken \subseteq Caller
  /\ \A w \in Caller : work[w].at = "idle" <=> work[w].run = None
  /\ \A r \in Run : /\ run[r].lease # None => run[r].status = "runnable"
                    /\ run[r].resumes => run[r].status \in {"paused_reauth", "paused_consent"}

\* Nobody has a lease of a run in a mailbox that does not work, and no run goes on or
\* waits for its creator in one that is being disconnected or closed: awake workers or
\* not, and whatever a resume had read before the mailbox moved (0037:571, 1926).
RunsFollowMailbox ==
  \A r \in Run :
    /\ run[r].lease # None => mail.state = "connected" /\ ~blocked
    /\ run[r].status \in Active =>
         mail.state \in {"connected", "reauth_required", "consent_required"} /\ ~blocked

\* A run goes on only in a mailbox that is connected: "the transition itself carries
\* the run forward" (0037:559). A resume that read the mailbox before it moved undoes
\* that.
RunsStopWithMailbox ==
  \A r \in Run : run[r].status = "runnable" => mail.state = "connected"

\* A completed run has looked at every page, and every thread of every page is
\* imported, gone from Gmail, or was seen without a sent message in the
\* window; what it calls imported is stored (0037:1972).
CompleteIsTrue ==
  \A r \in Run : run[r].status = "completed" =>
    /\ Enumerated(r)
    /\ \A i \in DOMAIN Pages : \A t \in Pages[i] :
         \/ run[r].thread[t] = "complete" /\ t \in raw
         \/ run[r].thread[t] = "gone" /\ run[r].failures[t] < MaxAttempts
         \/ run[r].thread[t] = "filtered_out"

\* Once a claim is overtaken (the run stopped, even if it was resumed since; it was
\* leased again; the authorization of the mailbox moved) its worker neither reads
\* Gmail nor has anything of what it read stored (0037:979, 1103, worker.server.ts:303).
OvertakenDoesNothing ==
  [][\A w \in overtaken :
       /\ ~(work[w].at = "ready" /\ work'[w].at = "reading")
       /\ work[w].at \in {"reading", "completing"} /\ work'[w].at = "idle"
            => /\ raw' = raw
               /\ \A r \in Run : /\ run'[r].thread = run[r].thread
                                 /\ run'[r].page = run[r].page
                                 /\ run'[r].tries = run[r].tries
                                 /\ run'[r].status = run[r].status]_vars

\* A worker pauses a run only when the mailbox cannot be read: "B03 only reacts to"
\* B02's answer (0037:1828).
PausesAreCurrent ==
  [][\A r \in Run : run[r].status = "runnable" /\ run'[r].status \in Active
       /\ run'[r].status # "runnable" => mail'.state # "connected"]_vars
=============================================================================
