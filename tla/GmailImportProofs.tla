-------------------------- MODULE GmailImportProofs --------------------------
(***************************************************************************)
(* Proofs about the historical import on its connection: the import        *)
(* implements the connection, so all that is proved of the connection      *)
(* holds here; runs follow the mailbox; an overtaken worker stores         *)
(* nothing; a run that says completed is.                                  *)
(*                                                                         *)
(* The invariant ties a claim to the lease and the revision it was made    *)
(* under (Pinned), to what it was made for (Holding), and says what the    *)
(* rows of a run stand for while it goes on (Progress).                    *)
(***************************************************************************)
EXTENDS GmailImportProperties, GmailConnectionProofs

\* A step of the whole is a step of the connection, or leaves it alone.
LEMMA ConnStep == ASSUME Next PROVE [ConnNext]_connVars
<1>1. CASE Connection
  BY <1>1 DEF Connection, ConnNext
<1>2. ASSUME NEW r \in Run, Start(r) \/ Resume(r) \/ LeaseExpires(r) \/ Ready(r)
      PROVE  UNCHANGED connVars
  BY <1>2 DEF Start, Resume, ResumeReads, ResumeEnds, LeaseExpires, Ready
<1>3. ASSUME NEW w \in Caller, Worker(w) PROVE UNCHANGED connVars \/ Leave(w)
  BY <1>3 DEF Worker, ClaimRefused, ClaimPage, ClaimCompletion, ClaimThread, Claim,
      TokenAnswer, Validate, Refused, CarryOut, CommitThread, CommitPage, ThreadGone,
      Complete, Dies, RetryPage, RetryThread, Commits
<1>4. QED BY <1>1, <1>2, <1>3 DEF Next, ConnNext

\* A worker leaves the mailbox as it is.
LEMMA WorkerLeavesMail ==
  ASSUME NEW w \in Caller, Worker(w)
  PROVE  mail' = mail /\ blocked' = blocked
BY DEF Worker, ClaimRefused, ClaimPage, ClaimCompletion, ClaimThread, Claim, TokenAnswer,
    Validate, Refused, CarryOut, CommitThread, CommitPage, ThreadGone, Complete, Dies,
    RetryPage, RetryThread, Commits, Leave, connVars

\* The whole implements the connection.
THEOREM ImplementsConnection == Spec => ConnSpec
<1>1. Init => ConnInit
  BY DEF Init
<1>2. [Next]_vars => [ConnNext]_connVars
  BY ConnStep DEF vars, connVars
<1>3. QED BY <1>1, <1>2, PTL DEF Spec, ConnSpec

Holds == {"token", "ready", "reading", "completing"}

\* Every step of the import is one of these.
LEMMA Steps ==
  ASSUME Next
  PROVE  /\ Overtakes
         /\ \/ Connection
            \/ \E r \in Run : \/ Start(r) \/ Resume(r) \/ LeaseExpires(r) \/ Ready(r)
            \/ \E w \in Caller, r \in Run :
                 \/ ClaimRefused(w, r) \/ ClaimPage(w, r) \/ ClaimCompletion(w, r)
                 \/ \E t \in Thread : ClaimThread(w, r, t)
            \/ \E w \in Caller :
                 \/ TokenAnswer(w) \/ Validate(w) \/ Refused(w) \/ CarryOut(w)
                 \/ (\E exact \in BOOLEAN : CommitThread(w, exact))
                 \/ CommitPage(w) \/ ThreadGone(w) \/ Complete(w) \/ Dies(w)
                 \/ \E retryable \in BOOLEAN : RetryPage(w, retryable) \/ RetryThread(w, retryable)
BY DEF Next, Worker

\* The rows that the steps write have the shape of runs.
LEMMA RunShapes ==
  ASSUME NEW x \in Runs
  PROVE  /\ x.page + 1 \in Nat /\ x.tries + 1 \in Nat
         /\ \A s \in {"none"} \cup Active \cup Terminal :
              /\ Stopped(x, s) \in Runs /\ [x EXCEPT !.status = s] \in Runs
         /\ \A c \in Caller \cup {None} : [x EXCEPT !.lease = c] \in Runs
         /\ [x EXCEPT !.resumes = TRUE] \in Runs /\ [x EXCEPT !.resumes = FALSE] \in Runs
         /\ [x EXCEPT !.resumes = FALSE, !.status = "runnable"] \in Runs
         /\ [x EXCEPT !.later = FALSE, !.waiting = {}] \in Runs
         /\ \A s \in States : Lifecycle(x, s) \in Runs
<1>1. x.page + 1 \in Nat /\ x.tries + 1 \in Nat
  BY DEF Runs
<1>2. \A s \in {"none"} \cup Active \cup Terminal :
         /\ Stopped(x, s) \in Runs /\ [x EXCEPT !.status = s] \in Runs
  BY DEF Runs, Stopped
<1>3. \A c \in Caller \cup {None} : [x EXCEPT !.lease = c] \in Runs
  BY DEF Runs
<1>4. [x EXCEPT !.later = FALSE, !.waiting = {}] \in Runs
  BY DEF Runs
<1>r. /\ [x EXCEPT !.resumes = TRUE] \in Runs /\ [x EXCEPT !.resumes = FALSE] \in Runs
      /\ [x EXCEPT !.resumes = FALSE, !.status = "runnable"] \in Runs
  BY DEF Runs, Active
<1>5. \A s \in States : Lifecycle(x, s) \in Runs
  BY <1>2 DEF Lifecycle, Active, Terminal
<1>6. QED BY <1>1, <1>2, <1>3, <1>4, <1>5, <1>r

\* So do the rows of a page and of a thread.
LEMMA ThreadShapes ==
  ASSUME NEW x \in Runs
  PROVE  /\ \A i : Listed(x, i) \in Runs
         /\ \A t \in Thread :
              /\ \A s \in {"complete", "filtered_out", "gone"} : ThreadIs(x, t, s) \in Runs
              /\ \A last \in BOOLEAN : Failed(x, t, last) \in Runs
         /\ \A last \in BOOLEAN :
              [x EXCEPT !.tries = @ + 1, !.later = ~last, !.lease = None,
                        !.status = IF last THEN "failed" ELSE @] \in Runs
<1>1. x.page + 1 \in Nat /\ x.tries + 1 \in Nat /\ \A t \in Thread : x.failures[t] + 1 \in Nat
  BY DEF Runs
<1>2. \A i : Listed(x, i) \in Runs
  BY <1>1 DEF Runs, Listed
<1>3. \A t \in Thread, s \in {"complete", "filtered_out", "gone"} : ThreadIs(x, t, s) \in Runs
  BY DEF Runs, ThreadIs
<1>4. \A t \in Thread, last \in BOOLEAN : Failed(x, t, last) \in Runs
  BY <1>1 DEF Runs, Failed, Terminal
<1>5. \A last \in BOOLEAN :
              [x EXCEPT !.tries = @ + 1, !.later = ~last, !.lease = None,
                        !.status = IF last THEN "failed" ELSE @] \in Runs
  BY <1>1 DEF Runs, Terminal
<1>6. QED BY <1>2, <1>3, <1>4, <1>5

\* A thread is fetched under its name.
Aimed == \A w \in Caller : work[w].step = "fetch_thread" => work[w].thread # None

\* The runs after any step have the shape of runs.
LEMMA RunTypeStep ==
  ASSUME TypeOK, TypeOK', ImportTypeOK, Aimed, Next PROVE run' \in [Run -> Runs]
<1> DEFINE Goal == run' \in [Run -> Runs]
<1> SUFFICES Goal OBVIOUS
<1>1. run \in [Run -> Runs] /\ mail'.state \in States
  BY DEF ImportTypeOK, TypeOK, Mails
<1>2. ASSUME NEW r \in Run, NEW x \in Runs, run' = [run EXCEPT ![r] = x] PROVE Goal
  BY <1>1, <1>2
<1>3. \A r \in Run : run[r] \in Runs
  BY <1>1
<1>w. \A w \in Caller : work[w].at # "idle" => work[w].run \in Run
  BY DEF ImportTypeOK, Works
<1> HIDE DEF Goal
<1>4. CASE run' = run
  BY <1>1, <1>4 DEF Goal
<1>5. CASE Connection
  <2>1. CASE run' = [r \in Run |-> Lifecycle(run[r], mail'.state)]
    BY <1>1, <1>3, <2>1, RunShapes DEF Goal
  <2>2. QED BY <1>4, <1>5, <2>1 DEF Connection
<1>6. ASSUME NEW r \in Run, Start(r) \/ Resume(r) PROVE Goal
  <2>1. \/ run' = [run EXCEPT ![r] = [run[r] EXCEPT !.status = "runnable"]]
        \/ run' = [run EXCEPT ![r] = [run[r] EXCEPT !.resumes = TRUE]]
        \/ run' = [run EXCEPT ![r] = [run[r] EXCEPT !.resumes = FALSE]]
        \/ run' = [run EXCEPT ![r] = [run[r] EXCEPT !.resumes = FALSE, !.status = "runnable"]]
    BY <1>1, <1>3, <1>6 DEF Start, Resume, ResumeReads, ResumeEnds, Runs
  <2>2. QED BY <1>2, <1>3, <2>1, RunShapes DEF Active
<1>7. ASSUME NEW r \in Run, NEW c \in Caller \cup {None}, run' = [run EXCEPT ![r].lease = c]
     PROVE Goal
  <2>1. run' = [run EXCEPT ![r] = [run[r] EXCEPT !.lease = c]]
    BY <1>1, <1>7
  <2>2. QED BY <1>2, <1>3, <2>1, RunShapes
<1>8. ASSUME NEW r \in Run, Ready(r) PROVE Goal
  <2>1. run' = [run EXCEPT ![r] = [run[r] EXCEPT !.later = FALSE, !.waiting = {}]]
    BY <1>1, <1>8 DEF Ready
  <2>2. QED BY <1>2, <1>3, <2>1, RunShapes
<1>9. ASSUME NEW w \in Caller, CarryOut(w) PROVE Goal
  <2>1. work[w].run \in Run /\ work[w].at \in Active \cup Terminal
    BY <1>w, <1>9 DEF CarryOut, Active, Terminal
  <2>2. CASE run' = [run EXCEPT ![work[w].run] = Stopped(run[work[w].run], work[w].at)]
    BY <1>2, <1>3, <2>1, <2>2, RunShapes
  <2>3. QED BY <1>1, <1>4, <1>9, <2>1, <2>2 DEF CarryOut
<1>10. ASSUME NEW w \in Caller, CommitPage(w) PROVE Goal
  <2>1. work[w].run \in Run
    BY <1>w, <1>10 DEF CommitPage, Commits
  <2>2. CASE run' = [run EXCEPT ![work[w].run] = Listed(run[work[w].run], work[w].page)]
    BY <1>2, <1>3, <2>1, <2>2, ThreadShapes
  <2>3. CASE run' = [run EXCEPT ![work[w].run].lease = None]
    BY <1>7, <2>1, <2>3
  <2>4. QED BY <1>1, <1>10, <2>1, <2>2, <2>3 DEF CommitPage
<1>11. ASSUME NEW w \in Caller, (\E exact \in BOOLEAN : CommitThread(w, exact)) \/ ThreadGone(w)
     PROVE Goal
  <2>1. work[w].run \in Run /\ work[w].thread \in Thread
    BY <1>w, <1>11 DEF CommitThread, ThreadGone, Commits, ImportTypeOK, Works, Aimed
  <2>2. PICK s \in {"complete", "filtered_out", "gone"} :
           run' = [run EXCEPT ![work[w].run] = ThreadIs(run[work[w].run], work[w].thread, s)]
    BY <1>1, <1>11, <2>1 DEF CommitThread, ThreadGone
  <2>3. QED BY <1>2, <1>3, <2>1, <2>2, ThreadShapes
<1>12. ASSUME NEW w \in Caller, NEW retryable \in BOOLEAN, RetryThread(w, retryable)
     PROVE Goal
  <2>1. work[w].run \in Run /\ work[w].thread \in Thread
    BY <1>w, <1>12 DEF RetryThread, Commits, ImportTypeOK, Works, Aimed
  <2>2. PICK last \in BOOLEAN :
           run' = [run EXCEPT ![work[w].run] = Failed(run[work[w].run], work[w].thread, last)]
    BY <1>1, <1>12, <2>1 DEF RetryThread
  <2>3. QED BY <1>2, <1>3, <2>1, <2>2, ThreadShapes
<1>13. ASSUME NEW w \in Caller, NEW retryable \in BOOLEAN, RetryPage(w, retryable) PROVE Goal
  <2>1. work[w].run \in Run
    BY <1>w, <1>13 DEF RetryPage, Commits
  <2>2. PICK last \in BOOLEAN :
           run' = [run EXCEPT ![work[w].run] =
              [run[work[w].run] EXCEPT !.tries = @ + 1, !.later = ~last, !.lease = None,
                        !.status = IF last THEN "failed" ELSE @]]
    BY <1>1, <1>13, <2>1 DEF RetryPage
  <2>3. QED BY <1>2, <1>3, <2>1, <2>2, ThreadShapes
<1>14. ASSUME NEW w \in Caller, Complete(w) PROVE Goal
  <2>1. work[w].run \in Run
    BY <1>w, <1>14 DEF Complete
  <2>2. CASE run' = [run EXCEPT ![work[w].run].lease = None]
    BY <1>7, <2>1, <2>2
  <2>3. ASSUME NEW s \in Terminal,
               run' = [run EXCEPT ![work[w].run] = Stopped(run[work[w].run], s)]
        PROVE  Goal
    BY <1>2, <1>3, <2>1, <2>3, RunShapes
  <2>4. QED BY <1>1, <1>14, <2>1, <2>2, <2>3 DEF Complete, Terminal
<1>15. ASSUME NEW w \in Caller, Refused(w) PROVE Goal
  <2>1. work[w].run \in Run
    BY <1>w, <1>15 DEF Refused
  <2>2. QED BY <1>4, <1>7, <1>15, <2>1 DEF Refused
<1>16. ASSUME NEW w \in Caller, NEW r \in Run,
              ClaimRefused(w, r) \/ ClaimPage(w, r) \/ ClaimCompletion(w, r)
              \/ \E t \in Thread : ClaimThread(w, r, t)
       PROVE  Goal
  <2>1. run' = run \/ run' = [run EXCEPT ![r].lease = w]
    BY <1>16 DEF ClaimRefused, ClaimPage, ClaimCompletion, ClaimThread, Claim
  <2>2. QED BY <1>4, <1>7, <2>1
<1>17. ASSUME NEW r \in Run, LeaseExpires(r) PROVE Goal
  BY <1>7, <1>17 DEF LeaseExpires
<1>18. ASSUME NEW w \in Caller, TokenAnswer(w) \/ Validate(w) \/ Dies(w) PROVE Goal
  BY <1>4, <1>18 DEF TokenAnswer, Validate, Dies
<1>19. QED BY <1>5, <1>6, <1>8, <1>9, <1>10, <1>11, <1>12, <1>13, <1>14, <1>15, <1>16,
  <1>17, <1>18, Steps

Asks == {"idle", "paused_reauth", "paused_consent", "cancelled_connection_stopped"}

\* What a worker is told to do is something that it can be asked to do.
LEMMA Reacts ==
  ASSUME NEW w \in Caller, NEW r \in Run, NEW told, NEW state,
         work \in [Caller -> Works], React(w, r, Reaction(told, state))
  PROVE  \E x \in Works : /\ work' = [work EXCEPT ![w] = x] /\ x.at \in Asks
                          /\ x.at = "idle" <=> x.run = None
                          /\ x.step = "none"
<1>1. Reaction(told, state) \in Asks
  BY DEF Reaction, Asks
<1>2. DEFINE x == IF Reaction(told, state) = "idle" THEN Idle
                  ELSE [Idle EXCEPT !.at = Reaction(told, state), !.run = r]
<1>3. work' = [work EXCEPT ![w] = x]
  BY DEF React
<1>4. x \in Works
  BY <1>1 DEF Works, Idle, Asks
<1>5. x.at \in Asks /\ (x.at = "idle" <=> x.run = None) /\ x.step = "none"
  BY <1>1, ImportAssumption DEF Idle, Asks
<1>6. QED BY <1>3, <1>4, <1>5

\* One step of the workers: one of them moves on, comes to rest or is told what to do,
\* or claims a step under the revision of the mailbox.
WorkMoves ==
  \/ work' = work
  \/ \E w \in Caller, x \in Works :
       /\ work' = [work EXCEPT ![w] = x] /\ (x.at = "idle" <=> x.run = None)
       /\ \/ x.at \in Asks /\ x.step = "none"
          \/ /\ x = [work[w] EXCEPT !.at = x.at] /\ work[w].at \in Holds
             /\ \/ work[w].at = "token" /\ x.at = "ready"
                \/ work[w].at = "ready" /\ x.at = "reading" /\ Guard(w) = "ok" /\ run' = run
          \/ /\ work[w].at = "idle" /\ x.at \in Holds /\ x.rev = mail.rev /\ x.at # "reading"
             /\ x.run \in Run /\ x.step # "none"
             /\ run' = [run EXCEPT ![x.run].lease = w]
             /\ x.step = "enumerate_page" => x.page = run[x.run].page
             /\ x.step = "fetch_thread" => x.thread \in Thread /\ run[x.run].thread[x.thread] = "pending"
             /\ x.at = "completing" <=> x.step = "complete_run"
             /\ x.at = "completing" => Enumerated(x.run)

\* Every step moves the workers like this.
LEMMA WorkStep == ASSUME TypeOK, ImportTypeOK, Next PROVE WorkMoves
<1>1. work \in [Caller -> Works] /\ run \in [Run -> Runs] /\ mail.rev \in Nat
  BY DEF ImportTypeOK, TypeOK, Mails
<1>2. \A w \in Caller : work[w].at # "idle" => work[w].run \in Run
  BY DEF ImportTypeOK, Works
<1>3. CASE work' = work
  BY <1>3 DEF WorkMoves
<1>4. ASSUME NEW w \in Caller, NEW r \in Run, NEW told, NEW state,
             React(w, r, Reaction(told, state))
      PROVE  WorkMoves
  BY <1>1, <1>4, Reacts DEF WorkMoves
<1>5. ASSUME NEW w \in Caller, work' = [work EXCEPT ![w] = Idle] PROVE WorkMoves
  <2>1. Idle \in Works /\ Idle.at = "idle" /\ Idle.run = None /\ Idle.step = "none"
    BY DEF Idle, Works
  <2>2. QED BY <1>5, <2>1 DEF WorkMoves, Asks
<1>6. ASSUME NEW w \in Caller, NEW r \in Run, NEW step, NEW thread, NEW at,
             Claim(w, r, step, thread, at),
             step \in {"enumerate_page", "fetch_thread", "complete_run"},
             thread \in Thread \cup {None}, at \in {"token", "completing"},
             step = "fetch_thread" => thread \in Pending(r),
             at = "completing" <=> step = "complete_run",
             at = "completing" => Enumerated(r)
      PROVE  WorkMoves
  <2> DEFINE x == [at |-> at, run |-> r, step |-> step, thread |-> thread,
                                  rev |-> mail.rev, page |-> run[r].page]
  <2>1. x \in Works
    BY <1>1, <1>6 DEF Works, Runs
  <2>2. work' = [work EXCEPT ![w] = x] /\ work[w].at = "idle" /\ run' = [run EXCEPT ![r].lease = w]
    BY <1>6 DEF Claim
  <2>3. r # None
    BY ImportAssumption
  <2>4. QED BY <1>6, <2>1, <2>2, <2>3 DEF WorkMoves, Holds, Pending
<1>7. ASSUME NEW w \in Caller, NEW r \in Run,
             ClaimPage(w, r) \/ ClaimCompletion(w, r) \/ \E t \in Thread : ClaimThread(w, r, t)
      PROVE  WorkMoves
  BY <1>6, <1>7 DEF ClaimPage, ClaimCompletion, ClaimThread
<1>8. ASSUME NEW w \in Caller, TokenAnswer(w) PROVE WorkMoves
  <2>1. work[w].run \in Run /\ work[w].at = "token" /\ work[w] \in Works
    BY <1>1, <1>2, <1>8 DEF TokenAnswer
  <2>2. CASE work' = [work EXCEPT ![w].at = "ready"]
    <3> DEFINE x == [work[w] EXCEPT !.at = "ready"]
    <3>1. x \in Works /\ x.at = "ready" /\ x.run # None /\ work' = [work EXCEPT ![w] = x]
      BY <1>1, <2>1, <2>2, ImportAssumption DEF Works
    <3>2. QED BY <2>1, <3>1 DEF WorkMoves, Holds
  <2>3. QED BY <1>4, <1>8, <2>1, <2>2 DEF TokenAnswer
<1>9. ASSUME NEW w \in Caller, Validate(w) PROVE WorkMoves
  <2>1. /\ work[w].run \in Run /\ work[w].at = "ready" /\ work[w] \in Works /\ Guard(w) = "ok"
        /\ run' = run
    BY <1>1, <1>2, <1>9 DEF Validate
  <2>2. work' = [work EXCEPT ![w].at = "reading"]
    BY <1>9 DEF Validate
  <2> DEFINE x == [work[w] EXCEPT !.at = "reading"]
  <2>3. x \in Works /\ x.at = "reading" /\ x.run # None /\ work' = [work EXCEPT ![w] = x]
    BY <1>1, <2>1, <2>2, ImportAssumption DEF Works
  <2>4. QED BY <2>1, <2>3 DEF WorkMoves, Holds
<1>10. ASSUME NEW w \in Caller, Refused(w) PROVE WorkMoves
  <2>1. work[w].run \in Run
    BY <1>2, <1>10 DEF Refused
  <2>2. CASE run[work[w].run].status = "runnable"
    BY <1>4, <1>10, <2>1, <2>2 DEF Refused
  <2>3. CASE run[work[w].run].status # "runnable"
    BY <1>5, <1>10, <2>3 DEF Refused, React
  <2>4. QED BY <2>2, <2>3
<1>11. ASSUME NEW w \in Caller, NEW r \in Run, ClaimRefused(w, r) PROVE WorkMoves
  BY <1>4, <1>11 DEF ClaimRefused
<1>12. ASSUME NEW w \in Caller,
              \/ (\E exact \in BOOLEAN : CommitThread(w, exact))
              \/ CommitPage(w) \/ ThreadGone(w) \/ Complete(w) \/ Dies(w) \/ CarryOut(w)
              \/ \E retryable \in BOOLEAN : RetryPage(w, retryable) \/ RetryThread(w, retryable)
       PROVE  WorkMoves
  BY <1>5, <1>12 DEF CommitThread, CommitPage, ThreadGone, Complete, Dies, CarryOut,
      RetryPage, RetryThread, Commits
<1>13. ASSUME NEW r \in Run, Start(r) \/ Resume(r) \/ LeaseExpires(r) \/ Ready(r)
     PROVE WorkMoves
  BY <1>3, <1>13 DEF Start, Resume, ResumeReads, ResumeEnds, LeaseExpires, Ready
<1>14. CASE Connection
  BY <1>3, <1>14 DEF Connection
<1>15. QED BY <1>7, <1>8, <1>9, <1>10, <1>11, <1>12, <1>13, <1>14, Steps

\* What a worker that still owns its claim has written into its run r.
Stores(w, r) ==
  /\ work[w].at = "reading" /\ work[w].run = r /\ Guard(w) = "ok" /\ work'[w].at = "idle"
  /\ \/ /\ work[w].step = "enumerate_page" /\ run[r].page = work[w].page
        /\ run'[r] = Listed(run[r], work[w].page)
     \/ /\ work[w].step = "fetch_thread"
        /\ \/ run'[r] = ThreadIs(run[r], work[w].thread, "complete") /\ work[w].thread \in raw'
           \/ \E s \in {"filtered_out", "gone"} : run'[r] = ThreadIs(run[r], work[w].thread, s)
           \/ \E last \in BOOLEAN :
                /\ run'[r] = Failed(run[r], work[w].thread, last)
                /\ ~last => run[r].failures[work[w].thread] + 1 < MaxAttempts
     \/ /\ work[w].step = "enumerate_page"
        /\ \E last \in BOOLEAN :
             run'[r] = [run[r] EXCEPT !.tries = @ + 1, !.later = ~last, !.lease = None,
                                      !.status = IF last THEN "failed" ELSE @]

\* Ways of a run to stop.
Ends(r) ==
  \E s \in (Active \cup Terminal) \ {"runnable"} :
     /\ run'[r] = Stopped(run[r], s) /\ ~run[r].resumes
     /\ \/ run[r].status = "runnable"
        \/ run[r].status \in Active /\ s = "cancelled_connection_stopped"
     /\ s = "completed" =>
          /\ Pending(r) = {} /\ \A t \in Thread : run[r].thread[t] # "failed"
          /\ \E w \in Caller : work[w].at = "completing" /\ work[w].run = r /\ run[r].lease = w

\* A resume has read the mailbox, or writes what it read, or is rolled back.
Resumed(r) ==
  /\ run[r].status \in {"paused_reauth", "paused_consent"}
  /\ mail' = mail /\ blocked' = blocked
  /\ \/ run'[r] = [run[r] EXCEPT !.resumes = TRUE]
     \/ \E commits \in BOOLEAN :
          run'[r] = [run[r] EXCEPT !.resumes = FALSE,
                                   !.status = IF commits THEN "runnable" ELSE @]

\* It leaves the rest of the run alone.
LEMMA ResumeLeaves ==
  ASSUME NEW r \in Run, run[r] \in Runs, Resumed(r)
  PROVE  /\ run'[r].thread = run[r].thread /\ run'[r].page = run[r].page
         /\ run'[r].failures = run[r].failures /\ run'[r].lease = run[r].lease
         /\ run'[r].status \in {"runnable", "paused_reauth", "paused_consent"}
         /\ run'[r].resumes => run'[r].status \in {"paused_reauth", "paused_consent"}
BY DEF Resumed, Runs

\* One step of the run r.
RunMoves(r) ==
  \/ run'[r] = run[r]
  \/ run'[r] = [run[r] EXCEPT !.lease = None]
  \/ \E w \in Caller : /\ run'[r] = [run[r] EXCEPT !.lease = w]
                       /\ work[w].at = "idle" /\ run[r].status = "runnable"
                       /\ run[r].lease = None /\ Authorization = "ok"
                       /\ mail' = mail /\ blocked' = blocked
  \/ run'[r] = [run[r] EXCEPT !.later = FALSE, !.waiting = {}]
  \/ /\ run'[r] = [run[r] EXCEPT !.status = "runnable"]
     /\ run[r].status = "none"
     /\ Authorization = "ok" /\ mail' = mail /\ blocked' = blocked
  \/ Resumed(r)
  \/ Ends(r)
  \/ \E w \in Caller : Stores(w, r)

\* A worker that owns its claim owns the lease of a run that goes on.
LEMMA GuardOk ==
  ASSUME NEW w \in Caller, Guard(w) = "ok"
  PROVE  /\ run[work[w].run].lease = w /\ run[work[w].run].status = "runnable"
         /\ Authorization = "ok" /\ mail.rev = work[w].rev
BY DEF Guard, Authorization

\* Every step moves each run like this.
LEMMA RunStep ==
  ASSUME ImportTypeOK, Aimed, Next PROVE \A r \in Run : RunMoves(r)
<1> SUFFICES ASSUME NEW r \in Run PROVE RunMoves(r)
  OBVIOUS
<1>1. /\ run \in [Run -> Runs] /\ work \in [Caller -> Works]
      /\ run[r].resumes => run[r].status \in {"paused_reauth", "paused_consent"}
  BY DEF ImportTypeOK
<1>2. \A w \in Caller : work[w].at # "idle" => work[w].run \in Run
  BY DEF ImportTypeOK, Works
<1>3. CASE run'[r] = run[r]
  BY <1>3 DEF RunMoves
<1>4. ASSUME NEW q \in Run, NEW x, run' = [run EXCEPT ![q] = x]
     PROVE run'[r] = run[r] \/ (q = r /\ run'[r] = x)
  BY <1>1, <1>4
<1>5. ASSUME NEW q \in Run, run' = [run EXCEPT ![q].lease = None] PROVE RunMoves(r)
  BY <1>1, <1>5 DEF RunMoves
<1>6. ASSUME NEW s, run'[r] = Lifecycle(run[r], s), TriggerGoes(s) PROVE RunMoves(r)
  <2>1. CASE s \in {"disconnecting", "disconnected", "deletion_pending"} /\ run[r].status \in Active
    <3>1. run'[r] = Stopped(run[r], "cancelled_connection_stopped") /\ ~run[r].resumes
      BY <1>6, <2>1 DEF Lifecycle, TriggerGoes
    <3>2. QED BY <2>1, <3>1 DEF RunMoves, Ends, Active, Terminal
  <2>2. CASE run[r].status = "runnable"
    <3>1. ~run[r].resumes
      BY <1>1, <2>2
    <3>2. QED BY <1>3, <1>6, <2>2, <3>1 DEF Lifecycle, RunMoves, Ends, Active, Terminal
  <2>3. CASE /\ run[r].status # "runnable"
             /\ ~(/\ s \in {"disconnecting", "disconnected", "deletion_pending"}
                  /\ run[r].status \in Active)
    BY <1>3, <1>6, <2>3 DEF Lifecycle
  <2>4. QED BY <2>1, <2>2, <2>3
<1>7. CASE Connection
  BY <1>3, <1>6, <1>7 DEF Connection
<1>8. ASSUME NEW q \in Run, Start(q) \/ Resume(q) PROVE RunMoves(r)
  <2>1. CASE Start(q)
    BY <1>1, <2>1 DEF Start, RunMoves, connVars
  <2>2. CASE Resume(q)
    <3>1. run'[r] = run[r] \/ Resumed(r)
      BY <1>1, <2>2 DEF Resume, ResumeReads, ResumeEnds, Resumed, connVars
    <3>2. QED BY <1>3, <3>1 DEF RunMoves
  <2>3. QED BY <1>8, <2>1, <2>2
<1>9. ASSUME NEW q \in Run, LeaseExpires(q) PROVE RunMoves(r)
  BY <1>5, <1>9 DEF LeaseExpires
<1>10. ASSUME NEW q \in Run, Ready(q) PROVE RunMoves(r)
  BY <1>1, <1>10 DEF Ready, RunMoves
<1>11. ASSUME NEW w \in Caller, NEW q \in Run,
              ClaimRefused(w, q) \/ ClaimPage(w, q) \/ ClaimCompletion(w, q)
              \/ \E t \in Thread : ClaimThread(w, q, t)
       PROVE  RunMoves(r)
  BY <1>1, <1>11 DEF ClaimRefused, ClaimPage, ClaimCompletion, ClaimThread, Claim, RunMoves,
      connVars
<1>12. ASSUME NEW w \in Caller, TokenAnswer(w) \/ Validate(w) \/ Dies(w) PROVE RunMoves(r)
  BY <1>3, <1>12 DEF TokenAnswer, Validate, Dies
<1>13. ASSUME NEW w \in Caller, Refused(w) PROVE RunMoves(r)
  BY <1>2, <1>3, <1>5, <1>13 DEF Refused
<1>14. ASSUME NEW w \in Caller, CarryOut(w) PROVE RunMoves(r)
  <2>1. work[w].run \in Run
    BY <1>2, <1>14 DEF CarryOut
  <2>2. CASE run'[r] = run[r]
    BY <1>3, <2>2
  <2>3. CASE run'[r] # run[r]
    <3>1. /\ work[w].run = r /\ run'[r] = Stopped(run[r], work[w].at)
          /\ work[w].at \in {"paused_reauth", "paused_consent", "cancelled_connection_stopped"}
          /\ \/ run[r].status = "runnable"
             \/ (work[w].at = "cancelled_connection_stopped" /\ run[r].status \in Active)
          /\ ~run[r].resumes
      BY <1>1, <1>14, <2>1, <2>3 DEF CarryOut
    <3>2. QED BY <3>1 DEF RunMoves, Ends, Active, Terminal
  <2>4. QED BY <2>2, <2>3
<1>15. ASSUME NEW w \in Caller, CommitPage(w) PROVE RunMoves(r)
  <2>1. /\ work[w].run \in Run /\ work[w].at = "reading" /\ Guard(w) = "ok" /\ work'[w].at = "idle"
        /\ work[w].step = "enumerate_page"
    BY <1>1, <1>2, <1>15 DEF CommitPage, Commits, Idle
  <2>2. CASE run' = [run EXCEPT ![work[w].run].lease = None]
    BY <1>5, <2>1, <2>2
  <2>3. CASE /\ run' = [run EXCEPT ![work[w].run] = Listed(run[work[w].run], work[w].page)]
             /\ run[work[w].run].page = work[w].page
    <3>1. CASE work[w].run = r
      <4>1. run'[r] = Listed(run[r], work[w].page)
        BY <1>1, <2>3, <3>1
      <4>2. QED BY <2>1, <2>3, <3>1, <4>1 DEF RunMoves, Stores
    <3>2. QED BY <1>1, <1>3, <2>3, <3>1
  <2>4. QED BY <1>1, <1>15, <2>1, <2>2, <2>3 DEF CommitPage
<1>16. ASSUME NEW w \in Caller, NEW exact \in BOOLEAN, CommitThread(w, exact)
     PROVE RunMoves(r)
  <2>1. /\ work[w].run \in Run /\ work[w].at = "reading" /\ Guard(w) = "ok" /\ work'[w].at = "idle"
        /\ work[w].step = "fetch_thread"
    BY <1>1, <1>2, <1>16 DEF CommitThread, Commits, Idle
  <2> DEFINE s == IF exact THEN "complete" ELSE "filtered_out"
  <2>2. run' = [run EXCEPT ![work[w].run] = ThreadIs(run[work[w].run], work[w].thread, s)]
    BY <1>16 DEF CommitThread
  <2>3. CASE work[w].run = r
    <3>1. run'[r] = ThreadIs(run[r], work[w].thread, s)
      BY <1>1, <2>2, <2>3
    <3>2. s = "filtered_out" \/ (s = "complete" /\ work[w].thread \in raw')
      BY <1>16 DEF CommitThread
    <3> HIDE DEF s
    <3>3. QED BY <2>1, <2>3, <3>1, <3>2 DEF RunMoves, Stores
  <2>4. QED BY <1>1, <1>3, <2>2, <2>3
<1>17. ASSUME NEW w \in Caller, ThreadGone(w) PROVE RunMoves(r)
  <2>1. /\ work[w].run \in Run /\ work[w].at = "reading" /\ Guard(w) = "ok" /\ work'[w].at = "idle"
        /\ work[w].step = "fetch_thread"
        /\ run' = [run EXCEPT ![work[w].run] = ThreadIs(run[work[w].run], work[w].thread, "gone")]
    BY <1>1, <1>2, <1>17 DEF ThreadGone, Commits, Idle
  <2>2. CASE work[w].run = r
    <3>1. run'[r] = ThreadIs(run[r], work[w].thread, "gone")
      BY <1>1, <2>1, <2>2
    <3>2. QED BY <2>1, <2>2, <3>1 DEF RunMoves, Stores
  <2>3. QED BY <1>1, <1>3, <2>1, <2>2
<1>18. ASSUME NEW w \in Caller, NEW retryable \in BOOLEAN, RetryThread(w, retryable)
     PROVE RunMoves(r)
  <2>1. /\ work[w].run \in Run /\ work[w].at = "reading" /\ Guard(w) = "ok" /\ work'[w].at = "idle"
        /\ work[w].step = "fetch_thread" /\ work[w].thread \in Thread
    BY <1>1, <1>2, <1>18 DEF RetryThread, Commits, Idle, Aimed, Works
  <2> DEFINE last == ~retryable \/ run[work[w].run].failures[work[w].thread] + 1 >= MaxAttempts
  <2>2. run' = [run EXCEPT ![work[w].run] = Failed(run[work[w].run], work[w].thread, last)]
    BY <1>18 DEF RetryThread
  <2>3. last \in BOOLEAN /\ (~last => run[work[w].run].failures[work[w].thread] + 1 < MaxAttempts)
    BY <1>1, <2>1, ImportAssumption DEF Runs
  <2> HIDE DEF last
  <2>4. CASE work[w].run = r
    <3>1. run'[r] = Failed(run[r], work[w].thread, last)
      BY <1>1, <2>2, <2>4
    <3>2. QED BY <2>1, <2>3, <2>4, <3>1 DEF RunMoves, Stores
  <2>5. QED BY <1>1, <1>3, <2>2, <2>4
<1>19. ASSUME NEW w \in Caller, NEW retryable \in BOOLEAN, RetryPage(w, retryable)
     PROVE RunMoves(r)
  <2>1. /\ work[w].run \in Run /\ work[w].at = "reading" /\ Guard(w) = "ok" /\ work'[w].at = "idle"
        /\ work[w].step = "enumerate_page"
    BY <1>1, <1>2, <1>19 DEF RetryPage, Commits, Idle
  <2>2. CASE work[w].run = r
    <3>1. PICK last \in BOOLEAN :
            run'[r] = [run[r] EXCEPT !.tries = @ + 1, !.later = ~last, !.lease = None,
                                      !.status = IF last THEN "failed" ELSE @]
      BY <1>1, <1>19, <2>2 DEF RetryPage
    <3>2. QED BY <2>1, <2>2, <3>1 DEF RunMoves, Stores
  <2>3. QED BY <1>1, <1>3, <1>19, <2>2 DEF RetryPage
<1>20. ASSUME NEW w \in Caller, Complete(w) PROVE RunMoves(r)
  <2>1. work[w].run \in Run /\ work[w].at = "completing" /\ Guard(w) = "ok"
    BY <1>2, <1>20 DEF Complete
  <2>2. CASE run' = [run EXCEPT ![work[w].run].lease = None]
    BY <1>5, <2>1, <2>2
  <2>3. CASE run' # [run EXCEPT ![work[w].run].lease = None]
    <3> DEFINE s == IF \E t \in Thread : run[work[w].run].thread[t] = "failed"
                    THEN "failed" ELSE "completed"
    <3>1. /\ Pending(work[w].run) = {}
          /\ run' = [run EXCEPT ![work[w].run] = Stopped(run[work[w].run], s)]
      BY <1>20, <2>3 DEF Complete
    <3>2. s = "failed" \/ (s = "completed" /\ \A t \in Thread : run[work[w].run].thread[t] # "failed")
      OBVIOUS
    <3> HIDE DEF s
    <3>3. CASE work[w].run = r
      <4>1. run'[r] = Stopped(run[r], s) /\ run[r].status = "runnable" /\ run[r].lease = w
            /\ ~run[r].resumes
        BY <1>1, <2>1, <3>1, <3>3, GuardOk
      <4>2. QED BY <2>1, <3>1, <3>2, <3>3, <4>1 DEF RunMoves, Ends, Active, Terminal
    <3>4. QED BY <1>1, <1>3, <3>1, <3>3
  <2>4. QED BY <2>2, <2>3
<1>21. QED BY <1>7, <1>8, <1>9, <1>10, <1>11, <1>12, <1>13, <1>14, <1>15, <1>16, <1>17,
  <1>18, <1>19,
   <1>20, Steps

\* What is stored stays stored, and is a thread.
LEMMA RawStep ==
  ASSUME ImportTypeOK, Aimed, Next PROVE raw \subseteq raw' /\ raw' \subseteq Thread
<1>1. raw \subseteq Thread
  BY DEF ImportTypeOK
<1>2. CASE raw' = raw
  BY <1>1, <1>2
<1>3. ASSUME NEW w \in Caller, NEW exact \in BOOLEAN, CommitThread(w, exact)
      PROVE  raw \subseteq raw' /\ raw' \subseteq Thread
  <2>1. work[w].thread \in Thread
    BY <1>3 DEF CommitThread, Commits, Aimed, ImportTypeOK, Works
  <2>2. QED BY <1>1, <1>3, <2>1 DEF CommitThread
<1>4. raw' = raw \/ \E w \in Caller, exact \in BOOLEAN : CommitThread(w, exact)
  BY Steps DEF Connection, Start, Resume, ResumeReads, ResumeEnds, LeaseExpires, Ready, ClaimRefused, ClaimPage,
      ClaimCompletion, ClaimThread, Claim, TokenAnswer, Validate, Refused, CarryOut,
      CommitPage, ThreadGone, Complete, Dies, RetryPage, RetryThread
<1>5. QED BY <1>2, <1>3, <1>4

\* A worker that fetches a thread after a step knows which.
LEMMA AimedStep == ASSUME TypeOK, ImportTypeOK, Aimed, Next PROVE Aimed'
<1>1. work \in [Caller -> Works] /\ WorkMoves
  BY WorkStep DEF ImportTypeOK
<1>2. SUFFICES ASSUME NEW c \in Caller, work'[c].step = "fetch_thread"
     PROVE work'[c].thread # None
  BY DEF Aimed
<1>3. CASE work'[c] = work[c]
  BY <1>2, <1>3 DEF Aimed
<1>4. CASE work'[c] # work[c]
  <2>1. PICK x \in Works :
          /\ work' = [work EXCEPT ![c] = x]
          /\ \/ x.step = "none" \/ x = [work[c] EXCEPT !.at = x.at]
             \/ (x.step = "fetch_thread" => x.thread \in Thread)
    BY <1>1, <1>4 DEF WorkMoves
  <2>2. work'[c] = x
    BY <1>1, <2>1
  <2>3. CASE x = [work[c] EXCEPT !.at = x.at]
    <3>1. x.step = work[c].step /\ x.thread = work[c].thread
      BY <1>1, <2>3 DEF Works
    <3>2. QED BY <1>2, <2>2, <3>1 DEF Aimed
  <2>4. QED BY <1>2, <2>1, <2>2, <2>3, ImportAssumption
<1>5. QED BY <1>3, <1>4

\* A run loses its lease with its status, and whoever takes a lease is at rest.
LEMMA LeaseStep ==
  ASSUME ImportTypeOK, Aimed, Next, NEW r \in Run
  PROVE  /\ run'[r].lease \in {None, run[r].lease} \/ work[run'[r].lease].at = "idle"
         /\ run'[r].status # run[r].status => run'[r].lease = None
         /\ run'[r].lease # None => run'[r].status = "runnable"
         /\ run'[r].resumes => run'[r].status \in {"paused_reauth", "paused_consent"}
<1>1. /\ run[r] \in Runs /\ RunMoves(r) /\ (run[r].lease # None => run[r].status = "runnable")
      /\ run[r].resumes => run[r].status \in {"paused_reauth", "paused_consent"}
  BY RunStep DEF ImportTypeOK
<1>2. ASSUME NEW s, run'[r] = Stopped(run[r], s)
      PROVE  run'[r].lease = None /\ run'[r].resumes = run[r].resumes
  BY <1>1, <1>2 DEF Stopped, Runs
<1>3. ASSUME NEW w \in Caller, Stores(w, r) PROVE run'[r].lease = None /\ ~run'[r].resumes
  BY <1>1, <1>3, GuardOk DEF Stores, Listed, ThreadIs, Failed, Runs
<1>4. CASE Ends(r)
  <2>1. PICK s \in (Active \cup Terminal) \ {"runnable"} :
             run'[r] = Stopped(run[r], s) /\ ~run[r].resumes
    BY <1>4 DEF Ends
  <2>2. QED BY <1>2, <2>1
<1>5. ASSUME NEW w \in Caller, Stores(w, r)
      PROVE  run'[r].lease = None /\ ~run'[r].resumes
  BY <1>3, <1>5
<1>6. CASE Resumed(r)
  <2>1. run[r].status # "runnable" /\ run'[r].lease = run[r].lease
    BY <1>1, <1>6, ResumeLeaves DEF Resumed
  <2>2. run'[r].lease = None
    BY <1>1, <2>1
  <2>3. QED BY <1>1, <1>6, <2>2, ResumeLeaves
<1>7. CASE run'[r] = run[r] \/ run'[r] = [run[r] EXCEPT !.lease = None]
           \/ run'[r] = [run[r] EXCEPT !.later = FALSE, !.waiting = {}]
  <2>1. /\ run'[r].status = run[r].status /\ run'[r].resumes = run[r].resumes
        /\ run'[r].lease \in {None, run[r].lease}
    BY <1>1, <1>7 DEF Runs
  <2>2. QED BY <1>1, <2>1
<1>8. ASSUME NEW w \in Caller, run'[r] = [run[r] EXCEPT !.lease = w],
             work[w].at = "idle" /\ run[r].status = "runnable"
      PROVE  /\ run'[r].lease = w /\ run'[r].status = "runnable"
             /\ run'[r].resumes = run[r].resumes /\ work[run'[r].lease].at = "idle"
  BY <1>1, <1>8 DEF Runs
<1>9. CASE run'[r] = [run[r] EXCEPT !.status = "runnable"] /\ run[r].status = "none"
  BY <1>1, <1>9 DEF Runs
<1>10. CASE \E w \in Caller : /\ run'[r] = [run[r] EXCEPT !.lease = w]
                              /\ work[w].at = "idle" /\ run[r].status = "runnable"
  BY <1>1, <1>8, <1>10
<1>11. QED BY <1>1, <1>4, <1>5, <1>6, <1>7, <1>9, <1>10 DEF RunMoves

\* The types are kept.
LEMMA ImportTypeStep ==
  ASSUME TypeOK, TypeOK', ImportTypeOK, Aimed, Next PROVE ImportTypeOK'
<1>1. run' \in [Run -> Runs]
  BY RunTypeStep
<1>2. work \in [Caller -> Works] /\ WorkMoves
      /\ \A w \in Caller : work[w].at = "idle" <=> work[w].run = None
  BY WorkStep DEF ImportTypeOK
<1>3. work' \in [Caller -> Works]
  BY <1>2 DEF WorkMoves
<1>4. ASSUME NEW c \in Caller PROVE work'[c].at = "idle" <=> work'[c].run = None
  BY <1>2 DEF WorkMoves
<1>5. \A r \in Run :
        /\ run'[r].lease # None => run'[r].status = "runnable"
        /\ run'[r].resumes => run'[r].status \in {"paused_reauth", "paused_consent"}
  BY LeaseStep
<1>6. overtaken' \subseteq Caller
  BY Steps DEF Overtakes
<1>7. QED BY <1>1, <1>3, <1>4, <1>5, <1>6, RawStep DEF ImportTypeOK

\* A closing account has no mailbox that works.
BlockedMail == blocked => mail.state \in {"absent", "deletion_pending"}

\* A closing account stays one, and what could move its mailbox does not.
LEMMA BlockedStep == ASSUME TypeOK, DisconnectStands, BlockedMail, ConnNext PROVE BlockedMail'
<1>1. mail \in Mails
  BY DEF TypeOK
<1>2. CASE blocked' = blocked /\ (mail' = mail \/ mail'.state = mail.state)
  BY <1>2 DEF BlockedMail
<1>3. CASE CloseAccount
  BY <1>1, <1>3 DEF CloseAccount, BlockedMail, Mails
<1>4. CASE ~CloseAccount
  <2>1. blocked' = blocked
    BY <1>4 DEF ConnNext, FlowNext, StopNext, OwnerNext, CallerNext, Begin, Consume, GiveUp,
        Exchange, PersistLands, PersistRefused, PersistSuperseded, Store, StoreRefused,
        StoreFails, RevokeFlow, RevokeFlowFails, FinalizeFlow, Prepare, RevokeStop,
        RevokeStopFails, FinalizeStop, StopDies, Consent, RemovedAtGoogle, Load, RefreshOk,
        RefreshRotates, RefreshDead, Replace, ReplaceFails, MarkReauth, HandOver, CallFails,
        Leave
  <2>2. ASSUME NEW f \in Flow, PersistLands(f) PROVE ~blocked
    BY <2>2 DEF PersistLands
  <2>3. ASSUME NEW f \in Flow, NEW heard \in BOOLEAN, Store(f, heard) PROVE ~blocked
    BY <2>3 DEF Store, Superseded, BlockedMail
  <2>4. ASSUME NEW d \in Stop, Prepare(d) PROVE ~blocked
    BY <2>4 DEF Prepare, BlockedMail
  <2>5. ASSUME NEW s, Consent(s) PROVE ~blocked
    BY <2>5 DEF Consent, BlockedMail
  <2>6. ASSUME NEW intent, NEW cred, Finalize(intent, cred), mail' # mail PROVE ~blocked
    BY <2>6 DEF Finalize, Finalizable, BlockedMail
  <2>7. ASSUME NEW c \in Caller, Replace(c) \/ MarkReauth(c), mail' # mail PROVE ~blocked
    BY <2>7 DEF Replace, MarkReauth, Current, Permitted, BlockedMail
  <2>8. mail' = mail \/ ~blocked
    BY <1>4, <2>2, <2>3, <2>4, <2>5, <2>6, <2>7, MailStill DEF MailMoves, FinalizeFlow,
        FinalizeStop
  <2>9. QED BY <1>2, <2>1, <2>8 DEF BlockedMail
<1>5. QED BY <1>3, <1>4

\* The trigger, the checks of Start and Resume, and the workers keep the runs in step
\* with the mailbox.
LEMMA FollowStep ==
  ASSUME TypeOK, TypeOK', DisconnectStands, ImportTypeOK, Aimed, BlockedMail,
         RunsFollowMailbox, Next
  PROVE  BlockedMail' /\ RunsFollowMailbox'
<1>1. ConnNext \/ (mail' = mail /\ blocked' = blocked)
  BY ConnStep DEF connVars
<1>2. BlockedMail'
  BY <1>1, BlockedStep DEF BlockedMail
<1>3. mail'.state = "absent" => mail.state = "absent"
  <2>1. CASE mail' = mail
    BY <2>1
  <2>2. ASSUME NEW d \in Stop, Prepare(d) PROVE mail'.state # "absent"
    BY <2>2 DEF Prepare, TypeOK, Mails
  <2>3. QED BY <1>1, <2>1, <2>2, MailStep DEF MailGoesOn
<1> DEFINE Open == {"connected", "reauth_required", "consent_required"}
<1>4. SUFFICES ASSUME NEW r \in Run
      PROVE  /\ run'[r].lease # None => mail'.state = "connected"
             /\ run'[r].status \in Active => mail'.state \in Open
  BY <1>2 DEF RunsFollowMailbox, BlockedMail
<1> DEFINE Goal == /\ run'[r].lease # None => mail'.state = "connected"
                   /\ run'[r].status \in Active => mail'.state \in Open
<1> SUFFICES Goal OBVIOUS
<1>5. /\ run[r] \in Runs /\ RunMoves(r) /\ mail'.state \in States /\ mail.state \in States
      /\ run[r].lease # None => run[r].status = "runnable" /\ mail.state = "connected"
      /\ run[r].status \in Active => mail.state \in Open
      /\ run[r].resumes => run[r].status \in Active
  BY RunStep DEF ImportTypeOK, TypeOK, Mails, RunsFollowMailbox, Active
<1>6. ASSUME Connection PROVE Goal
  <2>1. CASE mail'.state = mail.state
    BY <1>5, <1>6, <2>1 DEF Connection
  <2>2. CASE mail'.state # mail.state
    <3>1. run'[r] = Lifecycle(run[r], mail'.state)
      BY <1>6, <2>2 DEF Connection
    <3>2. QED BY <1>3, <1>5, <2>2, <3>1 DEF Lifecycle, Stopped, Active, Terminal, Runs, States
  <2>3. QED BY <2>1, <2>2
<1>7. CASE mail' = mail /\ blocked' = blocked
  <2>1. CASE Authorization = "ok"
    BY <1>7, <2>1 DEF Authorization
  <2>2. CASE run'[r].status = run[r].status /\ run'[r].lease \in {None, run[r].lease}
    BY <1>5, <1>7, <2>2
  <2>3. ASSUME NEW s, run'[r] = Stopped(run[r], s), run[r].status \in Active
       PROVE Goal
    BY <1>5, <1>7, <2>3 DEF Stopped, Runs
  <2>4. ASSUME NEW w \in Caller, Stores(w, r) PROVE Goal
    BY <1>7, <2>1, <2>4, GuardOk DEF Stores
  <2>5. CASE Resumed(r)
    BY <1>5, <1>7, <2>5, ResumeLeaves DEF Resumed, Active
  <2>6. QED BY <1>5, <2>1, <2>2, <2>3, <2>4, <2>5 DEF RunMoves, Ends, Runs, Active
<1>8. Connection \/ (mail' = mail /\ blocked' = blocked)
  BY WorkerLeavesMail DEF Next, Start, Resume, ResumeReads, ResumeEnds, LeaseExpires, Ready, connVars
<1>9. QED BY <1>6, <1>7, <1>8

\* A claim whose run was stopped or leased again, or whose mailbox moved, does not pass.
Pinned ==
  \A w \in Caller :
    /\ w \in overtaken => work[w].run # None
    /\ work[w].at \in Holds =>
         /\ work[w].rev <= mail.rev
         /\ w \in overtaken => run[work[w].run].lease # w \/ work[w].rev < mail.rev

\* What a worker that owns its claim holds: a thread that waits, or a list read to its end.
Holding ==
  \A w \in Caller : work[w].at \in Holds /\ run[work[w].run].lease = w =>
    /\ work[w].step = "fetch_thread" => run[work[w].run].thread[work[w].thread] = "pending"
    /\ work[w].at = "completing" => Enumerated(work[w].run)
    /\ work[w].at = "completing" <=> work[w].step = "complete_run"

\* The revision of the mailbox only grows.
LEMMA RevStep ==
  ASSUME TypeOK, TypeOK', DisconnectStands, Next
  PROVE  mail.rev \in Nat /\ mail'.rev \in Nat /\ mail'.rev >= mail.rev
<1>1. mail \in Mails /\ mail' \in Mails
  BY DEF TypeOK
<1>2. mail.rev \in Nat /\ mail'.rev \in Nat
  BY <1>1 DEF Mails
<1>3. ASSUME NEW d \in Stop, Prepare(d) PROVE mail'.rev >= mail.rev
  BY <1>1, <1>2, <1>3 DEF Prepare, Mails
<1>4. QED BY <1>2, <1>3, ConnStep, MailStep DEF MailGoesOn, connVars

\* A worker that holds a claim after a step held it before, or has just claimed.
LEMMA HoldStep ==
  ASSUME TypeOK, ImportTypeOK, Next, NEW w \in Caller, work'[w].at \in Holds
  PROVE  \/ /\ work[w].at \in Holds /\ work'[w].run = work[w].run /\ work'[w].rev = work[w].rev
            /\ work'[w].step = work[w].step /\ work'[w].thread = work[w].thread
            /\ work'[w].page = work[w].page
            /\ work'[w].at = "completing" <=> work[w].at = "completing"
         \/ /\ work[w].at = "idle" /\ work[w].run = None /\ work'[w].rev = mail.rev
            /\ work'[w].at = "completing" <=> work'[w].step = "complete_run"
            /\ work'[w].run \in Run /\ run' = [run EXCEPT ![work'[w].run].lease = w]
            /\ work'[w].step = "fetch_thread" =>
                 run[work'[w].run].thread[work'[w].thread] = "pending"
            /\ work'[w].at = "completing" => Enumerated(work'[w].run)
<1>1. work \in [Caller -> Works] /\ WorkMoves /\ (work[w].at = "idle" <=> work[w].run = None)
  BY WorkStep DEF ImportTypeOK
<1>2. CASE work'[w] = work[w]
  BY <1>2
<1>3. CASE work'[w] # work[w]
  <2>1. PICK x \in Works :
          /\ work' = [work EXCEPT ![w] = x]
          /\ \/ x.at \in Asks
             \/ /\ x = [work[w] EXCEPT !.at = x.at] /\ work[w].at \in Holds
                /\ \/ work[w].at = "token" /\ x.at = "ready"
                   \/ work[w].at = "ready" /\ x.at = "reading" /\ Guard(w) = "ok" /\ run' = run
             \/ /\ work[w].at = "idle" /\ x.at \in Holds /\ x.rev = mail.rev /\ x.at # "reading"
                /\ x.run \in Run /\ x.step # "none"
                /\ run' = [run EXCEPT ![x.run].lease = w]
                /\ x.step = "enumerate_page" => x.page = run[x.run].page
                /\ x.step = "fetch_thread" => x.thread \in Thread /\ run[x.run].thread[x.thread] = "pending"
                /\ x.at = "completing" <=> x.step = "complete_run"
                /\ x.at = "completing" => Enumerated(x.run)
    BY <1>1, <1>3 DEF WorkMoves
  <2>2. work'[w] = x
    BY <1>1, <2>1
  <2>3. CASE x.at \in Asks
    BY <2>2, <2>3 DEF Asks, Holds
  <2>4. CASE /\ x = [work[w] EXCEPT !.at = x.at] /\ work[w].at \in Holds
             /\ \/ work[w].at = "token" /\ x.at = "ready"
                \/ work[w].at = "ready" /\ x.at = "reading"
    BY <1>1, <2>2, <2>4 DEF Works
  <2>5. QED BY <1>1, <2>1, <2>2, <2>3, <2>4
<1>4. QED BY <1>2, <1>3

\* A lease is lost with the status of its run, and taken by workers at rest.
LEMMA PinnedStep ==
  ASSUME TypeOK, TypeOK', DisconnectStands, ImportTypeOK, ImportTypeOK', Aimed, Pinned, Next
  PROVE  Pinned'
<1>1. mail.rev \in Nat /\ mail'.rev \in Nat /\ mail'.rev >= mail.rev
  BY RevStep
<1>2. SUFFICES ASSUME NEW w \in Caller, work'[w].at \in Holds
      PROVE  /\ work'[w].rev <= mail'.rev
             /\ w \in overtaken' => run'[work'[w].run].lease # w \/ work'[w].rev < mail'.rev
  BY Steps DEF Pinned, Overtakes
<1>3. Overtakes
  BY Steps
<1>4. work[w].rev \in Nat /\ work'[w].run \in Run
  BY <1>2 DEF ImportTypeOK, Works, Holds
<1>5. CASE work[w].at \in Holds /\ work'[w].run = work[w].run /\ work'[w].rev = work[w].rev
  <2>1. work[w].run \in Run /\ work[w].rev <= mail.rev
    BY <1>4, <1>5 DEF Pinned
  <2>2. CASE w \in overtaken
    <3>1. work[w].run \in Run /\ (run[work[w].run].lease # w \/ work[w].rev < mail.rev)
      BY <1>5, <2>1, <2>2 DEF Pinned
    <3>2. run[work[w].run].lease # w => run'[work[w].run].lease # w
      BY <1>5, <2>1, LeaseStep, ImportAssumption DEF Holds
    <3>3. QED BY <1>1, <1>4, <1>5, <2>1, <3>1, <3>2
  <2>3. CASE w \notin overtaken /\ w \in overtaken'
    <3>1. \/ run'[work[w].run].status # run[work[w].run].status
          \/ run'[work[w].run].lease \notin {w, None}
          \/ mail'.rev # mail.rev
      BY <1>3, <2>3 DEF Overtakes
    <3>2. run'[work[w].run].status # run[work[w].run].status => run'[work[w].run].lease # w
      BY <2>1, LeaseStep, ImportAssumption
    <3>3. mail'.rev # mail.rev => work[w].rev < mail'.rev
      BY <1>1, <1>4, <2>1
    <3>4. QED BY <1>1, <1>4, <1>5, <2>1, <3>1, <3>2, <3>3
  <2>4. QED BY <1>1, <1>4, <1>5, <2>1, <2>2, <2>3
<1>6. CASE work[w].at = "idle" /\ work[w].run = None /\ work'[w].rev = mail.rev
  BY <1>1, <1>3, <1>6 DEF Overtakes, Pinned
<1>7. QED BY <1>2, <1>5, <1>6, HoldStep

\* Nobody else moves the threads and the cursor of a leased run.
LEMMA HoldingStep ==
  ASSUME TypeOK, ImportTypeOK, ImportTypeOK', Aimed, Holding, Next
  PROVE  Holding'
<1>1. SUFFICES ASSUME NEW w \in Caller, work'[w].at \in Holds, run'[work'[w].run].lease = w
      PROVE  /\ work'[w].step = "fetch_thread" =>
                  run'[work'[w].run].thread[work'[w].thread] = "pending"
             /\ work'[w].at = "completing" => run'[work'[w].run].page > Len(Pages)
             /\ work'[w].at = "completing" <=> work'[w].step = "complete_run"
  BY DEF Holding, Enumerated
<1>2. run \in [Run -> Runs] /\ work'[w].run \in Run /\ w # None
  BY <1>1, ImportAssumption DEF ImportTypeOK, Works, Holds
<1>3. CASE work[w].at \in Holds /\ work'[w].run = work[w].run /\ work'[w].step = work[w].step
           /\ work'[w].thread = work[w].thread
           /\ (work'[w].at = "completing" <=> work[w].at = "completing")
  <2> DEFINE r == work[w].run
  <2>1. r \in Run /\ run[r] \in Runs /\ run'[r].lease = w /\ work[w].at # "idle" /\ RunMoves(r)
    BY <1>1, <1>2, <1>3, RunStep DEF Holds
  <2>2. run'[r].lease # None /\ run[r].lease = w
    BY <1>2, <2>1, LeaseStep
  <2>3. run'[r].thread = run[r].thread /\ run'[r].page = run[r].page
    <3>1. ASSUME NEW s, run'[r] = Stopped(run[r], s) PROVE FALSE
      BY <2>1, <2>2, <3>1 DEF Stopped, Runs
    <3>2. ASSUME NEW c \in Caller, Stores(c, r) PROVE FALSE
      BY <2>1, <2>2, <3>2 DEF Stores, Listed, ThreadIs, Failed, Runs
    <3>3. QED BY <2>1, <2>2, <3>1, <3>2, ResumeLeaves DEF RunMoves, Ends, Runs
  <2>4. QED BY <1>3, <2>1, <2>2, <2>3 DEF Holding, Enumerated
<1>4. CASE /\ work'[w].at = "completing" <=> work'[w].step = "complete_run"
           /\ run' = [run EXCEPT ![work'[w].run].lease = w]
           /\ work'[w].step = "fetch_thread" =>
                 run[work'[w].run].thread[work'[w].thread] = "pending"
           /\ work'[w].at = "completing" => Enumerated(work'[w].run)
  <2>1. run'[work'[w].run].thread = run[work'[w].run].thread
        /\ run'[work'[w].run].page = run[work'[w].run].page
    BY <1>2, <1>4 DEF Runs
  <2>2. QED BY <1>4, <2>1 DEF Enumerated
<1>5. QED BY <1>1, <1>3, <1>4, HoldStep

\* What the rows of a run say is so: pages that were read have no thread unseen, an
\* imported thread is stored, and a thread that failed too often says so.
Progress ==
  \A r \in Run :
    /\ \A i \in DOMAIN Pages : i < run[r].page => \A t \in Pages[i] : run[r].thread[t] # "unseen"
    /\ \A t \in Thread :
         /\ run[r].thread[t] = "complete" => t \in raw
         /\ run[r].thread[t] \in {"unseen", "pending", "gone"} => run[r].failures[t] < MaxAttempts

\* The rows of a run keep saying what is so.
LEMMA ProgressStep ==
  ASSUME TypeOK, ImportTypeOK, ImportTypeOK', Aimed, Holding, Progress, Next
  PROVE  Progress'
<1>1. SUFFICES ASSUME NEW r \in Run
      PROVE  /\ \A i \in DOMAIN Pages : i < run'[r].page =>
                   \A t \in Pages[i] : run'[r].thread[t] # "unseen"
             /\ \A t \in Thread :
                  /\ run'[r].thread[t] = "complete" => t \in raw'
                  /\ run'[r].thread[t] \in {"unseen", "pending", "gone"} =>
                       run'[r].failures[t] < MaxAttempts
  BY DEF Progress
<1> DEFINE Goal == /\ \A i \in DOMAIN Pages : i < run'[r].page =>
                         \A t \in Pages[i] : run'[r].thread[t] # "unseen"
                   /\ \A t \in Thread :
                        /\ run'[r].thread[t] = "complete" => t \in raw'
                        /\ run'[r].thread[t] \in {"unseen", "pending", "gone"} =>
                             run'[r].failures[t] < MaxAttempts
<1> SUFFICES Goal OBVIOUS
<1>2. run[r] \in Runs /\ RunMoves(r) /\ raw \subseteq raw'
  BY RunStep, RawStep DEF ImportTypeOK
<1>3. /\ \A i \in DOMAIN Pages : i < run[r].page => \A t \in Pages[i] : run[r].thread[t] # "unseen"
      /\ \A t \in Thread :
           /\ run[r].thread[t] = "complete" => t \in raw
           /\ run[r].thread[t] \in {"unseen", "pending", "gone"} => run[r].failures[t] < MaxAttempts
  BY DEF Progress
<1>4. \A i \in DOMAIN Pages : i \in Nat /\ Pages[i] \subseteq Thread
  BY ImportAssumption
<1>5. CASE run'[r].thread = run[r].thread /\ run'[r].page = run[r].page
           /\ run'[r].failures = run[r].failures
  BY <1>2, <1>3, <1>5
<1>6. ASSUME NEW s, run'[r] = Stopped(run[r], s) PROVE Goal
  BY <1>2, <1>5, <1>6 DEF Stopped, Runs
<1>7. ASSUME NEW w \in Caller, Stores(w, r) PROVE Goal
  <2>1. CASE run[r].page = work[w].page /\ run'[r] = Listed(run[r], work[w].page)
    <3>1. /\ run'[r].page = run[r].page + 1 /\ run'[r].failures = run[r].failures
          /\ \A t \in Thread : run'[r].thread[t] =
                IF t \in Pages[run[r].page] /\ run[r].thread[t] = "unseen" THEN "pending"
                ELSE run[r].thread[t]
      BY <1>2, <2>1 DEF Listed, Runs
    <3>2. run[r].page \in Nat
      BY <1>2 DEF Runs
    <3>3. \A i \in DOMAIN Pages : i < run'[r].page => i < run[r].page \/ i = run[r].page
      BY <1>4, <3>1, <3>2
    <3>4. ASSUME NEW i \in DOMAIN Pages, i < run'[r].page, NEW t \in Pages[i]
          PROVE  run'[r].thread[t] # "unseen"
      BY <1>3, <1>4, <3>1, <3>3, <3>4
    <3>5. \A t \in Thread : /\ run'[r].thread[t] = "complete" => t \in raw'
                            /\ run'[r].thread[t] \in {"unseen", "pending", "gone"} =>
                                 run'[r].failures[t] < MaxAttempts
      BY <1>2, <1>3, <3>1
    <3>6. QED BY <3>4, <3>5
  <2>2. CASE work[w].step = "fetch_thread"
    <3> DEFINE u == work[w].thread
    <3>1. /\ u \in Thread /\ run[r].thread[u] = "pending" /\ run[r].failures[u] < MaxAttempts
          /\ work[w].run = r
      <4>1. u \in Thread /\ work[w].at \in Holds /\ work[w].run = r
        BY <1>7, <2>2 DEF Stores, Aimed, ImportTypeOK, Works, Holds
      <4>2. run[r].lease = w
        BY <1>7, <4>1, GuardOk DEF Stores
      <4>3. run[r].thread[u] = "pending"
        BY <2>2, <4>1, <4>2 DEF Holding
      <4>4. QED BY <1>3, <4>1, <4>3
    <3>2. ASSUME NEW s \in {"complete", "filtered_out", "gone"}, run'[r] = ThreadIs(run[r], u, s),
                 s = "complete" => u \in raw'
          PROVE  Goal
      <4>1. /\ run'[r].page = run[r].page /\ run'[r].failures = run[r].failures
            /\ \A t \in Thread : run'[r].thread[t] = IF t = u THEN s ELSE run[r].thread[t]
        BY <1>2, <3>2 DEF ThreadIs, Runs
      <4>2. QED BY <1>2, <1>3, <1>4, <3>1, <3>2, <4>1
    <3>3. ASSUME NEW last \in BOOLEAN, run'[r] = Failed(run[r], u, last),
                 ~last => run[r].failures[u] + 1 < MaxAttempts
          PROVE  Goal
      <4>1. /\ run'[r].page = run[r].page
            /\ \A t \in Thread :
                 /\ run'[r].failures[t] = IF t = u THEN run[r].failures[t] + 1 ELSE run[r].failures[t]
                 /\ run'[r].thread[t] = IF t = u THEN IF last THEN "failed" ELSE "pending"
                                        ELSE run[r].thread[t]
        BY <1>2, <3>3 DEF Failed, Runs
      <4>2. QED BY <1>2, <1>3, <1>4, <3>1, <3>3, <4>1
    <3>4. QED BY <1>7, <2>2, <3>2, <3>3 DEF Stores
  <2>3. ASSUME NEW last \in BOOLEAN,
             run'[r] = [run[r] EXCEPT !.tries = @ + 1, !.later = ~last, !.lease = None,
                                      !.status = IF last THEN "failed" ELSE @]
        PROVE Goal
    BY <1>2, <1>5, <2>3 DEF Runs
  <2>4. QED BY <1>7, <2>1, <2>2, <2>3 DEF Stores
<1>8. QED BY <1>2, <1>5, <1>6, <1>7, ResumeLeaves DEF RunMoves, Ends, Runs

\* A run ends as completed only when all of its threads are settled.
LEMMA CompleteStep ==
  ASSUME TypeOK, ImportTypeOK, ImportTypeOK', Aimed, Holding, Progress, CompleteIsTrue, Next
  PROVE  CompleteIsTrue'
<1>1. SUFFICES ASSUME NEW r \in Run, run'[r].status = "completed"
      PROVE  /\ run'[r].page > Len(Pages)
             /\ \A i \in DOMAIN Pages : \A t \in Pages[i] :
                  \/ run'[r].thread[t] = "complete" /\ t \in raw'
                  \/ run'[r].thread[t] = "gone" /\ run'[r].failures[t] < MaxAttempts
                  \/ run'[r].thread[t] = "filtered_out"
  BY DEF CompleteIsTrue, Enumerated
<1>2. run[r] \in Runs /\ RunMoves(r) /\ raw \subseteq raw'
  BY RunStep, RawStep DEF ImportTypeOK
<1>3. CASE run[r].status = "completed"
  <2>1. run'[r].thread = run[r].thread /\ run'[r].page = run[r].page
        /\ run'[r].failures = run[r].failures
    <3>1. ASSUME NEW w \in Caller, Stores(w, r) PROVE FALSE
      BY <1>3, <3>1, GuardOk DEF Stores
    <3>2. ~Ends(r)
      BY <1>3 DEF Ends, Active
    <3>3. QED BY <1>2, <3>1, <3>2, ResumeLeaves DEF RunMoves, Runs
  <2>2. QED BY <1>2, <1>3, <2>1 DEF CompleteIsTrue, Enumerated
<1>4. CASE run[r].status # "completed"
  <2>1. Ends(r)
    <3>1. ASSUME NEW w \in Caller, Stores(w, r) PROVE FALSE
      BY <1>1, <1>2, <1>4, <3>1 DEF Stores, Listed, ThreadIs, Failed, Runs
    <3>2. QED BY <1>1, <1>2, <1>4, <3>1, ResumeLeaves DEF RunMoves, Runs
  <2>2. /\ run'[r] = Stopped(run[r], "completed") /\ Pending(r) = {}
        /\ \A t \in Thread : run[r].thread[t] # "failed"
        /\ \E w \in Caller : work[w].at = "completing" /\ work[w].run = r /\ run[r].lease = w
    <3>1. PICK s \in (Active \cup Terminal) \ {"runnable"} :
               /\ run'[r] = Stopped(run[r], s)
               /\ s = "completed" =>
                    /\ Pending(r) = {} /\ \A t \in Thread : run[r].thread[t] # "failed"
                    /\ \E w \in Caller : work[w].at = "completing" /\ work[w].run = r /\ run[r].lease = w
      BY <2>1 DEF Ends
    <3>2. s = "completed"
      BY <1>1, <1>2, <3>1 DEF Stopped, Runs
    <3>3. QED BY <3>1, <3>2
  <2>3. run'[r].thread = run[r].thread /\ run'[r].page = run[r].page
        /\ run'[r].failures = run[r].failures
    BY <1>2, <2>2 DEF Stopped, Runs
  <2>4. run[r].page > Len(Pages) /\ Len(Pages) \in Nat /\ run[r].page \in Nat
    BY <1>2, <2>2, ImportAssumption DEF Holding, Enumerated, Holds, Runs
  <2>5. ASSUME NEW i \in DOMAIN Pages, NEW t \in Pages[i]
        PROVE  /\ t \in Thread /\ i < run[r].page
    BY <2>4, ImportAssumption
  <2>6. ASSUME NEW t \in Thread PROVE run[r].thread[t] \notin {"pending", "failed"}
    BY <2>2 DEF Pending
  <2>7. ASSUME NEW t \in Thread PROVE run[r].thread[t] \in
          {"unseen", "pending", "complete", "filtered_out", "gone", "failed"}
    BY <1>2 DEF Runs
  <2>8. QED BY <1>2, <2>3, <2>4, <2>5, <2>6, <2>7 DEF Progress
<1>5. QED BY <1>3, <1>4

\* The inductive invariant of the import, next to that of the connection.
ImportInv ==
  /\ ImportTypeOK /\ Aimed /\ BlockedMail /\ RunsFollowMailbox
  /\ Pinned /\ Holding /\ Progress /\ CompleteIsTrue

\* A mailbox that works is there, and no run has begun.
LEMMA InitImport == Init => ImportInv
<1> SUFFICES ASSUME Init PROVE ImportInv
  OBVIOUS
<1>1. /\ \A w \in Caller : /\ work[w].at = "idle" /\ work[w].run = None /\ work[w].step = "none"
      /\ \A r \in Run : /\ run[r].status = "none" /\ run[r].page = 1 /\ run[r].lease = None
                        /\ ~run[r].resumes
                        /\ \A t \in Thread : run[r].thread[t] = "unseen" /\ run[r].failures[t] = 0
      /\ blocked = FALSE /\ overtaken = {} /\ raw = {}
  BY DEF Init, ConnInit, Idle
<1>2. ImportTypeOK
  <2>1. run \in [Run -> Runs]
    BY DEF Init, Runs, Active, Terminal
  <2>2. work \in [Caller -> Works]
    BY DEF Init, Works, Idle
  <2>3. QED BY <1>1, <2>1, <2>2, ImportAssumption DEF ImportTypeOK
<1>3. Aimed /\ BlockedMail /\ Pinned /\ Holding
  BY <1>1 DEF Aimed, BlockedMail, Pinned, Holding, Holds
<1>4. Progress
  <2>1. MaxAttempts > 0 /\ \A i \in DOMAIN Pages : ~(i < 1)
    BY ImportAssumption
  <2>2. QED BY <1>1, <2>1 DEF Progress
<1>5. RunsFollowMailbox /\ CompleteIsTrue
  BY <1>1 DEF RunsFollowMailbox, CompleteIsTrue, Active
<1>6. QED BY <1>2, <1>3, <1>4, <1>5 DEF ImportInv

\* A step that changes nothing keeps it.
LEMMA StillImport == ASSUME ImportInv, UNCHANGED vars PROVE ImportInv'
<1>1. ImportTypeOK' /\ Aimed'
  BY DEF ImportInv, vars, ImportTypeOK, Aimed
<1>2. BlockedMail' /\ RunsFollowMailbox'
  BY DEF ImportInv, vars, BlockedMail, RunsFollowMailbox
<1>3. Pinned' /\ Holding'
  BY DEF ImportInv, vars, Pinned, Holding, Enumerated
<1>4. Progress' /\ CompleteIsTrue'
  BY DEF ImportInv, vars, Progress, CompleteIsTrue, Enumerated
<1>5. QED BY <1>1, <1>2, <1>3, <1>4 DEF ImportInv

\* The invariant holds in every state of every import.
THEOREM ImportInvariant == Spec => []ImportInv
<1>1. ASSUME IInv, IInv', ImportInv, [Next]_vars PROVE ImportInv'
  <2>1. TypeOK /\ TypeOK' /\ DisconnectStands
    BY <1>1 DEF IInv
  <2>2. CASE UNCHANGED vars
    BY <1>1, <2>2, StillImport
  <2>3. CASE Next
    <3>1. ImportTypeOK' /\ Aimed'
      BY <1>1, <2>1, <2>3, ImportTypeStep, AimedStep DEF ImportInv
    <3>2. BlockedMail' /\ RunsFollowMailbox'
      BY <1>1, <2>1, <2>3, FollowStep DEF ImportInv
    <3>3. Pinned' /\ Holding'
      BY <1>1, <2>1, <2>3, <3>1, PinnedStep, HoldingStep DEF ImportInv
    <3>4. Progress' /\ CompleteIsTrue'
      BY <1>1, <2>1, <2>3, <3>1, ProgressStep, CompleteStep DEF ImportInv
    <3>5. QED BY <3>1, <3>2, <3>3, <3>4 DEF ImportInv
  <2>4. QED BY <1>1, <2>2, <2>3
<1>2. QED BY <1>1, InitImport, ImplementsConnection, ConnectionInvariant, PTL DEF Spec

\* The rows of the runs and what the workers remember have their types, and a run has a
\* lease only while it goes on.
THEOREM ImportTypes == Spec => []ImportTypeOK
BY ImportInvariant, PTL DEF ImportInv

\* No run is leased in a mailbox that does not work, and none goes on or waits in one
\* that is being disconnected or closed, whatever a resume has read before it moved.
THEOREM RunsFollow == Spec => []RunsFollowMailbox
BY ImportInvariant, PTL DEF ImportInv

\* A run that says completed has imported what the mailbox lists.
THEOREM CompletionsAreTrue == Spec => []CompleteIsTrue
BY ImportInvariant, PTL DEF ImportInv

\* A worker whose claim was overtaken stores nothing and does not go to Gmail.
THEOREM OvertakenDoNothing == Spec => OvertakenDoesNothing
<1> DEFINE Goal == \A w \in overtaken :
       /\ ~(work[w].at = "ready" /\ work'[w].at = "reading")
       /\ work[w].at \in {"reading", "completing"} /\ work'[w].at = "idle"
            => /\ raw' = raw
               /\ \A r \in Run : /\ run'[r].thread = run[r].thread
                                 /\ run'[r].page = run[r].page
                                 /\ run'[r].tries = run[r].tries
                                 /\ run'[r].status = run[r].status
<1>1. ASSUME IInv, ImportInv, [Next]_vars PROVE [Goal]_vars
  <2>1. CASE UNCHANGED vars
    BY <2>1
  <2>2. ASSUME Next, NEW w \in overtaken,
               work[w].at = "ready" /\ work'[w].at = "reading"
        PROVE  FALSE
    <3>1. w \in Caller /\ work \in [Caller -> Works] /\ WorkMoves
      BY <1>1, <2>2, WorkStep DEF IInv, ImportInv, ImportTypeOK
    <3>2. Guard(w) = "ok"
      BY <2>2, <3>1 DEF WorkMoves, Asks
    <3>3. QED BY <1>1, <2>2, <3>1, <3>2, GuardOk DEF ImportInv, Pinned, Holds, IInv, TypeOK,
        Mails
  <2>3. ASSUME Next, NEW w \in overtaken,
               work[w].at \in {"reading", "completing"}, work'[w].at = "idle"
        PROVE  /\ raw' = raw
               /\ \A r \in Run : /\ run'[r].thread = run[r].thread
                                 /\ run'[r].page = run[r].page
                                 /\ run'[r].tries = run[r].tries
                                 /\ run'[r].status = run[r].status
    <3>1. /\ w \in Caller /\ work \in [Caller -> Works] /\ run \in [Run -> Runs]
          /\ work[w].run \in Run
      BY <1>1, <2>3 DEF ImportInv, ImportTypeOK, Works
    <3>2. Guard(w) # "ok"
      BY <1>1, <2>3, <3>1, GuardOk DEF ImportInv, Pinned, Holds, IInv, TypeOK, Mails
    <3>3. CASE Refused(w) \/ Dies(w)
      <4>1. raw' = raw /\ (run' = run \/ run' = [run EXCEPT ![work[w].run].lease = None])
        BY <3>3 DEF Refused, Dies
      <4>2. \A q \in Run : run[q] \in Runs
        BY <3>1
      <4>3. ASSUME run' = [run EXCEPT ![work[w].run].lease = None], NEW q \in Run
            PROVE  /\ run'[q].thread = run[q].thread /\ run'[q].page = run[q].page
                   /\ run'[q].tries = run[q].tries /\ run'[q].status = run[q].status
        BY <3>1, <4>2, <4>3 DEF Runs
      <4>4. QED BY <4>1, <4>3
    <3>4. CASE \/ \E exact \in BOOLEAN : CommitThread(w, exact)
               \/ CommitPage(w) \/ ThreadGone(w) \/ Complete(w)
               \/ \E retryable \in BOOLEAN : RetryPage(w, retryable) \/ RetryThread(w, retryable)
      BY <3>2, <3>4 DEF CommitThread, CommitPage, ThreadGone, Complete, RetryPage,
          RetryThread, Commits
    <3>5. ~Connection /\ \A r \in Run : ~(Start(r) \/ Resume(r) \/ LeaseExpires(r) \/ Ready(r))
      BY <2>3 DEF Connection, Start, Resume, ResumeReads, ResumeEnds, LeaseExpires, Ready
    <3>6. ASSUME NEW c \in Caller, NEW x, work' = [work EXCEPT ![c] = x] PROVE c = w
      BY <2>3, <3>1, <3>6
    <3>7. QED
      <4>1. PICK c \in Caller : Worker(c)
        BY <2>3, <3>5 DEF Next
      <4>2. c = w
        <5>1. \E x : work' = [work EXCEPT ![c] = x]
          BY <3>1, <4>1 DEF Worker, ClaimRefused, ClaimPage, ClaimCompletion, ClaimThread,
              Claim, TokenAnswer, Validate, Refused, CarryOut, CommitThread, CommitPage,
              ThreadGone, Complete, Dies, RetryPage, RetryThread, Commits, React
        <5>2. QED BY <3>6, <5>1
      <4>3. ~(TokenAnswer(w) \/ Validate(w) \/ CarryOut(w))
            /\ \A r \in Run : ~(ClaimRefused(w, r) \/ ClaimPage(w, r) \/ ClaimCompletion(w, r)
                                \/ \E t \in Thread : ClaimThread(w, r, t))
        BY <2>3 DEF TokenAnswer, Validate, CarryOut, ClaimRefused, ClaimPage, ClaimCompletion,
            ClaimThread, Claim
      <4>4. QED BY <3>3, <3>4, <4>1, <4>2, <4>3 DEF Worker
  <2>4. QED BY <1>1, <2>1, <2>2, <2>3
<1> HIDE DEF Goal
<1>2. QED BY <1>1, ImportInvariant, ImplementsConnection, ConnectionInvariant, PTL DEF Spec,
    OvertakenDoesNothing, Goal
==============================================================================
