------------------------ MODULE GmailSyncProperties ------------------------
EXTENDS GmailSync

Ids == SUBSET (1..MaxMail)
Runs == [status : {"none"} \cup Active \cup Over, mode : {"history_list", "bounded_rescan"},
         start : 0..MaxMail, end : 0..MaxMail, latest : 0..MaxMail, page : 0..MaxMail,
         listed : BOOLEAN, known : BOOLEAN, withheld : BOOLEAN, lease : Worker \cup {None}]
Listings == [status : {"none", "pending", "complete", "filtered_out", "gone"},
             ids : Ids, sent : Ids, excluded : Ids]

\* Type invariant of the cursor, the run, its threads and the workers: a run has a lease
\* only while it goes on (0047).
TypeOK ==
  /\ mail \in [1..MaxMail -> [thread : Thread, sent : BOOLEAN]]
  /\ now \in 1..MaxMail /\ deleted \in Ids /\ raw \in Ids /\ late \in Ids
  /\ mailbox \in [state : {"connected", "reauth_required", "consent_required", "stopped"},
                  rev : 0..MaxRev]
  /\ cursor \in [history : 0..MaxMail, horizon : 0..MaxMail, pipeline : BOOLEAN,
                 lease : Worker \cup {None}]
  /\ run \in Runs /\ thread \in [Thread -> Listings]
  /\ observed \in [Thread -> 0..MaxMail] /\ covered \subseteq Thread /\ unseen \subseteq Thread
  /\ DOMAIN work = Worker
  /\ run.lease # None => run.status = "runnable"

\* What the rule of inclusion asks for: the creator's own mail, and what followed in
\* a thread into which a stored message of the creator went.
Wanted(i) == mail[i].sent \/ \E j \in raw : mail[j].sent /\ mail[j].thread = mail[i].thread /\ j < i

\* No later run stores mail from before the horizon, and replies are dated by what a
\* completed run has observed of their thread: all that was wanted of this is stored,
\* or the creator removed it, whichever runs expired, failed, were paused,
\* overtaken, or left the cursor where it was (0047:1831, 0101:1562, D076). Mail that
\* arrives between the last page of a list and its commit is the exception: the list
\* does not name it, and the commit takes its own clock for the end of the window.
PassedIsStored ==
  \A i \in 1..now :
    /\ i <= cursor.horizon /\ Wanted(i) => i \in raw \cup deleted \cup late
    /\ cursor.horizon < i /\ i <= observed[mail[i].thread] => i \in raw \cup deleted

\* The end of a run's window and its history id belong to one snapshot ("that same
\* clock", 0047:19): what arrives after the list lies beyond the window, where the next
\* run stores it.
LateIsStored ==
  \A i \in late : i <= cursor.horizon /\ Wanted(i) => i \in raw \cup deleted

\* When no pipeline is due, a pipeline has finished with every thread that a completed
\* run has covered: no end of a slow one hides the work of a later run (0047:1951,
\* 0047:2088).
PipelineSeesAll == ~cursor.pipeline => unseen = {}

\* "When the mailbox is connected again, a run paused for reauth or consent becomes
\* runnable." (D076)
ConnectedGoesOn == run.status \in Paused => mailbox.state # "connected"
=============================================================================
