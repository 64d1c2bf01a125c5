-------------------------- MODULE HunterProperties --------------------------
(***************************************************************************)
(* What the contact lookups promise.                                       *)
(***************************************************************************)
EXTENDS HunterLookup

\* The tables keep their shape, and no bucket is used above its cap (0095, table check).
TypeOK ==
  /\ row \in [Key -> [status : {"none", "pending", "found", "not_found", "unverified"},
                      webmail : BOOLEAN, stale : BOOLEAN]]
  /\ budget \in [Months -> [Bucket -> [used : 0..Cap, exhausted : BOOLEAN]]]
  /\ month \in Months
  /\ caller \in [Caller -> [key : Key \cup {None}, todo : Seq(Calls), held : [Bucket -> Int]]]
  /\ counted \in [Months -> [Bucket -> Nat]]

\* What all callers together hold of a bucket.
HeldByAll(b) == MapThenSumSet(LAMBDA c : caller[c].held[b], Caller)

\* Within one month the bucket covers what Hunter counted and what callers may still
\* spend, whatever calls fail and whoever dies (findWithHunter, releaseBudget).
NeverUndercounts ==
  \A b \in Bucket : counted[month][b] + HeldByAll(b) <= budget[month][b].used

Slack(b) == budget[month][b].used - counted[month][b] - HeldByAll(b)
MayFail(c) == caller[c].todo # <<>> /\ Head(caller[c].todo)[1] \in {"reserve", "release", "exhaust"}

\* No credit is lost without a failure: an open bucket drifts away from what Hunter
\* counted and what callers hold only when one of them dies or a budget call of its
\* fails, and then upwards (findWithHunter gives back whatever it gave up).
LostByFailure ==
  [][\A b \in Bucket :
       ~budget'[month][b].exhausted /\ Slack(b)' # Slack(b) =>
         /\ Slack(b)' > Slack(b)
         /\ \E c \in Caller : Killed(c) \/ (Lossy /\ MayFail(c) /\ caller'[c] # caller[c])]_vars

\* A caller from its claim to the answer of its search, or to giving up.
Owns(c) == caller[c].todo # <<>> /\ Last(caller[c].todo) \in {Ask("search"), Abandon}

\* Nobody searches for a domain that somebody else searches for, or that has an answer:
\* one search per lookup row (claim_contact_provider_lookup).
SearchOwnsClaim ==
  \A c \in Caller : Owns(c) =>
    /\ row[caller[c].key].status = "pending"
    /\ \A d \in Caller : Owns(d) /\ caller[d].key = caller[c].key => d = c

\* A stored found or not_found stays, and a candidate is never searched for again, also
\* when a caller outlives its claim (complete and abandon look at the status).
StoredAnswerStays ==
  [][\A k \in Key :
       /\ row[k].status \in {"found", "not_found"} => row'[k] = row[k]
       /\ row[k].status = "unverified" => row'[k].status \notin {"none", "pending"}]_vars

\* 0095: Each bucket stops at 50.  Hunter counts no more than that in one month.
FailsClosed == \A m \in Months, b \in Bucket : counted[m][b] <= Cap
=============================================================================
