---------------------------- MODULE HunterLookup ----------------------------
(***************************************************************************)
(* Contact lookups at Hunter: the lookup rows, the two monthly buckets,    *)
(* the callers of findWithHunter, and what Hunter counts.                  *)
(*                                                                         *)
(* Each SQL function is one step: it holds an advisory lock on the lookup  *)
(* key or on the month.  Between two calls a caller may be overtaken or    *)
(* die; a call may fail before it reaches the database, or after.          *)
(*                                                                         *)
(* A caller is what it still has to do: the calls that remain, in order,   *)
(* as pairs of a verb and its object.  The lookup is by domain; the unlock *)
(* names no person, so that Email Finder never runs.                       *)
(***************************************************************************)
EXTENDS Integers, Sequences, FiniteSets, FiniteSetsExt, SequencesExt

CONSTANTS
  Caller, Key,   \* server actions that look up, and domains
  None,          \* no domain
  Cap,           \* 50 of each bucket in a UTC month
  Headroom,      \* verifications reserved before a search (10)
  Returned,      \* how many verifications Hunter may count for one search
  MaxMonth,      \* bound: months that begin
  Lossy, Killable,   \* whether calls fail, and whether callers die
  Slow           \* whether a caller may outlive the two minutes of its claim

ASSUME HunterAssumption ==
  /\ None \notin Key
  /\ Cap \in Nat \ {0} /\ Headroom \in Nat /\ MaxMonth \in Nat \ {0}
  /\ Returned \subseteq Nat
  /\ {Lossy, Killable, Slow} \subseteq BOOLEAN
  /\ IsFiniteSet(Caller)

Bucket == {"search", "verification"}
Months == 1..MaxMonth

Answers == {"found", "not_found", "unverified", "webmail"}
Verdicts == {"empty", "none", "valid", "webmail", "unsure"}

Calls == ({"reserve", "cover", "release", "exhaust"} \X Bucket)
           \cup ({"ask"} \X {"search", "verifier"})
           \cup ({"complete"} \X Answers) \cup {<<"abandon", "claim">>}

Reserve(b) == <<"reserve", b>>
Release(b) == <<"release", b>>
Exhaust(b) == <<"exhaust", b>>
Ask(what) == <<"ask", what>>
Complete(answer) == <<"complete", answer>>
Abandon == <<"abandon", "claim">>
Cover == <<"cover", "verification">>   \* the reserve of a verification already counted

Times(n, call) == [i \in 1..n |-> call]

VARIABLES
  row,      \* contact_provider_lookups, by cache key
  budget,   \* contact_provider_budget, by month and bucket
  month,    \* the current UTC month
  caller,   \* the callers: their key, the calls that remain, what they hold of each bucket
  counted   \* Hunter's own account: what it counted, by month and bucket

vars == <<row, budget, month, caller, counted>>

NoRow == [status |-> "none", webmail |-> FALSE, stale |-> FALSE]
Pending == [NoRow EXCEPT !.status = "pending"]
NoneHeld == [b \in Bucket |-> 0]
Idle == [key |-> None, todo |-> <<>>, held |-> NoneHeld]

Init ==
  /\ row = [k \in Key |-> NoRow]
  /\ budget = [m \in Months |-> [b \in Bucket |-> [used |-> 0, exhausted |-> FALSE]]]
  /\ month = 1
  /\ caller = [c \in Caller |-> Idle]
  /\ counted = [m \in Months |-> NoneHeld]

-----------------------------------------------------------------------------
(* The SQL functions, on the row they lock.                                *)

\* Fault: a bucket is full only above its cap.
BudgetFullLate(r) == r.exhausted \/ r.used > Cap
BudgetFull(r) == r.exhausted \/ r.used >= Cap
Reserved(r) == [r EXCEPT !.used = @ + 1]
Released(r) == IF r.used > 0 /\ ~r.exhausted THEN [r EXCEPT !.used = @ - 1] ELSE r
Exhausted(r) == [r EXCEPT !.exhausted = TRUE]

\* Fault: a fresh claim of another caller is taken over.
ClaimableFresh(r) == r.status \in {"none", "pending"}
\* The claim is this caller's: no row, or a pending row older than two minutes.
Claimable(r) == r.status = "none" \/ (r.status = "pending" /\ r.stale)

Answered(answer) == [status |-> IF answer = "webmail" THEN "unverified" ELSE answer,
                     webmail |-> answer = "webmail", stale |-> FALSE]
\* Fault: an answer is stored over any row.
CompletedAlways(r, answer) == IF r.status = "none" THEN r ELSE Answered(answer)
Completed(r, answer) ==
  IF r.status \in {"pending", "unverified"} THEN Answered(answer) ELSE r

Abandoned(r) == IF r.status = "pending" THEN NoRow ELSE r

-----------------------------------------------------------------------------
(* The calls a caller decides on.                                          *)

ToSearch == <<Reserve("search")>> \o Times(Headroom, Reserve("verification"))
              \o <<Ask("search")>>
ToVerify == <<Complete("unverified"), Reserve("verification"), Ask("verifier")>>
ToResume(r) == IF r.webmail THEN <<Complete("webmail")>> ELSE ToVerify

Searching(todo) == todo # <<>> /\ Last(todo) = Ask("search")

Back(held, b) == Times(held[b], Release(b))
\* Fault: the search credit is not given back.
GiveUpKeepsSearch(held) == Back(held, "verification") \o <<Abandon>>
\* A reserve was refused or failed before the search.
GiveUp(held) == Back(held, "verification") \o Back(held, "search") \o <<Abandon>>
ReleaseOpen(held) == Back(held, "search") \o Back(held, "verification") \o <<Abandon>>

\* Fault: verifications that Hunter counted are given back as well.
UnspentAll(held, n) == held
Unspent(held, n) == IF n < held THEN held - n ELSE 0

\* What follows an answered search that cost n verifications.
Balance(held, n) == Times(Unspent(held, n), Release("verification"))
                      \o Times(IF n > held THEN n - held ELSE 0, Cover)

IsAfterCovers(todo, i) == todo[i] # Cover /\ \A j \in 1..(i - 1) : todo[j] = Cover

Follow(verdict) ==
  CASE verdict = "empty" -> <<Release("search"), Complete("not_found")>>
    [] verdict = "none" -> <<Complete("not_found")>>
    [] verdict = "valid" -> <<Complete("found")>>
    [] verdict = "webmail" -> <<Complete("webmail")>>
    [] verdict = "unsure" -> ToVerify

-----------------------------------------------------------------------------
Does(c, call) == caller[c].todo # <<>> /\ Head(caller[c].todo) = call
Rest(c) == Tail(caller[c].todo)
Held(c, b) == caller[c].held[b]

Goes(c, todo, held) ==
  caller' = [caller EXCEPT ![c] = IF todo = <<>> THEN Idle
                                  ELSE [key |-> @.key, todo |-> todo, held |-> held]]
Keeps(c, todo) == Goes(c, todo, caller[c].held)
Has(c, b, n) == [caller[c].held EXCEPT ![b] = n]

Now(b) == budget[month][b]
Budget(b, r) == budget' = [budget EXCEPT ![month][b] = r]
Counts(b, n) == counted' = [counted EXCEPT ![month][b] = @ + n]

Hit(c, k) ==
  /\ caller[c] = Idle
  /\ ~Claimable(row[k]) /\ row[k].status # "unverified"
  /\ UNCHANGED vars

Resume(c, k) ==
  /\ caller[c] = Idle
  /\ row[k].status = "unverified"
  /\ caller' = [caller EXCEPT ![c] = [key |-> k, todo |-> ToResume(row[k]), held |-> NoneHeld]]
  /\ UNCHANGED <<row, budget, month, counted>>

\* An answer that is lost leaves a pending row of nobody.
Claim(c, k) ==
  /\ caller[c] = Idle
  /\ Claimable(row[k])
  /\ row' = [row EXCEPT ![k] = Pending]
  /\ \/ caller' = [caller EXCEPT ![c] = [key |-> k, todo |-> ToSearch, held |-> NoneHeld]]
     \/ Lossy /\ UNCHANGED caller
  /\ UNCHANGED <<budget, month, counted>>

\* How a reserve that did not succeed ends: before the search the claim is undone,
\* before a verification the lookup stops.
Refused(c) == IF Searching(caller[c].todo) THEN Keeps(c, GiveUp(caller[c].held))
              ELSE Keeps(c, <<>>)

ReserveOk(c, b) ==
  /\ Does(c, Reserve(b))
  /\ ~BudgetFull(Now(b))
  /\ Budget(b, Reserved(Now(b)))
  /\ Goes(c, Rest(c), Has(c, b, Held(c, b) + 1))
  /\ UNCHANGED <<row, month, counted>>

ReserveRefused(c, b) ==
  /\ Does(c, Reserve(b))
  /\ BudgetFull(Now(b)) \/ Lossy
  /\ UNCHANGED budget
  /\ Refused(c)
  /\ UNCHANGED <<row, month, counted>>

\* Applied, but the answer is lost: the caller takes the credit for not reserved.
ReserveUnheard(c, b) ==
  /\ Lossy
  /\ Does(c, Reserve(b))
  /\ ~BudgetFull(Now(b))
  /\ Budget(b, Reserved(Now(b)))
  /\ Refused(c)
  /\ UNCHANGED <<row, month, counted>>

\* Verifications beyond the headroom are reserved after the fact.  When one cannot
\* be, those that could are released and the bucket is exhausted.
CoverOk(c) ==
  /\ Does(c, Cover)
  /\ ~BudgetFull(Now("verification"))
  /\ Budget("verification", Reserved(Now("verification")))
  /\ Goes(c, Rest(c), Has(c, "verification",
          IF Cover \in Range(Rest(c)) THEN Held(c, "verification") + 1 ELSE 0))
  /\ UNCHANGED <<row, month, counted>>

CoverRefused(c) ==
  /\ Does(c, Cover)
  /\ BudgetFull(Now("verification")) \/ Lossy
  /\ \/ UNCHANGED budget
     \/ Lossy /\ ~BudgetFull(Now("verification")) /\ Budget("verification", Reserved(Now("verification")))
  /\ \E i \in 1..Len(caller[c].todo) :
       /\ IsAfterCovers(caller[c].todo, i)
       /\ Keeps(c, Back(caller[c].held, "verification") \o <<Exhaust("verification")>>
                     \o SubSeq(caller[c].todo, i, Len(caller[c].todo)))
  /\ UNCHANGED <<row, month, counted>>

\* Failures of a release, of an exhaust and of an abandon are swallowed.
ReleaseOne(c, b) ==
  /\ Does(c, Release(b))
  /\ Budget(b, Released(Now(b))) \/ (Lossy /\ UNCHANGED budget)
  /\ Goes(c, Rest(c), Has(c, b, Held(c, b) - 1))
  /\ UNCHANGED <<row, month, counted>>

ExhaustOne(c, b) ==
  /\ Does(c, Exhaust(b))
  /\ Budget(b, Exhausted(Now(b))) \/ (Lossy /\ UNCHANGED budget)
  /\ Goes(c, Rest(c), Has(c, b, 0))
  /\ UNCHANGED <<row, month, counted>>

AbandonClaim(c) ==
  /\ Does(c, Abandon)
  /\ \/ row' = [row EXCEPT ![caller[c].key] = Abandoned(@)]
     \/ Lossy /\ UNCHANGED row
  /\ Keeps(c, Rest(c))
  /\ UNCHANGED <<budget, month, counted>>

\* A failed complete is thrown to the action: the lookup stops where it is.
CompleteLookup(c, answer) ==
  /\ Does(c, Complete(answer))
  /\ \/ /\ row' = [row EXCEPT ![caller[c].key] = Completed(@, answer)]
        /\ Keeps(c, Rest(c)) \/ (Lossy /\ Keeps(c, <<>>))
     \/ Lossy /\ UNCHANGED row /\ Keeps(c, <<>>)
  /\ UNCHANGED <<budget, month, counted>>

-----------------------------------------------------------------------------
(* Hunter.  It counts a search that returned an address, the verifications *)
(* in it, and a verifier call that it answered.                            *)

\* No answer, 401, a short limit, any other status, or a body that is not understood.
SearchFails(c) ==
  /\ Does(c, Ask("search"))
  /\ Keeps(c, ReleaseOpen(caller[c].held))
  /\ UNCHANGED <<row, budget, month, counted>>

SearchQuota(c) ==
  /\ Does(c, Ask("search"))
  /\ Keeps(c, <<Exhaust("search")>> \o Back(caller[c].held, "verification") \o <<Abandon>>)
  /\ UNCHANGED <<row, budget, month, counted>>

\* Status 451.
SearchClaimed(c) ==
  /\ Does(c, Ask("search"))
  /\ Keeps(c, Back(caller[c].held, "search") \o Back(caller[c].held, "verification")
                \o <<Complete("not_found")>>)
  /\ UNCHANGED <<row, budget, month, counted>>

\* low: Hunter reports that fewer verifications remain than the next search needs.
SearchAnswered(c, n, low, verdict) ==
  /\ Does(c, Ask("search"))
  /\ verdict = "empty" => n = 0
  /\ counted' = [counted EXCEPT ![month] =
       [search |-> @["search"] + (IF verdict = "empty" THEN 0 ELSE 1),
        verification |-> @["verification"] + n]]
  /\ Goes(c, Balance(Held(c, "verification"), n)
               \o Times(IF low THEN 1 ELSE 0, Exhaust("verification")) \o Follow(verdict),
          [search |-> IF verdict = "empty" THEN Held(c, "search") ELSE 0,
           verification |-> Unspent(Held(c, "verification"), n)])
  /\ UNCHANGED <<row, budget, month>>

VerifierFails(c) ==
  /\ Does(c, Ask("verifier"))
  /\ Keeps(c, <<Release("verification")>>)
  /\ UNCHANGED <<row, budget, month, counted>>

VerifierQuota(c) ==
  /\ Does(c, Ask("verifier"))
  /\ Keeps(c, <<Exhaust("verification")>>)
  /\ UNCHANGED <<row, budget, month, counted>>

\* Still working after three calls, or unknown.
VerifierUndecided(c) ==
  /\ Does(c, Ask("verifier"))
  /\ Counts("verification", 1)
  /\ Goes(c, <<>>, NoneHeld)
  /\ UNCHANGED <<row, budget, month>>

\* valid, accept_all and the hotel's own webmail; invalid and 451; webmail elsewhere.
VerifierDecides(c, answer) ==
  /\ Does(c, Ask("verifier"))
  /\ Counts("verification", 1)
  /\ Goes(c, <<Complete(answer)>>, NoneHeld)
  /\ UNCHANGED <<row, budget, month>>

-----------------------------------------------------------------------------
\* A server action ends before its lookup does.
Killed(c) ==
  /\ Killable
  /\ caller[c] # Idle
  /\ caller' = [caller EXCEPT ![c] = Idle]
  /\ UNCHANGED <<row, budget, month, counted>>

\* Two minutes pass since the claim.
Age(k) ==
  /\ row[k].status = "pending" /\ ~row[k].stale
  /\ Slow \/ \A c \in Caller : caller[c].key # k
  /\ row' = [row EXCEPT ![k].stale = TRUE]
  /\ UNCHANGED <<budget, month, caller, counted>>

NextMonth ==
  /\ month < MaxMonth
  /\ month' = month + 1
  /\ UNCHANGED <<row, budget, caller, counted>>

Steps(c) ==
  \/ \E k \in Key : Hit(c, k) \/ Resume(c, k) \/ Claim(c, k)
  \/ \E b \in Bucket : ReserveOk(c, b) \/ ReserveRefused(c, b) \/ ReserveUnheard(c, b)
                         \/ ReleaseOne(c, b) \/ ExhaustOne(c, b)
  \/ CoverOk(c) \/ CoverRefused(c) \/ AbandonClaim(c)
  \/ \E answer \in Answers : CompleteLookup(c, answer)
  \/ SearchFails(c) \/ SearchQuota(c) \/ SearchClaimed(c)
  \/ \E n \in Returned, low \in BOOLEAN, verdict \in Verdicts :
       SearchAnswered(c, n, low, verdict)
  \/ VerifierFails(c) \/ VerifierQuota(c) \/ VerifierUndecided(c)
  \/ \E answer \in {"found", "not_found", "webmail"} : VerifierDecides(c, answer)
  \/ Killed(c)

Next == (\E c \in Caller : Steps(c)) \/ (\E k \in Key : Age(k)) \/ NextMonth

Spec == Init /\ [][Next]_vars
=============================================================================
