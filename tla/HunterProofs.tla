---------------------------- MODULE HunterProofs ----------------------------
(***************************************************************************)
(* Proofs about the contact lookups: their types, that a domain is         *)
(* searched for by one caller at a time, that stored answers stay, and     *)
(* that a month's counter covers what Hunter counted and callers hold,     *)
(* with no more lost than what failures cost.                              *)
(*                                                                         *)
(* What remains for a caller has one of two shapes.  A caller that owns    *)
(* its claim has calls on the budget before it and then the search, or     *)
(* the abandon; any other caller has neither of these two.                 *)
(*                                                                         *)
(* For the counter, a caller's calls are also followed through what it     *)
(* holds while it makes them: each call finds the credits it spends or     *)
(* gives back among those the caller reserved and has not spent, and the   *)
(* last of them leaves nothing.                                            *)
(***************************************************************************)
EXTENDS
  HunterProperties, SequenceTheorems, FiniteSetTheorems, WellFoundedInduction, TLAPS

BudgetCalls == {"reserve", "release", "exhaust"} \X Bucket
OwnerCalls == {Ask("search"), Abandon}
OtherCalls == Calls \ OwnerCalls

OwnerTodo ==
  {t \in Seq(Calls) : \E s \in Seq(BudgetCalls), x \in OwnerCalls : t = s \o <<x>>}
OtherTodo == Seq(OtherCalls)

Works(c) == caller[c].todo # <<>>

Shaped ==
  \A c \in Caller :
    /\ caller[c].todo \in OwnerTodo \cup OtherTodo
    /\ caller[c].key = None => caller[c].todo = <<>>

\* When callers keep within the two minutes: while somebody works on a domain its row is
\* there; while the row is pending it is not given away, and that somebody is alone.
Alone == ~Slow =>
  \A c \in Caller : Works(c) =>
    /\ row[caller[c].key].status # "none"
    /\ row[caller[c].key].status = "pending" =>
         /\ ~row[caller[c].key].stale
         /\ \A d \in Caller : Works(d) /\ caller[d].key = caller[c].key => d = c
    /\ caller[c].todo \in OwnerTodo => row[caller[c].key].status = "pending"

IInv == TypeOK /\ Shaped /\ Alone

-----------------------------------------------------------------------------
(* Sequences of calls.                                                     *)

\* The calls are pairs of strings; those on the budget are neither search nor abandon.
LEMMA CallFacts ==
  /\ BudgetCalls \subseteq OtherCalls
  /\ OtherCalls \subseteq Calls /\ OwnerCalls \subseteq Calls
  /\ \A b \in Bucket : {Reserve(b), Release(b), Exhaust(b)} \subseteq BudgetCalls
  /\ Cover \in OtherCalls /\ Cover \notin BudgetCalls
  /\ Ask("verifier") \in OtherCalls
  /\ \A a \in Answers : Complete(a) \in OtherCalls
  /\ \A a \in Answers : Complete(a) \notin BudgetCalls
BY DEF BudgetCalls, OtherCalls, OwnerCalls, Calls, Reserve, Release, Exhaust, Cover, Ask,
       Complete, Abandon, Bucket, Answers

\* A call repeated is a sequence of such calls.
LEMMA TimesType ==
  ASSUME NEW S, NEW x \in S, NEW n \in Int
  PROVE  Times(n, x) \in Seq(S)
<1>1. CASE n \in Nat
  BY <1>1 DEF Times
<1>2. CASE n \notin Nat
  <2>1. 1..n = 1..0
    BY <1>2
  <2>2. Times(n, x) = [i \in 1..0 |-> x]
    BY <2>1 DEF Times
  <2>3. QED BY <2>2
<1>3. QED BY <1>1, <1>2

\* What is held of a bucket is given back by calls on the budget.
LEMMA BackType ==
  ASSUME NEW held \in [Bucket -> Int], NEW b \in Bucket
  PROVE  Back(held, b) \in Seq(BudgetCalls)
<1>1. Release(b) \in BudgetCalls
  BY CallFacts
<1>2. held[b] \in Int
  OBVIOUS
<1>3. QED BY <1>1, <1>2, TimesType DEF Back

\* One call is a sequence of calls.
LEMMA OneType == ASSUME NEW S, NEW x \in S PROVE <<x>> \in Seq(S)
OBVIOUS

\* Sequences of one set are sequences of a larger one.
LEMMA BudgetIsOther == Seq(BudgetCalls) \subseteq OtherTodo
BY CallFacts, SeqMonotonic DEF OtherTodo

\* Both shapes are sequences of calls.
LEMMA TodoType == OwnerTodo \cup OtherTodo \subseteq Seq(Calls)
BY CallFacts, SeqMonotonic DEF OtherTodo, OwnerTodo

\* Calls on the budget before the search or the abandon are an owner's.
LEMMA OwnerMake ==
  ASSUME NEW s \in Seq(BudgetCalls), NEW x \in OwnerCalls
  PROVE  s \o <<x>> \in OwnerTodo
<1>1. s \in Seq(Calls)
  BY BudgetIsOther, TodoType
<1>2. <<x>> \in Seq(Calls)
  BY CallFacts, OneType
<1>3. s \o <<x>> \in Seq(Calls)
  BY <1>1, <1>2, ConcatProperties
<1>4. QED BY <1>3 DEF OwnerTodo

\* An owner's last call is the search or the abandon, and nobody else's is.
LEMMA LastTells ==
  /\ \A t \in OwnerTodo : t # <<>> /\ Last(t) \in OwnerCalls
  /\ \A t \in OtherTodo : t # <<>> => Last(t) \notin OwnerCalls
<1>1. ASSUME NEW s \in Seq(BudgetCalls), NEW x \in OwnerCalls
      PROVE  s \o <<x>> # <<>> /\ Last(s \o <<x>>) = x
  BY SMT DEF Last
<1>2. ASSUME NEW t \in OtherTodo, t # <<>>
      PROVE  Last(t) \notin OwnerCalls
  <2>1. Len(t) \in 1..Len(t)
    BY <1>2, EmptySeq DEF OtherTodo
  <2>2. t[Len(t)] \in OtherCalls
    BY <2>1, ElementOfSeq DEF OtherTodo
  <2>3. QED BY <2>2 DEF Last, OtherCalls
<1>3. QED BY <1>1, <1>2 DEF OwnerTodo

\* The rest of an owner's calls is an owner's or empty; its first is on the budget, or the only one.
LEMMA OwnerRest ==
  ASSUME NEW t \in OwnerTodo
  PROVE  \/ Head(t) \in BudgetCalls /\ Tail(t) \in OwnerTodo
         \/ Head(t) \in OwnerCalls /\ Tail(t) = <<>>
<1>1. PICK s \in Seq(BudgetCalls), x \in OwnerCalls : t = s \o <<x>>
  BY DEF OwnerTodo
<1>2. CASE s = <<>>
  BY <1>1, <1>2
<1>3. CASE s # <<>>
  <2>1. Head(s) \in BudgetCalls /\ Tail(s) \in Seq(BudgetCalls)
    BY <1>3, HeadTailProperties
  <2>2. Head(t) = Head(s) /\ Tail(t) = Tail(s) \o <<x>>
    BY <1>1, <1>3, SMT
  <2>3. QED BY <2>1, <2>2, OwnerMake
<1>4. QED BY <1>2, <1>3

\* The rest of the other callers' calls.
LEMMA OtherRest ==
  ASSUME NEW t \in OtherTodo, t # <<>>
  PROVE  Head(t) \in OtherCalls /\ Tail(t) \in OtherTodo
BY HeadTailProperties DEF OtherTodo

-----------------------------------------------------------------------------
(* What a caller is to do next.                                            *)

CallerType == [key : Key \cup {None}, todo : Seq(Calls), held : [Bucket -> Int]]

\* What callers hold of a bucket is an integer.
LEMMA HeldType ==
  ASSUME TypeOK, NEW c \in Caller
  PROVE  /\ caller[c].held \in [Bucket -> Int]
         /\ \A b \in Bucket : Held(c, b) \in Int
         /\ \A b \in Bucket, n \in Int : Has(c, b, n) \in [Bucket -> Int]
BY DEF TypeOK, Held, Has

\* An undone claim is an owner's.
LEMMA UndoType ==
  ASSUME NEW held \in [Bucket -> Int]
  PROVE  GiveUp(held) \in OwnerTodo /\ ReleaseOpen(held) \in OwnerTodo
<1> DEFINE s == Back(held, "search")
           v == Back(held, "verification")
<1>1. s \in Seq(BudgetCalls) /\ v \in Seq(BudgetCalls)
  BY BackType DEF Bucket
<1>2. v \o s \in Seq(BudgetCalls) /\ s \o v \in Seq(BudgetCalls)
  BY <1>1, ConcatProperties
<1>3. Abandon \in OwnerCalls
  BY DEF OwnerCalls
<1> HIDE DEF s, v
<1>4. (v \o s) \o <<Abandon>> \in OwnerTodo /\ (s \o v) \o <<Abandon>> \in OwnerTodo
  BY <1>2, <1>3, OwnerMake
<1>5. QED BY <1>4 DEF s, v, GiveUp, ReleaseOpen

\* A claim starts an owner, a candidate that is resumed does not.
LEMMA StartType ==
  /\ ToSearch \in OwnerTodo
  /\ ToVerify \in OtherTodo /\ ToVerify # <<>>
  /\ \A r : ToResume(r) \in OtherTodo /\ ToResume(r) # <<>>
<1>1. ToSearch \in OwnerTodo
  <2> DEFINE v == Times(Headroom, Reserve("verification"))
  <2>1. <<Reserve("search")>> \in Seq(BudgetCalls)
    BY CallFacts, OneType DEF Bucket
  <2>2. v \in Seq(BudgetCalls)
    BY CallFacts, TimesType, HunterAssumption DEF Bucket
  <2>3. Ask("search") \in OwnerCalls
    BY DEF OwnerCalls
  <2> HIDE DEF v
  <2>4. <<Reserve("search")>> \o v \in Seq(BudgetCalls)
    BY <2>1, <2>2, ConcatProperties
  <2>5. (<<Reserve("search")>> \o v) \o <<Ask("search")>> \in OwnerTodo
    BY <2>3, <2>4, OwnerMake
  <2>6. QED BY <2>5 DEF v, ToSearch
<1>2. ToVerify \in OtherTodo /\ ToVerify # <<>>
  <2>1. /\ Complete("unverified") \in OtherCalls /\ Reserve("verification") \in OtherCalls
        /\ Ask("verifier") \in OtherCalls
    BY CallFacts DEF Bucket, Answers
  <2>2. QED BY <2>1 DEF ToVerify, OtherTodo
<1>3. <<Complete("webmail")>> \in OtherTodo
  BY CallFacts, OneType DEF Answers, OtherTodo
<1>4. QED BY <1>1, <1>2, <1>3 DEF ToResume

\* What follows an answered search has neither a search nor an abandon.
LEMMA FollowType ==
  ASSUME NEW verdict \in Verdicts
  PROVE  Follow(verdict) \in OtherTodo
<1>1. \A a \in Answers : <<Complete(a)>> \in OtherTodo
  BY CallFacts, OneType DEF OtherTodo
<1>2. <<Release("search"), Complete("not_found")>> \in OtherTodo
  <2>1. Release("search") \in OtherCalls /\ Complete("not_found") \in OtherCalls
    BY CallFacts DEF Bucket, Answers
  <2>2. QED BY <2>1 DEF OtherTodo
<1>3. QED BY <1>1, <1>2, StartType DEF Follow, Verdicts, Answers

\* The same of the calls that settle the verifications.
LEMMA BalanceType ==
  ASSUME NEW held \in Int, NEW n \in Nat
  PROVE  Unspent(held, n) \in Int /\ Balance(held, n) \in OtherTodo
<1> DEFINE m == IF n > held THEN n - held ELSE 0
<1>1. Unspent(held, n) \in Int /\ m \in Int
  BY DEF Unspent
<1>2. Times(Unspent(held, n), Release("verification")) \in OtherTodo
  BY <1>1, CallFacts, TimesType DEF Bucket, OtherTodo
<1>3. Times(m, Cover) \in OtherTodo
  BY <1>1, CallFacts, TimesType DEF OtherTodo
<1> HIDE DEF m
<1>4. Times(Unspent(held, n), Release("verification")) \o Times(m, Cover) \in OtherTodo
  BY <1>2, <1>3, ConcatProperties DEF OtherTodo
<1>5. QED BY <1>1, <1>4 DEF Balance, m

\* The rest of anybody's calls has its shape, and is an owner's only when the whole was.
LEMMA RestShape ==
  ASSUME NEW t \in OwnerTodo \cup OtherTodo, t # <<>>
  PROVE  /\ Tail(t) \in OwnerTodo \cup OtherTodo
         /\ Tail(t) \in OwnerTodo => t \in OwnerTodo
         /\ Head(t) \in OwnerCalls <=> (t \in OwnerTodo /\ Head(t) \notin BudgetCalls)
         /\ Head(t) \in OwnerCalls => Tail(t) = <<>>
<1>1. <<>> \in OtherTodo
  BY EmptySeq DEF OtherTodo
<1>2. OtherTodo \cap OwnerTodo = {}
  BY LastTells
<1>3. OwnerCalls \cap BudgetCalls = {} /\ OwnerCalls \cap OtherCalls = {}
  BY CallFacts DEF OtherCalls
<1>4. CASE t \in OwnerTodo
  BY <1>1, <1>3, <1>4, OwnerRest
<1>5. CASE t \in OtherTodo
  BY <1>2, <1>3, <1>5, OtherRest
<1>6. QED BY <1>4, <1>5

-----------------------------------------------------------------------------
(* Steps.                                                                  *)

TablesOK ==
  /\ row \in [Key -> [status : {"none", "pending", "found", "not_found", "unverified"},
                      webmail : BOOLEAN, stale : BOOLEAN]]
  /\ budget \in [Months -> [Bucket -> [used : 0..Cap, exhausted : BOOLEAN]]]
  /\ month \in Months
  /\ counted \in [Months -> [Bucket -> Nat]]

\* The type invariant is that of the tables and that of the callers.
LEMMA TypeSplits == TypeOK <=> TablesOK /\ caller \in [Caller -> CallerType]
BY DEF TypeOK, TablesOK, CallerType

\* Nobody works on nothing.
LEMMA IdleFacts ==
  /\ Idle \in CallerType /\ NoneHeld \in [Bucket -> Int]
  /\ Idle.todo = <<>> /\ Idle.key = None /\ <<>> \in OtherTodo
BY EmptySeq DEF Idle, CallerType, NoneHeld, OtherTodo

\* A caller goes on with what it may do next, or stops, and the rows stay as they are.
LEMMA GoesPreserves ==
  ASSUME IInv, NEW c \in Caller, Works(c),
         NEW t \in OwnerTodo \cup OtherTodo, NEW h \in [Bucket -> Int],
         t \in OwnerTodo => caller[c].todo \in OwnerTodo,
         Goes(c, t, h), row' = row
  PROVE  caller' \in [Caller -> CallerType] /\ Shaped' /\ Alone'
<1> DEFINE r == IF t = <<>> THEN Idle ELSE [key |-> caller[c].key, todo |-> t, held |-> h]
<1>1. caller \in [Caller -> CallerType]
  BY TypeSplits DEF IInv
<1>2. caller[c].key \in Key
  BY <1>1 DEF IInv, Shaped, Works, CallerType
<1>3. caller' = [caller EXCEPT ![c] = r]
  BY DEF Goes
<1>4. t \in Seq(Calls)
  BY TodoType
<1>5. /\ r \in CallerType /\ r.todo = t
      /\ t # <<>> => r.key = caller[c].key
      /\ r.key = None => r.todo = <<>>
  BY <1>2, <1>4, IdleFacts, HunterAssumption DEF CallerType
<1> HIDE DEF r
<1>6. \A d \in Caller : caller'[d] = IF d = c THEN r ELSE caller[d]
  BY <1>1, <1>3
<1>7. caller' \in [Caller -> CallerType]
  BY <1>1, <1>3, <1>5
<1>8. Shaped'
  BY <1>5, <1>6 DEF IInv, Shaped
<1>9. Alone'
  BY <1>5, <1>6 DEF IInv, Alone, Works
<1>10. QED BY <1>7, <1>8, <1>9

\* A call on the budget changes the current month's row only, by one of three updates.
LEMMA BudgetType ==
  ASSUME TablesOK, NEW b \in Bucket,
         \/ ~BudgetFull(Now(b)) /\ Budget(b, Reserved(Now(b)))
         \/ Budget(b, Released(Now(b))) \/ Budget(b, Exhausted(Now(b))) \/ budget' = budget
  PROVE  budget' \in [Months -> [Bucket -> [used : 0..Cap, exhausted : BOOLEAN]]]
<1> DEFINE r == Now(b)
           BudgetRow == [used : 0..Cap, exhausted : BOOLEAN]
<1>1. r \in BudgetRow /\ month \in Months /\ Cap \in Nat
  BY HunterAssumption DEF TablesOK, Now
<1>2. /\ ~BudgetFull(r) => Reserved(r) \in BudgetRow
      /\ Released(r) \in BudgetRow /\ Exhausted(r) \in BudgetRow
  <2> HIDE DEF r
  <2>1. r.used \in 0..Cap /\ r.exhausted \in BOOLEAN
    BY <1>1
  <2>2. r = [used |-> r.used, exhausted |-> r.exhausted]
    BY <1>1
  <2>3. ~BudgetFull(r) => Reserved(r) \in BudgetRow
    BY <1>1, <2>1, <2>2 DEF BudgetFull, Reserved
  <2>4. Released(r) \in BudgetRow
    BY <1>1, <2>1, <2>2 DEF Released
  <2>5. Exhausted(r) \in BudgetRow
    BY <1>1, <2>1, <2>2 DEF Exhausted
  <2>6. QED BY <2>3, <2>4, <2>5
<1>3. ASSUME NEW x \in BudgetRow, budget' = [budget EXCEPT ![month][b] = x]
      PROVE  budget' \in [Months -> [Bucket -> BudgetRow]]
  BY <1>1, <1>3 DEF TablesOK
<1>4. /\ Budget(b, Reserved(Now(b))) => budget' = [budget EXCEPT ![month][b] = Reserved(r)]
      /\ Budget(b, Released(Now(b))) => budget' = [budget EXCEPT ![month][b] = Released(r)]
      /\ Budget(b, Exhausted(Now(b))) => budget' = [budget EXCEPT ![month][b] = Exhausted(r)]
  BY DEF Budget
<1>5. budget \in [Months -> [Bucket -> BudgetRow]]
  BY DEF TablesOK
<1>6. QED BY <1>2, <1>3, <1>4, <1>5

\* Where a caller stands, from the first of its calls.
LEMMA DoesFacts ==
  ASSUME IInv, NEW c \in Caller, NEW x, Does(c, x)
  PROVE  /\ Works(c) /\ Head(caller[c].todo) = x
         /\ caller[c].todo \in OwnerTodo \cup OtherTodo
         /\ Rest(c) \in OwnerTodo \cup OtherTodo
         /\ Rest(c) \in OwnerTodo => caller[c].todo \in OwnerTodo
         /\ x \in OwnerCalls => caller[c].todo \in OwnerTodo /\ Rest(c) = <<>>
         /\ x \notin BudgetCalls /\ x \notin OwnerCalls => caller[c].todo \notin OwnerTodo
         /\ caller[c].key \in Key
<1>1. Works(c) /\ Head(caller[c].todo) = x
  BY DEF Does, Works
<1>2. caller[c].todo \in OwnerTodo \cup OtherTodo
  BY DEF IInv, Shaped
<1>3. caller[c].key \in Key
  BY <1>1, TypeSplits DEF IInv, Shaped, Works, CallerType
<1>4. QED BY <1>1, <1>2, <1>3, RestShape DEF Rest, Works

\* A reserve that did not succeed leaves its caller undoing its claim, or done.
LEMMA RefusedPreserves ==
  ASSUME IInv, NEW c \in Caller, NEW x, Does(c, x), Refused(c), row' = row
  PROVE  caller' \in [Caller -> CallerType] /\ Shaped' /\ Alone'
<1>1. TypeOK /\ Works(c) /\ caller[c].todo \in OwnerTodo \cup OtherTodo
  BY DoesFacts DEF IInv
<1>2. caller[c].held \in [Bucket -> Int]
  BY <1>1, HeldType
<1>3. CASE Searching(caller[c].todo)
  <2>1. caller[c].todo \in OwnerTodo
    BY <1>1, <1>3, LastTells DEF Searching, OwnerCalls
  <2>2. GiveUp(caller[c].held) \in OwnerTodo
    BY <1>2, UndoType
  <2>3. Goes(c, GiveUp(caller[c].held), caller[c].held)
    BY <1>3 DEF Refused, Keeps
  <2>4. QED BY <1>1, <1>2, <2>1, <2>2, <2>3, GoesPreserves
<1>4. CASE ~Searching(caller[c].todo)
  <2>1. Goes(c, <<>>, caller[c].held)
    BY <1>4 DEF Refused, Keeps
  <2>2. <<>> \in OtherTodo /\ <<>> \notin OwnerTodo
    BY IdleFacts, LastTells
  <2>3. QED BY <1>1, <1>2, <2>1, <2>2, GoesPreserves
<1>5. QED BY <1>3, <1>4

\* A caller that goes on to the rest of its calls.
LEMMA RestPreserves ==
  ASSUME IInv, NEW c \in Caller, NEW x, Does(c, x), NEW h \in [Bucket -> Int],
         Goes(c, Rest(c), h), row' = row
  PROVE  caller' \in [Caller -> CallerType] /\ Shaped' /\ Alone'
BY DoesFacts, GoesPreserves

\* Once the tables and the callers keep their types, the invariant is kept.
LEMMA Assemble ==
  ASSUME TablesOK', caller' \in [Caller -> CallerType], Shaped', Alone'
  PROVE  IInv'
BY DEF IInv, TypeOK, TablesOK, CallerType

\* The budget moves and the other tables stay.
LEMMA BudgetTables ==
  ASSUME IInv, NEW b \in Bucket, UNCHANGED <<row, month, counted>>,
         \/ ~BudgetFull(Now(b)) /\ Budget(b, Reserved(Now(b)))
         \/ Budget(b, Released(Now(b))) \/ Budget(b, Exhausted(Now(b))) \/ budget' = budget
  PROVE  TablesOK'
<1>1. TablesOK
  BY TypeSplits DEF IInv
<1>2. budget' \in [Months -> [Bucket -> [used : 0..Cap, exhausted : BOOLEAN]]]
  BY <1>1, BudgetType
<1>3. QED BY <1>1, <1>2 DEF TablesOK

\* Reserve, release and exhaust keep the invariant.
LEMMA BudgetPreserves ==
  ASSUME IInv, NEW c \in Caller, NEW b \in Bucket,
         \/ ReserveOk(c, b) \/ ReserveRefused(c, b) \/ ReserveUnheard(c, b)
         \/ ReleaseOne(c, b) \/ ExhaustOne(c, b)
  PROVE  IInv'
<1>1. TypeOK
  BY DEF IInv
<1>2. \A n \in Int : Has(c, b, n) \in [Bucket -> Int]
  BY <1>1, HeldType
<1>3. Held(c, b) + 1 \in Int /\ Held(c, b) - 1 \in Int
  BY <1>1, HeldType
<1>4. TablesOK'
  <2>1. CASE ReserveOk(c, b)
    BY <2>1, BudgetTables DEF ReserveOk
  <2>2. CASE ReserveRefused(c, b)
    BY <2>2, BudgetTables DEF ReserveRefused
  <2>3. CASE ReserveUnheard(c, b)
    BY <2>3, BudgetTables DEF ReserveUnheard
  <2>4. CASE ReleaseOne(c, b)
    BY <2>4, BudgetTables DEF ReleaseOne
  <2>5. CASE ExhaustOne(c, b)
    BY <2>5, BudgetTables DEF ExhaustOne
  <2>6. QED BY <2>1, <2>2, <2>3, <2>4, <2>5
<1>5. caller' \in [Caller -> CallerType] /\ Shaped' /\ Alone'
  <2>1. CASE ReserveOk(c, b)
    BY <1>2, <1>3, <2>1, RestPreserves DEF ReserveOk
  <2>2. CASE ReserveRefused(c, b)
    BY <2>2, RefusedPreserves DEF ReserveRefused
  <2>3. CASE ReserveUnheard(c, b)
    BY <2>3, RefusedPreserves DEF ReserveUnheard
  <2>4. CASE ReleaseOne(c, b)
    BY <1>2, <1>3, <2>4, RestPreserves DEF ReleaseOne
  <2>5. CASE ExhaustOne(c, b)
    BY <1>2, <2>5, RestPreserves DEF ExhaustOne
  <2>6. QED BY <2>1, <2>2, <2>3, <2>4, <2>5
<1>6. QED BY <1>4, <1>5, Assemble

\* The part of a sequence of other callers' calls from a position on.
LEMMA CutType ==
  ASSUME NEW t \in OtherTodo, NEW i \in 1..Len(t)
  PROVE  SubSeq(t, i, Len(t)) \in OtherTodo
<1>1. Len(t) \in Int /\ i \in Int /\ \A j \in i..Len(t) : t[j] \in OtherCalls
  BY LenProperties, ElementOfSeq DEF OtherTodo
<1>2. QED BY <1>1, SubSeqProperties DEF OtherTodo

\* Reserving what Hunter has already counted keeps the invariant.
LEMMA CoverPreserves ==
  ASSUME IInv, NEW c \in Caller, CoverOk(c) \/ CoverRefused(c)
  PROVE  IInv'
<1>1. TypeOK /\ "verification" \in Bucket
  BY DEF IInv, Bucket
<1>2. Does(c, Cover)
  BY DEF CoverOk, CoverRefused
<1>3. TablesOK'
  BY <1>1, BudgetTables DEF CoverOk, CoverRefused
<1>4. CASE CoverOk(c)
  <2> DEFINE n == IF Cover \in Range(Rest(c)) THEN Held(c, "verification") + 1 ELSE 0
  <2>1. n \in Int
    BY <1>1, HeldType
  <2>2. Has(c, "verification", n) \in [Bucket -> Int]
    BY <1>1, <2>1, HeldType
  <2>3. Goes(c, Rest(c), Has(c, "verification", n)) /\ row' = row
    BY <1>4 DEF CoverOk
  <2> HIDE DEF n
  <2>4. QED BY <1>2, <1>3, <2>2, <2>3, RestPreserves, Assemble
<1>5. CASE CoverRefused(c)
  <2> DEFINE v == Back(caller[c].held, "verification")
  <2>1. caller[c].todo \in OtherTodo /\ caller[c].todo \notin OwnerTodo /\ Works(c)
    BY <1>2, CallFacts, DoesFacts DEF OtherCalls
  <2>2. PICK i \in 1..Len(caller[c].todo) :
          Keeps(c, v \o <<Exhaust("verification")>>
                     \o SubSeq(caller[c].todo, i, Len(caller[c].todo)))
    BY <1>5 DEF CoverRefused
  <2>3. caller[c].held \in [Bucket -> Int]
    BY <1>1, HeldType
  <2>4. v \in OtherTodo
    BY <1>1, <2>3, BackType, BudgetIsOther
  <2>5. <<Exhaust("verification")>> \in OtherTodo
    BY <1>1, CallFacts, OneType DEF OtherTodo
  <2>6. SubSeq(caller[c].todo, i, Len(caller[c].todo)) \in OtherTodo
    BY <2>1, CutType
  <2> HIDE DEF v
  <2> DEFINE t == v \o <<Exhaust("verification")>>
                    \o SubSeq(caller[c].todo, i, Len(caller[c].todo))
  <2>7. t \in OtherTodo
    BY <2>4, <2>5, <2>6, ConcatProperties DEF OtherTodo
  <2>8. Goes(c, t, caller[c].held) /\ row' = row
    BY <1>5, <2>2 DEF Keeps, CoverRefused
  <2>9. t \notin OwnerTodo
    BY <2>7, LastTells
  <2> HIDE DEF t
  <2>10. QED BY <1>3, <2>1, <2>3, <2>7, <2>8, <2>9, GoesPreserves, Assemble
<1>6. QED BY <1>4, <1>5

\* Hunter's answers to a search keep the invariant.
LEMMA SearchPreserves ==
  ASSUME IInv, NEW c \in Caller,
         \/ SearchFails(c) \/ SearchQuota(c) \/ SearchClaimed(c)
         \/ \E n \in Returned, low \in BOOLEAN, verdict \in Verdicts :
              SearchAnswered(c, n, low, verdict)
  PROVE  IInv'
<1> DEFINE h == caller[c].held
           v == Back(h, "verification")
           s == Back(h, "search")
<1>1. TypeOK /\ TablesOK /\ {"search", "verification"} \subseteq Bucket
  BY TypeSplits DEF IInv, Bucket
<1>2. Does(c, Ask("search"))
  BY DEF SearchFails, SearchQuota, SearchClaimed, SearchAnswered
<1>3. Works(c) /\ caller[c].todo \in OwnerTodo
  BY <1>2, DoesFacts DEF OwnerCalls
<1>4. h \in [Bucket -> Int]
  BY <1>1, HeldType
<1>5. s \in Seq(BudgetCalls) /\ v \in Seq(BudgetCalls)
  BY <1>1, <1>4, BackType
<1>6. CASE SearchFails(c)
  <2>1. Goes(c, ReleaseOpen(h), h) /\ row' = row /\ TablesOK'
    BY <1>1, <1>6 DEF SearchFails, Keeps, TablesOK
  <2>2. ReleaseOpen(h) \in OwnerTodo
    BY <1>4, UndoType
  <2> HIDE DEF h
  <2>3. QED BY <1>3, <1>4, <2>1, <2>2, GoesPreserves, Assemble
<1>7. CASE SearchQuota(c)
  <2> DEFINE t == <<Exhaust("search")>> \o v \o <<Abandon>>
  <2>1. Goes(c, t, h) /\ row' = row /\ TablesOK'
    BY <1>1, <1>7 DEF SearchQuota, Keeps, TablesOK
  <2>2. <<Exhaust("search")>> \in Seq(BudgetCalls) /\ Abandon \in OwnerCalls
    BY <1>1, CallFacts, OneType DEF OwnerCalls
  <2> HIDE DEF v
  <2>3. <<Exhaust("search")>> \o v \in Seq(BudgetCalls)
    BY <1>5, <2>2, ConcatProperties
  <2>4. t \in OwnerTodo
    BY <2>2, <2>3, OwnerMake
  <2> HIDE DEF h, t
  <2>5. QED BY <1>3, <1>4, <2>1, <2>4, GoesPreserves, Assemble
<1>8. CASE SearchClaimed(c)
  <2> DEFINE t == s \o v \o <<Complete("not_found")>>
  <2>1. Goes(c, t, h) /\ row' = row /\ TablesOK'
    BY <1>1, <1>8 DEF SearchClaimed, Keeps, TablesOK
  <2>2. <<Complete("not_found")>> \in OtherTodo /\ s \in OtherTodo /\ v \in OtherTodo
    BY <1>5, CallFacts, OneType, BudgetIsOther DEF OtherTodo, Answers
  <2> HIDE DEF s, v
  <2>3. t \in OtherTodo /\ t \notin OwnerTodo
    BY <2>2, ConcatProperties, LastTells DEF OtherTodo
  <2> HIDE DEF h, t
  <2>4. QED BY <1>3, <1>4, <2>1, <2>3, GoesPreserves, Assemble
<1>9. ASSUME NEW n \in Returned, NEW low \in BOOLEAN, NEW verdict \in Verdicts,
             SearchAnswered(c, n, low, verdict)
      PROVE  IInv'
  <2> DEFINE b == Balance(Held(c, "verification"), n)
             x == Times(IF low THEN 1 ELSE 0, Exhaust("verification"))
             t == b \o x \o Follow(verdict)
             g == [search |-> IF verdict = "empty" THEN Held(c, "search") ELSE 0,
                   verification |-> Unspent(Held(c, "verification"), n)]
  <2>1. Goes(c, t, g) /\ row' = row
    BY <1>9 DEF SearchAnswered
  <2>2. n \in Nat /\ Held(c, "verification") \in Int /\ Held(c, "search") \in Int
    BY <1>1, HeldType, HunterAssumption
  <2>3. TablesOK'
    <3> DEFINE k == [search |-> counted[month]["search"] + (IF verdict = "empty" THEN 0 ELSE 1),
                     verification |-> counted[month]["verification"] + n]
    <3>1. k \in [Bucket -> Nat]
      BY <1>1, <2>2 DEF TablesOK, Bucket
    <3>2. counted' = [counted EXCEPT ![month] = k]
      BY <1>9 DEF SearchAnswered
    <3> HIDE DEF k
    <3>3. counted' \in [Months -> [Bucket -> Nat]]
      BY <1>1, <3>1, <3>2 DEF TablesOK
    <3>4. QED BY <1>1, <1>9, <3>3 DEF SearchAnswered, TablesOK
  <2>4. Unspent(Held(c, "verification"), n) \in Int /\ b \in OtherTodo
    BY <2>2, BalanceType
  <2>5. g \in [Bucket -> Int]
    BY <2>2, <2>4 DEF Bucket
  <2>6. x \in OtherTodo
    BY <1>1, CallFacts, TimesType DEF OtherTodo
  <2>7. Follow(verdict) \in OtherTodo
    BY FollowType
  <2> HIDE DEF b, x, g
  <2>8. t \in OtherTodo /\ t \notin OwnerTodo
    BY <2>4, <2>6, <2>7, ConcatProperties, LastTells DEF OtherTodo
  <2> HIDE DEF t
  <2>9. QED BY <1>3, <2>1, <2>3, <2>5, <2>8, GoesPreserves, Assemble
<1>10. QED BY <1>6, <1>7, <1>8, <1>9

\* The verifier's answers keep the invariant.
LEMMA VerifierPreserves ==
  ASSUME IInv, NEW c \in Caller,
         \/ VerifierFails(c) \/ VerifierQuota(c) \/ VerifierUndecided(c)
         \/ \E answer \in {"found", "not_found", "webmail"} : VerifierDecides(c, answer)
  PROVE  IInv'
<1>1. TypeOK /\ TablesOK /\ "verification" \in Bucket
  BY TypeSplits DEF IInv, Bucket
<1>2. Does(c, Ask("verifier"))
  BY DEF VerifierFails, VerifierQuota, VerifierUndecided, VerifierDecides
<1>3. Works(c)
  BY <1>2, DoesFacts
<1>4. caller[c].held \in [Bucket -> Int] /\ NoneHeld \in [Bucket -> Int]
  BY <1>1, HeldType, IdleFacts
<1>5. TablesOK'
  <2>1. counted' = counted \/ Counts("verification", 1)
    BY DEF VerifierFails, VerifierQuota, VerifierUndecided, VerifierDecides
  <2> DEFINE n == counted[month]["verification"] + 1
  <2>2. n \in Nat /\ counted \in [Months -> [Bucket -> Nat]] /\ month \in Months
    BY <1>1 DEF TablesOK
  <2>3. Counts("verification", 1) => counted' = [counted EXCEPT ![month]["verification"] = n]
    BY DEF Counts
  <2> HIDE DEF n
  <2>4. counted' \in [Months -> [Bucket -> Nat]]
    BY <1>1, <2>1, <2>2, <2>3
  <2>5. QED BY <1>1, <2>4
            DEF TablesOK, VerifierFails, VerifierQuota, VerifierUndecided, VerifierDecides
<1>6. ASSUME NEW t \in OtherTodo, NEW h \in [Bucket -> Int], Goes(c, t, h), row' = row
      PROVE  IInv'
  BY <1>3, <1>5, <1>6, LastTells, GoesPreserves, Assemble
<1>7. /\ <<>> \in OtherTodo
      /\ <<Release("verification")>> \in OtherTodo /\ <<Exhaust("verification")>> \in OtherTodo
      /\ \A a \in Answers : <<Complete(a)>> \in OtherTodo
  BY <1>1, CallFacts, OneType, IdleFacts DEF OtherTodo
<1>8. CASE VerifierFails(c) \/ VerifierQuota(c)
  BY <1>4, <1>6, <1>7, <1>8 DEF VerifierFails, VerifierQuota, Keeps
<1>9. CASE VerifierUndecided(c)
  BY <1>4, <1>6, <1>7, <1>9 DEF VerifierUndecided
<1>10. CASE \E answer \in {"found", "not_found", "webmail"} : VerifierDecides(c, answer)
  BY <1>4, <1>6, <1>7, <1>10 DEF VerifierDecides, Answers
<1>11. QED BY <1>8, <1>9, <1>10

\* Whoever works, works on a domain.
LEMMA WorksOnKey ==
  ASSUME IInv
  PROVE  \A d \in Caller : Works(d) => caller[d].key \in Key
BY TypeSplits DEF IInv, Shaped, Works, CallerType

\* An abandon ends its caller, which owned the row it removes.
LEMMA AbandonPreserves ==
  ASSUME IInv, NEW c \in Caller, AbandonClaim(c)
  PROVE  IInv'
<1> DEFINE k == caller[c].key
<1>1. TablesOK /\ caller \in [Caller -> CallerType] /\ Shaped /\ Alone
  BY TypeSplits DEF IInv
<1>2. Does(c, Abandon) /\ Abandon \in OwnerCalls
  BY DEF AbandonClaim, OwnerCalls
<1>3. Works(c) /\ caller[c].todo \in OwnerTodo /\ Rest(c) = <<>> /\ k \in Key
  BY <1>2, DoesFacts
<1>4. caller' = [caller EXCEPT ![c] = Idle]
  BY <1>3 DEF AbandonClaim, Keeps, Goes
<1>5. \A d \in Caller : caller'[d] = IF d = c THEN Idle ELSE caller[d]
  BY <1>1, <1>4
<1>6. ~Slow => row[k].status = "pending"
                /\ \A d \in Caller : Works(d) /\ caller[d].key = k => d = c
  BY <1>1, <1>3 DEF Alone
<1>7. \/ row' = [row EXCEPT ![k] = NoRow]
      \/ row' = row
  BY <1>1, <1>3 DEF AbandonClaim, Abandoned, TablesOK
<1>8. TablesOK'
  <2>1. NoRow \in [status : {"none", "pending", "found", "not_found", "unverified"},
                   webmail : BOOLEAN, stale : BOOLEAN]
    BY DEF NoRow
  <2>2. QED BY <1>1, <1>7, <2>1 DEF TablesOK, AbandonClaim
<1>9. caller' \in [Caller -> CallerType]
  BY <1>1, <1>4, IdleFacts
<1>10. Shaped'
  BY <1>1, <1>5, IdleFacts DEF Shaped
<1>11. Alone'
  <2>1. \A d \in Caller : Works(d)' => d # c /\ Works(d) /\ caller'[d] = caller[d]
    BY <1>5, IdleFacts DEF Works
  <2>2. ~Slow => \A d \in Caller : Works(d)' => row'[caller[d].key] = row[caller[d].key]
    BY <1>1, <1>3, <1>6, <1>7, <2>1, WorksOnKey DEF TablesOK
  <2>3. QED BY <1>1, <2>1, <2>2 DEF Alone
<1>12. QED BY <1>8, <1>9, <1>10, <1>11, Assemble

\* An answer is stored over a candidate, or over a pending row by the only one at work on it.
LEMMA CompletePreserves ==
  ASSUME IInv, NEW c \in Caller, NEW answer \in Answers, CompleteLookup(c, answer)
  PROVE  IInv'
<1> DEFINE k == caller[c].key
           t == caller'[c].todo
<1>1. TablesOK /\ caller \in [Caller -> CallerType] /\ Shaped /\ Alone
  BY TypeSplits DEF IInv
<1>2. Does(c, Complete(answer))
  BY DEF CompleteLookup
<1>3. Complete(answer) \notin BudgetCalls /\ Complete(answer) \notin OwnerCalls
  BY CallFacts DEF OtherCalls
<1>4. Works(c) /\ caller[c].todo \notin OwnerTodo /\ caller[c].todo \in OtherTodo /\ k \in Key
  BY <1>2, <1>3, DoesFacts
<1>5. Rest(c) \in OtherTodo
  BY <1>4, OtherRest DEF Rest, Works
<1>6. PICK u \in OtherTodo : Keeps(c, u)
  BY <1>5, IdleFacts DEF CompleteLookup
<1>7. u \notin OwnerTodo /\ u \in Seq(Calls)
  BY LastTells, TodoType
<1> DEFINE r == IF u = <<>> THEN Idle ELSE [key |-> k, todo |-> u, held |-> caller[c].held]
<1>8. caller' = [caller EXCEPT ![c] = r]
  BY <1>6 DEF Keeps, Goes
<1>9. /\ r \in CallerType /\ r.todo = u
      /\ u # <<>> => r.key = k
      /\ r.key = None => r.todo = <<>>
  BY <1>1, <1>4, <1>7, IdleFacts, HunterAssumption DEF CallerType
<1> HIDE DEF r
<1>10. \A d \in Caller : caller'[d] = IF d = c THEN r ELSE caller[d]
  BY <1>1, <1>8
<1>11. \/ row' = [row EXCEPT ![k] = Completed(row[k], answer)]
       \/ row' = row
  BY DEF CompleteLookup
<1>12. TablesOK'
  <2>1. /\ row[k] \in [status : {"none", "pending", "found", "not_found", "unverified"},
                       webmail : BOOLEAN, stale : BOOLEAN]
        /\ Completed(row[k], answer) \in
             [status : {"none", "pending", "found", "not_found", "unverified"},
              webmail : BOOLEAN, stale : BOOLEAN]
    BY <1>1, <1>4 DEF TablesOK, Completed, Answered, Answers
  <2>2. QED BY <1>1, <1>11, <2>1 DEF TablesOK, CompleteLookup
<1>13. caller' \in [Caller -> CallerType]
  BY <1>1, <1>8, <1>9
<1>14. Shaped'
  BY <1>1, <1>9, <1>10 DEF Shaped
<1>15. Alone'
  <2>1. \A d \in Caller : Works(d)' =>
          /\ Works(d) /\ caller'[d].key = caller[d].key
          /\ caller'[d].todo \in OwnerTodo => caller[d].todo \in OwnerTodo
    BY <1>4, <1>7, <1>9, <1>10 DEF Works
  <2>2. Completed(row[k], answer) = row[k]
         \/ Completed(row[k], answer).status \notin {"none", "pending"}
    BY DEF Completed, Answered, Answers
  <2>3. ~Slow => \A d \in Caller : ~(Works(d) /\ caller[d].key = k /\ caller[d].todo \in OwnerTodo)
    BY <1>1, <1>4 DEF Alone
  <2>4. \A d \in Caller : Works(d) =>
          \/ row'[caller[d].key] = row[caller[d].key]
          \/ caller[d].key = k /\ row'[k].status \notin {"none", "pending"}
    BY <1>1, <1>4, <1>11, <2>2, WorksOnKey DEF TablesOK
  <2>5. QED BY <1>1, <2>1, <2>3, <2>4 DEF Alone
<1>16. QED BY <1>12, <1>13, <1>14, <1>15, Assemble

\* A claim is of a row on which nobody works, a candidate is resumed by anybody.
LEMMA BeginPreserves ==
  ASSUME IInv, NEW c \in Caller, NEW k \in Key, Claim(c, k) \/ Resume(c, k)
  PROVE  IInv'
<1>1. TablesOK /\ caller \in [Caller -> CallerType] /\ Shaped /\ Alone
  BY TypeSplits DEF IInv
<1>2. caller[c] = Idle /\ ~Works(c)
  BY IdleFacts DEF Claim, Resume, Works
<1>3. CASE Claim(c, k)
  <2> DEFINE r == [key |-> k, todo |-> ToSearch, held |-> NoneHeld]
  <2>1. ~Slow => \A d \in Caller : Works(d) => caller[d].key # k
    BY <1>1, <1>3 DEF Claim, Claimable, Alone
  <2>2. row' = [row EXCEPT ![k] = Pending] /\ Pending.status = "pending" /\ ~Pending.stale
    BY <1>3 DEF Claim, Pending, NoRow
  <2>3. TablesOK'
    <3>1. Pending \in [status : {"none", "pending", "found", "not_found", "unverified"},
                       webmail : BOOLEAN, stale : BOOLEAN]
      BY DEF Pending, NoRow
    <3>2. QED BY <1>1, <1>3, <2>2, <3>1 DEF TablesOK, Claim
  <2>4. r \in CallerType /\ r.todo \in OwnerTodo /\ r.key = k /\ k # None
    BY StartType, TodoType, IdleFacts, HunterAssumption DEF CallerType
  <2> HIDE DEF r
  <2>5. caller' = [caller EXCEPT ![c] = r] \/ caller' = caller
    BY <1>3 DEF Claim, r
  <2>6. caller' \in [Caller -> CallerType]
    BY <1>1, <2>4, <2>5
  <2>7. \A d \in Caller : caller'[d] = caller[d] \/ (d = c /\ caller'[d] = r)
    BY <1>1, <2>5
  <2>8. Shaped'
    BY <1>1, <2>4, <2>7 DEF Shaped
  <2>9. ~Slow => \A d \in Caller : Works(d)' =>
          \/ Works(d) /\ caller'[d] = caller[d] /\ caller[d].key # k
          \/ d = c /\ caller'[d] = r
    BY <2>1, <2>7 DEF Works
  <2>10. \A j \in Key : row'[j] = IF j = k THEN Pending ELSE row[j]
    BY <1>1, <2>2 DEF TablesOK
  <2>11. \A d \in Caller : Works(d) => caller[d].key \in Key
    BY WorksOnKey
  <2>12. Alone'
    BY <1>1, <2>2, <2>4, <2>9, <2>10, <2>11 DEF Alone
  <2>13. QED BY <2>3, <2>6, <2>8, <2>12, Assemble
<1>4. CASE Resume(c, k)
  <2> DEFINE r == [key |-> k, todo |-> ToResume(row[k]), held |-> NoneHeld]
  <2>1. r \in CallerType /\ r.todo \in OtherTodo /\ r.todo \notin OwnerTodo /\ r.key = k /\ k # None
    BY StartType, LastTells, TodoType, IdleFacts, HunterAssumption DEF CallerType
  <2> HIDE DEF r
  <2>2. caller' = [caller EXCEPT ![c] = r] /\ row' = row /\ row[k].status = "unverified"
    BY <1>4 DEF Resume, r
  <2>3. TablesOK'
    BY <1>1, <1>4 DEF TablesOK, Resume
  <2>4. caller' \in [Caller -> CallerType]
    BY <1>1, <2>1, <2>2
  <2>5. \A d \in Caller : caller'[d] = IF d = c THEN r ELSE caller[d]
    BY <1>1, <2>2
  <2>6. Shaped'
    BY <1>1, <2>1, <2>5 DEF Shaped
  <2>7. Alone'
    BY <1>1, <2>1, <2>2, <2>5 DEF Alone, Works
  <2>8. QED BY <2>3, <2>4, <2>6, <2>7, Assemble
<1>5. QED BY <1>3, <1>4

\* A caller that dies leaves its row to its age.
LEMMA KilledPreserves ==
  ASSUME IInv, NEW c \in Caller, Killed(c)
  PROVE  IInv'
<1>1. TablesOK /\ caller \in [Caller -> CallerType] /\ Shaped /\ Alone
  BY TypeSplits DEF IInv
<1>2. caller' = [caller EXCEPT ![c] = Idle] /\ row' = row
  BY DEF Killed
<1>3. TablesOK'
  BY <1>1 DEF TablesOK, Killed
<1>4. caller' \in [Caller -> CallerType]
  BY <1>1, <1>2, IdleFacts
<1>5. \A d \in Caller : caller'[d] = IF d = c THEN Idle ELSE caller[d]
  BY <1>1, <1>2
<1>6. Shaped'
  BY <1>1, <1>5, IdleFacts DEF Shaped
<1>7. Alone'
  BY <1>1, <1>2, <1>5, IdleFacts DEF Alone, Works
<1>8. QED BY <1>3, <1>4, <1>6, <1>7, Assemble

\* Unless callers are slow a pending row becomes stale only when nobody works on it.
LEMMA AgePreserves ==
  ASSUME IInv, NEW k \in Key, Age(k)
  PROVE  IInv'
<1>1. TablesOK /\ caller \in [Caller -> CallerType] /\ Shaped /\ Alone
  BY TypeSplits DEF IInv
<1>2. row' = [row EXCEPT ![k].stale = TRUE] /\ caller' = caller
  BY DEF Age
<1>3. TablesOK'
  BY <1>1, <1>2 DEF TablesOK, Age
<1>4. ~Slow => \A d \in Caller :
        Works(d) => caller[d].key # k /\ row'[caller[d].key] = row[caller[d].key]
  BY <1>1, <1>2, WorksOnKey DEF TablesOK, Age
<1>5. Alone'
  BY <1>1, <1>2, <1>4 DEF Alone, Works
<1>6. Shaped'
  BY <1>1, <1>2 DEF Shaped
<1>7. QED BY <1>1, <1>2, <1>3, <1>5, <1>6, Assemble

\* A step that leaves callers and rows alone.
LEMMA RestingPreserves ==
  ASSUME IInv, NextMonth \/ UNCHANGED vars
  PROVE  IInv'
<1>1. TablesOK /\ caller \in [Caller -> CallerType] /\ Shaped /\ Alone
  BY TypeSplits DEF IInv
<1>2. UNCHANGED <<row, budget, caller, counted>>
  BY DEF NextMonth, vars
<1>3. month' \in Months
  BY <1>1, HunterAssumption DEF TablesOK, NextMonth, Months, vars
<1>4. TablesOK' /\ caller' \in [Caller -> CallerType]
  BY <1>1, <1>2, <1>3 DEF TablesOK
<1>5. Shaped' /\ Alone'
  BY <1>1, <1>2 DEF Shaped, Alone, Works
<1>6. QED BY <1>4, <1>5, Assemble

\* At the start there are no rows and nobody works.
LEMMA InitIInv == Init => IInv
<1> SUFFICES ASSUME Init PROVE IInv
  OBVIOUS
<1>1. 0 \in 0..Cap /\ 1 \in Months
  BY HunterAssumption DEF Months
<1>2. TablesOK
  BY <1>1 DEF Init, TablesOK, NoRow, NoneHeld
<1>3. caller \in [Caller -> CallerType]
  BY IdleFacts DEF Init
<1>4. \A c \in Caller : caller[c] = Idle
  BY DEF Init
<1>5. Shaped /\ Alone
  BY <1>4, IdleFacts DEF Shaped, Alone, Works
<1>6. QED BY <1>2, <1>3, <1>5, TypeSplits DEF IInv

\* Every step keeps the invariant.
LEMMA StepIInv == IInv /\ [Next]_vars => IInv'
<1> SUFFICES ASSUME IInv, [Next]_vars PROVE IInv'
  OBVIOUS
<1>1. ASSUME NEW c \in Caller, Steps(c) PROVE IInv'
  <2>1. ASSUME NEW k \in Key, Hit(c, k) PROVE IInv'
    BY <2>1, RestingPreserves DEF Hit
  <2>2. ASSUME NEW k \in Key, Resume(c, k) \/ Claim(c, k) PROVE IInv'
    BY <2>2, BeginPreserves
  <2>3. ASSUME NEW b \in Bucket,
               \/ ReserveOk(c, b) \/ ReserveRefused(c, b) \/ ReserveUnheard(c, b)
               \/ ReleaseOne(c, b) \/ ExhaustOne(c, b)
        PROVE  IInv'
    BY <2>3, BudgetPreserves
  <2>4. CASE CoverOk(c) \/ CoverRefused(c)
    BY <2>4, CoverPreserves
  <2>5. CASE AbandonClaim(c)
    BY <2>5, AbandonPreserves
  <2>6. ASSUME NEW answer \in Answers, CompleteLookup(c, answer) PROVE IInv'
    BY <2>6, CompletePreserves
  <2>7. CASE \/ SearchFails(c) \/ SearchQuota(c) \/ SearchClaimed(c)
             \/ \E n \in Returned, low \in BOOLEAN, verdict \in Verdicts :
                  SearchAnswered(c, n, low, verdict)
    BY <2>7, SearchPreserves
  <2>8. CASE \/ VerifierFails(c) \/ VerifierQuota(c) \/ VerifierUndecided(c)
             \/ \E answer \in {"found", "not_found", "webmail"} : VerifierDecides(c, answer)
    BY <2>8, VerifierPreserves
  <2>9. CASE Killed(c)
    BY <2>9, KilledPreserves
  <2>10. QED BY <1>1, <2>1, <2>2, <2>3, <2>4, <2>5, <2>6, <2>7, <2>8, <2>9 DEF Steps
<1>2. ASSUME NEW k \in Key, Age(k) PROVE IInv'
  BY <1>2, AgePreserves
<1>3. CASE NextMonth \/ UNCHANGED vars
  BY <1>3, RestingPreserves
<1>4. QED BY <1>1, <1>2, <1>3 DEF Next

\* The inductive invariant: types, the two shapes of what remains, and, unless callers
\* outlive their claims, that a pending row has one caller at work on it.
THEOREM HunterInvariant == Spec => []IInv
<1>1. Init => IInv
  BY InitIInv
<1>2. IInv /\ [Next]_vars => IInv'
  BY StepIInv
<1>3. QED BY <1>1, <1>2, PTL DEF Spec

\* The tables keep their types and no bucket goes above its cap, for any cap and headroom,
\* whoever dies and whatever is lost (apply_contact_provider_budget).
THEOREM HunterTypes == Spec => []TypeOK
<1>1. IInv => TypeOK
  BY DEF IInv
<1>2. QED BY <1>1, HunterInvariant, PTL

\* claim_contact_provider_lookup: a domain is searched for by one caller at a time, and
\* only while its row is pending, when callers keep within the two minutes of a claim.
THEOREM SearchesAreAlone == ASSUME ~Slow PROVE Spec => []SearchOwnsClaim
<1>1. IInv => SearchOwnsClaim
  <2>1. SUFFICES ASSUME IInv, NEW c \in Caller, Owns(c)
                 PROVE  /\ row[caller[c].key].status = "pending"
                        /\ \A d \in Caller : Owns(d) /\ caller[d].key = caller[c].key => d = c
    BY DEF SearchOwnsClaim
  <2>2. ASSUME NEW d \in Caller, Owns(d)
        PROVE  Works(d) /\ caller[d].todo \in OwnerTodo
    <3>1. caller[d].todo # <<>> /\ Last(caller[d].todo) \in OwnerCalls
      BY <2>2 DEF Owns, OwnerCalls
    <3>2. caller[d].todo \in OwnerTodo \cup OtherTodo
      BY <2>1 DEF IInv, Shaped
    <3>3. QED BY <3>1, <3>2, LastTells DEF Works
  <2>3. QED BY <2>1, <2>2 DEF IInv, Alone
<1>2. QED BY <1>1, HunterInvariant, PTL

-----------------------------------------------------------------------------
(* Stored answers.                                                         *)

AnswersStay ==
  \A k \in Key :
    /\ row[k].status \in {"found", "not_found"} => row'[k] = row[k]
    /\ row[k].status = "unverified" => row'[k].status \notin {"none", "pending"}

\* A step changes no row, or one row in one of four ways.
LEMMA RowSteps ==
  ASSUME IInv, [Next]_vars
  PROVE  \/ row' = row
         \/ \E k \in Key :
              \/ Claimable(row[k]) /\ row' = [row EXCEPT ![k] = Pending]
              \/ \E answer \in Answers : row' = [row EXCEPT ![k] = Completed(row[k], answer)]
              \/ row' = [row EXCEPT ![k] = Abandoned(row[k])]
              \/ row[k].status = "pending" /\ row' = [row EXCEPT ![k].stale = TRUE]
<1>1. ASSUME NEW c \in Caller, Steps(c) PROVE row' = row \/ \E k \in Key :
              \/ Claimable(row[k]) /\ row' = [row EXCEPT ![k] = Pending]
              \/ \E answer \in Answers : row' = [row EXCEPT ![k] = Completed(row[k], answer)]
              \/ row' = [row EXCEPT ![k] = Abandoned(row[k])]
  <2>1. \A x : Does(c, x) => caller[c].key \in Key
    BY DoesFacts
  <2>2. ASSUME NEW k \in Key, Hit(c, k) \/ Resume(c, k)
        PROVE  row' = row
    BY <2>2 DEF Hit, Resume, vars
  <2>3. ASSUME NEW k \in Key, Claim(c, k)
        PROVE  Claimable(row[k]) /\ row' = [row EXCEPT ![k] = Pending]
    BY <2>3 DEF Claim
  <2>4. ASSUME NEW b \in Bucket,
               \/ ReserveOk(c, b) \/ ReserveRefused(c, b) \/ ReserveUnheard(c, b)
               \/ ReleaseOne(c, b) \/ ExhaustOne(c, b)
        PROVE  row' = row
    BY <2>4 DEF ReserveOk, ReserveRefused, ReserveUnheard, ReleaseOne, ExhaustOne
  <2>5. CoverOk(c) \/ CoverRefused(c) => row' = row
    BY DEF CoverOk, CoverRefused
  <2>6. CASE AbandonClaim(c)
    BY <2>1, <2>6 DEF AbandonClaim
  <2>7. ASSUME NEW answer \in Answers, CompleteLookup(c, answer)
        PROVE  row' = row \/ \E k \in Key : row' = [row EXCEPT ![k] = Completed(row[k], answer)]
    BY <2>1, <2>7 DEF CompleteLookup
  <2>8. SearchFails(c) \/ SearchQuota(c) \/ SearchClaimed(c) => row' = row
    BY DEF SearchFails, SearchQuota, SearchClaimed
  <2>9. ASSUME NEW n \in Returned, NEW low \in BOOLEAN, NEW verdict \in Verdicts,
               SearchAnswered(c, n, low, verdict)
        PROVE  row' = row
    BY <2>9 DEF SearchAnswered
  <2>10. VerifierFails(c) \/ VerifierQuota(c) \/ VerifierUndecided(c) \/ Killed(c) => row' = row
    BY DEF VerifierFails, VerifierQuota, VerifierUndecided, Killed
  <2>11. ASSUME NEW answer \in {"found", "not_found", "webmail"}, VerifierDecides(c, answer)
         PROVE  row' = row
    BY <2>11 DEF VerifierDecides
  <2>12. QED BY <1>1, <2>2, <2>3, <2>4, <2>5, <2>6, <2>7, <2>8, <2>9, <2>10, <2>11 DEF Steps
<1>2. ASSUME NEW k \in Key, Age(k)
      PROVE  row[k].status = "pending" /\ row' = [row EXCEPT ![k].stale = TRUE]
  BY <1>2 DEF Age
<1>3. NextMonth \/ UNCHANGED vars => row' = row
  BY DEF NextMonth, vars
<1>4. QED BY <1>1, <1>2, <1>3 DEF Next

\* complete and abandon look at the status of the row: a stored answer is never replaced
\* and a candidate is never searched for again, also by callers that outlive their claims.
THEOREM StoredAnswersStay == Spec => StoredAnswerStays
<1>1. IInv /\ [Next]_vars => AnswersStay
  <2>1. SUFFICES ASSUME IInv, [Next]_vars, NEW k \in Key
                 PROVE  /\ row[k].status \in {"found", "not_found"} => row'[k] = row[k]
                        /\ row[k].status = "unverified" => row'[k].status \notin {"none", "pending"}
    BY DEF AnswersStay
  <2>2. row \in [Key -> [status : {"none", "pending", "found", "not_found", "unverified"},
                         webmail : BOOLEAN, stale : BOOLEAN]]
    BY <2>1 DEF IInv, TypeOK
  <2>3. QED BY <2>1, <2>2, RowSteps
            DEF Claimable, Completed, Abandoned, Answered, Answers, Pending, NoRow
<1>2. Spec => [][AnswersStay]_vars
  BY <1>1, HunterInvariant, PTL DEF Spec
<1>3. QED BY <1>2 DEF StoredAnswerStays, AnswersStay

-----------------------------------------------------------------------------
(* What all callers hold: a sum over a set. *)

\* A set of numbers has a least element.
LEMMA LeastElement ==
  ASSUME NEW S \in SUBSET Nat, S # {} PROVE \E n \in S : \A m \in S : n <= m
<1> DEFINE R == OpToRel(<, Nat)
<1>1. IsWellFoundedOn(R, Nat)
  BY Zenon, NatLessThanWellFounded
<1>2. \A a \in Nat, b \in Nat : a < b => <<a, b>> \in R
  BY DEF OpToRel
<1> HIDE DEF R
<1>3. PICK n \in S : \A m \in S : <<m, n>> \notin R
  BY <1>1, WFMin
<1>4. n \in Nat /\ S \subseteq Nat
  OBVIOUS
<1>5. \A m \in S : ~(m < n)
  BY <1>2, <1>3, <1>4
<1>6. \A m \in S : m \in Nat => n <= m
  BY <1>4, <1>5
<1>7. QED BY <1>3, <1>4, <1>6

\* Induction over the sizes of subsets, stated with the set of sizes that satisfy the fact.
LEMMA Induct ==
  ASSUME NEW S, 0 \in S, \A n \in Nat : n \in S => n + 1 \in S PROVE \A n \in Nat : n \in S
<1>1. SUFFICES ASSUME NEW k \in Nat, k \notin S PROVE FALSE
  OBVIOUS
<1> DEFINE M == {n \in Nat : n \notin S}
<1>2. PICK n \in M : \A m \in M : n <= m
  BY <1>1, LeastElement
<1>3. n # 0 /\ n - 1 \in Nat /\ n - 1 \notin M
  BY <1>2
<1>4. QED BY <1>3

\* Sums of f over the subsets of at most n callers.
Small(n) == {s \in SUBSET Caller : Cardinality(s) <= n}
Pick(s) == CHOOSE x \in s : TRUE
Adds(F, f, S) == \A s \in S : F[s] = IF s = {} THEN 0 ELSE f[Pick(s)] + F[s \ {Pick(s)}]

\* A set of callers without one of them is smaller.
LEMMA PickFacts ==
  ASSUME NEW s \in SUBSET Caller
  PROVE  /\ Cardinality(s) \in Nat /\ (s = {} <=> Cardinality(s) = 0)
         /\ s # {} => /\ Pick(s) \in s /\ s \ {Pick(s)} \in SUBSET Caller
                      /\ Cardinality(s \ {Pick(s)}) = Cardinality(s) - 1
<1>1. IsFiniteSet(s)
  BY HunterAssumption, FS_Subset
<1>2. Cardinality(s) \in Nat /\ (s = {} <=> Cardinality(s) = 0)
  BY <1>1, FS_CardinalityType, FS_EmptySet
<1>3. s # {} => Pick(s) \in s
  BY DEF Pick
<1>4. QED BY <1>1, <1>2, <1>3, FS_RemoveElement

\* The sums exist.
LEMMA SumsExist ==
  ASSUME NEW f \in [Caller -> Int]
  PROVE  \E F \in [SUBSET Caller -> Int] : Adds(F, f, SUBSET Caller)
<1> DEFINE T == {n \in Nat : \E F \in [Small(n) -> Int] : Adds(F, f, Small(n))}
<1>1. 0 \in T
  <2> DEFINE F == [s \in Small(0) |-> 0]
  <2>1. ASSUME NEW s \in Small(0) PROVE s = {}
    <3>1. s \in SUBSET Caller /\ Cardinality(s) <= 0
      BY DEF Small
    <3>2. Cardinality(s) \in Nat /\ (s = {} <=> Cardinality(s) = 0)
      BY <3>1, PickFacts
    <3> QED BY <3>1, <3>2
  <2>2. F \in [Small(0) -> Int] /\ \A s \in Small(0) : F[s] = 0
    OBVIOUS
  <2>3. Adds(F, f, Small(0))
    <3> HIDE DEF F
    <3> QED BY <2>1, <2>2 DEF Adds
  <2> HIDE DEF F
  <2> QED BY <2>2, <2>3
<1>2. ASSUME NEW n \in Nat, n \in T PROVE n + 1 \in T
  <2>1. PICK F \in [Small(n) -> Int] : Adds(F, f, Small(n))
    BY <1>2
  <2> DEFINE G == [s \in Small(n + 1) |-> IF s = {} THEN 0 ELSE f[Pick(s)] + F[s \ {Pick(s)}]]
  <2>2. ASSUME NEW s \in Small(n + 1), s # {}
        PROVE  s \ {Pick(s)} \in Small(n) /\ f[Pick(s)] \in Int /\ s \ {Pick(s)} \in Small(n + 1)
    BY <2>2, PickFacts DEF Small
  <2>3. G \in [Small(n + 1) -> Int]
    BY <2>2
  <2>4. \A s \in Small(n + 1) : G[s] = IF s = {} THEN 0 ELSE f[Pick(s)] + F[s \ {Pick(s)}]
    OBVIOUS
  <2>5. \A s \in Small(n) : s \in Small(n + 1) /\ F[s] = IF s = {} THEN 0 ELSE f[Pick(s)] + F[s \ {Pick(s)}]
    BY <2>1, PickFacts DEF Small, Adds
  <2> HIDE DEF G
  <2>6. \A s \in Small(n) : G[s] = F[s]
    BY <2>4, <2>5
  <2>7. Adds(G, f, Small(n + 1))
    BY <2>2, <2>4, <2>6 DEF Adds
  <2> QED BY <2>3, <2>7
<1>3. \A n \in Nat : n \in T
  <2> HIDE DEF T
  <2> QED BY <1>1, <1>2, Induct
<1>4. Cardinality(Caller) \in Nat /\ Small(Cardinality(Caller)) = SUBSET Caller
  <2>1. Cardinality(Caller) \in Nat
    BY HunterAssumption, FS_CardinalityType
  <2>2. \A s \in SUBSET Caller : Cardinality(s) <= Cardinality(Caller)
    BY HunterAssumption, FS_Subset
  <2> QED BY <2>1, <2>2 DEF Small
<1>5. QED BY <1>3, <1>4

\* What callers hold of a bucket, by the function of callers.
HeldBy(v, b) == MapThenSumSet(LAMBDA c : v[c].held[b], Caller)

\* It is a sum.
LEMMA HeldBySums ==
  ASSUME NEW v, NEW b, \A c \in Caller : v[c].held[b] \in Int
  PROVE  \E F \in [SUBSET Caller -> Int] :
           HeldBy(v, b) = F[Caller] /\ Adds(F, [c \in Caller |-> v[c].held[b]], SUBSET Caller)
<1> DEFINE f == [c \in Caller |-> v[c].held[b]]
           Is(F) == F = [s \in SUBSET Caller |-> IF s = {} THEN 0 ELSE v[CHOOSE x \in s : TRUE].held[b] + F[s \ {CHOOSE x \in s : TRUE}]]
           F0 == CHOOSE F : Is(F)
<1>1. HeldBy(v, b) = F0[Caller]
  BY DEF HeldBy, MapThenSumSet, MapThenFoldSet
<1>2. PICK F \in [SUBSET Caller -> Int] : Adds(F, f, SUBSET Caller)
  <2>1. f \in [Caller -> Int]
    OBVIOUS
  <2> HIDE DEF f
  <2> QED BY <2>1, SumsExist
<1>3. Is(F)
  <2>1. \A s \in SUBSET Caller : s # {} => f[Pick(s)] = v[CHOOSE x \in s : TRUE].held[b]
    BY PickFacts DEF Pick
  <2>2. \A s \in SUBSET Caller : F[s] = IF s = {} THEN 0 ELSE v[CHOOSE x \in s : TRUE].held[b] + F[s \ {CHOOSE x \in s : TRUE}]
    BY <1>2, <2>1 DEF Adds, Pick
  <2> QED BY <2>2
<1>4. Is(F0)
  <2> HIDE DEF Is
  <2> QED BY <1>3
<1> HIDE DEF F0
<1>5. Adds(F0, f, SUBSET Caller)
  <2>1. \A s \in SUBSET Caller : F0[s] = IF s = {} THEN 0 ELSE v[CHOOSE x \in s : TRUE].held[b] + F0[s \ {CHOOSE x \in s : TRUE}]
    BY <1>4
  <2>2. \A s \in SUBSET Caller : s # {} => f[Pick(s)] = v[CHOOSE x \in s : TRUE].held[b]
    BY PickFacts DEF Pick
  <2> QED BY <2>1, <2>2 DEF Adds, Pick
<1>6. F0 \in [SUBSET Caller -> Int]
  <2> DEFINE T == {n \in Nat : \A s \in SUBSET Caller : Cardinality(s) = n => F0[s] \in Int}
  <2>1. 0 \in T
    <3>1. F0[{}] = 0
      BY <1>5 DEF Adds
    <3>2. ASSUME NEW s \in SUBSET Caller, Cardinality(s) = 0 PROVE F0[s] \in Int
      <4>1. s = {}
        BY <3>2, PickFacts
      <4> QED BY <3>1, <4>1
    <3> QED BY <3>2
  <2>2. ASSUME NEW n \in Nat, n \in T PROVE n + 1 \in T
    <3> SUFFICES ASSUME NEW s \in SUBSET Caller, Cardinality(s) = n + 1 PROVE F0[s] \in Int
      OBVIOUS
    <3>1. s # {} /\ Pick(s) \in Caller /\ F0[s \ {Pick(s)}] \in Int
      BY <2>2, PickFacts
    <3>2. f[Pick(s)] \in Int
      BY <3>1
    <3> HIDE DEF f
    <3> QED BY <1>5, <3>1, <3>2 DEF Adds
  <2>3. \A n \in Nat : n \in T
    <3> HIDE DEF T
    <3> QED BY <2>1, <2>2, Induct
  <2>4. DOMAIN F0 = SUBSET Caller /\ F0 = [s \in SUBSET Caller |-> F0[s]]
    BY <1>4
  <2> QED BY <2>3, <2>4, PickFacts
<1>7. QED BY <1>1, <1>5, <1>6

\* It changes by what one caller takes or gives up.
LEMMA HeldMoves ==
  ASSUME NEW v, NEW w, NEW b, NEW c \in Caller,
         \A d \in Caller : v[d].held[b] \in Int /\ w[d].held[b] \in Int,
         \A d \in Caller \ {c} : w[d].held[b] = v[d].held[b]
  PROVE  HeldBy(v, b) \in Int /\ HeldBy(w, b) = HeldBy(v, b) + w[c].held[b] - v[c].held[b]
<1> DEFINE f == [d \in Caller |-> v[d].held[b]]
           g == [d \in Caller |-> w[d].held[b]]
           delta == w[c].held[b] - v[c].held[b]
<1>1. PICK F \in [SUBSET Caller -> Int] : HeldBy(v, b) = F[Caller] /\ Adds(F, f, SUBSET Caller)
  BY HeldBySums
<1>2. PICK G \in [SUBSET Caller -> Int] : HeldBy(w, b) = G[Caller] /\ Adds(G, g, SUBSET Caller)
  BY HeldBySums
<1>3. /\ delta \in Int /\ \A d \in Caller : f[d] \in Int /\ g[d] = IF d = c THEN f[d] + delta ELSE f[d]
  OBVIOUS
<1> HIDE DEF f, g, delta
<1> DEFINE T == {n \in Nat : \A s \in SUBSET Caller : Cardinality(s) = n =>
                   G[s] = F[s] + (IF c \in s THEN delta ELSE 0)}
<1>4. 0 \in T
  <2>1. F[{}] = 0 /\ G[{}] = 0
    BY <1>1, <1>2 DEF Adds
  <2>2. ASSUME NEW s \in SUBSET Caller, Cardinality(s) = 0
        PROVE  G[s] = F[s] + (IF c \in s THEN delta ELSE 0)
    <3>1. s = {}
      BY <2>2, PickFacts
    <3>2. c \notin s /\ F[s] = 0 /\ G[s] = 0
      BY <2>1, <3>1
    <3> QED BY <3>2
  <2> QED BY <2>2
<1>5. ASSUME NEW n \in Nat, n \in T PROVE n + 1 \in T
  <2> SUFFICES ASSUME NEW s \in SUBSET Caller, Cardinality(s) = n + 1
               PROVE  G[s] = F[s] + (IF c \in s THEN delta ELSE 0)
    OBVIOUS
  <2> DEFINE x == Pick(s)
             r == s \ {x}
  <2>1. s # {} /\ x \in s /\ x \in Caller /\ r \in SUBSET Caller /\ Cardinality(r) = n
    BY PickFacts
  <2>2. G[r] = F[r] + (IF c \in r THEN delta ELSE 0)
    BY <1>5, <2>1
  <2>3. F[s] = f[x] + F[r] /\ G[s] = g[x] + G[r]
    BY <1>1, <1>2, <2>1 DEF Adds
  <2>4. F[r] \in Int /\ f[x] \in Int /\ g[x] = IF x = c THEN f[x] + delta ELSE f[x]
    BY <1>3, <2>1
  <2>5. c \in s <=> (x = c \/ c \in r)
    BY <2>1
  <2>6. ~(x = c /\ c \in r)
    OBVIOUS
  <2> HIDE DEF x, r
  <2> QED BY <1>3, <2>2, <2>3, <2>4, <2>5, <2>6
<1>6. \A n \in Nat : n \in T
  <2> HIDE DEF T
  <2> QED BY <1>4, <1>5, Induct
<1>7. Cardinality(Caller) \in Nat
  BY PickFacts
<1>8. G[Caller] = F[Caller] + delta /\ F[Caller] \in Int
  BY <1>6, <1>7
<1> QED BY <1>1, <1>2, <1>8, <1>3 DEF delta
-----------------------------------------------------------------------------
(* What a caller holds along the calls that remain.                        *)

Holds == [Bucket -> Nat]

\* A call may come when a caller holds h, and leaves it e.  It gives back only what it
\* holds, asks only with what the answer may cost and keeps nothing beside, reserves
\* nothing after the fact, and holds nothing when it stores an answer or abandons.  A
\* reserve may come only when it holds one of R.
Onward(R, x, h, e) ==
  \/ \E b \in Bucket : x = Reserve(b) /\ h \in R /\ e = [h EXCEPT ![b] = h[b] + 1]
  \/ \E b \in Bucket : x = Release(b) /\ h[b] > 0 /\ e = [h EXCEPT ![b] = h[b] - 1]
  \/ \E b \in Bucket : x = Exhaust(b) /\ e = [h EXCEPT ![b] = 0]
  \/ x = Ask("search") /\ h["search"] = 1 /\ h["verification"] >= Headroom /\ e = NoneHeld
  \/ x = Ask("verifier") /\ h = [NoneHeld EXCEPT !["verification"] = 1] /\ e = NoneHeld
  \/ (x = Abandon \/ \E a \in Answers : x = Complete(a)) /\ h = NoneHeld /\ e = NoneHeld

\* The calls t lead from holding h to holding e.
Leads(R, t, h, e) ==
  \E f \in [0..Len(t) -> Holds] :
    /\ f[0] = h /\ f[Len(t)] = e
    /\ \A i \in 1..Len(t) : Onward(R, t[i], f[i - 1], f[i])

\* No calls lead nowhere.
LEMMA LeadsNone == ASSUME NEW R, NEW h \in Holds PROVE Leads(R, <<>>, h, h)
<1> DEFINE f == [i \in 0..0 |-> h]
<1>1. f \in [0..Len(<<>>) -> Holds] /\ f[0] = h /\ f[Len(<<>>)] = h
  OBVIOUS
<1>2. \A i \in 1..Len(<<>>) : FALSE
  OBVIOUS
<1> HIDE DEF f
<1> QED BY <1>1, <1>2 DEF Leads

\* And nowhere else.
LEMMA LeadsNowhere ==
  ASSUME NEW R, NEW h, NEW e, Leads(R, <<>>, h, e) PROVE h = e
BY DEF Leads

\* One call leads one step.
LEMMA LeadsOne ==
  ASSUME NEW R, NEW x, NEW h \in Holds, NEW e \in Holds, Onward(R, x, h, e) PROVE Leads(R, <<x>>, h, e)
<1> DEFINE f == [i \in 0..1 |-> IF i = 0 THEN h ELSE e]
<1>1. f \in [0..Len(<<x>>) -> Holds] /\ f[0] = h /\ f[1] = e /\ Len(<<x>>) = 1
  OBVIOUS
<1> HIDE DEF f
<1>2. \A i \in 1..Len(<<x>>) : i = 1 /\ <<x>>[i] = x
  BY <1>1
<1>3. \A i \in 1..Len(<<x>>) : Onward(R, <<x>>[i], f[i - 1], f[i])
  BY <1>1, <1>2
<1> QED BY <1>1, <1>3 DEF Leads

\* Calls after calls.
LEMMA LeadsBoth ==
  ASSUME NEW R, NEW S, NEW s \in Seq(S), NEW t \in Seq(S), NEW h, NEW g, NEW e,
         Leads(R, s, h, g), Leads(R, t, g, e)
  PROVE  Leads(R, s \o t, h, e)
<1>1. PICK f1 \in [0..Len(s) -> Holds] :
        /\ f1[0] = h /\ f1[Len(s)] = g
        /\ \A i \in 1..Len(s) : Onward(R, s[i], f1[i - 1], f1[i])
  BY DEF Leads
<1>2. PICK f2 \in [0..Len(t) -> Holds] :
        /\ f2[0] = g /\ f2[Len(t)] = e
        /\ \A i \in 1..Len(t) : Onward(R, t[i], f2[i - 1], f2[i])
  BY DEF Leads
<1> DEFINE m == Len(s)
           n == Len(t)
           f == [i \in 0..(m + n) |-> IF i <= m THEN f1[i] ELSE f2[i - m]]
<1>3. m \in Nat /\ n \in Nat
  BY LenProperties
<1>4. /\ Len(s \o t) = m + n
      /\ \A i \in 1..(m + n) : (s \o t)[i] = IF i <= m THEN s[i] ELSE t[i - m]
  BY ConcatProperties
<1> HIDE DEF m, n
<1>5. f \in [0..(m + n) -> Holds]
  BY <1>1, <1>2, <1>3 DEF m, n
<1>6. \A i \in 0..(m + n) : f[i] = IF i <= m THEN f1[i] ELSE f2[i - m]
  OBVIOUS
<1> HIDE DEF f
<1>7. f[0] = h /\ f[m + n] = e
  <2>1. f[0] = h
    BY <1>1, <1>3, <1>6 DEF m
  <2>2. CASE n = 0
    BY <1>1, <1>2, <1>3, <1>6, <2>1, <2>2 DEF m, n
  <2>3. CASE n # 0
    <3>1. m + n \in 0..(m + n) /\ ~(m + n <= m) /\ (m + n) - m = n
      BY <1>3, <2>3
    <3>2. f[m + n] = f2[n]
      BY <1>6, <3>1
    <3> QED BY <1>2, <2>1, <3>2 DEF n
  <2> QED BY <2>2, <2>3
<1>8. ASSUME NEW i \in 1..(m + n) PROVE Onward(R, (s \o t)[i], f[i - 1], f[i])
  <2>1. CASE i <= m
    <3>1. i \in 1..m /\ i \in 0..(m + n) /\ i - 1 \in 0..(m + n) /\ i - 1 <= m
      BY <1>3, <2>1
    <3>2. (s \o t)[i] = s[i] /\ f[i - 1] = f1[i - 1] /\ f[i] = f1[i]
      BY <1>4, <1>6, <2>1, <3>1
    <3> QED BY <1>1, <3>1, <3>2 DEF m
  <2>2. CASE i > m
    <3> DEFINE j == i - m
    <3>1. j \in 1..n /\ i \in 0..(m + n) /\ i - 1 \in 0..(m + n) /\ ~(i <= m)
      BY <1>3, <2>2
    <3>2. (s \o t)[i] = t[j] /\ f[i] = f2[j]
      BY <1>4, <1>6, <3>1
    <3>3. f[i - 1] = f2[j - 1]
      <4>1. CASE j = 1
        BY <1>1, <1>2, <1>3, <1>6, <3>1, <4>1 DEF m
      <4>2. CASE j # 1
        <5>1. ~(i - 1 <= m) /\ (i - 1) - m = j - 1
          BY <1>3, <3>1, <4>2
        <5> QED BY <1>6, <3>1, <5>1
      <4> QED BY <4>1, <4>2
    <3> HIDE DEF j
    <3> QED BY <1>2, <3>1, <3>2, <3>3 DEF n
  <2>3. i <= m \/ i > m
    BY <1>3
  <2> QED BY <2>1, <2>2, <2>3
<1> QED BY <1>4, <1>5, <1>7, <1>8 DEF Leads

\* The first of the calls leads to where the others begin.
LEMMA LeadsRest ==
  ASSUME NEW R, NEW S, NEW t \in Seq(S), t # <<>>, NEW h, NEW e, Leads(R, t, h, e)
  PROVE  \E g \in Holds : Onward(R, Head(t), h, g) /\ Leads(R, Tail(t), g, e)
<1>1. PICK f \in [0..Len(t) -> Holds] :
        /\ f[0] = h /\ f[Len(t)] = e
        /\ \A i \in 1..Len(t) : Onward(R, t[i], f[i - 1], f[i])
  BY DEF Leads
<1> DEFINE n == Len(t)
           k == [i \in 0..(n - 1) |-> f[i + 1]]
<1>2. n \in Nat /\ n >= 1
  BY EmptySeq, LenProperties
<1>3. Head(t) = t[1] /\ Len(Tail(t)) = n - 1 /\ \A i \in 1..(n - 1) : Tail(t)[i] = t[i + 1]
  BY HeadTailProperties
<1> HIDE DEF n
<1>4. k \in [0..(n - 1) -> Holds] /\ k[0] = f[1] /\ k[n - 1] = e
  BY <1>1, <1>2 DEF n
<1>5. \A i \in 0..(n - 1) : k[i] = f[i + 1]
  OBVIOUS
<1> HIDE DEF k
<1>6. ASSUME NEW i \in 1..(n - 1) PROVE Onward(R, Tail(t)[i], k[i - 1], k[i])
  <2> DEFINE j == i + 1
  <2>1. j \in 1..n /\ i \in 0..(n - 1) /\ i - 1 \in 0..(n - 1) /\ j - 1 = i /\ (i - 1) + 1 = i
    BY <1>2
  <2>2. k[i - 1] = f[j - 1] /\ k[i] = f[j] /\ Tail(t)[i] = t[j]
    BY <1>3, <1>5, <2>1
  <2> HIDE DEF j
  <2> QED BY <1>1, <2>1, <2>2 DEF n
<1>7. Onward(R, Head(t), h, f[1]) /\ f[1] \in Holds
  BY <1>1, <1>2, <1>3 DEF n
<1>8. Leads(R, Tail(t), f[1], e)
  BY <1>3, <1>4, <1>6 DEF Leads
<1> QED BY <1>7, <1>8

\* Everything held of a bucket is given back.
LEMMA LeadsBack ==
  ASSUME NEW R, NEW h \in Holds, NEW b \in Bucket
  PROVE  [h EXCEPT ![b] = 0] \in Holds /\ Leads(R, Back(h, b), h, [h EXCEPT ![b] = 0])
<1> DEFINE n == h[b]
           f == [i \in 0..n |-> [h EXCEPT ![b] = n - i]]
           t == Times(n, Release(b))
<1>1. n \in Nat /\ t = [i \in 1..n |-> Release(b)] /\ Len(t) = n
  BY DEF Holds, Times
<1>2. \A i \in 1..n : t[i] = Release(b)
  BY <1>1
<1>3. f \in [0..n -> Holds] /\ [h EXCEPT ![b] = 0] \in Holds
  BY <1>1 DEF Holds
<1>4. f[0] = h /\ f[n] = [h EXCEPT ![b] = 0]
  <2>1. 0 \in 0..n /\ n \in 0..n /\ n - 0 = n /\ n - n = 0
    BY <1>1
  <2>2. f[0] = [h EXCEPT ![b] = n] /\ f[n] = [h EXCEPT ![b] = 0]
    <3> HIDE DEF n
    <3> QED BY <2>1
  <2>3. [h EXCEPT ![b] = h[b]] = h
    BY DEF Holds
  <2> QED BY <2>2, <2>3
<1>5. ASSUME NEW i \in 1..n PROVE Onward(R, t[i], f[i - 1], f[i])
  <2>1. i \in 0..n /\ i - 1 \in 0..n /\ n - (i - 1) > 0 /\ (n - (i - 1)) - 1 = n - i
    BY <1>1
  <2>2. f[i - 1] = [h EXCEPT ![b] = n - (i - 1)] /\ f[i] = [h EXCEPT ![b] = n - i]
    BY <2>1
  <2>3. f[i - 1][b] = n - (i - 1) /\ f[i] = [f[i - 1] EXCEPT ![b] = f[i - 1][b] - 1]
    BY <2>1, <2>2 DEF Holds
  <2> HIDE DEF f
  <2> QED BY <1>2, <2>1, <2>3 DEF Onward
<1> HIDE DEF n, f, t
<1>6. Leads(R, t, h, [h EXCEPT ![b] = 0])
  BY <1>1, <1>3, <1>4, <1>5 DEF Leads
<1> QED BY <1>3, <1>6 DEF Back, n, t

\* So many are reserved.
LEMMA LeadsReserve ==
  ASSUME NEW h \in Holds, NEW b \in Bucket, NEW n \in Nat
  PROVE  [h EXCEPT ![b] = h[b] + n] \in Holds
         /\ Leads(Holds, Times(n, Reserve(b)), h, [h EXCEPT ![b] = h[b] + n])
<1> DEFINE f == [i \in 0..n |-> [h EXCEPT ![b] = h[b] + i]]
           t == Times(n, Reserve(b))
<1>1. h[b] \in Nat /\ t = [i \in 1..n |-> Reserve(b)] /\ Len(t) = n
  BY DEF Holds, Times
<1>2. \A i \in 1..n : t[i] = Reserve(b)
  BY <1>1
<1>3. f \in [0..n -> Holds] /\ [h EXCEPT ![b] = h[b] + n] \in Holds
  BY <1>1 DEF Holds
<1>4. f[0] = h /\ f[n] = [h EXCEPT ![b] = h[b] + n]
  BY <1>1 DEF Holds
<1>5. ASSUME NEW i \in 1..n PROVE Onward(Holds, t[i], f[i - 1], f[i])
  <2>1. i \in 0..n /\ i - 1 \in 0..n /\ (h[b] + (i - 1)) + 1 = h[b] + i
    BY <1>1
  <2>2. f[i - 1] = [h EXCEPT ![b] = h[b] + (i - 1)] /\ f[i] = [h EXCEPT ![b] = h[b] + i]
    BY <2>1
  <2>3. f[i - 1][b] = h[b] + (i - 1) /\ f[i] = [f[i - 1] EXCEPT ![b] = f[i - 1][b] + 1]
    BY <2>1, <2>2 DEF Holds
  <2> HIDE DEF f
  <2>4. f[i - 1] \in Holds
    BY <1>3, <2>1
  <2> QED BY <1>2, <2>3, <2>4 DEF Onward
<1> HIDE DEF f, t
<1>6. Leads(Holds, t, h, [h EXCEPT ![b] = h[b] + n])
  BY <1>1, <1>3, <1>4, <1>5 DEF Leads
<1> QED BY <1>3, <1>6 DEF t
-----------------------------------------------------------------------------
(* The budget covers what Hunter counted and what callers hold.            *)

\* What a caller may hold when a reserve is refused: anything while the refusal undoes its
\* claim, and nothing when it ends the lookup.
May(t) == IF Searching(t) THEN Holds ELSE {NoneHeld}

\* A caller's calls can all be made with what it holds, and leave it nothing.
CanDo(v) == v.held \in Holds /\ Leads(May(v.todo), v.todo, v.held, NoneHeld)

Planned == \A c \in Caller : CanDo(caller[c])

\* A budget call of a caller fails, or the caller dies.
Fails(c) == Killed(c) \/ (Lossy /\ MayFail(c) /\ caller'[c] # caller[c])

\* A caller that comes to hold h takes no bucket further from covering all there is, and
\* an open bucket nearer only by a failure.
Fits(c, h) ==
  \A b \in Bucket :
    LET before == counted[month][b] + caller[c].held[b] - budget[month][b].used
        after == counted'[month'][b] + h[b] - budget'[month'][b].used
    IN  after <= before /\ (after < before => budget'[month'][b].exhausted \/ Fails(c))

\* The step that LostByFailure allows.
Lossless ==
  \A b \in Bucket :
    ~budget'[month][b].exhausted /\ Slack(b)' # Slack(b) =>
      /\ Slack(b)' > Slack(b)
      /\ \E c \in Caller : Fails(c)

\* The sum when one caller is replaced.
LEMMA HeldReplaced ==
  ASSUME NEW v \in [Caller -> CallerType], NEW c \in Caller, NEW x \in CallerType, NEW b \in Bucket
  PROVE  HeldBy(v, b) \in Int
         /\ HeldBy([v EXCEPT ![c] = x], b) = HeldBy(v, b) + x.held[b] - v[c].held[b]
<1>1. PICK w : w = [v EXCEPT ![c] = x]
  OBVIOUS
<1>2. /\ \A d \in Caller : v[d].held[b] \in Int /\ w[d].held[b] \in Int
      /\ \A d \in Caller \ {c} : w[d].held[b] = v[d].held[b]
      /\ w[c].held[b] = x.held[b]
  BY <1>1 DEF CallerType
<1>3. HeldBy(v, b) \in Int /\ HeldBy(w, b) = HeldBy(v, b) + w[c].held[b] - v[c].held[b]
  <2>1. \A d \in Caller : v[d].held[b] \in Int /\ w[d].held[b] \in Int
    BY <1>2
  <2>2. \A d \in Caller \ {c} : w[d].held[b] = v[d].held[b]
    BY <1>2
  <2> QED BY ZenonT(30), <2>1, <2>2, HeldMoves
<1> QED BY <1>1, <1>2, <1>3

\* A caller changes, and the gap of no bucket grows by it.
LEMMA CallerMoves ==
  ASSUME IInv, IInv', Planned, NeverUndercounts, NEW c \in Caller, NEW v,
         caller' = [caller EXCEPT ![c] = v], CanDo(v), Fits(c, v.held), month' = month
  PROVE  Planned' /\ NeverUndercounts' /\ Lossless
<1>1. \A d \in Caller : caller'[d] = IF d = c THEN v ELSE caller[d]
  BY DEF IInv, TypeOK
<1>2. Planned'
  <2> SUFFICES ASSUME NEW d \in Caller PROVE CanDo(caller'[d])
    BY DEF Planned, CanDo, May
  <2> QED BY <1>1 DEF Planned
<1>3. ASSUME NEW b \in Bucket
      PROVE  /\ counted'[month'][b] + HeldByAll(b)' <= budget'[month'][b].used
             /\ Slack(b)' >= Slack(b) /\ Slack(b) \in Int /\ Slack(b)' \in Int
             /\ Slack(b)' # Slack(b) => budget'[month][b].exhausted \/ Fails(c)
  <2>1. caller \in [Caller -> CallerType] /\ v \in CallerType
    <3>1. caller \in [Caller -> CallerType] /\ caller' \in [Caller -> CallerType]
      BY TypeSplits DEF IInv, TypeOK, CallerType
    <3> QED BY <1>1, <3>1
  <2>2. HeldBy(caller, b) \in Int
        /\ HeldBy(caller', b) = HeldBy(caller, b) + v.held[b] - caller[c].held[b]
    BY <2>1, HeldReplaced
  <2>3. HeldByAll(b) = HeldBy(caller, b) /\ HeldByAll(b)' = HeldBy(caller', b)
    BY DEF HeldByAll, HeldBy, MapThenSumSet, MapThenFoldSet
  <2>4. counted[month][b] + HeldByAll(b) <= budget[month][b].used
    BY DEF NeverUndercounts
  <2>5. /\ counted[month][b] \in Int /\ budget[month][b].used \in Int
        /\ counted'[month'][b] \in Int /\ budget'[month'][b].used \in Int
    <3>1. counted[month][b] \in Int /\ budget[month][b].used \in Int
      BY HunterAssumption DEF IInv, TypeOK
    <3>2. counted'[month'][b] \in Int /\ budget'[month'][b].used \in Int
      BY HunterAssumption DEF IInv, TypeOK
    <3> QED BY <3>1, <3>2
  <2>6. PICK before, after :
          /\ before = counted[month][b] + caller[c].held[b] - budget[month][b].used
          /\ after = counted'[month'][b] + v.held[b] - budget'[month'][b].used
    OBVIOUS
  <2>7. after <= before /\ (after < before => budget'[month'][b].exhausted \/ Fails(c))
    BY <2>6 DEF Fits
  <2>8. v.held[b] \in Int /\ caller[c].held[b] \in Int
    BY <2>1 DEF CallerType
  <2>9. counted'[month'][b] + HeldByAll(b)' <= budget'[month'][b].used
    BY <2>2, <2>3, <2>4, <2>5, <2>6, <2>7, <2>8
  <2>10. /\ Slack(b) = budget[month][b].used - counted[month][b] - HeldBy(caller, b)
         /\ Slack(b)' = budget'[month'][b].used - counted'[month'][b] - HeldBy(caller', b)
    BY <2>3 DEF Slack
  <2>11. /\ Slack(b)' = Slack(b) + before - after /\ Slack(b) \in Int
         /\ before \in Int /\ after \in Int
    BY <2>2, <2>5, <2>6, <2>8, <2>10
  <2>12. Slack(b)' >= Slack(b) /\ Slack(b)' \in Int /\ (Slack(b)' # Slack(b) => after < before)
    BY <2>7, <2>11
  <2> QED BY <2>7, <2>9, <2>11, <2>12
<1>4. NeverUndercounts'
  BY <1>3 DEF NeverUndercounts
<1>5. Lossless
  <2> SUFFICES ASSUME NEW b \in Bucket, ~budget'[month][b].exhausted, Slack(b)' # Slack(b)
               PROVE  Slack(b)' > Slack(b) /\ \E d \in Caller : Fails(d)
    BY DEF Lossless
  <2>1. Slack(b)' >= Slack(b) /\ Slack(b) \in Int /\ Slack(b)' \in Int /\ Fails(c)
    BY <1>3
  <2>2. Slack(b)' > Slack(b)
    BY <2>1
  <2> QED BY <2>1, <2>2
<1> QED BY <1>2, <1>4, <1>5

\* The calls that remain after the first are the end of the same way.
LEMMA MayRest ==
  ASSUME NEW S, NEW t \in Seq(S), t # <<>>, Tail(t) # <<>> PROVE May(Tail(t)) = May(t)
<1>1. Len(Tail(t)) = Len(t) - 1 /\ Len(t) \in Nat /\ Tail(t) \in Seq(S)
      /\ \A i \in 1..(Len(t) - 1) : Tail(t)[i] = t[i + 1]
  BY HeadTailProperties, LenProperties
<1>2. Len(Tail(t)) # 0
  BY <1>1, EmptySeq
<1>3. Len(t) - 1 \in 1..(Len(t) - 1) /\ (Len(t) - 1) + 1 = Len(t)
  BY <1>1, <1>2
<1>4. Tail(t)[Len(Tail(t))] = t[Len(t)]
  BY <1>1, <1>3
<1> QED BY <1>4 DEF May, Searching, Last

\* The calls before a caller, from the first of them on.
LEMMA PlanOf ==
  ASSUME IInv, Planned, NEW c \in Caller, NEW x, Does(c, x)
  PROVE  /\ caller[c].held \in Holds
         /\ \E g \in Holds :
              /\ Onward(May(caller[c].todo), x, caller[c].held, g)
              /\ Leads(May(Rest(c)), Rest(c), g, NoneHeld)
<1> DEFINE t == caller[c].todo
<1>1. caller[c].held \in Holds /\ Leads(May(t), t, caller[c].held, NoneHeld)
  BY DEF Planned, CanDo
<1>2. t \in Seq(Calls) /\ t # <<>> /\ Head(t) = x
  BY DEF IInv, TypeOK, Does
<1> HIDE DEF t
<1>3. PICK g \in Holds : Onward(May(t), x, caller[c].held, g) /\ Leads(May(t), Tail(t), g, NoneHeld)
  BY <1>1, <1>2, LeadsRest
<1>4. Leads(May(Tail(t)), Tail(t), g, NoneHeld)
  <2>1. CASE Tail(t) = <<>>
    <3>1. g = NoneHeld
      BY <1>3, <2>1, LeadsNowhere
    <3> QED BY <2>1, <3>1, LeadsNone
  <2>2. CASE Tail(t) # <<>>
    BY <1>2, <1>3, <2>2, MayRest
  <2> QED BY <2>1, <2>2
<1> QED BY <1>1, <1>3, <1>4 DEF Rest, t

\* A caller goes on with calls it can make, or stops with nothing.
LEMMA CallerGoes ==
  ASSUME IInv, IInv', Planned, NeverUndercounts, NEW c \in Caller, NEW t,
         NEW h \in Holds, Leads(May(t), t, h, NoneHeld), Goes(c, t, h), Fits(c, h), month' = month
  PROVE  Planned' /\ NeverUndercounts' /\ Lossless
<1> DEFINE v == IF t = <<>> THEN Idle ELSE [key |-> caller[c].key, todo |-> t, held |-> h]
<1>1. caller' = [caller EXCEPT ![c] = v]
  BY DEF Goes
<1>2. t = <<>> => h = NoneHeld
  BY LeadsNowhere
<1>3. CanDo(v) /\ v.held = h
  BY <1>2, LeadsNone DEF CanDo, Idle
<1> HIDE DEF v
<1> QED BY <1>1, <1>3, CallerMoves
-----------------------------------------------------------------------------
(* The calls that callers go on with.                                      *)

\* Which calls may come when, and what they leave.
LEMMA OnwardFacts ==
  ASSUME NEW R, NEW h, NEW e
  PROVE  /\ \A b \in Bucket :
              /\ Onward(R, Reserve(b), h, e) <=> h \in R /\ e = [h EXCEPT ![b] = h[b] + 1]
              /\ Onward(R, Release(b), h, e) <=> h[b] > 0 /\ e = [h EXCEPT ![b] = h[b] - 1]
              /\ Onward(R, Exhaust(b), h, e) <=> e = [h EXCEPT ![b] = 0]
         /\ Onward(R, Ask("search"), h, e) <=>
              h["search"] = 1 /\ h["verification"] >= Headroom /\ e = NoneHeld
         /\ Onward(R, Ask("verifier"), h, e) <=>
              h = [NoneHeld EXCEPT !["verification"] = 1] /\ e = NoneHeld
         /\ Onward(R, Abandon, h, e) <=> h = NoneHeld /\ e = NoneHeld
         /\ \A a \in Answers : Onward(R, Complete(a), h, e) <=> h = NoneHeld /\ e = NoneHeld
         /\ ~Onward(R, Cover, h, e)
<1> USE DEF Onward, Reserve, Release, Exhaust, Ask, Abandon, Complete, Cover
<1>1. \A b \in Bucket : Onward(R, Reserve(b), h, e) <=> h \in R /\ e = [h EXCEPT ![b] = h[b] + 1]
  OBVIOUS
<1>2. \A b \in Bucket :
        Onward(R, Release(b), h, e) <=> h[b] > 0 /\ e = [h EXCEPT ![b] = h[b] - 1]
  OBVIOUS
<1>3. \A b \in Bucket : Onward(R, Exhaust(b), h, e) <=> e = [h EXCEPT ![b] = 0]
  OBVIOUS
<1>4. Onward(R, Ask("search"), h, e) <=>
        h["search"] = 1 /\ h["verification"] >= Headroom /\ e = NoneHeld
  OBVIOUS
<1>5. Onward(R, Ask("verifier"), h, e) <=>
        h = [NoneHeld EXCEPT !["verification"] = 1] /\ e = NoneHeld
  OBVIOUS
<1>6. Onward(R, Abandon, h, e) <=> h = NoneHeld /\ e = NoneHeld
  OBVIOUS
<1>7. \A a \in Answers : Onward(R, Complete(a), h, e) <=> h = NoneHeld /\ e = NoneHeld
  OBVIOUS
<1>8. ~Onward(R, Cover, h, e)
  OBVIOUS
<1> QED BY <1>1, <1>2, <1>3, <1>4, <1>5, <1>6, <1>7, <1>8

\* Holding nothing, and nothing of two buckets.
LEMMA NoneFacts ==
  /\ {"search", "verification"} \subseteq Bucket
  /\ NoneHeld \in Holds /\ \A b \in Bucket : NoneHeld[b] = 0
  /\ \A h \in Holds : h = NoneHeld <=> h["search"] = 0 /\ h["verification"] = 0
  /\ \A t : NoneHeld \in May(t)
<1>1. {"search", "verification"} \subseteq Bucket
  BY DEF Bucket
<1>2. NoneHeld \in Holds /\ \A b \in Bucket : NoneHeld[b] = 0
  BY DEF NoneHeld, Holds
<1>3. ASSUME NEW h \in Holds, h["search"] = 0, h["verification"] = 0 PROVE h = NoneHeld
  <2>1. \A b \in Bucket : h[b] = 0
    BY <1>3 DEF Bucket
  <2> QED BY <2>1 DEF Holds, NoneHeld
<1>4. \A t : NoneHeld \in May(t)
  BY <1>2 DEF May
<1> QED BY <1>1, <1>2, <1>3, <1>4

\* What is given back, and a single call, are sequences of calls.
LEMMA CallsType ==
  /\ \A h \in Holds, b \in Bucket : Back(h, b) \in Seq(Calls)
  /\ \A x \in Calls : <<x>> \in Seq(Calls)
  /\ \A b \in Bucket : {Reserve(b), Release(b), Exhaust(b)} \subseteq Calls
  /\ \A a \in Answers : Complete(a) \in Calls
  /\ {Abandon, Ask("search"), Ask("verifier")} \subseteq Calls
<1>1. ASSUME NEW h \in Holds, NEW b \in Bucket PROVE Back(h, b) \in Seq(Calls)
  <2>1. h \in [Bucket -> Int]
    BY DEF Holds
  <2> QED BY <2>1, BackType, BudgetIsOther, TodoType
<1>2. \A x \in Calls : <<x>> \in Seq(Calls)
  OBVIOUS
<1>3. \A b \in Bucket : {Reserve(b), Release(b), Exhaust(b)} \subseteq Calls
  BY CallFacts
<1>4. \A a \in Answers : Complete(a) \in Calls
  BY CallFacts
<1>5. {Abandon, Ask("search"), Ask("verifier")} \subseteq Calls
  BY CallFacts DEF OwnerCalls
<1> QED BY <1>1, <1>2, <1>3, <1>4, <1>5

\* Both buckets are given back, in either order, and a call follows that needs nothing.
LEMMA LeadsUndo ==
  ASSUME NEW R, NEW h \in Holds, NEW a \in Bucket, NEW b \in Bucket, a # b,
         NEW x \in Calls, Onward(R, x, NoneHeld, NoneHeld)
  PROVE  Leads(R, Back(h, a) \o Back(h, b) \o <<x>>, h, NoneHeld)
<1>1. PICK g \in Holds : g = [h EXCEPT ![a] = 0] /\ Leads(R, Back(h, a), h, g)
  BY LeadsBack
<1>2. PICK e \in Holds : e = [g EXCEPT ![b] = 0] /\ Leads(R, Back(g, b), g, e)
  BY LeadsBack
<1>3. Back(g, b) = Back(h, b) /\ e = NoneHeld
  <2>1. g[b] = h[b]
    BY <1>1 DEF Holds
  <2>2. \A q \in Bucket : q = a \/ q = b
    BY DEF Bucket
  <2>3. e[a] = 0 /\ e[b] = 0
    BY <1>1, <1>2 DEF Holds
  <2>4. e["search"] = 0 /\ e["verification"] = 0
    BY <2>2, <2>3, NoneFacts
  <2> QED BY <2>1, <2>4, NoneFacts DEF Back
<1>4. Leads(R, <<x>>, NoneHeld, NoneHeld)
  BY NoneFacts, LeadsOne
<1>5. Back(h, a) \in Seq(Calls) /\ Back(h, b) \in Seq(Calls) /\ <<x>> \in Seq(Calls)
  BY CallsType
<1>6. Leads(R, Back(h, a) \o Back(h, b), h, NoneHeld)
  BY <1>1, <1>2, <1>3, <1>5, LeadsBoth
<1>7. Back(h, a) \o Back(h, b) \in Seq(Calls)
  BY <1>5, ConcatProperties
<1> QED BY <1>4, <1>5, <1>6, <1>7, LeadsBoth

\* The calls with which a claim is undone.
LEMMA LeadsGiveUp ==
  ASSUME NEW R, NEW h \in Holds
  PROVE  /\ Leads(R, GiveUp(h), h, NoneHeld)
         /\ Leads(R, ReleaseOpen(h), h, NoneHeld)
         /\ Leads(R, <<Exhaust("search")>> \o Back(h, "verification") \o <<Abandon>>, h, NoneHeld)
         /\ Leads(R, Back(h, "search") \o Back(h, "verification") \o <<Complete("not_found")>>,
                  h, NoneHeld)
<1>1. "search" \in Bucket /\ "verification" \in Bucket /\ "not_found" \in Answers
  BY DEF Bucket, Answers
<1>2. Abandon \in Calls /\ Complete("not_found") \in Calls /\ Exhaust("search") \in Calls
  BY <1>1, CallsType
<1>3. Onward(R, Abandon, NoneHeld, NoneHeld) /\ Onward(R, Complete("not_found"), NoneHeld, NoneHeld)
  BY <1>1, OnwardFacts
<1>4. /\ Leads(R, GiveUp(h), h, NoneHeld)
      /\ Leads(R, ReleaseOpen(h), h, NoneHeld)
      /\ Leads(R, Back(h, "search") \o Back(h, "verification") \o <<Complete("not_found")>>,
               h, NoneHeld)
  BY <1>1, <1>2, <1>3, LeadsUndo DEF GiveUp, ReleaseOpen
<1>5. Leads(R, <<Exhaust("search")>> \o Back(h, "verification") \o <<Abandon>>, h, NoneHeld)
  <2>1. PICK g \in Holds : g = [h EXCEPT !["search"] = 0] /\ Leads(R, <<Exhaust("search")>>, h, g)
    <3>1. [h EXCEPT !["search"] = 0] \in Holds
      BY <1>1, LeadsBack
    <3>2. Onward(R, Exhaust("search"), h, [h EXCEPT !["search"] = 0])
      BY <1>1, OnwardFacts
    <3> QED BY <3>1, <3>2, LeadsOne
  <2>2. PICK e \in Holds : e = [g EXCEPT !["verification"] = 0] /\ Leads(R, Back(g, "verification"), g, e)
    BY <1>1, LeadsBack
  <2>3. Back(g, "verification") = Back(h, "verification") /\ e = NoneHeld
    <3>1. g["verification"] = h["verification"] /\ e["search"] = 0 /\ e["verification"] = 0
      BY <1>1, <2>1, <2>2 DEF Holds
    <3> QED BY <3>1, NoneFacts DEF Back
  <2>4. Leads(R, <<Abandon>>, e, e)
    BY <1>3, <2>3, NoneFacts, LeadsOne
  <2>5. /\ <<Exhaust("search")>> \in Seq(Calls) /\ Back(h, "verification") \in Seq(Calls)
        /\ <<Abandon>> \in Seq(Calls)
    BY <1>1, <1>2, CallsType
  <2>6. Leads(R, <<Exhaust("search")>> \o Back(h, "verification"), h, e)
    BY <2>1, <2>2, <2>3, <2>5, LeadsBoth
  <2>7. <<Exhaust("search")>> \o Back(h, "verification") \in Seq(Calls)
    BY <2>5, ConcatProperties
  <2>8. Leads(R, (<<Exhaust("search")>> \o Back(h, "verification")) \o <<Abandon>>, h, e)
    BY <2>4, <2>5, <2>6, <2>7, LeadsBoth
  <2> QED BY <2>3, <2>8
<1> QED BY <1>4, <1>5

\* One of the holdings changes.
LEMMA HoldsExcept ==
  ASSUME NEW h \in Holds, NEW b \in Bucket, NEW n \in Nat
  PROVE  [h EXCEPT ![b] = n] \in Holds /\ [h EXCEPT ![b] = n][b] = n
BY DEF Holds

\* A claim starts with calls that can all be made, and a refused reserve undoes it.
LEMMA LeadsSearch == Leads(May(ToSearch), ToSearch, NoneHeld, NoneHeld)
<1> DEFINE t == Times(Headroom, Reserve("verification"))
<1>1. "search" \in Bucket /\ "verification" \in Bucket /\ NoneHeld \in Holds
  BY NoneFacts
<1>2. PICK g \in Holds : g = [NoneHeld EXCEPT !["search"] = 1]
  BY <1>1 DEF Holds
<1>3. Leads(Holds, <<Reserve("search")>>, NoneHeld, g)
  <2>1. NoneHeld["search"] = 0
    BY <1>1 DEF NoneHeld
  <2>2. g = [NoneHeld EXCEPT !["search"] = NoneHeld["search"] + 1]
    BY <1>2, <2>1
  <2>3. Onward(Holds, Reserve("search"), NoneHeld, g)
    BY <1>1, <2>2 DEF Onward
  <2> QED BY <1>1, <2>3, LeadsOne
<1>4. PICK e \in Holds : /\ e = [g EXCEPT !["verification"] = g["verification"] + Headroom]
                         /\ Leads(Holds, t, g, e)
  BY <1>1, HunterAssumption, LeadsReserve
<1>5. e["search"] = 1 /\ e["verification"] = Headroom
  BY <1>1, <1>2, <1>4, HunterAssumption DEF NoneHeld
<1>6. Leads(Holds, <<Ask("search")>>, e, NoneHeld)
  <2>1. Onward(Holds, Ask("search"), e, NoneHeld)
    BY <1>5, HunterAssumption, OnwardFacts
  <2> QED BY <1>1, <2>1, LeadsOne
<1>7. <<Reserve("search")>> \in Seq(Calls) /\ t \in Seq(Calls) /\ <<Ask("search")>> \in Seq(Calls)
  <2>1. Reserve("search") \in Calls /\ Reserve("verification") \in Calls /\ Ask("search") \in Calls
    BY <1>1, CallsType
  <2>2. Headroom \in Int
    BY HunterAssumption
  <2> QED BY <2>1, <2>2, CallsType, TimesType
<1> HIDE DEF t
<1>8. Leads(Holds, <<Reserve("search")>> \o t, NoneHeld, e)
  BY <1>3, <1>4, <1>7, LeadsBoth
<1>9. <<Reserve("search")>> \o t \in Seq(Calls)
  BY <1>7, ConcatProperties
<1>10. Leads(Holds, (<<Reserve("search")>> \o t) \o <<Ask("search")>>, NoneHeld, NoneHeld)
  BY <1>6, <1>7, <1>8, <1>9, LeadsBoth
<1>11. May((<<Reserve("search")>> \o t) \o <<Ask("search")>>) = Holds
  <2>1. PICK s \in Seq(Calls) : s = <<Reserve("search")>> \o t
    BY <1>9
  <2>2. /\ Len(s \o <<Ask("search")>>) = Len(s) + 1 /\ Len(s) \in Nat
        /\ (s \o <<Ask("search")>>)[Len(s) + 1] = Ask("search")
    BY <1>7, AppendIsConcat, AppendProperties, LenProperties
  <2>3. Searching(s \o <<Ask("search")>>)
    <3>1. s \o <<Ask("search")>> # <<>>
      BY <2>2
    <3> QED BY <2>2, <3>1 DEF Searching, Last
  <2> QED BY <2>1, <2>3 DEF May
<1> QED BY <1>10, <1>11 DEF ToSearch, t

\* Two calls, one after the other.
LEMMA LeadsTwo ==
  ASSUME NEW R, NEW x \in Calls, NEW y \in Calls, NEW h \in Holds, NEW g \in Holds, NEW e \in Holds,
         Onward(R, x, h, g), Onward(R, y, g, e)
  PROVE  Leads(R, <<x, y>>, h, e)
<1>1. Leads(R, <<x>>, h, g) /\ Leads(R, <<y>>, g, e)
  BY LeadsOne
<1>2. <<x>> \in Seq(Calls) /\ <<y>> \in Seq(Calls)
  BY CallsType
<1>3. Leads(R, <<x>> \o <<y>>, h, e)
  BY <1>1, <1>2, LeadsBoth
<1>4. <<x>> \o <<y>> = <<x, y>>
  <2>1. <<x>> \o <<y>> \in Seq(Calls) /\ <<x, y>> \in Seq(Calls)
    BY <1>2, ConcatProperties
  <2>2. Len(<<x>> \o <<y>>) = Len(<<x, y>>)
    BY <1>2, ConcatProperties
  <2>3. \A i \in 1..Len(<<x, y>>) : (<<x>> \o <<y>>)[i] = <<x, y>>[i]
    BY <1>2, ConcatProperties
  <2> QED BY <2>1, <2>2, <2>3, SeqEqual
<1> QED BY <1>3, <1>4

\* So do a verification, and the calls of a resumed candidate, from nothing.
LEMMA LeadsVerify ==
  ASSUME NEW R, NoneHeld \in R
  PROVE  /\ Leads(R, ToVerify, NoneHeld, NoneHeld)
         /\ \A r : Leads(R, ToResume(r), NoneHeld, NoneHeld)
<1> DEFINE x == Complete("unverified")
           y == Reserve("verification")
           z == Ask("verifier")
<1>1. "verification" \in Bucket /\ "unverified" \in Answers /\ "webmail" \in Answers
      /\ NoneHeld \in Holds
  BY NoneFacts DEF Answers
<1>2. x \in Calls /\ y \in Calls /\ z \in Calls
  BY <1>1, CallsType
<1>3. PICK e \in Holds : e = [NoneHeld EXCEPT !["verification"] = 1]
  BY <1>1, HoldsExcept
<1>4. Onward(R, x, NoneHeld, NoneHeld) /\ Onward(R, y, NoneHeld, e)
  <2>1. NoneHeld["verification"] + 1 = 1
    BY NoneFacts
  <2>2. e = [NoneHeld EXCEPT !["verification"] = NoneHeld["verification"] + 1]
    BY <1>3, <2>1
  <2>3. Onward(R, y, NoneHeld, e)
    BY <1>1, <2>2 DEF Onward
  <2> QED BY <1>1, <2>3, OnwardFacts
<1>5. Onward(R, z, e, NoneHeld)
  BY <1>3, OnwardFacts
<1>6. Onward(R, Complete("webmail"), NoneHeld, NoneHeld)
  BY <1>1, OnwardFacts
<1> DEFINE last == <<z>>
<1>7. ToVerify = <<x, y>> \o last
  BY DEF ToVerify
<1> HIDE DEF x, y, z, last
<1>8. /\ Leads(R, <<x, y>>, NoneHeld, e) /\ Leads(R, last, e, NoneHeld)
      /\ Leads(R, <<Complete("webmail")>>, NoneHeld, NoneHeld)
  BY <1>1, <1>2, <1>4, <1>5, <1>6, LeadsOne, LeadsTwo DEF last
<1>9. <<x, y>> \in Seq(Calls) /\ last \in Seq(Calls)
  BY <1>2 DEF last
<1>10. Leads(R, ToVerify, NoneHeld, NoneHeld)
  BY <1>8, <1>9, <1>7, LeadsBoth
<1> QED BY <1>8, <1>10 DEF ToResume

\* What follows an answered search: a search that Hunter did not count is given back.
LEMMA LeadsFollow ==
  ASSUME NEW R, NoneHeld \in R, NEW verdict \in Verdicts, NEW h \in Holds,
         h["verification"] = 0, h["search"] = IF verdict = "empty" THEN 1 ELSE 0
  PROVE  Leads(R, Follow(verdict), h, NoneHeld)
<1>1. /\ "search" \in Bucket /\ {"not_found", "found", "webmail"} \subseteq Answers
      /\ Release("search") \in Calls /\ \A a \in Answers : Complete(a) \in Calls
      /\ NoneHeld \in Holds
  BY CallsType, NoneFacts DEF Answers
<1>2. \A a \in Answers : Onward(R, Complete(a), NoneHeld, NoneHeld)
  BY OnwardFacts
<1>3. \A a \in Answers : Leads(R, <<Complete(a)>>, NoneHeld, NoneHeld)
  BY <1>1, <1>2, LeadsOne
<1>4. CASE verdict = "empty"
  <2>1. h["search"] > 0 /\ h["search"] - 1 = 0
    BY <1>4
  <2>2. NoneHeld = [h EXCEPT !["search"] = h["search"] - 1]
    <3>1. PICK e \in Holds : e = [h EXCEPT !["search"] = 0]
      BY <1>1, LeadsBack
    <3>2. e["search"] = 0 /\ e["verification"] = 0
      BY <1>1, <3>1 DEF Holds, Bucket
    <3> QED BY <2>1, <3>1, <3>2, NoneFacts
  <2>3. Onward(R, Release("search"), h, NoneHeld)
    BY <1>1, <2>1, <2>2 DEF Onward
  <2>4. Leads(R, <<Release("search"), Complete("not_found")>>, h, NoneHeld)
    BY <1>1, <1>2, <2>3, LeadsTwo
  <2> QED BY <1>4, <2>4 DEF Follow
<1>5. CASE verdict # "empty"
  <2>1. h = NoneHeld
    BY <1>5, NoneFacts
  <2>2. CASE verdict = "unsure"
    BY <2>1, <2>2, LeadsVerify DEF Follow
  <2>3. CASE verdict \in {"none", "valid", "webmail"}
    BY <1>1, <1>3, <2>1, <2>3 DEF Follow
  <2> QED BY <1>5, <2>2, <2>3 DEF Verdicts
<1> QED BY <1>4, <1>5

\* What a caller holds after its search, and the calls that settle it.
LEMMA LeadsAnswered ==
  ASSUME NEW R, NoneHeld \in R,
         NEW h \in Holds, NEW n \in Nat, NEW low \in BOOLEAN, NEW verdict \in Verdicts,
         h["search"] = 1, n <= h["verification"], NEW g,
         g = [search |-> IF verdict = "empty" THEN h["search"] ELSE 0,
              verification |-> Unspent(h["verification"], n)]
  PROVE  /\ g \in Holds /\ g["verification"] = h["verification"] - n
         /\ Leads(R, Balance(h["verification"], n)
                       \o Times(IF low THEN 1 ELSE 0, Exhaust("verification")) \o Follow(verdict),
                  g, NoneHeld)
<1> DEFINE x == Times(IF low THEN 1 ELSE 0, Exhaust("verification"))
<1>1. "verification" \in Bucket /\ h["verification"] \in Nat /\ h["search"] \in Nat
  BY DEF Bucket, Holds
<1>2. Unspent(h["verification"], n) = h["verification"] - n
  BY <1>1 DEF Unspent
<1>3. /\ g \in Holds /\ g["verification"] = h["verification"] - n
      /\ g["search"] = IF verdict = "empty" THEN 1 ELSE 0
  BY <1>1, <1>2 DEF Holds, Bucket
<1>4. Balance(h["verification"], n) = Back(g, "verification")
  <2>1. Times(IF n > h["verification"] THEN n - h["verification"] ELSE 0, Cover) = <<>>
    BY <1>1 DEF Times
  <2>2. Back(g, "verification") = Times(Unspent(h["verification"], n), Release("verification"))
    BY <1>2, <1>3 DEF Back
  <2>3. Back(g, "verification") \in Seq(Calls)
    BY <1>1, <1>3, CallsType
  <2>4. Back(g, "verification") \o <<>> = Back(g, "verification")
    BY <2>3, ConcatEmptySeq
  <2> QED BY <2>1, <2>2, <2>4 DEF Balance
<1>5. PICK k \in Holds : /\ k = [g EXCEPT !["verification"] = 0]
                         /\ Leads(R, Back(g, "verification"), g, k)
  BY <1>1, <1>3, LeadsBack
<1>6. x \in Seq(Calls) /\ Leads(R, x, k, k)
  <2>1. CASE low
    <3>1. Exhaust("verification") \in Calls /\ x = <<Exhaust("verification")>>
      BY <1>1, <2>1, CallsType DEF Times
    <3>2. k = [k EXCEPT !["verification"] = 0]
      BY <1>1, <1>3, <1>5 DEF Holds
    <3>3. Onward(R, Exhaust("verification"), k, k)
      BY <1>1, <3>2 DEF Onward
    <3> HIDE DEF x
    <3> QED BY <3>1, <3>3, LeadsOne
  <2>2. CASE ~low
    <3>1. x = <<>>
      BY <2>2 DEF Times
    <3> HIDE DEF x
    <3> QED BY <3>1, LeadsNone
  <2> QED BY <2>1, <2>2
<1>7. k["verification"] = 0 /\ k["search"] = IF verdict = "empty" THEN 1 ELSE 0
  BY <1>1, <1>3, <1>5 DEF Holds, Bucket
<1>8. Leads(R, Follow(verdict), k, NoneHeld)
  BY <1>7, LeadsFollow
<1>9. Back(g, "verification") \in Seq(Calls) /\ Follow(verdict) \in Seq(Calls)
  BY <1>1, <1>3, CallsType, FollowType, TodoType
<1> HIDE DEF x
<1>10. Leads(R, Back(g, "verification") \o x, g, k) /\ Back(g, "verification") \o x \in Seq(Calls)
  BY <1>5, <1>6, <1>9, LeadsBoth, ConcatProperties
<1>11. Leads(R, (Back(g, "verification") \o x) \o Follow(verdict), g, NoneHeld)
  BY <1>8, <1>9, <1>10, LeadsBoth
<1> QED BY <1>3, <1>4, <1>11 DEF x
-----------------------------------------------------------------------------
(* Steps.                                                                  *)

\* A sequence with a call after it ends with that call.
LEMMA LastOf ==
  ASSUME NEW S, NEW s \in Seq(S), NEW x \in S
  PROVE  s \o <<x>> # <<>> /\ Last(s \o <<x>>) = x
BY SMT DEF Last

\* A refused reserve changes what its caller is to do.
LEMMA RefusedChanges ==
  ASSUME IInv, NEW c \in Caller, NEW x, Does(c, x), Refused(c), caller[c].held \in Holds
  PROVE  caller'[c] # caller[c]
<1>1. caller \in [Caller -> [key : Key \cup {None}, todo : Seq(Calls), held : [Bucket -> Int]]]
  BY DEF IInv, TypeOK
<1>2. caller[c].todo # <<>>
  BY DEF Does
<1>3. CASE Searching(caller[c].todo)
  <2> DEFINE t == GiveUp(caller[c].held)
             s == Back(caller[c].held, "verification") \o Back(caller[c].held, "search")
  <2>1. s \in Seq(Calls) /\ Abandon \in Calls
    BY CallsType, NoneFacts, ConcatProperties
  <2>2. t = s \o <<Abandon>>
    BY DEF GiveUp
  <2> HIDE DEF s, t
  <2>3. t # <<>> /\ Last(t) = Abandon
    BY <2>1, <2>2, LastOf
  <2>4. caller'[c].todo = t
    BY <1>1, <1>3, <2>3 DEF Refused, Keeps, Goes, t
  <2>5. Last(caller[c].todo) = Ask("search")
    BY <1>3 DEF Searching
  <2>6. Abandon # Ask("search")
    BY DEF Abandon, Ask
  <2> QED BY <2>3, <2>4, <2>5, <2>6
<1>4. CASE ~Searching(caller[c].todo)
  <2>1. caller'[c] = Idle
    BY <1>1, <1>4 DEF Refused, Keeps, Goes
  <2> QED BY <1>2, <2>1 DEF Idle
<1> QED BY <1>3, <1>4

\* So does a call that is made, whatever is held after it.
LEMMA RestChanges ==
  ASSUME IInv, NEW c \in Caller, NEW x, Does(c, x), NEW h, Goes(c, Rest(c), h)
  PROVE  caller'[c] # caller[c]
<1>1. caller \in [Caller -> [key : Key \cup {None}, todo : Seq(Calls), held : [Bucket -> Int]]]
  BY DEF IInv, TypeOK
<1>2. caller[c].todo \in Seq(Calls) /\ caller[c].todo # <<>>
  BY <1>1 DEF Does
<1>3. Len(Rest(c)) = Len(caller[c].todo) - 1 /\ Len(caller[c].todo) \in Nat
  BY <1>2, HeadTailProperties, LenProperties DEF Rest
<1>4. Rest(c) # caller[c].todo
  BY <1>3
<1>5. caller'[c].todo = Rest(c)
  BY <1>1 DEF Goes, Idle
<1> QED BY <1>4, <1>5

\* What a call on the budget does to the current month.
LEMMA UsedMoves ==
  ASSUME TypeOK, NEW b \in Bucket
  PROVE  \A q \in Bucket :
           /\ budget[month][q].used \in Nat
           /\ Budget(b, Reserved(Now(b))) =>
                budget'[month][q].used = budget[month][q].used + (IF q = b THEN 1 ELSE 0)
           /\ Budget(b, Released(Now(b))) =>
                \/ budget'[month][q].used = budget[month][q].used - (IF q = b THEN 1 ELSE 0)
                \/ budget'[month][q] = budget[month][q] /\ q = b
                     /\ (budget[month][q].used = 0 \/ budget[month][q].exhausted)
           /\ Budget(b, Exhausted(Now(b))) =>
                /\ budget'[month][q].used = budget[month][q].used
                /\ q = b => budget'[month][q].exhausted
<1> SUFFICES ASSUME NEW q \in Bucket
             PROVE  /\ budget[month][q].used \in Nat
                    /\ Budget(b, Reserved(Now(b))) =>
                         budget'[month][q].used = budget[month][q].used + (IF q = b THEN 1 ELSE 0)
                    /\ Budget(b, Released(Now(b))) =>
                         \/ budget'[month][q].used = budget[month][q].used - (IF q = b THEN 1 ELSE 0)
                         \/ budget'[month][q] = budget[month][q] /\ q = b
                              /\ (budget[month][q].used = 0 \/ budget[month][q].exhausted)
                    /\ Budget(b, Exhausted(Now(b))) =>
                         /\ budget'[month][q].used = budget[month][q].used
                         /\ q = b => budget'[month][q].exhausted
  OBVIOUS
<1> DEFINE BudgetRow == [used : 0..Cap, exhausted : BOOLEAN]
<1>1. month \in Months /\ budget \in [Months -> [Bucket -> BudgetRow]] /\ Cap \in Nat
  BY HunterAssumption DEF TypeOK
<1>2. \A p \in Bucket : budget[month][p] \in BudgetRow /\ budget[month][p].used \in Nat
  BY <1>1
<1>3. ASSUME NEW r, Budget(b, r)
      PROVE  budget'[month][q] = IF q = b THEN r ELSE budget[month][q]
  BY <1>1, <1>3 DEF Budget
<1>4. /\ Reserved(Now(b)).used = budget[month][b].used + 1
      /\ Exhausted(Now(b)).used = budget[month][b].used /\ Exhausted(Now(b)).exhausted
      /\ \/ Released(Now(b)).used = budget[month][b].used - 1
         \/ Released(Now(b)) = budget[month][b]
              /\ (budget[month][b].used = 0 \/ budget[month][b].exhausted)
  <2> DEFINE r == budget[month][b]
  <2>1. r \in BudgetRow
    BY <1>2
  <2> HIDE DEF r
  <2>2. /\ [r EXCEPT !.used = @ + 1].used = r.used + 1
        /\ [r EXCEPT !.used = @ - 1].used = r.used - 1
        /\ [r EXCEPT !.exhausted = TRUE].used = r.used
        /\ [r EXCEPT !.exhausted = TRUE].exhausted = TRUE
    BY <2>1
  <2>3. r.used > 0 \/ r.used = 0
    BY <2>1, <1>1
  <2> QED BY <2>2, <2>3 DEF Reserved, Exhausted, Released, Now, r
<1>5. Budget(b, Reserved(Now(b))) =>
        budget'[month][q].used = budget[month][q].used + (IF q = b THEN 1 ELSE 0)
  BY <1>2, <1>3, <1>4
<1>6. ASSUME Budget(b, Released(Now(b)))
      PROVE  \/ budget'[month][q].used = budget[month][q].used - (IF q = b THEN 1 ELSE 0)
             \/ budget'[month][q] = budget[month][q] /\ q = b
                  /\ (budget[month][q].used = 0 \/ budget[month][q].exhausted)
  <2>1. CASE q = b
    BY <1>3, <1>4, <1>6, <2>1
  <2>2. CASE q # b
    BY <1>2, <1>3, <1>6, <2>2
  <2> QED BY <2>1, <2>2
<1>7. Budget(b, Exhausted(Now(b))) =>
        /\ budget'[month][q].used = budget[month][q].used
        /\ q = b => budget'[month][q].exhausted
  BY <1>2, <1>3, <1>4
<1> QED BY <1>2, <1>5, <1>6, <1>7

\* What a step may have before it and must leave.
Covered == Planned /\ NeverUndercounts

\* The numbers that are compared.
LEMMA Numbers ==
  ASSUME TypeOK, NEW c \in Caller, NEW b \in Bucket
  PROVE  /\ counted[month][b] \in Int /\ budget[month][b].used \in Int /\ caller[c].held[b] \in Int
         /\ \A q \in Bucket, n \in Int :
              Has(c, b, n)[q] = IF q = b THEN n ELSE caller[c].held[q]
BY HunterAssumption DEF TypeOK, Has

\* Numbers that stay in a set when one caller's holding after another is added to them.
LEMMA HeldStaysIn ==
  ASSUME NEW v, NEW b, NEW S, \A c \in Caller : v[c].held[b] \in Int, 0 \in S,
         \A c \in Caller, m \in S : v[c].held[b] + m \in S
  PROVE  HeldBy(v, b) \in S
<1> DEFINE f == [c \in Caller |-> v[c].held[b]]
<1>1. PICK F \in [SUBSET Caller -> Int] : HeldBy(v, b) = F[Caller] /\ Adds(F, f, SUBSET Caller)
  BY HeldBySums
<1>2. \A c \in Caller, m \in S : f[c] + m \in S
  OBVIOUS
<1> HIDE DEF f
<1> DEFINE T == {n \in Nat : \A s \in SUBSET Caller : Cardinality(s) = n => F[s] \in S}
<1>3. 0 \in T
  <2>1. F[{}] = 0
    BY <1>1 DEF Adds
  <2>2. ASSUME NEW s \in SUBSET Caller, Cardinality(s) = 0 PROVE F[s] \in S
    <3>1. s = {}
      BY <2>2, PickFacts
    <3> QED BY <2>1, <3>1
  <2> QED BY <2>2
<1>4. ASSUME NEW n \in Nat, n \in T PROVE n + 1 \in T
  <2> SUFFICES ASSUME NEW s \in SUBSET Caller, Cardinality(s) = n + 1 PROVE F[s] \in S
    OBVIOUS
  <2>1. s # {} /\ Pick(s) \in Caller /\ F[s \ {Pick(s)}] \in S
    <3>1. s # {} /\ Pick(s) \in s
      BY PickFacts
    <3>2. s \ {Pick(s)} \in SUBSET Caller /\ Cardinality(s \ {Pick(s)}) = n
      BY <3>1, PickFacts
    <3> QED BY <1>4, <3>1, <3>2
  <2>2. F[s] = f[Pick(s)] + F[s \ {Pick(s)}]
    BY <1>1, <2>1 DEF Adds
  <2> QED BY <1>2, <2>1, <2>2
<1>5. \A n \in Nat : n \in T
  <2> HIDE DEF T
  <2> QED BY <1>3, <1>4, Induct
<1>6. F[Caller] \in S
  BY <1>5, PickFacts
<1> QED BY <1>1, <1>6

\* Callers that hold no less than nothing hold no less together.
LEMMA HeldIsNat ==
  ASSUME NEW v, NEW b, \A c \in Caller : v[c].held[b] \in Nat
  PROVE  HeldBy(v, b) \in Nat
<1>1. \A c \in Caller : v[c].held[b] \in Int
  OBVIOUS
<1>2. 0 \in Nat /\ \A c \in Caller, m \in Nat : v[c].held[b] + m \in Nat
  OBVIOUS
<1> QED BY Zenon, <1>1, <1>2, HeldStaysIn

\* Callers that hold nothing hold nothing together.
LEMMA HeldNothing ==
  ASSUME NEW v, NEW b, \A c \in Caller : v[c].held[b] = 0
  PROVE  HeldBy(v, b) = 0
<1>1. \A c \in Caller : v[c].held[b] \in Int
  OBVIOUS
<1>2. 0 \in {0} /\ \A c \in Caller, m \in {0} : v[c].held[b] + m \in {0}
  OBVIOUS
<1>3. HeldBy(v, b) \in {0}
  BY Zenon, <1>1, <1>2, HeldStaysIn
<1> QED BY <1>3

\* A bucket of which somebody holds a credit is not empty.
LEMMA HeldIsUsed ==
  ASSUME IInv, Covered, NEW c \in Caller, NEW b \in Bucket
  PROVE  budget[month][b].used >= caller[c].held[b]
<1> DEFINE x == [key |-> caller[c].key, todo |-> caller[c].todo, held |-> NoneHeld]
<1>1. caller \in [Caller -> CallerType] /\ x \in CallerType
  <2>1. caller \in [Caller -> CallerType]
    BY TypeSplits DEF IInv, TypeOK, CallerType
  <2>2. NoneHeld \in [Bucket -> Int]
    BY DEF NoneHeld
  <2> QED BY <2>1, <2>2 DEF CallerType
<1>2. x.held[b] = 0
  BY NoneFacts
<1> HIDE DEF x
<1>3. PICK w : w = [caller EXCEPT ![c] = x]
  OBVIOUS
<1>4. \A d \in Caller : w[d].held[b] \in Nat
  <2>1. \A d \in Caller : caller[d].held[b] \in Nat
    BY DEF Covered, Planned, CanDo, Holds
  <2> QED BY <1>1, <1>2, <1>3, <2>1
<1>5. HeldBy(w, b) \in Nat
  BY <1>4, HeldIsNat
<1>6. HeldBy(caller, b) \in Int /\ HeldBy(w, b) = HeldBy(caller, b) + 0 - caller[c].held[b]
  BY <1>1, <1>2, <1>3, HeldReplaced
<1>7. counted[month][b] + HeldBy(caller, b) <= budget[month][b].used
  BY DEF Covered, NeverUndercounts, HeldByAll, HeldBy
<1>8. counted[month][b] \in Nat /\ budget[month][b].used \in Int /\ caller[c].held[b] \in Int
  BY Numbers DEF IInv, TypeOK
<1> QED BY <1>5, <1>6, <1>7, <1>8

\* Holdings that stay fit when Hunter counts nothing and no bucket loses anything.
LEMMA SameFits ==
  ASSUME IInv, NEW c \in Caller, UNCHANGED <<month, counted>>,
         \A b \in Bucket :
           /\ budget'[month][b].used \in Int
           /\ \/ budget'[month][b].used = budget[month][b].used
              \/ budget'[month][b].used > budget[month][b].used /\ Fails(c)
  PROVE  Fits(c, caller[c].held)
<1> SUFFICES ASSUME NEW b \in Bucket, NEW before, NEW after,
                    before = counted[month][b] + caller[c].held[b] - budget[month][b].used,
                    after = counted'[month'][b] + caller[c].held[b] - budget'[month'][b].used
             PROVE  after <= before /\ (after < before => budget'[month'][b].exhausted \/ Fails(c))
  BY DEF Fits
<1>1. counted[month][b] \in Int /\ budget[month][b].used \in Int /\ caller[c].held[b] \in Int
  BY Numbers DEF IInv
<1>2. budget'[month][b].used \in Int
  OBVIOUS
<1>3. CASE budget'[month][b].used = budget[month][b].used
  BY <1>1, <1>3
<1>4. CASE budget'[month][b].used > budget[month][b].used /\ Fails(c)
  BY <1>1, <1>2, <1>4
<1> QED BY <1>3, <1>4

\* A reserve that did not succeed leaves its caller undoing its claim, or done with nothing.
LEMMA RefusedCovers ==
  ASSUME IInv, IInv', Covered, NEW c \in Caller, NEW b \in Bucket, Does(c, Reserve(b)), Refused(c),
         month' = month, Fits(c, caller[c].held)
  PROVE  Covered' /\ Lossless
<1>1. PICK h \in Holds : h = caller[c].held
  BY PlanOf DEF Covered
<1>2. Fits(c, h)
  BY <1>1
<1>3. CASE Searching(caller[c].todo)
  <2>1. Leads(May(GiveUp(h)), GiveUp(h), h, NoneHeld)
    BY LeadsGiveUp
  <2>2. Goes(c, GiveUp(h), h)
    BY <1>1, <1>3 DEF Refused, Keeps
  <2> QED BY <1>2, <2>1, <2>2, CallerGoes DEF Covered
<1>4. CASE ~Searching(caller[c].todo)
  <2>1. h = NoneHeld
    <3>1. \E g \in Holds : Onward(May(caller[c].todo), Reserve(b), h, g)
      BY <1>1, PlanOf DEF Covered
    <3>2. h \in May(caller[c].todo)
      BY <3>1, OnwardFacts
    <3> QED BY <1>4, <3>2 DEF May
  <2>2. Leads(May(<<>>), <<>>, h, NoneHeld)
    BY <2>1, LeadsNone
  <2>3. Goes(c, <<>>, h)
    BY <1>1, <1>4 DEF Refused, Keeps
  <2> QED BY <1>2, <2>2, <2>3, CallerGoes DEF Covered
<1> QED BY <1>3, <1>4

\* A caller that makes the first of its calls and goes on to the others.
LEMMA RestCovers ==
  ASSUME IInv, IInv', Covered, NEW c \in Caller, NEW x, Does(c, x), NEW h,
         Goes(c, Rest(c), h), month' = month, Fits(c, h),
         \A g \in Holds : Onward(May(caller[c].todo), x, caller[c].held, g) => g = h
  PROVE  Covered' /\ Lossless
<1>1. PICK g \in Holds : /\ Onward(May(caller[c].todo), x, caller[c].held, g)
                         /\ Leads(May(Rest(c)), Rest(c), g, NoneHeld)
  BY PlanOf DEF Covered
<1>2. g = h
  BY <1>1
<1> QED BY <1>1, <1>2, CallerGoes DEF Covered

\* The same of one bucket.
LEMMA OnwardBudget ==
  ASSUME NEW R, NEW h, NEW e, NEW b \in Bucket
  PROVE  /\ Onward(R, Reserve(b), h, e) => e = [h EXCEPT ![b] = h[b] + 1]
         /\ Onward(R, Release(b), h, e) => h[b] > 0 /\ e = [h EXCEPT ![b] = h[b] - 1]
         /\ Onward(R, Exhaust(b), h, e) => e = [h EXCEPT ![b] = 0]
<1> USE DEF Onward, Reserve, Release, Exhaust, Ask, Abandon, Complete
<1>1. Onward(R, Reserve(b), h, e) => e = [h EXCEPT ![b] = h[b] + 1]
  OBVIOUS
<1>2. Onward(R, Release(b), h, e) => h[b] > 0 /\ e = [h EXCEPT ![b] = h[b] - 1]
  OBVIOUS
<1>3. Onward(R, Exhaust(b), h, e) => e = [h EXCEPT ![b] = 0]
  OBVIOUS
<1> QED BY <1>1, <1>2, <1>3

\* An answer is stored by a caller that holds nothing.
LEMMA OnwardComplete ==
  ASSUME NEW R, NEW h, NEW e, NEW a \in Answers, Onward(R, Complete(a), h, e)
  PROVE  h = NoneHeld /\ e = NoneHeld
BY DEF Onward, Reserve, Release, Exhaust, Ask, Abandon, Complete

\* Holdings of one bucket that move as far as the bucket does, or less by a failure or
\* when it is exhausted.
LEMMA BucketFits ==
  ASSUME IInv, NEW c \in Caller, NEW b \in Bucket, NEW n \in Int, UNCHANGED <<month, counted>>,
         \A q \in Bucket : budget'[month][q].used \in Int,
         \A q \in Bucket : q # b => budget'[month][q].used = budget[month][q].used,
         \/ budget'[month][b].used = budget[month][b].used + n - caller[c].held[b]
         \/ budget'[month][b].used > budget[month][b].used + n - caller[c].held[b]
              /\ (budget'[month][b].exhausted \/ Fails(c))
  PROVE  Fits(c, Has(c, b, n))
<1> SUFFICES ASSUME NEW q \in Bucket, NEW before, NEW after,
                    before = counted[month][q] + caller[c].held[q] - budget[month][q].used,
                    after = counted'[month'][q] + Has(c, b, n)[q] - budget'[month'][q].used
             PROVE  after <= before /\ (after < before => budget'[month'][q].exhausted \/ Fails(c))
  BY DEF Fits
<1>1. counted[month][q] \in Int /\ budget[month][q].used \in Int /\ caller[c].held[q] \in Int
      /\ Has(c, b, n)[q] = IF q = b THEN n ELSE caller[c].held[q]
  BY Numbers DEF IInv
<1>2. budget'[month][q].used \in Int
  OBVIOUS
<1>3. CASE q = b
  <2>1. CASE budget'[month][b].used = budget[month][b].used + n - caller[c].held[b]
    BY <1>1, <1>2, <1>3, <2>1
  <2>2. CASE budget'[month][b].used > budget[month][b].used + n - caller[c].held[b]
              /\ (budget'[month][b].exhausted \/ Fails(c))
    BY <1>1, <1>2, <1>3, <2>2
  <2> QED BY <2>1, <2>2
<1>4. CASE q # b
  BY <1>1, <1>2, <1>4
<1> QED BY <1>3, <1>4

\* Reserve, release and exhaust: a caller never holds more than the bucket gained by it,
\* and an open bucket gains more only by a failure.
LEMMA BudgetCovers ==
  ASSUME IInv, IInv', Covered, NEW c \in Caller, NEW b \in Bucket,
         \/ ReserveOk(c, b) \/ ReserveRefused(c, b) \/ ReserveUnheard(c, b)
         \/ ReleaseOne(c, b) \/ ExhaustOne(c, b)
  PROVE  Covered' /\ Lossless
<1>1. TypeOK /\ month' = month /\ counted' = counted
  BY DEF IInv, ReserveOk, ReserveRefused, ReserveUnheard, ReleaseOne, ExhaustOne
<1>2. \A q \in Bucket : budget[month][q].used \in Nat /\ budget'[month][q].used \in Int
  <2>1. \A q \in Bucket : budget'[month'][q].used \in Int
    BY HunterAssumption DEF IInv, TypeOK
  <2> QED BY <1>1, <2>1, UsedMoves
<1>3. caller[c].held \in Holds /\ \A q \in Bucket : caller[c].held[q] \in Nat
  BY DEF Covered, Planned, CanDo, Holds
<1>4. CASE ReserveOk(c, b)
  <2>1. /\ Does(c, Reserve(b)) /\ Budget(b, Reserved(Now(b)))
        /\ Goes(c, Rest(c), Has(c, b, caller[c].held[b] + 1))
    BY <1>4 DEF ReserveOk, Held
  <2>2. Fits(c, Has(c, b, caller[c].held[b] + 1))
    <3>1. \A q \in Bucket : budget'[month][q].used = budget[month][q].used + (IF q = b THEN 1 ELSE 0)
      BY <1>1, <2>1, UsedMoves
    <3>2. PICK n \in Int : n = caller[c].held[b] + 1
      BY <1>3
    <3>3. \A q \in Bucket : q # b => budget'[month][q].used = budget[month][q].used
      BY <1>2, <3>1
    <3>4. budget'[month][b].used = budget[month][b].used + n - caller[c].held[b]
      BY <1>2, <1>3, <3>1, <3>2
    <3> QED BY <1>1, <1>2, <3>2, <3>3, <3>4, BucketFits
  <2>3. ASSUME NEW g \in Holds, Onward(May(caller[c].todo), Reserve(b), caller[c].held, g)
        PROVE  g = Has(c, b, caller[c].held[b] + 1)
    <3>1. g = [caller[c].held EXCEPT ![b] = caller[c].held[b] + 1]
      BY <2>3, OnwardBudget
    <3> QED BY <3>1 DEF Has
  <2> QED BY <1>1, <2>1, <2>2, <2>3, RestCovers
<1>5. CASE ReserveRefused(c, b)
  <2>1. Does(c, Reserve(b)) /\ Refused(c) /\ budget' = budget
    BY <1>5 DEF ReserveRefused
  <2>2. Fits(c, caller[c].held)
    BY <1>1, <1>2, <2>1, SameFits
  <2> QED BY <1>1, <2>1, <2>2, RefusedCovers
<1>6. CASE ReserveUnheard(c, b)
  <2>1. Lossy /\ Does(c, Reserve(b)) /\ Refused(c) /\ Budget(b, Reserved(Now(b)))
    BY <1>6 DEF ReserveUnheard
  <2>2. \A q \in Bucket : budget'[month][q].used = budget[month][q].used + (IF q = b THEN 1 ELSE 0)
    BY <1>1, <2>1, UsedMoves
  <2>3. MayFail(c)
    BY <2>1 DEF MayFail, Does, Reserve
  <2>4. Fails(c)
    BY <1>3, <2>1, <2>3, RefusedChanges DEF Fails
  <2>5. \A q \in Bucket : \/ budget'[month][q].used = budget[month][q].used
                          \/ budget'[month][q].used > budget[month][q].used /\ Fails(c)
    BY <1>2, <2>2, <2>4
  <2>6. Fits(c, caller[c].held)
    BY <1>1, <1>2, <2>5, SameFits
  <2> QED BY <1>1, <2>1, <2>6, RefusedCovers
<1>7. CASE ReleaseOne(c, b)
  <2>1. /\ Does(c, Release(b)) /\ (Budget(b, Released(Now(b))) \/ (Lossy /\ budget' = budget))
        /\ Goes(c, Rest(c), Has(c, b, caller[c].held[b] - 1))
    BY <1>7 DEF ReleaseOne, Held
  <2>2. ASSUME NEW g \in Holds, Onward(May(caller[c].todo), Release(b), caller[c].held, g)
        PROVE  caller[c].held[b] > 0 /\ g = Has(c, b, caller[c].held[b] - 1)
    <3>1. caller[c].held[b] > 0 /\ g = [caller[c].held EXCEPT ![b] = caller[c].held[b] - 1]
      BY <2>2, OnwardBudget
    <3> QED BY <3>1 DEF Has
  <2>3. caller[c].held[b] > 0
    <3>1. \E g \in Holds : Onward(May(caller[c].todo), Release(b), caller[c].held, g)
      BY <2>1, PlanOf DEF Covered
    <3> QED BY <2>2, <3>1
  <2>4. PICK n \in Int : n = caller[c].held[b] - 1
    BY <1>3
  <2>5. n - caller[c].held[b] = -1
    BY <1>3, <2>4
  <2>6. CASE Budget(b, Released(Now(b)))
    <3>1. budget[month][b].used > 0
      <4>1. budget[month][b].used >= caller[c].held[b]
        BY HeldIsUsed
      <4> QED BY <1>2, <1>3, <2>3, <4>1
    <3>2. \A q \in Bucket :
            \/ budget'[month][q].used = budget[month][q].used - (IF q = b THEN 1 ELSE 0)
            \/ budget'[month][q] = budget[month][q] /\ q = b
                 /\ (budget[month][q].used = 0 \/ budget[month][q].exhausted)
      BY <1>1, <2>6, UsedMoves
    <3>3. \A q \in Bucket : q # b => budget'[month][q].used = budget[month][q].used
      BY <1>2, <3>2
    <3>4. \/ budget'[month][b].used = budget[month][b].used - 1
          \/ budget'[month][b] = budget[month][b] /\ budget[month][b].exhausted
      BY <1>2, <3>1, <3>2
    <3>5. \/ budget'[month][b].used = budget[month][b].used + n - caller[c].held[b]
          \/ budget'[month][b].used > budget[month][b].used + n - caller[c].held[b]
               /\ (budget'[month][b].exhausted \/ Fails(c))
      BY <1>2, <1>3, <2>4, <3>4
    <3>6. Fits(c, Has(c, b, n))
      BY <1>1, <1>2, <3>3, <3>5, BucketFits
    <3> QED BY <1>1, <2>1, <2>2, <2>4, <3>6, RestCovers
  <2>7. CASE Lossy /\ budget' = budget
    <3>1. MayFail(c)
      BY <2>1 DEF MayFail, Does, Release
    <3>2. Fails(c)
      BY <2>1, <2>7, <3>1, RestChanges DEF Fails
    <3>3. budget'[month][b].used > budget[month][b].used + n - caller[c].held[b]
      BY <1>2, <1>3, <2>4, <2>7
    <3>4. \A q \in Bucket : q # b => budget'[month][q].used = budget[month][q].used
      BY <2>7
    <3>5. Fits(c, Has(c, b, n))
      BY <1>1, <1>2, <3>2, <3>3, <3>4, BucketFits
    <3> QED BY <1>1, <2>1, <2>2, <2>4, <3>5, RestCovers
  <2> QED BY <2>1, <2>6, <2>7
<1>8. CASE ExhaustOne(c, b)
  <2>1. /\ Does(c, Exhaust(b)) /\ (Budget(b, Exhausted(Now(b))) \/ (Lossy /\ budget' = budget))
        /\ Goes(c, Rest(c), Has(c, b, 0))
    BY <1>8 DEF ExhaustOne
  <2>2. /\ \A q \in Bucket : budget'[month][q].used = budget[month][q].used
        /\ budget'[month][b].exhausted \/ Fails(c)
    <3>1. CASE Budget(b, Exhausted(Now(b)))
      BY <1>1, <3>1, UsedMoves
    <3>2. CASE Lossy /\ budget' = budget
      <4>1. MayFail(c)
        BY <2>1 DEF MayFail, Does, Exhaust
      <4>2. Fails(c)
        BY <2>1, <3>2, <4>1, RestChanges DEF Fails
      <4> QED BY <3>2, <4>2
    <3> QED BY <2>1, <3>1, <3>2
  <2>3. Fits(c, Has(c, b, 0))
    <3>1. \/ budget'[month][b].used = budget[month][b].used + 0 - caller[c].held[b]
          \/ budget'[month][b].used > budget[month][b].used + 0 - caller[c].held[b]
               /\ (budget'[month][b].exhausted \/ Fails(c))
      <4>1. CASE caller[c].held[b] = 0
        BY <1>2, <2>2, <4>1
      <4>2. CASE caller[c].held[b] > 0
        BY <1>2, <1>3, <2>2, <4>2
      <4> QED BY <1>3, <4>1, <4>2
    <3> QED BY <1>1, <1>2, <2>2, <3>1, BucketFits
  <2>4. ASSUME NEW g \in Holds, Onward(May(caller[c].todo), Exhaust(b), caller[c].held, g)
        PROVE  g = Has(c, b, 0)
    <3>1. g = [caller[c].held EXCEPT ![b] = 0]
      BY <2>4, OnwardBudget
    <3> QED BY <3>1 DEF Has
  <2> QED BY <1>1, <2>1, <2>3, <2>4, RestCovers
<1> QED BY <1>4, <1>5, <1>6, <1>7, <1>8

\* Nothing is ever reserved after the fact while Hunter counts within the headroom.
LEMMA NoCover == ASSUME IInv, Covered, NEW c \in Caller PROVE ~CoverOk(c) /\ ~CoverRefused(c)
<1>1. SUFFICES ASSUME Does(c, Cover) PROVE FALSE
  BY DEF CoverOk, CoverRefused
<1>2. \E g \in Holds : Onward(May(caller[c].todo), Cover, caller[c].held, g)
  BY <1>1, PlanOf DEF Covered
<1> QED BY <1>2, OnwardFacts

\* Abandon and complete move no budget, and come when nothing is held.
LEMMA RowCovers ==
  ASSUME IInv, IInv', Covered, NEW c \in Caller,
         AbandonClaim(c) \/ \E answer \in Answers : CompleteLookup(c, answer)
  PROVE  Covered' /\ Lossless
<1>1. UNCHANGED <<budget, month, counted>>
  BY DEF AbandonClaim, CompleteLookup
<1>2. Fits(c, caller[c].held)
  <2>1. \A q \in Bucket : budget[month][q].used \in Int
    BY Numbers DEF IInv
  <2> QED BY <1>1, <2>1, SameFits
<1>3. ASSUME NEW x, Does(c, x), Keeps(c, Rest(c)) \/ Keeps(c, <<>>),
             \A g \in Holds : Onward(May(caller[c].todo), x, caller[c].held, g) =>
               caller[c].held = NoneHeld /\ g = NoneHeld
      PROVE  Covered' /\ Lossless
  <2>1. CASE Keeps(c, Rest(c))
    <3>1. \A g \in Holds : Onward(May(caller[c].todo), x, caller[c].held, g) => g = caller[c].held
      BY <1>3
    <3> QED BY <1>1, <1>2, <1>3, <2>1, <3>1, RestCovers DEF Keeps
  <2>2. CASE Keeps(c, <<>>)
    <3>1. caller[c].held = NoneHeld
      BY <1>3, PlanOf DEF Covered
    <3>2. Leads(May(<<>>), <<>>, NoneHeld, NoneHeld)
      BY NoneFacts, LeadsNone
    <3>3. Goes(c, <<>>, NoneHeld) /\ Fits(c, NoneHeld)
      BY <1>2, <2>2, <3>1 DEF Keeps
    <3> QED BY <1>1, <3>2, <3>3, NoneFacts, CallerGoes DEF Covered
  <2> QED BY <1>3, <2>1, <2>2
<1>4. CASE AbandonClaim(c)
  <2>1. Does(c, Abandon) /\ Keeps(c, Rest(c))
    BY <1>4 DEF AbandonClaim
  <2>2. ASSUME NEW g \in Holds, Onward(May(caller[c].todo), Abandon, caller[c].held, g)
        PROVE  caller[c].held = NoneHeld /\ g = NoneHeld
    BY <2>2, OnwardFacts
  <2> QED BY <1>3, <2>1, <2>2
<1>5. ASSUME NEW answer \in Answers, CompleteLookup(c, answer) PROVE Covered' /\ Lossless
  <2>1. Does(c, Complete(answer)) /\ (Keeps(c, Rest(c)) \/ Keeps(c, <<>>))
    BY <1>5 DEF CompleteLookup
  <2>2. ASSUME NEW g \in Holds, Onward(May(caller[c].todo), Complete(answer), caller[c].held, g)
        PROVE  caller[c].held = NoneHeld /\ g = NoneHeld
    BY <2>2, OnwardComplete
  <2> QED BY <1>3, <2>1, <2>2
<1> QED BY <1>4, <1>5

\* Hunter counts no more for a search than its caller held, and the caller gives back the
\* rest; a search that is not counted gives everything back.
LEMMA SearchCovers ==
  ASSUME IInv, IInv', Covered, Returned \subseteq 0..Headroom, NEW c \in Caller,
         \/ SearchFails(c) \/ SearchQuota(c) \/ SearchClaimed(c)
         \/ \E n \in Returned, low \in BOOLEAN, verdict \in Verdicts :
              SearchAnswered(c, n, low, verdict)
  PROVE  Covered' /\ Lossless
<1>1. Does(c, Ask("search")) /\ month' = month /\ budget' = budget
  BY DEF SearchFails, SearchQuota, SearchClaimed, SearchAnswered
<1>2. PICK h \in Holds : h = caller[c].held /\ h["search"] = 1 /\ h["verification"] >= Headroom
  <2>1. \E g \in Holds : Onward(May(caller[c].todo), Ask("search"), caller[c].held, g)
    BY <1>1, PlanOf DEF Covered
  <2>2. caller[c].held \in Holds
    BY <1>1, PlanOf DEF Covered
  <2> QED BY <2>1, <2>2, OnwardFacts
<1>3. CASE SearchFails(c) \/ SearchQuota(c) \/ SearchClaimed(c)
  <2>1. counted' = counted
    BY <1>3 DEF SearchFails, SearchQuota, SearchClaimed
  <2>2. Fits(c, h)
    <3>1. \A q \in Bucket : budget[month][q].used \in Int
      BY Numbers DEF IInv
    <3> QED BY <1>1, <1>2, <2>1, <3>1, SameFits
  <2>3. PICK t : Goes(c, t, h) /\ Leads(May(t), t, h, NoneHeld)
    <3>1. CASE SearchFails(c)
      BY <1>2, <3>1, LeadsGiveUp DEF SearchFails, Keeps
    <3>2. CASE SearchQuota(c)
      BY <1>2, <3>2, LeadsGiveUp DEF SearchQuota, Keeps
    <3>3. CASE SearchClaimed(c)
      BY <1>2, <3>3, LeadsGiveUp DEF SearchClaimed, Keeps
    <3> QED BY <1>3, <3>1, <3>2, <3>3
  <2> QED BY <1>1, <2>2, <2>3, CallerGoes DEF Covered
<1>4. ASSUME NEW n \in Returned, NEW low \in BOOLEAN, NEW verdict \in Verdicts,
             SearchAnswered(c, n, low, verdict)
      PROVE  Covered' /\ Lossless
  <2>1. n \in Nat /\ n <= h["verification"]
    <3>1. n \in 0..Headroom /\ h["verification"] \in Nat
      BY DEF Holds, Bucket
    <3> QED BY <1>2, <3>1, HunterAssumption
  <2>2. PICK g : g = [search |-> IF verdict = "empty" THEN h["search"] ELSE 0,
                      verification |-> Unspent(h["verification"], n)]
    OBVIOUS
  <2>3. PICK t : t = Balance(h["verification"], n)
                       \o Times(IF low THEN 1 ELSE 0, Exhaust("verification")) \o Follow(verdict)
    OBVIOUS
  <2>4. g \in Holds /\ g["verification"] = h["verification"] - n /\ Leads(May(t), t, g, NoneHeld)
    BY <1>2, <2>1, <2>2, <2>3, LeadsAnswered, NoneFacts
  <2>5. Goes(c, t, g)
    BY <1>2, <1>4, <2>2, <2>3 DEF SearchAnswered, Held
  <2>6. /\ counted'[month]["search"] = counted[month]["search"] + (IF verdict = "empty" THEN 0 ELSE 1)
        /\ counted'[month]["verification"] = counted[month]["verification"] + n
    <3>1. month \in DOMAIN counted
      BY DEF IInv, TypeOK
    <3> QED BY <1>4, <3>1 DEF SearchAnswered
  <2>7. Fits(c, g)
    <3>1. \A b \in Bucket : /\ counted[month][b] \in Int /\ budget[month][b].used \in Int
                            /\ h[b] \in Nat
      BY Numbers DEF IInv, Holds
    <3>2. g["search"] = (IF verdict = "empty" THEN 1 ELSE 0)
      BY <1>2, <2>2
    <3>3. ASSUME NEW b \in Bucket PROVE counted'[month][b] + g[b] = counted[month][b] + h[b]
      <4>1. CASE b = "search"
        <5>1. counted[month]["search"] \in Int
          BY <3>1, <4>1
        <5> QED BY <1>2, <2>6, <3>2, <4>1, <5>1
      <4>2. CASE b = "verification"
        <5>1. counted[month]["verification"] \in Int /\ h["verification"] \in Nat
          BY <3>1, <4>2
        <5> QED BY <2>1, <2>4, <2>6, <4>2, <5>1
      <4> QED BY <4>1, <4>2 DEF Bucket
    <3> SUFFICES ASSUME NEW b \in Bucket, NEW before, NEW after,
                        before = counted[month][b] + caller[c].held[b] - budget[month][b].used,
                        after = counted'[month'][b] + g[b] - budget'[month'][b].used
                 PROVE  after <= before /\ (after < before => budget'[month'][b].exhausted \/ Fails(c))
      BY DEF Fits
    <3>4. counted'[month][b] \in Int /\ g[b] \in Nat
      <4>1. counted'[month'][b] \in Int
        BY DEF IInv, TypeOK
      <4> QED BY <1>1, <2>4, <4>1 DEF Holds
    <3>5. counted'[month][b] + g[b] = counted[month][b] + h[b]
      BY <3>3
    <3>6. /\ before = counted[month][b] + h[b] - budget[month][b].used
          /\ after = counted'[month][b] + g[b] - budget[month][b].used
      BY <1>1, <1>2
    <3>7. before \in Int /\ after = before
      BY <3>1, <3>4, <3>5, <3>6
    <3> QED BY <3>7
  <2> QED BY <1>1, <2>4, <2>5, <2>7, CallerGoes DEF Covered
<1> QED BY <1>3, <1>4

\* Hunter counts one verification for an answer, and the caller held just that.
LEMMA VerifierCovers ==
  ASSUME IInv, IInv', Covered, NEW c \in Caller,
         \/ VerifierFails(c) \/ VerifierQuota(c) \/ VerifierUndecided(c)
         \/ \E answer \in {"found", "not_found", "webmail"} : VerifierDecides(c, answer)
  PROVE  Covered' /\ Lossless
<1>1. Does(c, Ask("verifier")) /\ month' = month /\ budget' = budget
  BY DEF VerifierFails, VerifierQuota, VerifierUndecided, VerifierDecides
<1>2. PICK h \in Holds : h = caller[c].held /\ h = [NoneHeld EXCEPT !["verification"] = 1]
  <2>1. \E g \in Holds : Onward(May(caller[c].todo), Ask("verifier"), caller[c].held, g)
    BY <1>1, PlanOf DEF Covered
  <2>2. caller[c].held \in Holds
    BY <1>1, PlanOf DEF Covered
  <2> QED BY <2>1, <2>2, OnwardFacts
<1>3. "verification" \in Bucket /\ \A a \in {"found", "not_found", "webmail"} : a \in Answers
  BY DEF Bucket, Answers
<1>4. \A b \in Bucket : /\ counted[month][b] \in Int /\ budget[month][b].used \in Int
                        /\ h[b] = IF b = "verification" THEN 1 ELSE 0
  BY <1>2, NoneFacts, Numbers DEF IInv, Holds
<1>5. CASE VerifierFails(c) \/ VerifierQuota(c)
  <2>1. counted' = counted
    BY <1>5 DEF VerifierFails, VerifierQuota
  <2>2. Fits(c, h)
    BY <1>1, <1>2, <1>4, <2>1, SameFits
  <2>3. NoneHeld = [h EXCEPT !["verification"] = 0]
    <3>1. PICK k \in Holds : k = [h EXCEPT !["verification"] = 0]
      BY <1>3, LeadsBack
    <3>2. \A b \in Bucket : k[b] = 0
      BY <1>4, <3>1 DEF Holds
    <3> QED BY <3>1, <3>2, NoneFacts
  <2>4. h["verification"] > 0 /\ h["verification"] - 1 = 0
    BY <1>3, <1>4
  <2>5. \A R : /\ Onward(R, Release("verification"), h, NoneHeld)
               /\ Onward(R, Exhaust("verification"), h, NoneHeld)
    BY <1>3, <2>3, <2>4 DEF Onward
  <2>6. \A R : /\ Leads(R, <<Release("verification")>>, h, NoneHeld)
               /\ Leads(R, <<Exhaust("verification")>>, h, NoneHeld)
    BY <2>5, NoneFacts, LeadsOne
  <2>7. PICK t : Goes(c, t, h) /\ Leads(May(t), t, h, NoneHeld)
    <3>1. CASE VerifierFails(c)
      BY <1>2, <2>6, <3>1 DEF VerifierFails, Keeps
    <3>2. CASE VerifierQuota(c)
      BY <1>2, <2>6, <3>2 DEF VerifierQuota, Keeps
    <3> QED BY <1>5, <3>1, <3>2
  <2> QED BY <1>1, <2>2, <2>7, CallerGoes DEF Covered
<1>6. CASE VerifierUndecided(c) \/ \E answer \in {"found", "not_found", "webmail"} : VerifierDecides(c, answer)
  <2>1. PICK t : Goes(c, t, NoneHeld) /\ Leads(May(t), t, NoneHeld, NoneHeld)
    <3>1. CASE VerifierUndecided(c)
      BY NoneFacts, <3>1, LeadsNone DEF VerifierUndecided
    <3>2. ASSUME NEW answer \in {"found", "not_found", "webmail"}, VerifierDecides(c, answer)
          PROVE  \E t : Goes(c, t, NoneHeld) /\ Leads(May(t), t, NoneHeld, NoneHeld)
      <4>1. \A R : Onward(R, Complete(answer), NoneHeld, NoneHeld)
        BY <1>3 DEF Onward
      <4>2. \A R : Leads(R, <<Complete(answer)>>, NoneHeld, NoneHeld)
        BY <4>1, NoneFacts, LeadsOne
      <4> QED BY <3>2, <4>2 DEF VerifierDecides
    <3> QED BY <1>6, <3>1, <3>2
  <2>2. \A b \in Bucket : counted'[month][b] = counted[month][b] + (IF b = "verification" THEN 1 ELSE 0)
    <3>1. Counts("verification", 1)
      BY <1>6 DEF VerifierUndecided, VerifierDecides
    <3>2. counted \in [Months -> [Bucket -> Nat]] /\ month \in Months
      BY DEF IInv, TypeOK
    <3>3. counted' = [counted EXCEPT ![month]["verification"] = counted[month]["verification"] + 1]
      BY <3>1 DEF Counts
    <3>4. \A b \in Bucket : counted'[month][b] =
            IF b = "verification" THEN counted[month]["verification"] + 1 ELSE counted[month][b]
      BY <1>3, <3>2, <3>3
    <3> QED BY <1>3, <1>4, <3>4
  <2>3. Fits(c, NoneHeld)
    <3> SUFFICES ASSUME NEW b \in Bucket, NEW before, NEW after,
                        before = counted[month][b] + caller[c].held[b] - budget[month][b].used,
                        after = counted'[month'][b] + NoneHeld[b] - budget'[month'][b].used
                 PROVE  after <= before /\ (after < before => budget'[month'][b].exhausted \/ Fails(c))
      BY DEF Fits
    <3>1. NoneHeld[b] = 0
      BY NoneFacts
    <3>2. before \in Int /\ after = before
      BY <1>1, <1>2, <1>4, <2>2, <3>1
    <3> QED BY <3>2
  <2> QED BY <1>1, <2>1, <2>3, NoneFacts, CallerGoes DEF Covered
<1> QED BY <1>5, <1>6

\* Steps that touch neither callers nor budget.
LEMMA StillCovered ==
  ASSUME Covered, UNCHANGED <<budget, month, caller, counted>> PROVE Covered' /\ Lossless
<1>1. Planned'
  BY Zenon DEF Covered, Planned, CanDo, May
<1>2. \A b \in Bucket : HeldByAll(b) = HeldBy(caller, b) /\ HeldByAll(b)' = HeldBy(caller', b)
  BY DEF HeldByAll, HeldBy, MapThenSumSet, MapThenFoldSet
<1>3. NeverUndercounts'
  <2> SUFFICES ASSUME NEW b \in Bucket
               PROVE  counted'[month'][b] + HeldByAll(b)' <= budget'[month'][b].used
    BY DEF NeverUndercounts
  <2>1. counted[month][b] + HeldByAll(b) <= budget[month][b].used
    BY DEF Covered, NeverUndercounts
  <2> QED BY <1>2, <2>1
<1>4. \A b \in Bucket : Slack(b)' = Slack(b)
  BY <1>2 DEF Slack
<1> QED BY <1>1, <1>3, <1>4 DEF Covered, Lossless

\* Somebody begins, and somebody who dies leaves what it held counted as used.
LEMMA BeginCovers ==
  ASSUME IInv, IInv', Covered, NEW c \in Caller,
         (\E k \in Key : Claim(c, k) \/ Resume(c, k)) \/ Killed(c)
  PROVE  Covered' /\ Lossless
<1>1. UNCHANGED <<budget, month, counted>>
  BY DEF Claim, Resume, Killed
<1>2. ASSUME caller[c] = Idle \/ Killed(c) PROVE Fits(c, NoneHeld)
  <2> SUFFICES ASSUME NEW b \in Bucket, NEW before, NEW after,
                      before = counted[month][b] + caller[c].held[b] - budget[month][b].used,
                      after = counted'[month'][b] + NoneHeld[b] - budget'[month'][b].used
               PROVE  after <= before /\ (after < before => budget'[month'][b].exhausted \/ Fails(c))
    BY DEF Fits
  <2>1. counted[month][b] \in Int /\ budget[month][b].used \in Int
    BY Numbers DEF IInv
  <2>2. caller[c].held[b] \in Nat /\ NoneHeld[b] = 0
    BY NoneFacts DEF Covered, Planned, CanDo, Holds
  <2>3. after = before - caller[c].held[b] /\ before \in Int
    BY <1>1, <2>1, <2>2
  <2>4. CASE caller[c] = Idle
    <3>1. caller[c].held[b] = 0
      BY <2>2, <2>4 DEF Idle
    <3> QED BY <2>3, <3>1
  <2>5. CASE Killed(c)
    <3>1. Fails(c)
      BY <2>5 DEF Fails
    <3>2. after <= before
      BY <2>2, <2>3
    <3> QED BY <3>1, <3>2
  <2> QED BY <1>2, <2>4, <2>5
<1>3. ASSUME NEW v, CanDo(v), v.held = NoneHeld, caller' = [caller EXCEPT ![c] = v],
             caller[c] = Idle \/ Killed(c)
      PROVE  Covered' /\ Lossless
  <2>1. Fits(c, v.held)
    BY <1>2, <1>3
  <2> QED BY <1>1, <1>3, <2>1, CallerMoves DEF Covered
<1>4. ASSUME NEW k \in Key, Claim(c, k) PROVE Covered' /\ Lossless
  <2>1. CASE caller' = caller
    BY <1>1, <2>1, StillCovered
  <2>2. CASE caller' = [caller EXCEPT ![c] = [key |-> k, todo |-> ToSearch, held |-> NoneHeld]]
    <3>1. PICK v : v = [key |-> k, todo |-> ToSearch, held |-> NoneHeld]
      OBVIOUS
    <3>2. CanDo(v) /\ v.held = NoneHeld
      BY <3>1, LeadsSearch, NoneFacts DEF CanDo
    <3>3. caller[c] = Idle
      BY <1>4 DEF Claim
    <3> QED BY <1>3, <2>2, <3>1, <3>2, <3>3
  <2> QED BY <1>4, <2>1, <2>2 DEF Claim
<1>5. ASSUME NEW k \in Key, Resume(c, k) PROVE Covered' /\ Lossless
  <2>1. PICK v : v = [key |-> k, todo |-> ToResume(row[k]), held |-> NoneHeld]
    OBVIOUS
  <2>2. CanDo(v) /\ v.held = NoneHeld
    BY <2>1, LeadsVerify, NoneFacts DEF CanDo
  <2>3. caller' = [caller EXCEPT ![c] = v] /\ caller[c] = Idle
    BY <1>5, <2>1 DEF Resume
  <2> QED BY <1>3, <2>2, <2>3
<1>6. CASE Killed(c)
  <2>1. PICK v : v = Idle
    OBVIOUS
  <2>2. CanDo(v) /\ v.held = NoneHeld
    BY <2>1, LeadsNone, NoneFacts DEF CanDo, Idle
  <2>3. caller' = [caller EXCEPT ![c] = v]
    BY <1>6, <2>1 DEF Killed
  <2> QED BY <1>3, <1>6, <2>2, <2>3
<1> QED BY <1>4, <1>5, <1>6

\* Within one month every step leaves the callers with calls they can make and the
\* buckets covered, and loses credits only by a failure.
LEMMA StepCovers ==
  ASSUME MaxMonth = 1, Returned \subseteq 0..Headroom, IInv, IInv', Covered, [Next]_vars
  PROVE  Covered' /\ Lossless
<1>1. ASSUME NEW c \in Caller, Steps(c) PROVE Covered' /\ Lossless
  <2>1. ASSUME NEW k \in Key, Hit(c, k) PROVE Covered' /\ Lossless
    BY <2>1, StillCovered DEF Hit, vars
  <2>2. ASSUME NEW b \in Bucket,
               \/ ReserveOk(c, b) \/ ReserveRefused(c, b) \/ ReserveUnheard(c, b)
               \/ ReleaseOne(c, b) \/ ExhaustOne(c, b)
        PROVE  Covered' /\ Lossless
    BY <2>2, BudgetCovers
  <2>3. ~CoverOk(c) /\ ~CoverRefused(c)
    BY NoCover
  <2>4. ASSUME AbandonClaim(c) \/ \E answer \in Answers : CompleteLookup(c, answer)
        PROVE  Covered' /\ Lossless
    BY <2>4, RowCovers
  <2>5. ASSUME \/ SearchFails(c) \/ SearchQuota(c) \/ SearchClaimed(c)
               \/ \E n \in Returned, low \in BOOLEAN, verdict \in Verdicts :
                    SearchAnswered(c, n, low, verdict)
        PROVE  Covered' /\ Lossless
    BY <2>5, SearchCovers
  <2>6. ASSUME \/ VerifierFails(c) \/ VerifierQuota(c) \/ VerifierUndecided(c)
               \/ \E answer \in {"found", "not_found", "webmail"} : VerifierDecides(c, answer)
        PROVE  Covered' /\ Lossless
    BY <2>6, VerifierCovers
  <2>7. ASSUME (\E k \in Key : Claim(c, k) \/ Resume(c, k)) \/ Killed(c) PROVE Covered' /\ Lossless
    BY <2>7, BeginCovers
  <2> QED BY <1>1, <2>1, <2>2, <2>3, <2>4, <2>5, <2>6, <2>7 DEF Steps
<1>2. ASSUME NEW k \in Key, Age(k) PROVE Covered' /\ Lossless
  BY <1>2, StillCovered DEF Age
<1>3. CASE UNCHANGED vars
  BY <1>3, StillCovered DEF vars
<1>4. ~NextMonth
  BY HunterAssumption DEF NextMonth, IInv, TypeOK, Months
<1> QED BY <1>1, <1>2, <1>3, <1>4 DEF Next

\* At the start nobody holds anything and nothing is counted.
LEMMA InitCovered == Init => Covered
<1> SUFFICES ASSUME Init PROVE Covered
  OBVIOUS
<1>1. \A c \in Caller : caller[c] = Idle
  BY DEF Init
<1>2. CanDo(Idle)
  <2>1. NoneHeld \in Holds
    BY DEF NoneHeld, Holds
  <2> QED BY <2>1, LeadsNone DEF CanDo, Idle
<1>3. Planned
  BY <1>1, <1>2 DEF Planned
<1>4. ASSUME NEW b \in Bucket
      PROVE  counted[month][b] + HeldByAll(b) <= budget[month][b].used
  <2>1. \A c \in Caller : caller[c].held[b] = 0
    BY <1>1 DEF Idle, NoneHeld
  <2>2. HeldByAll(b) = HeldBy(caller, b)
    BY DEF HeldByAll, HeldBy
  <2>3. HeldBy(caller, b) = 0
    BY <2>1, HeldNothing
  <2>4. counted[month][b] = 0 /\ budget[month][b].used = 0
    BY HunterAssumption DEF Init, Months, NoneHeld
  <2> QED BY <2>2, <2>3, <2>4
<1> QED BY <1>3, <1>4 DEF Covered, NeverUndercounts

\* Both at once, as an invariant and a step.
LEMMA CoveredForever ==
  ASSUME MaxMonth = 1, Returned \subseteq 0..Headroom
  PROVE  /\ Init => IInv /\ Covered
         /\ IInv /\ Covered /\ [Next]_vars => IInv' /\ Covered' /\ Lossless
BY InitIInv, InitCovered, StepIInv, StepCovers

\* findWithHunter and releaseBudget: within one month, while Hunter counts no more for a
\* search than the verifications reserved before it, a bucket always covers what Hunter
\* counted and what all callers may still spend, for any number of callers, any cap and
\* headroom, whatever calls fail and whoever dies.
THEOREM CreditsAreCovered ==
  ASSUME MaxMonth = 1, Returned \subseteq 0..Headroom PROVE Spec => []NeverUndercounts
<1>1. Init => IInv /\ Covered
  BY CoveredForever
<1>2. IInv /\ Covered /\ [Next]_vars => IInv' /\ Covered'
  BY CoveredForever
<1>3. Covered => NeverUndercounts
  BY DEF Covered
<1> QED BY <1>1, <1>2, <1>3, PTL DEF Spec

\* findWithHunter gives back whatever it gave up: on the same terms, no step takes an open
\* bucket away from what Hunter counted and callers hold, unless a caller dies or one of
\* its budget calls fails, and then the bucket only covers more.
THEOREM NothingIsLost ==
  ASSUME MaxMonth = 1, Returned \subseteq 0..Headroom PROVE Spec => LostByFailure
<1>1. Init => IInv /\ Covered
  BY CoveredForever
<1>2. IInv /\ Covered /\ [Next]_vars => IInv' /\ Covered' /\ Lossless
  BY CoveredForever
<1>3. IInv /\ Covered /\ [Next]_vars =>
        [\A b \in Bucket :
           ~budget'[month][b].exhausted /\ Slack(b)' # Slack(b) =>
             /\ Slack(b)' > Slack(b)
             /\ \E c \in Caller : Killed(c) \/ (Lossy /\ MayFail(c) /\ caller'[c] # caller[c])]_vars
  BY <1>2 DEF Lossless, Fails
<1> QED BY <1>1, <1>2, <1>3, PTL DEF Spec, LostByFailure
=============================================================================
