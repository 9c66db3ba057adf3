-------------------------- MODULE ScanStageProofs --------------------------
(***************************************************************************)
(* ScanStage keeps to the gate, writes whole files and earns its verdicts, *)
(* for any endpoints, checks and width of the pool.                        *)
(***************************************************************************)
EXTENDS ScanStage, Functions, FiniteSetTheorems, TLAPS

\* Every element has its place, and the places are in order.
LEMMA InOrderLists ==
  ASSUME NEW S, S \subseteq Int, IsFiniteSet(S)
  PROVE  /\ Cardinality(S) \in Nat
         /\ InOrder(S) \in [1..Cardinality(S) -> S]
         /\ \A i, j \in 1..Cardinality(S) : i < j => InOrder(S)[i] < InOrder(S)[j]
         /\ \A x \in S : \E i \in 1..Cardinality(S) : InOrder(S)[i] = x
  <1> DEFINE N == Cardinality(S)
             Under(x) == {y \in S : y < x}
             rank == [x \in S |-> Below(S, x)]
  <1>0. \A x, y, z \in S :
          /\ x < y \/ x = y \/ y < x
          /\ ~(x < x) /\ (x < y => ~(y < x)) /\ (x < y /\ y < z => x < z)
    OBVIOUS
  <1>1. N \in Nat
    BY FS_CardinalityType
  <1>2. \A x \in S : IsFiniteSet(Under(x)) /\ Below(S, x) = Cardinality(Under(x)) /\ Below(S, x) \in Nat
    <2> TAKE x \in S
    <2>1. IsFiniteSet(Under(x))
      BY FS_Subset
    <2> QED BY <2>1, FS_CardinalityType DEF Below
  <1>13. \A x \in S : Below(S, x) \in Nat
    BY <1>2
  <1>3. \A x \in S : Below(S, x) \in 0..(N - 1)
    <2> TAKE x \in S
    <2>1. Under(x) \subseteq S /\ x \in S /\ x \notin Under(x)
      BY <1>0
    <2>2. Cardinality(Under(x)) <= N /\ Cardinality(Under(x)) # N
      BY <2>1, FS_Subset
    <2> QED BY <1>1, <1>2, <2>2
  <1>4. \A x, y \in S : x < y => Below(S, x) < Below(S, y)
    <2> TAKE x, y \in S
    <2> HAVE x < y
    <2>1. Under(x) \subseteq Under(y) /\ x \in Under(y) /\ x \notin Under(x)
      BY <1>0
    <2>2. Cardinality(Under(x)) <= Cardinality(Under(y)) /\ Cardinality(Under(x)) # Cardinality(Under(y))
      BY <1>2, <2>1, FS_Subset
    <2> QED BY <1>2, <2>2
  <1>5. rank \in Injection(S, 0..(N - 1))
    <2>1. \A x, y \in S : Below(S, x) = Below(S, y) => x = y
      <3> TAKE x, y \in S
      <3> HAVE Below(S, x) = Below(S, y)
      <3>1. ~(x < y) /\ ~(y < x)
        BY <1>13, <1>4
      <3> QED BY <1>0, <3>1
    <2> QED BY <1>3, <2>1 DEF Injection, IsInjective
  <1>6. IsFiniteSet(0..(N - 1)) /\ Cardinality(0..(N - 1)) = N
    BY <1>1, FS_Interval
  <1>7. rank \in Surjection(S, 0..(N - 1))
    BY <1>5, <1>6, FS_Injection
  <1>8. \A r \in 1..N : \E x \in S : Below(S, x) = r - 1
    <2> TAKE r \in 1..N
    <2>1. r - 1 \in 0..(N - 1)
      BY <1>1
    <2> QED BY <1>7, <2>1 DEF Surjection
  <1>9. \A r \in 1..N : InOrder(S)[r] \in S /\ Below(S, InOrder(S)[r]) = r - 1
    <2> TAKE r \in 1..N
    <2>1. InOrder(S)[r] = CHOOSE x \in S : Below(S, x) = r - 1
      BY DEF InOrder
    <2> QED BY <1>8, <2>1
  <1>10. InOrder(S) \in [1..N -> S]
    BY <1>9 DEF InOrder
  <1>11. \A i, j \in 1..N : i < j => InOrder(S)[i] < InOrder(S)[j]
    <2> TAKE i, j \in 1..N
    <2> HAVE i < j
    <2>1. Below(S, InOrder(S)[i]) < Below(S, InOrder(S)[j])
      BY <1>1, <1>9
    <2> DEFINE x == InOrder(S)[i]
               y == InOrder(S)[j]
    <2>2. x \in S /\ y \in S /\ Below(S, x) < Below(S, y)
      BY <1>9, <2>1
    <2> HIDE DEF x, y
    <2>3. ~(y < x) /\ x # y
      BY <1>13, <1>4, <2>2
    <2>4. x < y
      BY <1>0, <2>2, <2>3
    <2> QED BY <2>4 DEF x, y
  <1>12. \A x \in S : \E i \in 1..N : InOrder(S)[i] = x
    <2> TAKE x \in S
    <2>1. Below(S, x) + 1 \in 1..N
      BY <1>1, <1>3
    <2> DEFINE y == InOrder(S)[Below(S, x) + 1]
    <2>2. y \in S /\ Below(S, y) = Below(S, x)
      BY <1>13, <1>9, <2>1
    <2> HIDE DEF y
    <2>3. ~(y < x) /\ ~(x < y)
      BY <1>13, <1>4, <2>2
    <2>4. y = x
      BY <1>0, <2>2, <2>3
    <2> QED BY <2>1, <2>4 DEF y
  <1> QED BY <1>1, <1>10, <1>11, <1>12
\* What is already a range lists itself.
LEMMA InOrderOfRange ==
  ASSUME NEW m \in Nat
  PROVE  InOrder(1..m) = [i \in 1..m |-> i]
  <1>1. Cardinality(1..m) = m
    BY FS_Interval
  <1>2. ASSUME NEW x \in 1..m PROVE Below(1..m, x) = x - 1
    <2>1. {y \in 1..m : y < x} = 1..(x - 1)
      OBVIOUS
    <2>2. Cardinality(1..(x - 1)) = x - 1
      BY FS_Interval
    <2> QED BY <2>1, <2>2 DEF Below
  <1>3. ASSUME NEW i \in 1..m PROVE (CHOOSE x \in 1..m : Below(1..m, x) = i - 1) = i
    <2>1. \A x \in 1..m : Below(1..m, x) = i - 1 <=> x = i
      BY <1>2
    <2> QED BY <2>1
  <1> QED BY <1>1, <1>3 DEF InOrder
-----------------------------------------------------------------------------
Stages == {"login", "collect", "build", "check", "summarise", "written", "refused"}
Baselines == {"none", "answered", "404", "failed"}

Typed ==
  /\ endpoints \in Seq(Shapes) /\ optIn \in BOOLEAN /\ stage \in Stages
  /\ n \in Nat /\ taken \in 0..n
  /\ running \subseteq 1..taken /\ done \subseteq 1..taken
  /\ baseline \in [Routes -> Baselines]

\* A request goes to a route that the gate lets by.
LetBy == {e \in Routes : ~HeldBack(e)}
Gated == \A s \in sent : s.to \in LetBy /\ (s.during = "collect" => Safe(s.verb))

\* What the items of the first pool are, and what those that are done have left.
Collecting ==
  stage = "collect" => n = Cardinality(LetBy) /\ \A i \in done : baseline[Eligible[i]] # "none"

Later == {"build", "check", "summarise", "written"}
Collected == stage \in Later => \A e \in LetBy : baseline[e] # "none"

\* The same of the second pool.
Checking ==
  stage \in {"check", "summarise", "written"} =>
    /\ jobs = JobList /\ n = Len(jobs)
    /\ DOMAIN answer = 1..n
    /\ \A i \in done : answer[i] \in CheckAnswers(jobs[i])

\* What the second pool has handed over, and what was written of it.
Summed ==
  stage \in {"summarise", "written"} => done = 1..n /\ out = InOrder(done)

Filed == file = IF stage = "written" THEN Account(done) ELSE Blank

IInv == Typed /\ Gated /\ Collecting /\ Collected /\ Checking /\ Summed /\ Filed
-----------------------------------------------------------------------------
LEMMA EligibleLists ==
  ASSUME Typed
  PROVE  /\ Cardinality(LetBy) \in Nat /\ Len(Eligible) = Cardinality(LetBy)
         /\ Eligible \in [1..Cardinality(LetBy) -> LetBy]
         /\ \A e \in LetBy : \E i \in 1..Cardinality(LetBy) : Eligible[i] = e
  <1>1. Routes = 1..Len(endpoints) /\ Len(endpoints) \in Nat
    BY DEF Typed, Routes
  <1>2. LetBy \subseteq Int /\ IsFiniteSet(LetBy)
    <2>1. IsFiniteSet(1..Len(endpoints))
      BY <1>1, FS_Interval
    <2> QED BY <1>1, <2>1, FS_Subset DEF LetBy
  <1>3. Eligible = InOrder(LetBy)
    BY DEF Eligible, LetBy
  <1>4. Eligible \in [1..Cardinality(LetBy) -> LetBy] /\ Cardinality(LetBy) \in Nat
    BY <1>2, <1>3, InOrderLists
  <1>5. Len(Eligible) = Cardinality(LetBy)
    BY <1>4
  <1> QED BY <1>2, <1>3, <1>4, <1>5, InOrderLists

\* Places are places in a table with a row per endpoint.
LEMMA PlacesApart ==
  ASSUME NEW m \in Nat, NEW a \in Int, NEW b \in 1..m, NEW c \in Int, NEW d \in 1..m,
         a * m + b = c * m + d
  PROVE  a = c /\ b = d
  <1>1. ASSUME NEW x \in Int, NEW y \in Int, x < y PROVE x * m + m <= y * m
    <2>1. y - x >= 1 /\ y - x \in Nat
      BY <1>1
    <2>2. (y - x) * m >= m
      BY <2>1
    <2> QED BY <2>2
  <1>2. ~(a < c) /\ ~(c < a)
    <2>1. a * m \in Int /\ c * m \in Int
      OBVIOUS
    <2> QED BY <1>1, <2>1
  <1> QED BY <1>2

\* Every job is a check that applies, on a route that the gate lets by; and each
\* such pair is one job.
LEMMA JobsRun ==
  ASSUME Typed
  PROVE  /\ Len(JobList) \in Nat /\ DOMAIN JobList = 1..Len(JobList)
         /\ \A i \in 1..Len(JobList) :
              JobList[i] \in Pairs /\ JobList[i][1] \in LetBy /\ JobList[i][2] \in 1..Len(Checks)
         /\ \A i, j \in 1..Len(JobList) : JobList[i] = JobList[j] => i = j
         /\ \A p \in Pairs : \E i \in 1..Len(JobList) : JobList[i] = p
  <1> DEFINE m == Len(Checks)
             e == Len(endpoints)
             K == {Place(p) : p \in Pairs}
  <1>1. e \in Nat /\ m \in Nat /\ Routes = 1..e
    BY ScanAssumption DEF Typed, Routes
  <1>2. \A p \in Pairs : p[1] \in 1..e /\ p[2] \in 1..m /\ p[1] \in LetBy
    BY <1>1 DEF Pairs, LetBy
  <1>3. K \subseteq Int
    <2> SUFFICES ASSUME NEW p \in Pairs PROVE Place(p) \in Int
      OBVIOUS
    <2>1. p[1] \in Int /\ p[2] \in Int
      BY <1>1, <1>2
    <2> QED BY <1>1, <2>1 DEF Place
  <1>4. IsFiniteSet(K)
    <2>1. IsFiniteSet(1..e) /\ IsFiniteSet(1..m)
      BY <1>1, FS_Interval
    <2>2. IsFiniteSet(Pairs)
      BY <1>1, <2>1, FS_Product, FS_Subset DEF Pairs
    <2>3. [p \in Pairs |-> Place(p)] \in Surjection(Pairs, K)
      BY DEF Surjection
    <2> QED BY <2>2, <2>3, FS_Surjection
  <1>5. /\ InOrder(K) \in [1..Cardinality(K) -> K] /\ Cardinality(K) \in Nat
        /\ \A i, j \in 1..Cardinality(K) : i < j => InOrder(K)[i] < InOrder(K)[j]
        /\ \A x \in K : \E i \in 1..Cardinality(K) : InOrder(K)[i] = x
    <2> HIDE DEF K
    <2> QED BY <1>3, <1>4, InOrderLists
  <1>6. JobList = [i \in 1..Cardinality(K) |-> CHOOSE p \in Pairs : Place(p) = InOrder(K)[i]]
    BY <1>5 DEF JobList
  <1>7. Len(JobList) = Cardinality(K) /\ DOMAIN JobList = 1..Cardinality(K)
    BY <1>5, <1>6
  <1>8. ASSUME NEW i \in 1..Cardinality(K)
        PROVE  JobList[i] \in Pairs /\ Place(JobList[i]) = InOrder(K)[i]
    <2>1. PICK p \in Pairs : Place(p) = InOrder(K)[i]
      BY <1>5
    <2>2. JobList[i] = CHOOSE q \in Pairs : Place(q) = InOrder(K)[i]
      BY <1>6
    <2> QED BY <2>1, <2>2
  <1>9. ASSUME NEW i \in 1..Cardinality(K), NEW j \in 1..Cardinality(K), JobList[i] = JobList[j]
        PROVE  i = j
    <2>1. InOrder(K)[i] = InOrder(K)[j] /\ InOrder(K)[i] \in Int
      BY <1>3, <1>5, <1>8, <1>9
    <2>2. ~(i < j) /\ ~(j < i)
      BY <1>5, <2>1
    <2> QED BY <1>5, <2>2
  <1>10. ASSUME NEW p \in Pairs PROVE \E i \in 1..Cardinality(K) : JobList[i] = p
    <2>1. PICK i \in 1..Cardinality(K) : InOrder(K)[i] = Place(p)
      BY <1>5
    <2> DEFINE q == JobList[i]
    <2>2. q \in Pairs /\ Place(q) = Place(p)
      BY <1>8, <2>1
    <2> HIDE DEF q
    <2>3. p[1] = q[1] /\ p[2] = q[2]
      <3> DEFINE a == p[1]  b == p[2]  c == q[1]  d == q[2]
      <3>1. a \in Int /\ c \in Int /\ b \in 1..m /\ d \in 1..m /\ a * m + b = c * m + d
        BY <1>1, <1>2, <2>2 DEF Place
      <3>2. m \in Nat
        BY <1>1
      <3> HIDE DEF a, b, c, d, m
      <3>3. a = c /\ b = d
        BY <3>1, <3>2, PlacesApart, Zenon
      <3> QED BY <3>3 DEF a, b, c, d
    <2>4. p = q
      BY <2>2, <2>3 DEF Pairs
    <2> QED BY <2>4 DEF q
  <1> QED BY <1>2, <1>5, <1>7, <1>8, <1>9, <1>10
-----------------------------------------------------------------------------
\* What the gate, the verbs and the job list are made from does not change, but
\* for the baselines.
Fixed == UNCHANGED <<endpoints, optIn>>

LEMMA SameRoutes ==
  ASSUME Fixed
  PROVE  Routes' = Routes /\ LetBy' = LetBy /\ Eligible' = Eligible
  BY DEF Fixed, Routes, LetBy, HeldBack, Destructive, Eligible

LEMMA SameJobs ==
  ASSUME Fixed, UNCHANGED baseline
  PROVE  /\ JobList' = JobList
         /\ \A p : CheckAnswers(p)' = CheckAnswers(p) /\ HeldBack(p)' = HeldBack(p) /\ Absent(p)' = Absent(p)
  BY DEF Fixed, JobList, Pairs, Place, Routes, HeldBack, Destructive, Absent, Applies, CheckAnswers, Passive,
         Substituted

LEMMA SameAccount ==
  ASSUME Fixed, UNCHANGED <<baseline, jobs, answer, out, done>>
  PROVE  Account(done)' = Account(done)
  BY DEF Fixed, Account, Entry, HeldBackEntries, HeldBackEntry, Routes, HeldBack, Destructive, Absent

LEMMA GatedStays ==
  ASSUME IInv, Fixed, sent' = sent
  PROVE  Gated'
  BY SameRoutes DEF IInv, Gated

\* A route the gate lets by may have a request; its baseline's is safe.
LEMMA GatedGrows ==
  ASSUME IInv, Fixed, NEW e \in LetBy, NEW verb, NEW during \in {"collect", "check"},
         during = "collect" => Safe(verb),
         sent' = sent \cup {[to |-> e, verb |-> verb, during |-> during]}
  PROVE  Gated'
  BY SameRoutes DEF IInv, Gated
-----------------------------------------------------------------------------
LEMMA StartKeeps ==
  ASSUME IInv, Refuse \/ Login
  PROVE  IInv'
  <1> USE DEF IInv
  <1>1. /\ Fixed /\ stage = "login" /\ stage' \in {"refused", "collect"}
        /\ UNCHANGED <<baseline, jobs, answer, sent, file>>
    BY DEF Refuse, Login, Fixed
  <1>2. CASE Refuse
    <2>1. Typed' /\ Gated'
      BY <1>1, <1>2, GatedStays DEF Refuse, Typed, Stages, Routes, pool
    <2> QED BY <1>1, <1>2, <2>1 DEF Refuse, Collecting, Collected, Checking, Summed, Filed, Entry, Later, Blank
  <1>3. CASE Login
    <2>1. /\ n' = Len(Eligible) /\ taken' = 0 /\ running' = {} /\ done' = {} /\ stage' = "collect"
      BY <1>3 DEF Login, Call
    <2>2. n' = Cardinality(LetBy) /\ n' \in Nat
      BY <2>1, EligibleLists
    <2>3. Typed' /\ Gated'
      BY <1>1, <2>1, <2>2, GatedStays DEF Typed, Stages, Routes, Fixed
    <2>4. Collecting'
      BY <1>1, <2>1, <2>2, SameRoutes DEF Collecting
    <2> QED BY <1>1, <2>1, <2>3, <2>4 DEF Collected, Checking, Summed, Filed, Entry, Later, Blank
  <1> QED BY <1>2, <1>3

LEMMA TakeKeeps ==
  ASSUME IInv, Take
  PROVE  IInv'
  <1> USE DEF IInv
  <1>1. /\ Fixed /\ stage \in {"collect", "check"}
        /\ UNCHANGED <<stage, baseline, jobs, answer, sent, file, n, done, out>>
        /\ taken < n /\ taken' = taken + 1 /\ running' = running \cup {taken + 1}
    BY DEF Take, Pool!Take, Fixed
  <1>2. Typed' /\ Gated'
    BY <1>1, GatedStays DEF Typed, Routes, Fixed
  <1>3. Collecting' /\ Collected'
    BY <1>1, SameRoutes DEF Collecting, Collected, Later
  <1>4. Checking'
    BY <1>1, SameJobs DEF Checking
  <1>5. Summed' /\ Filed'
    BY <1>1 DEF Summed, Filed, Entry, Blank
  <1> QED BY <1>2, <1>3, <1>4, <1>5

LEMMA CollectKeeps ==
  ASSUME IInv, NEW i \in running, CollectOne(i) \/ CollectPanics(i)
  PROVE  IInv'
  <1> USE DEF IInv
  <1>0. i \in 1..n
    BY DEF Typed
  <1>1. /\ Fixed /\ stage = "collect" /\ i \in 1..n
        /\ UNCHANGED <<stage, jobs, answer, file, n, taken, out>>
        /\ running' = running \ {i}
    BY <1>0 DEF CollectOne, CollectPanics, Pool!Settle, Fixed
  <1>2. Eligible[i] \in LetBy /\ Eligible[i] \in Routes
    BY <1>1, EligibleLists DEF Collecting, LetBy
  <1>3. CASE CollectPanics(i)
    <2>1. UNCHANGED <<done, baseline, sent>>
      BY <1>3 DEF CollectPanics
    <2>2. Typed' /\ Gated'
      BY <1>1, <2>1, GatedStays DEF Typed, Routes, Fixed
    <2> QED BY <1>1, <2>1, <2>2, SameRoutes DEF Collecting, Collected, Checking, Summed, Filed, Entry, Later, Blank
  <1>4. CASE CollectOne(i)
    <2>1. PICK b \in {"answered", "404", "failed"} : baseline' = [baseline EXCEPT ![Eligible[i]] = b]
      BY <1>4 DEF CollectOne
    <2>2. done' = done \cup {i}
      BY <1>4 DEF CollectOne
    <2>3. sent' = sent \cup {[to |-> Eligible[i], verb |-> BaselineMethod(endpoints[Eligible[i]].verb), during |-> "collect"]}
      BY <1>4 DEF CollectOne
    <2>4. Safe(BaselineMethod(endpoints[Eligible[i]].verb))
      BY DEF Safe, BaselineMethod
    <2>5. Gated'
      BY <1>1, <1>2, <2>3, <2>4, GatedGrows
    <2>6. baseline' \in [Routes -> Baselines]
      BY <1>2, <2>1 DEF Typed, Baselines
    <2>7. i \in 1..taken
      BY DEF Typed
    <2>8. Typed'
      BY <1>1, <2>2, <2>6, <2>7, SameRoutes DEF Typed, Fixed
    <2>9. Collecting'
      <3>1. \A j \in done \cup {i} : baseline'[Eligible[j]] # "none"
        <4> SUFFICES ASSUME NEW j \in done \cup {i} PROVE baseline'[Eligible[j]] # "none"
          OBVIOUS
        <4>1. j \in 1..n
          BY <1>1 DEF Typed
        <4>2. Eligible[j] \in Routes
          BY <1>1, <4>1, EligibleLists DEF Collecting, LetBy
        <4> QED BY <1>1, <1>2, <2>1, <4>2 DEF Typed, Collecting
      <3> QED BY <1>1, <2>2, <3>1, SameRoutes DEF Collecting
    <2> QED BY <1>1, <2>5, <2>8, <2>9 DEF Collected, Checking, Summed, Filed, Entry, Later, Blank
  <1> QED BY <1>3, <1>4

\* A pool that replies without an error has done everything.
LEMMA CollectReturnsKeeps ==
  ASSUME IInv, CollectReturns
  PROVE  IInv'
  <1> USE DEF IInv
  <1>1. /\ Fixed /\ stage = "collect" /\ stage' = (IF err' = "nil" THEN "build" ELSE "refused")
        /\ UNCHANGED <<baseline, jobs, answer, sent, file, n, taken, running, done>>
        /\ err' = IF done = 1..n THEN "nil" ELSE IF cancelled THEN "ctx" ELSE "incomplete"
    BY DEF CollectReturns, Pool!Reply, Fixed
  <1>2. Typed' /\ Gated'
    BY <1>1, GatedStays DEF Typed, Stages, Routes, Fixed
  <1>3. Collected'
    <2> SUFFICES ASSUME stage' = "build", NEW e \in LetBy PROVE baseline[e] # "none"
      BY <1>1, SameRoutes DEF Collected, Later
    <2>1. done = 1..n
      BY <1>1
    <2>2. PICK i \in 1..n : Eligible[i] = e
      BY <1>1, EligibleLists DEF Collecting
    <2> QED BY <1>1, <2>1, <2>2 DEF Collecting
  <1>4. Collecting' /\ Checking' /\ Summed' /\ Filed'
    BY <1>1 DEF Collecting, Checking, Summed, Filed, Entry, Blank
  <1> QED BY <1>2, <1>3, <1>4
-----------------------------------------------------------------------------
LEMMA BuildKeeps ==
  ASSUME IInv, BuildJobs
  PROVE  IInv'
  <1> USE DEF IInv
  <1>1. /\ Fixed /\ stage = "build" /\ stage' = "check"
        /\ UNCHANGED <<baseline, sent, file>> /\ jobs' = JobList
        /\ answer' = [j \in 1..Len(JobList) |-> Unasked]
        /\ n' = Len(JobList) /\ taken' = 0 /\ running' = {} /\ done' = {}
    BY DEF BuildJobs, Call, Fixed
  <1>2. Len(JobList) \in Nat
    BY JobsRun
  <1>3. Typed' /\ Gated'
    BY <1>1, <1>2, GatedStays DEF Typed, Stages, Routes, Fixed
  <1>4. Checking'
    BY <1>1, SameJobs DEF Checking
  <1>5. Collected'
    BY <1>1, SameRoutes DEF Collected, Later
  <1>6. Collecting' /\ Summed' /\ Filed'
    BY <1>1 DEF Collecting, Summed, Filed, Entry, Blank
  <1> QED BY <1>3, <1>4, <1>5, <1>6

LEMMA RunJobKeeps ==
  ASSUME IInv, NEW i \in running, RunJob(i)
  PROVE  IInv'
  <1> USE DEF IInv
  <1>1. /\ Fixed /\ stage = "check" /\ i \in 1..n /\ i \in 1..taken
        /\ UNCHANGED <<stage, baseline, jobs, file, n, taken, out>>
        /\ running' = running \ {i} /\ done' = done \cup {i}
    <2>1. stage = "check" /\ Pool!Settle(i) /\ done' = done \cup {i}
          /\ UNCHANGED <<endpoints, optIn, stage, baseline, jobs, file>>
      BY DEF RunJob
    <2>2. running' = running \ {i} /\ UNCHANGED <<n, taken, out>>
      BY <2>1 DEF Pool!Settle
    <2>3. n \in Nat /\ taken \in 0..n /\ i \in 1..taken
      BY DEF Typed
    <2>4. i \in 1..n
      BY <2>3
    <2> QED
      BY <2>1, <2>2, <2>3, <2>4 DEF Fixed
  <1>2. jobs[i][1] \in LetBy
    BY <1>1, JobsRun DEF Checking
  <1>3. PICK a \in CheckAnswers(jobs[i]) : answer' = [answer EXCEPT ![i] = a]
    BY DEF RunJob
  <1>4. \/ sent' = sent
        \/ sent' = sent \cup {[to |-> jobs[i][1], verb |-> endpoints[jobs[i][1]].verb, during |-> "check"]}
    BY DEF RunJob
  <1>5. Gated'
    BY <1>1, <1>2, <1>4, GatedStays, GatedGrows
  <1>6. Typed'
    BY <1>1 DEF Typed, Routes, Fixed
  <1>7. Checking'
    BY <1>1, <1>3, SameJobs DEF Checking, Typed
  <1>8. Collected'
    BY <1>1, SameRoutes DEF Collected, Later
  <1>9. Collecting' /\ Summed' /\ Filed'
    BY <1>1 DEF Collecting, Summed, Filed, Entry, Blank
  <1> QED BY <1>5, <1>6, <1>7, <1>8, <1>9

LEMMA RunReturnsKeeps ==
  ASSUME IInv, RunReturns
  PROVE  IInv'
  <1> USE DEF IInv
  <1>1. /\ Fixed /\ stage = "check" /\ stage' = (IF err' = "nil" THEN "summarise" ELSE "refused")
        /\ UNCHANGED <<baseline, jobs, answer, sent, file, n, taken, running, done>>
        /\ err' = (IF done = 1..n THEN "nil" ELSE IF cancelled THEN "ctx" ELSE "incomplete")
        /\ out' = InOrder(done)
    BY DEF RunReturns, Listing, Pool!Reply, Fixed
  <1>2. Typed' /\ Gated'
    BY <1>1, GatedStays DEF Typed, Stages, Routes, Fixed
  <1>3. Collected'
    BY <1>1, SameRoutes DEF Collected, Later
  <1>4. Checking'
    BY <1>1, SameJobs DEF Checking
  <1>5. Summed'
    BY <1>1 DEF Summed
  <1>6. Collecting' /\ Filed'
    BY <1>1 DEF Collecting, Filed, Entry, Blank
  <1> QED BY <1>2, <1>3, <1>4, <1>5, <1>6

LEMMA WriteKeeps ==
  ASSUME IInv, Write
  PROVE  IInv'
  <1> USE DEF IInv
  <1>1. /\ Fixed /\ stage = "summarise" /\ stage' \in {"written", "refused"}
        /\ UNCHANGED <<baseline, jobs, answer, sent, n, taken, running, done, out>>
    BY DEF Write, pool, Fixed
  <1>2. Typed' /\ Gated'
    BY <1>1, GatedStays DEF Typed, Stages, Routes, Fixed
  <1>3. Collected'
    BY <1>1, SameRoutes DEF Collected, Later
  <1>4. Checking'
    BY <1>1, SameJobs DEF Checking
  <1>5. Summed' /\ Collecting'
    BY <1>1 DEF Summed, Collecting
  <1>6. Filed'
    <2>1. {out[k] : k \in 1..Len(out)} = done
      <3>1. done = 1..n /\ n \in Nat /\ out = InOrder(1..n)
        BY <1>1 DEF Summed, Typed
      <3>2. out = [i \in 1..n |-> i]
        BY <3>1, InOrderOfRange
      <3>3. Len(out) = n /\ \A i \in 1..n : out[i] = i
        BY <3>1, <3>2
      <3> QED BY <3>1, <3>3
    <2>2. CASE stage' = "written"
      <3>1. file' = Account(done)
        BY <2>1, <2>2 DEF Write
      <3> QED BY <1>1, <2>2, <3>1, SameAccount DEF Filed
    <2>3. CASE stage' # "written"
      <3>1. file' = file
        BY <1>1, <2>3 DEF Write
      <3> QED BY <1>1, <2>3, <3>1 DEF Filed
    <2> QED BY <2>2, <2>3
  <1> QED BY <1>2, <1>3, <1>4, <1>5, <1>6

LEMMA ElseKeeps ==
  ASSUME IInv, Cancel \/ UNCHANGED vars
  PROVE  IInv'
  <1> USE DEF IInv
  <1>1. Fixed /\ UNCHANGED <<stage, baseline, jobs, answer, sent, file, n, taken, running, done, out>>
    BY DEF Cancel, vars, Fixed
  <1>2. Typed' /\ Gated'
    BY <1>1, GatedStays DEF Typed, Stages, Routes, Fixed
  <1>3. Collecting' /\ Collected'
    BY <1>1, SameRoutes DEF Collecting, Collected, Later
  <1>4. Checking' /\ Summed'
    BY <1>1, SameJobs DEF Checking, Summed
  <1>5. Filed'
    <2> QED BY <1>1, SameAccount DEF Filed
  <1> QED BY <1>2, <1>3, <1>4, <1>5
-----------------------------------------------------------------------------
LEMMA InitHolds == Init => IInv
  <1> SUFFICES ASSUME Init PROVE IInv
    OBVIOUS
  <1>1. endpoints \in Seq(Shapes)
    <2>1. PICK k \in 0..MaxEndpoints : endpoints \in [1..k -> Shapes]
      BY DEF Init
    <2>2. k \in Nat
      BY ScanAssumption
    <2> QED BY <2>1, <2>2
  <1>2. Typed
    BY <1>1 DEF Init, Typed, Stages, Baselines
  <1>3. Filed
    BY DEF Init, Filed, Blank
  <1> QED BY <1>2, <1>3 DEF Init, IInv, Gated, Collecting, Collected, Checking, Summed, Later

LEMMA StepKeeps == IInv /\ [Next]_vars => IInv'
  <1> SUFFICES ASSUME IInv, [Next]_vars PROVE IInv'
    OBVIOUS
  <1>1. CASE Advance
    BY <1>1, StartKeeps, TakeKeeps, CollectKeeps, CollectReturnsKeeps, BuildKeeps, RunJobKeeps,
       RunReturnsKeeps, WriteKeeps DEF Advance
  <1>2. CASE Cancel \/ Exited \/ UNCHANGED vars
    BY <1>2, ElseKeeps DEF Exited
  <1> QED BY <1>1, <1>2 DEF Next

\* What each of the two pools leaves to what comes after it.
THEOREM InductiveInvariant == Spec => []IInv
  BY InitHolds, StepKeeps, PTL DEF Spec

\* The gate holds in both phases and collection is safe, whatever the spec declares.
THEOREM NothingIsDestroyed == Spec => []NothingDestroyed
  <1>1. IInv => NothingDestroyed
    BY DEF IInv, Gated, LetBy, HeldBack, NothingDestroyed
  <1> QED BY <1>1, InductiveInvariant, PTL

\* An answer that is in is one of a check, never the blank one.
LEMMA AnswersAreGiven ==
  ASSUME IInv, NEW i \in done, stage \in {"check", "summarise", "written"}
  PROVE  answer[i] \in Answers /\ answer[i] # Unasked
  <1>1. i \in 1..Len(JobList) /\ jobs = JobList /\ answer[i] \in CheckAnswers(jobs[i])
    BY DEF IInv, Checking, Typed
  <1>2. jobs[i][2] \in 1..Len(Checks)
    BY <1>1, JobsRun DEF IInv
  <1> DEFINE C == [kind : {"passive", "active"}, auth : BOOLEAN, templated : BOOLEAN, returns : SUBSET Answers]
  <1>3. Checks \in Seq(C)
    BY ScanAssumption
  <1>4. Checks[jobs[i][2]] \in C
    <2> HIDE DEF C
    <2> QED BY <1>2, <1>3
  <1>5. Checks[jobs[i][2]].returns \subseteq Answers
    BY <1>4
  <1>6. answer[i] \in Answers
    <2>1. CASE Passive(jobs[i]) /\ Substituted(jobs[i][1])
      <3>1. answer[i] = [findings |-> 0, err |-> "skipped"]
        BY <1>1, <2>1 DEF CheckAnswers
      <3> QED BY <3>1 DEF Answers
    <2>2. CASE ~(Passive(jobs[i]) /\ Substituted(jobs[i][1])) /\ baseline[jobs[i][1]] = "failed"
      <3>1. PICK f \in IF Passive(jobs[i]) THEN {0} ELSE 0..1 : answer[i] = [findings |-> f, err |-> "skipped"]
        BY <1>1, <2>2 DEF CheckAnswers
      <3> QED BY <3>1 DEF Answers
    <2>3. CASE ~(Passive(jobs[i]) /\ Substituted(jobs[i][1])) /\ baseline[jobs[i][1]] # "failed"
      BY <1>1, <1>5, <2>3 DEF CheckAnswers
    <2> QED BY <2>1, <2>2, <2>3
  <1>7. answer[i].err # "none"
    BY <1>6 DEF Answers
  <1> QED BY <1>6, <1>7 DEF Unasked

\* findings.json is whole or not there.
THEOREM FilesAreWhole == Spec => []WholeOrNothing
  <1>1. IInv => WholeOrNothing
    <2> SUFFICES ASSUME IInv, stage = "written" PROVE WholeOrNothing
      BY DEF WholeOrNothing
    <2>1. done = 1..Len(jobs)
      BY DEF IInv, Summed, Checking
    <2>2. \A j \in 1..Len(jobs) : answer[j] # Unasked
      BY <2>1, AnswersAreGiven
    <2>3. \A e \in Routes : ~HeldBack(e) => baseline[e] # "none"
      BY DEF IInv, Collected, Later, LetBy
    <2> QED BY <2>2, <2>3 DEF WholeOrNothing
  <1> QED BY <1>1, InductiveInvariant, PTL

\* A verdict is on an answer, and a passive one on the answer to the route's own verb.
LEMMA NilIsEarned ==
  ASSUME IInv, stage = "written", NEW i \in done, answer[i].err = "nil"
  PROVE  /\ baseline[jobs[i][1]] \in {"answered", "404"}
         /\ Checks[jobs[i][2]].kind = "passive" => Safe(endpoints[jobs[i][1]].verb)
  <1>1. jobs[i][1] \in LetBy /\ answer[i] \in CheckAnswers(jobs[i])
    BY JobsRun DEF IInv, Checking, Typed
  <1>2. baseline[jobs[i][1]] # "none" /\ baseline[jobs[i][1]] \in Baselines
    BY <1>1 DEF IInv, Collected, Later, Typed, LetBy
  <1>3. baseline[jobs[i][1]] # "failed" /\ ~(Passive(jobs[i]) /\ Substituted(jobs[i][1]))
    BY <1>1 DEF CheckAnswers
  <1>4. baseline[jobs[i][1]] \in {"answered", "404"}
    BY <1>2, <1>3 DEF Baselines
  <1> QED BY <1>3, <1>4 DEF Passive, Substituted, BaselineMethod, Safe

THEOREM VerdictsEarned == Spec => []VerdictsAreEarned
  <1>1. IInv => VerdictsAreEarned
    <2> SUFFICES ASSUME IInv, NEW x \in file.examined
                 PROVE  /\ baseline[x.route] \in {"answered", "404"}
                        /\ Checks[x.check].kind = "passive" => Safe(endpoints[x.route].verb)
      BY DEF VerdictsAreEarned
    <2>1. stage = "written"
      BY DEF IInv, Filed, Blank
    <2>2. PICK i \in done : answer[i].err = "nil" /\ x = Entry(i)
      BY <2>1 DEF IInv, Filed, Account
    <2> QED BY <2>1, <2>2, NilIsEarned DEF Entry
  <1> QED BY <1>1, InductiveInvariant, PTL
-----------------------------------------------------------------------------
\* What holds once the file is there, in one place.
LEMMA AtTheEnd ==
  ASSUME IInv, stage = "written"
  PROVE  /\ n \in Nat /\ done = 1..n /\ jobs = JobList /\ n = Len(jobs) /\ out = [i \in 1..n |-> i]
         /\ file = Account(1..n)
         /\ \A i \in 1..n : answer[i] \in Answers
  <1>1. n \in Nat /\ done = 1..n /\ jobs = JobList /\ n = Len(jobs) /\ out = InOrder(1..n)
    BY DEF IInv, Typed, Checking, Summed
  <1>2. out = [i \in 1..n |-> i]
    BY <1>1, InOrderOfRange
  <1>3. file = Account(1..n)
    BY <1>1 DEF IInv, Filed
  <1>4. \A i \in 1..n : answer[i] \in Answers
    BY <1>1, AnswersAreGiven
  <1> QED BY <1>1, <1>2, <1>3, <1>4

\* The findings of every result that has some are written, in the order of the jobs.
THEOREM FindingsAreKept == Spec => []FindingsKept
  <1>1. IInv => FindingsKept
    <2> SUFFICES ASSUME IInv, stage = "written" PROVE FindingsKept
      BY DEF FindingsKept
    <2> DEFINE K == {i \in 1..n : HasFinding(answer[i])}
               kept == {j \in 1..Len(jobs) : answer[j].findings = 1 /\ answer[j].err \notin {"other", "panic"}}
    <2>1. K = kept
      <3>1. n = Len(jobs) /\ \A i \in 1..n : answer[i] \in Answers
        BY AtTheEnd
      <3>2. \A i \in 1..n : answer[i].err \in {"nil", "skipped", "other", "panic"}
        BY <3>1 DEF Answers
      <3> QED BY <3>1, <3>2 DEF HasFinding
    <2>2. K \subseteq Int /\ IsFiniteSet(K)
      <3>1. n \in Nat /\ K \subseteq 1..n
        BY AtTheEnd
      <3>2. IsFiniteSet(1..n)
        BY <3>1, FS_Interval
      <3> QED BY <3>1, <3>2, FS_Subset
    <2>3. DOMAIN out = 1..n /\ \A i \in 1..n : out[i] = i
      BY AtTheEnd
    <2>4. {i \in DOMAIN out : HasFinding(answer[out[i]])} = K
      BY <2>3
    <2>5. file.findings = AtPlaces(out, K)
      <3>1. file.findings = AtPlaces(out, {i \in DOMAIN out : HasFinding(answer[out[i]])})
        BY AtTheEnd DEF Account
      <3> QED BY <2>4, <3>1, Zenon
    <2> HIDE DEF K, kept
    <2>6. /\ Cardinality(K) \in Nat /\ InOrder(K) \in [1..Cardinality(K) -> K]
          /\ \A i, j \in 1..Cardinality(K) : i < j => InOrder(K)[i] < InOrder(K)[j]
          /\ \A x \in K : \E i \in 1..Cardinality(K) : InOrder(K)[i] = x
      BY <2>2, InOrderLists
    <2>7. K \subseteq 1..n
      BY DEF K
    <2>8. file.findings = [m \in 1..Cardinality(K) |-> InOrder(K)[m]]
      BY <2>3, <2>5, <2>6, <2>7 DEF AtPlaces
    <2>9. Elements(file.findings) = K
      BY <2>6, <2>8 DEF Elements
    <2>10. \A a, b \in DOMAIN file.findings : a < b => file.findings[a] < file.findings[b]
      BY <2>6, <2>8
    <2> QED BY <2>1, <2>9, <2>10 DEF FindingsKept, kept
  <1> QED BY <1>1, InductiveInvariant, PTL
-----------------------------------------------------------------------------
\* The jobs whose check came back with one of the errors of E, and their lines.
With(E) == {j \in 1..n : answer[j].err \in E}
Lines(E) == {Entry(i) : i \in With(E)}

LEMMA Parts ==
  ASSUME IInv, stage = "written"
  PROVE  /\ file.examined = Lines({"nil"})
         /\ file.skipped = Lines({"skipped"}) \cup HeldBackEntries
         /\ file.failed = Lines({"other", "panic"})
         /\ file.checksRun = n
  <1>1. n \in Nat /\ file = Account(1..n)
    BY AtTheEnd
  <1>2. Cardinality(1..n) = n
    BY <1>1, FS_Interval
  <1> QED BY <1>1, <1>2 DEF Account, Lines, With

\* Jobs and their lines are the same in number, and a job's line names its pair.
LEMMA LinesOfJobs ==
  ASSUME IInv, stage = "written"
  PROVE  /\ \A i \in 1..n : Entry(i).check \in 1..Len(Checks) /\ jobs[i] \in Pairs
         /\ \A i, j \in 1..n : Entry(i) = Entry(j) => i = j
         /\ \A p \in Pairs : \E i \in 1..n : jobs[i] = p
  <1>1. n = Len(JobList) /\ jobs = JobList /\ Typed
    BY AtTheEnd DEF IInv
  <1>2. /\ \A i \in 1..n : jobs[i] \in Pairs /\ jobs[i][2] \in 1..Len(Checks)
        /\ \A i, j \in 1..n : jobs[i] = jobs[j] => i = j
        /\ \A p \in Pairs : \E i \in 1..n : jobs[i] = p
    BY <1>1, JobsRun
  <1>3. \A i \in 1..n : Entry(i).check \in 1..Len(Checks)
    BY <1>2 DEF Entry
  <1>4. ASSUME NEW i \in 1..n, NEW j \in 1..n, Entry(i) = Entry(j) PROVE i = j
    <2>1. jobs[i] \in Pairs /\ jobs[j] \in Pairs /\ jobs[i][1] = jobs[j][1] /\ jobs[i][2] = jobs[j][2]
      BY <1>2, <1>4 DEF Entry
    <2>2. jobs[i] = jobs[j]
      BY <2>1 DEF Pairs
    <2> QED BY <1>2, <2>2
  <1> QED BY <1>2, <1>3, <1>4

\* As many lines as jobs, under each heading.
LEMMA LinesCount ==
  ASSUME IInv, stage = "written", NEW E
  PROVE  /\ IsFiniteSet(With(E)) /\ IsFiniteSet(Lines(E))
         /\ Cardinality(Lines(E)) = Cardinality(With(E))
  <1> DEFINE line == [i \in With(E) |-> Entry(i)]
  <1>1. IsFiniteSet(With(E))
    <2>1. n \in Nat /\ With(E) \subseteq 1..n
      BY AtTheEnd DEF With
    <2>2. IsFiniteSet(1..n)
      BY <2>1, FS_Interval
    <2> QED BY <2>1, <2>2, FS_Subset
  <1>2. line \in Surjection(With(E), Lines(E))
    BY DEF Surjection, Lines
  <1>3. line \in Injection(With(E), Lines(E))
    <2>1. \A i, j \in With(E) : Entry(i) = Entry(j) => i = j
      BY LinesOfJobs DEF With
    <2> QED BY <2>1 DEF Injection, IsInjective, Lines
  <1> HIDE DEF line
  <1> QED BY <1>1, <1>2, <1>3, FS_Surjection

\* A pair that is a job has its line under one heading, any other under none.
LEMMA UnderOneHeading ==
  ASSUME IInv, stage = "written", NEW e \in Routes, NEW c \in 1..Len(Checks)
  PROVE  Cardinality({part \in {"examined", "skipped", "failed"} :
                        [check |-> c, route |-> e] \in file[part]})
           = IF Applies(c, e) /\ ~HeldBack(e) /\ ~Absent(e) THEN 1 ELSE 0
  <1> DEFINE x == [check |-> c, route |-> e]
             P == {part \in {"examined", "skipped", "failed"} : x \in file[part]}
  <1>1. <<e, c>> \in Pairs <=> Applies(c, e) /\ ~HeldBack(e) /\ ~Absent(e)
    BY DEF Pairs
  <1>2. x \notin HeldBackEntries
    <2>1. Len(Checks) \in Nat
      BY ScanAssumption
    <2>2. \A y \in HeldBackEntries : y.check = 0
      BY DEF HeldBackEntries, HeldBackEntry
    <2> QED BY <2>1, <2>2
  <1>3. \A E : x \in Lines(E) <=> \E i \in With(E) : jobs[i] = <<e, c>>
    <2>1. \A i \in 1..n : Entry(i) = x <=> jobs[i] = <<e, c>>
      <3> TAKE i \in 1..n
      <3>1. jobs[i] = <<jobs[i][1], jobs[i][2]>>
        BY LinesOfJobs DEF Pairs
      <3> QED BY <3>1 DEF Entry
    <2> QED BY <2>1 DEF Lines, With
  <1>4. /\ x \in file.examined <=> x \in Lines({"nil"})
        /\ x \in file.skipped <=> x \in Lines({"skipped"})
        /\ x \in file.failed <=> x \in Lines({"other", "panic"})
    BY <1>2, Parts
  <1>5. /\ "examined" \in P <=> x \in file.examined
        /\ "skipped" \in P <=> x \in file.skipped
        /\ "failed" \in P <=> x \in file.failed
    OBVIOUS
  <1>6. P \subseteq {"examined", "skipped", "failed"}
    OBVIOUS
  <1> HIDE DEF P, x
  <1>7. CASE <<e, c>> \in Pairs
    <2>1. PICK i \in 1..n : jobs[i] = <<e, c>>
      BY <1>7, LinesOfJobs
    <2>2. \A j \in 1..n : jobs[j] = <<e, c>> <=> j = i
      BY <2>1, LinesOfJobs DEF Entry
    <2>3. \A E : x \in Lines(E) <=> answer[i].err \in E
      BY <1>3, <2>2 DEF With
    <2>4. answer[i].err \in {"nil", "skipped", "other", "panic"}
      BY AtTheEnd DEF Answers
    <2>5. \E part : P = {part}
      <3>1. CASE answer[i].err = "nil"
        <4>1. P = {"examined"}
          BY <1>4, <1>5, <1>6, <2>3, <3>1
        <4> QED BY <4>1
      <3>2. CASE answer[i].err = "skipped"
        <4>1. "examined" \notin P /\ "skipped" \in P /\ "failed" \notin P
          BY <1>4, <1>5, <2>3, <3>2
        <4>2. P = {"skipped"}
          BY <1>6, <4>1
        <4> QED BY <4>2
      <3>3. CASE answer[i].err \in {"other", "panic"}
        <4>1. x \notin Lines({"nil"}) /\ x \notin Lines({"skipped"}) /\ x \in Lines({"other", "panic"})
          BY <2>3, <3>3
        <4>2. "examined" \notin P /\ "skipped" \notin P /\ "failed" \in P
          BY <1>4, <1>5, <4>1
        <4>3. P = {"failed"}
          BY <1>6, <4>2
        <4> QED BY <4>3
      <3> QED BY <2>4, <3>1, <3>2, <3>3
    <2>6. Cardinality(P) = 1
      BY <2>5, FS_Singleton
    <2> QED BY <1>1, <1>7, <2>6 DEF P, x
  <1>8. CASE <<e, c>> \notin Pairs
    <2>1. \A i \in 1..n : jobs[i] # <<e, c>>
      BY <1>8, LinesOfJobs
    <2>2. \A E : x \notin Lines(E)
      BY <1>3, <2>1 DEF With
    <2>3. P = {}
      BY <1>4, <1>5, <1>6, <2>2
    <2>4. Cardinality(P) = 0
      BY <2>3, FS_EmptySet
    <2> QED BY <1>1, <1>8, <2>4 DEF P, x
  <1> QED BY <1>7, <1>8

\* A route has a line without a check when it was held back, and only then.
LEMMA HeldBackLines ==
  ASSUME IInv, stage = "written", NEW e \in Routes
  PROVE  HeldBackEntry(e) \in file.skipped <=> HeldBack(e) \/ Absent(e)
  <1>1. HeldBackEntry(e) \notin Lines({"skipped"})
    <2>1. Len(Checks) \in Nat
      BY ScanAssumption
    <2>2. \A y \in Lines({"skipped"}) : y.check \in 1..Len(Checks)
      BY LinesOfJobs DEF Lines, With
    <2> QED BY <2>1, <2>2 DEF HeldBackEntry
  <1>2. HeldBackEntry(e) \in HeldBackEntries <=> HeldBack(e) \/ Absent(e)
    BY DEF HeldBackEntry, HeldBackEntries
  <1> QED BY <1>1, <1>2, Parts

\* The three lists close on checks_run: each job is under one heading.
LEMMA ListsClose ==
  ASSUME IInv, stage = "written"
  PROVE  file.checksRun = Cardinality(file.examined) + Cardinality(file.failed)
                            + Cardinality({x \in file.skipped : x.check # 0})
  <1> DEFINE A == With({"nil"})
             B == With({"other", "panic"})
             C == With({"skipped"})
  <1>1. {x \in file.skipped : x.check # 0} = Lines({"skipped"})
    <2>1. Len(Checks) \in Nat
      BY ScanAssumption
    <2>2. \A y \in Lines({"skipped"}) : y.check \in 1..Len(Checks)
      BY LinesOfJobs DEF Lines, With
    <2>3. \A y \in HeldBackEntries : y.check = 0
      BY DEF HeldBackEntries, HeldBackEntry
    <2> QED BY <2>1, <2>2, <2>3, Parts
  <1>2. n \in Nat /\ Cardinality(1..n) = n
    BY AtTheEnd, FS_Interval
  <1>3. 1..n = (A \cup B) \cup C
    BY AtTheEnd DEF Answers, With
  <1>4. A \cap B = {} /\ (A \cup B) \cap C = {}
    BY DEF With
  <1>5. IsFiniteSet(A) /\ IsFiniteSet(B) /\ IsFiniteSet(C)
    BY LinesCount
  <1> HIDE DEF A, B, C
  <1>6. /\ Cardinality(A \cup B) = Cardinality(A) + Cardinality(B) - Cardinality(A \cap B)
        /\ IsFiniteSet(A \cup B)
    BY <1>5, FS_Union
  <1>7. Cardinality((A \cup B) \cup C)
          = Cardinality(A \cup B) + Cardinality(C) - Cardinality((A \cup B) \cap C)
    BY <1>5, <1>6, FS_Union
  <1>8. Cardinality(A) \in Nat /\ Cardinality(B) \in Nat /\ Cardinality(C) \in Nat
    BY <1>5, FS_CardinalityType
  <1>9. n = Cardinality(A) + Cardinality(B) + Cardinality(C)
    <2>1. Cardinality(A \cap B) = 0 /\ Cardinality((A \cup B) \cap C) = 0
      BY <1>4, FS_EmptySet
    <2>2. n = Cardinality((A \cup B) \cup C)
      BY <1>2, <1>3, Zenon
    <2>3. Cardinality(A \cup B) = Cardinality(A) + Cardinality(B)
      BY <1>6, <1>8, <2>1
    <2> QED BY <1>7, <1>8, <2>1, <2>2, <2>3
  <1>10. /\ Cardinality(file.examined) = Cardinality(A)
         /\ Cardinality(file.failed) = Cardinality(B)
         /\ Cardinality({x \in file.skipped : x.check # 0}) = Cardinality(C)
    BY <1>1, Parts, LinesCount DEF A, B, C
  <1> QED BY <1>8, <1>9, <1>10, Parts

\* The coverage block accounts for each pair once, whatever the checks return and
\* however the workers interleave.
THEOREM CoverageAccountsOnce == Spec => []AccountedOnce
  <1>1. IInv => AccountedOnce
    BY UnderOneHeading, HeldBackLines, ListsClose DEF AccountedOnce
  <1> QED BY <1>1, InductiveInvariant, PTL
=============================================================================
