----------------------------- MODULE ScanStage -----------------------------
(***************************************************************************)
(* warden scan, from the imported endpoints to findings.json: runScan and  *)
(* its helpers in cmd/warden/main.go over Collect, BuildJobs, Run and      *)
(* runJob of internal/core/engine/engine.go.                               *)
(*                                                                         *)
(* Both pools of the engine are PoolPromise, which WorkerPool implements:  *)
(* the steps of a pool here are the steps of that specification, with what *)
(* the item does added.  Endpoints are their indices in the list the spec  *)
(* importer returns, checks their indices in name order.                   *)
(***************************************************************************)
EXTENDS Sequences, Ordering

CONSTANTS
  Shapes,          \* the kinds of route a spec may declare: [verb, templated, auth]
  Checks,          \* the enabled checks in name order: [kind, auth, templated, returns]
  MaxEndpoints,    \* the most endpoints of a spec: a bound of the model
  MaxConcurrency   \* Config.MaxConcurrency

Verbs == {"GET", "POST", "DELETE"}
Answers == [findings : 0..1, err : {"nil", "skipped", "other", "panic"}]

ASSUME ScanAssumption ==
  /\ Shapes \subseteq [verb : Verbs, templated : BOOLEAN, auth : BOOLEAN]
  /\ Checks \in Seq([kind : {"passive", "active"}, auth : BOOLEAN, templated : BOOLEAN,
                     returns : SUBSET Answers])
  /\ MaxEndpoints \in Nat /\ MaxConcurrency \in Nat \ {0}

VARIABLES
  endpoints,   \* what openapi.Load returned
  optIn,       \* engine.test_destructive
  stage,       \* where runScan is
  n, taken, running, done, cancelled, extra, replied, out, err,  \* the pool at work
  baseline,    \* what each target holds: "none" before collection
  jobs,        \* what BuildJobs returned: <<endpoint, check>> pairs
  answer,      \* what the check of each finished job returned
  sent,        \* history: requests, as [to, verb, during]
  file         \* findings.json, once written

pool == <<n, taken, running, done, cancelled, extra, replied, out, err>>
vars == <<endpoints, optIn, stage, n, taken, running, done, cancelled, extra, replied,
          out, err, baseline, jobs, answer, sent, file>>

Pool == INSTANCE PoolPromise WITH Width <- MaxConcurrency

Unasked == [findings |-> 0, err |-> "none"]
Blank == [findings |-> << >>, examined |-> {}, skipped |-> {}, failed |-> {}, checksRun |-> 0]
Routes == DOMAIN endpoints
-----------------------------------------------------------------------------
\* openapi's destructiveMethods and the engine's safeMethods, by one verb each.
Destructive(e) == endpoints[e].verb = "DELETE"
Safe(verb)     == verb = "GET"

\* The non-destructive gate.
HeldBack(e) == Destructive(e) /\ ~optIn

\* baselineMethod: the endpoint's own verb when it is safe, GET otherwise.
BaselineMethod(verb) == IF Safe(verb) THEN verb ELSE "GET"

\* substitutedMethod: there is a baseline and another verb fetched it.
Substituted(e) ==
  /\ baseline[e] \in {"answered", "404"}
  /\ BaselineMethod(endpoints[e].verb) # endpoints[e].verb

\* AbsentFromTarget: 404 to the route's own verb, with no template to blame.
Absent(e) ==
  /\ baseline[e] = "404"
  /\ BaselineMethod(endpoints[e].verb) = endpoints[e].verb
  /\ ~endpoints[e].templated

\* applies: RequiresAuth, then the check's own AppliesTo, here "has a parameter
\* to inject into".
Applies(c, e) ==
  /\ Checks[c].auth => endpoints[e].auth
  /\ Checks[c].templated => endpoints[e].templated

\* The endpoints Collect takes up.
Eligible == InOrder({e \in Routes : ~HeldBack(e)})

\* BuildJobs' list: the gate again, no absent route, endpoint by endpoint and with
\* the checks in name order.
Pairs == {p \in Routes \X (1..Len(Checks)) :
            ~HeldBack(p[1]) /\ ~Absent(p[1]) /\ Applies(p[2], p[1])}
Place(p) == p[1] * Len(Checks) + p[2]

JobList ==
  LET places == InOrder({Place(p) : p \in Pairs})
  IN  [i \in DOMAIN places |-> CHOOSE p \in Pairs : Place(p) = places[i]]
-----------------------------------------------------------------------------
Init ==
  /\ endpoints \in UNION {[1..k -> Shapes] : k \in 0..MaxEndpoints}
  /\ optIn \in BOOLEAN
  /\ stage = "login"
  /\ n = 0 /\ taken = 0 /\ running = {} /\ done = {} /\ extra = 0
  /\ cancelled = FALSE /\ replied = FALSE /\ out = << >> /\ err = "nil"
  /\ baseline = [e \in Routes |-> "none"]
  /\ jobs = << >> /\ answer = << >>
  /\ sent = {}
  /\ file = Blank

\* A call of runPool on k items begins.
Call(k) ==
  /\ n' = k /\ taken' = 0 /\ running' = {} /\ done' = {} /\ extra' = 0
  /\ replied' = FALSE /\ out' = << >> /\ err' = "nil"
  /\ UNCHANGED cancelled

\* An empty spec is refused, as are an unknown check, a configuration the engine
\* does not take and a login of either account that fails.
Refuse ==
  /\ stage = "login"
  /\ stage' = "refused"
  /\ UNCHANGED <<endpoints, optIn, pool, baseline, jobs, answer, sent, file>>

\* Logged in, or no need to: a spec without protected routes needs no login, and
\* a spent context fails one.  Collect begins on the endpoints the gate lets by.
Login ==
  /\ stage = "login"
  /\ endpoints # << >>
  /\ cancelled => \A e \in Routes : ~endpoints[e].auth
  /\ stage' = "collect"
  /\ Call(Len(Eligible))
  /\ UNCHANGED <<endpoints, optIn, baseline, jobs, answer, sent, file>>

\* A worker of either pool takes the next item.
Take ==
  /\ stage \in {"collect", "check"}
  /\ Pool!Take
  /\ UNCHANGED <<endpoints, optIn, stage, baseline, jobs, answer, sent, file>>

\* Faulty variant: the baseline is fetched with the endpoint's own verb.
CollectOneOwnVerb(i) ==
  LET e == Eligible[i] IN
  /\ stage = "collect"
  /\ Pool!Settle(i)
  /\ done' = done \cup {i}
  /\ baseline' \in {[baseline EXCEPT ![e] = b] : b \in {"answered", "404", "failed"}}
  /\ sent' = sent \cup {[to |-> e, verb |-> endpoints[e].verb, during |-> "collect"]}
  /\ UNCHANGED <<endpoints, optIn, stage, jobs, answer, file>>

\* collectOne: the baseline request, and the Origin probe that repeats it unless
\* the route is absent.  Both use BaselineMethod.  A failure, a cancelled
\* context included, is kept as BaselineErr; the item is done either way.
CollectOne(i) ==
  LET e == Eligible[i] IN
  /\ stage = "collect"
  /\ Pool!Settle(i)
  /\ done' = done \cup {i}
  /\ baseline' \in {[baseline EXCEPT ![e] = b] : b \in {"answered", "404", "failed"}}
  /\ sent' = sent \cup {[to |-> e, verb |-> BaselineMethod(endpoints[e].verb),
                         during |-> "collect"]}
  /\ UNCHANGED <<endpoints, optIn, stage, jobs, answer, file>>

\* collectOne panics; guard drops the item.
CollectPanics(i) ==
  /\ stage = "collect"
  /\ Pool!Settle(i)
  /\ done' = done
  /\ UNCHANGED <<endpoints, optIn, stage, baseline, jobs, answer, sent, file>>

Listing == InOrder(done)

\* Faulty variant: Collect's error is looked at only while the context lives.
CollectReturnsCancelled ==
  /\ stage = "collect"
  /\ out' = Listing
  /\ Pool!Reply
  /\ stage' = IF err' = "incomplete" THEN "refused" ELSE "build"
  /\ UNCHANGED <<endpoints, optIn, baseline, jobs, answer, sent, file>>

\* Faulty variant: waiting for every item to be done, not for every worker.
CollectReturnsWhenAllDone ==
  /\ stage = "collect"
  /\ done = 1..n
  /\ out' = Listing
  /\ Pool!Reply
  /\ stage' = IF err' = "nil" THEN "build" ELSE "refused"
  /\ UNCHANGED <<endpoints, optIn, baseline, jobs, answer, sent, file>>

\* Collect returns, and runScan refuses an incomplete collection.
CollectReturns ==
  /\ stage = "collect"
  /\ out' = Listing
  /\ Pool!Reply
  /\ stage' = IF err' = "nil" THEN "build" ELSE "refused"
  /\ UNCHANGED <<endpoints, optIn, baseline, jobs, answer, sent, file>>

\* BuildJobs, and Run begins.
BuildJobs ==
  /\ stage = "build"
  /\ jobs' = JobList
  /\ answer' = [j \in 1..Len(JobList) |-> Unasked]
  /\ Call(Len(JobList))
  /\ stage' = "check"
  /\ UNCHANGED <<endpoints, optIn, baseline, sent, file>>
-----------------------------------------------------------------------------
Passive(p) == Checks[p[2]].kind = "passive"

\* Faulty variant: a passive check judges whatever baseline there is.
CheckAnswersAny(p) ==
  IF baseline[p[1]] = "failed" THEN {[findings |-> 0, err |-> "skipped"]}
                               ELSE Checks[p[2]].returns

\* What the check of job p can come back with.  A passive one is not asked about
\* the answer to another verb.  Without a baseline they all skip, though an
\* active one may have found something by then (jwt-weak reads the token).
\* Otherwise a check returns what it likes, an error or a panic included.
CheckAnswers(p) ==
  CASE Passive(p) /\ Substituted(p[1]) -> {[findings |-> 0, err |-> "skipped"]}
    [] baseline[p[1]] = "failed" ->
         {[findings |-> k, err |-> "skipped"] : k \in IF Passive(p) THEN {0} ELSE 0..1}
    [] OTHER -> Checks[p[2]].returns

\* runJob on item i.  An active check sends with the endpoint's own verb, a
\* passive one is given a client that refuses.
RunJob(i) ==
  LET p == jobs[i] IN
  /\ stage = "check"
  /\ Pool!Settle(i)
  /\ done' = done \cup {i}
  /\ answer' \in {[answer EXCEPT ![i] = a] : a \in CheckAnswers(p)}
  /\ sent' = IF Passive(p) \/ baseline[p[1]] = "failed" THEN sent
             ELSE sent \cup {[to |-> p[1], verb |-> endpoints[p[1]].verb, during |-> "check"]}
  /\ UNCHANGED <<endpoints, optIn, stage, baseline, jobs, file>>

\* Run returns, and runScan refuses an incomplete one.
RunReturns ==
  /\ stage = "check"
  /\ out' = Listing
  /\ Pool!Reply
  /\ stage' = IF err' = "nil" THEN "summarise" ELSE "refused"
  /\ UNCHANGED <<endpoints, optIn, baseline, jobs, answer, sent, file>>

\* runJob's Result: findings survive a skip and not an error or a panic.
HasFinding(a) == a.findings = 1 /\ a.err \in {"nil", "skipped"}

Entry(i) == [check |-> jobs[i][2], route |-> jobs[i][1]]
HeldBackEntry(e) == [check |-> 0, route |-> e]

\* heldBackEndpoints: a line per route that no check was pointed at, with no
\* check to its name.
HeldBackEntries == {HeldBackEntry(e) : e \in {r \in Routes : HeldBack(r) \/ Absent(r)}}

\* Faulty variant: absent routes are left out of the account.
AccountWithoutAbsent(results) ==
  LET With(S) == {Entry(i) : i \in {j \in results : answer[j].err \in S}} IN
  [findings  |-> AtPlaces(out, {k \in DOMAIN out : HasFinding(answer[out[k]])}),
   examined  |-> With({"nil"}),
   skipped   |-> With({"skipped"}) \cup {HeldBackEntry(e) : e \in {r \in Routes : HeldBack(r)}},
   failed    |-> With({"other", "panic"}),
   checksRun |-> Cardinality(results)]

\* Faulty variant: a skipped result's findings are dropped with it.
AccountSkipsFindings(results) ==
  LET With(S) == {Entry(i) : i \in {j \in results : answer[j].err \in S}} IN
  [findings  |-> AtPlaces(out, {k \in DOMAIN out : answer[out[k]] = [findings |-> 1, err |-> "nil"]}),
   examined  |-> With({"nil"}),
   skipped   |-> With({"skipped"}) \cup HeldBackEntries,
   failed    |-> With({"other", "panic"}),
   checksRun |-> Cardinality(results)]

\* summarise and the coverage block.  The three lists are sorted before they
\* are written, so sets will do; the findings are written in job order.
Account(results) ==
  LET With(S) == {Entry(i) : i \in {j \in results : answer[j].err \in S}} IN
  [findings  |-> AtPlaces(out, {k \in DOMAIN out : HasFinding(answer[out[k]])}),
   examined  |-> With({"nil"}),
   skipped   |-> With({"skipped"}) \cup HeldBackEntries,
   failed    |-> With({"other", "panic"}),
   checksRun |-> Cardinality(results)]

\* findings.json is written, or cannot be.
Write ==
  /\ stage = "summarise"
  /\ \/ stage' = "written" /\ file' = Account({out[k] : k \in 1..Len(out)})
     \/ stage' = "refused" /\ UNCHANGED file
  /\ UNCHANGED <<endpoints, optIn, pool, baseline, jobs, answer, sent>>

Over == stage \in {"written", "refused"}

\* Ctrl+C, SIGTERM or engine.timeout.
Cancel ==
  /\ ~cancelled
  /\ ~Over
  /\ cancelled' = TRUE
  /\ UNCHANGED <<endpoints, optIn, stage, n, taken, running, done, extra, replied, out, err,
                 baseline, jobs, answer, sent, file>>
-----------------------------------------------------------------------------
Advance ==
  \/ Refuse \/ Login \/ Take
  \/ \E i \in running : CollectOne(i) \/ CollectPanics(i) \/ RunJob(i)
  \/ CollectReturns \/ BuildJobs \/ RunReturns \/ Write

Exited == Over /\ UNCHANGED vars

Next == Advance \/ Cancel \/ Exited

\* The process runs on: requests have timeouts, so items come to an end.
Spec == Init /\ [][Next]_vars /\ WF_vars(Advance)
-----------------------------------------------------------------------------
\* The gate: a destructive endpoint costs no request without the opt-in, in
\* either phase; and collection never sends an unsafe verb, opt-in or not.
NothingDestroyed ==
  \A s \in sent :
    /\ Destructive(s.to) => optIn
    /\ s.during = "collect" => Safe(s.verb)

\* findings.json is whole or is not written: it exists only if every endpoint
\* the gate lets by was collected and every job came to an end.
WholeOrNothing ==
  stage = "written" =>
    /\ \A e \in Routes : ~HeldBack(e) => baseline[e] # "none"
    /\ \A j \in 1..Len(jobs) : answer[j] # Unasked

\* The coverage block accounts for each pair of a check and a route it applies
\* to exactly once, under one heading; a route that was held back has one line
\* of its own and no check's.  The lists close on checks_run (finding.go:91-94).
AccountedOnce ==
  stage = "written" =>
    /\ \A e \in Routes, c \in 1..Len(Checks) :
         Cardinality({part \in {"examined", "skipped", "failed"} :
                        [check |-> c, route |-> e] \in file[part]})
           = IF Applies(c, e) /\ ~HeldBack(e) /\ ~Absent(e) THEN 1 ELSE 0
    /\ \A e \in Routes :
         HeldBackEntry(e) \in file.skipped <=> HeldBack(e) \/ Absent(e)
    /\ file.checksRun = Cardinality(file.examined) + Cardinality(file.failed)
                          + Cardinality({x \in file.skipped : x.check # 0})

\* "Examined" is earned: the route answered, and a passive check's verdict is on
\* the answer to the route's own verb.
VerdictsAreEarned ==
  \A x \in file.examined :
    /\ baseline[x.route] \in {"answered", "404"}
    /\ Checks[x.check].kind = "passive" => Safe(endpoints[x.route].verb)

\* Every finding a check returned without failing is in the file, in route and
\* check order, whatever order the workers finished in.
FindingsKept ==
  stage = "written" =>
    /\ Elements(file.findings) =
         {j \in 1..Len(jobs) : answer[j].findings = 1 /\ answer[j].err \notin {"other", "panic"}}
    /\ \A a, b \in DOMAIN file.findings : a < b => file.findings[a] < file.findings[b]

\* The scan comes to an end, cancelled or not, with a file or a refusal.
Ends == <>Over
=============================================================================
