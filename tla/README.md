# Formal models of warden

warden scans a web API for flaws in four separate program runs: `scan` reads an
OpenAPI document, logs in, runs checks and writes `findings.json`; `attack` tries to
reproduce each finding and writes `confirmed.json`; `report` renders that file; `diff`
compares two of them and is the CI gate. This directory holds TLA+ models of all four, of
what the first two do before their first request, and of the files between them; TLC runs
that check them; and TLAPS proofs about all nine.

Paths are relative to the repository root; `engine.go` is
`internal/core/engine/engine.go`, `auth.go` is `internal/core/auth/auth.go`, `main.go`
is `cmd/warden/main.go`, and `sqli.go` and its like are in `internal/checks` unless
`attack/` is written before them.

## 1. Inventory

| Part | State | Operations | What is hard | What makes it correct |
|---|---|---|---|---|
| **Worker pool** (`runPool`, `guard`; engine.go) | items, unbuffered channel, one result slot per item, context | feed, take, run, settle or panic, close, wait, gather | goroutines, panics, cancellation at any moment | one writer per slot; results in input order; an honest error; it returns |
| **Authenticator** (auth.go) | token, generation, two mutexes | Authenticate, Do, reAuth, login | concurrent 401s, expiry, failing logins, stale reads | one login at a time, one login per cause, a retry with a newer token, the mutex always released |
| **Request path** (rateLimitedClient, the identities' Authenticators, httpclient, scope) | the limiter's tokens, the calls under way | Wait, Client.Do, redirect hops, retry | shared budget, deadlines, redirects behind the caller's back | no host outside the allowlist; one budget for all identities; every call returns |
| **Scan stage** (`runScan`, `Collect`, `BuildJobs`, `Run`; main.go, engine.go) | endpoints, baselines, jobs, results, stage file | collect, build, run, summarise, write | partial failure, cancellation between passes, substituted verbs | nothing destructive without the opt-in; whole file or none; each check and route accounted for once |
| **Active checks** (internal/checks) | the parameter at work, measurements | sweep over parameters, noise, pairs, markers; one forged or anonymous request; two accounts' listings | lost answers, noise, partial sweeps, listings cut short | findings are shown; gaps are admitted |
| **Attack stage** (`runAttack`, internal/attack) | findings, outcomes, measurements | gate, confirm, extract, write | deadline, lost answers, a changed target | only reproduced findings are confirmed; the file answers its input |
| **Diff** (internal/diff) | two stage files | Compare, Regressed | four coverage lists in two files | "resolved" is earned; exit status 0 means what it says |
| **Stage files and report** (`writeFile`, `runReport`, internal/report) | files on disk | temporary file and rename; two or three outputs | crashes between outputs, colliding paths, several processes | whole files; outputs that agree; the input survives |
| **Configuration, OpenAPI import, registry** (config, envexpand, openapi, registry.go) | none after start | expand, validate, import, look up | rules that meet, documents that inherit, references that expand twice | validation before the first request; the document's own requirements; identities that stay apart |
| **Passive checks** (headers, cors, cache, secrets) | none | read a response | string matching | when they run and what becomes of their verdict (scan stage); the reading is out of a model checker's reach |

How they interact: `runScan` loads the configuration, imports the document, looks up the
checks, builds and logs in the identities, and calls `Collect` and `Run`; both call
`runPool`; every job of the pool may send requests, all of which pass one limiter, then
the Authenticator of their identity or none, then the guarded client. The stages share
nothing but files. `PROJECT.json` lists the parts with their sources, and every hazard at
its line.

## 2. Modules

```
PoolPromise  <--- implemented by --- WorkerPool  <--- WorkerPoolProofs
    ^ INSTANCE
ScanStage  <--- MCScanStage, ScanStageProofs
    |  EXTENDS
    v
Ordering  <--- SpecImport, Settings  <--- Preflight  <--- MCPreflight, PreflightProofs

AtomicStore  <--- implemented by --- StageFiles  <--- MCStageFiles, StageFilesProofs
Authenticator <--- AuthenticatorProofs      RequestPath  <--- RequestPathProofs
ActiveChecks  <--- ActiveChecksProofs       AttackStage  <--- MCAttackStage, AttackStageProofs
StageDiff     <--- MCStageDiff, StageFilesProofs
```

**WorkerPool** is `runPool` goroutine by goroutine. `pc` is where the feeder is (the
head of its loop, the select, closing, waiting, gathering), `at` where each worker is.
`CheckContext` is the test of `ctx.Err()`, `Dispatch` and `SelectDone` the branches of the
select, `Finish` and `Panic` the two ends of `guard`, `AwaitWorkers` is `wg.Wait`, `Gather`
one turn of the copying loop, `Return` the `cmp.Or(ctx.Err(), errIncomplete)` of
Collect and Run. `slot` is `results[i]` and `completed[i]` together.

**PoolPromise** says the same to a caller: items are taken in order, at most
`MaxConcurrency` at once and at most one after the cancellation; the reply lists what was
done in order. WorkerPool implements it (`KeepsPromise`), and ScanStage uses it for both
of its pools instead of the goroutines.

**Authenticator** has one `pc` per goroutine in `Do`; the network steps are steps of their
own, so that another goroutine's login falls between reading the token and using it. The
target is external: it issues numbered tokens, may keep one session per account, drops
sessions when it likes, and answers a "closed" route 401 whatever the token.

**RequestPath** composes limiter, Authenticators and guarded client for three identities.
Time is counted in ticks of one token each; `Ask` is the reservation that
`rate.Limiter.Wait` makes (tokens go negative, and a turn after the deadline is refused at
once), `Pass` the end of the wait, `Send` the guard of `Client.Do`, `Redirect` the
CheckRedirect callback, and `Renew`, `SendLogin`, `Granted` the login below the limiter.
Generations are abstracted to "has this call's token been replaced since it read it".

**ScanStage** is `runScan`: login, collect, build, check, summarise, write. The pool
variables are PoolPromise's, and `CollectOne` and `RunJob` are its `Settle` with what the
item does. A baseline is "answered", "404" or "failed"; a check returns any member of a
set given per check, errors and panics included. `Account` is `summarise` and
`heldBackEndpoints` together. **Ordering** writes a finite set of integers out in
ascending order: a loop that appends, or `slices.Sorted`.

**ActiveChecks** is one job of the scan, one step per request. `FirstLost` to `Redirect`
are the requests of a sweep over a route's parameters (sqli-boolean, xss-reflected,
verbose-errors, open-redirect), `Outcome` is `perParameterResult.outcome`;
`Unauthenticated`, `Trace` and `Forge` are the single requests of auth-required,
dangerous-http-methods and jwt-weak; `ListMine`, `ListTheirs` and `ReadOther` are idor's.
Of an answer it keeps the length (sqli-boolean) or whether it shows what is looked for.
`told` and `heard` remember the answers, so that a finding can be held against them.

**AttackStage** is `runAttack`, one step per request of a confirmer. `told` remembers what
each finding's confirmer heard. Of a finding's evidence the model keeps whose word it is:
the scan's (`AsItWas`), or the confirmer's, which overwrites it both when it `Reproduced`
the finding and when it did not (`NotReproduced`). `Squeeze` is the moment after which the
limiter refuses every request because the deadline comes first. Five of the six confirmers
are there in full; jwt-weak's goes no further than its refusal, since no finding that scan
writes has the ID it looks for (section 4).

**StageDiff** makes two scans, lets attack rewrite either file, both or neither, and
compares them. What each scan really did stays beside its file, and the report is judged
by that. A finding is about a subject, a parameter or a header, which its ID names
(`findingID`), and of the severity this scan's answer earned it: `Grades` says which a check
may give, and two scans may give different ones. Coverage stays per check and route. Two
parameters of one name, in the path and in the query, share an ID, and Compare tells
findings apart by ID alone. `threshold` is the word after `--fail-on`, a severity or not.

**StageFiles** is the commands' side of the disk. A process starts one command line,
reads (`ReadInput`; scan and attack `Work`), and puts each of its outputs in place by
`CreateTemp`, `Fill` and `Rename`; it may fail or be killed before each step (the machine
stays up: what was written is on the disk), and
`RefuseSarif` is `samePath`, asked only after two files are written. `Build`, `Html`,
`Json`, `Sarif` and `RulesFor` are internal/report's order of the findings and what each
format keeps of a stage file. **AtomicStore** is what they promise: a path changes only
by a whole file taking the place of what was there.

**Preflight** is `runScan` and `runAttack` up to their first request: `LoadConfig`,
`ImportSpec`, `EnableChecks` or `ReadFindings`, then the two identities (`BuildFirst`,
`LoginFirst`, `BuildSecond`, `LoginSecond`), then `StartEngine`. It rests on two modules of
operators: **Settings** (`expandTree`, every rule of `validate`, `Enabled`; `Valid` is
the conjunction of the sections' rules) and **SpecImport** (`Load`: the merging of
parameters, body properties, `resolveSecurity`, the order of operations; `Follows` is the
same from the point of view of the OpenAPI specification). `ClientOf` says
which HTTP client, and so which cookie jar, each identity goes through.

The `MC` modules give the constants that are records. Definitions named as faulty variants
("Faulty variant: ...") are not used by the specifications: each is a plausible slip in
the code, and with it in place of the real definition the property it was written for
fails.

## 3. Runs

| Run | States | Bounds | Shows |
|---|---|---|---|
| worker_pool | 7 000 | 0..4 items, 2 workers | slots, quiet gathering, return, and that it implements PoolPromise |
| authenticator | 140 000 | 2 goroutines, 2 calls each, 3 tokens issued, 2 expiries | logins, retries and tokens; every `Do` returns |
| request_path | 113 000 | 2 calls at a time, 3 identities, 3 hosts, burst 1, deadline at tick 2 | scope, budget, every call returns |
| scan_stage | 287 000 | 0..2 endpoints of 5 shapes, 3 checks, 2 workers | gate, whole file or none, coverage, verdicts, findings, it ends |
| stage_diff | 365 000 | 1 route, 2 checks with 2 subjects each: parameters that share an ID, headers of which one is graded medium or low by the answer; all fates, all thresholds | resolved, placement, gate |
| attack_stage | 568 000 | 0..2 findings of 7 shapes, lengths 0..2, 3 samples, 2 guesses per loop | confirmation, reported request, gate, file, it ends |
| active_checks | 406 000 | 1..2 parameters of 4 kinds, lengths 0..1, 2 samples, 2 payloads, listings of up to 3 of which 2 are kept | findings, gaps |
| stage_files | 148 000 | 3 processes, killed or failing at any step | whole files, outputs of one report, rules, the input |
| preflight | 43 000 | configurations with up to 2 changes from three bases, 255 documents, 4 environments | import, order of refusals, identities, what the engine gets |

Three more runs expect a violation; section 4 has them.

Why the bounds are enough. The pool needs one more item than workers, and one more again
for an undispatched tail: four items on two workers. In the Authenticator two goroutines
are what a race takes, and two calls what it takes for one to meet the other's result;
three tokens let a replaced token be replaced again. In RequestPath two calls share three
tokens over the time, so that they wait, are refused, and meet on a login. Two endpoints
suffice for order and for one of them failing while the other does not. The diff has no
interaction between routes; two subjects are what it takes to share an ID or not to, and
one that may be medium or low what it takes to rise past a threshold. Lengths need two
values to differ and a third for a difference larger than the noise; the loops over payloads, columns and candidates have one iteration
that goes on and one that ends. A listing one longer than the limit is what truncation
takes. Of three processes one writes, one overwrites, and one reads between. Two changes
to a configuration are enough for one rule to hide behind another. The proofs have none of
these bounds. Everything else is unbounded or is the code's own constant.

Fairness is weak fairness of the program's own steps: the Go scheduler runs every runnable
goroutine; a request ends because the client has a timeout (main.go:53, httpclient.go:57),
whatever the target does; `sync.Mutex` does not starve a waiter. Nothing obliges the user
to interrupt, the target to answer or to drop sessions, or a caller to call. In
RequestPath time passes, and a reply of the target is never assumed: redirects may go on
until the request timeout. ActiveChecks, StageFiles, StageDiff and Preflight state no
fairness: they are sequential code between requests, and a process may be killed.

Deadlock is checked in every run. Each specification has an explicit step for a process
that is over; the other states must have a successor.

## 4. Where code and text disagree

Three runs expect a violation. Each checks a sentence of the repository against the model.

- **attack_forgery**: the `alg:none` finding is never re-forged. The confirmer looks for
  the ID the check gave it (attack/jwt.go:32), the engine has put check, method and path
  before it (engine.go:541-546). README.md:289 says otherwise.
- **attack_deadline**: `Wait` refuses before the context has an error, so a run that ran
  out of time is written as a whole one (attack.go:113-115, main.go:519). The same refusal
  in `scan` turns baselines and jobs into failures (main.go:257-263).
- **active_checks_route**: where `target.base_url` has a path, sweeps, auth-required and
  idor send their requests to the scheme and host alone (sqli.go:415, authrequired.go:78),
  unlike the baselines they compare with (engine.go:303) and README.md:103.

Met on the way, without a run:

- `attack` writes a file without coverage when there is nothing to attack
  (main.go:456-459), although README.md:174-176 says it is carried forward; the gate on two
  such files does not see what was lost.
- A verbose-errors finding is confirmed when the benign comparison cannot be made
  (attack/verbose.go:47-56), with evidence that speaks of detail "that a benign value does
  not" produce (attack/verbose.go:60).
- A finding's ID says nothing of its severity, which follows the answer: a reflected
  origin is low, medium or high (cors.go:81-125), a missing header medium or low
  (headers.go:103-107). Compare goes by the ID and keeps the older record
  (diff.go:74-77), so a finding that was low and is high counts as unchanged and the gate
  exits 0, where doc/ci-gate.md:14 says "nothing got worse" and diff.go:108 that Regressed
  reports "whether anything got worse". The rule that ci-gate.md:22-29 spells out, a new
  finding at the threshold or lost coverage, is what the code does. `GateSound` therefore
  excepts a finding whose namesake the older scan had at any severity; asked for a namesake
  at the threshold or above, TLC finds it violated.
- A probe of a route with body properties carries a body without `test_creates`
  (sqli.go:402-413), only the payload is kept out of it.
- idor reads fifty identifiers of each listing (idor.go:236): one beyond the cut of the
  second account's list passes for the first's own.
- jwt-weak takes any 2xx to the forged token for acceptance (jwt.go:188-209); on a route
  that is open anyway, so is an answer to no token at all.
- Passwords are expanded by config.Load and again by auth.New (auth.go:156), which
  main.go:780-781 calls a no-op: one that holds `${NAME}` after the first pass is refused
  or replaced, the second account's after the first has logged in.
- A configuration of the second account alone escapes `validateAuth` (config.go:126);
  auth.New refuses it.
- engine.go:587-589 says no item is dispatched after a cancellation, and one may be
  (`AtMostOneLate`); engine.go:123-127 counts the "occasional login" above the limiter, and
  the retry after it and redirect hops come on top; auth.go:96-98 says concurrent 401s
  collapse, which failing logins do not.
- Two findings of a route whose parameters share their name share their ID
  (engine.go:541), and the diff takes one for the other: a new one is no regression where
  the older scan had its namesake, and one that is fixed counts as unchanged as long as
  the namesake is found. `GateSound` excepts the first and is violated without the
  exception; nothing here covers the second.
- Coverage is per check and route: the findings about a parameter that left the document
  count as resolved (diff.go:80).
- A route that is held back has its older findings reported as dropped (diff.go:80-95),
  which render.go:37 explains as a route or check that left the scan.

The hazards in `PROJECT.json` have the rest.

## 5. Proofs

Each proof module has the inductive invariant `IInv`, one lemma per action or kind of
action, and a theorem per property; a last temporal step joins them.

**WorkerPoolProofs**, from `PoolAssumption` (some number of items, at least one worker).
`TypeOK` and `SlotOwnership` are not inductive: that a worker's slot is still empty needs
to know that everything from the feeder's index on is untouched and everything before it
is settled or in some worker's hands (`Dispatched`); that the feeder reads alone needs
workers that are gone (`WorkersGone`); that nil means "nothing missing" needs the length
of the gathered prefix to be the cursor's exactly when nothing is missing (`Gathered`,
`ErrorTold`). With these `Spec => []Inv`, the action property `QuietGather`, and the
refinement `PoolKeepsPromise`: the initial state maps to PoolPromise's, `Dispatch` to
`Take`, `Finish` and `Panic` to `Settle`, the last step to `Reply`, all else to a stutter.

**AuthenticatorProofs**, from `AuthAssumption`, for any goroutines and bounds. `MutexHeld`
says the generation cannot move under a login; `TokensOrdered` that what a caller holds
is not newer than what the Authenticator holds, and older once the generation has moved,
which gives `RetryIsFresh` and `TokenAdvances`. `CausesSuffice` carries the count of logins
through the moments at which a cause is paid in advance: a dead token, a caller on its way
to replace it, a replacement that died before it was stored.

**RequestPathProofs**, from `PathAssumption`, for any finite set of calls and any
identities, hosts, burst and deadline. `Spending` fixes what a call has spent by where it
is. `Ledger` is the limiter's account: turns yet to come are different ticks and within
what the limiter has lent, and the requests let through, the turns that have come, and
the tokens left add up to no more than the burst and the time. A tick makes at most one
turn due, and either that turn or the token returned pays for it; that gives `OneBudget`.

**ScanStageProofs**, from `ScanAssumption`, for any endpoints, checks and pool width. The
invariant follows the five phases and says of each pool what PoolPromise promises (what is
done was taken, a full list means all of it), and of each result that its target can yield
it. `InOrderLists` proves that `InOrder` enumerates a finite set, by counting
(FS_Injection), and carries the eligible endpoints and the jobs through the listing.
`FindingsAreKept` is that listing applied to the results. For `CoverageAccountsOnce`,
`LinesOfJobs` says that jobs, their pairs and their lines correspond one to one,
`UnderOneHeading` that the headings do not overlap, and `ListsClose` counts them.

**ActiveChecksProofs**, from `CheckAssumption`, for any number of parameters, samples,
payloads and any lengths. `AtWork` says that the measured range is that of the samples
told, that payloads count as sent exactly when a whole pair (or a marker) was answered, and
that no false condition of the pair at hand was answered yet; `Judged` that each parameter
left behind was judged by what it was told; `Fresh` that the others were told nothing.

**AttackStageProofs**, from `AttackAssumption`, for any findings, lengths, samples and
guesses. `Busy` says what a confirmer has heard before each of its requests, for
sqli-boolean that the least, the greatest and the last length are among the samples told;
`Settled` that every outcome is borne out (`Fair`) by what its finding was told, a
"reproduced" by answers that show the flaw (`Shown`) and a "did not reproduce" by one that
speaks against it (`Against`). For sqli-boolean that is `InRange`: a true condition no
farther from the last sample than the range is wide is no farther from one sample than two
others are from each other.

**StageFilesProofs**, from `FilesAssumption`, for any processes, paths and command lines,
and any findings of the scans. `Whole` says no path ever holds a torn file, `AtWork` that
what is about to be renamed is the output it stands for and that the outputs of one report
are different paths, `Written` that the outputs done with are in place unless replaced.
`FilesAreWhole` is the refinement of AtomicStore: `Rename` maps to `Put`, everything else
to a stutter. A second invariant, `Contents`, is about what is in the files: whatever can
be read, and whatever a process holds, is data of the scans, and a report at work holds
what it read. `OrderedSorts` proves that `Build` sorts: `Place` counts what goes before an
element, no two elements have one place (the order is strict and total, `GoesOrders`), so
`Place` is a bijection; from that, that the first finding of a check is its worst
(`RulesAreWorst`) and that the sort neither drops nor adds one (`InputKept`).

The same module has the proofs about **StageDiff**, from `DiffAssumption`, for any checks,
routes, subjects, names and grading. `DiffIInv` says that each file is the one its scan
wrote or what attack made of it, and the report is `Compare` of the two; `FilesFindings`
that attack leaves a file its findings, and its coverage unless there are none. `Namesakes`
says that findings of one ID are of one check and route, `FoundIsSeen` that what a scan
found is a finding whatever its severity, and `RanksBelow` that the ranks are the order
`--fail-on` promises. The coverage half of `GateSound` is for an older file that attack has
not emptied.

**PreflightProofs**, from `PreflightAssumption` (what a job is: the types of a
configuration's fields, references to variables that the environment knows, and a document
as kin-openapi's validation lets it by: finitely many paths of different names, no
declared parameter in a body) and `SettingsAssumption`, for any jobs of that kind.
`LoggedIn` gives for each stretch of the run the exact clients, cookies and login
requests; `Loaded` and `Accepted` say which checks have been passed by then.
`RequestsComeLast` rests on `BuildSecondKeeps`: between the two logins nothing is refused,
because a password that survived the first expansion survives the second. That last step
is where `PlainEnv` is needed. `ReadySound` proves what the engine and the attack start
from. `LoadFollows` is about one document and needs no run: `Turns` is the arithmetic of
the double loop over paths and methods, by which each operation has one turn;
`ParametersInForce` shows that the first occurrence of a key in the merged list is the
declaration in force, by the least place it has; `Earlier` is the order of the endpoints,
by path and within a path by method; `BodyIsListed` and `SecurityFollows` do the rest.

Two facts are proved again in several modules, since each stands alone: `InOrderLists`,
and `LeastElement`, that a non-empty set of naturals has a least one. The latter is taken
from the library's theorem on well-founded relations, the only induction the proofs need.

What the assumptions of the constants ask for is what the code hands over: `ScanAssumption`
and `PathAssumption` are about numbers that `ReadySound` shows to be positive. TLC
evaluates each of them in the runs.

Only model-checked: liveness (`Returns`, `DoReturns`, `Ends`), which is beyond TLAPS. Every
invariant, action property and refinement that a passing run checks is also a theorem.

## 6. Not modelled

- The text of things: YAML, HTML, SARIF and JSON syntax, layout and wording of `diff`, the
  strings and regular expressions by which passive checks read a response. Nothing in
  them interleaves, and a model of them would be their transcript.
- Of OpenAPI, what kin-openapi parses and validates; of a parameter's schema its type,
  format, bounds and sample are one word.
- In `samePath`, symbolic links: paths are absolute and clean. In the configuration, a
  rate that is not a number.
- A machine that goes down. `writeFile` (main.go:877-898) syncs neither the temporary file
  nor the directory before or after its rename, so after a power cut a path may hold an
  empty or a partial file. `StoresWhole` is about processes that are killed.
- The extra Origin probes of `collectProbes` beyond their verb; `sortCoverage`; the
  limiter's refusal before the deadline in `scan` (it is modelled in `attack`).
- open-redirect's other path parameters, which stay templates in its URL
  (redirect.go:91). IDs that take a finding's index for want of a discriminator: every
  check gives one.
- `lab/` and `tools/`.

## 7. Plan

Done: the core of the pool, the Authenticator, the request path, both stages, the diff, the
files, and the start of a run. Left, in this order:

1. *ScanStage*: the limiter's refusal (as `Squeeze` in AttackStage), and Preflight's
   endpoints in the place of its constant ones.
2. *RequestPath* with the Authenticator's generations instead of its abstraction, and the
   refinement between the two.
3. *Passive checks*: the verdict tables of headers and cors as operators over abstract
   headers.
