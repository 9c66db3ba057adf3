---------------------------- MODULE AttackStage ----------------------------
(***************************************************************************)
(* warden attack, from findings.json to confirmed.json: runAttack of       *)
(* cmd/warden/main.go over Run, attemptOne and the confirmers of           *)
(* internal/attack.                                                        *)
(*                                                                         *)
(* The findings are taken one after the other and every request of a       *)
(* confirmer is a step, so that the context may end between any two of     *)
(* them and the target answer each as it likes.  Of an answer the model    *)
(* keeps one number: the length of its body where lengths are compared,    *)
(* and otherwise whether it shows what the confirmer is looking for.       *)
(***************************************************************************)
EXTENDS Integers, Sequences

CONSTANTS
  Shapes,          \* the findings a scan may write: [check, id, destructive, auth, confirmed]
  MaxFindings,     \* the most findings of a file: a bound of the model
  MaxLen,          \* the longest body: a bound of the model
  NoiseSamples,    \* sqliNoiseSamples, 3 in the code
  MaxColumns,      \* sqliMaxColumns, 6 in the code
  MaxCandidates    \* the length of sqliExtractCandidates, 4 in the code

AskOnce == {"xss-reflected", "auth-required", "open-redirect"}
WithConfirmer == AskOnce \cup {"sqli-boolean", "verbose-errors", "jwt-weak"}

ASSUME AttackAssumption ==
  /\ \A f \in Shapes : f \in [check : {f.check}, id : {f.id}, destructive : BOOLEAN,
                             auth : BOOLEAN, confirmed : BOOLEAN]
  /\ MaxFindings \in Nat /\ MaxLen \in Nat \ {0}
  /\ NoiseSamples \in Nat \ {0} /\ MaxColumns \in Nat \ {0} /\ MaxCandidates \in Nat \ {0}

VARIABLES
  findings,    \* readFindings' list
  optIn,       \* engine.test_destructive
  stage,       \* where runAttack is
  k, step,     \* the finding at work, and the request its confirmer is about to send
  probe,       \* sqli-boolean's measurements: [low, high, last, tries]
  outcomes,    \* Run's result so far
  told,        \* history: the answers each finding's confirmer got, as [to, said]
  cancelled,   \* ctx.Err() # nil
  squeezed,    \* engine.timeout is nearer than the rate limiter's next token
  cut,         \* history: what requests were lost to: the context, the limiter
  file         \* confirmed.json, once written

vars == <<findings, optIn, stage, k, step, probe, outcomes, told, cancelled, squeezed, cut, file>>

NoProbe == [low |-> 0, high |-> 0, last |-> 0, tries |-> 0]
NoFile  == [coverage |-> FALSE, findings |-> << >>]

\* findingID: what a check calls its finding is put behind the check's name.
FindingID(check, own) == <<check, own>>
AlgNone == <<"alg-none-accepted">>
-----------------------------------------------------------------------------
\* Faulty variant: the destructive gate is left to scan.
TurnedAwayUngated(f) ==
  \/ f.confirmed
  \/ f.check \notin WithConfirmer
  \/ f.check = "jwt-weak" /\ f.id # AlgNone

\* What Run and attemptOne turn away without a request, and the confirmer of
\* jwt-weak with ErrNoProofOfConcept: it knows its forgery by the finding's ID.
TurnedAway(f) ==
  \/ f.confirmed
  \/ f.destructive /\ ~optIn
  \/ f.check \notin WithConfirmer
  \/ f.check = "jwt-weak" /\ f.id # AlgNone

FirstRequest(f) ==
  CASE f.check = "sqli-boolean"   -> "sample"
    [] f.check = "verbose-errors" -> "malformed"
    [] OTHER                      -> "once"

\* An outcome: what goes into the file of the finding, and how it went.  Its evidence
\* is the scan's, or says that attack reproduced the finding, or that it did not.
Reproduced(request) ==
  [confirmed |-> TRUE, request |-> request, evidence |-> "reproduced", how |-> "tried"]
NotReproduced ==
  [confirmed |-> FALSE, request |-> "scan", evidence |-> "not reproduced", how |-> "tried"]
AsItWas(f, how) ==
  [confirmed |-> f.confirmed, request |-> "scan", evidence |-> "scan", how |-> how]

Current == findings[k]
Working == stage = "attack" /\ k <= Len(findings)

Settle(o) ==
  /\ outcomes' = Append(outcomes, o)
  /\ k' = k + 1 /\ step' = "next" /\ probe' = NoProbe

GoTo(s) == step' = s /\ UNCHANGED <<k, outcomes>>

\* The target answers the request, or nothing comes back.  The limiter refuses a
\* request at once when its turn would come after the deadline, and the context
\* has no error yet.
Answered(said) ==
  /\ ~cancelled /\ ~squeezed
  /\ told' = [told EXCEPT ![k] = @ \cup {[to |-> step, said |-> said]}]
  /\ UNCHANGED cut
Lost ==
  /\ UNCHANGED told
  /\ cut' = cut \cup (IF cancelled THEN {"context"} ELSE IF squeezed THEN {"limiter"} ELSE {})

Asking(s) == Working /\ step = s /\ UNCHANGED <<findings, optIn, stage, cancelled, squeezed, file>>
-----------------------------------------------------------------------------
Init ==
  /\ findings \in UNION {[1..m -> Shapes] : m \in 0..MaxFindings}
  /\ optIn \in BOOLEAN
  /\ stage = "start"
  /\ k = 1 /\ step = "next" /\ probe = NoProbe /\ outcomes = << >>
  /\ told = [j \in DOMAIN findings |-> {}]
  /\ cancelled = FALSE /\ squeezed = FALSE /\ cut = {}
  /\ file = NoFile

\* Bad configuration, no auth block for protected findings, a login that fails.
Refuse ==
  /\ stage = "start"
  /\ stage' = "refused"
  /\ UNCHANGED <<findings, optIn, k, step, probe, outcomes, told, cancelled, squeezed, cut, file>>

\* Nothing to attack: a file with neither findings nor coverage is written.
NothingToAttack ==
  /\ stage = "start" /\ findings = << >>
  /\ stage' = "written" /\ file' = NoFile
  /\ UNCHANGED <<findings, optIn, k, step, probe, outcomes, told, cancelled, squeezed, cut>>

\* Logged in, or no need to.
Start ==
  /\ stage = "start" /\ findings # << >>
  /\ cancelled => \A j \in DOMAIN findings : ~findings[j].auth
  /\ stage' = "attack"
  /\ UNCHANGED <<findings, optIn, k, step, probe, outcomes, told, cancelled, squeezed, cut, file>>

\* The loop of Run: the context first, then what is turned away.
OutOfTime ==
  /\ Asking("next")
  /\ cancelled
  /\ Settle(AsItWas(Current, "failed"))
  /\ UNCHANGED <<told, cut>>

Skip ==
  /\ Asking("next")
  /\ ~cancelled /\ TurnedAway(Current)
  /\ Settle(AsItWas(Current, "skipped"))
  /\ UNCHANGED <<told, cut>>

\* A confirmer begins, or cannot rebuild its request from the one in the file.
Begin ==
  /\ Asking("next")
  /\ ~cancelled /\ ~TurnedAway(Current)
  /\ GoTo(FirstRequest(Current))
  /\ UNCHANGED <<probe, told, cut>>

CannotBuild ==
  /\ Asking("next")
  /\ ~cancelled /\ ~TurnedAway(Current)
  /\ Settle(AsItWas(Current, "failed"))
  /\ UNCHANGED <<told, cut>>

\* Faulty variant: no answer passes for an answer that shows nothing.
GiveUpDenies ==
  /\ \E s \in {"once", "malformed", "sample", "replay"} : Asking(s)
  /\ Lost
  /\ Settle(NotReproduced)

\* The request a verdict hangs on gets no answer: the confirmer gives up.
GiveUp ==
  /\ \E s \in {"once", "malformed", "sample", "replay"} : Asking(s)
  /\ Lost
  /\ Settle(AsItWas(Current, "failed"))

\* One request and one verdict on its answer.
Verdict(check, whenShown) ==
  /\ Asking("once") /\ Current.check = check
  /\ \E shows \in 0..1 :
       /\ Answered(shows)
       /\ Settle(IF shows = 1 THEN Reproduced(whenShown) ELSE NotReproduced)

\* xss-reflected: a fresh marker comes back where a browser would run it; the
\* request with that marker goes into the finding.
Reflected == Verdict("xss-reflected", "fresh")

\* auth-required: a success without credentials.
Open == Verdict("auth-required", "scan")

\* open-redirect: a 3xx to the payload's host.  The guard blocks that hop, and
\* the client hands over the answer with the error.
Redirected == Verdict("open-redirect", "scan")
-----------------------------------------------------------------------------
\* verbose-errors: the malformed request, then a benign one.
Malformed ==
  /\ Asking("malformed")
  /\ \E leaks \in 0..1 :
       /\ Answered(leaks)
       /\ IF leaks = 1 THEN GoTo("benign") /\ UNCHANGED probe
                       ELSE Settle(NotReproduced)

Benign ==
  /\ Asking("benign")
  /\ \E leaks \in 0..1 :
       /\ Answered(leaks)
       /\ Settle(IF leaks = 0 THEN Reproduced("scan") ELSE NotReproduced)

\* The benign request cannot be built, or gets no answer: the finding is
\* confirmed on the malformed one alone.
NoBenign ==
  /\ Asking("benign")
  /\ \/ UNCHANGED <<told, cut>>
     \/ Lost
  /\ Settle(Reproduced("scan"))
-----------------------------------------------------------------------------
AtMost(a, b)  == IF a <= b THEN a ELSE b
AtLeast(a, b) == IF a >= b THEN a ELSE b
Distance(a, b) == IF a >= b THEN a - b ELSE b - a

\* Faulty variant: the noise is taken between neighbouring samples only.
MeasuredNeighbours(p, len) ==
  [low  |-> IF p.tries = 0 THEN len ELSE AtMost(p.last, len),
   high |-> IF p.tries = 0 THEN len ELSE AtLeast(p.last, len),
   last |-> len, tries |-> p.tries + 1]

\* sqliNoiseFloor, one sample of it.
Measured(p, len) ==
  [low  |-> IF p.tries = 0 THEN len ELSE AtMost(p.low, len),
   high |-> IF p.tries = 0 THEN len ELSE AtLeast(p.high, len),
   last |-> len, tries |-> p.tries + 1]

Sample ==
  /\ Asking("sample")
  /\ \E len \in 0..MaxLen :
       /\ Answered(len)
       /\ probe' = Measured(probe, len)
  /\ GoTo(IF probe'.tries = NoiseSamples THEN "replay" ELSE "sample")

\* The true condition: confirmed when it is farther from the last false answer
\* than the false answers are from each other; then the database's name.
Replay ==
  /\ Asking("replay")
  /\ \E len \in 0..MaxLen :
       /\ Answered(len)
       /\ IF Distance(len, probe.last) > probe.high - probe.low
          THEN GoTo("union") /\ probe' = NoProbe
          ELSE Settle(NotReproduced)

\* findSQLiColumnCount: one request per number of columns, until one returns
\* the marker.  An attempt without an answer counts as one without the marker.
NextTry(tries, s, most) ==
  IF tries + 1 < most
  THEN GoTo(s) /\ probe' = [probe EXCEPT !.tries = tries + 1]
  ELSE Settle(Reproduced("scan"))

\* Faulty variant: an attempt that got no answer is made again.
MissedRetries(s, most) ==
  \/ \E said \in {0} : Answered(said) /\ NextTry(probe.tries, s, most)
  \/ Lost /\ UNCHANGED <<k, step, probe, outcomes>>

Missed(s, most) ==
  /\ Answered(0) \/ Lost
  /\ NextTry(probe.tries, s, most)

Union ==
  /\ Asking("union")
  /\ \/ Answered(1) /\ GoTo("extract") /\ probe' = NoProbe
     \/ Missed("union", MaxColumns)

\* Faulty variant: the UNION request is kept before it has returned anything.
ExtractKeepsLast ==
  /\ Asking("extract")
  /\ \/ Answered(1) /\ Settle(Reproduced("union"))
     \/ Lost /\ Settle(Reproduced("union"))
     \/ Missed("extract", MaxCandidates)

\* extractSQLiValue: the first candidate that returns a value; its request
\* replaces the scan's.
Extract ==
  /\ Asking("extract")
  /\ \/ Answered(1) /\ Settle(Reproduced("union"))
     \/ Missed("extract", MaxCandidates)
-----------------------------------------------------------------------------
\* Faulty variant: only what was tried goes into the file.
AllAttackedTried ==
  SelectSeq([j \in DOMAIN findings |->
               [finding |-> [findings[j] EXCEPT !.confirmed = outcomes[j].confirmed],
                request |-> outcomes[j].request, evidence |-> outcomes[j].evidence]],
            LAMBDA x : x.finding.confirmed)

\* allAttacked: every finding, in its place.
AllAttacked ==
  [j \in DOMAIN findings |->
     [finding |-> [findings[j] EXCEPT !.confirmed = outcomes[j].confirmed],
      request |-> outcomes[j].request, evidence |-> outcomes[j].evidence]]

\* Faulty variant: the context is not looked at again.
FinishUnchecked ==
  /\ stage = "attack" /\ k > Len(findings)
  /\ \/ stage' = "written" /\ file' = [coverage |-> TRUE, findings |-> AllAttacked]
     \/ stage' = "refused" /\ UNCHANGED file
  /\ UNCHANGED <<findings, optIn, k, step, probe, outcomes, told, cancelled, squeezed, cut>>

\* Run returns; runAttack looks at the context again and writes the file, with
\* the scan's coverage, or cannot write it.
Finish ==
  /\ stage = "attack" /\ k > Len(findings)
  /\ \/ ~cancelled /\ stage' = "written"
                   /\ file' = [coverage |-> TRUE, findings |-> AllAttacked]
     \/ stage' = "refused" /\ UNCHANGED file
  /\ UNCHANGED <<findings, optIn, k, step, probe, outcomes, told, cancelled, squeezed, cut>>

Over == stage \in {"written", "refused"}

\* Ctrl+C, SIGTERM or engine.timeout.
Cancel ==
  /\ ~cancelled /\ ~Over
  /\ cancelled' = TRUE
  /\ UNCHANGED <<findings, optIn, stage, k, step, probe, outcomes, told, squeezed, cut, file>>

\* The deadline comes nearer than the next token; no request is paid for after that.
Squeeze ==
  /\ stage = "attack" /\ ~cancelled /\ ~squeezed
  /\ squeezed' = TRUE
  /\ UNCHANGED <<findings, optIn, stage, k, step, probe, outcomes, told, cancelled, cut, file>>

Advance ==
  \/ Refuse \/ NothingToAttack \/ Start
  \/ OutOfTime \/ Skip \/ Begin \/ CannotBuild \/ GiveUp
  \/ Reflected \/ Open \/ Redirected \/ Malformed \/ Benign \/ NoBenign \/ Sample \/ Replay \/ Union \/ Extract
  \/ Finish

Exited == Over /\ UNCHANGED vars

Next == Advance \/ Cancel \/ Squeeze \/ Exited

\* The process runs on, and every request has a timeout.
Spec == Init /\ [][Next]_vars /\ WF_vars(Advance)
-----------------------------------------------------------------------------
Heard(j, to, said) == [to |-> to, said |-> said] \in told[j]

\* "Never Confirmed: true on anything less than an actual, reproduced result"
\* (attack.go:38-42): a finding that this run confirmed was shown by answers of
\* this run.  For sqli-boolean the true condition's answer lies outside the
\* whole range of the false condition's; for verbose-errors no benign answer
\* leaked; the others were shown.
ConfirmedIsReproduced ==
  \A j \in DOMAIN outcomes :
    outcomes[j].confirmed /\ ~findings[j].confirmed =>
      CASE findings[j].check = "sqli-boolean" ->
             \E t \in 0..MaxLen :
               /\ Heard(j, "replay", t)
               /\ \/ \A len \in 0..MaxLen : Heard(j, "sample", len) => t < len
                  \/ \A len \in 0..MaxLen : Heard(j, "sample", len) => t > len
        [] findings[j].check = "verbose-errors" ->
             Heard(j, "malformed", 1) /\ ~Heard(j, "benign", 1)
        [] OTHER -> Heard(j, "once", 1)

\* The request a finding is reported with is the scan's or one that showed the
\* flaw in this run, and then the finding is confirmed.
ReportedRequestShows ==
  \A j \in DOMAIN outcomes :
    /\ outcomes[j].request = "union" => outcomes[j].confirmed /\ Heard(j, "extract", 1)
    /\ outcomes[j].request = "fresh" => outcomes[j].confirmed /\ Heard(j, "once", 1)

\* The gate again, in a process of its own: no request for a finding on a
\* destructive route without the opt-in, nor for one already confirmed.
HandsOff ==
  \A j \in DOMAIN findings :
    told[j] # {} => ~findings[j].confirmed /\ (findings[j].destructive => optIn)

\* What speaks against a finding: an answer without what was looked for; a leak that
\* a benign value shows too; a true condition no farther from a sample of the false
\* one than two such samples are from each other.
Denied(j) ==
  CASE findings[j].check = "sqli-boolean" ->
         \E t, a, b, c \in 0..MaxLen :
           /\ Heard(j, "replay", t) /\ Heard(j, "sample", a)
           /\ Heard(j, "sample", b) /\ Heard(j, "sample", c)
           /\ Distance(t, a) <= Distance(b, c)
    [] findings[j].check = "verbose-errors" ->
         Heard(j, "malformed", 0) \/ Heard(j, "benign", 1)
    [] OTHER -> Heard(j, "once", 0)

\* confirmed.json answers findings.json: the same findings in the same order, those
\* confirmed before left as they were.  The evidence of the others is the scan's, or
\* this run's: then it says "reproduced" exactly of what this run confirmed, and "did
\* not reproduce" only where an answer of this run spoke against the finding, never
\* where none came (attack.go:38-42).
FileAnswersFindings ==
  stage = "written" =>
    /\ Len(file.findings) = Len(findings)
    /\ \A j \in DOMAIN findings :
         LET f == file.findings[j] IN
         /\ f.finding = [findings[j] EXCEPT !.confirmed = @ \/ f.evidence = "reproduced"]
         /\ f.evidence # "scan" => ~findings[j].confirmed
         /\ f.evidence = "not reproduced" => Denied(j)
         /\ f.request # "scan" => f.evidence = "reproduced"

\* A cancelled run writes nothing: no verdict in the file, for or against, comes
\* from a request that the context took away.
NoVerdictCutShort == stage = "written" => "context" \notin cut

\* The stage comes to an end, cancelled or not.
Ends == <>Over

\* attack.go:113-115 says that runAttack "refuses to write confirmed.json on a
\* truncated run": no request of a run whose file is written was given up because
\* the time was up.
TruncatedRunRefused == stage = "written" => cut = {}

\* README.md:289 says of jwt-weak that attack "re-forges the alg:none token" and
\* "confirms if the target still accepts it".
ForgeryIsTried ==
  stage = "written" =>
    \A j \in DOMAIN findings :
      LET f == findings[j] IN
      f.id = FindingID("jwt-weak", "alg-none-accepted") /\ ~f.confirmed
        /\ (f.destructive => optIn) => outcomes[j].how # "skipped"

=============================================================================
