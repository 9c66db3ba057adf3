---------------------------- MODULE ActiveChecks ----------------------------
(***************************************************************************)
(* One job of the scan: an active check at work on a route (internal/      *)
(* checks).  sqli-boolean, xss-reflected, verbose-errors and open-redirect *)
(* sweep the route's parameters one after the other; auth-required,        *)
(* dangerous-http-methods and jwt-weak send a single request without the   *)
(* session; idor sends three, as two accounts.                             *)
(*                                                                         *)
(* Every request is a step, and any of them may get no answer: the         *)
(* connection, a login, the context.  Of an answer the model keeps a       *)
(* number, the length of its body where lengths are compared and otherwise *)
(* whether it shows what the check is looking for, and whether its status  *)
(* is below 400.                                                           *)
(***************************************************************************)
EXTENDS Integers, Sequences

CONSTANTS
  MaxParams,      \* the most parameters of a route: a bound of the model
  MaxLen,         \* the longest body: a bound of the model
  NoiseSamples,   \* sqliNoiseSamples, 3 in the code
  Tries,          \* payload pairs of sqli.txt, marker templates of xss.txt
  IdLimit         \* idCandidateLimit, 50 in the code

ASSUME CheckAssumption ==
  /\ MaxParams \in Nat \ {0} /\ MaxLen \in Nat \ {0}
  /\ NoiseSamples \in Nat \ {0} /\ Tries \in Nat \ {0} /\ IdLimit \in Nat \ {0}

VARIABLES
  check, params, canCreate,   \* the job: which check, the route, Target.CanCreate
  baseline,   \* the route's baseline: none, plain, or for verbose-errors one that looks leaky
  prefixed,   \* target.base_url has a path of its own
  session,    \* Clients.SessionToken: none, opaque, or a JWT of a short or long life
  second,     \* Clients.Secondary is there
  stage,      \* start, sweep, idor or returned
  k, step,    \* the position of the parameter at work and the request about to be sent
  probe,      \* what testParameter holds: [low, high, tries, n, sent, len, stored]
  found, untested,   \* perParameterResult, by the parameters' positions
  result,     \* what Run returned: [findings, err]
  told,       \* history: the answers each parameter's requests got
  heard,      \* history: the answers other requests got, and to whom
  listed,     \* history: the collection as idor's two accounts were shown it
  strayed     \* history: a request went to a path outside target.base_url

vars == <<check, params, canCreate, baseline, prefixed, session, second, stage, k, step,
          probe, found, untested, result, told, heard, listed, strayed>>

Sweeps == {"sqli-boolean", "xss-reflected", "verbose-errors", "open-redirect"}
Singles == {"auth-required", "dangerous-http-methods", "jwt-weak"}

\* What a finding is about when it is not one of the parameters.
Route == 0
Token == -1

\* Where a parameter goes: the URL, as "redirect" when its name is that of a
\* redirect target, which only open-redirect looks at; or the body, as a string
\* or as something else.
Kinds == {"url", "redirect", "text", "number"}
Bodies == {"text", "number"}
Positions == DOMAIN params

NoProbe == [low |-> 0, high |-> 0, tries |-> 0, n |-> 1, sent |-> 0, len |-> 0, stored |-> {}]
NoResult == [findings |-> {}, err |-> "none"]
-----------------------------------------------------------------------------
\* injectableParameters, or redirectCandidates.
Injectable ==
  IF check = "open-redirect" THEN {p \in Positions : params[p] = "redirect"}
                             ELSE {p \in Positions : params[p] # "number"}

\* usableParameters: the body takes the opt-in.
HeldBack == {p \in Injectable : params[p] = "text" /\ ~canCreate}
Usable == Injectable \ HeldBack

\* The smallest of S, as a set; for no parameters the position after the last.
Least(S) == {x \in S : \A y \in S : x <= y}
Earliest(S) == IF S = {} THEN {Len(params) + 1} ELSE Least(S)

FirstRequest ==
  CASE check = "sqli-boolean"   -> "sample"
    [] check = "xss-reflected"  -> "benign"
    [] check = "verbose-errors" -> "malformed"
    [] OTHER                    -> "redirect"

Job == <<check, params, canCreate, baseline, prefixed, session, second>>

\* buildProbeRequest and idor put the route's path behind the scheme and host of the
\* baseline's URL; jwt-weak and dangerous-http-methods take that URL as it is.
AtOrigin == strayed' = (strayed \/ prefixed)
AtBaseline == UNCHANGED strayed

Answered(n, said) ==
  /\ told' = [told EXCEPT ![k] = @ \cup {[to |-> step, n |-> n, said |-> said]}]
  /\ AtOrigin /\ UNCHANGED <<heard, listed>>
NoAnswer == UNCHANGED <<told, heard, listed, strayed>>

Asking(s) ==
  stage = "sweep" /\ k \in Usable /\ step = s /\ UNCHANGED <<Job, stage, result>>

\* testParameter returns, and the sweep goes on with the next parameter.
NextParameter == k' \in Earliest({p \in Usable : p > k}) /\ step' = FirstRequest /\ probe' = NoProbe
Found    == found' = found \cup {k} /\ UNCHANGED untested /\ NextParameter
Clean    == UNCHANGED <<found, untested>> /\ NextParameter
Untested == untested' = untested \cup {k} /\ UNCHANGED found /\ NextParameter
Stay(s)  == step' = s /\ UNCHANGED <<k, found, untested>>
-----------------------------------------------------------------------------
Init ==
  /\ check \in Sweeps \cup Singles \cup {"idor"}
  /\ params \in UNION {[1..m -> Kinds] : m \in 0..MaxParams}
  /\ check \in Sweeps => Injectable # {}
  /\ check \notin Sweeps => params = << >>
  /\ check # "open-redirect" => \A p \in Positions : params[p] # "redirect"
  /\ canCreate \in BOOLEAN /\ prefixed \in BOOLEAN
  /\ baseline \in {"none", "plain"} \cup (IF check = "verbose-errors" THEN {"leaky"} ELSE {})
  /\ session \in IF check = "jwt-weak" THEN {"none", "opaque", "short", "long"} ELSE {"none"}
  /\ second \in IF check = "idor" THEN BOOLEAN ELSE {FALSE}
  /\ stage = "start"
  /\ k \in Earliest(Usable) /\ step = FirstRequest /\ probe = NoProbe
  /\ found = {} /\ untested = {} /\ result = NoResult
  /\ told = [p \in Positions |-> {}] /\ heard = {} /\ strayed = FALSE
  /\ listed = [first |-> << >>, second |-> << >>]

Return(findings, err) ==
  /\ stage' = "returned" /\ result' = [findings |-> findings, err |-> err]
  /\ UNCHANGED <<Job, k, step, probe, found, untested>>

\* Nothing but body parameters, and no opt-in.
AllHeldBack ==
  /\ stage = "start" /\ check \in Sweeps /\ Usable = {}
  /\ Return({}, "skipped") /\ NoAnswer

\* jwt-weak has no JWT to look at, or idor no account to compare with.
NothingToAskWith ==
  /\ stage = "start"
  /\ \/ check = "jwt-weak" /\ session \in {"none", "opaque"}
     \/ check = "idor" /\ ~second
  /\ Return({}, "skipped") /\ NoAnswer

Equipped ==
  /\ check \in Sweeps => Usable # {}
  /\ check = "jwt-weak" => session \notin {"none", "opaque"}
  /\ check = "idor" => second

\* checkExpiry reads the token alone.
Expiry == IF session = "long" THEN {Token} ELSE {}

NoBaseline ==
  /\ stage = "start" /\ baseline = "none" /\ Equipped
  /\ Return(Expiry, "skipped") /\ NoAnswer

Begin ==
  /\ stage = "start" /\ baseline # "none" /\ Equipped /\ check \notin Singles
  /\ IF check = "idor" THEN stage' = "idor" /\ step' = "mine"
                       ELSE stage' = "sweep" /\ UNCHANGED step
  /\ UNCHANGED <<Job, k, probe, found, untested, result>> /\ NoAnswer
-----------------------------------------------------------------------------
Ready(c) == stage = "start" /\ baseline # "none" /\ check = c

\* The answer to a request for what, as nobody or as the second account.
Hear(who, what, said) ==
  /\ heard' = heard \cup {[as |-> who, of |-> what, said |-> said]}
  /\ UNCHANGED <<told, listed>>

\* A success is a finding, a refusal is a verdict, anything else is neither.
Verdict(who, what) ==
  \E said \in {"accepted", "refused", "neither"} :
    /\ Hear(who, what, said)
    /\ CASE said = "accepted" -> Return({Route}, "nil")
         [] said = "refused"  -> Return({}, "nil")
         [] said = "neither"  -> Return({}, "skipped")

\* auth-required: a 2xx, a 401 or 403, anything else; or no answer at all.
Unauthenticated ==
  /\ Ready("auth-required")
  /\ \/ Return({}, "other") /\ NoAnswer
     \/ Verdict("nobody", Route) /\ AtOrigin

\* dangerous-http-methods: no 2xx, one that echoes the marker, or one that does not.
Trace ==
  /\ Ready("dangerous-http-methods")
  /\ \/ Return({}, "other") /\ NoAnswer
     \/ Verdict("nobody", Route) /\ AtBaseline

\* Faulty variant: a forgery that got no answer was not accepted.
ForgeLostIsClean ==
  /\ Ready("jwt-weak") /\ Equipped
  /\ \/ Return(Expiry, "nil") /\ NoAnswer
     \/ /\ \E said \in {"accepted", "refused"} :
             /\ Hear("nobody", Route, said)
             /\ Return(Expiry \cup IF said = "accepted" THEN {Route} ELSE {}, "nil")
        /\ AtBaseline

\* checkAlgNone: any answer but a 2xx refuses the forged token.  What is known of
\* the token's life stands when the forgery gets no answer.
Forge ==
  /\ Ready("jwt-weak") /\ Equipped
  /\ \/ Return(Expiry, "skipped") /\ NoAnswer
     \/ /\ \E said \in {"accepted", "refused"} :
             /\ Hear("nobody", Route, said)
             /\ Return(Expiry \cup IF said = "accepted" THEN {Route} ELSE {}, "nil")
        /\ AtBaseline
-----------------------------------------------------------------------------
\* The identifiers a listing may hold, in the order it holds them, one more than
\* identifiersAt keeps.
Ids == 1..IdLimit + 1
Listings ==
  {s \in UNION {[1..m -> Ids] : m \in 1..IdLimit + 1} :
     \A i, j \in DOMAIN s : s[i] = s[j] => i = j}

Kept(s) == {s[i] : i \in {n \in DOMAIN s : n <= IdLimit}}
Elements(s) == {s[i] : i \in DOMAIN s}

\* Faulty variant: whatever the first account lists is its own.
OnlyInFirstAny(l) == Kept(l.first)

\* onlyInFirst has a choice when this is not empty, and takes the smallest.
OnlyInFirst(l) == Kept(l.first) \ Kept(l.second)

\* A listing that is lost, refused, not JSON, without an array or without an id.
NoListing ==
  /\ stage = "idor" /\ step \in {"mine", "theirs"}
  /\ Return({}, "skipped") /\ NoAnswer

ListMine ==
  /\ stage = "idor" /\ step = "mine"
  /\ \E s \in Listings : listed' = [listed EXCEPT !.first = s]
  /\ step' = "theirs"
  /\ AtOrigin
  /\ UNCHANGED <<Job, stage, k, probe, found, untested, result, told, heard>>

ListTheirs ==
  /\ stage = "idor" /\ step = "theirs"
  /\ \E s \in Listings :
       /\ listed' = [listed EXCEPT !.second = s]
       /\ IF OnlyInFirst(listed') = {} THEN Return({}, "skipped")
          ELSE /\ step' = "read"
               /\ UNCHANGED <<Job, stage, k, probe, found, untested, result>>
  /\ AtOrigin /\ UNCHANGED <<told, heard>>

\* The chosen resource, read as the second account.
ReadOther ==
  /\ stage = "idor" /\ step = "read"
  /\ \/ Return({}, "other") /\ NoAnswer
     \/ \E id \in Least(OnlyInFirst(listed)) : Verdict("second", id) /\ AtOrigin
-----------------------------------------------------------------------------
AtMost(a, b)   == IF a <= b THEN a ELSE b
AtLeast(a, b)  == IF a >= b THEN a ELSE b
Distance(a, b) == IF a >= b THEN a - b ELSE b - a

\* The first request of a sqli-boolean or xss-reflected test is lost, or the only
\* one of the others: the parameter is untested.
FirstLost ==
  /\ \E s \in {"sample", "benign", "malformed", "redirect"} : Asking(s)
  /\ NoAnswer
  /\ Untested

\* measureNoise, one sample of it.  The last one's status decides whether the
\* parameter can be exercised at all.
Sample ==
  /\ Asking("sample")
  /\ \E len \in 0..MaxLen, accepted \in BOOLEAN :
       /\ Answered(1, len)
       /\ IF probe.tries + 1 < NoiseSamples \/ accepted
          THEN /\ probe' = [probe EXCEPT
                    !.low  = IF probe.tries = 0 THEN len ELSE AtMost(@, len),
                    !.high = IF probe.tries = 0 THEN len ELSE AtLeast(@, len),
                    !.tries = @ + 1]
               /\ Stay(IF probe.tries + 1 < NoiseSamples THEN "sample" ELSE "true")
          ELSE Untested

\* Faulty variant: a parameter no payload reached is clean.
OnwardUnsent(s, sent) ==
  IF probe.n < Tries
  THEN Stay(s) /\ probe' = [probe EXCEPT !.n = @ + 1, !.sent = sent, !.len = 0]
  ELSE Clean

\* On to the next payload; after the last, a parameter none of them reached has
\* not been tested.
Onward(s, sent) ==
  IF probe.n < Tries
  THEN Stay(s) /\ probe' = [probe EXCEPT !.n = @ + 1, !.sent = sent, !.len = 0]
  ELSE IF sent = 0 THEN Untested ELSE Clean

TrueCondition ==
  /\ Asking("true")
  /\ \E len \in 0..MaxLen :
       /\ Answered(probe.n, len)
       /\ Stay("false") /\ probe' = [probe EXCEPT !.len = len]

\* Faulty variant: a difference as large as the noise counts.
FalseConditionAtNoise ==
  /\ Asking("false")
  /\ \E len \in 0..MaxLen :
       /\ Answered(probe.n, len)
       /\ IF Distance(probe.len, len) >= probe.high - probe.low /\ probe.len # len
          THEN Found
          ELSE Onward("true", probe.sent + 1)

\* The pair is complete: a finding when its answers differ by more than the noise.
FalseCondition ==
  /\ Asking("false")
  /\ \E len \in 0..MaxLen :
       /\ Answered(probe.n, len)
       /\ IF Distance(probe.len, len) > probe.high - probe.low
          THEN Found
          ELSE Onward("true", probe.sent + 1)

\* A pair that could not be sent as a whole is passed over.
PairLost ==
  /\ \E s \in {"true", "false"} : Asking(s)
  /\ NoAnswer
  /\ Onward("true", probe.sent)
-----------------------------------------------------------------------------
\* xss-reflected: the benign answer, which may hold some of the markers already.
Benign ==
  /\ Asking("benign")
  /\ \/ /\ Answered(1, 0) /\ Untested
     \/ \E stored \in SUBSET (1..Tries) :
          /\ Answered(1, 1)
          /\ Stay("marker") /\ probe' = [probe EXCEPT !.stored = stored]

Marker ==
  /\ Asking("marker")
  /\ \E reflected \in 0..1 :
       /\ Answered(probe.n, reflected)
       /\ IF reflected = 1 /\ probe.n \notin probe.stored
          THEN Found
          ELSE Onward("marker", probe.sent + 1)

MarkerLost ==
  /\ Asking("marker")
  /\ NoAnswer
  /\ Onward("marker", probe.sent)

\* verbose-errors: a leak that the baseline shows as well is no finding.
Malformed ==
  /\ Asking("malformed")
  /\ \E leaks \in 0..1 :
       /\ Answered(1, leaks)
       /\ IF leaks = 1 /\ baseline # "leaky" THEN Found ELSE Clean

\* open-redirect: a Location on the probe's host, read off a blocked 3xx.
Redirect ==
  /\ Asking("redirect")
  /\ \E away \in 0..1 :
       /\ Answered(1, away)
       /\ IF away = 1 THEN Found ELSE Clean
-----------------------------------------------------------------------------
\* Faulty variant: a partial sweep reports its gaps and not its findings.
OutcomeDropsFindings ==
  IF untested # {} THEN [findings |-> {}, err |-> "skipped"]
  ELSE [findings |-> found, err |-> IF HeldBack # {} THEN "skipped" ELSE "nil"]

\* perParameterResult.outcome: a partial sweep reports both.
Outcome ==
  IF Usable # {} /\ Usable \subseteq untested THEN [findings |-> {}, err |-> "skipped"]
  ELSE [findings |-> found,
        err |-> IF untested # {} \/ HeldBack # {} THEN "skipped" ELSE "nil"]

Finish ==
  /\ stage = "sweep" /\ k \notin Usable
  /\ Return(Outcome.findings, Outcome.err)
  /\ NoAnswer

Returned == stage = "returned" /\ UNCHANGED vars

Next ==
  \/ AllHeldBack \/ NothingToAskWith \/ NoBaseline \/ Begin
  \/ Unauthenticated \/ Trace \/ Forge
  \/ NoListing \/ ListMine \/ ListTheirs \/ ReadOther
  \/ FirstLost \/ Sample \/ TrueCondition \/ FalseCondition \/ PairLost
  \/ Benign \/ Marker \/ MarkerLost \/ Malformed \/ Redirect
  \/ Finish \/ Returned

Spec == Init /\ [][Next]_vars
-----------------------------------------------------------------------------
Heard(p, to, n, said) == [to |-> to, n |-> n, said |-> said] \in told[p]
HeardAny(p, to, n) == \E said \in 0..MaxLen : Heard(p, to, n, said)

\* A finding on a parameter.  sqli-boolean: the two answers of the pair are farther
\* apart than any two of the benign ones.
Shown(p) ==
  CASE check = "sqli-boolean" ->
         \E n \in 1..Tries, t \in 0..MaxLen, f \in 0..MaxLen :
           /\ Heard(p, "true", n, t) /\ Heard(p, "false", n, f)
           /\ \A a, b \in 0..MaxLen :
                Heard(p, "sample", 1, a) /\ Heard(p, "sample", 1, b)
                  => Distance(t, f) > Distance(a, b)
    [] check = "xss-reflected" ->
         Heard(p, "benign", 1, 1) /\ \E n \in 1..Tries : Heard(p, "marker", n, 1)
    [] check = "verbose-errors" -> Heard(p, "malformed", 1, 1) /\ baseline = "plain"
    [] OTHER -> Heard(p, "redirect", 1, 1)

\* idor: the second account read a resource that the first was shown and that the
\* second was not, as far as its listing was read: idCandidateLimit cuts it short.
AnothersResource(id) ==
  /\ id \in Elements(listed.first)
  /\ Len(listed.second) <= IdLimit => id \notin Elements(listed.second)

\* Noise is never taken for a signal: every finding was shown by an answer of the
\* target, to whom it must not be given, and not by what it answers anyway.
FindingsAreShown ==
  \A f \in result.findings :
    CASE f = Token -> session = "long"
      [] f = Route /\ check = "idor" ->
           \E id \in Ids : /\ [as |-> "second", of |-> id, said |-> "accepted"] \in heard
                           /\ AnothersResource(id)
      [] f = Route /\ check # "idor" ->
           [as |-> "nobody", of |-> Route, said |-> "accepted"] \in heard
      [] OTHER -> Shown(f)

\* What it takes to say anything about a parameter.
Exercised(p) ==
  CASE check = "sqli-boolean"   -> \E n \in 1..Tries : HeardAny(p, "true", n) /\ HeardAny(p, "false", n)
    [] check = "xss-reflected"  -> \E n \in 1..Tries : HeardAny(p, "marker", n)
    [] check = "verbose-errors" -> HeardAny(p, "malformed", 1)
    [] OTHER                    -> HeardAny(p, "redirect", 1)

\* A check claims a route as examined exactly when every parameter of it was
\* exercised, or its one question got an answer that decides it; an untested or
\* held-back parameter is admitted however the others went, and takes none of
\* their findings with it.
GapsAreAdmitted ==
  stage = "returned" =>
    IF check \in Sweeps
    THEN /\ result.findings = found
         /\ result.err = "nil" <=> \A p \in Injectable : Exercised(p)
    ELSE result.err = "nil" <=> \E h \in heard : h.said # "neither"

\* README.md:103 calls target.base_url the "absolute URL of the API under test";
\* the engine's baselines and the login are sent below it, path included
\* (engine.go:303-309), and so must the requests be that are compared with them.
ProbesStayUnderBase == ~strayed
=============================================================================
