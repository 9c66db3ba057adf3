------------------------- MODULE AttackStageProofs -------------------------
(***************************************************************************)
(* AttackStage confirms what it has seen and hands on everything else, for *)
(* any findings, any lengths and any number of samples and guesses.        *)
(***************************************************************************)
EXTENDS AttackStage, SequenceTheorems, TLAPS

Stages   == {"start", "attack", "written", "refused"}
Requests == {"once", "malformed", "benign", "sample", "replay", "union", "extract"}
Answers  == [to : Requests, said : 0..MaxLen]
Outcomes == [confirmed : BOOLEAN, request : {"scan", "fresh", "union"},
             evidence : {"scan", "reproduced", "not reproduced"}, how : {"tried", "failed", "skipped"}]
Probes   == [low : 0..MaxLen, high : 0..MaxLen, last : 0..MaxLen, tries : Nat]

Typed ==
  /\ findings \in Seq(Shapes) /\ stage \in Stages
  /\ k \in Nat /\ step \in Requests \cup {"next"} /\ probe \in Probes
  /\ outcomes \in Seq(Outcomes)
  /\ k = Len(outcomes) + 1 /\ Len(outcomes) <= Len(findings)
  /\ told \in [DOMAIN findings -> SUBSET Answers]

\* What answers A make of a finding f: the condition of ConfirmedIsReproduced.
Shown(f, A) ==
  CASE f.check = "sqli-boolean" ->
         \E t \in 0..MaxLen :
           /\ [to |-> "replay", said |-> t] \in A
           /\ \/ \A len \in 0..MaxLen : [to |-> "sample", said |-> len] \in A => t < len
              \/ \A len \in 0..MaxLen : [to |-> "sample", said |-> len] \in A => t > len
    [] f.check = "verbose-errors" ->
         [to |-> "malformed", said |-> 1] \in A /\ [to |-> "benign", said |-> 1] \notin A
    [] OTHER -> [to |-> "once", said |-> 1] \in A

\* What answers A speak against a finding f: the condition of Denied.
Against(f, A) ==
  CASE f.check = "sqli-boolean" ->
         \E t, a, b, c \in 0..MaxLen :
           /\ [to |-> "replay", said |-> t] \in A /\ [to |-> "sample", said |-> a] \in A
           /\ [to |-> "sample", said |-> b] \in A /\ [to |-> "sample", said |-> c] \in A
           /\ Distance(t, a) <= Distance(b, c)
    [] f.check = "verbose-errors" ->
         [to |-> "malformed", said |-> 0] \in A \/ [to |-> "benign", said |-> 1] \in A
    [] OTHER -> [to |-> "once", said |-> 0] \in A

\* An outcome that its answers bear out, and that says so.
Fair(f, A, o) ==
  /\ o.confirmed /\ ~f.confirmed => Shown(f, A)
  /\ o.confirmed <=> f.confirmed \/ o.evidence = "reproduced"
  /\ o.evidence # "scan" => ~f.confirmed
  /\ o.evidence = "not reproduced" => Against(f, A)
  /\ o.request # "scan" => o.evidence = "reproduced"
  /\ o.request = "union" => [to |-> "extract", said |-> 1] \in A
  /\ o.request = "fresh" => [to |-> "once", said |-> 1] \in A

\* What the confirmer at work on f has heard before it sends its next request.
Busy(f, A, p, s) ==
  /\ s # "next" => ~TurnedAway(f)
  /\ s \in {"next", "once", "malformed"} => A = {}
  /\ s \in {"next", "once", "malformed", "sample"} /\ p.tries = 0 => A = {}
  /\ s = "next" => p = NoProbe
  /\ s = "once" => f.check \notin {"sqli-boolean", "verbose-errors"}
  /\ s \in {"malformed", "benign"} => f.check = "verbose-errors"
  /\ s = "benign" => A = {[to |-> "malformed", said |-> 1]}
  /\ s \in {"sample", "replay", "union", "extract"} => f.check = "sqli-boolean"
  /\ s \in {"sample", "replay"} =>
       /\ \A a \in A : a.to = "sample" /\ p.low <= a.said /\ a.said <= p.high
       /\ p.tries > 0 =>
            /\ p.low <= p.last /\ p.last <= p.high
            /\ \A n \in {p.low, p.high, p.last} : [to |-> "sample", said |-> n] \in A
  /\ s = "replay" => p.tries > 0
  /\ s \in {"union", "extract"} => Shown(f, A)

Unstarted ==
  stage = "start" => /\ k = 1 /\ step = "next" /\ probe = NoProbe /\ cut = {}
                     /\ \A j \in DOMAIN findings : told[j] = {}
AtWork  == Working => Busy(findings[k], told[k], probe, step)
Untold  == \A j \in DOMAIN findings : j > k => told[j] = {}
Settled == \A j \in DOMAIN outcomes : Fair(findings[j], told[j], outcomes[j])
CutTold == "context" \in cut => cancelled

IInv ==
  /\ Typed /\ Unstarted /\ AtWork /\ Untold /\ Settled /\ CutTold
  /\ HandsOff /\ FileAnswersFindings /\ NoVerdictCutShort
-----------------------------------------------------------------------------
\* What every step of the loop leaves alone, and what it may hear.
LEMMA Hearing ==
  ASSUME IInv, Working, step # "next", UNCHANGED findings,
         NEW said \in 0..MaxLen, Answered(said) \/ Lost \/ UNCHANGED <<told, cut>>
  PROVE  /\ told' \in [DOMAIN findings -> SUBSET Answers]
         /\ \A j \in DOMAIN findings : j # k => told'[j] = told[j]
         /\ "context" \in cut' => cancelled
         /\ k \in DOMAIN findings
  <1> USE DEF IInv
  <1>1. k \in DOMAIN findings
    BY DEF Typed, Working
  <1>2. CutTold
    OBVIOUS
  <1>3. CASE Answered(said)
    <2>1. [to |-> step, said |-> said] \in Answers
      BY DEF Typed, Answers
    <2>2. told' = [told EXCEPT ![k] = @ \cup {[to |-> step, said |-> said]}]
      BY <1>3 DEF Answered
    <2>3. told' \in [DOMAIN findings -> SUBSET Answers]
      BY <1>1, <2>1, <2>2 DEF Typed
    <2> QED BY <1>1, <1>2, <1>3, <2>2, <2>3 DEF Answered, CutTold, Typed
  <1>4. CASE Lost
    BY <1>1, <1>2, <1>4 DEF Lost, CutTold, Typed
  <1>5. CASE UNCHANGED <<told, cut>>
    BY <1>1, <1>2, <1>5 DEF CutTold, Typed
  <1> QED BY <1>3, <1>4, <1>5

\* Where a step of the loop stands: of the history only the part of the finding at
\* work has changed, and only after the gate.
AtOwn ==
  /\ Working /\ UNCHANGED <<findings, optIn, stage, cancelled, squeezed, file>>
  /\ told' \in [DOMAIN findings -> SUBSET Answers]
  /\ \A j \in DOMAIN findings : j # k => told'[j] = told[j]
  /\ told'[k] # {} => ~TurnedAway(Current)
  /\ "context" \in cut' => cancelled

\* The confirmer goes on to its next request.
LEMMA GoKeeps ==
  ASSUME IInv, AtOwn, UNCHANGED <<k, outcomes>>,
         step' \in Requests \cup {"next"}, probe' \in Probes,
         Busy(findings[k], told'[k], probe', step')
  PROVE  IInv'
  <1> USE DEF IInv, AtOwn
  <1>1. stage = "attack" /\ k \in DOMAIN findings /\ Len(findings) \in Nat /\ DOMAIN findings = 1..Len(findings)
    BY DEF Working, Typed
  <1>2. Typed'
    BY DEF Typed
  <1>3. Unstarted' /\ FileAnswersFindings' /\ NoVerdictCutShort'
    BY <1>1 DEF Unstarted, FileAnswersFindings, NoVerdictCutShort
  <1>4. AtWork'
    <2>1. Busy(findings[k], told[k], probe, step)' <=> Busy(findings[k], told'[k], probe', step')
      BY DEF Busy, TurnedAway
    <2> QED BY <2>1 DEF AtWork
  <1>5. Untold' /\ CutTold'
    BY <1>1 DEF Untold, CutTold, Typed
  <1>6. Settled'
    <2> SUFFICES ASSUME NEW j \in DOMAIN outcomes
                 PROVE  Fair(findings[j], told'[j], outcomes[j])
      BY DEF Settled, Fair, Shown, Against
    <2>1. j \in DOMAIN findings /\ j # k
      BY <1>1 DEF Typed
    <2> QED BY <2>1 DEF Settled
  <1>7. HandsOff'
    <2>1. ~TurnedAway(Current) => ~findings[k].confirmed /\ (findings[k].destructive => optIn)
      BY DEF TurnedAway, Current
    <2> QED BY <1>1, <2>1 DEF HandsOff, Typed
  <1> QED BY <1>2, <1>3, <1>4, <1>5, <1>6, <1>7

\* The confirmer, or the gate, is done with the finding.
LEMMA SettleKeeps ==
  ASSUME IInv, AtOwn, NEW o \in Outcomes, Settle(o), Fair(findings[k], told'[k], o)
  PROVE  IInv'
  <1> USE DEF IInv, AtOwn
  <1>1. /\ stage = "attack" /\ k \in DOMAIN findings /\ Len(findings) \in Nat
        /\ DOMAIN findings = 1..Len(findings)
        /\ DOMAIN outcomes = 1..Len(outcomes) /\ Len(outcomes) \in Nat /\ k = Len(outcomes) + 1
    BY DEF Working, Typed
  <1>2. /\ outcomes' = Append(outcomes, o) /\ k' = k + 1 /\ step' = "next" /\ probe' = NoProbe
        /\ outcomes' \in Seq(Outcomes) /\ Len(outcomes') = k
        /\ outcomes'[k] = o /\ \A j \in DOMAIN outcomes : outcomes'[j] = outcomes[j]
        /\ DOMAIN outcomes' = 1..k
    BY <1>1 DEF Settle, Typed
  <1>3. NoProbe \in Probes
    BY AttackAssumption DEF NoProbe, Probes
  <1>4. Typed'
    BY <1>1, <1>2, <1>3 DEF Typed
  <1>5. Unstarted' /\ FileAnswersFindings' /\ NoVerdictCutShort'
    BY <1>1 DEF Unstarted, FileAnswersFindings, NoVerdictCutShort
  <1>6. Untold' /\ CutTold'
    <2>1. \A j \in DOMAIN findings : j > k + 1 => j # k /\ j > k
      BY <1>1
    <2>2. Untold'
      BY <1>2, <2>1 DEF Untold
    <2>3. CutTold'
      BY DEF CutTold
    <2> QED BY <2>2, <2>3
  <1>7. AtWork'
    <2> SUFFICES ASSUME Working' PROVE Busy(findings[k + 1], told'[k + 1], NoProbe, "next")
      BY <1>2 DEF AtWork, Busy, TurnedAway
    <2>1. k + 1 \in DOMAIN findings
      BY <1>1, <1>2 DEF Working
    <2>2. told'[k + 1] = {}
      BY <1>1, <2>1 DEF Untold
    <2> QED BY <2>2 DEF Busy
  <1>8. Settled'
    <2> SUFFICES ASSUME NEW j \in 1..k
                 PROVE  Fair(findings[j], told'[j], outcomes'[j])
      BY <1>2 DEF Settled, Fair, Shown, Against
    <2>1. CASE j = k
      BY <2>1, <1>2
    <2>2. CASE j # k
      <3>1. j \in DOMAIN outcomes /\ j \in DOMAIN findings
        BY <1>1, <2>2
      <3> QED BY <3>1, <2>2, <1>2 DEF Settled
    <2> QED BY <2>1, <2>2
  <1>9. HandsOff'
    <2>1. ~TurnedAway(Current) => ~findings[k].confirmed /\ (findings[k].destructive => optIn)
      BY DEF TurnedAway, Current
    <2> QED BY <1>1, <2>1 DEF HandsOff, Typed
  <1> QED BY <1>4, <1>5, <1>6, <1>7, <1>8, <1>9

\* What holds of the finding at work.
LEMMA Here ==
  ASSUME IInv, Working
  PROVE  /\ Current = findings[k] /\ Current \in Shapes /\ Current.confirmed \in BOOLEAN
         /\ Busy(Current, told[k], probe, step)
         /\ step # "next" => ~TurnedAway(Current) /\ ~Current.confirmed
  <1>1. k \in DOMAIN findings /\ findings \in Seq(Shapes)
    BY DEF IInv, Typed, Working
  <1>2. Current \in Shapes
    BY <1>1 DEF Current
  <1>3. Busy(Current, told[k], probe, step)
    BY DEF IInv, AtWork, Current
  <1> QED BY <1>2, <1>3, AttackAssumption DEF Busy, TurnedAway, Current

\* A step of the loop stands at its own finding.
LEMMA OwnStep ==
  ASSUME IInv, NEW s \in Requests, Asking(s), NEW said \in 0..MaxLen,
         Answered(said) \/ Lost \/ UNCHANGED <<told, cut>>
  PROVE  AtOwn
  <1>1. s # "next"
    BY DEF Requests
  <1> QED BY <1>1, Hearing, Here DEF Asking, AtOwn

\* The same for the gate, which asks nothing.
LEMMA OwnGate ==
  ASSUME IInv, Asking("next"), UNCHANGED <<told, cut>>
  PROVE  AtOwn /\ told'[k] = {}
  <1>1. told[k] = {} /\ k \in DOMAIN findings
    BY Here DEF Busy, Asking, Working, IInv, Typed
  <1> QED BY <1>1 DEF Asking, AtOwn, IInv, Typed, CutTold

LEMMA AsItWasFair ==
  ASSUME NEW f, f.confirmed \in BOOLEAN, NEW A, NEW how \in {"tried", "failed", "skipped"}
  PROVE  AsItWas(f, how) \in Outcomes /\ Fair(f, A, AsItWas(f, how))
  BY DEF AsItWas, Outcomes, Fair

LEMMA ReproducedFair ==
  ASSUME NEW f, ~f.confirmed, NEW A, Shown(f, A), NEW r \in {"scan", "fresh", "union"},
         r = "union" => [to |-> "extract", said |-> 1] \in A,
         r = "fresh" => [to |-> "once", said |-> 1] \in A
  PROVE  Reproduced(r) \in Outcomes /\ Fair(f, A, Reproduced(r))
  BY DEF Reproduced, Outcomes, Fair

LEMMA NotReproducedFair ==
  ASSUME NEW f, ~f.confirmed, NEW A, Against(f, A)
  PROVE  NotReproduced \in Outcomes /\ Fair(f, A, NotReproduced)
  BY DEF NotReproduced, Outcomes, Fair
-----------------------------------------------------------------------------
LEMMA GateKeeps ==
  ASSUME IInv, OutOfTime \/ Skip \/ CannotBuild
  PROVE  IInv'
  <1>1. AtOwn
    BY OwnGate DEF OutOfTime, Skip, CannotBuild
  <1>2. PICK how \in {"tried", "failed", "skipped"} : Settle(AsItWas(Current, how))
    BY DEF OutOfTime, Skip, CannotBuild
  <1>3. Current = findings[k] /\ Current.confirmed \in BOOLEAN
    BY Here, <1>1 DEF AtOwn
  <1> QED BY <1>1, <1>2, <1>3, AsItWasFair, SettleKeeps

LEMMA BeginKeeps ==
  ASSUME IInv, Begin
  PROVE  IInv'
  <1>1. AtOwn /\ told'[k] = {} /\ Asking("next") /\ ~TurnedAway(Current)
    BY OwnGate DEF Begin
  <1>2. UNCHANGED <<k, outcomes, probe>> /\ step' = FirstRequest(Current)
    BY DEF Begin, GoTo
  <1>3. Current = findings[k] /\ probe = NoProbe
    BY <1>1, Here DEF Busy, Asking
  <1>4. step' \in Requests /\ probe' \in Probes
    BY <1>2 DEF IInv, Typed, FirstRequest, Requests
  <1>5. Busy(findings[k], told'[k], probe', step')
    BY <1>1, <1>2, <1>3 DEF Busy, FirstRequest, NoProbe
  <1> QED BY <1>1, <1>2, <1>4, <1>5, GoKeeps

LEMMA GiveUpKeeps ==
  ASSUME IInv, GiveUp
  PROVE  IInv'
  <1>1. PICK s \in {"once", "malformed", "sample", "replay"} : Asking(s)
    BY DEF GiveUp
  <1>2. Lost /\ Settle(AsItWas(Current, "failed"))
    BY DEF GiveUp
  <1>3. 0 \in 0..MaxLen /\ s \in Requests
    BY AttackAssumption DEF Requests
  <1>4. AtOwn
    BY <1>1, <1>2, <1>3, OwnStep
  <1>5. Current = findings[k] /\ Current.confirmed \in BOOLEAN
    BY Here, <1>4 DEF AtOwn
  <1> QED BY <1>2, <1>4, <1>5, AsItWasFair, SettleKeeps

\* One request, one verdict; the request that showed the flaw may go into the file.
LEMMA VerdictKeeps ==
  ASSUME IInv, NEW check \in AskOnce, NEW shown \in {"scan", "fresh"}, Verdict(check, shown)
  PROVE  IInv'
  <1>1. PICK said \in 0..1 :
          /\ Answered(said)
          /\ Settle(IF said = 1 THEN Reproduced(shown) ELSE NotReproduced)
    BY DEF Verdict
  <1>2. Asking("once") /\ Current.check = check
    BY DEF Verdict
  <1>3. said \in 0..MaxLen /\ "once" \in Requests
    BY AttackAssumption DEF Requests
  <1>4. AtOwn
    BY <1>1, <1>2, <1>3, OwnStep
  <1>5. Current = findings[k] /\ ~Current.confirmed /\ told[k] = {} /\ step = "once" /\ k \in DOMAIN findings
    BY <1>2, <1>4, Here DEF Busy, Asking, Working, IInv, Typed
  <1>6. told'[k] = {[to |-> "once", said |-> said]}
    BY <1>1, <1>5 DEF Answered, IInv, Typed
  <1>7. CASE said = 1
    <2>1. Shown(Current, told'[k]) /\ [to |-> "once", said |-> 1] \in told'[k]
      BY <1>2, <1>6, <1>7 DEF Shown, AskOnce
    <2>2. Reproduced(shown) \in Outcomes /\ Fair(Current, told'[k], Reproduced(shown))
      BY <1>5, <2>1, ReproducedFair
    <2> QED BY <1>1, <1>4, <1>5, <1>7, <2>2, SettleKeeps
  <1>8. CASE said # 1
    <2>1. said = 0
      BY <1>8
    <2>2. Against(Current, told'[k])
      BY <1>2, <1>6, <2>1 DEF Against, AskOnce
    <2>3. NotReproduced \in Outcomes /\ Fair(Current, told'[k], NotReproduced)
      BY <1>5, <2>2, NotReproducedFair
    <2> QED BY <1>1, <1>4, <1>5, <1>8, <2>3, SettleKeeps
  <1> QED BY <1>7, <1>8

LEMMA MalformedKeeps ==
  ASSUME IInv, Malformed
  PROVE  IInv'
  <1>1. PICK leaks \in 0..1 :
          /\ Answered(leaks)
          /\ IF leaks = 1 THEN GoTo("benign") /\ UNCHANGED probe
                          ELSE Settle(NotReproduced)
    BY DEF Malformed
  <1>2. Asking("malformed") /\ leaks \in 0..MaxLen /\ "malformed" \in Requests
    BY AttackAssumption DEF Malformed, Requests
  <1>3. AtOwn
    BY <1>1, <1>2, OwnStep
  <1>4. /\ Current = findings[k] /\ ~Current.confirmed /\ ~TurnedAway(Current)
        /\ told[k] = {} /\ Current.check = "verbose-errors"
        /\ step = "malformed" /\ k \in DOMAIN findings
    BY <1>2, <1>3, Here DEF Busy, Asking, Working, IInv, Typed
  <1>5. told'[k] = {[to |-> "malformed", said |-> leaks]}
    BY <1>1, <1>4 DEF Answered, IInv, Typed
  <1>6. CASE leaks = 1
    <2>1. UNCHANGED <<k, outcomes, probe>> /\ step' = "benign" /\ probe' \in Probes
      BY <1>1, <1>6 DEF GoTo, IInv, Typed
    <2>2. step' \in Requests
      BY <2>1 DEF Requests
    <2>3. TurnedAway(findings[k]) = TurnedAway(Current)
      BY <1>4
    <2>4. Busy(findings[k], told'[k], probe', step')
      BY <1>4, <1>5, <1>6, <2>1, <2>3 DEF Busy
    <2> QED BY <1>3, <2>1, <2>2, <2>4, GoKeeps
  <1>7. CASE leaks # 1
    <2>1. leaks = 0
      BY <1>7
    <2>2. Against(Current, told'[k])
      BY <1>4, <1>5, <2>1 DEF Against
    <2>3. NotReproduced \in Outcomes /\ Fair(findings[k], told'[k], NotReproduced)
      BY <1>4, <2>2, NotReproducedFair
    <2> QED BY <1>1, <1>3, <1>7, <2>3, SettleKeeps
  <1> QED BY <1>6, <1>7

\* What the benign request ends in: it was answered, or its answer is missing.
LEMMA BenignEnds ==
  ASSUME IInv, Asking("benign"), NEW leaks \in 0..1, NEW o, Settle(o),
         \/ Answered(leaks) /\ o = IF leaks = 0 THEN Reproduced("scan") ELSE NotReproduced
         \/ (Lost \/ UNCHANGED <<told, cut>>) /\ o = Reproduced("scan")
  PROVE  IInv'
  <1>1. leaks \in 0..MaxLen /\ "benign" \in Requests
    BY AttackAssumption DEF Requests
  <1>2. AtOwn
    BY <1>1, OwnStep
  <1>3. /\ Current = findings[k] /\ ~Current.confirmed
        /\ told[k] = {[to |-> "malformed", said |-> 1]} /\ Current.check = "verbose-errors"
        /\ step = "benign" /\ k \in DOMAIN findings
    BY <1>2, Here DEF Busy, Asking, Working, IInv, Typed
  <1>4. CASE Answered(leaks) /\ o = IF leaks = 0 THEN Reproduced("scan") ELSE NotReproduced
    <2>1. told'[k] = told[k] \cup {[to |-> "benign", said |-> leaks]}
      BY <1>3, <1>4 DEF Answered, IInv, Typed
    <2>2. CASE leaks = 0
      <3>1. Shown(Current, told'[k])
        BY <1>3, <2>1, <2>2 DEF Shown
      <3>2. o \in Outcomes /\ Fair(Current, told'[k], o)
        BY <1>3, <1>4, <2>2, <3>1, ReproducedFair
      <3> QED BY <1>2, <1>3, <3>2, SettleKeeps
    <2>3. CASE leaks = 1
      <3>1. Against(Current, told'[k])
        BY <1>3, <2>1, <2>3 DEF Against
      <3>2. o \in Outcomes /\ Fair(Current, told'[k], o)
        BY <1>3, <1>4, <2>3, <3>1, NotReproducedFair
      <3> QED BY <1>2, <1>3, <3>2, SettleKeeps
    <2> QED BY <2>2, <2>3
  <1>5. CASE (Lost \/ UNCHANGED <<told, cut>>) /\ o = Reproduced("scan")
    <2>1. told'[k] = told[k]
      BY <1>5 DEF Lost
    <2>2. Shown(Current, told'[k])
      BY <1>3, <2>1 DEF Shown
    <2>3. o \in Outcomes /\ Fair(Current, told'[k], o)
      BY <1>3, <1>5, <2>2, ReproducedFair
    <2> QED BY <1>2, <1>3, <2>3, SettleKeeps
  <1> QED BY <1>4, <1>5

LEMMA BenignKeeps ==
  ASSUME IInv, Benign \/ NoBenign
  PROVE  IInv'
  <1>1. CASE Benign
    <2>1. PICK leaks \in 0..1 :
            Answered(leaks) /\ Settle(IF leaks = 0 THEN Reproduced("scan") ELSE NotReproduced)
      BY <1>1 DEF Benign
    <2>2. Asking("benign")
      BY <1>1 DEF Benign
    <2> QED BY <2>1, <2>2, BenignEnds
  <1>2. CASE NoBenign
    <2>1. Lost \/ UNCHANGED <<told, cut>>
      BY <1>2 DEF NoBenign
    <2>2. Asking("benign") /\ Settle(Reproduced("scan"))
      BY <1>2 DEF NoBenign
    <2>3. 0 \in 0..1
      OBVIOUS
    <2> QED BY <2>1, <2>2, <2>3, BenignEnds
  <1> QED BY <1>1, <1>2
-----------------------------------------------------------------------------
\* After a sample the range holds it and all before it.
LEMMA MeasuredHolds ==
  ASSUME NEW p \in Probes, NEW len \in 0..MaxLen
  PROVE  LET q == Measured(p, len) IN
         /\ q \in Probes /\ q.tries > 0
         /\ q.low <= len /\ len <= q.high /\ q.low <= q.last /\ q.last <= q.high
         /\ p.tries > 0 => q.low <= p.low /\ p.high <= q.high
         /\ q.last = len
         /\ {q.low, q.high} \subseteq IF p.tries = 0 THEN {len} ELSE {p.low, p.high, len}
  <1> USE AttackAssumption
  <1>1. /\ p.low \in 0..MaxLen /\ p.high \in 0..MaxLen /\ p.tries \in Nat
    BY DEF Probes
  <1>2. /\ Measured(p, len).low = IF p.tries = 0 THEN len ELSE AtMost(p.low, len)
        /\ Measured(p, len).high = IF p.tries = 0 THEN len ELSE AtLeast(p.high, len)
        /\ Measured(p, len).last = len /\ Measured(p, len).tries = p.tries + 1
    BY DEF Measured
  <1>3. Measured(p, len).low \in 0..MaxLen /\ Measured(p, len).high \in 0..MaxLen
    BY <1>1, <1>2 DEF AtMost, AtLeast
  <1>4. Measured(p, len) \in Probes
    BY <1>1, <1>2, <1>3 DEF Probes, Measured
  <1> QED BY <1>1, <1>2, <1>4 DEF AtMost, AtLeast

LEMMA SampleKeeps ==
  ASSUME IInv, Sample
  PROVE  IInv'
  <1>1. PICK len \in 0..MaxLen : Answered(len) /\ probe' = Measured(probe, len)
    BY DEF Sample
  <1>2. /\ Asking("sample") /\ "sample" \in Requests /\ UNCHANGED <<k, outcomes>>
        /\ step' \in {"replay", "sample"}
    BY DEF Sample, GoTo, Requests
  <1>3. AtOwn
    BY <1>1, <1>2, OwnStep
  <1>4. /\ Current = findings[k] /\ ~TurnedAway(Current) /\ Busy(Current, told[k], probe, "sample")
        /\ step = "sample" /\ k \in DOMAIN findings /\ told[k] \subseteq Answers /\ probe \in Probes
    BY <1>2, <1>3, Here DEF Asking, Working, IInv, Typed
  <1>5. told'[k] = told[k] \cup {[to |-> "sample", said |-> len]}
    BY <1>1, <1>4 DEF Answered, IInv, Typed
  <1>6. /\ probe' \in Probes /\ probe'.tries > 0
        /\ probe'.low <= len /\ len <= probe'.high
        /\ probe'.low <= probe'.last /\ probe'.last <= probe'.high
        /\ probe.tries > 0 => probe'.low <= probe.low /\ probe.high <= probe'.high
        /\ probe'.last = len
        /\ {probe'.low, probe'.high} \subseteq
             IF probe.tries = 0 THEN {len} ELSE {probe.low, probe.high, len}
    BY <1>1, <1>4, MeasuredHolds
  <1>7. \A a \in told'[k] : a.to = "sample" /\ probe'.low <= a.said /\ a.said <= probe'.high
    <2> SUFFICES ASSUME NEW a \in told'[k]
                 PROVE  a.to = "sample" /\ probe'.low <= a.said /\ a.said <= probe'.high
      OBVIOUS
    <2>1. CASE a \in told[k]
      <3>1. a.to = "sample" /\ probe.low <= a.said /\ a.said <= probe.high /\ told[k] # {}
        BY <1>4, <2>1 DEF Busy
      <3>2. probe.tries > 0
        BY <1>4, <3>1 DEF Busy, Probes
      <3>3. /\ a.said \in Int /\ probe.low \in Int /\ probe.high \in Int
            /\ probe'.low \in Int /\ probe'.high \in Int
        BY <1>4, <1>6, <2>1, AttackAssumption DEF Answers, Probes
      <3> QED BY <1>6, <3>1, <3>2, <3>3
    <2>2. CASE a = [to |-> "sample", said |-> len]
      BY <1>6, <2>2
    <2> QED BY <1>5, <2>1, <2>2
  <1>8. Current.check = "sqli-boolean"
    BY <1>4 DEF Busy
  <1>9. probe'.tries # 0
    BY <1>6
  <1>10. \A n \in {probe'.low, probe'.high, probe'.last} : [to |-> "sample", said |-> n] \in told'[k]
    <2>1. [to |-> "sample", said |-> len] \in told'[k]
      BY <1>5
    <2>2. probe.tries # 0 => /\ [to |-> "sample", said |-> probe.low] \in told'[k]
                             /\ [to |-> "sample", said |-> probe.high] \in told'[k]
      <3>1. probe.tries # 0 => probe.tries > 0
        BY <1>4 DEF Probes
      <3> QED BY <1>4, <1>5, <3>1 DEF Busy
    <2> QED BY <1>6, <2>1, <2>2
  <1>12. Busy(Current, told'[k], probe', step')
    BY <1>2, <1>4, <1>6, <1>7, <1>8, <1>9, <1>10 DEF Busy
  <1>11. step' \in Requests
    BY <1>2 DEF Requests
  <1> QED BY <1>2, <1>3, <1>4, <1>6, <1>12, <1>11, GoKeeps

\* A distance from one end of the range larger than the range leads out of it.
LEMMA OutOfRange ==
  ASSUME NEW p \in Probes, NEW len \in 0..MaxLen,
         p.low <= p.last, p.last <= p.high, Distance(len, p.last) > p.high - p.low
  PROVE  len > p.high \/ len < p.low
  <1>1. p.low \in Int /\ p.high \in Int /\ p.last \in Int /\ len \in Int
    BY AttackAssumption DEF Probes
  <1> QED BY <1>1 DEF Distance

\* And one that is not larger is no larger than that between its two ends.
LEMMA InRange ==
  ASSUME NEW low \in 0..MaxLen, NEW high \in 0..MaxLen, NEW last \in 0..MaxLen, NEW len \in 0..MaxLen,
         low <= last, last <= high, ~(Distance(len, last) > high - low)
  PROVE  Distance(len, last) <= Distance(high, low)
  <1>1. low \in Int /\ high \in Int /\ last \in Int /\ len \in Int
    BY AttackAssumption
  <1> QED BY <1>1 DEF Distance

LEMMA ReplayKeeps ==
  ASSUME IInv, Replay
  PROVE  IInv'
  <1>1. PICK len \in 0..MaxLen :
          /\ Answered(len)
          /\ IF Distance(len, probe.last) > probe.high - probe.low
             THEN GoTo("union") /\ probe' = NoProbe
             ELSE Settle(NotReproduced)
    BY DEF Replay
  <1>2. Asking("replay") /\ "replay" \in Requests
    BY DEF Replay, Requests
  <1>3. AtOwn
    BY <1>1, <1>2, OwnStep
  <1>4. /\ Current = findings[k] /\ ~TurnedAway(Current) /\ ~Current.confirmed
        /\ Busy(Current, told[k], probe, "replay")
        /\ step = "replay" /\ k \in DOMAIN findings /\ told[k] \subseteq Answers /\ probe \in Probes
    BY <1>2, <1>3, Here DEF Asking, Working, IInv, Typed
  <1>5. told'[k] = told[k] \cup {[to |-> "replay", said |-> len]}
    BY <1>1, <1>4 DEF Answered, IInv, Typed
  <1>6. CASE Distance(len, probe.last) > probe.high - probe.low
    <2>1. UNCHANGED <<k, outcomes>> /\ step' = "union" /\ probe' = NoProbe
      BY <1>1, <1>6 DEF GoTo
    <2>2. step' \in Requests /\ probe' \in Probes
      BY <2>1, AttackAssumption DEF Requests, Probes, NoProbe
    <2>3. probe.low <= probe.last /\ probe.last <= probe.high /\ Current.check = "sqli-boolean"
      BY <1>4 DEF Busy, Probes
    <2>4. len > probe.high \/ len < probe.low
      BY <1>4, <1>6, <2>3, OutOfRange
    <2>5. \A m \in 0..MaxLen : [to |-> "sample", said |-> m] \in told'[k] => probe.low <= m /\ m <= probe.high
      <3> SUFFICES ASSUME NEW m \in 0..MaxLen, [to |-> "sample", said |-> m] \in told'[k]
                   PROVE  probe.low <= m /\ m <= probe.high
        OBVIOUS
      <3>1. [to |-> "sample", said |-> m] \in told[k]
        BY <1>5
      <3>2. \A a \in told[k] : probe.low <= a.said /\ a.said <= probe.high
        BY <1>4 DEF Busy
      <3> QED BY <3>1, <3>2
    <2>6. \/ \A m \in 0..MaxLen : [to |-> "sample", said |-> m] \in told'[k] => len < m
          \/ \A m \in 0..MaxLen : [to |-> "sample", said |-> m] \in told'[k] => len > m
      <3>1. probe.low \in Int /\ probe.high \in Int /\ MaxLen \in Int
        BY <1>4, AttackAssumption DEF Probes
      <3> QED BY <2>4, <2>5, <3>1
    <2>7. Shown(Current, told'[k])
      BY <1>5, <2>3, <2>6 DEF Shown
    <2>8. Busy(Current, told'[k], probe', step')
      BY <1>4, <2>1, <2>3, <2>7 DEF Busy
    <2> QED BY <1>3, <1>4, <2>1, <2>2, <2>8, GoKeeps
  <1>7. CASE ~(Distance(len, probe.last) > probe.high - probe.low)
    <2>1. /\ probe.low \in 0..MaxLen /\ probe.high \in 0..MaxLen /\ probe.last \in 0..MaxLen
          /\ probe.tries > 0 /\ probe.low <= probe.last /\ probe.last <= probe.high
          /\ \A n \in {probe.low, probe.high, probe.last} : [to |-> "sample", said |-> n] \in told[k]
          /\ Current.check = "sqli-boolean"
      BY <1>4 DEF Busy, Probes
    <2>2. Distance(len, probe.last) <= Distance(probe.high, probe.low)
      BY <1>7, <2>1, InRange
    <2>3. /\ [to |-> "replay", said |-> len] \in told'[k]
          /\ [to |-> "sample", said |-> probe.last] \in told'[k]
          /\ [to |-> "sample", said |-> probe.high] \in told'[k]
          /\ [to |-> "sample", said |-> probe.low] \in told'[k]
      BY <1>5, <2>1
    <2>4. Against(Current, told'[k])
      BY <2>1, <2>2, <2>3 DEF Against
    <2>5. NotReproduced \in Outcomes /\ Fair(findings[k], told'[k], NotReproduced)
      BY <1>4, <2>4, NotReproducedFair
    <2> QED BY <1>1, <1>3, <1>7, <2>5, SettleKeeps
  <1> QED BY <1>6, <1>7
-----------------------------------------------------------------------------
\* What is heard after the replay does not touch what the samples and it have shown.
LEMMA StillShown ==
  ASSUME NEW f, NEW A, NEW to, NEW said, f.check = "sqli-boolean", Shown(f, A),
         to \in {"union", "extract"}
  PROVE  Shown(f, A \cup {[to |-> to, said |-> said]})
  <1>1. \A m \in 0..MaxLen :
          [to |-> "sample", said |-> m] \in A \cup {[to |-> to, said |-> said]}
            => [to |-> "sample", said |-> m] \in A
    OBVIOUS
  <1> QED BY <1>1 DEF Shown

\* A guess of the extraction: heard or lost, it leaves the verdict as it was.
LEMMA Guessed ==
  ASSUME IInv, NEW s \in {"union", "extract"}, Asking(s),
         NEW said \in 0..1, Answered(said) \/ Lost
  PROVE  /\ AtOwn /\ Current = findings[k] /\ ~Current.confirmed /\ ~TurnedAway(Current)
         /\ Current.check = "sqli-boolean" /\ Shown(Current, told'[k])
         /\ Answered(said) => [to |-> s, said |-> said] \in told'[k]
         /\ probe \in Probes
  <1>1. s \in Requests /\ said \in 0..MaxLen
    BY AttackAssumption DEF Requests
  <1>2. AtOwn
    BY <1>1, OwnStep
  <1>3. /\ Current = findings[k] /\ ~Current.confirmed /\ ~TurnedAway(Current)
        /\ Current.check = "sqli-boolean" /\ Shown(Current, told[k])
        /\ step = s /\ k \in DOMAIN findings /\ probe \in Probes
    BY <1>1, <1>2, Here DEF Busy, Asking, Working, IInv, Typed, Requests
  <1>4. CASE Answered(said)
    <2>1. told'[k] = told[k] \cup {[to |-> s, said |-> said]}
      BY <1>3, <1>4 DEF Answered, IInv, Typed
    <2>2. Shown(Current, told[k] \cup {[to |-> s, said |-> said]})
      BY <1>3, StillShown
    <2>3. Shown(Current, told'[k]) /\ [to |-> s, said |-> said] \in told'[k]
      BY <2>1, <2>2
    <2> QED BY <1>2, <1>3, <2>3
  <1>5. CASE Lost /\ ~Answered(said)
    <2>1. told'[k] = told[k]
      BY <1>5 DEF Lost
    <2> QED BY <1>2, <1>3, <1>5, <2>1
  <1> QED BY <1>4, <1>5

LEMMA MissedKeeps ==
  ASSUME IInv, NEW s \in {"union", "extract"}, NEW most, Asking(s), Missed(s, most)
  PROVE  IInv'
  <1>1. (Answered(0) \/ Lost) /\ NextTry(probe.tries, s, most)
    BY DEF Missed
  <1>2. 0 \in 0..1
    OBVIOUS
  <1>3. /\ AtOwn /\ Current = findings[k] /\ ~TurnedAway(Current)
        /\ ~Current.confirmed /\ Current.check = "sqli-boolean" /\ Shown(Current, told'[k])
        /\ probe \in Probes
    BY <1>1, <1>2, Guessed
  <1>4. CASE probe.tries + 1 < most
    <2>1. UNCHANGED <<k, outcomes>> /\ step' = s /\ probe' = [probe EXCEPT !.tries = probe.tries + 1]
      BY <1>1, <1>4 DEF NextTry, GoTo
    <2>2. probe' \in Probes /\ step' \in Requests
      BY <1>3, <2>1 DEF Probes, Requests
    <2>3. Busy(Current, told'[k], probe', step')
      BY <1>3, <2>1 DEF Busy
    <2> QED BY <1>3, <2>1, <2>2, <2>3, GoKeeps
  <1>5. CASE ~(probe.tries + 1 < most)
    <2>1. Settle(Reproduced("scan"))
      BY <1>1, <1>5 DEF NextTry
    <2>2. /\ Reproduced("scan") \in Outcomes
          /\ Fair(findings[k], told'[k], Reproduced("scan"))
      BY <1>3, ReproducedFair
    <2> QED BY <1>3, <2>1, <2>2, SettleKeeps
  <1> QED BY <1>4, <1>5

LEMMA UnionKeeps ==
  ASSUME IInv, Union
  PROVE  IInv'
  <1>1. Asking("union")
    BY DEF Union
  <1>2. CASE Answered(1) /\ GoTo("extract") /\ probe' = NoProbe
    <2>1. 1 \in 0..1
      OBVIOUS
    <2>2. /\ AtOwn /\ Current = findings[k] /\ ~TurnedAway(Current)
          /\ Current.check = "sqli-boolean" /\ Shown(Current, told'[k])
      BY <1>1, <1>2, <2>1, Guessed
    <2>3. UNCHANGED <<k, outcomes>> /\ step' = "extract" /\ probe' = NoProbe
      BY <1>2 DEF GoTo
    <2>4. step' \in Requests /\ probe' \in Probes
      BY <2>3, AttackAssumption DEF Requests, Probes, NoProbe
    <2>5. Busy(Current, told'[k], probe', step')
      BY <2>2, <2>3 DEF Busy
    <2> QED BY <2>2, <2>3, <2>4, <2>5, GoKeeps
  <1> QED BY <1>1, <1>2, MissedKeeps DEF Union

LEMMA ExtractKeeps ==
  ASSUME IInv, Extract
  PROVE  IInv'
  <1>1. Asking("extract")
    BY DEF Extract
  <1>2. CASE Answered(1) /\ Settle(Reproduced("union"))
    <2>1. 1 \in 0..1
      OBVIOUS
    <2>2. /\ AtOwn /\ Current = findings[k] /\ ~Current.confirmed /\ Shown(Current, told'[k])
          /\ [to |-> "extract", said |-> 1] \in told'[k]
      BY <1>1, <1>2, <2>1, Guessed
    <2>3. /\ Reproduced("union") \in Outcomes
          /\ Fair(findings[k], told'[k], Reproduced("union"))
      BY <2>2, ReproducedFair
    <2> QED BY <1>2, <2>2, <2>3, SettleKeeps
  <1> QED BY <1>1, <1>2, MissedKeeps DEF Extract
-----------------------------------------------------------------------------
LEMMA StartKeeps ==
  ASSUME IInv, Refuse \/ NothingToAttack \/ Start
  PROVE  IInv'
  <1> USE DEF IInv
  <1>1. /\ stage = "start" /\ stage' \in {"refused", "written", "attack"}
        /\ UNCHANGED <<findings, optIn, k, step, probe, outcomes, told, cancelled, cut>>
    BY DEF Refuse, NothingToAttack, Start
  <1>2. Typed' /\ Unstarted' /\ Untold' /\ CutTold'
    BY <1>1 DEF Typed, Stages, Unstarted, Untold, CutTold
  <1>3. Settled'
    BY <1>1 DEF Settled, Fair, Shown, Against
  <1>4. HandsOff' /\ NoVerdictCutShort'
    BY <1>1 DEF HandsOff, NoVerdictCutShort, Unstarted
  <1>5. AtWork'
    <2> SUFFICES ASSUME Working' PROVE Busy(findings[k], told[k], probe, step)
      BY <1>1 DEF AtWork, Busy, TurnedAway, Shown
    <2>1. k \in DOMAIN findings
      BY <1>1 DEF Working, Typed
    <2> QED BY <1>1, <2>1 DEF Unstarted, Busy
  <1>6. FileAnswersFindings'
    <2> SUFFICES ASSUME stage' = "written" PROVE file' = NoFile /\ findings = << >>
      BY <1>1 DEF FileAnswersFindings, NoFile
    <2> QED BY DEF Refuse, NothingToAttack, Start
  <1> QED BY <1>2, <1>3, <1>4, <1>5, <1>6

\* The file holds the outcomes, and the outcomes answer the findings.
LEMMA FinishKeeps ==
  ASSUME IInv, Finish
  PROVE  IInv'
  <1> USE DEF IInv
  <1>1. /\ stage = "attack" /\ k > Len(findings) /\ stage' \in {"written", "refused"}
        /\ UNCHANGED <<findings, optIn, k, step, probe, outcomes, told, cancelled, squeezed, cut>>
        /\ stage' = "written" => ~cancelled /\ file' = [coverage |-> TRUE, findings |-> AllAttacked]
    BY DEF Finish
  <1>2. Typed' /\ Unstarted' /\ Untold' /\ CutTold' /\ NoVerdictCutShort'
    BY <1>1 DEF Typed, Stages, Unstarted, Untold, CutTold, NoVerdictCutShort
  <1>3. Settled' /\ HandsOff' /\ AtWork'
    BY <1>1 DEF Settled, Fair, Shown, Against, HandsOff, AtWork, Working
  <1>4. FileAnswersFindings'
    <2> DEFINE Answers1(j, f) ==
                 /\ f.finding = [findings[j] EXCEPT !.confirmed = @ \/ f.evidence = "reproduced"]
                 /\ f.evidence # "scan" => ~findings[j].confirmed
                 /\ f.evidence = "not reproduced" => Against(findings[j], told[j])
                 /\ f.request # "scan" => f.evidence = "reproduced"
    <2>a. \A j \in DOMAIN findings : Denied(j)' <=> Against(findings[j], told[j])
      BY <1>1 DEF Denied, Against, Heard
    <2>b. stage' = "written" => file'.findings = AllAttacked
      BY <1>1
    <2> SUFFICES ASSUME stage' = "written"
                 PROVE  /\ Len(AllAttacked) = Len(findings)
                        /\ \A j \in DOMAIN findings : Answers1(j, AllAttacked[j])
      BY <1>1, <2>a, <2>b DEF FileAnswersFindings
    <2>1. DOMAIN findings = 1..Len(findings) /\ DOMAIN outcomes = DOMAIN findings /\ Len(findings) \in Nat
      BY <1>1 DEF Typed
    <2>2. Len(AllAttacked) = Len(findings)
      BY <2>1 DEF AllAttacked
    <2>3. ASSUME NEW j \in DOMAIN findings
          PROVE  Answers1(j, AllAttacked[j])
      <3>1. /\ AllAttacked[j].finding = [findings[j] EXCEPT !.confirmed = outcomes[j].confirmed]
            /\ AllAttacked[j].request = outcomes[j].request
            /\ AllAttacked[j].evidence = outcomes[j].evidence
        BY DEF AllAttacked
      <3>2. findings[j] \in Shapes /\ outcomes[j] \in Outcomes
        BY <2>1 DEF Typed
      <3>3. findings[j].confirmed \in BOOLEAN /\ outcomes[j].confirmed \in BOOLEAN
        BY <3>2, AttackAssumption DEF Outcomes
      <3>4. Fair(findings[j], told[j], outcomes[j])
        BY <2>1 DEF Settled
      <3>5. outcomes[j].confirmed = (findings[j].confirmed \/ outcomes[j].evidence = "reproduced")
        BY <3>3, <3>4, Zenon DEF Fair
      <3> QED BY <3>1, <3>4, <3>5 DEF Fair
    <2> QED BY <2>2, <2>3
  <1> QED BY <1>2, <1>3, <1>4

LEMMA ElseKeeps ==
  ASSUME IInv, Cancel \/ Squeeze \/ UNCHANGED vars
  PROVE  IInv'
  <1> USE DEF IInv
  <1>1. /\ UNCHANGED <<findings, optIn, stage, k, step, probe, outcomes, told, cut, file>>
        /\ cancelled => cancelled'
    BY DEF Cancel, Squeeze, vars
  <1>2. Typed' /\ Unstarted' /\ Untold' /\ CutTold' /\ NoVerdictCutShort'
    BY <1>1 DEF Typed, Unstarted, Untold, CutTold, NoVerdictCutShort
  <1>3. Settled' /\ HandsOff'
    BY <1>1 DEF Settled, Fair, Shown, Against, HandsOff
  <1>4. FileAnswersFindings'
    <2>1. \A j \in DOMAIN findings : Denied(j)' <=> Denied(j)
      BY <1>1 DEF Denied, Heard
    <2> QED BY <1>1, <2>1 DEF FileAnswersFindings
  <1>5. AtWork'
    BY <1>1 DEF AtWork, Working, Busy, TurnedAway, Shown
  <1> QED BY <1>2, <1>3, <1>4, <1>5
-----------------------------------------------------------------------------
LEMMA InitHolds == Init => IInv
  <1> SUFFICES ASSUME Init PROVE IInv
    OBVIOUS
  <1>1. findings \in Seq(Shapes)
    <2>1. PICK m \in 0..MaxFindings : findings \in [1..m -> Shapes]
      BY DEF Init
    <2>2. m \in Nat
      BY AttackAssumption
    <2> QED BY <2>1, <2>2, SeqDef
  <1>2. NoProbe \in Probes /\ 1 \in Nat
    BY AttackAssumption DEF NoProbe, Probes
  <1>3. outcomes = << >> /\ Len(outcomes) = 0 /\ outcomes \in Seq(Outcomes) /\ Len(findings) \in Nat
    BY <1>1 DEF Init
  <1>4. told \in [DOMAIN findings -> SUBSET Answers]
    BY DEF Init
  <1>5. Typed
    BY <1>1, <1>2, <1>3, <1>4 DEF Init, Typed, Stages
  <1>6. Unstarted /\ AtWork /\ Untold /\ CutTold
    BY DEF Init, Unstarted, AtWork, Working, Untold, CutTold
  <1>7. Settled /\ HandsOff /\ FileAnswersFindings /\ NoVerdictCutShort
    BY <1>3 DEF Init, Settled, HandsOff, FileAnswersFindings, NoVerdictCutShort
  <1> QED BY <1>5, <1>6, <1>7 DEF IInv

LEMMA StepKeeps == IInv /\ [Next]_vars => IInv'
  <1> SUFFICES ASSUME IInv, [Next]_vars PROVE IInv'
    OBVIOUS
  <1>1. CASE Advance
    <2>1. CASE Reflected \/ Open \/ Redirected
      BY <2>1, VerdictKeeps DEF Reflected, Open, Redirected, AskOnce
    <2> QED BY <1>1, <2>1, StartKeeps, GateKeeps, BeginKeeps, GiveUpKeeps, MalformedKeeps, BenignKeeps,
               SampleKeeps, ReplayKeeps, UnionKeeps, ExtractKeeps, FinishKeeps DEF Advance
  <1>2. CASE Cancel \/ Squeeze \/ Exited \/ UNCHANGED vars
    BY <1>2, ElseKeeps DEF Exited
  <1> QED BY <1>1, <1>2 DEF Next

\* What each finding's confirmer has heard, and what its outcome rests on.
THEOREM InductiveInvariant == Spec => []IInv
  BY InitHolds, StepKeeps, PTL DEF Spec

\* attack.go:38-42: nothing is confirmed on less than a reproduced result, however
\* many samples are taken and however long the bodies are.
THEOREM NothingUnproven == Spec => []ConfirmedIsReproduced
  <1>1. IInv => ConfirmedIsReproduced
    BY DEF IInv, Settled, Fair, Shown, Against, ConfirmedIsReproduced, Heard
  <1> QED BY <1>1, InductiveInvariant, PTL

\* A request in the report that is not the scan's has shown the flaw in this run.
THEOREM RequestsShow == Spec => []ReportedRequestShows
  <1>1. IInv => ReportedRequestShows
    BY DEF IInv, Settled, Fair, ReportedRequestShows, Heard
  <1> QED BY <1>1, InductiveInvariant, PTL

\* attack.go:132: no request for a destructive route without the opt-in.
THEOREM GateHolds == Spec => []HandsOff
  <1>1. IInv => HandsOff
    BY DEF IInv
  <1> QED BY <1>1, InductiveInvariant, PTL

\* confirmed.json answers findings.json, one for one.
THEOREM FileAnswers == Spec => []FileAnswersFindings
  <1>1. IInv => FileAnswersFindings
    BY DEF IInv
  <1> QED BY <1>1, InductiveInvariant, PTL

\* A file that is written holds no verdict that the context cut short.
THEOREM NothingCutShort == Spec => []NoVerdictCutShort
  <1>1. IInv => NoVerdictCutShort
    BY DEF IInv
  <1> QED BY <1>1, InductiveInvariant, PTL
=============================================================================
