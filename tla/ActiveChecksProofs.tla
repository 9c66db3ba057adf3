------------------------ MODULE ActiveChecksProofs ------------------------
(***************************************************************************)
(* What an active check says of a route, proved for every number of        *)
(* parameters, payloads and samples and every length of a body: findings   *)
(* are shown by what the target answered, and gaps are admitted.           *)
(*                                                                         *)
(* Neither property is inductive.  A finding of sqli-boolean is shown by   *)
(* every benign sample taken before it, so the range that probe holds must *)
(* be that of the samples told (AtWork); a parameter is clean when a whole *)
(* pair was told for it, so the count of what was sent must be positive    *)
(* exactly then; and the outcome is right when each parameter that the     *)
(* sweep has left behind was judged by what it was told (Judged), and      *)
(* nothing was told of the others (Fresh).                                 *)
(***************************************************************************)
EXTENDS ActiveChecks, SequenceTheorems, TLAPS

Probes == [low : Nat, high : Nat, tries : Nat, n : 1..Tries, sent : Nat,
           len : 0..MaxLen, stored : SUBSET (1..Tries)]
Requests == {"sample", "true", "false", "benign", "marker", "malformed", "redirect"}
Answers == [to : Requests, n : Nat, said : 0..MaxLen]

Typed ==
  /\ check \in Sweeps \cup Singles \cup {"idor"} /\ params \in Seq(Kinds)
  /\ baseline \in {"none", "plain", "leaky"}
  /\ k \in Usable \cup {Len(params) + 1}
  /\ probe \in Probes
  /\ told \in [Positions -> SUBSET Answers]
  /\ found \subseteq Usable /\ untested \subseteq Usable
  /\ listed \in [first : Seq(Ids), second : Seq(Ids)]

\* Which stages a check goes through, and what it is given.
Staged ==
  /\ stage \in {"start", "sweep", "idor", "returned"}
  /\ check \in Sweeps => Injectable # {} /\ session = "none" /\ stage # "idor"
  /\ check \notin Sweeps => stage # "sweep"
  /\ stage = "idor" => check = "idor"
  /\ stage = "sweep" => Usable # {} /\ baseline # "none"
  /\ stage # "returned" => result = NoResult

\* Nothing is told of a parameter the sweep has not come to, or does not come to.
Fresh ==
  \A p \in Positions : p \notin Usable \/ p > k \/ stage = "start" => told[p] = {}

Behind == {p \in Usable : p < k}

\* Every parameter the sweep has left behind was judged by what it was told.
Judged ==
  /\ found \cup untested \subseteq Behind
  /\ \A p \in found : Shown(p)
  /\ \A p \in Behind : p \in untested <=> ~Exercised(p)

Unstarted ==
  stage = "start" =>
    /\ step = FirstRequest /\ probe = NoProbe
    /\ \A p \in Usable : k <= p

\* The samples told lie in the range measured.
InRange == \A m \in told[k] : m.to = "sample" => probe.low <= m.said /\ m.said <= probe.high

\* What the parameter at work was told, and what probe knows of it.
PairsAtWork ==
  /\ step \in {"sample", "true", "false"}
  /\ InRange /\ probe.low <= probe.high
  /\ step = "sample" =>
       /\ probe.n = 1 /\ probe.sent = 0
       /\ \A m \in told[k] : m.to = "sample"
       /\ probe.tries = 0 => told[k] = {}
  /\ step # "sample" =>
       /\ probe.sent > 0 <=> Exercised(k)
       /\ \A m \in told[k] : m.to = "false" => m.n < probe.n
  /\ step = "false" => Heard(k, "true", probe.n, probe.len)

MarkersAtWork ==
  /\ step \in {"benign", "marker"}
  /\ step = "benign" => told[k] = {} /\ probe.sent = 0 /\ probe.n = 1
  /\ step = "marker" => Heard(k, "benign", 1, 1) /\ (probe.sent > 0 <=> Exercised(k))

AtWork ==
  stage = "sweep" /\ k \in Usable =>
    /\ check = "sqli-boolean" => PairsAtWork
    /\ check = "xss-reflected" => MarkersAtWork
    /\ check = "verbose-errors" => step = "malformed" /\ told[k] = {}
    /\ check = "open-redirect" => step = "redirect" /\ told[k] = {}

\* A check that does not sweep asks its one question last.
Unheard == check \notin Sweeps /\ stage # "returned" => heard = {}

IInv ==
  /\ Typed /\ Staged /\ Unstarted /\ Unheard
  /\ check \in Sweeps => Fresh /\ Judged /\ AtWork
  /\ FindingsAreShown /\ GapsAreAdmitted
-----------------------------------------------------------------------------
(* The job does not change, and with it the parameters to sweep. *)

LEMMA JobStands ==
  ASSUME UNCHANGED Job
  PROVE  /\ Positions' = Positions /\ Injectable' = Injectable
         /\ HeldBack' = HeldBack /\ Usable' = Usable /\ FirstRequest' = FirstRequest
BY DEF Job, Positions, Injectable, HeldBack, Usable, FirstRequest

LEMMA UsableArePositions ==
  ASSUME Typed
  PROVE  /\ Len(params) \in Nat /\ Positions = 1..Len(params)
         /\ Injectable \subseteq Positions /\ Usable \subseteq Positions
         /\ k \in 1..Len(params) + 1
BY DEF Typed, Positions, Injectable, HeldBack, Usable

\* What is known of a parameter depends on what was told of it alone.
LEMMA SameTold ==
  ASSUME NEW p, UNCHANGED Job, told'[p] = told[p]
  PROVE  Shown(p)' = Shown(p) /\ Exercised(p)' = Exercised(p)
BY DEF Job, Shown, Exercised, Heard, HeardAny

LEMMA ShownWasExercised ==
  ASSUME NEW p, check \in Sweeps, Shown(p)
  PROVE  Exercised(p)
<1>0. 1 \in 0..MaxLen
  BY CheckAssumption
<1>1. CASE check = "sqli-boolean"
  BY <1>1 DEF Shown, Exercised, HeardAny
<1>2. CASE check # "sqli-boolean"
  BY <1>0, <1>2 DEF Shown, Exercised, HeardAny, Sweeps
<1> QED BY <1>1, <1>2

LEMMA ShownLater ==
  ASSUME NEW p, check \in Sweeps, UNCHANGED Job, Shown(p)'
  PROVE  Exercised(p)'
<1>0. 1 \in 0..MaxLen
  BY CheckAssumption
<1>1. check' = check
  BY DEF Job
<1>2. CASE check = "sqli-boolean"
  BY <1>1, <1>2 DEF Shown, Exercised, HeardAny
<1>3. CASE check # "sqli-boolean"
  BY <1>0, <1>1, <1>3 DEF Shown, Exercised, HeardAny, Sweeps
<1> QED BY <1>2, <1>3

LEMMA NothingToldNothingExercised ==
  ASSUME NEW p, told[p] = {}
  PROVE  ~Exercised(p)
BY DEF Exercised, HeardAny, Heard

\* The next parameter is the first one behind the one at work.
LEMMA NextIsFirst ==
  ASSUME Typed, k \in Usable, NextParameter, UNCHANGED Job
  PROVE  /\ k' \in Usable \cup {Len(params) + 1} /\ k' > k
         /\ \A p \in Usable : p < k' <=> p <= k
<1> DEFINE S == {p \in Usable : p > k}
<1>1. Usable \subseteq 1..Len(params) /\ Len(params) \in Nat /\ k \in 1..Len(params)
  BY UsableArePositions
<1>2. CASE S = {}
  <2>1. k' = Len(params) + 1
    BY <1>2 DEF NextParameter, Earliest
  <2> QED BY <1>1, <1>2, <2>1
<1>3. CASE S # {}
  <2>1. k' \in S /\ \A y \in S : k' <= y
    BY <1>3 DEF NextParameter, Earliest, Least
  <2> QED BY <1>1, <2>1
<1> QED BY <1>2, <1>3
-----------------------------------------------------------------------------
\* One more answer, to the parameter at work.
LEMMA AnswerTold ==
  ASSUME Typed, stage = "sweep", k \in Usable, NEW n \in Nat, NEW said \in 0..MaxLen,
         NEW s \in Requests, step = s, Answered(n, said), UNCHANGED Job
  PROVE  /\ told' \in [Positions -> SUBSET Answers]
         /\ told'[k] = told[k] \cup {[to |-> s, n |-> n, said |-> said]}
         /\ \A p \in Positions : p # k => told'[p] = told[p]
BY UsableArePositions DEF Typed, Answered, Answers

\* The verdict on c, the parameter at work.
Judgement(c) ==
  \/ found' = found \cup {c} /\ untested' = untested /\ Shown(c)'
  \/ found' = found /\ untested' = untested /\ Exercised(c)'
  \/ found' = found /\ untested' = untested \cup {c} /\ ~Exercised(c)'

Sweeping == stage = "sweep" /\ k \in Usable /\ UNCHANGED <<Job, stage, result, heard, listed>>

ToldAtWork ==
  /\ told' \in [Positions -> SUBSET Answers]
  /\ \A p \in Positions : p # k => told'[p] = told[p]

\* A parameter is judged, and the sweep goes on.
LEMMA JudgedKeeps ==
  ASSUME IInv, Sweeping, ToldAtWork, NextParameter, NEW c, c = k, Judgement(c)
  PROVE  IInv'
<1>1. UNCHANGED Job /\ check \in Sweeps /\ Typed /\ Staged
  BY DEF IInv, Sweeping, Staged, Job
<1>2. /\ Positions' = Positions /\ Injectable' = Injectable
      /\ Usable' = Usable /\ FirstRequest' = FirstRequest
  BY <1>1, JobStands
<1>3. Usable \subseteq Positions /\ Positions \subseteq Nat /\ k \in Nat /\ Len(params) \in Nat
  BY <1>1, UsableArePositions
<1>4. /\ k' \in Usable \cup {Len(params) + 1} /\ k' > k
      /\ \A p \in Usable : p < k' <=> p <= k
  BY <1>1, NextIsFirst DEF Sweeping
<1>5. k' \in Nat
  BY <1>3, <1>4
<1>6. Typed'
  <2>1. probe' \in Probes
    BY CheckAssumption DEF NextParameter, NoProbe, Probes
  <2>2. found' \subseteq Usable /\ untested' \subseteq Usable
    BY <1>1 DEF Typed, Judgement, Sweeping
  <2> QED BY <1>1, <1>2, <1>4, <2>1, <2>2 DEF Typed, Sweeping, Job, ToldAtWork
<1>7. Staged' /\ Unstarted' /\ Unheard'
  BY <1>1, <1>2 DEF Staged, Unstarted, Unheard, Sweeping, Job, NoResult
<1>8. Fresh'
  <2> SUFFICES ASSUME NEW p \in Positions, p \notin Usable \/ p > k'
               PROVE  told'[p] = {}
    BY <1>2 DEF Fresh, Sweeping
  <2>1. p # c /\ (p \notin Usable \/ p > k)
    BY <1>3, <1>4, <1>5 DEF Sweeping
  <2> QED BY <1>1, <2>1 DEF IInv, Fresh, ToldAtWork
<1>9. Judged'
  <2>1. Judged
    BY <1>1 DEF IInv
  <2>2. Behind' = Behind \cup {c}
    <3>1. \A p \in Usable : p \in Nat /\ (p < k' <=> p < k \/ p = c)
      BY <1>3, <1>4
    <3>2. c \in Usable
      BY DEF Sweeping
    <3>3. Behind' = {p \in Usable : p < k'}
      BY <1>2 DEF Behind
    <3> QED BY <3>1, <3>2, <3>3 DEF Behind
  <2>3. \A p \in Behind : p # c /\ p \in Positions
    BY <1>3 DEF Behind
  <2>4. \A p \in Behind : Shown(p)' = Shown(p) /\ Exercised(p)' = Exercised(p)
    BY <1>1, <2>3, SameTold DEF ToldAtWork
  <2>5. c \notin untested /\ c \notin found
    BY <2>1, <2>3 DEF Judged
  <2>6. Shown(c)' => Exercised(c)'
    BY <1>1, ShownLater
  <2>7. found' \cup untested' \subseteq Behind'
    BY <2>1, <2>2 DEF Judged, Judgement
  <2>8. \A p \in found' : Shown(p)'
    <3>1. \A p \in found : Shown(p)'
      BY <2>1, <2>4 DEF Judged
    <3> QED BY <3>1 DEF Judgement
  <2>9. \A p \in Behind' : p \in untested' <=> ~Exercised(p)'
    <3>1. \A p \in Behind : p \in untested <=> ~Exercised(p)'
      BY <2>1, <2>4 DEF Judged
    <3>2. \A p \in Behind : p # c
      BY <2>3
    <3>3. c \in untested' <=> ~Exercised(c)'
      BY <2>5, <2>6 DEF Judgement
    <3>4. \A p \in Behind : p \in untested' <=> p \in untested
      BY <3>2 DEF Judgement
    <3> QED BY <2>2, <3>1, <3>3, <3>4
  <2> QED BY <2>7, <2>8, <2>9 DEF Judged
<1>10. AtWork'
  <2> SUFFICES ASSUME k' \in Usable PROVE AtWork'
    BY <1>2 DEF AtWork
  <2>1. told'[k'] = {}
    BY <1>1, <1>2, <1>3, <1>4, <1>8 DEF Fresh, IInv, ToldAtWork, Sweeping
  <2>2. probe' = NoProbe /\ step' = FirstRequest /\ check' = check
    BY <1>1 DEF NextParameter, Job
  <2> QED BY <1>1, <2>1, <2>2 DEF AtWork, PairsAtWork, MarkersAtWork, InRange, FirstRequest, NoProbe, Sweeps
<1>11. (FindingsAreShown /\ GapsAreAdmitted)'
  BY <1>1 DEF FindingsAreShown, GapsAreAdmitted, Sweeping, Staged, NoResult
<1> QED BY <1>6, <1>7, <1>8, <1>9, <1>10, <1>11 DEF IInv

\* The sweep stays with its parameter.
LEMMA StayKeeps ==
  ASSUME IInv, Sweeping, ToldAtWork, UNCHANGED <<k, found, untested>>,
         probe' \in Probes, AtWork'
  PROVE  IInv'
<1>1. UNCHANGED Job /\ check \in Sweeps /\ Typed /\ Staged
  BY DEF IInv, Sweeping, Staged, Job
<1>2. /\ Positions' = Positions /\ Injectable' = Injectable
      /\ Usable' = Usable /\ FirstRequest' = FirstRequest
  BY <1>1, JobStands
<1>3. Usable \subseteq Positions /\ Positions \subseteq Nat /\ k \in Nat
  BY <1>1, UsableArePositions
<1>4. Typed'
  BY <1>1, <1>2 DEF Typed, Sweeping, Job, ToldAtWork
<1>5. Staged' /\ Unstarted' /\ Unheard'
  BY <1>1, <1>2 DEF Staged, Unstarted, Unheard, Sweeping, Job, NoResult
<1>6. Fresh'
  <2> SUFFICES ASSUME NEW p \in Positions, p \notin Usable \/ p > k
               PROVE  told'[p] = {}
    BY <1>2 DEF Fresh, Sweeping
  <2>1. p # k
    BY <1>3 DEF Sweeping
  <2> QED BY <1>1, <2>1 DEF IInv, Fresh, ToldAtWork
<1>7. Judged'
  <2>1. \A p \in Behind : p # k /\ p \in Positions
    BY <1>3 DEF Behind
  <2>2. \A p \in Behind : Shown(p)' = Shown(p) /\ Exercised(p)' = Exercised(p)
    BY <1>1, <2>1, SameTold DEF ToldAtWork
  <2>3. Behind' = Behind
    BY <1>2 DEF Behind
  <2>4. Judged
    BY <1>1 DEF IInv
  <2>5. found' = found /\ untested' = untested
    OBVIOUS
  <2> QED BY <2>2, <2>3, <2>4, <2>5 DEF Judged
<1>8. (FindingsAreShown /\ GapsAreAdmitted)'
  BY <1>1 DEF FindingsAreShown, GapsAreAdmitted, Sweeping, Staged, NoResult
<1> QED BY <1>4, <1>5, <1>6, <1>7, <1>8 DEF IInv
-----------------------------------------------------------------------------
(* The requests of a sweep. *)

Known ==
  /\ Typed /\ check \in Sweeps /\ AtWork /\ stage = "sweep" /\ k \in Usable
  /\ k \in Positions /\ told[k] \subseteq Answers /\ probe \in Probes

LEMMA AskingKnows ==
  ASSUME IInv, NEW s \in Requests, Asking(s)
  PROVE  Known /\ step = s /\ UNCHANGED Job
<1>1. Typed /\ check \in Sweeps /\ AtWork /\ stage = "sweep" /\ k \in Usable
  BY DEF IInv, Asking, Staged
<1>2. k \in Positions
  BY <1>1, UsableArePositions
<1> QED BY <1>1, <1>2 DEF Known, Typed, Asking

LEMMA CheckOfStep ==
  ASSUME Known
  PROVE  /\ step \in {"sample", "true", "false"} => check = "sqli-boolean" /\ PairsAtWork
         /\ step \in {"benign", "marker"} => check = "xss-reflected" /\ MarkersAtWork
         /\ step = "malformed" => check = "verbose-errors" /\ told[k] = {}
         /\ step = "redirect" => check = "open-redirect" /\ told[k] = {}
BY DEF Known, AtWork, Sweeps, PairsAtWork, MarkersAtWork

LEMMA AnswerIsSweeping ==
  ASSUME IInv, NEW s \in Requests, Asking(s), NEW n \in Nat, NEW said \in 0..MaxLen,
         Answered(n, said)
  PROVE  /\ Sweeping /\ ToldAtWork
         /\ told'[k] = told[k] \cup {[to |-> s, n |-> n, said |-> said]}
<1>1. Known /\ step = s /\ UNCHANGED Job
  BY AskingKnows
<1> QED BY <1>1, AnswerTold DEF Known, Sweeping, ToldAtWork, Answered, Asking

LEMMA SilenceIsSweeping ==
  ASSUME IInv, NEW s \in Requests, Asking(s), NoAnswer
  PROVE  Sweeping /\ ToldAtWork /\ told' = told
BY AskingKnows DEF Known, Sweeping, ToldAtWork, NoAnswer, Asking, Typed

\* The same in the state before and after, for a parameter that stays the same.
LEMMA ExercisedBy ==
  ASSUME NEW p, check' = check
  PROVE  /\ check = "sqli-boolean" =>
              /\ Exercised(p) <=> \E n \in 1..Tries, t \in 0..MaxLen, f \in 0..MaxLen :
                                   /\ [to |-> "true", n |-> n, said |-> t] \in told[p]
                                   /\ [to |-> "false", n |-> n, said |-> f] \in told[p]
              /\ Exercised(p)' <=> \E n \in 1..Tries, t \in 0..MaxLen, f \in 0..MaxLen :
                                   /\ [to |-> "true", n |-> n, said |-> t] \in told'[p]
                                   /\ [to |-> "false", n |-> n, said |-> f] \in told'[p]
         /\ check = "xss-reflected" =>
              /\ Exercised(p) <=> \E n \in 1..Tries, t \in 0..MaxLen :
                                   [to |-> "marker", n |-> n, said |-> t] \in told[p]
              /\ Exercised(p)' <=> \E n \in 1..Tries, t \in 0..MaxLen :
                                   [to |-> "marker", n |-> n, said |-> t] \in told'[p]
<1>1. CASE check = "sqli-boolean"
  BY <1>1 DEF Exercised, HeardAny, Heard
<1>2. CASE check = "xss-reflected"
  BY <1>2 DEF Exercised, HeardAny, Heard
<1> QED BY <1>1, <1>2

LEMMA FirstLostKeeps ==
  ASSUME IInv, FirstLost
  PROVE  IInv'
<1>1. PICK s \in {"sample", "benign", "malformed", "redirect"} : Asking(s)
  BY DEF FirstLost
<1>2. Sweeping /\ ToldAtWork /\ told' = told /\ Known /\ step = s /\ check' = check
  <2>1. s \in Requests /\ NoAnswer
    BY DEF FirstLost, Requests
  <2>2. Sweeping /\ ToldAtWork /\ told' = told
    BY <1>1, <2>1, SilenceIsSweeping
  <2>3. Known /\ step = s /\ UNCHANGED Job
    BY <1>1, <2>1, AskingKnows
  <2> QED BY <2>2, <2>3 DEF Job
<1>3. PICK c : c = k
  OBVIOUS
<1>4. ~Exercised(c)'
  <2>1. CASE s = "sample"
    <3>1. check = "sqli-boolean" /\ \A m \in told[c] : m.to = "sample"
      BY <1>2, <1>3, <2>1, CheckOfStep DEF PairsAtWork
    <3>2. Exercised(c)' => \E n \in 1..Tries, t \in 0..MaxLen :
                             [to |-> "true", n |-> n, said |-> t] \in told'[c]
      BY <1>2, <3>1, ExercisedBy
    <3>3. \A m \in told'[c] : m.to = "sample"
      BY <1>2, <3>1
    <3> QED BY <3>2, <3>3
  <2>2. CASE s # "sample"
    <3>1. told[c] = {}
      BY <1>1, <1>2, <1>3, <2>2, CheckOfStep DEF MarkersAtWork
    <3>2. \A x : x \notin told'[c]
      BY <1>2, <3>1
    <3> QED BY <3>2 DEF Exercised, HeardAny, Heard
  <2> QED BY <2>1, <2>2
<1> QED BY <1>2, <1>3, <1>4, JudgedKeeps DEF FirstLost, Untested, Judgement
LEMMA SampleKeeps ==
  ASSUME IInv, Sample
  PROVE  IInv'
<1>1. PICK len \in 0..MaxLen, accepted \in BOOLEAN :
        /\ Answered(1, len)
        /\ IF probe.tries + 1 < NoiseSamples \/ accepted
           THEN /\ probe' = [probe EXCEPT
                     !.low  = IF probe.tries = 0 THEN len ELSE AtMost(@, len),
                     !.high = IF probe.tries = 0 THEN len ELSE AtLeast(@, len),
                     !.tries = @ + 1]
                /\ Stay(IF probe.tries + 1 < NoiseSamples THEN "sample" ELSE "true")
           ELSE Untested
  BY DEF Sample
<1>2. "sample" \in Requests /\ 1 \in Nat /\ len \in Nat /\ Asking("sample")
  BY CheckAssumption DEF Sample, Requests
<1>3. /\ Sweeping /\ ToldAtWork
      /\ told'[k] = told[k] \cup {[to |-> "sample", n |-> 1, said |-> len]}
  BY <1>1, <1>2, AnswerIsSweeping
<1>4. Known /\ step = "sample" /\ check' = check
  BY <1>2, AskingKnows DEF Job
<1>5. /\ check = "sqli-boolean" /\ PairsAtWork
  BY <1>4, CheckOfStep
<1>6. PICK c : c = k
  OBVIOUS
<1>7. \A m \in told'[c] : m.to = "sample"
  BY <1>3, <1>4, <1>5, <1>6 DEF PairsAtWork
<1>8. ~Exercised(c)'
  <2>1. Exercised(c)' => \E n \in 1..Tries, t \in 0..MaxLen :
                           [to |-> "true", n |-> n, said |-> t] \in told'[c]
    BY <1>4, <1>5, ExercisedBy
  <2> QED BY <2>1, <1>7
<1>9. CASE ~(probe.tries + 1 < NoiseSamples \/ accepted)
  BY <1>1, <1>3, <1>6, <1>8, <1>9, JudgedKeeps DEF Untested, Judgement
<1>10. CASE probe.tries + 1 < NoiseSamples \/ accepted
  <2>1. /\ probe' = [probe EXCEPT
                       !.low  = IF probe.tries = 0 THEN len ELSE AtMost(@, len),
                       !.high = IF probe.tries = 0 THEN len ELSE AtLeast(@, len),
                       !.tries = @ + 1]
        /\ step' \in {"sample", "true"} /\ UNCHANGED <<k, found, untested>>
    BY <1>1, <1>10 DEF Stay
  <2>2. probe' \in Probes
    <3>0. probe \in Probes
      BY <1>4 DEF Known
    <3> DEFINE lo == IF probe.tries = 0 THEN len ELSE AtMost(probe.low, len)
               hi == IF probe.tries = 0 THEN len ELSE AtLeast(probe.high, len)
    <3>1. lo \in Nat /\ hi \in Nat /\ probe.tries + 1 \in Nat
      BY <1>2, <3>0 DEF Probes, AtMost, AtLeast
    <3>2. probe' = [probe EXCEPT !.low = lo, !.high = hi, !.tries = probe.tries + 1]
      BY <2>1
    <3> HIDE DEF lo, hi
    <3> QED BY <3>0, <3>1, <3>2 DEF Probes
  <2>3. probe'.tries > 0 /\ probe'.n = 1 /\ probe'.sent = 0 /\ probe'.low <= probe'.high
    BY <1>2, <1>4, <1>5, <2>1 DEF Known, Probes, PairsAtWork, AtMost, AtLeast
  <2>4. \A m \in told'[c] : probe'.low <= m.said /\ m.said <= probe'.high
    <3>1. \A m \in told[k] : m.said \in Nat /\ m.to = "sample"
      BY <1>4, <1>5 DEF Known, Answers, PairsAtWork
    <3>2. CASE probe.tries = 0
      BY <1>2, <1>3, <1>4, <1>5, <1>6, <2>1, <3>2 DEF Known, Probes, PairsAtWork
    <3>3. CASE probe.tries # 0
      <4>1. /\ probe'.low = AtMost(probe.low, len) /\ probe'.high = AtLeast(probe.high, len)
            /\ probe.low \in Nat /\ probe.high \in Nat
        BY <1>4, <2>1, <3>3 DEF Known, Probes
      <4>2. probe'.low <= len /\ len <= probe'.high /\ probe'.low <= probe.low
            /\ probe.high <= probe'.high /\ probe'.low \in Nat /\ probe'.high \in Nat
        BY <1>2, <4>1 DEF AtMost, AtLeast
      <4>3. \A m \in told[k] : probe.low <= m.said /\ m.said <= probe.high
        BY <1>5, <3>1 DEF PairsAtWork, InRange
      <4> QED BY <1>2, <1>3, <1>6, <3>1, <4>1, <4>2, <4>3
    <3> QED BY <3>2, <3>3
  <2>5. Exercised(k)' = Exercised(c)'
    BY <1>6, <2>1
  <2>6. PairsAtWork'
    BY <1>6, <1>7, <1>8, <2>1, <2>3, <2>4, <2>5 DEF PairsAtWork, InRange
  <2>7. AtWork'
    BY <1>4, <1>5, <2>6 DEF AtWork
  <2> QED BY <1>3, <2>1, <2>2, <2>7, StayKeeps
<1> QED BY <1>9, <1>10
\* On to the next payload, or the verdict after the last.
LEMMA OnwardKeeps ==
  ASSUME IInv, Sweeping, ToldAtWork, Known, NEW sent \in Nat, NEW s \in Requests,
         NEW c, c = k, Onward(s, sent), sent > 0 <=> Exercised(c)',
         check = "sqli-boolean" =>
           /\ s = "true" /\ probe.low <= probe.high
           /\ \A m \in told'[c] : m.to = "sample" => probe.low <= m.said /\ m.said <= probe.high
           /\ \A m \in told'[c] : m.to = "false" => m.n \in Nat /\ m.n <= probe.n,
         check = "xss-reflected" => s = "marker" /\ [to |-> "benign", n |-> 1, said |-> 1] \in told'[c],
         check \in {"sqli-boolean", "xss-reflected"}
  PROVE  IInv'
<1>0. probe \in Probes /\ probe.n \in 1..Tries /\ Tries \in Nat
  BY CheckAssumption DEF Known, Probes
<1>1. CASE probe.n < Tries
  <2>1. /\ probe' = [probe EXCEPT !.n = probe.n + 1, !.sent = sent, !.len = 0]
        /\ step' = s /\ UNCHANGED <<k, found, untested>>
    BY <1>1 DEF Onward, Stay
  <2>2. probe' \in Probes
    <3>1. probe.n + 1 \in 1..Tries /\ 0 \in 0..MaxLen
      BY CheckAssumption, <1>0, <1>1
    <3> QED BY <1>0, <2>1, <3>1 DEF Probes
  <2>3. /\ probe'.n = probe.n + 1 /\ probe'.sent = sent
        /\ probe'.low = probe.low /\ probe'.high = probe.high
    BY <1>0, <2>1 DEF Probes
  <2>4. c = k' /\ (Exercised(k)' <=> Exercised(c)') /\ check' = check
    BY <2>1 DEF Sweeping, Job
  <2>5. check = "sqli-boolean" => PairsAtWork'
    BY <1>0, <2>1, <2>3, <2>4 DEF PairsAtWork, InRange
  <2>6. check = "xss-reflected" => MarkersAtWork'
    BY <2>1, <2>3, <2>4 DEF MarkersAtWork, Heard
  <2>7. AtWork'
    BY <2>4, <2>5, <2>6 DEF AtWork
  <2> QED BY <2>1, <2>2, <2>7, StayKeeps
<1>2. CASE ~(probe.n < Tries) /\ sent = 0
  BY <1>2, JudgedKeeps DEF Onward, Untested, Judgement
<1>3. CASE ~(probe.n < Tries) /\ sent # 0
  BY <1>3, JudgedKeeps DEF Onward, Clean, Judgement
<1> QED BY <1>1, <1>2, <1>3

LEMMA TrueConditionKeeps ==
  ASSUME IInv, TrueCondition
  PROVE  IInv'
<1>1. PICK len \in 0..MaxLen :
        /\ Answered(probe.n, len)
        /\ Stay("false") /\ probe' = [probe EXCEPT !.len = len]
  BY DEF TrueCondition
<1>2. "true" \in Requests /\ Asking("true")
  BY DEF TrueCondition, Requests
<1>3. Known /\ step = "true" /\ check' = check
  BY <1>2, AskingKnows DEF Job
<1>4. check = "sqli-boolean" /\ PairsAtWork
  BY <1>3, CheckOfStep
<1>5. probe \in Probes /\ probe.n \in Nat /\ probe.n \in 1..Tries
  BY <1>3, CheckAssumption DEF Known, Probes
<1>6. /\ Sweeping /\ ToldAtWork
      /\ told'[k] = told[k] \cup {[to |-> "true", n |-> probe.n, said |-> len]}
  BY <1>1, <1>2, <1>5, AnswerIsSweeping
<1>7. PICK c : c = k
  OBVIOUS
<1>8. /\ probe' \in Probes /\ probe'.n = probe.n /\ probe'.sent = probe.sent
      /\ probe'.low = probe.low /\ probe'.high = probe.high /\ probe'.len = len
  BY <1>1, <1>5 DEF Probes
<1>9. step' = "false" /\ UNCHANGED <<k, found, untested>>
  BY <1>1 DEF Stay
<1>10. Exercised(c)' <=> Exercised(c)
  \* No answer to the false condition of this pair yet.
  <2>1. \A n \in 1..Tries, f \in 0..MaxLen :
          [to |-> "false", n |-> n, said |-> f] \in told[c] => n # probe.n
    BY <1>3, <1>4, <1>5, <1>7 DEF PairsAtWork
  <2>2. \A n \in 1..Tries, x \in 0..MaxLen :
          /\ [to |-> "false", n |-> n, said |-> x] \in told'[c]
                <=> [to |-> "false", n |-> n, said |-> x] \in told[c]
          /\ n # probe.n => ([to |-> "true", n |-> n, said |-> x] \in told'[c]
                               <=> [to |-> "true", n |-> n, said |-> x] \in told[c])
    BY <1>6, <1>7
  <2> QED BY <1>3, <1>4, <2>1, <2>2, ExercisedBy
<1>11. PairsAtWork'
  <2>1. k' = c /\ (Exercised(k)' <=> Exercised(c)') /\ (Exercised(k) <=> Exercised(c))
    BY <1>7, <1>9
  <2>2. InRange'
    BY <1>4, <1>6, <1>8, <1>9 DEF PairsAtWork, InRange
  <2>3. probe'.sent > 0 <=> Exercised(k)'
    BY <1>3, <1>4, <1>8, <1>10, <2>1 DEF PairsAtWork
  <2>4. \A m \in told'[c] : m.to = "false" => m.n < probe'.n
    BY <1>3, <1>4, <1>6, <1>7, <1>8 DEF PairsAtWork
  <2>5. Heard(k, "true", probe.n, probe.len)'
    BY <1>6, <1>8, <1>9 DEF Heard
  <2>6. probe'.low <= probe'.high
    BY <1>4, <1>8 DEF PairsAtWork
  <2> QED BY <1>9, <2>1, <2>2, <2>3, <2>4, <2>5, <2>6 DEF PairsAtWork
<1>12. AtWork'
  BY <1>3, <1>4, <1>11 DEF AtWork
<1> QED BY <1>6, <1>8, <1>9, <1>12, StayKeeps
LEMMA FalseConditionKeeps ==
  ASSUME IInv, FalseCondition
  PROVE  IInv'
<1>1. PICK len \in 0..MaxLen :
        /\ Answered(probe.n, len)
        /\ IF Distance(probe.len, len) > probe.high - probe.low
           THEN Found ELSE Onward("true", probe.sent + 1)
  BY DEF FalseCondition
<1>2. "false" \in Requests /\ "true" \in Requests /\ Asking("false")
  BY DEF FalseCondition, Requests
<1>3. Known /\ step = "false" /\ check' = check
  BY <1>2, AskingKnows DEF Job
<1>4. check = "sqli-boolean" /\ PairsAtWork
  BY <1>3, CheckOfStep
<1>5. /\ probe \in Probes /\ probe.n \in Nat /\ probe.n \in 1..Tries
      /\ probe.len \in 0..MaxLen /\ probe.sent + 1 \in Nat /\ probe.sent + 1 > 0
      /\ probe.low \in Nat /\ probe.high \in Nat
  BY <1>3, CheckAssumption DEF Known, Probes
<1>6. /\ Sweeping /\ ToldAtWork
      /\ told'[k] = told[k] \cup {[to |-> "false", n |-> probe.n, said |-> len]}
  BY <1>1, <1>2, <1>5, AnswerIsSweeping
<1>7. PICK c : c = k
  OBVIOUS
<1>8. /\ [to |-> "true", n |-> probe.n, said |-> probe.len] \in told'[c]
      /\ [to |-> "false", n |-> probe.n, said |-> len] \in told'[c]
  BY <1>3, <1>4, <1>6, <1>7 DEF PairsAtWork, Heard
<1>9. \A m \in told'[c] : m.to = "sample" => /\ m.said \in Nat
                                             /\ probe.low <= m.said /\ m.said <= probe.high
  BY <1>3, <1>4, <1>6, <1>7 DEF Known, Answers, PairsAtWork, InRange
<1>10. Exercised(c)'
  BY <1>3, <1>4, <1>5, <1>8, ExercisedBy
<1>11. CASE Distance(probe.len, len) > probe.high - probe.low
  <2>1. \A a, b \in 0..MaxLen :
          /\ [to |-> "sample", n |-> 1, said |-> a] \in told'[c]
          /\ [to |-> "sample", n |-> 1, said |-> b] \in told'[c]
          => Distance(probe.len, len) > Distance(a, b)
    <3> SUFFICES ASSUME NEW a \in 0..MaxLen, NEW b \in 0..MaxLen,
                        [to |-> "sample", n |-> 1, said |-> a] \in told'[c],
                        [to |-> "sample", n |-> 1, said |-> b] \in told'[c]
                 PROVE  Distance(probe.len, len) > Distance(a, b)
      OBVIOUS
    <3>1. probe.low <= a /\ a <= probe.high /\ probe.low <= b /\ b <= probe.high
      BY <1>9
    <3> QED BY <1>5, <1>11, <3>1, CheckAssumption DEF Distance
  <2>2. Shown(c)'
    BY <1>3, <1>4, <1>5, <1>8, <2>1 DEF Shown, Heard
  <2> QED BY <1>1, <1>6, <1>7, <1>11, <2>2, JudgedKeeps DEF Found, Judgement
<1>12. CASE ~(Distance(probe.len, len) > probe.high - probe.low)
  <2>1. Onward("true", probe.sent + 1)
    BY <1>1, <1>12
  <2>2. \A m \in told'[c] : m.to = "false" => m.n \in Nat /\ m.n <= probe.n
    BY <1>3, <1>4, <1>5, <1>6, <1>7 DEF Known, Answers, PairsAtWork
  <2>3. probe.low <= probe.high
    BY <1>4 DEF PairsAtWork
  <2>4. probe.sent + 1 > 0 <=> Exercised(c)'
    BY <1>5, <1>10
  <2> QED BY <1>2, <1>3, <1>4, <1>5, <1>6, <1>7, <1>9, <2>1, <2>2, <2>3, <2>4, OnwardKeeps
<1> QED BY <1>11, <1>12

LEMMA PairLostKeeps ==
  ASSUME IInv, PairLost
  PROVE  IInv'
<1>1. PICK s \in {"true", "false"} : Asking(s)
  BY DEF PairLost
<1>2. s \in Requests /\ "true" \in Requests
  BY DEF Requests
<1>3. NoAnswer /\ Onward("true", probe.sent)
  BY DEF PairLost
<1>4. Sweeping /\ ToldAtWork /\ told' = told
  BY <1>1, <1>2, <1>3, SilenceIsSweeping
<1>5. Known /\ step = s /\ check' = check
  BY <1>1, <1>2, AskingKnows DEF Job
<1>6. check = "sqli-boolean" /\ PairsAtWork
  BY <1>1, <1>5, CheckOfStep
<1>7. PICK c : c = k
  OBVIOUS
<1>8. probe.sent \in Nat /\ probe.n \in Nat
  BY <1>5, CheckAssumption DEF Known, Probes
<1>9. Exercised(c)' <=> Exercised(c)
  BY <1>4, <1>5, <1>6, ExercisedBy
<1>10. probe.sent > 0 <=> Exercised(c)'
  BY <1>1, <1>5, <1>6, <1>7, <1>9 DEF PairsAtWork
<1>11. /\ probe.low <= probe.high
       /\ \A m \in told'[c] : m.to = "sample" => probe.low <= m.said /\ m.said <= probe.high
       /\ \A m \in told'[c] : m.to = "false" => m.n \in Nat /\ m.n <= probe.n
  BY <1>1, <1>4, <1>5, <1>6, <1>7, <1>8 DEF Known, Answers, PairsAtWork, InRange
<1> QED BY <1>2, <1>3, <1>4, <1>5, <1>6, <1>7, <1>8, <1>10, <1>11, OnwardKeeps
LEMMA BenignKeeps ==
  ASSUME IInv, Benign
  PROVE  IInv'
<1>1. "benign" \in Requests /\ Asking("benign") /\ 0 \in 0..MaxLen /\ 1 \in 0..MaxLen /\ 1 \in Nat
  BY CheckAssumption DEF Benign, Requests
<1>2. Known /\ step = "benign" /\ check' = check
  BY <1>1, AskingKnows DEF Job
<1>3. check = "xss-reflected" /\ told[k] = {} /\ probe.sent = 0 /\ probe.n = 1
  BY <1>2, CheckOfStep DEF MarkersAtWork
<1>4. PICK c : c = k
  OBVIOUS
<1>5. ASSUME NEW said \in 0..MaxLen, Answered(1, said)
      PROVE  /\ Sweeping /\ ToldAtWork /\ ~Exercised(c)'
             /\ [to |-> "benign", n |-> 1, said |-> said] \in told'[c]
  <2>1. /\ Sweeping /\ ToldAtWork
        /\ told'[k] = told[k] \cup {[to |-> "benign", n |-> 1, said |-> said]}
    BY <1>1, <1>5, AnswerIsSweeping
  <2>2. \A m \in told'[c] : m.to = "benign"
    BY <1>3, <1>4, <2>1
  <2>3. Exercised(c)' => \E n \in 1..Tries, t \in 0..MaxLen :
                           [to |-> "marker", n |-> n, said |-> t] \in told'[c]
    BY <1>2, <1>3, ExercisedBy
  <2> QED BY <1>4, <2>1, <2>2, <2>3
<1>6. CASE Answered(1, 0) /\ Untested
  BY <1>1, <1>4, <1>5, <1>6, JudgedKeeps DEF Untested, Judgement
<1>7. ASSUME NEW stored \in SUBSET (1..Tries), Answered(1, 1), Stay("marker"),
             probe' = [probe EXCEPT !.stored = stored]
      PROVE  IInv'
  <2>1. probe' \in Probes /\ probe'.sent = 0
    BY <1>2, <1>3, <1>7 DEF Known, Probes
  <2>2. step' = "marker" /\ UNCHANGED <<k, found, untested>>
    BY <1>7 DEF Stay
  <2>3. k' = c /\ (Exercised(k)' <=> Exercised(c)')
    BY <1>4, <2>2
  <2>4. MarkersAtWork'
    BY <1>1, <1>5, <1>7, <2>1, <2>2, <2>3 DEF MarkersAtWork, Heard
  <2>5. AtWork'
    BY <1>2, <1>3, <2>4 DEF AtWork
  <2> QED BY <1>1, <1>5, <1>7, <2>1, <2>2, <2>5, StayKeeps
<1> QED BY <1>6, <1>7 DEF Benign

LEMMA MarkerKeeps ==
  ASSUME IInv, Marker
  PROVE  IInv'
<1>1. PICK reflected \in 0..1 :
        /\ Answered(probe.n, reflected)
        /\ IF reflected = 1 /\ probe.n \notin probe.stored
           THEN Found ELSE Onward("marker", probe.sent + 1)
  BY DEF Marker
<1>2. "marker" \in Requests /\ Asking("marker") /\ reflected \in 0..MaxLen
  BY CheckAssumption DEF Marker, Requests
<1>3. Known /\ step = "marker" /\ check' = check
  BY <1>2, AskingKnows DEF Job
<1>4. check = "xss-reflected" /\ MarkersAtWork
  BY <1>3, CheckOfStep
<1>5. probe.n \in Nat /\ probe.n \in 1..Tries /\ probe.sent + 1 \in Nat /\ probe.sent + 1 > 0
  BY <1>3, CheckAssumption DEF Known, Probes
<1>6. /\ Sweeping /\ ToldAtWork
      /\ told'[k] = told[k] \cup {[to |-> "marker", n |-> probe.n, said |-> reflected]}
  BY <1>1, <1>2, <1>5, AnswerIsSweeping
<1>7. PICK c : c = k
  OBVIOUS
<1>8. /\ [to |-> "marker", n |-> probe.n, said |-> reflected] \in told'[c]
      /\ [to |-> "benign", n |-> 1, said |-> 1] \in told'[c]
  BY <1>3, <1>4, <1>6, <1>7 DEF MarkersAtWork, Heard
<1>9. Exercised(c)'
  BY <1>2, <1>3, <1>4, <1>5, <1>8, ExercisedBy
<1>10. CASE reflected = 1 /\ probe.n \notin probe.stored
  <2>1. Shown(c)'
    BY <1>3, <1>4, <1>5, <1>8, <1>10 DEF Shown, Heard
  <2> QED BY <1>1, <1>6, <1>7, <1>10, <2>1, JudgedKeeps DEF Found, Judgement
<1>11. CASE ~(reflected = 1 /\ probe.n \notin probe.stored)
  <2>1. Onward("marker", probe.sent + 1)
    BY <1>1, <1>11
  <2>2. probe.sent + 1 > 0 <=> Exercised(c)'
    BY <1>5, <1>9
  <2> QED BY <1>2, <1>3, <1>4, <1>5, <1>6, <1>7, <1>8, <2>1, <2>2, OnwardKeeps
<1> QED BY <1>10, <1>11

LEMMA MarkerLostKeeps ==
  ASSUME IInv, MarkerLost
  PROVE  IInv'
<1>1. "marker" \in Requests /\ Asking("marker") /\ NoAnswer /\ Onward("marker", probe.sent)
  BY DEF MarkerLost, Requests
<1>2. Sweeping /\ ToldAtWork /\ told' = told
  BY <1>1, SilenceIsSweeping
<1>3. Known /\ step = "marker" /\ check' = check
  BY <1>1, AskingKnows DEF Job
<1>4. check = "xss-reflected" /\ MarkersAtWork
  BY <1>3, CheckOfStep
<1>5. PICK c : c = k
  OBVIOUS
<1>6. probe.sent \in Nat
  BY <1>3 DEF Known, Probes
<1>7. Exercised(c)' <=> Exercised(c)
  BY <1>2, <1>3, <1>4, ExercisedBy
<1>8. probe.sent > 0 <=> Exercised(c)'
  BY <1>3, <1>4, <1>5, <1>7 DEF MarkersAtWork
<1>9. [to |-> "benign", n |-> 1, said |-> 1] \in told'[c]
  BY <1>2, <1>3, <1>4, <1>5 DEF MarkersAtWork, Heard
<1> QED BY <1>1, <1>2, <1>3, <1>4, <1>5, <1>6, <1>8, <1>9, OnwardKeeps

\* verbose-errors and open-redirect: one request to a parameter.
LEMMA OneRequestKeeps ==
  ASSUME IInv, NEW s \in {"malformed", "redirect"}, Asking(s), NEW said \in 0..1,
         Answered(1, said),
         \/ Found /\ said = 1 /\ (s = "malformed" => baseline # "leaky")
         \/ Clean
  PROVE  IInv'
<1>1. s \in Requests /\ said \in 0..MaxLen /\ 1 \in 0..MaxLen /\ 1 \in Nat
  BY CheckAssumption DEF Requests
<1>2. Known /\ step = s /\ UNCHANGED Job /\ check' = check /\ baseline' = baseline
  BY <1>1, AskingKnows DEF Job
<1>3. /\ Sweeping /\ ToldAtWork
      /\ told'[k] = told[k] \cup {[to |-> s, n |-> 1, said |-> said]}
  BY <1>1, AnswerIsSweeping
<1>4. PICK c : c = k
  OBVIOUS
<1>5. [to |-> s, n |-> 1, said |-> said] \in told'[c]
  BY <1>3, <1>4
<1>6. check = IF s = "malformed" THEN "verbose-errors" ELSE "open-redirect"
  BY <1>2, CheckOfStep
<1>7. Exercised(c)'
  <2>1. CASE s = "malformed"
    BY <1>1, <1>2, <1>5, <1>6, <2>1 DEF Exercised, HeardAny, Heard
  <2>2. CASE s = "redirect"
    BY <1>1, <1>2, <1>5, <1>6, <2>2 DEF Exercised, HeardAny, Heard
  <2> QED BY <2>1, <2>2
<1>8. CASE Found /\ said = 1 /\ (s = "malformed" => baseline # "leaky")
  <2>1. Shown(c)'
    <3>1. CASE s = "redirect"
      BY <1>2, <1>5, <1>6, <1>8, <3>1 DEF Shown, Heard
    <3>2. CASE s = "malformed"
      <4>1. baseline' = "plain"
        BY <1>2, <1>8, <3>2 DEF IInv, Typed, Staged, Known
      <4> QED BY <1>2, <1>5, <1>6, <1>8, <3>2, <4>1 DEF Shown, Heard
    <3> QED BY <3>1, <3>2
  <2> QED BY <1>3, <1>4, <1>8, <2>1, JudgedKeeps DEF Found, Judgement
<1>9. CASE Clean
  BY <1>3, <1>4, <1>7, <1>9, JudgedKeeps DEF Clean, Judgement
<1> QED BY <1>8, <1>9
-----------------------------------------------------------------------------
(* The end of a run. *)

LEMMA ReturnKeeps ==
  ASSUME IInv, NEW fs, NEW e, Return(fs, e), told' = told,
         listed' \in [first : Seq(Ids), second : Seq(Ids)],
         FindingsAreShown', GapsAreAdmitted'
  PROVE  IInv'
<1>1. UNCHANGED <<Job, k, step, probe, found, untested>> /\ stage' = "returned"
  BY DEF Return
<1>2. UNCHANGED Job
  BY <1>1
<1>3. /\ Positions' = Positions /\ Injectable' = Injectable
      /\ Usable' = Usable /\ FirstRequest' = FirstRequest /\ check' = check
  BY <1>2, JobStands DEF Job
<1>4. Typed'
  BY <1>1, <1>3 DEF IInv, Typed, Job
<1>5. Staged' /\ Unstarted' /\ Unheard'
  BY <1>1, <1>3 DEF IInv, Staged, Unstarted, Unheard, Job
<1>6. ASSUME check \in Sweeps PROVE Fresh' /\ Judged' /\ AtWork'
  <2>1. \A p : (Shown(p)' <=> Shown(p)) /\ (Exercised(p)' <=> Exercised(p))
    <3> TAKE p
    <3>1. told'[p] = told[p]
      OBVIOUS
    <3> QED BY <1>2, <3>1, SameTold
  <2>2. Fresh'
    BY <1>1, <1>3, <1>6 DEF IInv, Fresh
  <2>3. Behind' = Behind /\ Judged
    BY <1>1, <1>3, <1>6 DEF IInv, Behind
  <2>4. Judged'
    BY <1>1, <2>1, <2>3 DEF Judged
  <2> QED BY <1>1, <2>2, <2>4 DEF AtWork
<1> QED BY <1>3, <1>4, <1>5, <1>6 DEF IInv

LEMMA SweepReturns ==
  ASSUME IInv, check \in Sweeps, NEW e, Return(found, e), NoAnswer,
         e = "nil" <=> \A p \in Injectable : Exercised(p)
  PROVE  IInv'
<1>1. UNCHANGED <<Job, k, step, probe, found, untested>> /\ stage' = "returned"
      /\ result' = [findings |-> found, err |-> e]
  BY DEF Return
<1>2. UNCHANGED Job /\ Typed /\ Judged
  BY <1>1 DEF IInv
<1>3. Injectable' = Injectable /\ check' = check
  BY <1>2, JobStands DEF Job
<1>4. \A p : (Shown(p)' <=> Shown(p)) /\ (Exercised(p)' <=> Exercised(p))
  <2> TAKE p
  <2>1. told'[p] = told[p]
    BY DEF NoAnswer
  <2> QED BY <1>2, <2>1, SameTold
<1>5. \A f \in found : f # Route /\ f # Token /\ Shown(f)'
  BY <1>2, <1>4, UsableArePositions DEF Typed, Judged, Route, Token
<1>6. FindingsAreShown'
  BY <1>1, <1>5 DEF FindingsAreShown
<1>7. GapsAreAdmitted'
  BY <1>1, <1>3, <1>4 DEF GapsAreAdmitted
<1> QED BY <1>2, <1>6, <1>7, ReturnKeeps DEF NoAnswer, Typed

\* Nothing was told at the start, so nothing is claimed.
LEMMA StartClaimsNothing ==
  ASSUME IInv, stage = "start", check \in Sweeps
  PROVE  found = {} /\ ~ \A p \in Injectable : Exercised(p)
<1>1. Typed /\ Judged /\ Fresh /\ Unstarted /\ Injectable # {}
  BY DEF IInv, Staged
<1>2. \A p \in Usable : ~(p < k)
  BY <1>1, UsableArePositions DEF Unstarted
<1>3. found = {}
  BY <1>1, <1>2 DEF Judged, Behind
<1>4. \A p \in Injectable : ~Exercised(p)
  BY <1>1, UsableArePositions, NothingToldNothingExercised DEF Fresh
<1> QED BY <1>1, <1>3, <1>4

LEMMA SweepNeverStarts ==
  ASSUME IInv, check \in Sweeps, stage = "start", Return({}, "skipped"), NoAnswer
  PROVE  IInv'
<1>1. found = {} /\ ~ \A p \in Injectable : Exercised(p)
  BY StartClaimsNothing
<1>2. "skipped" # "nil"
  OBVIOUS
<1> QED BY <1>1, <1>2, SweepReturns

LEMMA FinishKeeps ==
  ASSUME IInv, Finish
  PROVE  IInv'
<1>1. /\ check \in Sweeps /\ Typed /\ Judged /\ Fresh /\ Usable # {} /\ k \notin Usable
      /\ NoAnswer /\ Return(Outcome.findings, Outcome.err)
  BY DEF IInv, Finish, Staged
<1>2. Behind = Usable
  BY <1>1, UsableArePositions DEF Typed, Behind
<1>3. \A p \in Injectable : p \in Usable \/ p \in HeldBack
  BY DEF Usable
<1>4. HeldBack \subseteq Injectable /\ \A p \in HeldBack : p \notin Usable
  BY DEF HeldBack, Usable
<1>5. \A p \in HeldBack : ~Exercised(p)
  BY <1>1, <1>4, UsableArePositions, NothingToldNothingExercised DEF Fresh
<1>6. \A p \in Usable : p \in untested <=> ~Exercised(p)
  BY <1>1, <1>2 DEF Judged
<1>7. untested \subseteq Usable /\ Usable \subseteq Injectable
  BY <1>1 DEF Typed, Usable
<1>8. (\A p \in Injectable : Exercised(p)) <=> untested = {} /\ HeldBack = {}
  BY <1>3, <1>4, <1>5, <1>6, <1>7
<1>9. CASE Usable \subseteq untested
  <2>1. \A p \in found : p \in Usable /\ Exercised(p)
    BY <1>1, ShownWasExercised DEF Typed, Judged
  <2>2. found = {}
    BY <1>6, <1>9, <2>1
  <2>3. Outcome = [findings |-> {}, err |-> "skipped"]
    BY <1>1, <1>9 DEF Outcome
  <2>4. Return(found, "skipped")
    BY <1>1, <2>2, <2>3
  <2>5. "skipped" = "nil" <=> \A p \in Injectable : Exercised(p)
    BY <1>1, <1>7, <1>8, <1>9
  <2> QED BY <1>1, <2>4, <2>5, SweepReturns
<1>10. CASE ~(Usable \subseteq untested)
  <2> DEFINE e == IF untested # {} \/ HeldBack # {} THEN "skipped" ELSE "nil"
  <2>1. Outcome = [findings |-> found, err |-> e]
    BY <1>10 DEF Outcome
  <2>2. Return(found, e)
    BY <1>1, <2>1
  <2>3. e = "nil" <=> \A p \in Injectable : Exercised(p)
    BY <1>8
  <2> HIDE DEF e
  <2> QED BY <1>1, <2>2, <2>3, SweepReturns
<1> QED BY <1>9, <1>10
-----------------------------------------------------------------------------
(* The checks that ask one question. *)

LEMMA QuestionReturns ==
  ASSUME IInv, check \notin Sweeps, NEW fs, NEW e, Return(fs, e), told' = told,
         listed' \in [first : Seq(Ids), second : Seq(Ids)],
         FindingsAreShown', e = "nil" <=> \E h \in heard' : h.said # "neither"
  PROVE  IInv'
<1>1. check' = check /\ result' = [findings |-> fs, err |-> e]
  BY DEF Return, Job
<1>2. GapsAreAdmitted'
  BY <1>1 DEF GapsAreAdmitted
<1> QED BY <1>2, ReturnKeeps

LEMMA SilentReturn ==
  ASSUME IInv, check \notin Sweeps, stage # "returned", NoAnswer, NEW fs, fs \in {{}, Expiry},
         NEW e, e # "nil", Return(fs, e)
  PROVE  IInv'
<1>1. heard' = {} /\ told' = told /\ listed' \in [first : Seq(Ids), second : Seq(Ids)]
  BY DEF IInv, Unheard, NoAnswer, Typed
<1>2. session' = session /\ result' = [findings |-> fs, err |-> e]
  BY DEF Return, Job
<1>3. \A f \in fs : f = Token /\ session' = "long"
  BY <1>2 DEF Expiry
<1>4. FindingsAreShown'
  BY <1>2, <1>3 DEF FindingsAreShown, Route, Token
<1>5. ~ \E h \in heard' : h.said # "neither"
  BY <1>1
<1> QED BY <1>1, <1>4, <1>5, QuestionReturns

\* The verdict on the route, as nobody or as the second account.
LEMMA VerdictKeeps ==
  ASSUME IInv, check \notin Sweeps, stage # "returned", NEW who, NEW what, Verdict(who, what),
         IF check = "idor" THEN who = "second" /\ what \in Ids /\ AnothersResource(what)
                           ELSE who = "nobody" /\ what = Route
  PROVE  IInv'
<1>1. heard = {} /\ listed \in [first : Seq(Ids), second : Seq(Ids)]
  BY DEF IInv, Unheard, Typed
<1>2. PICK said \in {"accepted", "refused", "neither"} :
        /\ Hear(who, what, said)
        /\ CASE said = "accepted" -> Return({Route}, "nil")
             [] said = "refused"  -> Return({}, "nil")
             [] said = "neither"  -> Return({}, "skipped")
  BY DEF Verdict
<1>3. heard' = {[as |-> who, of |-> what, said |-> said]} /\ told' = told /\ listed' = listed
  BY <1>1, <1>2 DEF Hear
<1>4. CASE said = "accepted"
  <2>1. Return({Route}, "nil")
    BY <1>2, <1>4
  <2>2. check' = check /\ result' = [findings |-> {Route}, err |-> "nil"]
    BY <2>1 DEF Return, Job
  <2>3. AnothersResource(what)' <=> AnothersResource(what)
    BY <1>3 DEF AnothersResource, Elements
  <2>4. FindingsAreShown'
    BY <1>3, <1>4, <2>2, <2>3 DEF FindingsAreShown, Route, Token
  <2>5. \E h \in heard' : h.said # "neither"
    BY <1>3, <1>4
  <2> QED BY <1>1, <1>3, <2>1, <2>4, <2>5, QuestionReturns
<1>5. CASE said # "accepted"
  <2> DEFINE e == IF said = "refused" THEN "nil" ELSE "skipped"
  <2>1. Return({}, e)
    BY <1>2, <1>5
  <2>2. e = "nil" <=> \E h \in heard' : h.said # "neither"
    BY <1>2, <1>3, <1>5
  <2> HIDE DEF e
  <2>3. result' = [findings |-> {}, err |-> e]
    BY <2>1 DEF Return
  <2>4. FindingsAreShown'
    BY <2>3 DEF FindingsAreShown
  <2> QED BY <1>1, <1>3, <2>1, <2>2, <2>4, QuestionReturns
<1> QED BY <1>4, <1>5

LEMMA SingleKeeps ==
  ASSUME IInv, Unauthenticated \/ Trace
  PROVE  IInv'
<1>1. /\ check \in {"auth-required", "dangerous-http-methods"} /\ stage = "start"
      /\ \/ Return({}, "other") /\ NoAnswer
         \/ Verdict("nobody", Route)
  BY DEF Unauthenticated, Trace, Ready
<1>2. check \notin Sweeps /\ check # "idor" /\ stage # "returned" /\ "other" # "nil"
  BY <1>1 DEF Sweeps
<1>3. CASE Return({}, "other") /\ NoAnswer
  BY <1>2, <1>3, SilentReturn
<1>4. CASE Verdict("nobody", Route)
  BY <1>2, <1>4, VerdictKeeps
<1> QED BY <1>1, <1>3, <1>4

LEMMA ForgeKeeps ==
  ASSUME IInv, Forge
  PROVE  IInv'
<1>1. check = "jwt-weak" /\ stage = "start" /\ check \notin Sweeps
  BY DEF Forge, Ready, Sweeps
<1>2. heard = {} /\ listed \in [first : Seq(Ids), second : Seq(Ids)]
  BY <1>1 DEF IInv, Unheard, Typed
<1>3. CASE Return(Expiry, "skipped") /\ NoAnswer
  BY <1>1, <1>3, SilentReturn
<1>4. ASSUME NEW said \in {"accepted", "refused"}, Hear("nobody", Route, said),
             Return(Expiry \cup IF said = "accepted" THEN {Route} ELSE {}, "nil")
      PROVE  IInv'
  <2>1. /\ heard' = {[as |-> "nobody", of |-> Route, said |-> said]}
        /\ told' = told /\ listed' = listed
    BY <1>2, <1>4 DEF Hear
  <2> DEFINE fs == Expiry \cup IF said = "accepted" THEN {Route} ELSE {}
  <2>2. check' = check /\ session' = session /\ result' = [findings |-> fs, err |-> "nil"]
    BY <1>4 DEF Return, Job
  <2>3. \A f \in fs : (f = Token /\ session = "long") \/ (f = Route /\ said = "accepted")
    BY DEF Expiry
  <2> HIDE DEF fs
  <2>4. FindingsAreShown'
    BY <1>1, <2>1, <2>2, <2>3 DEF FindingsAreShown, Route, Token
  <2>5. \E h \in heard' : h.said # "neither"
    BY <2>1
  <2>6. Return(fs, "nil")
    BY <1>4 DEF fs
  <2> QED BY <1>1, <1>2, <2>1, <2>4, <2>5, <2>6, QuestionReturns
<1> QED BY <1>3, <1>4 DEF Forge

LEMMA ListingsAreSequences ==
  Listings \subseteq Seq(Ids)
BY CheckAssumption, SeqDef DEF Listings

LEMMA ListKeeps ==
  ASSUME IInv, stage = "idor", UNCHANGED <<Job, k, probe, found, untested, told, heard>>,
         listed' \in [first : Seq(Ids), second : Seq(Ids)], UNCHANGED <<stage, result>>
  PROVE  IInv'
<1>1. UNCHANGED Job /\ check \notin Sweeps
  BY DEF IInv, Staged
<1>2. /\ Positions' = Positions /\ Injectable' = Injectable
      /\ Usable' = Usable /\ FirstRequest' = FirstRequest /\ check' = check
  BY <1>1, JobStands DEF Job
<1>3. Typed'
  BY <1>1, <1>2 DEF IInv, Typed, Job
<1>4. Staged' /\ Unstarted' /\ Unheard'
  BY <1>1, <1>2 DEF IInv, Staged, Unstarted, Unheard, Job, NoResult
<1>5. (FindingsAreShown /\ GapsAreAdmitted)'
  BY DEF IInv, FindingsAreShown, GapsAreAdmitted, Staged, NoResult
<1> QED BY <1>1, <1>2, <1>3, <1>4, <1>5 DEF IInv

LEMMA IdorKeeps ==
  ASSUME IInv, NoListing \/ ListMine \/ ListTheirs \/ ReadOther
  PROVE  IInv'
<1>1. stage = "idor" /\ stage # "returned" /\ check = "idor" /\ check \notin Sweeps
  BY DEF IInv, Staged, NoListing, ListMine, ListTheirs, ReadOther, Sweeps
<1>2. listed \in [first : Seq(Ids), second : Seq(Ids)] /\ heard = {}
  BY <1>1 DEF IInv, Typed, Unheard
<1>3. CASE NoListing
  <2>1. Return({}, "skipped") /\ NoAnswer /\ "skipped" # "nil"
    BY <1>3 DEF NoListing
  <2> QED BY <1>1, <2>1, SilentReturn
<1>4. CASE ListMine
  <2>1. listed' \in [first : Seq(Ids), second : Seq(Ids)]
    BY <1>2, <1>4, ListingsAreSequences DEF ListMine
  <2> QED BY <1>1, <1>4, <2>1, ListKeeps DEF ListMine
<1>5. CASE ListTheirs
  <2>1. listed' \in [first : Seq(Ids), second : Seq(Ids)]
    BY <1>2, <1>5, ListingsAreSequences DEF ListTheirs
  <2>2. told' = told /\ heard' = heard
    BY <1>5 DEF ListTheirs
  <2>3. CASE Return({}, "skipped")
    <3>1. result' = [findings |-> {}, err |-> "skipped"]
      BY <2>3 DEF Return
    <3>2. FindingsAreShown'
      BY <3>1 DEF FindingsAreShown
    <3>3. "skipped" = "nil" <=> \E h \in heard' : h.said # "neither"
      BY <1>2, <2>2
    <3> QED BY <1>1, <2>1, <2>2, <2>3, <3>2, <3>3, QuestionReturns
  <2>4. CASE UNCHANGED <<Job, stage, k, probe, found, untested, result>>
    BY <1>1, <2>1, <2>2, <2>4, ListKeeps
  <2> QED BY <1>5, <2>3, <2>4 DEF ListTheirs
<1>6. CASE ReadOther
  <2>1. CASE Return({}, "other") /\ NoAnswer
    BY <1>1, <2>1, SilentReturn
  <2>2. ASSUME NEW id \in Least(OnlyInFirst(listed)), Verdict("second", id)
        PROVE  IInv'
    <3>1. id \in Kept(listed.first) /\ id \notin Kept(listed.second)
      BY <2>2 DEF Least, OnlyInFirst
    <3>2. id \in Elements(listed.first) /\ id \in Ids
      BY <1>2, <3>1 DEF Kept, Elements
    <3>3. Len(listed.second) <= IdLimit => id \notin Elements(listed.second)
      <4>1. /\ listed.second \in Seq(Ids) /\ Len(listed.second) \in Nat
            /\ DOMAIN listed.second = 1..Len(listed.second)
        BY <1>2
      <4> QED BY CheckAssumption, <3>1, <4>1 DEF Kept, Elements
    <3>4. AnothersResource(id)
      BY <3>2, <3>3 DEF AnothersResource
    <3> QED BY <1>1, <2>2, <3>2, <3>4, VerdictKeeps
  <2> QED BY <1>6, <2>1, <2>2 DEF ReadOther
<1> QED BY <1>3, <1>4, <1>5, <1>6
-----------------------------------------------------------------------------
(* The start of a run. *)

LEMMA TurnedAwayKeeps ==
  ASSUME IInv, AllHeldBack \/ NothingToAskWith \/ NoBaseline
  PROVE  IInv'
<1>1. stage = "start" /\ stage # "returned" /\ NoAnswer /\ "skipped" # "nil"
  BY DEF AllHeldBack, NothingToAskWith, NoBaseline
<1>2. CASE check \in Sweeps
  <2>1. Expiry = {}
    BY <1>2 DEF IInv, Staged, Expiry
  <2>2. Return({}, "skipped")
    BY <2>1 DEF AllHeldBack, NothingToAskWith, NoBaseline
  <2> QED BY <1>1, <1>2, <2>2, SweepNeverStarts
<1>3. CASE check \notin Sweeps
  <2>1. Return({}, "skipped") \/ Return(Expiry, "skipped")
    BY DEF AllHeldBack, NothingToAskWith, NoBaseline
  <2> QED BY <1>1, <1>3, <2>1, SilentReturn
<1> QED BY <1>2, <1>3

LEMMA BeginKeeps ==
  ASSUME IInv, Begin
  PROVE  IInv'
<1>1. /\ stage = "start" /\ baseline # "none" /\ Equipped /\ check \notin Singles
      /\ UNCHANGED Job /\ UNCHANGED <<k, probe, found, untested, result, told, heard, listed>>
      /\ Typed /\ Staged
  BY DEF IInv, Begin, NoAnswer
<1>2. /\ Positions' = Positions /\ Injectable' = Injectable
      /\ Usable' = Usable /\ FirstRequest' = FirstRequest /\ check' = check
  BY <1>1, JobStands DEF Job
<1>3. IF check = "idor" THEN stage' = "idor" ELSE stage' = "sweep" /\ step' = step /\ check \in Sweeps
  BY <1>1 DEF Begin, Typed
<1>4. Typed'
  BY <1>1, <1>2 DEF Typed, Job
<1>5. Staged' /\ Unstarted' /\ Unheard'
  BY <1>1, <1>2, <1>3 DEF IInv, Staged, Unstarted, Unheard, Job, NoResult, Equipped, Sweeps
<1>6. ASSUME check \in Sweeps PROVE Fresh' /\ Judged' /\ AtWork'
  <2>1. Fresh /\ Judged /\ Unstarted
    BY <1>6 DEF IInv
  <2>2. \A p : (Shown(p)' <=> Shown(p)) /\ (Exercised(p)' <=> Exercised(p))
    <3> TAKE p
    <3>1. told'[p] = told[p]
      BY <1>1
    <3> QED BY <1>1, <3>1, SameTold
  <2>3. \A p \in Positions : told'[p] = {}
    BY <1>1, <2>1 DEF Fresh
  <2>4. Fresh'
    BY <1>2, <2>3 DEF Fresh
  <2>5. Behind' = Behind /\ UNCHANGED <<found, untested>>
    BY <1>1, <1>2 DEF Behind
  <2>6. Judged'
    BY <2>1, <2>2, <2>5 DEF Judged
  <2>7. AtWork'
    <3> SUFFICES ASSUME k \in Usable PROVE AtWork'
      BY <1>1, <1>2 DEF AtWork
    <3>1. told'[k'] = {} /\ probe' = NoProbe /\ step' = FirstRequest /\ check' = check
      BY <1>1, <1>2, <1>3, <1>6, <2>1, <2>3, UsableArePositions DEF Unstarted, Sweeps
    <3> QED BY <1>6, <3>1
         DEF AtWork, PairsAtWork, MarkersAtWork, InRange, FirstRequest, NoProbe, Sweeps
  <2> QED BY <2>4, <2>6, <2>7
<1>7. (FindingsAreShown /\ GapsAreAdmitted)'
  BY <1>1, <1>3 DEF FindingsAreShown, GapsAreAdmitted, Staged, NoResult
<1> QED BY <1>2, <1>4, <1>5, <1>6, <1>7 DEF IInv

LEMMA InitHolds ==
  ASSUME Init
  PROVE  IInv
<1>1. params \in Seq(Kinds)
  BY CheckAssumption, SeqDef DEF Init
<1>2. /\ Positions = 1..Len(params) /\ Len(params) \in Nat
      /\ Usable \subseteq Positions
  BY <1>1 DEF Positions, Injectable, HeldBack, Usable
<1>3. k \in Usable \cup {Len(params) + 1} /\ \A p \in Usable : k <= p
  BY <1>2 DEF Init, Earliest, Least
<1>4. NoProbe \in Probes
  BY CheckAssumption DEF NoProbe, Probes
<1>5. Typed
  <2>1. told \in [Positions -> SUBSET Answers]
    BY DEF Init
  <2>2. listed \in [first : Seq(Ids), second : Seq(Ids)]
    BY DEF Init
  <2>3. baseline \in {"none", "plain", "leaky"}
    BY DEF Init
  <2>4. check \in Sweeps \cup Singles \cup {"idor"}
    BY DEF Init
  <2>5. found = {} /\ untested = {} /\ probe = NoProbe
    BY DEF Init
  <2> QED BY <1>1, <1>3, <1>4, <2>1, <2>2, <2>3, <2>4, <2>5 DEF Typed
<1>6. Staged
  BY DEF Init, Staged, Sweeps, Singles
<1>7. Unstarted /\ Unheard
  BY <1>3 DEF Init, Unstarted, Unheard
<1>8. Fresh
  BY DEF Init, Fresh
<1>9. Judged
  <2>1. Behind = {}
    <3>1. k \in Nat /\ \A p \in Usable : p \in Nat /\ k <= p
      BY <1>2, <1>3
    <3>2. \A p \in Usable : ~(p < k)
      BY <3>1
    <3> QED BY <3>2 DEF Behind
  <2>2. found = {} /\ untested = {}
    BY DEF Init
  <2> QED BY <2>1, <2>2 DEF Judged
<1>10. stage = "start" /\ result = NoResult
  BY DEF Init
<1>11. AtWork /\ FindingsAreShown /\ GapsAreAdmitted
  BY <1>10 DEF AtWork, FindingsAreShown, GapsAreAdmitted, NoResult
<1> QED BY <1>5, <1>6, <1>7, <1>8, <1>9, <1>11 DEF IInv

LEMMA StutterKeeps ==
  ASSUME IInv, UNCHANGED vars
  PROVE  IInv'
<1>1. UNCHANGED <<check, params, canCreate, baseline, prefixed, session, second, stage, k, step,
                  probe, found, untested, result, told, heard, listed>>
  BY DEF vars
<1>2. UNCHANGED Job
  BY <1>1 DEF Job
<1>3. /\ Positions' = Positions /\ Injectable' = Injectable
      /\ Usable' = Usable /\ FirstRequest' = FirstRequest
  BY <1>2, JobStands
<1>4. \A p : (Shown(p)' <=> Shown(p)) /\ (Exercised(p)' <=> Exercised(p))
  <2> TAKE p
  <2>1. told'[p] = told[p]
    BY <1>1
  <2> QED BY <1>2, <2>1, SameTold
<1>5. Typed' /\ Staged' /\ Unstarted' /\ Unheard'
  BY <1>1, <1>3 DEF IInv, Typed, Staged, Unstarted, Unheard
<1>6. ASSUME check \in Sweeps PROVE Fresh' /\ Judged' /\ AtWork'
  <2>1. Fresh'
    BY <1>1, <1>3, <1>6 DEF IInv, Fresh
  <2>2. Behind' = Behind /\ Judged
    BY <1>1, <1>3, <1>6 DEF IInv, Behind
  <2>3. Judged'
    BY <1>1, <1>4, <2>2 DEF Judged
  <2>4. (Exercised(k)' <=> Exercised(k))
    BY <1>1 DEF Exercised, HeardAny, Heard
  <2>5. AtWork'
    BY <1>1, <1>3, <1>6, <2>4
    DEF IInv, AtWork, PairsAtWork, MarkersAtWork, InRange, Heard
  <2> QED BY <2>1, <2>3, <2>5
<1>8. FindingsAreShown'
  <2>1. FindingsAreShown' <=> FindingsAreShown
    BY <1>1 DEF FindingsAreShown, AnothersResource, Elements, Shown, Heard
  <2> QED BY <2>1 DEF IInv
<1>9. GapsAreAdmitted'
  BY <1>1, <1>3, <1>4 DEF IInv, GapsAreAdmitted
<1> QED BY <1>1, <1>5, <1>6, <1>8, <1>9 DEF IInv

LEMMA NextKeeps ==
  ASSUME IInv, [Next]_vars
  PROVE  IInv'
<1>1. CASE AllHeldBack \/ NothingToAskWith \/ NoBaseline
  BY <1>1, TurnedAwayKeeps
<1>2. CASE Begin
  BY <1>2, BeginKeeps
<1>3. CASE Unauthenticated \/ Trace
  BY <1>3, SingleKeeps
<1>4. CASE Forge
  BY <1>4, ForgeKeeps
<1>5. CASE NoListing \/ ListMine \/ ListTheirs \/ ReadOther
  BY <1>5, IdorKeeps
<1>6. CASE FirstLost
  BY <1>6, FirstLostKeeps
<1>7. CASE Sample
  BY <1>7, SampleKeeps
<1>8. CASE TrueCondition
  BY <1>8, TrueConditionKeeps
<1>9. CASE FalseCondition
  BY <1>9, FalseConditionKeeps
<1>10. CASE PairLost
  BY <1>10, PairLostKeeps
<1>11. CASE Benign
  BY <1>11, BenignKeeps
<1>12. CASE Marker
  BY <1>12, MarkerKeeps
<1>13. CASE MarkerLost
  BY <1>13, MarkerLostKeeps
<1>14. CASE Malformed
  <2>1. PICK leaks \in 0..1 :
          /\ Answered(1, leaks)
          /\ IF leaks = 1 /\ baseline # "leaky" THEN Found ELSE Clean
    BY <1>14 DEF Malformed
  <2>2. Asking("malformed")
    BY <1>14 DEF Malformed
  <2> QED BY <2>1, <2>2, OneRequestKeeps
<1>15. CASE Redirect
  <2>1. PICK away \in 0..1 : Answered(1, away) /\ (IF away = 1 THEN Found ELSE Clean)
    BY <1>15 DEF Redirect
  <2>2. Asking("redirect")
    BY <1>15 DEF Redirect
  <2> QED BY <2>1, <2>2, OneRequestKeeps
<1>16. CASE Finish
  BY <1>16, FinishKeeps
<1>17. CASE Returned \/ UNCHANGED vars
  BY <1>17, StutterKeeps DEF Returned
<1> QED BY <1>1, <1>2, <1>3, <1>4, <1>5, <1>6, <1>7, <1>8, <1>9, <1>10, <1>11, <1>12,
           <1>13, <1>14, <1>15, <1>16, <1>17 DEF Next
-----------------------------------------------------------------------------
\* The strengthening holds in every reachable state, for every job that a check can
\* be given (internal/checks).
THEOREM InductiveInvariant == Spec => []IInv
<1>1. Init => IInv
  BY InitHolds
<1>2. IInv /\ [Next]_vars => IInv'
  BY NextKeeps
<1> QED BY <1>1, <1>2, PTL DEF Spec

\* Noise is never taken for a signal, however many samples, payloads and parameters
\* there are and whatever got lost (sqli.go:279-317, xss.go:194-257, idor.go:138-174).
THEOREM NoiseIsNoFinding == Spec => []FindingsAreShown
<1>1. IInv => FindingsAreShown
  BY DEF IInv
<1> QED BY <1>1, InductiveInvariant, PTL

\* A route counts as examined exactly when every parameter was exercised, or the one
\* question decided (perParameterResult.outcome, probe.go:118-147).
THEOREM PartialIsAdmitted == Spec => []GapsAreAdmitted
<1>1. IInv => GapsAreAdmitted
  BY DEF IInv
<1> QED BY <1>1, InductiveInvariant, PTL
=============================================================================
