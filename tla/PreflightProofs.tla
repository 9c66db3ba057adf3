--------------------------- MODULE PreflightProofs ---------------------------
(***************************************************************************)
(* Preflight refuses before it sends, gives each identity its own session  *)
(* and hands over what the other modules assume, for any jobs.             *)
(***************************************************************************)
EXTENDS Preflight, Functions, FiniteSetTheorems, SequenceTheorems, WellFoundedInduction, TLAPS

\* Every element has its place, and the places are in order.
LEMMA InOrderLists ==
  ASSUME NEW S, S \subseteq Int, IsFiniteSet(S)
  PROVE  /\ Cardinality(S) \in Nat
         /\ InOrder(S) \in [1..Cardinality(S) -> S]
         /\ \A i, j \in 1..Cardinality(S) : i < j => InOrder(S)[i] < InOrder(S)[j]
         /\ \A x \in S : \E i \in 1..Cardinality(S) : InOrder(S)[i] = x
  <1> DEFINE N == Cardinality(S)
             Under(x) == {y \in S : y < x}
             rank == [x \in S |-> Below(S, x)]
  <1>0. \A x, y, z \in S :
          /\ x < y \/ x = y \/ y < x
          /\ ~(x < x) /\ (x < y => ~(y < x)) /\ (x < y /\ y < z => x < z)
    OBVIOUS
  <1>1. N \in Nat
    BY FS_CardinalityType
  <1>2. \A x \in S : IsFiniteSet(Under(x)) /\ Below(S, x) = Cardinality(Under(x)) /\ Below(S, x) \in Nat
    <2> TAKE x \in S
    <2>1. IsFiniteSet(Under(x))
      BY FS_Subset
    <2> QED BY <2>1, FS_CardinalityType DEF Below
  <1>13. \A x \in S : Below(S, x) \in Nat
    BY <1>2
  <1>3. \A x \in S : Below(S, x) \in 0..(N - 1)
    <2> TAKE x \in S
    <2>1. Under(x) \subseteq S /\ x \in S /\ x \notin Under(x)
      BY <1>0
    <2>2. Cardinality(Under(x)) <= N /\ Cardinality(Under(x)) # N
      BY <2>1, FS_Subset
    <2> QED BY <1>1, <1>2, <2>2
  <1>4. \A x, y \in S : x < y => Below(S, x) < Below(S, y)
    <2> TAKE x, y \in S
    <2> HAVE x < y
    <2>1. Under(x) \subseteq Under(y) /\ x \in Under(y) /\ x \notin Under(x)
      BY <1>0
    <2>2. Cardinality(Under(x)) <= Cardinality(Under(y)) /\ Cardinality(Under(x)) # Cardinality(Under(y))
      BY <1>2, <2>1, FS_Subset
    <2> QED BY <1>2, <2>2
  <1>5. rank \in Injection(S, 0..(N - 1))
    <2>1. \A x, y \in S : Below(S, x) = Below(S, y) => x = y
      <3> TAKE x, y \in S
      <3> HAVE Below(S, x) = Below(S, y)
      <3>1. ~(x < y) /\ ~(y < x)
        BY <1>13, <1>4
      <3> QED BY <1>0, <3>1
    <2> QED BY <1>3, <2>1 DEF Injection, IsInjective
  <1>6. IsFiniteSet(0..(N - 1)) /\ Cardinality(0..(N - 1)) = N
    BY <1>1, FS_Interval
  <1>7. rank \in Surjection(S, 0..(N - 1))
    BY <1>5, <1>6, FS_Injection
  <1>8. \A r \in 1..N : \E x \in S : Below(S, x) = r - 1
    <2> TAKE r \in 1..N
    <2>1. r - 1 \in 0..(N - 1)
      BY <1>1
    <2> QED BY <1>7, <2>1 DEF Surjection
  <1>9. \A r \in 1..N : InOrder(S)[r] \in S /\ Below(S, InOrder(S)[r]) = r - 1
    <2> TAKE r \in 1..N
    <2>1. InOrder(S)[r] = CHOOSE x \in S : Below(S, x) = r - 1
      BY DEF InOrder
    <2> QED BY <1>8, <2>1
  <1>10. InOrder(S) \in [1..N -> S]
    BY <1>9 DEF InOrder
  <1>11. \A i, j \in 1..N : i < j => InOrder(S)[i] < InOrder(S)[j]
    <2> TAKE i, j \in 1..N
    <2> HAVE i < j
    <2>1. Below(S, InOrder(S)[i]) < Below(S, InOrder(S)[j])
      BY <1>1, <1>9
    <2> DEFINE x == InOrder(S)[i]
               y == InOrder(S)[j]
    <2>2. x \in S /\ y \in S /\ Below(S, x) < Below(S, y)
      BY <1>9, <2>1
    <2> HIDE DEF x, y
    <2>3. ~(y < x) /\ x # y
      BY <1>13, <1>4, <2>2
    <2>4. x < y
      BY <1>0, <2>2, <2>3
    <2> QED BY <2>4 DEF x, y
  <1>12. \A x \in S : \E i \in 1..N : InOrder(S)[i] = x
    <2> TAKE x \in S
    <2>1. Below(S, x) + 1 \in 1..N
      BY <1>1, <1>3
    <2> DEFINE y == InOrder(S)[Below(S, x) + 1]
    <2>2. y \in S /\ Below(S, y) = Below(S, x)
      BY <1>13, <1>9, <2>1
    <2> HIDE DEF y
    <2>3. ~(y < x) /\ ~(x < y)
      BY <1>13, <1>4, <2>2
    <2>4. y = x
      BY <1>0, <2>2, <2>3
    <2> QED BY <2>1, <2>4 DEF y
  <1> QED BY <1>1, <1>10, <1>11, <1>12
-----------------------------------------------------------------------------
\* The stretch before anybody may have logged in, and the one between the logins.
Early == {"load", "spec", "checks", "findings", "auth", "login"}
Between == {"secondary", "secondaryLogin"}
Late == {"engine", "ready"}
Running == Early \cup Between \cup Late

Started ==
  \E j \in Jobs : command = j.command /\ cfg = j.cfg /\ doc = j.doc /\ input = j.input /\ env = j.env

\* The settings are the file's, expanded, and they are valid.
Loaded ==
  pc \in Running \ {"load"} =>
    settings = Expanded(cfg, env) /\ ~Missing(settings) /\ Valid(settings)

Imported ==
  command = "scan" =>
    /\ pc \in {"checks", "auth", "login"} \cup Between \cup Late => endpoints = Load(doc) /\ endpoints # << >>
    /\ pc \in {"auth", "login"} \cup Between \cup Late => Unknown(settings) = {}

\* What each identity, jar and login is by then.
Default == IF NeedsAuth THEN [client |-> "first", token |-> settings.user] ELSE Plain
Secondary == IF HasSecondary(settings) THEN [client |-> "second", token |-> settings.secUser] ELSE None
SentFirst == IF NeedsAuth THEN << First >> ELSE << >>
SentBoth == IF HasSecondary(settings) THEN Append(SentFirst, Second) ELSE SentFirst
Cookies(first, second) == [j \in Jars |-> IF j = "first" THEN first ELSE IF j = "second" THEN second ELSE Nobody]

LoggedIn ==
  /\ pc \in Early =>
       clients = [default |-> Plain, secondary |-> None] /\ jar = Cookies(Nobody, Nobody) /\ sent = << >>
  /\ pc \in Between =>
       clients = [default |-> Default, secondary |-> None] /\ jar = Cookies(Default.token, Nobody) /\ sent = SentFirst
  /\ pc \in Late =>
       clients = [default |-> Default, secondary |-> Secondary]
         /\ jar = Cookies(Default.token, Secondary.token) /\ sent = SentBoth

\* Nobody logs in with a configuration that auth.New rejects.
Accepted ==
  /\ pc = "login" => NeedsAuth
  /\ pc \in {"login"} \cup Between \cup Late /\ NeedsAuth => Configured(settings) /\ ~Rejects(settings.pass)
  /\ pc = "secondaryLogin" => HasSecondary(settings)
  /\ pc \in {"secondaryLogin"} \cup Late /\ HasSecondary(settings) => ~Rejects(settings.secPass)

\* Only a scan has endpoints and checks, only an attack has findings.
Chosen ==
  /\ pc \in {"spec", "checks"} => command = "scan"
  /\ pc = "findings" => command = "attack"

IInv ==
  /\ Started /\ Chosen /\ Loaded /\ Imported /\ LoggedIn /\ Accepted
  /\ pc \in Running \cup {"done", "refused", "failed"}
  /\ pc = "ready" => engine = EngineOf(settings)
  /\ RequestsComeLast
-----------------------------------------------------------------------------
\* What the assumption says of the configuration that was started with.
LEMMA ConfigTyped ==
  ASSUME Started
  PROVE  /\ command \in {"scan", "attack"} /\ DOMAIN cfg = ConfigFields
         /\ cfg.workers \in Int /\ cfg.rate \in Int /\ cfg.burst \in Int /\ cfg.timeout \in Int
         /\ cfg.requestTimeout \in Int /\ cfg.enabled \in Seq(Nat)
         /\ cfg.pass.kind = "text" \/ (cfg.pass.kind = "ref" /\ cfg.pass.is \in DOMAIN env)
         /\ cfg.secPass.kind = "text" \/ (cfg.secPass.kind = "ref" /\ cfg.secPass.is \in DOMAIN env)
  BY PreflightAssumption DEF Started

\* Expansion touches the two passwords.
LEMMA ExpandedFields ==
  ASSUME Started
  PROVE  LET s == Expanded(cfg, env) IN
         /\ s.pass = Expand(cfg.pass, env) /\ s.secPass = Expand(cfg.secPass, env)
         /\ s.host = cfg.host /\ s.allowed = cfg.allowed /\ s.login = cfg.login /\ s.tokenPath = cfg.tokenPath
         /\ s.user = cfg.user /\ s.secUser = cfg.secUser /\ s.csrf = cfg.csrf
         /\ s.workers = cfg.workers /\ s.rate = cfg.rate /\ s.burst = cfg.burst
         /\ s.timeout = cfg.timeout /\ s.requestTimeout = cfg.requestTimeout /\ s.enabled = cfg.enabled
  BY ConfigTyped DEF Expanded, ConfigFields

\* In an environment without references a second expansion changes nothing.
LEMMA ExpandedOnce ==
  ASSUME Started, PlainEnv
  PROVE  /\ Expand(Expand(cfg.pass, env), env) = Expand(cfg.pass, env)
         /\ Expand(Expand(cfg.secPass, env), env) = Expand(cfg.secPass, env)
  BY ConfigTyped DEF PlainEnv, Expand

\* What everything is told from stays as it was from the import on.
LEMMA SameRun ==
  ASSUME UNCHANGED <<Job, settings, endpoints>>
  PROVE  /\ NeedsAuth' = NeedsAuth /\ First' = First /\ Second' = Second /\ PlainEnv' = PlainEnv
         /\ Default' = Default /\ Secondary' = Secondary /\ SentFirst' = SentFirst /\ SentBoth' = SentBoth
         /\ \A password : Rejects(password)' = Rejects(password)
         /\ EngineOf(settings)' = EngineOf(settings)
         /\ Started' = Started
  BY DEF Job, NeedsAuth, First, Second, PlainEnv, Default, Secondary, SentFirst, SentBoth, Rejects, Started

\* Going on from one step to the next of the same stretch, with nothing made.
LEMMA MovesOn ==
  ASSUME IInv, UNCHANGED <<Job, Made>>,
         \/ pc' \in {"failed", "done"}
         \/ pc' = "refused" /\ (PlainEnv => sent = << >>)
         \/ /\ pc = "checks" /\ pc' = "auth"
            /\ command = "scan" /\ Unknown(settings) = {}
         \/ pc = "findings" /\ pc' = "auth" /\ command = "attack"
         \/ pc = "auth" /\ pc' = "login" /\ NeedsAuth /\ Configured(settings) /\ ~Rejects(settings.pass)
         \/ pc = "auth" /\ pc' = "secondary" /\ ~NeedsAuth
         \/ pc = "secondary" /\ pc' = "secondaryLogin" /\ HasSecondary(settings) /\ ~Rejects(settings.secPass)
         \/ pc = "secondary" /\ pc' = "engine" /\ ~HasSecondary(settings)
  PROVE  IInv'
  <1> USE DEF IInv, Made, Early, Between, Late, Running
  <1>1. Started' /\ Chosen' /\ Loaded' /\ Imported'
    BY SameRun DEF Chosen, Loaded, Imported, Job
  <1>2. Accepted'
    BY SameRun DEF Accepted
  <1>3. LoggedIn'
    <2>1. pc = "auth" /\ pc' = "secondary" => Default.token = Nobody /\ Default = Plain /\ SentFirst = << >>
      BY DEF Default, Plain, SentFirst
    <2>2. pc = "secondary" /\ pc' = "engine" => Secondary = None /\ Secondary.token = Nobody /\ SentBoth = SentFirst
      BY DEF Secondary, None, SentBoth
    <2> QED BY <2>1, <2>2, SameRun DEF LoggedIn, Cookies
  <1>4. RequestsComeLast'
    BY SameRun DEF RequestsComeLast
  <1> QED BY <1>1, <1>2, <1>3, <1>4

LEMMA LoadConfigKeeps ==
  ASSUME IInv, LoadConfig
  PROVE  IInv'
  <1> USE DEF IInv, Early, Between, Late, Running
  <1>1. sent = << >> /\ pc = "load" /\ UNCHANGED <<Job, endpoints, clients, jar, engine, sent>>
    BY DEF LoadConfig, LoggedIn, Refuse, Made
  <1>2. CASE Refuse
    BY <1>1, <1>2, MovesOn DEF Refuse, Made
  <1>3. CASE ~Refuse
    <2> DEFINE s == Expanded(cfg, env)
    <2>1. /\ settings' = s /\ ~Missing(s) /\ Valid(s)
          /\ pc' = IF command = "scan" THEN "spec" ELSE "findings"
      BY <1>3 DEF LoadConfig
    <2>2. Started' /\ cfg' = cfg /\ env' = env /\ command' = command /\ command \in {"scan", "attack"}
      BY <1>1, ConfigTyped DEF Started, Job
    <2>3. Chosen' /\ Loaded' /\ Imported'
      BY <2>1, <2>2 DEF Chosen, Loaded, Imported
    <2>4. LoggedIn' /\ Accepted' /\ RequestsComeLast'
      BY <1>1, <2>1 DEF LoggedIn, Accepted, RequestsComeLast
    <2> QED BY <2>1, <2>2, <2>3, <2>4
  <1> QED BY <1>2, <1>3

LEMMA ImportSpecKeeps ==
  ASSUME IInv, ImportSpec
  PROVE  IInv'
  <1> USE DEF IInv, Early, Between, Late, Running
  <1>1. sent = << >> /\ pc = "spec" /\ UNCHANGED <<Job, settings, clients, jar, engine, sent>>
    BY DEF ImportSpec, LoggedIn, Refuse, Made
  <1>2. CASE Refuse
    BY <1>1, <1>2, MovesOn DEF Refuse, Made
  <1>3. CASE ~Refuse
    <2>1. Load(doc) # << >> /\ endpoints' = Load(doc) /\ pc' = "checks"
      BY <1>3 DEF ImportSpec
    <2>2. Started' /\ cfg' = cfg /\ env' = env /\ doc' = doc /\ command' = command
      BY <1>1 DEF Started, Job
    <2>3. Chosen' /\ Loaded' /\ Imported'
      BY <1>1, <2>1, <2>2 DEF Chosen, Loaded, Imported
    <2>4. LoggedIn' /\ Accepted' /\ RequestsComeLast'
      BY <1>1, <2>1 DEF LoggedIn, Accepted, RequestsComeLast
    <2> QED BY <2>1, <2>2, <2>3, <2>4
  <1> QED BY <1>2, <1>3

LEMMA EarlyKeeps ==
  ASSUME IInv, EnableChecks \/ ReadFindings \/ BuildFirst
  PROVE  IInv'
  <1> USE DEF IInv, Early, Between, Late, Running
  <1>1. UNCHANGED <<Job, Made>> /\ sent = << >>
    BY DEF EnableChecks, ReadFindings, BuildFirst, Refuse, LoggedIn
  <1>2. CASE Refuse
    BY <1>1, <1>2, MovesOn DEF Refuse
  <1>3. CASE EnableChecks /\ ~Refuse
    <2>1. pc = "checks" /\ pc' = "auth" /\ Unknown(settings) = {}
      BY <1>3 DEF EnableChecks
    <2> QED BY <1>1, <2>1, MovesOn DEF Chosen
  <1>4. CASE ReadFindings /\ ~Refuse
    BY <1>1, <1>4, MovesOn DEF ReadFindings, Chosen
  <1>5. CASE BuildFirst /\ ~Refuse
    BY <1>1, <1>5, MovesOn DEF BuildFirst
  <1> QED BY <1>2, <1>3, <1>4, <1>5

\* The second account is refused before the first one has logged in, or not at all.
LEMMA BuildSecondKeeps ==
  ASSUME IInv, BuildSecond
  PROVE  IInv'
  <1> USE DEF IInv, Early, Between, Late, Running
  <1>1. UNCHANGED <<Job, Made>> /\ pc = "secondary"
    BY DEF BuildSecond, Refuse
  <1>2. ASSUME Refuse, PlainEnv PROVE sent = << >>
    <2>1. Rejects(settings.secPass)
      BY <1>1, <1>2 DEF BuildSecond, Refuse
    <2>2. CASE NeedsAuth
      <3>1. settings.login /\ settings.tokenPath /\ settings.csrf # "half"
        BY <1>1, <2>2 DEF Accepted, Rejects
      <3>2. settings.secPass = Expand(cfg.secPass, env) /\ settings.secPass # Unset
        BY <1>1, ExpandedFields DEF Loaded, Missing
      <3>3. Expand(settings.secPass, env) # Unset
        BY <1>2, <3>2, ExpandedOnce
      <3> QED BY <2>1, <3>1, <3>3 DEF Rejects
    <2>3. CASE ~NeedsAuth
      BY <1>1, <2>3 DEF LoggedIn, SentFirst
    <2> QED BY <2>2, <2>3
  <1>3. CASE Refuse
    BY <1>1, <1>2, <1>3, MovesOn DEF Refuse
  <1>4. CASE ~Refuse
    BY <1>1, <1>4, MovesOn DEF BuildSecond
  <1> QED BY <1>3, <1>4

LEMMA LoginsKeep ==
  ASSUME IInv, LoginFirst \/ LoginSecond
  PROVE  IInv'
  <1> USE DEF IInv, Early, Between, Late, Running
  <1>1. UNCHANGED <<Job, settings, endpoints, engine>>
    BY DEF LoginFirst, LoginSecond, Authenticate
  <1>2. Started' /\ Chosen' /\ Loaded' /\ Imported' /\ Accepted' /\ RequestsComeLast'
    BY <1>1, SameRun DEF LoginFirst, LoginSecond, Chosen, Loaded, Imported, Accepted, RequestsComeLast, Job
  <1>3. CASE LoginFirst
    <2>1. /\ pc = "login" /\ pc' = "secondary" /\ NeedsAuth
          /\ clients = [default |-> Plain, secondary |-> None] /\ jar = Cookies(Nobody, Nobody) /\ sent = << >>
      BY <1>3 DEF LoginFirst, LoggedIn, Accepted
    <2>2. Default = [client |-> "first", token |-> settings.user] /\ SentFirst = << First >>
      BY <2>1 DEF Default, SentFirst
    <2>3. clients' = [default |-> Default, secondary |-> None]
      BY <1>3, <2>1, <2>2 DEF LoginFirst, Authenticate, ClientOf, First
    <2>4. jar' = Cookies(Default.token, Nobody)
      BY <1>3, <2>1, <2>2 DEF LoginFirst, Authenticate, ClientOf, First, Cookies, Jars
    <2>5. sent' = SentFirst
      BY <1>3, <2>1, <2>2 DEF LoginFirst, Authenticate
    <2> QED BY <1>1, <1>2, <2>1, <2>3, <2>4, <2>5, SameRun DEF LoggedIn
  <1>4. CASE LoginSecond
    <2>1. /\ pc = "secondaryLogin" /\ pc' = "engine" /\ HasSecondary(settings)
          /\ clients = [default |-> Default, secondary |-> None] /\ jar = Cookies(Default.token, Nobody)
          /\ sent = SentFirst
      BY <1>4 DEF LoginSecond, LoggedIn, Accepted
    <2>2. Secondary = [client |-> "second", token |-> settings.secUser] /\ SentBoth = Append(SentFirst, Second)
      BY <2>1 DEF Secondary, SentBoth
    <2>3. clients' = [default |-> Default, secondary |-> Secondary]
      BY <1>4, <2>1, <2>2 DEF LoginSecond, Authenticate, ClientOf, Second
    <2>4. jar' = Cookies(Default.token, Secondary.token)
      BY <1>4, <2>1, <2>2 DEF LoginSecond, Authenticate, ClientOf, Second, Cookies, Jars
    <2>5. sent' = SentBoth
      BY <1>4, <2>1, <2>2 DEF LoginSecond, Authenticate
    <2> QED BY <1>1, <1>2, <2>1, <2>3, <2>4, <2>5, SameRun DEF LoggedIn
  <1> QED BY <1>3, <1>4

LEMMA LoginFailsKeeps ==
  ASSUME IInv, LoginFails
  PROVE  IInv'
  <1>1. UNCHANGED <<Job, settings, endpoints>> /\ pc' = "failed"
    BY DEF LoginFails
  <1> QED BY <1>1, SameRun DEF IInv, Chosen, Loaded, Imported, LoggedIn, Accepted, RequestsComeLast, Early, Between,
                               Late, Running

\* engine.New refuses nothing that has passed the configuration's own checks.
LEMMA StartEngineKeeps ==
  ASSUME IInv, StartEngine
  PROVE  IInv'
  <1> USE DEF IInv, Early, Between, Late, Running
  <1>1. pc = "engine" /\ UNCHANGED Job
    BY DEF StartEngine
  <1>2. settings.host # NoHost /\ ~(settings.workers <= 0) /\ ~(settings.rate <= 0)
    <2>1. settings = Expanded(cfg, env) /\ Valid(settings)
      BY <1>1 DEF Loaded
    <2>2. settings.workers \in Int /\ settings.rate \in Int
      BY <2>1, ConfigTyped, ExpandedFields
    <2> QED BY <2>1, <2>2 DEF Valid, ValidTarget, ValidEngine
  <1>3. /\ engine' = EngineOf(settings) /\ pc' = "ready"
        /\ UNCHANGED <<settings, endpoints, clients, jar, sent>>
    BY <1>2 DEF StartEngine
  <1>4. Started' /\ Chosen' /\ Loaded' /\ Imported' /\ Accepted' /\ RequestsComeLast'
    BY <1>1, <1>3, SameRun DEF Chosen, Loaded, Imported, Accepted, RequestsComeLast, Job
  <1>5. LoggedIn'
    BY <1>1, <1>3, SameRun DEF LoggedIn
  <1> QED BY <1>1, <1>3, <1>4, <1>5, SameRun

LEMMA InitHolds == Init => IInv
  <1> SUFFICES ASSUME Init PROVE IInv
    OBVIOUS
  <1>1. Started
    BY DEF Init, Started
  <1>2. LoggedIn
    BY DEF Init, LoggedIn, Early, Between, Late, Cookies
  <1> QED BY <1>1, <1>2 DEF Init, IInv, Chosen, Loaded, Imported, Accepted, RequestsComeLast, Early, Between, Late, Running

LEMMA StepKeeps == IInv /\ [Next]_vars => IInv'
  <1> SUFFICES ASSUME IInv, [Next]_vars PROVE IInv'
    OBVIOUS
  <1>1. CASE UNCHANGED vars
    <2>1. UNCHANGED <<Job, settings, endpoints>>
      BY <1>1 DEF vars, Job
    <2> QED BY <1>1, <2>1, SameRun DEF vars, IInv, Chosen, Loaded, Imported, LoggedIn, Accepted, RequestsComeLast
  <1>2. CASE Next
    BY <1>1, <1>2, LoadConfigKeeps, ImportSpecKeeps, EarlyKeeps, BuildSecondKeeps, LoginsKeep, LoginFailsKeeps,
       StartEngineKeeps DEF Next, Over
  <1> QED BY <1>1, <1>2

\* The strengthening: where the run is tells who has logged in and as whom.
THEOREM InductiveInvariant == Spec => []IInv
  <1> QED BY InitHolds, StepKeeps, PTL DEF Spec
-----------------------------------------------------------------------------
\* Before the first request, or not at all.
THEOREM RefusalsCostNothing == Spec => []RequestsComeLast
  <1>1. IInv => RequestsComeLast
    BY DEF IInv
  <1> QED BY <1>1, InductiveInvariant, PTL

\* What a valid configuration says of its accounts, once one of them is used.
LEMMA AccountsApart ==
  ASSUME IInv, pc = "ready"
  PROVE  /\ NeedsAuth => settings.user # Nobody
         /\ HasSecondary(settings) =>
              settings.user # settings.secUser /\ settings.secUser # Nobody /\ settings.user # Nobody
  <1>1. Valid(settings)
    BY DEF IInv, Loaded, Running, Early, Between, Late
  <1>2. NeedsAuth \/ HasSecondary(settings) => settings.login
    BY DEF IInv, Accepted, Late, Rejects
  <1> QED BY <1>1, <1>2 DEF Valid, ValidAuth, AnyFieldSet, NoText, Nobody

\* Each account is the one of the file, in a client and a jar of its own.
THEOREM IdentitiesDeclared == Spec => []IdentitiesAsDeclared
  <1>1. IInv => IdentitiesAsDeclared
    <2> SUFFICES ASSUME IInv, pc = "ready" PROVE IdentitiesAsDeclared
      BY DEF IdentitiesAsDeclared
    <2>1. /\ clients = [default |-> Default, secondary |-> Secondary]
          /\ jar = Cookies(Default.token, Secondary.token) /\ sent = SentBoth
      BY DEF IInv, LoggedIn, Late
    <2>2. settings = Expanded(cfg, env) /\ Started /\ ~Missing(settings)
      BY DEF IInv, Loaded, Running, Early, Between, Late
    <2>3. settings.user = cfg.user /\ settings.secUser = cfg.secUser
      BY <2>2, ExpandedFields
    <2>4. /\ NeedsAuth => cfg.user # Nobody
          /\ HasSecondary(settings) => cfg.user # cfg.secUser
      BY <2>3, AccountsApart
    <2>5. clients.default.token = IF NeedsAuth THEN cfg.user ELSE Nobody
      BY <2>1, <2>3 DEF Default, Plain
    <2>6. /\ clients.secondary # None <=> HasSecondary(settings)
          /\ clients.secondary # None => clients.secondary.token = cfg.secUser /\ cfg.secUser # cfg.user
      <3>1. HasSecondary(settings) => Secondary.client = "second" /\ Secondary.token = cfg.secUser
        BY <2>3 DEF Secondary
      <3>2. ~HasSecondary(settings) => Secondary = None
        BY DEF Secondary
      <3>3. None.client = "none"
        BY DEF None
      <3> QED BY <2>1, <2>4, <3>1, <3>2, <3>3
    <2>7. jar["shared"] = Nobody
      BY <2>1 DEF Cookies, Jars
    <2>8. \A who \in {"default", "secondary"} :
            clients[who] \notin {Plain, None} => jar[clients[who].client] = clients[who].token
      <3>1. Default # Plain => Default.client = "first" /\ jar["first"] = Default.token
        BY <2>1 DEF Default, Cookies, Jars
      <3>2. Secondary # None => Secondary.client = "second" /\ jar["second"] = Secondary.token
        BY <2>1 DEF Secondary, Cookies, Jars
      <3>3. clients["default"] = Default /\ clients["secondary"] = Secondary
        BY <2>1
      <3> QED BY <3>1, <3>2, <3>3
    <2>9. ASSUME PlainEnv, NEW i \in DOMAIN sent
          PROVE  sent[i].password = Expand(IF sent[i].as = cfg.user THEN cfg.pass ELSE cfg.secPass, env)
      <3>1. sent[i] = First \/ (HasSecondary(settings) /\ sent[i] = Second)
        BY <2>1, <2>9 DEF SentBoth, SentFirst
      <3>2. /\ First.as = cfg.user /\ First.password = Expand(cfg.pass, env)
            /\ Second.as = cfg.secUser /\ Second.password = Expand(cfg.secPass, env)
        BY <2>2, <2>3, <2>9, ExpandedFields, ExpandedOnce DEF First, Second
      <3> QED BY <2>4, <3>1, <3>2
    <2> QED BY <2>4, <2>5, <2>6, <2>7, <2>8, <2>9 DEF IdentitiesAsDeclared
  <1> QED BY <1>1, InductiveInvariant, PTL

\* What Enabled returns of names that are all registered.
LEMMA EnabledAreNames ==
  ASSUME NEW S, S \subseteq Int, IsFiniteSet(S), S # {}
  PROVE  InOrder(S) # << >> /\ Elements(InOrder(S)) \subseteq S
  <1>1. /\ Cardinality(S) \in Nat /\ InOrder(S) \in [1..Cardinality(S) -> S]
        /\ \A x \in S : \E i \in 1..Cardinality(S) : InOrder(S)[i] = x
    BY InOrderLists
  <1>2. DOMAIN InOrder(S) # {}
    BY <1>1
  <1> QED BY <1>1, <1>2 DEF Elements

\* What the engine, the attack and their models start from.
THEOREM ReadySound == Spec => []ReadyIsSound
  <1>1. IInv => ReadyIsSound
    <2> SUFFICES ASSUME IInv, pc = "ready" PROVE ReadyIsSound
      BY DEF ReadyIsSound
    <2>1. /\ settings = Expanded(cfg, env) /\ Started /\ Valid(settings)
          /\ engine = EngineOf(settings)
      BY DEF IInv, Loaded, Running, Early, Between, Late
    <2>2. /\ settings.workers \in Int /\ settings.rate \in Int /\ settings.burst \in Int
          /\ settings.timeout \in Int /\ settings.requestTimeout \in Int /\ settings.enabled \in Seq(Nat)
      BY <2>1, ConfigTyped, ExpandedFields
    <2>3. /\ engine.workers >= 1 /\ engine.rate > 0 /\ engine.burst >= 1
          /\ engine.requestTimeout > 0 /\ settings.timeout > 0
      BY <2>1, <2>2 DEF EngineOf, Valid, ValidEngine, DefaultRequestTimeout
    <2>4. settings.host \in settings.allowed /\ NoHost \notin settings.allowed
      BY <2>1 DEF Valid, ValidTarget, ValidScope
    <2>5. ASSUME command = "scan"
          PROVE  /\ endpoints # << >> /\ EnabledChecks(settings) # << >>
                 /\ Elements(EnabledChecks(settings)) \subseteq Registered
      <3>1. endpoints # << >> /\ Unknown(settings) = {}
        BY <2>5 DEF IInv, Imported, Late
      <3>2. Names(settings) \subseteq Registered /\ Names(settings) \subseteq Int
        <4>1. Names(settings) \ Registered = {}
          BY <3>1, Zenon DEF Unknown
        <4>2. Registered \subseteq Int
          BY SettingsAssumption
        <4> QED BY <4>1, <4>2
      <3>3. Names(settings) # {} /\ IsFiniteSet(Names(settings))
        <4> DEFINE m == Len(settings.enabled)
                   name == [i \in 1..m |-> settings.enabled[i]]
        <4>1. m \in Nat /\ DOMAIN settings.enabled = 1..m /\ settings.enabled # << >>
          BY <2>1, <2>2 DEF Valid, ValidChecks
        <4>2. name \in Surjection(1..m, Names(settings)) /\ IsFiniteSet(1..m)
          <5>1. IsFiniteSet(1..m)
            BY <4>1, FS_Interval
          <5>2. Names(settings) = {settings.enabled[i] : i \in 1..m}
            BY <4>1 DEF Names
          <5> HIDE DEF m
          <5>3. name \in Surjection(1..m, Names(settings))
            BY <5>2 DEF Surjection
          <5> QED BY <5>1, <5>3
        <4>3. IsFiniteSet(Names(settings))
          <5> HIDE DEF name, m
          <5> QED BY <4>2, FS_Surjection
        <4>4. 1 \in DOMAIN settings.enabled
          BY <2>2, <4>1
        <4> QED BY <4>3, <4>4 DEF Names
      <3> QED BY <3>1, <3>2, <3>3, EnabledAreNames DEF EnabledChecks
    <2> QED BY <2>3, <2>4, <2>5 DEF ReadyIsSound
  <1> QED BY <1>1, InductiveInvariant, PTL
-----------------------------------------------------------------------------
(***************************************************************************)
(* Load, held against the document.                                        *)
(***************************************************************************)
\* Where a loop first finds something, if it finds anything.
LEMMA LeastElement ==
  ASSUME NEW T, T \subseteq Nat, T # {}
  PROVE  \E x \in T : \A y \in T : x <= y
  <1> DEFINE R == OpToRel(<, Nat)
  <1>1. PICK x \in T : \A y \in T : ~(<<y, x>> \in R)
    <2>1. IsWellFoundedOn(R, Nat)
      BY NatLessThanWellFounded
    <2> HIDE DEF R
    <2> QED BY <2>1, WFMin
  <1>2. \A y \in T : <<y, x>> \in R <=> y < x
    BY DEF OpToRel
  <1> HIDE DEF R
  <1>3. \A y \in T : ~(y < x) /\ x \in Nat /\ y \in Nat
    BY <1>1, <1>2
  <1> QED BY <1>3

\* Min gives that one.
LEMMA MinIsLeast ==
  ASSUME NEW T, T \subseteq Nat, T # {}
  PROVE  Min(T) \in T /\ \A y \in T : Min(T) <= y
  BY LeastElement DEF Min

\* Min is whatever element none is below.
LEMMA LeastIsMin ==
  ASSUME NEW T, T \subseteq Nat, NEW x \in T, \A y \in T : x <= y
  PROVE  Min(T) = x
  <1>1. Min(T) \in T /\ Min(T) <= x /\ x <= Min(T)
    BY MinIsLeast
  <1>2. Min(T) \in Nat /\ x \in Nat
    BY <1>1
  <1> QED BY <1>1, <1>2

\* resolveSecurity is right about who may call.
LEMMA SecurityFollows ==
  ASSUME NEW spec, NEW op, spec.security \in SecurityLists, op.security \in Seq(SecurityLists)
  PROVE  LET auth == ResolveSecurity(spec, op) IN
         /\ auth.requiresAuth <=> ~MayCall(spec, op, {})
         /\ auth.requiresAuth => \E a \in Alternatives(spec, op) : auth.scheme \in a
  <1> DEFINE reqs == Requirements(spec, op)
  <1>1. reqs \in SecurityLists /\ Alternatives(spec, op) = Elements(reqs)
    <2>1. op.security # << >> => op.security[1] \in SecurityLists
      <3> HIDE DEF SecurityLists
      <3> QED OBVIOUS
    <2> QED BY <2>1 DEF Requirements, Alternatives
  <1> HIDE DEF reqs
  <1>2. reqs \in Seq(SUBSET Nat) /\ DOMAIN reqs = 1..Len(reqs) /\ Len(reqs) \in Nat
    BY <1>1 DEF SecurityLists
  <1>3. reqs = << >> <=> Elements(reqs) = {}
    <2>1. Elements(reqs) = {} <=> DOMAIN reqs = {}
      BY DEF Elements
    <2>2. reqs = << >> => DOMAIN reqs = {}
      OBVIOUS
    <2>3. reqs # << >> => 1 \in DOMAIN reqs
      <3>1. reqs # << >> => Len(reqs) \in Nat \ {0}
        BY <1>2, EmptySeq
      <3> QED BY <1>2, <3>1
    <2> QED BY <2>1, <2>2, <2>3
  <1>4. MayCall(spec, op, {}) <=> reqs = << >> \/ \E i \in DOMAIN reqs : reqs[i] = {}
    <2>1. (\E a \in Elements(reqs) : a \subseteq {}) <=> \E i \in DOMAIN reqs : reqs[i] = {}
      BY DEF Elements
    <2> QED BY <1>1, <1>3, <2>1 DEF MayCall
  <1>5. CASE reqs = << >> \/ \E i \in DOMAIN reqs : reqs[i] = {}
    BY <1>4, <1>5 DEF ResolveSecurity, reqs
  <1>6. CASE ~(reqs = << >> \/ \E i \in DOMAIN reqs : reqs[i] = {})
    <2>1. 1 \in DOMAIN reqs /\ reqs[1] \subseteq Nat /\ reqs[1] # {}
      BY <1>2, <1>6
    <2>2. Min(reqs[1]) \in reqs[1] /\ reqs[1] \in Alternatives(spec, op)
      BY <1>1, <2>1, MinIsLeast DEF Elements
    <2>3. ResolveSecurity(spec, op) = [requiresAuth |-> TRUE, scheme |-> Min(reqs[1])]
      BY <1>6 DEF ResolveSecurity, reqs
    <2> QED BY <1>4, <1>6, <2>2, <2>3
  <1> QED BY <1>5, <1>6

\* A loop that keeps the places in K keeps what is there.
LEMMA AtPlacesLists ==
  ASSUME NEW s, NEW K, K \subseteq Int, IsFiniteSet(K)
  PROVE  /\ Cardinality(K) \in Nat /\ DOMAIN AtPlaces(s, K) = 1..Cardinality(K)
         /\ AtPlaces(s, K) \in Seq(Elements(AtPlaces(s, K)))
         /\ \A i \in K : s[i] \in Elements(AtPlaces(s, K))
  <1>1. Cardinality(K) \in Nat /\ \A x \in K : \E m \in 1..Cardinality(K) : InOrder(K)[m] = x
    BY InOrderLists
  <1>2. /\ DOMAIN AtPlaces(s, K) = 1..Cardinality(K)
        /\ \A m \in 1..Cardinality(K) : AtPlaces(s, K)[m] = s[InOrder(K)[m]]
        /\ AtPlaces(s, K) = [m \in 1..Cardinality(K) |-> AtPlaces(s, K)[m]]
    BY DEF AtPlaces
  <1> DEFINE at == AtPlaces(s, K)
  <1> HIDE DEF at
  <1>3. \A m \in 1..Cardinality(K) : at[m] \in Elements(at)
    BY <1>2 DEF at, Elements
  <1>4. at \in Seq(Elements(at))
    BY <1>1, <1>2, <1>3 DEF at
  <1>5. \A i \in K : s[i] \in Elements(at)
    BY <1>1, <1>2, <1>3 DEF at
  <1> QED BY <1>1, <1>2, <1>4, <1>5 DEF at

\* A function that takes no value twice has as many values as arguments.
LEMMA OneToOne ==
  ASSUME NEW S, IsFiniteSet(S), NEW T, NEW f \in [S -> T],
         \A y \in T : \E x \in S : f[x] = y, \A x, y \in S : f[x] = f[y] => x = y
  PROVE  IsFiniteSet(T) /\ Cardinality(T) = Cardinality(S)
  <1>1. f \in Surjection(S, T) /\ f \in Injection(S, T)
    BY DEF Surjection, Injection, IsInjective
  <1> QED BY <1>1, FS_Surjection

KeysOf(ps) == {Key(ps[i]) : i \in DOMAIN ps}

\* A declaration of the operation takes the place of the path's, whatever else it says.
LEMMA ParametersInForce ==
  ASSUME NEW path, NEW op, IsParameters(path.params), IsParameters(op.params)
  PROVE  LET ps   == ExtractParameters(path.params, op.params)
             keys == KeysOf(op.params) \cup KeysOf(path.params)
         IN  /\ Len(ps) \in Nat /\ DOMAIN ps = 1..Len(ps) /\ ps \in Seq(Elements(ps))
             /\ IsFiniteSet(keys) /\ Len(ps) = Cardinality(keys)
             /\ \A k \in keys : k[1] # "body"
             /\ {Key(p) : p \in Elements(ps)} = keys
             /\ \A p \in Elements(ps) : p = InForce(path, op, Key(p))
  <1> DEFINE P     == path.params
             Q     == op.params
             all   == Q \o P
             first == {i \in DOMAIN all : \A j \in 1..(i - 1) : Key(all[j]) # Key(all[i])}
             keys  == KeysOf(Q) \cup KeysOf(P)
             ps    == AtPlaces(all, first)
  <1>1. /\ Len(Q) \in Nat /\ Len(P) \in Nat /\ DOMAIN Q = 1..Len(Q) /\ DOMAIN P = 1..Len(P)
        /\ DOMAIN all = 1..(Len(Q) + Len(P))
        /\ \A i \in 1..Len(Q) : all[i] = Q[i]
        /\ \A i \in 1..Len(P) : all[Len(Q) + i] = P[i]
    <2> DEFINE S == {Q[i] : i \in DOMAIN Q} \cup {P[i] : i \in DOMAIN P}
    <2>1. Q \in Seq({Q[i] : i \in DOMAIN Q}) /\ P \in Seq({P[i] : i \in DOMAIN P})
      BY DEF IsParameters
    <2>2. Q \in Seq(S) /\ P \in Seq(S)
      BY <2>1
    <2> HIDE DEF S, P, Q
    <2>3. all \in Seq(S) /\ Len(all) = Len(Q) + Len(P)
          /\ \A i \in 1..(Len(Q) + Len(P)) : all[i] = IF i <= Len(Q) THEN Q[i] ELSE P[i - Len(Q)]
      BY <2>2, ConcatProperties
    <2> QED BY <2>2, <2>3
  <1>2. \A i \in DOMAIN all : \/ i \in 1..Len(Q) /\ all[i] = Q[i]
                            \/ /\ i - Len(Q) \in 1..Len(P) /\ all[i] = P[i - Len(Q)]
                               /\ i > Len(Q) /\ Len(Q) + (i - Len(Q)) = i
    <2> HIDE DEF P, Q, all
    <2> TAKE i \in DOMAIN all
    <2>1. CASE i <= Len(Q)
      BY <1>1, <2>1
    <2>2. CASE i > Len(Q)
      <3>1. i - Len(Q) \in 1..Len(P) /\ Len(Q) + (i - Len(Q)) = i
        BY <1>1, <2>2
      <3>2. all[Len(Q) + (i - Len(Q))] = P[i - Len(Q)]
        BY <1>1, <3>1
      <3> QED BY <2>2, <3>1, <3>2
    <2> QED BY <1>1, <2>1, <2>2
  <1>3. keys = {Key(all[i]) : i \in DOMAIN all}
    <2>1. \A k \in keys : \E i \in DOMAIN all : k = Key(all[i])
      <3> TAKE k \in keys
      <3>1. CASE k \in KeysOf(Q)
        <4>1. PICK i \in 1..Len(Q) : k = Key(Q[i])
          BY <1>1, <3>1 DEF KeysOf
        <4> HIDE DEF P, Q, all
        <4>2. i \in DOMAIN all
          BY <1>1
        <4> QED BY <1>1, <4>1, <4>2
      <3>2. CASE k \in KeysOf(P)
        <4>1. PICK i \in 1..Len(P) : k = Key(P[i])
          BY <1>1, <3>2 DEF KeysOf
        <4> HIDE DEF P, Q, all
        <4>2. Len(Q) + i \in DOMAIN all
          BY <1>1
        <4> QED BY <1>1, <4>1, <4>2
      <3> QED BY <3>1, <3>2
    <2> HIDE DEF P, Q, all
    <2>2. \A i \in DOMAIN all : Key(all[i]) \in keys
      BY <1>1, <1>2 DEF KeysOf
    <2> QED BY <2>1, <2>2
  <1>4. first \subseteq Nat /\ IsFiniteSet(first)
    <2> HIDE DEF P, Q, all
    <2>1. first \subseteq 1..(Len(Q) + Len(P))
      BY <1>1
    <2>2. IsFiniteSet(1..(Len(Q) + Len(P)))
      BY <1>1, FS_Interval
    <2>3. first \subseteq Nat
      BY <1>1, <2>1
    <2> HIDE DEF first, ps, keys
    <2>4. IsFiniteSet(first)
      BY <2>1, <2>2, FS_Subset
    <2> QED BY <2>3, <2>4
  <1>5. \A i, j \in first : Key(all[i]) = Key(all[j]) => i = j
    <2> HIDE DEF P, Q, all
    <2> SUFFICES ASSUME NEW i \in first, NEW j \in first, Key(all[i]) = Key(all[j]), i < j PROVE FALSE
      BY <1>4
    <2>1. i \in 1..(j - 1)
      BY <1>1
    <2> QED BY <2>1
  <1>6. \A i \in DOMAIN all : \E j \in first : Key(all[j]) = Key(all[i])
    <2> HIDE DEF P, Q, all
    <2> TAKE i \in DOMAIN all
    <2> DEFINE like == {j \in DOMAIN all : Key(all[j]) = Key(all[i])}
    <2>1. like \subseteq Nat /\ like # {}
      BY <1>1
    <2> HIDE DEF like
    <2>2. PICK j \in like : \A l \in like : j <= l
      BY <2>1, LeastElement
    <2> USE DEF like
    <2>3. \A l \in 1..(j - 1) : Key(all[l]) # Key(all[j])
      <3> TAKE l \in 1..(j - 1)
      <3>1. l \in DOMAIN all /\ ~(j <= l)
        BY <1>1
      <3> QED BY <2>2, <3>1
    <2> QED BY <2>3
  <1>7. keys = {Key(all[i]) : i \in first}
    <2> HIDE DEF P, Q, all
    <2> QED BY <1>3, <1>6
  <1>8. /\ DOMAIN ps = 1..Cardinality(first) /\ Cardinality(first) \in Nat
        /\ ps \in Seq(Elements(ps))
        /\ \A i \in first : all[i] \in Elements(ps)
        /\ \A p \in Elements(ps) : \E i \in first : p = all[i]
    <2> HIDE DEF all, first
    <2>1. first \subseteq Int /\ IsFiniteSet(first)
      BY <1>4
    <2>2. Cardinality(first) \in Nat /\ DOMAIN AtPlaces(all, first) = 1..Cardinality(first)
      BY <2>1, AtPlacesLists
    <2>3. AtPlaces(all, first) \in Seq(Elements(AtPlaces(all, first)))
      BY <2>1, AtPlacesLists
    <2>4. \A i \in first : all[i] \in Elements(AtPlaces(all, first))
      BY <2>1, AtPlacesLists
    <2>5. \A m \in 1..Cardinality(first) :
            InOrder(first)[m] \in first /\ AtPlaces(all, first)[m] = all[InOrder(first)[m]]
      BY <2>1, InOrderLists DEF AtPlaces
    <2>6. \A p \in Elements(AtPlaces(all, first)) : \E i \in first : p = all[i]
      BY <2>2, <2>5 DEF Elements
    <2> QED BY <2>2, <2>3, <2>4, <2>6
  <1>9. IsFiniteSet(keys) /\ Cardinality(keys) = Cardinality(first)
    <2> DEFINE f == [i \in first |-> Key(all[i])]
    <2> HIDE DEF all, first, keys
    <2>1. f \in [first -> keys] /\ \A k \in keys : \E i \in first : f[i] = k
      BY <1>7
    <2>2. \A i, j \in first : f[i] = f[j] => i = j
      BY <1>5
    <2> HIDE DEF f
    <2> QED BY <1>4, <2>1, <2>2, OneToOne
  <1>10. \A k \in keys : k[1] # "body"
    <2>1. \A i \in DOMAIN Q : Q[i].in # "body"
      BY DEF IsParameters
    <2>2. \A i \in DOMAIN P : P[i].in # "body"
      BY DEF IsParameters
    <2> HIDE DEF P, Q
    <2> QED BY <2>1, <2>2 DEF KeysOf, Key
  <1>11. \A i \in first : all[i] = InForce(path, op, Key(all[i]))
    <2> TAKE i \in first
    <2> DEFINE k   == Key(all[i])
               own == {j \in DOMAIN Q : Key(Q[j]) = k}
               its == {j \in DOMAIN P : Key(P[j]) = k}
    <2>1. InForce(path, op, k) = IF own # {} THEN Q[Min(own)] ELSE P[Min(its)]
      BY DEF InForce
    <2> HIDE DEF P, Q, all
    <2>2. i \in DOMAIN all /\ \A j \in DOMAIN all : j < i => Key(all[j]) # k
      BY <1>1
    <2> HIDE DEF first
    <2>3. own \subseteq Nat /\ its \subseteq Nat
      BY <1>1
    <2>4. \A j \in own : j \in DOMAIN all /\ Key(all[j]) = k
      <3> TAKE j \in own
      <3>1. j \in DOMAIN all
        BY <1>1
      <3> QED BY <1>1, <3>1
    <2>5. \A j \in its : Len(Q) + j \in DOMAIN all /\ Key(all[Len(Q) + j]) = k
      <3> TAKE j \in its
      <3>1. Len(Q) + j \in DOMAIN all
        BY <1>1
      <3> QED BY <1>1, <3>1
    <2>6. CASE i \in 1..Len(Q) /\ all[i] = Q[i]
      <3>1. i \in own
        BY <1>1, <2>6
      <3>2. \A j \in own : i <= j
        BY <1>1, <2>2, <2>4, <2>6
      <3> HIDE DEF own
      <3>3. Min(own) = i
        BY <2>3, <3>1, <3>2, LeastIsMin
      <3> QED BY <2>1, <2>6, <3>1, <3>3
    <2>7. CASE i - Len(Q) \in 1..Len(P) /\ all[i] = P[i - Len(Q)] /\ i > Len(Q)
      <3>1. i - Len(Q) \in its
        BY <1>1, <2>7
      <3>2. own = {}
        <4> SUFFICES ASSUME NEW j \in own PROVE FALSE
          OBVIOUS
        <4>1. j \in DOMAIN all /\ Key(all[j]) = k
          BY <2>4
        <4>2. j < i
          BY <1>1, <2>2, <2>7
        <4> QED BY <2>2, <4>1, <4>2
      <3>3. \A j \in its : i - Len(Q) <= j
        <4> TAKE j \in its
        <4>1. ~(Len(Q) + j < i)
          BY <2>2, <2>5
        <4> QED BY <1>1, <2>2, <2>3, <4>1
      <3> HIDE DEF own, its, k
      <3>4. Min(its) = i - Len(Q)
        BY <2>3, <3>1, <3>3, LeastIsMin
      <3>5. InForce(path, op, k) = P[i - Len(Q)]
        BY <2>1, <3>2, <3>4
      <3> QED BY <2>7, <3>5 DEF k
    <2> QED BY <1>2, <2>2, <2>6, <2>7
  <1>12. ExtractParameters(path.params, op.params) = ps
    BY DEF ExtractParameters
  <1>13. Len(ps) = Cardinality(first)
    <2> HIDE DEF ps, first
    <2> QED BY <1>8
  <1>14. {Key(p) : p \in Elements(ps)} = keys
    <2> HIDE DEF ps, first, all, keys
    <2> QED BY <1>7, <1>8
  <1>15. \A p \in Elements(ps) : p = InForce(path, op, Key(p))
    <2> HIDE DEF ps, first, all
    <2> QED BY <1>8, <1>11
  <1> HIDE DEF ps, first, all
  <1> QED BY <1>8, <1>9, <1>10, <1>12, <1>13, <1>14, <1>15

\* Appending keeps everything.
LEMMA ConcatElements ==
  ASSUME NEW s, NEW t, s \in Seq(Elements(s)), t \in Seq(Elements(t))
  PROVE  Elements(s \o t) = Elements(s) \cup Elements(t) /\ Len(s \o t) = Len(s) + Len(t)
  <1> DEFINE S == Elements(s) \cup Elements(t)
             c == s \o t
  <1>1. s \in Seq(S) /\ t \in Seq(S)
    OBVIOUS
  <1>2. /\ c \in Seq(S) /\ Len(c) = Len(s) + Len(t) /\ Len(s) \in Nat /\ Len(t) \in Nat
        /\ \A i \in 1..(Len(s) + Len(t)) : c[i] = IF i <= Len(s) THEN s[i] ELSE t[i - Len(s)]
        /\ DOMAIN c = 1..(Len(s) + Len(t)) /\ DOMAIN s = 1..Len(s) /\ DOMAIN t = 1..Len(t)
    <2> HIDE DEF S
    <2> QED BY <1>1, ConcatProperties
  <1>3. Elements(c) \subseteq S
    <2> HIDE DEF S, c
    <2> QED BY <1>2 DEF Elements
  <1>4. \A i \in DOMAIN s : s[i] \in Elements(c)
    <2> TAKE i \in DOMAIN s
    <2> HIDE DEF c
    <2>1. i \in DOMAIN c /\ c[i] = s[i]
      BY <1>2
    <2> QED BY <2>1 DEF Elements
  <1>5. \A i \in DOMAIN t : t[i] \in Elements(c)
    <2> TAKE i \in DOMAIN t
    <2> HIDE DEF c
    <2>1. Len(s) + i \in DOMAIN c /\ c[Len(s) + i] = t[i]
      BY <1>2
    <2> QED BY <2>1 DEF Elements
  <1>6. S \subseteq Elements(c)
    <2> HIDE DEF c
    <2> QED BY <1>4, <1>5 DEF Elements
  <1> QED BY <1>2, <1>3, <1>6

BodyKeys(body) == {<<"body", name>> : name \in body}

\* Each property of the body becomes one parameter, and none is taken for a declared one.
LEMMA BodyIsListed ==
  ASSUME NEW body, body \subseteq Nat, IsFiniteSet(body)
  PROVE  LET bs == ExtractBody(body) IN
         /\ bs \in Seq(Elements(bs)) /\ Len(bs) = Cardinality(BodyKeys(body))
         /\ IsFiniteSet(BodyKeys(body)) /\ {Key(p) : p \in Elements(bs)} = BodyKeys(body)
         /\ \A p \in Elements(bs) : p.in = "body"
  <1> DEFINE bs == ExtractBody(body)
             n  == Cardinality(body)
  <1>1. /\ n \in Nat /\ InOrder(body) \in [1..n -> body]
        /\ \A x \in body : \E i \in 1..n : InOrder(body)[i] = x
    <2>1. body \subseteq Int
      OBVIOUS
    <2> QED BY <2>1, InOrderLists
  <1>2. /\ DOMAIN bs = 1..n /\ bs = [i \in 1..n |-> bs[i]]
        /\ \A i \in 1..n : bs[i].in = "body" /\ Key(bs[i]) = <<"body", InOrder(body)[i]>>
    BY DEF ExtractBody, Key
  <1>3. IsFiniteSet(BodyKeys(body)) /\ Cardinality(BodyKeys(body)) = n
    <2> DEFINE f == [x \in body |-> <<"body", x>>]
    <2>1. f \in [body -> BodyKeys(body)] /\ \A k \in BodyKeys(body) : \E x \in body : f[x] = k
      BY DEF BodyKeys
    <2>2. \A x, y \in body : f[x] = f[y] => x = y
      OBVIOUS
    <2> HIDE DEF f
    <2> QED BY <2>1, <2>2, OneToOne
  <1> HIDE DEF bs, n
  <1>4. bs \in Seq(Elements(bs)) /\ Len(bs) = n
    <2>1. bs \in [1..n -> Elements(bs)]
      BY <1>2 DEF Elements
    <2> QED BY <1>1, <2>1
  <1>5. {Key(p) : p \in Elements(bs)} = BodyKeys(body)
    <2>1. \A p \in Elements(bs) : Key(p) \in BodyKeys(body)
      BY <1>1, <1>2 DEF Elements, BodyKeys
    <2>2. \A x \in body : \E p \in Elements(bs) : Key(p) = <<"body", x>>
      BY <1>1, <1>2 DEF Elements
    <2> QED BY <2>1, <2>2 DEF BodyKeys
  <1>6. \A p \in Elements(bs) : p.in = "body"
    BY <1>2 DEF Elements
  <1> QED BY <1>3, <1>4, <1>5, <1>6 DEF bs

\* toEndpoint, held against the operation it is given.
LEMMA EndpointFollows ==
  ASSUME NEW spec, NEW path, NEW method, method \in DOMAIN path.ops,
         spec.security \in SecurityLists, IsParameters(path.params), IsOperation(path.ops[method])
  PROVE  Follows(spec, path, ToEndpoint(spec, path, method))
  <1> DEFINE op   == path.ops[method]
             e    == ToEndpoint(spec, path, method)
             auth == ResolveSecurity(spec, op)
             ps   == ExtractParameters(path.params, op.params)
             bs   == ExtractBody(op.body)
             keys == KeysOf(op.params) \cup KeysOf(path.params)
  <1>1. /\ e.method = method /\ e.requiresAuth = auth.requiresAuth /\ e.scheme = auth.scheme
        /\ e.parameters = ps \o bs
    BY DEF ToEndpoint
  <1>2. /\ op.security \in Seq(SecurityLists) /\ IsParameters(op.params)
        /\ op.body \subseteq Nat /\ IsFiniteSet(op.body)
    BY DEF IsOperation
  <1> HIDE DEF op
  <1>3. auth.requiresAuth <=> ~MayCall(spec, op, {})
    BY <1>2, SecurityFollows
  <1>4. auth.requiresAuth => \E a \in Alternatives(spec, op) : auth.scheme \in a
    BY <1>2, SecurityFollows
  <1>5. /\ ps \in Seq(Elements(ps)) /\ IsFiniteSet(keys) /\ Len(ps) = Cardinality(keys)
        /\ \A k \in keys : k[1] # "body"
        /\ {Key(p) : p \in Elements(ps)} = keys
        /\ \A p \in Elements(ps) : p = InForce(path, op, Key(p))
    BY <1>2, ParametersInForce
  <1>6. /\ bs \in Seq(Elements(bs)) /\ Len(bs) = Cardinality(BodyKeys(op.body))
        /\ IsFiniteSet(BodyKeys(op.body)) /\ {Key(p) : p \in Elements(bs)} = BodyKeys(op.body)
        /\ \A p \in Elements(bs) : p.in = "body"
    BY <1>2, BodyIsListed
  <1> HIDE DEF ps, bs, keys, e, auth
  <1>7. Elements(ps \o bs) = Elements(ps) \cup Elements(bs) /\ Len(ps \o bs) = Len(ps) + Len(bs)
    BY <1>5, <1>6, ConcatElements
  <1>8. Keys(path, op) = keys \cup BodyKeys(op.body)
    BY DEF Keys, keys, KeysOf, BodyKeys
  <1>9. Cardinality(Keys(path, op)) = Cardinality(keys) + Cardinality(BodyKeys(op.body))
    <2>1. keys \cap BodyKeys(op.body) = {}
      BY <1>5 DEF BodyKeys
    <2>2. /\ Cardinality(keys \cup BodyKeys(op.body)) =
                Cardinality(keys) + Cardinality(BodyKeys(op.body)) - Cardinality(keys \cap BodyKeys(op.body))
          /\ Cardinality(keys) \in Nat /\ Cardinality(BodyKeys(op.body)) \in Nat
      BY <1>5, <1>6, FS_Union, FS_CardinalityType
    <2>3. Cardinality(keys \cap BodyKeys(op.body)) = 0
      BY <2>1, FS_EmptySet
    <2> QED BY <1>8, <2>2, <2>3
  <1>10. Len(e.parameters) = Cardinality(Keys(path, op))
    BY <1>1, <1>5, <1>6, <1>7, <1>9
  <1>11. {Key(p) : p \in Elements(e.parameters)} = Keys(path, op)
    <2>1. {Key(p) : p \in Elements(ps) \cup Elements(bs)} = keys \cup BodyKeys(op.body)
      BY <1>5, <1>6
    <2> QED BY <1>1, <1>7, <1>8, <2>1
  <1>12. \A p \in Elements(e.parameters) : p.in # "body" => p = InForce(path, op, Key(p))
    BY <1>1, <1>5, <1>6, <1>7
  <1>13. e.requiresAuth <=> ~MayCall(spec, op, {})
    BY <1>1, <1>3, Zenon
  <1>14. e.requiresAuth => \E a \in Alternatives(spec, op) : e.scheme \in a
    BY <1>1, <1>4
  <1>15. op = path.ops[e.method]
    BY <1>1 DEF op
  <1>16. Follows(spec, path, e)
    BY <1>10, <1>11, <1>12, <1>13, <1>14, <1>15, Zenon DEF Follows
  <1> QED BY <1>16 DEF e

\* Where the loop over paths and methods is at its m-th turn, and which turn is whose.
Row(m) == ((m - 1) \div Len(HttpMethods)) + 1
Column(m) == ((m - 1) % Len(HttpMethods)) + 1

\* Each row and column has its turn, and the rows come in order.
LEMMA Turns ==
  ASSUME NEW N \in Nat
  PROVE  /\ Len(HttpMethods) = 9 /\ DOMAIN HttpMethods = 1..9
         /\ \A a, b \in 1..9 : HttpMethods[a] = HttpMethods[b] => a = b
         /\ \A m \in 1..(N * 9) : Row(m) \in 1..N /\ Column(m) \in 1..9 /\ m = (Row(m) - 1) * 9 + Column(m)
         /\ \A a \in 1..N, b \in 1..9 : \E m \in 1..(N * 9) : Row(m) = a /\ Column(m) = b
         /\ \A l, m \in 1..(N * 9) : l < m => Row(l) <= Row(m)
  <1>1. Len(HttpMethods) = 9 /\ DOMAIN HttpMethods = 1..9
    BY DEF HttpMethods
  <1>2. \A a, b \in 1..9 : HttpMethods[a] = HttpMethods[b] => a = b
    BY DEF HttpMethods
  <1>3. ASSUME NEW m \in 1..(N * 9)
        PROVE  Row(m) \in 1..N /\ Column(m) \in 1..9 /\ m = (Row(m) - 1) * 9 + Column(m)
    <2>1. /\ ((m - 1) \div 9) + 1 \in 1..N /\ ((m - 1) % 9) + 1 \in 1..9
          /\ m = ((m - 1) \div 9) * 9 + ((m - 1) % 9) + 1
      OBVIOUS
    <2> QED BY <1>1, <2>1 DEF Row, Column
  <1>4. ASSUME NEW a \in 1..N, NEW b \in 1..9
        PROVE  \E m \in 1..(N * 9) : Row(m) = a /\ Column(m) = b
    <2> DEFINE m == (a - 1) * 9 + b
    <2>1. m \in 1..(N * 9) /\ ((m - 1) \div 9) + 1 = a /\ ((m - 1) % 9) + 1 = b
      OBVIOUS
    <2> HIDE DEF m
    <2> QED BY <1>1, <2>1 DEF Row, Column
  <1>5. ASSUME NEW l \in 1..(N * 9), NEW m \in 1..(N * 9), l < m
        PROVE  Row(l) <= Row(m)
    <2>1. ((l - 1) \div 9) + 1 <= ((m - 1) \div 9) + 1
      BY <1>5
    <2> QED BY <1>1, <2>1 DEF Row
  <1> QED BY <1>1, <1>2, <1>3, <1>4, <1>5

\* Load, for a whole document.
LEMMA LoadFollows ==
  ASSUME NEW spec, IsDocument(spec)
  PROVE  LET es == Load(spec) IN
         /\ \A i \in DOMAIN es :
              \E p \in spec.paths : /\ p.name = es[i].path /\ es[i].method \in DOMAIN p.ops
                                   /\ Follows(spec, p, es[i])
         /\ \A p \in spec.paths, m \in Elements(HttpMethods) : m \in DOMAIN p.ops =>
              Cardinality({i \in DOMAIN es : es[i].path = p.name /\ es[i].method = m}) = 1
         /\ \A i, j \in DOMAIN es : i < j => Earlier(es[i], es[j])
  <1> DEFINE S      == {p.name : p \in spec.paths}
             N      == Cardinality(S)
             names  == InOrder(S)
             sorted == [n \in DOMAIN names |-> CHOOSE p \in spec.paths : p.name = names[n]]
             slots  == [m \in 1..(Len(sorted) * Len(HttpMethods)) |->
                          [path   |-> sorted[((m - 1) \div Len(HttpMethods)) + 1],
                           method |-> HttpMethods[((m - 1) % Len(HttpMethods)) + 1]]]
             K      == {m \in DOMAIN slots : slots[m].method \in DOMAIN slots[m].path.ops}
             taken  == AtPlaces(slots, K)
             es     == [n \in DOMAIN taken |-> ToEndpoint(spec, taken[n].path, taken[n].method)]
  <1>1. Load(spec) = es
    BY DEF Load
  <1>2. S \subseteq Int /\ IsFiniteSet(S)
    <2>1. IsFiniteSet(spec.paths) /\ \A p, q \in spec.paths : p.name = q.name => p = q
      BY DEF IsDocument
    <2> DEFINE f == [p \in spec.paths |-> p.name]
    <2>2. f \in [spec.paths -> S] /\ (\A n \in S : \E p \in spec.paths : f[p] = n)
          /\ \A p, q \in spec.paths : f[p] = f[q] => p = q
      BY <2>1
    <2>3. S \subseteq Int
      BY DEF IsDocument
    <2> HIDE DEF f, S
    <2> QED BY <2>1, <2>2, <2>3, OneToOne
  <1>3. /\ N \in Nat /\ names \in [1..N -> S] /\ DOMAIN names = 1..N
        /\ \A i, j \in 1..N : i < j => names[i] < names[j]
        /\ \A x \in S : \E i \in 1..N : names[i] = x
    <2> HIDE DEF S
    <2> QED BY <1>2, InOrderLists
  <1>4. /\ sorted \in [1..N -> spec.paths] /\ Len(sorted) = N
        /\ \A n \in 1..N : sorted[n] \in spec.paths /\ sorted[n].name = names[n]
    <2>1. \A n \in 1..N : \E p \in spec.paths : p.name = names[n]
      BY <1>3
    <2> HIDE DEF names, N
    <2>2. \A n \in 1..N : sorted[n] \in spec.paths /\ sorted[n].name = names[n]
      BY <1>3, <2>1
    <2>3. sorted \in [1..N -> spec.paths]
      BY <1>3, <2>2
    <2> HIDE DEF sorted
    <2> QED BY <1>3, <2>2, <2>3
  <1>5. \A p \in spec.paths : \E n \in 1..N : sorted[n] = p
    <2> TAKE p \in spec.paths
    <2>1. PICK n \in 1..N : names[n] = p.name
      BY <1>3
    <2>2. sorted[n] \in spec.paths /\ sorted[n].name = p.name
      BY <1>4, <2>1
    <2> HIDE DEF sorted
    <2> QED BY <2>2 DEF IsDocument
  <1>6. /\ DOMAIN slots = 1..(N * 9)
        /\ \A m \in 1..(N * 9) : slots[m].path = sorted[Row(m)] /\ slots[m].method = HttpMethods[Column(m)]
    <2>1. Len(HttpMethods) = 9
      BY <1>3, Turns
    <2> HIDE DEF sorted, N
    <2> QED BY <1>4, <2>1 DEF Row, Column
  <1>7. K \subseteq Int /\ IsFiniteSet(K) /\ K \subseteq 1..(N * 9)
    <2> HIDE DEF slots, N
    <2>1. IsFiniteSet(1..(N * 9))
      <3>1. N * 9 \in Int /\ 1 \in Int
        BY <1>3
      <3> QED BY <3>1, FS_Interval
    <2>2. K \subseteq 1..(N * 9)
      BY <1>6
    <2>3. K \subseteq Int
      BY <1>3, <2>2
    <2> HIDE DEF K, es, taken, sorted
    <2>4. IsFiniteSet(K)
      BY <2>1, <2>2, FS_Subset
    <2> QED BY <2>2, <2>3, <2>4
  <1> DEFINE M == Cardinality(K)
             at == InOrder(K)
  <1>8. /\ M \in Nat /\ \A i \in 1..M : at[i] \in K
        /\ \A i, j \in 1..M : i < j => at[i] < at[j]
        /\ \A x \in K : \E i \in 1..M : at[i] = x
    <2> HIDE DEF K
    <2> QED BY <1>7, InOrderLists
  <1>9. /\ DOMAIN es = 1..M
        /\ \A i \in 1..M : es[i] = ToEndpoint(spec, slots[at[i]].path, slots[at[i]].method)
    <2> HIDE DEF slots, K
    <2>1. DOMAIN taken = 1..M /\ \A i \in 1..M : taken[i] = slots[at[i]]
      BY DEF AtPlaces
    <2> HIDE DEF taken, M, at
    <2> QED BY <2>1
  <1>10. ASSUME NEW i \in 1..M
         PROVE  /\ es[i] = ToEndpoint(spec, sorted[Row(at[i])], HttpMethods[Column(at[i])])
                /\ at[i] \in 1..(N * 9) /\ sorted[Row(at[i])] \in spec.paths
                /\ HttpMethods[Column(at[i])] \in DOMAIN sorted[Row(at[i])].ops
    <2>1. at[i] \in K /\ at[i] \in 1..(N * 9)
      BY <1>7, <1>8
    <2>2. Row(at[i]) \in 1..N
      BY <1>3, <2>1, Turns
    <2> HIDE DEF es, slots, at, M, sorted, N
    <2> QED BY <1>4, <1>6, <1>9, <2>1, <2>2
  <1> HIDE DEF es, slots, at, M, sorted, K, taken, names, N
  <1>11. \A i \in 1..M : es[i].path = names[Row(at[i])] /\ es[i].method = HttpMethods[Column(at[i])]
    <2> TAKE i \in 1..M
    <2> DEFINE p == sorted[Row(at[i])]
               m == HttpMethods[Column(at[i])]
    <2>1. es[i] = ToEndpoint(spec, p, m) /\ at[i] \in 1..(N * 9)
      BY <1>10
    <2> HIDE DEF p, m
    <2>2. es[i].path = p.name /\ es[i].method = m
      BY <2>1 DEF ToEndpoint
    <2>3. Row(at[i]) \in 1..N
      BY <1>3, <2>1, Turns
    <2> QED BY <1>4, <2>2, <2>3 DEF p, m
  <1>12. ASSUME NEW i \in DOMAIN es
         PROVE  \E p \in spec.paths : /\ p.name = es[i].path /\ es[i].method \in DOMAIN p.ops
                                     /\ Follows(spec, p, es[i])
    <2> DEFINE p == sorted[Row(at[i])]
               m == HttpMethods[Column(at[i])]
    <2>1. i \in 1..M /\ es[i] = ToEndpoint(spec, p, m) /\ p \in spec.paths /\ m \in DOMAIN p.ops
      BY <1>9, <1>10
    <2> HIDE DEF p, m
    <2>2. spec.security \in SecurityLists /\ IsParameters(p.params) /\ IsOperation(p.ops[m])
      BY <2>1 DEF IsDocument
    <2>3. Follows(spec, p, es[i])
      BY <2>1, <2>2, EndpointFollows
    <2>4. es[i].path = p.name /\ es[i].method = m
      BY <2>1 DEF ToEndpoint
    <2> QED BY <2>1, <2>3, <2>4
  <1>13. ASSUME NEW p \in spec.paths, NEW m \in Elements(HttpMethods), m \in DOMAIN p.ops
         PROVE  Cardinality({i \in DOMAIN es : es[i].path = p.name /\ es[i].method = m}) = 1
    <2>1. PICK a \in 1..N : sorted[a] = p
      BY <1>5
    <2>2. PICK b \in 1..9 : HttpMethods[b] = m
      BY <1>3, Turns DEF Elements
    <2>3. PICK t \in 1..(N * 9) : Row(t) = a /\ Column(t) = b
      BY <1>3, Turns
    <2>4. t \in K
      BY <1>6, <1>13, <2>1, <2>2, <2>3 DEF K
    <2>5. PICK i \in 1..M : at[i] = t
      BY <1>8, <2>4
    <2>6. es[i].path = p.name /\ es[i].method = m
      BY <1>4, <1>11, <2>1, <2>2, <2>3, <2>5
    <2>7. ASSUME NEW j \in 1..M, es[j].path = p.name, es[j].method = m
          PROVE  j = i
      <3>1. at[j] \in 1..(N * 9) /\ at[i] \in 1..(N * 9)
        BY <1>10
      <3>2. /\ Row(at[j]) \in 1..N /\ Column(at[j]) \in 1..9 /\ at[j] = (Row(at[j]) - 1) * 9 + Column(at[j])
            /\ Row(at[i]) \in 1..N /\ Column(at[i]) \in 1..9 /\ at[i] = (Row(at[i]) - 1) * 9 + Column(at[i])
        BY <1>3, <3>1, Turns
      <3>3. names[Row(at[j])] = names[Row(at[i])] /\ HttpMethods[Column(at[j])] = HttpMethods[Column(at[i])]
        BY <1>11, <2>6, <2>7
      <3>4. Column(at[j]) = Column(at[i])
        BY <1>3, <3>2, <3>3, Turns
      <3>5. Row(at[j]) = Row(at[i])
        <4>1. \A x, y \in 1..N : names[x] = names[y] => x = y
          <5>1. \A x \in 1..N : names[x] \in Int
            BY <1>2, <1>3
          <5> QED BY <1>3, <5>1
        <4> QED BY <3>2, <3>3, <4>1
      <3>6. at[j] = at[i]
        BY <3>2, <3>4, <3>5
      <3> QED BY <1>8, <3>1, <3>6
    <2>8. {l \in DOMAIN es : es[l].path = p.name /\ es[l].method = m} = {i}
      BY <1>9, <2>6, <2>7
    <2> QED BY <2>8, FS_Singleton
  <1>14. ASSUME NEW i \in DOMAIN es, NEW j \in DOMAIN es, i < j
         PROVE  Earlier(es[i], es[j])
    <2>1. i \in 1..M /\ j \in 1..M /\ at[i] < at[j]
      BY <1>8, <1>9, <1>14
    <2>2. Row(at[i]) \in 1..N /\ Row(at[j]) \in 1..N /\ Row(at[i]) <= Row(at[j])
      BY <1>3, <1>10, <2>1, Turns
    <2>3. \A x, y \in 1..N : names[x] \in Int /\ (x < y => names[x] < names[y])
      BY <1>2, <1>3
    <2>4. CASE Row(at[i]) < Row(at[j])
      <3>1. names[Row(at[i])] < names[Row(at[j])]
        BY <2>2, <2>3, <2>4
      <3> QED BY <1>11, <2>1, <3>1 DEF Earlier
    <2>5. CASE Row(at[i]) = Row(at[j])
      <3>1. /\ at[i] \in 1..(N * 9) /\ at[j] \in 1..(N * 9)
            /\ es[i].path = es[j].path
            /\ es[i].method = HttpMethods[Column(at[i])] /\ es[j].method = HttpMethods[Column(at[j])]
        BY <1>10, <1>11, <2>1, <2>5
      <3>2. /\ Column(at[i]) \in 1..9 /\ at[i] = (Row(at[i]) - 1) * 9 + Column(at[i])
            /\ Column(at[j]) \in 1..9 /\ at[j] = (Row(at[j]) - 1) * 9 + Column(at[j])
            /\ DOMAIN HttpMethods = 1..9
        BY <1>3, <3>1, Turns
      <3>3. Column(at[i]) < Column(at[j])
        <4> DEFINE base == (Row(at[i]) - 1) * 9
        <4>1. base \in Int /\ at[i] = base + Column(at[i]) /\ at[j] = base + Column(at[j])
          BY <2>2, <2>5, <3>2
        <4> HIDE DEF base
        <4> QED BY <2>1, <3>2, <4>1
      <3> QED BY <3>1, <3>2, <3>3 DEF Earlier
    <2> QED BY <2>2, <2>4, <2>5
  <1> QED BY <1>1, <1>12, <1>13, <1>14

\* What a scan takes from its document is what the document says.
THEOREM ImportIsFaithful == Spec => []ImportFollows
  <1>1. IInv => ImportFollows
    <2> SUFFICES ASSUME IInv, pc = "checks" PROVE ImportFollows
      BY DEF ImportFollows
    <2>1. endpoints = Load(doc)
      BY DEF IInv, Chosen, Imported
    <2>2. IsDocument(doc)
      BY PreflightAssumption DEF IInv, Started
    <2>3. /\ \A i \in DOMAIN endpoints :
               \E p \in doc.paths : /\ p.name = endpoints[i].path /\ endpoints[i].method \in DOMAIN p.ops
                                    /\ Follows(doc, p, endpoints[i])
          /\ \A p \in doc.paths, m \in Elements(HttpMethods) : m \in DOMAIN p.ops =>
               Cardinality({i \in DOMAIN endpoints : endpoints[i].path = p.name /\ endpoints[i].method = m}) = 1
          /\ \A i, j \in DOMAIN endpoints : i < j => Earlier(endpoints[i], endpoints[j])
      BY <2>1, <2>2, LoadFollows
    <2> QED BY <2>3, Zenon DEF ImportFollows
  <1> QED BY <1>1, InductiveInvariant, PTL
=============================================================================
