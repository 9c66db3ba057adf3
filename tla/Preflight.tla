------------------------------ MODULE Preflight ------------------------------
(***************************************************************************)
(* How scan and attack get under way: runScan and runAttack of             *)
(* cmd/warden/main.go up to the first request of the engine or of a        *)
(* confirmer.  What they hold then is what the other modules start from.   *)
(*                                                                         *)
(* Each client is a guarded httpclient.Client, and two of them may have a  *)
(* cookie jar; each account that logs in puts its session into the jar of  *)
(* the client it logs in through and its token into its Authenticator.     *)
(***************************************************************************)
EXTENDS Settings, SpecImport

CONSTANT
  Jobs   \* what may be started: [command, cfg, doc, input, env]; input tells whether the
         \* findings file is unreadable, empty, or about public or protected routes, and
         \* env gives each variable a value or Unset

\* Configurations are records of their fields; a password is text or refers to a
\* variable that the environment sets or leaves unset.
ASSUME PreflightAssumption ==
  \A j \in Jobs :
    /\ j.command \in {"scan", "attack"}
    /\ DOMAIN j.cfg = ConfigFields
    /\ \A f \in {"workers", "rate", "burst", "timeout", "requestTimeout"} : j.cfg[f] \in Int
    /\ j.cfg.enabled \in Seq(Nat)
    /\ \A f \in {"pass", "secPass"} :
         j.cfg[f].kind = "text" \/ (j.cfg[f].kind = "ref" /\ j.cfg[f].is \in DOMAIN j.env)
    /\ IsDocument(j.doc)

VARIABLES
  command, cfg, doc, input, env,   \* what the user has started, and with what
  pc,
  settings,    \* the configuration as Load returned it
  endpoints,   \* the endpoints as Load returned them
  clients,     \* the identities: [default, secondary]
  jar,         \* the cookies of each client's jar
  engine,      \* what the limiter and the pool are made with
  sent         \* history: the logins sent, [as, password]

vars == <<command, cfg, doc, input, env, pc, settings, endpoints, clients, jar, engine, sent>>

Nobody == ""
Jars == {"shared", "first", "second"}

\* An identity: the client below it and the account whose token it adds.
Plain == [client |-> "shared", token |-> Nobody]
None  == [client |-> "none", token |-> Nobody]
NoEngine == [workers |-> 0, rate |-> 0, burst |-> 0, requestTimeout |-> 0]
DefaultRequestTimeout == 30
-----------------------------------------------------------------------------
Init ==
  /\ \E j \in Jobs : /\ command = j.command /\ cfg = j.cfg /\ doc = j.doc
                    /\ input = j.input /\ env = j.env
  /\ pc = "load"
  /\ settings = cfg /\ endpoints = << >>
  /\ clients = [default |-> Plain, secondary |-> None]
  /\ jar = [j \in Jars |-> Nobody]
  /\ engine = NoEngine /\ sent = << >>

Job == <<command, cfg, doc, input, env>>
Made == <<settings, endpoints, clients, jar, engine, sent>>

\* The run ends with an error about what the user has given it.
Refuse == pc' = "refused" /\ UNCHANGED Made

LoadConfig ==
  /\ pc = "load"
  /\ LET s == Expanded(cfg, env) IN
     IF Missing(s) \/ ~Valid(s) THEN Refuse
     ELSE /\ settings' = s
          /\ pc' = IF command = "scan" THEN "spec" ELSE "findings"
          /\ UNCHANGED <<endpoints, clients, jar, engine, sent>>
  /\ UNCHANGED Job

\* openapi.Load, which may find no file, or one that is not OpenAPI; and a
\* document without operations.
ImportSpec ==
  /\ pc = "spec"
  /\ \/ Refuse
     \/ /\ Load(doc) # << >>
        /\ endpoints' = Load(doc)
        /\ pc' = "checks"
        /\ UNCHANGED <<settings, clients, jar, engine, sent>>
  /\ UNCHANGED Job

EnableChecks ==
  /\ pc = "checks"
  /\ IF Unknown(settings) # {} THEN Refuse ELSE pc' = "auth" /\ UNCHANGED Made
  /\ UNCHANGED Job

\* readFindings; without findings there is nothing to get under way for.
ReadFindings ==
  /\ pc = "findings"
  /\ CASE input = "unreadable" -> Refuse
       [] input = "empty"      -> pc' = "done" /\ UNCHANGED Made
       [] OTHER                -> pc' = "auth" /\ UNCHANGED Made
  /\ UNCHANGED Job

\* countRequiringAuth, countFindingsRequiringAuth.
NeedsAuth ==
  IF command = "scan" THEN \E i \in DOMAIN endpoints : endpoints[i].requiresAuth
                      ELSE input = "protected"

\* auth.New, which expands the password once more.
Rejects(password) ==
  ~settings.login \/ ~settings.tokenPath \/ settings.csrf = "half" \/ Expand(password, env) = Unset

First == [as |-> settings.user, password |-> Expand(settings.pass, env)]

\* Faulty variant: the second account logs in with what the first one has.
SecondAsFirst == [as |-> settings.user, password |-> Expand(settings.secPass, env)]

Second == [as |-> settings.secUser, password |-> Expand(settings.secPass, env)]

BuildFirst ==
  /\ pc = "auth"
  /\ IF ~NeedsAuth THEN pc' = "secondary" /\ UNCHANGED Made
     ELSE IF ~Configured(settings) \/ Rejects(settings.pass) THEN Refuse
     ELSE pc' = "login" /\ UNCHANGED Made
  /\ UNCHANGED Job

BuildSecond ==
  /\ pc = "secondary"
  /\ IF ~HasSecondary(settings) THEN pc' = "engine" /\ UNCHANGED Made
     ELSE IF Rejects(settings.secPass) THEN Refuse
     ELSE pc' = "secondaryLogin" /\ UNCHANGED Made
  /\ UNCHANGED Job

\* Faulty variant: both accounts log in through one client.
ClientOfEither(who) == "first"

\* newAuthHTTPClient: a client, and a jar, for each account.
ClientOf(who) == IF who = "default" THEN "first" ELSE "second"

\* Authenticate.  The answer's cookie goes to the client's jar, the token to the
\* Authenticator.
Authenticate(who, account) ==
  /\ sent' = Append(sent, account)
  /\ clients' = [clients EXCEPT ![who] = [client |-> ClientOf(who), token |-> account.as]]
  /\ jar' = [jar EXCEPT ![ClientOf(who)] = account.as]
  /\ UNCHANGED <<settings, endpoints, engine>>

LoginFirst ==
  /\ pc = "login" /\ pc' = "secondary"
  /\ Authenticate("default", First) /\ UNCHANGED Job

LoginSecond ==
  /\ pc = "secondaryLogin" /\ pc' = "engine"
  /\ Authenticate("secondary", Second) /\ UNCHANGED Job

\* A login may get no answer, a refusal or an answer without a token.
LoginFails ==
  /\ pc \in {"login", "secondaryLogin"}
  /\ pc' = "failed"
  /\ sent' = Append(sent, IF pc = "login" THEN First ELSE Second)
  /\ UNCHANGED <<Job, settings, endpoints, clients, jar, engine>>

\* Faulty variant: the configured burst is taken as it is.
EngineOfAsGiven(s) ==
  [workers |-> s.workers, rate |-> s.rate, burst |-> s.burst,
   requestTimeout |-> IF s.requestTimeout > 0 THEN s.requestTimeout ELSE DefaultRequestTimeout]

\* engine.New, or NewRateLimitedClients, and requestTimeout.
EngineOf(s) ==
  [workers |-> s.workers, rate |-> s.rate, burst |-> IF s.burst < 1 THEN 1 ELSE s.burst,
   requestTimeout |-> IF s.requestTimeout > 0 THEN s.requestTimeout ELSE DefaultRequestTimeout]

StartEngine ==
  /\ pc = "engine"
  /\ IF command = "scan" /\ (settings.host = NoHost \/ settings.workers <= 0 \/ settings.rate <= 0)
     THEN Refuse
     ELSE /\ engine' = EngineOf(settings)
          /\ pc' = "ready"
          /\ UNCHANGED <<settings, endpoints, clients, jar, sent>>
  /\ UNCHANGED Job

Over == pc \in {"ready", "done", "refused", "failed"} /\ UNCHANGED vars

Next ==
  \/ LoadConfig \/ ImportSpec \/ EnableChecks \/ ReadFindings
  \/ BuildFirst \/ LoginFirst \/ BuildSecond \/ LoginSecond \/ LoginFails
  \/ StartEngine \/ Over

Spec == Init /\ [][Next]_vars
-----------------------------------------------------------------------------
\* The scanner's view of the document is the document's: which operations may be
\* called without credentials, whatever the document and the operation say in
\* turn; which parameters they take and which declaration of each is in force;
\* each operation once, and in an order of paths and methods that does not depend
\* on the document's.
ImportFollows ==
  pc = "checks" =>
    /\ \A i \in DOMAIN endpoints :
         \E p \in doc.paths : /\ p.name = endpoints[i].path
                              /\ endpoints[i].method \in DOMAIN p.ops
                              /\ Follows(doc, p, endpoints[i])
    /\ \A p \in doc.paths, m \in Elements(HttpMethods) : m \in DOMAIN p.ops =>
         Cardinality({i \in DOMAIN endpoints :
                        endpoints[i].path = p.name /\ endpoints[i].method = m}) = 1
    /\ \A i, j \in DOMAIN endpoints : i < j => Earlier(endpoints[i], endpoints[j])

\* An environment in which no variable holds a reference in its turn.
PlainEnv == \A v \in DOMAIN env : env[v].kind # "ref"

\* What can be refused is refused before the target sees anything (main.go:191-192,
\* "before spending a single request"; README.md:32): by a run with every error in
\* its files that Load, the registry, auth.New or engine.New know of.  It takes an
\* environment without references: auth.New expands the second account's password
\* once more, after the first account has logged in.
RequestsComeLast == pc = "refused" /\ PlainEnv => sent = << >>

\* The identities are who they are said to be.  Default has logged in exactly when
\* something needs it, as the account and with the password of the file; Secondary
\* is there exactly when a second account is, is another one, and neither a token
\* nor a cookie of one rides along with the other, or with Anonymous.
IdentitiesAsDeclared ==
  pc = "ready" =>
    /\ clients.default.token = IF NeedsAuth THEN cfg.user ELSE Nobody
    /\ NeedsAuth => cfg.user # Nobody
    /\ clients.secondary # None <=> HasSecondary(settings)
    /\ clients.secondary # None => clients.secondary.token = cfg.secUser /\ cfg.secUser # cfg.user
    /\ jar["shared"] = Nobody
    /\ \A who \in {"default", "secondary"} :
         clients[who] \notin {Plain, None} => jar[clients[who].client] = clients[who].token
    /\ PlainEnv => \A i \in DOMAIN sent :
         sent[i].password = Expand(IF sent[i].as = cfg.user THEN cfg.pass ELSE cfg.secPass, env)

\* What the engine and the attack start from is what the models of them assume: a
\* pool that is not empty, a limiter that lets requests pass, a bound on each of
\* them, a target inside the allowlist, checks and endpoints.
ReadyIsSound ==
  pc = "ready" =>
    /\ engine.workers >= 1 /\ engine.rate > 0 /\ engine.burst >= 1
    /\ engine.requestTimeout > 0 /\ settings.timeout > 0
    /\ settings.host \in settings.allowed /\ NoHost \notin settings.allowed
    /\ command = "scan" =>
         /\ endpoints # << >>
         /\ EnabledChecks(settings) # << >>
         /\ Elements(EnabledChecks(settings)) \subseteq Registered
=============================================================================
