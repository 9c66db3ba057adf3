------------------------------ MODULE Settings ------------------------------
(***************************************************************************)
(* What config.yaml may say and which of it passes: expandTree and         *)
(* validate of internal/adapters/config, Expand of internal/envexpand,     *)
(* Enabled of internal/checks/registry.go.                                 *)
(*                                                                         *)
(* A configuration is a record of its fields.  Of base_url the model keeps *)
(* its host; of the passwords whether they are text or a reference to the  *)
(* environment, which any scalar of the file may be; method, token_header, *)
(* token_prefix, username_field and extra_headers are one field, other.    *)
(***************************************************************************)
EXTENDS Sequences, Ordering

CONSTANTS
  Registered,   \* the names of the registered checks, numbers in lexical order
  NoHost        \* a base_url that is missing, or not absolute

Unnamed == 0    \* an empty entry of checks.enabled
NoText == ""

ASSUME SettingsAssumption == Registered \subseteq Nat \ {Unnamed}

ConfigFields ==
  {"version", "host", "allowed", "login", "tokenPath", "other", "user", "pass", "secUser", "secPass",
   "csrf", "workers", "rate", "burst", "timeout", "requestTimeout", "enabled"}

Text(t) == [kind |-> "text", is |-> t]
Ref(v)  == [kind |-> "ref", is |-> v]
Unset == [kind |-> "unset", is |-> NoText]

\* Expand: one pass.  What the environment holds is not looked at again.
Expand(value, env) == IF value.kind = "ref" THEN env[value.is] ELSE value

\* expandTree.
Expanded(cfg, env) ==
  [cfg EXCEPT !.pass = Expand(@, env), !.secPass = Expand(@, env)]
Missing(cfg) == cfg.pass = Unset \/ cfg.secPass = Unset

Given(value) == value # Text(NoText)

HasSecondary(cfg) == cfg.secUser # NoText \/ Given(cfg.secPass)
Configured(cfg) == cfg.login

\* The secondary account is not among the fields asked for.
AnyFieldSet(cfg) ==
  cfg.login \/ cfg.other \/ cfg.tokenPath \/ cfg.user # NoText \/ Given(cfg.pass) \/ cfg.csrf # "none"

ValidTarget(cfg) == cfg.host # NoHost

ValidScope(cfg) ==
  /\ cfg.allowed # {} /\ NoHost \notin cfg.allowed
  /\ ValidTarget(cfg) => cfg.host \in cfg.allowed

ValidAuth(cfg) ==
  AnyFieldSet(cfg) =>
    /\ cfg.login /\ cfg.tokenPath /\ cfg.user # NoText /\ Given(cfg.pass)
    /\ HasSecondary(cfg) =>
         cfg.secUser # NoText /\ Given(cfg.secPass) /\ cfg.secUser # cfg.user
    /\ cfg.csrf # "half"

\* Faulty variant: the pool may be empty.
ValidEngineAnyPool(cfg) ==
  /\ cfg.workers >= 0 /\ cfg.rate > 0 /\ cfg.burst >= 0
  /\ cfg.timeout > 0 /\ cfg.requestTimeout >= 0
  /\ cfg.requestTimeout <= cfg.timeout

ValidEngine(cfg) ==
  /\ cfg.workers > 0 /\ cfg.rate > 0 /\ cfg.burst >= 0
  /\ cfg.timeout > 0 /\ cfg.requestTimeout >= 0
  /\ cfg.requestTimeout <= cfg.timeout

Names(cfg) == {cfg.enabled[i] : i \in DOMAIN cfg.enabled}
ValidChecks(cfg) == cfg.enabled # << >> /\ Unnamed \notin Names(cfg)

Valid(cfg) ==
  /\ cfg.version = 1
  /\ ValidTarget(cfg) /\ ValidScope(cfg) /\ ValidAuth(cfg) /\ ValidEngine(cfg) /\ ValidChecks(cfg)

\* Enabled: each name once, in order, or none at all.
Unknown(cfg) == Names(cfg) \ Registered
EnabledChecks(cfg) == InOrder(Names(cfg))
=============================================================================
