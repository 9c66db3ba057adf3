----------------------------- MODULE MCPreflight -----------------------------
(***************************************************************************)
(* Instances of Preflight for TLC: configurations with at most two faults  *)
(* or two unusual values, and documents whose security lists, parameters   *)
(* and bodies meet in every way that OpenAPI allows.                       *)
(***************************************************************************)
EXTENDS Preflight

\* A complete configuration with one account, and what each field may be instead.
OneAccount ==
  [version |-> 1, host |-> "target", allowed |-> {"target"}, login |-> TRUE, tokenPath |-> TRUE,
   other |-> FALSE, user |-> "ann", pass |-> Text("p"), secUser |-> NoText, secPass |-> Text(NoText),
   csrf |-> "none", workers |-> 2, rate |-> 5, burst |-> 1, timeout |-> 60, requestTimeout |-> 10,
   enabled |-> << 2, 1, 2 >>]

TwoAccounts == [OneAccount EXCEPT !.secUser = "bob", !.secPass = Text("q")]

NoAccount == [OneAccount EXCEPT !.login = FALSE, !.tokenPath = FALSE, !.user = NoText, !.pass = Text(NoText)]

Instead ==
  [version |-> {0}, host |-> {NoHost, "elsewhere"}, allowed |-> {{}, {"target", NoHost}},
   login |-> {FALSE}, tokenPath |-> {FALSE}, other |-> {TRUE},
   user |-> {NoText}, pass |-> {Text(NoText), Ref("V")},
   secUser |-> {NoText, "ann", "bob"}, secPass |-> {Text(NoText), Text("q"), Ref("W")},
   csrf |-> {"half", "whole"}, workers |-> {0}, rate |-> {0}, burst |-> {-1, 0}, timeout |-> {0},
   requestTimeout |-> {-1, 0, 61}, enabled |-> {<< >>, << 1, Unnamed >>, << 9 >>}]

Once(c) == {c} \cup UNION {{[c EXCEPT ![f] = v] : v \in Instead[f]} : f \in DOMAIN Instead}
Twice(c) == UNION {Once(d) : d \in Once(c)}
Configs == UNION {Twice(c) : c \in {OneAccount, TwoAccounts, NoAccount}}

\* Both variables hold text, neither is set, or one refers to another, set or not.
Plainly == [V |-> Text("p"), W |-> Text("q")]
Environments == {Plainly, [V |-> Unset, W |-> Unset], [V |-> Ref("W"), W |-> Text("q")],
                 [V |-> Text("p"), W |-> Ref("U"), U |-> Unset]}

\* The lists of security: nothing, a scheme, two at once, a choice, a free choice.
Lists == { << >>, << {1} >>, << {2, 1} >>, << {2}, {1} >>, << {2}, {} >> }
OwnLists == { << >> } \cup {<< l >> : l \in Lists}

Param(in, name, as) == [in |-> in, name |-> name, as |-> as]
\* No list has two parameters of one name and place: Validate refuses it.
Params ==
  { << >>, << Param("query", 1, "word") >>, << Param("query", 1, "number") >>,
    << Param("path", 1, "word"), Param("query", 1, "number") >>,
    << Param("query", 2, "word"), Param("query", 1, "word") >> }

Op(security, params, body) == [security |-> security, params |-> params, body |-> body]
Path(name, params, ops) == [name |-> name, params |-> params, ops |-> ops]
Plain1 == Path(1, << >>, [POST |-> Op(<< << {1} >> >>, << >>, {2, 1})])

Document(security, path) == [security |-> security, paths |-> {path, Plain1}]

Secured ==
  {Document(l, Path(2, << >>, [GET |-> Op(o, << >>, {}), DELETE |-> Op(p, << >>, {})])) :
     l \in Lists, o \in OwnLists, p \in OwnLists}
Declared ==
  {Document(<< >>, Path(2, ps, [GET |-> Op(<< >>, qs, {}), PUT |-> Op(<< >>, << >>, b)])) :
     ps \in Params, qs \in Params, b \in {{}, {1}, {1, 2}}}

Public == [security |-> << >>, paths |-> {Path(1, << >>, [GET |-> Op(<< >>, << >>, {})])}]
Protected == [security |-> << {1} >>, paths |-> {Path(1, << >>, [GET |-> Op(<< >>, << >>, {})])}]
Bare == [security |-> << >>, paths |-> {}]

Start(k, c, d, i, e) == [command |-> k, cfg |-> c, doc |-> d, input |-> i, env |-> e]
MCJobs ==
  {Start("scan", c, d, "empty", e) : c \in Configs, d \in {Public, Protected}, e \in Environments}
    \cup {Start("attack", c, Bare, i, e) : c \in Configs, i \in {"public", "protected"}, e \in Environments}
    \cup {Start("attack", c, Bare, i, Plainly) : c \in Once(TwoAccounts), i \in {"unreadable", "empty"}}
    \cup {Start("scan", c, d, "empty", Plainly) :
            c \in {OneAccount, NoAccount}, d \in Secured \cup Declared \cup {Bare}}
=============================================================================
