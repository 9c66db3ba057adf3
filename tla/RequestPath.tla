---------------------------- MODULE RequestPath ----------------------------
(***************************************************************************)
(* The way of a request from a check or a confirmer to the target: the     *)
(* rate limiter (rateLimitedClient, internal/core/engine), an identity's   *)
(* Authenticator or none (internal/core/auth), and the guarded client      *)
(* (internal/adapters/httpclient over internal/core/scope), which follows  *)
(* redirects by itself.                                                    *)
(*                                                                         *)
(* Module Authenticator has the Authenticator in full; here of its         *)
(* generations only the order is kept: whether a call's token has been     *)
(* replaced since the call read it.  Every Authenticator has logged in     *)
(* before the first call, as runScan and runAttack see to.  Time passes in *)
(* ticks, one token of the limiter each.                                   *)
(***************************************************************************)
EXTENDS Integers, FiniteSets

CONSTANTS
  Calls,          \* the goroutines that may have a call under way
  Identities,     \* Default, Anonymous and Secondary of model.Clients
  LoggedIn,       \* those with an Authenticator
  Hosts, Allowed, \* hosts, and scope.allowed_hosts
  Target,         \* the host of target.base_url
  Burst,          \* engine.burst
  Horizon         \* engine.timeout, in ticks: a bound of the model

ASSUME PathAssumption ==
  /\ LoggedIn \subseteq Identities
  /\ Allowed \subseteq Hosts /\ Target \in Allowed      \* validateScope
  /\ Burst \in Nat \ {0} /\ Horizon \in Nat
  /\ IsFiniteSet(Calls)

\* Faulty variant: every identity gets a limiter of its own.
LimiterOfEach(i) == i

\* Both New and NewRateLimitedClients make one limiter for all identities.
LimiterOf(i) == "limiter"
Limiters == {LimiterOf(i) : i \in Identities}

VARIABLES
  now, interrupted,  \* the time; Ctrl+C
  tokens,            \* of each limiter; negative when calls have reserved ahead
  pc, id, host, at,  \* a call: where it is, as whom, to where, and when its turn is
  part,              \* the exchange of a call under way: first, login or retry
  holder,            \* loginMu of each Authenticator
  outdated,          \* the calls whose token has been replaced since they read it
  paced,             \* history: how many calls the limiter has let through
  spent,             \* history: what a call has sent, without redirect hops
  wire               \* history: the hosts requests have gone out to

vars == <<now, interrupted, tokens, pc, id, host, at, part, holder, outdated, paced, spent, wire>>
request == <<id, host, at, part, holder, outdated, spent>>

\* ScopeGuard.Check: an exact match against the allowlist.
Allows(h) == h \in Allowed

Nobody == "nobody"
NothingSpent == [attempts |-> 0, logins |-> 0]
Ended == interrupted \/ now = Horizon
LeastOf(a, b) == IF a <= b THEN a ELSE b

Init ==
  /\ now = 0 /\ interrupted = FALSE
  /\ tokens = [l \in Limiters |-> Burst]
  /\ pc = [c \in Calls |-> "idle"] /\ id = [c \in Calls |-> Nobody]
  /\ host = [c \in Calls |-> Target] /\ at = [c \in Calls |-> 0]
  /\ part = [c \in Calls |-> "first"]
  /\ holder = [i \in LoggedIn |-> Nobody]
  /\ outdated = {}
  /\ paced = 0
  /\ spent = [c \in Calls |-> NothingSpent]
  /\ wire = {}

\* The call returns, releasing loginMu if it has it.
Forget(c) ==
  /\ pc' = [pc EXCEPT ![c] = "idle"] /\ id' = [id EXCEPT ![c] = Nobody]
  /\ host' = [host EXCEPT ![c] = Target] /\ at' = [at EXCEPT ![c] = 0]
  /\ part' = [part EXCEPT ![c] = "first"]
  /\ outdated' = outdated \ {c}
  /\ spent' = [spent EXCEPT ![c] = NothingSpent]

Return(c) ==
  /\ Forget(c)
  /\ holder' = [i \in LoggedIn |-> IF holder[i] = c THEN Nobody ELSE holder[i]]
-----------------------------------------------------------------------------
\* A check has a request sent as i.  Its URL is under base_url in a scan; attack
\* takes it from findings.json, where any host may stand.  Wait reserves the next
\* token, or refuses when that token comes after the deadline.
Ask(c) ==
  /\ pc[c] = "idle" /\ ~Ended
  /\ \E i \in Identities, h \in Hosts :
       LET left == tokens[LimiterOf(i)] - 1
           turn == IF left >= 0 THEN now ELSE now - left IN
       /\ turn <= Horizon
       /\ tokens' = [tokens EXCEPT ![LimiterOf(i)] = left]
       /\ id' = [id EXCEPT ![c] = i] /\ host' = [host EXCEPT ![c] = h]
       /\ at' = [at EXCEPT ![c] = turn]
  /\ pc' = [pc EXCEPT ![c] = "wait"]
  /\ UNCHANGED <<now, interrupted, part, holder, outdated, spent, paced, wire>>

\* Its turn has come; the identity's token is read next (currentToken).
Pass(c) ==
  /\ pc[c] = "wait" /\ now >= at[c]
  /\ pc' = [pc EXCEPT ![c] = "send"]
  /\ paced' = paced + 1
  /\ outdated' = outdated \ {c}
  /\ UNCHANGED <<now, interrupted, tokens, id, host, at, part, holder, spent, wire>>

\* The context ends first.  The reservation given back buys nothing: nobody asks
\* any more.
Abandon(c) ==
  /\ pc[c] = "wait" /\ Ended
  /\ Return(c)
  /\ UNCHANGED <<now, interrupted, tokens, paced, wire>>
-----------------------------------------------------------------------------
\* Client.Do: the guard, then the wire.
Send(c) ==
  /\ pc[c] = "send"
  /\ \/ /\ Allows(host[c])
        /\ pc' = [pc EXCEPT ![c] = "flight"]
        /\ wire' = wire \cup {host[c]}
        /\ spent' = [spent EXCEPT ![c].attempts = @ + 1]
        /\ UNCHANGED <<id, host, at, part, holder, outdated>>
     \/ ~Allows(host[c]) /\ Return(c) /\ UNCHANGED wire
  /\ UNCHANGED <<now, interrupted, tokens, paced>>

\* Faulty variant: only the first request of a chain is checked.
RedirectUnchecked(c) ==
  /\ pc[c] = "flight"
  /\ \E h \in Hosts : wire' = wire \cup {h}
  /\ UNCHANGED <<now, interrupted, tokens, pc, request, paced>>

\* A redirect: CheckRedirect lets the hop go out or ends the exchange.  No hop is
\* paced, and none is counted: net/http's own limit went with its CheckRedirect.
Redirect(c) ==
  /\ pc[c] = "flight"
  /\ \E h \in Hosts :
       \/ Allows(h) /\ wire' = wire \cup {h} /\ UNCHANGED <<pc, request>>
       \/ ~Allows(h) /\ Return(c) /\ UNCHANGED wire
  /\ UNCHANGED <<now, interrupted, tokens, paced>>

\* Faulty variant: a login that fails keeps loginMu.
FinishLocked(c) ==
  /\ pc[c] = "flight"
  /\ Forget(c)
  /\ UNCHANGED <<now, interrupted, tokens, holder, paced, wire>>

\* The exchange ends the call: with an answer it hands on (anything without an
\* Authenticator, anything but a 401 to the first attempt, anything at all to the
\* retry), with a login that is not granted, or without an answer, by the request
\* timeout, the context or the network.
Finish(c) ==
  /\ pc[c] = "flight"
  /\ Return(c)
  /\ UNCHANGED <<now, interrupted, tokens, paced, wire>>
-----------------------------------------------------------------------------
\* Faulty variant: a 401 to the retry is taken for a 401 to the first attempt.
UnauthorizedAgain(c) ==
  /\ pc[c] = "flight" /\ part[c] \in {"first", "retry"} /\ id[c] \in LoggedIn
  /\ pc' = [pc EXCEPT ![c] = "renew"]
  /\ UNCHANGED <<now, interrupted, tokens, request, paced, wire>>

\* The first attempt is answered 401.
Unauthorized(c) ==
  /\ pc[c] = "flight" /\ part[c] = "first" /\ id[c] \in LoggedIn
  /\ pc' = [pc EXCEPT ![c] = "renew"]
  /\ UNCHANGED <<now, interrupted, tokens, request, paced, wire>>

\* reAuth, once it has loginMu: another call has logged in meanwhile, and the
\* retry goes out with that token, or this call logs in.
Reuse(c) ==
  /\ pc[c] = "renew" /\ holder[id[c]] = Nobody /\ c \in outdated
  /\ pc' = [pc EXCEPT ![c] = "send"] /\ part' = [part EXCEPT ![c] = "retry"]
  /\ UNCHANGED <<now, interrupted, tokens, id, host, at, holder, outdated, paced, spent, wire>>

Renew(c) ==
  /\ pc[c] = "renew" /\ holder[id[c]] = Nobody /\ c \notin outdated
  /\ holder' = [holder EXCEPT ![id[c]] = c]
  /\ pc' = [pc EXCEPT ![c] = "login"] /\ part' = [part EXCEPT ![c] = "login"]
  /\ UNCHANGED <<now, interrupted, tokens, id, host, at, outdated, paced, spent, wire>>

\* login: to base_url, below the limiter.  One request stands for it and for the
\* CSRF fetch before it.
SendLogin(c) ==
  /\ pc[c] = "login"
  /\ pc' = [pc EXCEPT ![c] = "flight"]
  /\ wire' = wire \cup {Target}
  /\ spent' = [spent EXCEPT ![c].logins = @ + 1]
  /\ UNCHANGED <<now, interrupted, tokens, id, host, at, part, holder, outdated, paced>>

\* The token is stored, the calls under way as this identity hold an old one, and
\* the retry goes out past the limiter.
Granted(c) ==
  /\ pc[c] = "flight" /\ part[c] = "login"
  /\ holder' = [holder EXCEPT ![id[c]] = Nobody]
  /\ outdated' = outdated \cup {d \in Calls : id[d] = id[c] /\ pc[d] # "idle"}
  /\ pc' = [pc EXCEPT ![c] = "send"] /\ part' = [part EXCEPT ![c] = "retry"]
  /\ UNCHANGED <<now, interrupted, tokens, id, host, at, paced, spent, wire>>
-----------------------------------------------------------------------------
Tick ==
  /\ now < Horizon
  /\ now' = now + 1
  /\ tokens' = [l \in Limiters |-> LeastOf(Burst, tokens[l] + 1)]
  /\ UNCHANGED <<interrupted, pc, request, paced, wire>>

Interrupt ==
  /\ ~Ended
  /\ interrupted' = TRUE
  /\ UNCHANGED <<now, tokens, pc, request, paced, wire>>

Proceed(c) ==
  \/ Pass(c) \/ Abandon(c) \/ Send(c) \/ Finish(c)
  \/ Reuse(c) \/ Renew(c) \/ SendLogin(c)

Reply(c) == Redirect(c) \/ Unauthorized(c) \/ Granted(c)

\* Nothing more is asked; that every call is back by then is for Returns to say.
Exited == Ended /\ UNCHANGED vars

Next == (\E c \in Calls : Ask(c) \/ Proceed(c) \/ Reply(c)) \/ Tick \/ Interrupt \/ Exited

\* Goroutines run on and time passes.  A target need not answer: what ends an
\* exchange without it is the request timeout, in Finish.
Fairness == WF_vars(Tick) /\ \A c \in Calls : WF_vars(Proceed(c))
Spec == Init /\ [][Next]_vars /\ Fairness
-----------------------------------------------------------------------------
\* The types; and of a call, that whatever the target answers it puts no more
\* than one attempt, one login and one retry on the wire (auth.go:171-176).
TypeOK ==
  /\ now \in 0..Horizon /\ interrupted \in BOOLEAN
  /\ tokens \in [Limiters -> Int] /\ \A l \in Limiters : tokens[l] <= Burst
  /\ pc \in [Calls -> {"idle", "wait", "send", "flight", "renew", "login"}]
  /\ id \in [Calls -> Identities \cup {Nobody}] /\ host \in [Calls -> Hosts] /\ at \in [Calls -> 0..Horizon]
  /\ part \in [Calls -> {"first", "login", "retry"}]
  /\ holder \in [LoggedIn -> Calls \cup {Nobody}]
  /\ outdated \subseteq Calls
  /\ paced \in Nat
  /\ spent \in [Calls -> [attempts : 0..2, logins : 0..1]]
  /\ wire \subseteq Hosts

\* No request reaches a host outside the allowlist: not the first, not a hop of a
\* redirect chain, not a login, not the retry after one.
InScope == wire \subseteq Allowed

\* "A second client must not buy a second request budget" (engine.go:148-151):
\* together the identities are let through no more often than one limiter's burst
\* and the time passed allow, however many calls wait or are given up.
OneBudget == paced <= Burst + now

\* Every call returns.  A call queued on loginMu does not hear the context, so
\* this rests on whoever holds it.
Returns == \A c \in Calls : pc[c] # "idle" ~> pc[c] = "idle"
=============================================================================
