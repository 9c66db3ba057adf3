--------------------------- MODULE Authenticator ---------------------------
(***************************************************************************)
(* internal/core/auth/auth.go: the HTTP client that carries the session    *)
(* credential.  The workers of the pool call Do concurrently on one        *)
(* Authenticator; a 401 makes a caller log in again, serialised by loginMu *)
(* and collapsed by the generation counter gen, and retry once.            *)
(*                                                                         *)
(* The target is external: it issues a new token per login, accepts the    *)
(* tokens in valid, and may drop one at any time.  Tokens are numbered in  *)
(* the order the target issues them; 0 is the empty token.                 *)
(***************************************************************************)
EXTENDS Naturals, FiniteSets

CONSTANTS
  Callers,    \* the goroutines that share the Authenticator
  Nobody,     \* no goroutine holds loginMu
  MaxCalls,   \* bound: calls of Do each of them makes
  MaxIssued,  \* bound: tokens the target issues
  MaxExpiry   \* bound: tokens the target drops by itself

ASSUME AuthAssumption ==
  /\ Nobody \notin Callers
  /\ MaxCalls \in Nat /\ MaxIssued \in Nat /\ MaxExpiry \in Nat

VARIABLES
  token, gen,   \* the credential held and its generation, guarded by mu
  loginMu,      \* who holds the login mutex
  pc,           \* where each caller is in Do
  used, stale,  \* Do's token and gen: what it sent and the generation it read
  cold,         \* the reAuth under way is the one for an empty token
  fresh,        \* the token reAuth returned, or a login's answer not stored yet
  route,        \* "closed" if the target answers this request 401 regardless
  calls,        \* calls of Do each caller has begun
  issued, valid,  \* the target: tokens issued so far, and those it accepts
  expired,        \* how many it dropped by itself
  eager,          \* the process logged in before the first Do, as cmd/warden does
  causes          \* history: events that make a new login necessary

target == <<issued, valid, expired>>
local  == <<used, stale, cold, fresh, route>>
vars   == <<token, gen, loginMu, pc, used, stale, cold, fresh, route, calls,
            issued, valid, expired, eager, causes>>

Places == {"idle", "attempt", "reauth", "login", "answered", "reread", "retry"}
Init ==
  /\ token = 0 /\ gen = 0
  /\ loginMu = Nobody
  /\ pc = [c \in Callers |-> "idle"]
  /\ used = [c \in Callers |-> 0]
  /\ stale = [c \in Callers |-> 0]
  /\ cold = [c \in Callers |-> FALSE]
  /\ fresh = [c \in Callers |-> 0]
  /\ route = [c \in Callers |-> "open"]
  /\ calls = [c \in Callers |-> 0]
  /\ issued = 0 /\ valid = {} /\ expired = 0
  /\ eager = FALSE
  /\ causes = 0

\* The target accepts the credentials and issues a token; if it keeps one
\* session per account, that revokes the earlier ones.
Issue ==
  /\ issued < MaxIssued
  /\ issued' = issued + 1
  /\ valid' \in {valid \cup {issued'}, {issued'}}
  /\ UNCHANGED expired

Move(c, place) == pc' = [pc EXCEPT ![c] = place]

\* Do returns: its locals are gone.
Finish(c) ==
  /\ Move(c, "idle")
  /\ used' = [used EXCEPT ![c] = 0]
  /\ stale' = [stale EXCEPT ![c] = 0]
  /\ cold' = [cold EXCEPT ![c] = FALSE]
  /\ fresh' = [fresh EXCEPT ![c] = 0]
  /\ route' = [route EXCEPT ![c] = "open"]
-----------------------------------------------------------------------------
\* Authenticate: the login at startup, before any goroutine calls Do; it takes
\* no mutex.  A failed one changes nothing.
Authenticate ==
  /\ \A c \in Callers : calls[c] = 0
  /\ ~eager
  /\ Issue
  /\ token' = issued'
  /\ gen' = gen + 1
  /\ eager' = TRUE
  /\ UNCHANGED <<loginMu, pc, local, calls, causes>>

\* Do begins: token, gen := currentToken(), under mu.  With no token yet it
\* goes to reAuth first.
Begin(c) ==
  /\ pc[c] = "idle"
  /\ calls[c] < MaxCalls
  /\ calls' = [calls EXCEPT ![c] = @ + 1]
  /\ used' = [used EXCEPT ![c] = token]
  /\ stale' = [stale EXCEPT ![c] = gen]
  /\ cold' = [cold EXCEPT ![c] = (token = 0)]
  /\ \E r \in {"open", "closed"} : route' = [route EXCEPT ![c] = r]
  /\ Move(c, IF token = 0 THEN "reauth" ELSE "attempt")
  /\ fresh' = [fresh EXCEPT ![c] = 0]
  /\ UNCHANGED <<token, gen, loginMu, target, eager, causes>>

\* The target's verdict on a request that carries token t.
Refused(c, t) == t \notin valid \/ route[c] = "closed"

\* The first attempt is answered.
Attempt(c) ==
  /\ pc[c] = "attempt"
  /\ ~Refused(c, used[c])
  /\ Finish(c)
  /\ UNCHANGED <<token, gen, loginMu, calls, target, eager, causes>>

\* The first attempt is refused: on to reAuth with the generation read above.
Attempt401(c) ==
  /\ pc[c] = "attempt"
  /\ Refused(c, used[c])
  /\ Move(c, "reauth")
  /\ cold' = [cold EXCEPT ![c] = FALSE]
  /\ causes' = IF used[c] \in valid THEN causes + 1 ELSE causes
  /\ UNCHANGED <<token, gen, loginMu, used, stale, fresh, route, calls, target,
                 eager>>

\* An attempt never reaches the target, or its body cannot be replayed.
SendFails(c) ==
  /\ pc[c] \in {"attempt", "retry"}
  /\ Finish(c)
  /\ UNCHANGED <<token, gen, loginMu, calls, target, eager, causes>>
-----------------------------------------------------------------------------
\* Where a successful reAuth goes on: a cold start re-reads gen, a 401 retries.
AfterReAuth(c) == IF cold[c] THEN "reread" ELSE "retry"

\* Faulty variant: reAuth hands back any token it finds, whatever its
\* generation.
ReuseAlways(c) ==
  /\ pc[c] = "reauth"
  /\ loginMu = Nobody
  /\ token # 0
  /\ fresh' = [fresh EXCEPT ![c] = token]
  /\ Move(c, AfterReAuth(c))
  /\ UNCHANGED <<token, gen, loginMu, used, stale, cold, route, calls, target,
                 eager, causes>>

\* reAuth takes loginMu and finds a newer generation: it hands that token back
\* and unlocks.
Reuse(c) ==
  /\ pc[c] = "reauth"
  /\ loginMu = Nobody
  /\ gen # stale[c]
  /\ fresh' = [fresh EXCEPT ![c] = token]
  /\ Move(c, AfterReAuth(c))
  /\ UNCHANGED <<token, gen, loginMu, used, stale, cold, route, calls, target,
                 eager, causes>>

\* Faulty variant: the double-checked generation without the mutex.
StartLoginUnlocked(c) ==
  /\ pc[c] = "reauth"
  /\ gen = stale[c]
  /\ loginMu' = c
  /\ Move(c, "login")
  /\ UNCHANGED <<token, gen, local, calls, target, eager, causes>>

\* Faulty variant: the mutex without the double-checked generation.
StartLoginUnchecked(c) ==
  /\ pc[c] = "reauth"
  /\ loginMu = Nobody
  /\ loginMu' = c
  /\ Move(c, "login")
  /\ UNCHANGED <<token, gen, local, calls, target, eager, causes>>

\* reAuth takes loginMu, finds its own generation and sends the login request,
\* after the CSRF fetch if one is configured.
StartLogin(c) ==
  /\ pc[c] = "reauth"
  /\ loginMu = Nobody
  /\ gen = stale[c]
  /\ loginMu' = c
  /\ Move(c, "login")
  /\ UNCHANGED <<token, gen, local, calls, target, eager, causes>>

\* The target answers the login with a token.
LoginAnswered(c) ==
  /\ pc[c] = "login"
  /\ Issue
  /\ fresh' = [fresh EXCEPT ![c] = issued']
  /\ Move(c, "answered")
  /\ UNCHANGED <<token, gen, loginMu, used, stale, cold, route, calls, eager,
                 causes>>

\* Faulty variant: a new token starts a new count of generations.
StoreTokenResetsGen(c) ==
  /\ pc[c] = "answered"
  /\ token' = fresh[c]
  /\ gen' = 0
  /\ loginMu' = Nobody
  /\ Move(c, AfterReAuth(c))
  /\ UNCHANGED <<local, calls, target, eager, causes>>

\* login stores the token and bumps gen under mu; reAuth reads the token back
\* and releases loginMu.
StoreToken(c) ==
  /\ pc[c] = "answered"
  /\ token' = fresh[c]
  /\ gen' = gen + 1
  /\ loginMu' = Nobody
  /\ Move(c, AfterReAuth(c))
  /\ UNCHANGED <<local, calls, target, eager, causes>>

\* Faulty variant: no deferred Unlock, so the error return keeps loginMu.
LoginFailsLocked(c) ==
  /\ pc[c] = "login"
  /\ Finish(c)
  /\ UNCHANGED <<token, gen, loginMu, calls, target, eager, causes>>

\* The login fails: no answer, a status outside 2xx, no token in the body, or a
\* CSRF fetch gone wrong.  loginMu is released, token and gen stay, and Do
\* returns ErrReAuthFailed.  An answer lost on the way has been issued all the
\* same, which a target of single sessions makes felt.
LoginFails(c) ==
  /\ pc[c] = "login"
  /\ loginMu' = Nobody
  /\ Finish(c)
  /\ \/ UNCHANGED <<target, causes>>
     \/ Issue /\ causes' = causes + 1
  /\ UNCHANGED <<token, gen, calls, eager>>

\* Do's second currentToken(): it takes the generation and not the token.
Reread(c) ==
  /\ pc[c] = "reread"
  /\ used' = [used EXCEPT ![c] = fresh[c]]
  /\ stale' = [stale EXCEPT ![c] = gen]
  /\ Move(c, "attempt")
  /\ UNCHANGED <<token, gen, loginMu, cold, fresh, route, calls, target, eager,
                 causes>>

\* The retry is answered, and whatever comes back is the caller's: a second 401
\* is returned as it is.
Retry(c) ==
  /\ pc[c] = "retry"
  /\ Finish(c)
  /\ UNCHANGED <<token, gen, loginMu, calls, target, eager, causes>>
-----------------------------------------------------------------------------
\* The target drops a session (external).
Expire(t) ==
  /\ expired < MaxExpiry
  /\ valid' = valid \ {t}
  /\ expired' = expired + 1
  /\ causes' = causes + 1
  /\ UNCHANGED <<token, gen, loginMu, pc, local, calls, issued, eager>>

Step(c) ==
  \/ Attempt(c) \/ Attempt401(c) \/ SendFails(c)
  \/ Reuse(c) \/ StartLogin(c) \/ LoginAnswered(c) \/ StoreToken(c) \/ LoginFails(c)
  \/ Reread(c) \/ Retry(c)

\* Every call has been made and has returned.
Over == (\A c \in Callers : pc[c] = "idle" /\ calls[c] = MaxCalls) /\ UNCHANGED vars

Next ==
  \/ Authenticate
  \/ \E c \in Callers : Begin(c) \/ Step(c)
  \/ \E t \in valid : Expire(t)
  \/ Over

\* A goroutine inside Do runs on: requests time out, and sync.Mutex hands the
\* lock over.  Nobody has to call Do, and the target has to drop nothing.
Fairness == \A c \in Callers : WF_vars(Step(c))

Spec == Init /\ [][Next]_vars /\ Fairness
-----------------------------------------------------------------------------
\* The types: every token that is held, carried or accepted was issued, and no call
\* has read a generation that is still to come (auth.go:91-104).
TypeOK ==
  /\ token \in 0..issued /\ gen \in Nat
  /\ loginMu \in Callers \cup {Nobody}
  /\ pc \in [Callers -> Places]
  /\ used \in [Callers -> 0..issued]
  /\ stale \in [Callers -> 0..gen]
  /\ cold \in [Callers -> BOOLEAN]
  /\ fresh \in [Callers -> 0..issued]
  /\ route \in [Callers -> {"open", "closed"}]
  /\ calls \in [Callers -> 0..MaxCalls]
  /\ issued \in 0..MaxIssued /\ valid \subseteq 1..issued
  /\ expired \in 0..MaxExpiry
  /\ eager \in BOOLEAN /\ causes \in Nat

\* One login at a time, by whoever holds loginMu, so the tokens are stored in
\* the order the target issued them.
LoginsSerialised ==
  \A c \in Callers : pc[c] \in {"login", "answered"} => loginMu = c

\* A retry never repeats the credential that was just refused: it carries one
\* the target issued later, its own login's or another goroutine's.
RetryIsFresh ==
  \A c \in Callers : pc[c] = "retry" => fresh[c] > used[c]

\* The 401s of a scan that logged in at startup collapse: every login beyond
\* that first one answers to an event of its own, a dropped session or a route
\* that refuses the credential anyway, however many requests it hit.
LoginsHaveCauses == eager => gen <= 1 + causes

\* The held token never goes back to an older one.
TokenAdvances == [][token' # token => token' > token]_vars

\* Do always comes back: loginMu is released whatever becomes of a login.
DoReturns == \A c \in Callers : (pc[c] # "idle") ~> (pc[c] = "idle")
=============================================================================
