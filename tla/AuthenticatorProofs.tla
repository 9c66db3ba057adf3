------------------------ MODULE AuthenticatorProofs ------------------------
(***************************************************************************)
(* Proofs about Authenticator, for any set of goroutines and any number of *)
(* calls, logins and expiries.                                             *)
(***************************************************************************)
EXTENDS Authenticator, Integers, TLAPS

\* The mutex is held exactly during a login, and the generation it was taken
\* for stays the current one.
MutexHeld ==
  \A c \in Callers :
    /\ pc[c] \in {"login", "answered"} <=> loginMu = c
    /\ loginMu = c => stale[c] = gen

\* What a caller in Do holds against what the Authenticator holds: its token is
\* never newer, and strictly older once the generation has moved on.
TokensOrdered ==
  /\ \A c \in Callers :
       /\ used[c] <= token
       /\ stale[c] < gen => used[c] < token
       /\ pc[c] = "answered" => fresh[c] > token
       /\ pc[c] = "reread" => fresh[c] <= token
       /\ pc[c] = "retry" => fresh[c] > used[c]
  /\ token = 0 <=> gen = 0

\* After the login at startup nobody meets an empty token, and what a caller
\* holds at the current generation is the current token.
WarmStart ==
  eager =>
    /\ token > 0
    /\ \A c \in Callers :
         /\ ~cold[c] /\ pc[c] # "reread"
         /\ pc[c] # "idle" /\ stale[c] = gen => used[c] = token

\* The generations are paid for: one cause each after the first, one more when
\* the held token is dead, when somebody is about to replace it, and yet one
\* more when the replacement died before it was stored.
CausesSuffice ==
  eager =>
    /\ gen <= 1 + causes
    /\ token \notin valid => gen <= causes
    /\ \A c \in Callers : pc[c] \in {"reauth", "login", "answered"} /\ stale[c] = gen
         => gen <= causes
    /\ \A c \in Callers : pc[c] = "answered" /\ fresh[c] \notin valid => gen + 1 <= causes

\* Authenticate happens before any Do.
EagerFirst ==
  ~eager /\ (\A c \in Callers : calls[c] = 0) =>
    gen = 0 /\ \A c \in Callers : pc[c] = "idle" /\ ~cold[c]

IInv == TypeOK /\ MutexHeld /\ TokensOrdered /\ WarmStart /\ CausesSuffice /\ EagerFirst
-----------------------------------------------------------------------------
\* The part of the invariant that holds at the start is all of it.
LEMMA InvInit == Init => IInv
<1> SUFFICES ASSUME Init PROVE IInv
  OBVIOUS
<1> USE AuthAssumption DEF Init
<1>1. TypeOK
  <2>1. issued \in 0..MaxIssued /\ expired \in 0..MaxExpiry /\ 0 \in 0..MaxCalls
    OBVIOUS
  <2>2. 0 \in 0..issued /\ 0 \in 0..gen
    OBVIOUS
  <2> QED
    BY <2>1, <2>2 DEF TypeOK, Places
<1>2. MutexHeld /\ TokensOrdered
  BY DEF MutexHeld, TokensOrdered
<1>3. WarmStart /\ CausesSuffice /\ EagerFirst
  BY DEF WarmStart, CausesSuffice, EagerFirst
<1> QED
  BY <1>1, <1>2, <1>3 DEF IInv

\* Everybody is idle, so the only part at stake is what the new token is worth.
LEMMA AuthenticateStep == ASSUME IInv, Authenticate PROVE IInv'
<1> USE AuthAssumption DEF IInv, Authenticate, Issue, target, local
<1>1. TypeOK'
  BY DEF TypeOK, Places, TokensOrdered, MutexHeld
<1>2. MutexHeld'
  BY DEF TypeOK, MutexHeld, EagerFirst
<1>3. TokensOrdered'
  BY DEF TypeOK, MutexHeld, TokensOrdered, EagerFirst
<1>4. WarmStart'
  <2>1. \A c \in Callers : pc'[c] = "idle" /\ ~cold'[c]
    BY DEF EagerFirst
  <2>2. token' > 0
    BY DEF TypeOK
  <2> QED
    BY <2>1, <2>2 DEF WarmStart
<1>5. CausesSuffice'
  BY DEF TypeOK, MutexHeld, TokensOrdered, WarmStart, CausesSuffice, EagerFirst
<1>6. EagerFirst'
  BY DEF TypeOK, EagerFirst
<1> QED
  BY <1>1, <1>2, <1>3, <1>4, <1>5, <1>6 DEF IInv

\* A caller begins with the current token and generation.
LEMMA BeginStep == ASSUME IInv, NEW c \in Callers, Begin(c) PROVE IInv'
<1> USE AuthAssumption DEF IInv, Begin, Move, target, local
<1>1. TypeOK'
  BY DEF TypeOK, Places, TokensOrdered, MutexHeld
<1>2. MutexHeld'
  BY DEF TypeOK, MutexHeld, EagerFirst
<1>3. TokensOrdered'
  BY DEF TypeOK, MutexHeld, TokensOrdered, EagerFirst
<1>4. WarmStart'
  BY DEF TypeOK, MutexHeld, TokensOrdered, WarmStart, EagerFirst
<1>5. CausesSuffice'
  BY DEF TypeOK, MutexHeld, TokensOrdered, WarmStart, CausesSuffice, EagerFirst
<1>6. EagerFirst'
  BY DEF TypeOK, EagerFirst
<1> QED
  BY <1>1, <1>2, <1>3, <1>4, <1>5, <1>6 DEF IInv

\* A caller that leaves holds nothing.
LEMMA AttemptStep == ASSUME IInv, NEW c \in Callers, Attempt(c) PROVE IInv'
<1> USE AuthAssumption DEF IInv, Attempt, Finish, Move, Refused, target, local
<1>1. TypeOK'
  BY DEF TypeOK, Places, TokensOrdered, MutexHeld
<1>2. MutexHeld'
  BY DEF TypeOK, MutexHeld, EagerFirst
<1>3. TokensOrdered'
  BY DEF TypeOK, MutexHeld, TokensOrdered, EagerFirst
<1>4. WarmStart'
  BY DEF TypeOK, MutexHeld, TokensOrdered, WarmStart, EagerFirst
<1>5. CausesSuffice'
  BY DEF TypeOK, MutexHeld, TokensOrdered, WarmStart, CausesSuffice, EagerFirst
<1>6. EagerFirst'
  BY DEF TypeOK, EagerFirst
<1> QED
  BY <1>1, <1>2, <1>3, <1>4, <1>5, <1>6 DEF IInv

\* A refusal at the current generation means the held token is dead, or is a cause
\* of its own.
LEMMA Attempt401Step == ASSUME IInv, NEW c \in Callers, Attempt401(c) PROVE IInv'
<1> USE AuthAssumption DEF IInv, Attempt401, Move, Refused, target, local
<1>1. TypeOK'
  BY DEF TypeOK, Places, TokensOrdered, MutexHeld
<1>2. MutexHeld'
  BY DEF TypeOK, MutexHeld, EagerFirst
<1>3. TokensOrdered'
  BY DEF TypeOK, MutexHeld, TokensOrdered, EagerFirst
<1>4. WarmStart'
  BY DEF TypeOK, MutexHeld, TokensOrdered, WarmStart, EagerFirst
<1>5. CausesSuffice'
  BY DEF TypeOK, MutexHeld, TokensOrdered, WarmStart, CausesSuffice, EagerFirst
<1>6. EagerFirst'
  BY DEF TypeOK, EagerFirst
<1> QED
  BY <1>1, <1>2, <1>3, <1>4, <1>5, <1>6 DEF IInv

\* A caller that leaves holds nothing.
LEMMA SendFailsStep == ASSUME IInv, NEW c \in Callers, SendFails(c) PROVE IInv'
<1> USE AuthAssumption DEF IInv, SendFails, Finish, Move, target, local
<1>1. TypeOK'
  BY DEF TypeOK, Places, TokensOrdered, MutexHeld
<1>2. MutexHeld'
  BY DEF TypeOK, MutexHeld, EagerFirst
<1>3. TokensOrdered'
  BY DEF TypeOK, MutexHeld, TokensOrdered, EagerFirst
<1>4. WarmStart'
  BY DEF TypeOK, MutexHeld, TokensOrdered, WarmStart, EagerFirst
<1>5. CausesSuffice'
  BY DEF TypeOK, MutexHeld, TokensOrdered, WarmStart, CausesSuffice, EagerFirst
<1>6. EagerFirst'
  BY DEF TypeOK, EagerFirst
<1> QED
  BY <1>1, <1>2, <1>3, <1>4, <1>5, <1>6 DEF IInv

\* A newer generation means a newer token than the one refused.
LEMMA ReuseStep == ASSUME IInv, NEW c \in Callers, Reuse(c) PROVE IInv'
<1> USE AuthAssumption DEF IInv, Reuse, Move, AfterReAuth, target, local
<1>1. TypeOK'
  BY DEF TypeOK, Places, TokensOrdered, MutexHeld
<1>2. MutexHeld'
  BY DEF TypeOK, MutexHeld, EagerFirst
<1>3. TokensOrdered'
  BY DEF TypeOK, MutexHeld, TokensOrdered, EagerFirst
<1>4. WarmStart'
  BY DEF TypeOK, MutexHeld, TokensOrdered, WarmStart, EagerFirst
<1>5. CausesSuffice'
  BY DEF TypeOK, MutexHeld, TokensOrdered, WarmStart, CausesSuffice, EagerFirst
<1>6. EagerFirst'
  BY DEF TypeOK, EagerFirst
<1> QED
  BY <1>1, <1>2, <1>3, <1>4, <1>5, <1>6 DEF IInv

\* The mutex is taken for the current generation.
LEMMA StartLoginStep == ASSUME IInv, NEW c \in Callers, StartLogin(c) PROVE IInv'
<1> USE AuthAssumption DEF IInv, StartLogin, Move, target, local
<1>1. TypeOK'
  BY DEF TypeOK, Places, TokensOrdered, MutexHeld
<1>2. MutexHeld'
  BY DEF TypeOK, MutexHeld, EagerFirst
<1>3. TokensOrdered'
  BY DEF TypeOK, MutexHeld, TokensOrdered, EagerFirst
<1>4. WarmStart'
  BY DEF TypeOK, MutexHeld, TokensOrdered, WarmStart, EagerFirst
<1>5. CausesSuffice'
  BY DEF TypeOK, MutexHeld, TokensOrdered, WarmStart, CausesSuffice, EagerFirst
<1>6. EagerFirst'
  BY DEF TypeOK, EagerFirst
<1> QED
  BY <1>1, <1>2, <1>3, <1>4, <1>5, <1>6 DEF IInv

\* The answer is newer than every token issued before it.
LEMMA LoginAnsweredStep == ASSUME IInv, NEW c \in Callers, LoginAnswered(c) PROVE IInv'
<1> USE AuthAssumption DEF IInv, LoginAnswered, Issue, Move, target, local
<1>1. TypeOK'
  BY DEF TypeOK, Places, TokensOrdered, MutexHeld
<1>2. MutexHeld'
  BY DEF TypeOK, MutexHeld, EagerFirst
<1>3. TokensOrdered'
  BY DEF TypeOK, MutexHeld, TokensOrdered, EagerFirst
<1>4. WarmStart'
  BY DEF TypeOK, MutexHeld, TokensOrdered, WarmStart, EagerFirst
<1>5. CausesSuffice'
  BY DEF TypeOK, MutexHeld, TokensOrdered, WarmStart, CausesSuffice, EagerFirst
<1>6. EagerFirst'
  BY DEF TypeOK, EagerFirst
<1> QED
  BY <1>1, <1>2, <1>3, <1>4, <1>5, <1>6 DEF IInv

\* The token stored was issued after the one it replaces, under the mutex.
LEMMA StoreTokenStep == ASSUME IInv, NEW c \in Callers, StoreToken(c) PROVE IInv'
<1> USE AuthAssumption DEF IInv, StoreToken, Move, AfterReAuth, target, local
<1>1. TypeOK'
  BY DEF TypeOK, Places, TokensOrdered, MutexHeld
<1>2. MutexHeld'
  BY DEF TypeOK, MutexHeld, EagerFirst
<1>3. TokensOrdered'
  BY DEF TypeOK, MutexHeld, TokensOrdered, EagerFirst
<1>4. WarmStart'
  BY DEF TypeOK, MutexHeld, TokensOrdered, WarmStart, EagerFirst
<1>5. CausesSuffice'
  BY DEF TypeOK, MutexHeld, TokensOrdered, WarmStart, CausesSuffice, EagerFirst
<1>6. EagerFirst'
  BY DEF TypeOK, EagerFirst
<1> QED
  BY <1>1, <1>2, <1>3, <1>4, <1>5, <1>6 DEF IInv

\* A failed login leaves token and gen as they were.
LEMMA LoginFailsStep == ASSUME IInv, NEW c \in Callers, LoginFails(c) PROVE IInv'
<1> USE AuthAssumption DEF IInv, LoginFails, Issue, Finish, Move, target, local
<1>1. TypeOK'
  <2>1. CASE UNCHANGED <<target, causes>>
    BY <2>1 DEF TypeOK, Places
  <2>2. CASE Issue /\ causes' = causes + 1
    <3>1. issued' \in 0..MaxIssued /\ valid' \subseteq 1..issued' /\ issued \in 0..issued'
      BY <2>2 DEF TypeOK
    <3> QED
      BY <2>2, <3>1 DEF TypeOK, Places
  <2> QED
    BY <2>1, <2>2
<1>2. MutexHeld'
  BY DEF TypeOK, MutexHeld, EagerFirst
<1>3. TokensOrdered'
  BY DEF TypeOK, MutexHeld, TokensOrdered, EagerFirst
<1>4. WarmStart'
  BY DEF TypeOK, MutexHeld, TokensOrdered, WarmStart, EagerFirst
<1>5. CausesSuffice'
  BY DEF TypeOK, MutexHeld, TokensOrdered, WarmStart, CausesSuffice, EagerFirst
<1>6. EagerFirst'
  BY DEF TypeOK, EagerFirst
<1> QED
  BY <1>1, <1>2, <1>3, <1>4, <1>5, <1>6 DEF IInv

\* Only a cold start re-reads, and it holds the token it was handed.
LEMMA RereadStep == ASSUME IInv, NEW c \in Callers, Reread(c) PROVE IInv'
<1> USE AuthAssumption DEF IInv, Reread, Move, target, local
<1>1. TypeOK'
  BY DEF TypeOK, Places, TokensOrdered, MutexHeld
<1>2. MutexHeld'
  BY DEF TypeOK, MutexHeld, EagerFirst
<1>3. TokensOrdered'
  BY DEF TypeOK, MutexHeld, TokensOrdered, EagerFirst
<1>4. WarmStart'
  BY DEF TypeOK, MutexHeld, TokensOrdered, WarmStart, EagerFirst
<1>5. CausesSuffice'
  BY DEF TypeOK, MutexHeld, TokensOrdered, WarmStart, CausesSuffice, EagerFirst
<1>6. EagerFirst'
  BY DEF TypeOK, EagerFirst
<1> QED
  BY <1>1, <1>2, <1>3, <1>4, <1>5, <1>6 DEF IInv

\* A caller that leaves holds nothing.
LEMMA RetryStep == ASSUME IInv, NEW c \in Callers, Retry(c) PROVE IInv'
<1> USE AuthAssumption DEF IInv, Retry, Finish, Move, target, local
<1>1. TypeOK'
  BY DEF TypeOK, Places, TokensOrdered, MutexHeld
<1>2. MutexHeld'
  BY DEF TypeOK, MutexHeld, EagerFirst
<1>3. TokensOrdered'
  BY DEF TypeOK, MutexHeld, TokensOrdered, EagerFirst
<1>4. WarmStart'
  BY DEF TypeOK, MutexHeld, TokensOrdered, WarmStart, EagerFirst
<1>5. CausesSuffice'
  BY DEF TypeOK, MutexHeld, TokensOrdered, WarmStart, CausesSuffice, EagerFirst
<1>6. EagerFirst'
  BY DEF TypeOK, EagerFirst
<1> QED
  BY <1>1, <1>2, <1>3, <1>4, <1>5, <1>6 DEF IInv

\* The target drops a session: every generation past the first has one more
\* cause to its name.
LEMMA ExpireStep == ASSUME IInv, NEW t \in valid, Expire(t) PROVE IInv'
<1> USE AuthAssumption DEF IInv, Expire, target, local
<1>1. TypeOK'
  BY DEF TypeOK
<1>2. MutexHeld' /\ TokensOrdered' /\ WarmStart' /\ EagerFirst'
  BY DEF MutexHeld, TokensOrdered, WarmStart, EagerFirst
<1>3. CausesSuffice'
  BY DEF TypeOK, MutexHeld, CausesSuffice
<1> QED
  BY <1>1, <1>2, <1>3 DEF IInv

\* The invariant says nothing of the next state but through the variables.
LEMMA StutterStep == IInv /\ UNCHANGED vars => IInv'
BY DEF IInv, TypeOK, MutexHeld, TokensOrdered, WarmStart, CausesSuffice, EagerFirst, vars

\* The invariant is inductive.
LEMMA InvStep == IInv /\ [Next]_vars => IInv'
<1> SUFFICES ASSUME IInv, [Next]_vars PROVE IInv'
  OBVIOUS
<1>1. CASE Authenticate
  BY <1>1, AuthenticateStep
<1>2. ASSUME NEW c \in Callers, Begin(c) PROVE IInv'
  BY <1>2, BeginStep
<1>3. ASSUME NEW c \in Callers, Step(c) PROVE IInv'
  BY <1>3, AttemptStep, Attempt401Step, SendFailsStep, ReuseStep, StartLoginStep,
     LoginAnsweredStep, StoreTokenStep, LoginFailsStep, RereadStep, RetryStep DEF Step
<1>4. ASSUME NEW t \in valid, Expire(t) PROVE IInv'
  BY <1>4, ExpireStep
<1>5. CASE UNCHANGED vars
  BY <1>5, StutterStep
<1> QED
  BY <1>1, <1>2, <1>3, <1>4, <1>5 DEF Next, Over
-----------------------------------------------------------------------------
\* The mutex, the order of the tokens and the account of the logins hold in
\* every reachable state, for any number of goroutines.
THEOREM InductiveInvariant == Spec => []IInv
BY InvInit, InvStep, PTL DEF Spec

\* The types of the credential, of Do's locals and of the target's state.
THEOREM TypeCorrect == Spec => []TypeOK
<1>1. IInv => TypeOK
  BY DEF IInv
<1> QED
  BY <1>1, InductiveInvariant, PTL

\* loginMu really serialises the logins of Do.
THEOREM LoginsAreSerialised == Spec => []LoginsSerialised
<1>1. IInv => LoginsSerialised
  BY DEF IInv, MutexHeld, LoginsSerialised
<1> QED
  BY <1>1, InductiveInvariant, PTL

\* A retry after a 401 carries a token issued after the refused one.
THEOREM RetriesAreFresh == Spec => []RetryIsFresh
<1>1. IInv => RetryIsFresh
  BY DEF IInv, TokensOrdered, RetryIsFresh
<1> QED
  BY <1>1, InductiveInvariant, PTL

\* After a login at startup, re-logins never outnumber the events that called
\* for one, however many requests each of those hit.
THEOREM LoginsAreCaused == Spec => []LoginsHaveCauses
<1>1. IInv => LoginsHaveCauses
  BY DEF IInv, CausesSuffice, LoginsHaveCauses
<1> QED
  BY <1>1, InductiveInvariant, PTL

\* The two actions that store a token store a newer one: Authenticate runs
\* alone, and StoreToken under loginMu.
LEMMA StoredIsNewer ==
  ASSUME IInv, Next PROVE token' # token => token' > token
<1>1. CASE Authenticate
  BY <1>1 DEF Authenticate, Issue, IInv, TypeOK
<1>2. ASSUME NEW c \in Callers, Begin(c) PROVE token' = token
  BY <1>2 DEF Begin
<1>3. ASSUME NEW c \in Callers, Step(c) PROVE token' # token => token' > token
  <2>1. CASE StoreToken(c)
    BY <2>1 DEF StoreToken, IInv, TokensOrdered
  <2>2. CASE ~StoreToken(c)
    BY <1>3, <2>2 DEF Step, Attempt, Attempt401, SendFails, Reuse, StartLogin, LoginAnswered,
       LoginFails, Reread, Retry
  <2> QED
    BY <2>1, <2>2
<1>4. ASSUME NEW t \in valid, Expire(t) PROVE token' = token
  BY <1>4 DEF Expire
<1>5. CASE UNCHANGED vars
  BY <1>5 DEF vars
<1> QED
  BY <1>1, <1>2, <1>3, <1>4, <1>5 DEF Next, Over

\* The credential held never goes back to one issued earlier.
THEOREM TokenOnlyAdvances == Spec => TokenAdvances
<1>1. IInv /\ [Next]_vars => [token' # token => token' > token]_vars
  BY StoredIsNewer
<1> QED
  BY <1>1, InductiveInvariant, PTL DEF Spec, TokenAdvances
=============================================================================
