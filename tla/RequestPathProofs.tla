-------------------------- MODULE RequestPathProofs --------------------------
(***************************************************************************)
(* RequestPath keeps to the allowlist, to one budget and to the exchanges  *)
(* a call may cost, for any calls, identities, hosts, burst and deadline.  *)
(***************************************************************************)
EXTENDS RequestPath, FiniteSetTheorems, TLAPS

\* What a call has spent, by how far it is.
Spending ==
  \A c \in Calls :
    /\ spent[c].attempts =
         CASE part[c] = "first" /\ pc[c] \in {"idle", "wait", "send"} -> 0
           [] part[c] = "retry" /\ pc[c] = "flight" -> 2
           [] OTHER -> 1
    /\ part[c] = "first" => spent[c].logins = 0 /\ pc[c] # "login"
    /\ part[c] = "login" => pc[c] \in {"login", "flight"}
    /\ part[c] = "retry" => pc[c] \in {"send", "flight"}
    /\ pc[c] = "login" => spent[c].logins = 0
    /\ part[c] = "login" \/ pc[c] = "renew" => id[c] \in LoggedIn
    /\ pc[c] # "idle" => id[c] \in Identities

Due == {c \in Calls : pc[c] = "wait" /\ at[c] <= now}
Left(l) == IF tokens[l] >= 0 THEN tokens[l] ELSE 0

\* The calls whose turn is yet to come have a turn each, within what the limiter
\* has lent; and those let through, those whose turn has come and the tokens left
\* have all been paid for by the burst or by time.
Ledger ==
  \A l \in Limiters :
    /\ \A c \in Calls : pc[c] = "wait" /\ at[c] > now => at[c] <= now - tokens[l]
    /\ \A c, d \in Calls :
         pc[c] = "wait" /\ pc[d] = "wait" /\ at[c] > now /\ at[c] = at[d] => c = d
    /\ paced + Cardinality(Due) + Left(l) <= Burst + now

NoIdentities == Identities = {} => paced = 0 /\ \A c \in Calls : pc[c] = "idle"

IInv == TypeOK /\ InScope /\ Spending /\ Ledger /\ NoIdentities
-----------------------------------------------------------------------------
LEMMA DueFinite ==
  ASSUME NEW S, S \subseteq Calls
  PROVE  IsFiniteSet(S) /\ Cardinality(S) \in Nat
  BY PathAssumption, FS_Subset, FS_CardinalityType

\* A step that reserves nothing, lets nobody through and takes no time leaves the
\* ledger in order, whoever gives up waiting.
LEMMA LedgerQuiet ==
  ASSUME IInv, UNCHANGED <<now, tokens, paced>>,
         \A c \in Calls : pc'[c] = "wait" => pc[c] = "wait" /\ at'[c] = at[c]
  PROVE  Ledger'
  <1>1. Due' \subseteq Due /\ Due \subseteq Calls
    BY DEF Due
  <1>2. Cardinality(Due') <= Cardinality(Due) /\ Cardinality(Due') \in Nat /\ Cardinality(Due) \in Nat
    BY <1>1, DueFinite, FS_Subset
  <1> SUFFICES ASSUME NEW l \in Limiters
               PROVE  /\ \A c \in Calls : pc'[c] = "wait" /\ at'[c] > now => at'[c] <= now - tokens[l]
                      /\ \A c, d \in Calls :
                           pc'[c] = "wait" /\ pc'[d] = "wait" /\ at'[c] > now /\ at'[c] = at'[d] => c = d
                      /\ paced + Cardinality(Due') + Left(l) <= Burst + now
    BY DEF Ledger, Left
  <1>3. Left(l) \in Int /\ paced \in Nat /\ now \in Nat /\ Burst \in Nat
    BY PathAssumption DEF IInv, TypeOK, Left
  <1>4. paced + Cardinality(Due) + Left(l) <= Burst + now
    BY DEF IInv, Ledger
  <1>5. paced + Cardinality(Due') + Left(l) <= Burst + now
    BY <1>2, <1>3, <1>4
  <1> QED BY <1>5 DEF IInv, Ledger

\* There is one limiter.
LEMMA OneLimiter ==
  /\ \A l \in Limiters, i \in Identities : l = LimiterOf(i)
  /\ \A i \in Identities : LimiterOf(i) \in Limiters
  BY DEF Limiters, LimiterOf

LEMMA LedgerAsk ==
  ASSUME IInv, NEW c \in Calls, Ask(c)
  PROVE  Ledger'
  <1> USE DEF IInv
  <1>1. PICK i \in Identities :
          LET left == tokens[LimiterOf(i)] - 1
              turn == IF left >= 0 THEN now ELSE now - left IN
          /\ turn <= Horizon
          /\ tokens' = [tokens EXCEPT ![LimiterOf(i)] = left]
          /\ at' = [at EXCEPT ![c] = turn]
    BY DEF Ask
  <1>2. /\ pc[c] = "idle" /\ pc' = [pc EXCEPT ![c] = "wait"] /\ UNCHANGED <<now, paced>>
    BY DEF Ask
  <1> SUFFICES ASSUME NEW l \in Limiters
               PROVE  /\ \A d \in Calls : pc'[d] = "wait" /\ at'[d] > now => at'[d] <= now - tokens'[l]
                      /\ \A d, e \in Calls :
                           pc'[d] = "wait" /\ pc'[e] = "wait" /\ at'[d] > now /\ at'[d] = at'[e] => d = e
                      /\ paced + Cardinality(Due') + Left(l)' <= Burst + now
    BY <1>2 DEF Ledger
  <1>3. /\ tokens[l] \in Int /\ tokens'[l] = tokens[l] - 1
        /\ now \in Nat /\ paced \in Nat /\ Burst \in Nat \ {0}
        /\ at'[c] = IF tokens[l] - 1 >= 0 THEN now ELSE now - (tokens[l] - 1)
    BY <1>1, OneLimiter, PathAssumption DEF TypeOK
  <1>4. \A d \in Calls : d # c => pc'[d] = pc[d] /\ at'[d] = at[d]
    BY <1>1, <1>2 DEF TypeOK
  <1>5. pc'[c] = "wait" /\ \A d \in Calls : at[d] \in Nat /\ at'[d] \in Int
    BY <1>2, <1>3, <1>4, PathAssumption DEF TypeOK
  <1>6. \A d \in Calls : pc[d] = "wait" /\ at[d] > now => at[d] <= now - tokens[l]
    BY DEF Ledger
  <1>7. CASE tokens[l] >= 1
    <2>1. Due' = Due \cup {c} /\ c \notin Due
      BY <1>2, <1>3, <1>4, <1>5, <1>7 DEF Due
    <2>2. Cardinality(Due') = Cardinality(Due) + 1 /\ Cardinality(Due) \in Nat
      BY <2>1, DueFinite, FS_AddElement DEF Due
    <2>3. Left(l) = tokens[l] /\ Left(l)' = tokens[l] - 1
      BY <1>3, <1>7 DEF Left
    <2>4. paced + Cardinality(Due) + tokens[l] <= Burst + now
      BY <2>3 DEF Ledger
    <2>5. paced + Cardinality(Due') + Left(l)' <= Burst + now
      BY <1>3, <2>2, <2>3, <2>4
    <2>6. \A d \in Calls : ~(pc'[d] = "wait" /\ at'[d] > now)
      BY <1>3, <1>4, <1>5, <1>6, <1>7
    <2> QED BY <2>5, <2>6
  <1>8. CASE tokens[l] < 1
    <2>1. at'[c] = now - tokens'[l] /\ at'[c] > now
      BY <1>3, <1>8
    <2>2. Due' = Due
      BY <1>2, <1>3, <1>4, <1>5, <2>1 DEF Due
    <2>3. Left(l) = 0 /\ Left(l)' = 0
      BY <1>3, <1>8 DEF Left
    <2>4. \A d \in Calls : d # c /\ pc'[d] = "wait" /\ at'[d] > now => at'[d] < at'[c]
      BY <1>3, <1>4, <1>5, <1>6, <2>1
    <2>5. \A d \in Calls : pc'[d] = "wait" /\ at'[d] > now => at'[d] <= now - tokens'[l]
      BY <1>3, <1>5, <2>1, <2>4
    <2>6. \A d, e \in Calls :
            pc'[d] = "wait" /\ pc'[e] = "wait" /\ at'[d] > now /\ at'[d] = at'[e] => d = e
      BY <1>4, <1>5, <2>1, <2>4 DEF Ledger
    <2> QED BY <2>2, <2>3, <2>5, <2>6 DEF Ledger
  <1> QED BY <1>3, <1>7, <1>8

LEMMA LedgerPass ==
  ASSUME IInv, NEW c \in Calls, Pass(c)
  PROVE  Ledger'
  <1> USE DEF IInv
  <1>1. /\ pc[c] = "wait" /\ now >= at[c] /\ pc' = [pc EXCEPT ![c] = "send"]
        /\ paced' = paced + 1 /\ UNCHANGED <<now, tokens, at>>
    BY DEF Pass
  <1>2. now \in Nat /\ paced \in Nat /\ \A d \in Calls : at[d] \in Nat
    BY PathAssumption DEF TypeOK
  <1>3. \A d \in Calls : pc'[d] = IF d = c THEN "send" ELSE pc[d]
    BY <1>1 DEF TypeOK
  <1>4. Due' = Due \ {c} /\ c \in Due
    BY <1>1, <1>2, <1>3 DEF Due
  <1>5. Cardinality(Due') = Cardinality(Due) - 1 /\ Cardinality(Due) \in Nat
    BY <1>4, DueFinite, FS_RemoveElement DEF Due
  <1> SUFFICES ASSUME NEW l \in Limiters
               PROVE  /\ \A d \in Calls : pc'[d] = "wait" /\ at[d] > now => at[d] <= now - tokens[l]
                      /\ \A d, e \in Calls :
                           pc'[d] = "wait" /\ pc'[e] = "wait" /\ at[d] > now /\ at[d] = at[e] => d = e
                      /\ paced' + Cardinality(Due') + Left(l) <= Burst + now
    BY <1>1 DEF Ledger, Left
  <1>6. paced + Cardinality(Due) + Left(l) <= Burst + now /\ Left(l) \in Int
    BY DEF Ledger, Left, TypeOK
  <1>7. paced' + Cardinality(Due') + Left(l) <= Burst + now
    BY <1>1, <1>2, <1>5, <1>6, PathAssumption
  <1> QED BY <1>3, <1>7 DEF Ledger

\* A tick pays for one more turn, and at most one call's turn comes with it.
LEMMA LedgerTick ==
  ASSUME IInv, Tick
  PROVE  Ledger'
  <1> USE DEF IInv
  <1>1. /\ now' = now + 1 /\ UNCHANGED <<pc, at, paced>>
        /\ tokens' = [l \in Limiters |-> LeastOf(Burst, tokens[l] + 1)]
    BY DEF Tick, request
  <1>2. now \in Nat /\ paced \in Nat /\ Burst \in Nat \ {0} /\ \A d \in Calls : at[d] \in Nat
    BY PathAssumption DEF TypeOK
  <1> SUFFICES ASSUME NEW l \in Limiters
               PROVE  /\ \A c \in Calls : pc[c] = "wait" /\ at[c] > now' => at[c] <= now' - tokens'[l]
                      /\ \A c, d \in Calls :
                           pc[c] = "wait" /\ pc[d] = "wait" /\ at[c] > now' /\ at[c] = at[d] => c = d
                      /\ paced + Cardinality(Due') + Left(l)' <= Burst + now'
    BY <1>1 DEF Ledger
  <1>3. tokens[l] \in Int /\ tokens[l] <= Burst /\ tokens'[l] = LeastOf(Burst, tokens[l] + 1)
    BY <1>1 DEF TypeOK
  <1>4. \A c \in Calls : pc[c] = "wait" /\ at[c] > now => at[c] <= now - tokens[l]
    BY DEF Ledger
  <1>5. \A c, d \in Calls : pc[c] = "wait" /\ pc[d] = "wait" /\ at[c] > now /\ at[c] = at[d] => c = d
    BY DEF Ledger
  <1>6. \A c \in Calls : pc[c] = "wait" /\ at[c] > now' => at[c] <= now' - tokens'[l]
    BY <1>1, <1>2, <1>3, <1>4 DEF LeastOf
  <1>7. \A c, d \in Calls : pc[c] = "wait" /\ pc[d] = "wait" /\ at[c] > now' /\ at[c] = at[d] => c = d
    BY <1>1, <1>2, <1>5
  <1>8. paced + Cardinality(Due) + Left(l) <= Burst + now /\ Cardinality(Due) \in Nat
    BY DueFinite DEF Ledger, Due
  <1>9. CASE tokens[l] >= 0
    <2>1. Due' = Due
      BY <1>1, <1>2, <1>3, <1>4, <1>9 DEF Due
    <2>2. Left(l)' <= Left(l) + 1 /\ Left(l) \in Int /\ Left(l)' \in Int
      BY <1>2, <1>3, <1>9 DEF Left, LeastOf
    <2>3. paced + Cardinality(Due') + Left(l)' <= Burst + now'
      BY <1>1, <1>2, <1>8, <2>1, <2>2
    <2> QED BY <1>6, <1>7, <2>3
  <1>10. CASE tokens[l] < 0
    <2>1. Left(l) = 0 /\ Left(l)' = 0
      BY <1>2, <1>3, <1>10 DEF Left, LeastOf
    <2>2. CASE \E c \in Calls : pc[c] = "wait" /\ at[c] = now + 1
      <3>1. PICK c \in Calls : pc[c] = "wait" /\ at[c] = now + 1
        BY <2>2
      <3>2. Due' = Due \cup {c}
        BY <1>1, <1>2, <1>5, <3>1 DEF Due
      <3>3. Cardinality(Due') <= Cardinality(Due) + 1 /\ Cardinality(Due') \in Nat
        <4>1. IsFiniteSet(Due)
          BY DueFinite DEF Due
        <4> QED BY <1>8, <3>2, <4>1, FS_AddElement
      <3> QED BY <1>1, <1>2, <1>6, <1>7, <1>8, <2>1, <3>3
    <2>3. CASE ~\E c \in Calls : pc[c] = "wait" /\ at[c] = now + 1
      <3>1. Due' = Due
        BY <1>1, <1>2, <2>3 DEF Due
      <3> QED BY <1>1, <1>2, <1>6, <1>7, <1>8, <2>1, <3>1
    <2> QED BY <2>2, <2>3
  <1> QED BY <1>3, <1>9, <1>10
-----------------------------------------------------------------------------
LEMMA ReturnKeeps ==
  ASSUME IInv, NEW c \in Calls, Return(c), UNCHANGED <<now, interrupted, tokens, paced, wire>>
  PROVE  IInv'
  <1> USE DEF IInv
  <1>1. TypeOK'
    <2>1. holder' \in [LoggedIn -> Calls \cup {Nobody}]
      BY DEF Return, TypeOK
    <2>2. spent' \in [Calls -> [attempts : 0..2, logins : 0..1]]
      BY DEF Return, Forget, TypeOK, NothingSpent
    <2> QED BY <2>1, <2>2, PathAssumption DEF Return, Forget, TypeOK
  <1>2. InScope'
    BY DEF InScope
  <1>3. Spending'
    <2> SUFFICES ASSUME NEW d \in Calls PROVE Spending!(d)'
      BY DEF Spending
    <2>1. CASE d = c
      BY <2>1 DEF Return, Forget, TypeOK, NothingSpent
    <2>2. CASE d # c
      BY <2>2 DEF Return, Forget, TypeOK, Spending
    <2> QED BY <2>1, <2>2
  <1>4. Ledger'
    BY LedgerQuiet DEF Return, Forget, TypeOK
  <1>5. NoIdentities'
    BY DEF Return, Forget, NoIdentities, TypeOK
  <1> QED BY <1>1, <1>2, <1>3, <1>4, <1>5

LEMMA UnauthorizedKeeps ==
  ASSUME IInv, NEW c \in Calls, Unauthorized(c)
  PROVE  IInv'
  <1> USE DEF IInv
  <1>1. TypeOK'
    BY PathAssumption DEF Unauthorized, request, TypeOK
  <1>2. InScope'
    BY PathAssumption DEF Unauthorized, InScope
  <1>3. Spending'
    BY PathAssumption DEF Unauthorized, request, TypeOK, Spending
  <1>4. Ledger'
    BY LedgerQuiet DEF Unauthorized, request, TypeOK
  <1>5. NoIdentities'
    BY DEF Unauthorized, NoIdentities, request, TypeOK
  <1> QED BY <1>1, <1>2, <1>3, <1>4, <1>5

LEMMA ReuseKeeps ==
  ASSUME IInv, NEW c \in Calls, Reuse(c)
  PROVE  IInv'
  <1> USE DEF IInv
  <1>1. TypeOK'
    BY PathAssumption DEF Reuse, request, TypeOK
  <1>2. InScope'
    BY PathAssumption DEF Reuse, InScope
  <1>3. Spending'
    BY PathAssumption DEF Reuse, request, TypeOK, Spending
  <1>4. Ledger'
    BY LedgerQuiet DEF Reuse, request, TypeOK
  <1>5. NoIdentities'
    BY DEF Reuse, NoIdentities, request, TypeOK
  <1> QED BY <1>1, <1>2, <1>3, <1>4, <1>5

LEMMA RenewKeeps ==
  ASSUME IInv, NEW c \in Calls, Renew(c)
  PROVE  IInv'
  <1> USE DEF IInv
  <1>1. TypeOK'
    BY PathAssumption DEF Renew, request, TypeOK
  <1>2. InScope'
    BY PathAssumption DEF Renew, InScope
  <1>3. Spending'
    BY PathAssumption DEF Renew, request, TypeOK, Spending
  <1>4. Ledger'
    BY LedgerQuiet DEF Renew, request, TypeOK
  <1>5. NoIdentities'
    BY DEF Renew, NoIdentities, request, TypeOK
  <1> QED BY <1>1, <1>2, <1>3, <1>4, <1>5

LEMMA SendLoginKeeps ==
  ASSUME IInv, NEW c \in Calls, SendLogin(c)
  PROVE  IInv'
  <1> USE DEF IInv
  <1>1. TypeOK'
    <2>1. spent[c].logins = 0 /\ spent[c].attempts \in 0..2
      BY DEF SendLogin, Spending, TypeOK
    <2>2. spent' \in [Calls -> [attempts : 0..2, logins : 0..1]]
      BY <2>1 DEF SendLogin, TypeOK
    <2> QED BY <2>2, PathAssumption DEF SendLogin, TypeOK
  <1>2. InScope'
    BY PathAssumption DEF SendLogin, InScope
  <1>3. Spending'
    BY PathAssumption DEF SendLogin, request, TypeOK, Spending
  <1>4. Ledger'
    BY LedgerQuiet DEF SendLogin, request, TypeOK
  <1>5. NoIdentities'
    BY DEF SendLogin, NoIdentities, request, TypeOK
  <1> QED BY <1>1, <1>2, <1>3, <1>4, <1>5

LEMMA GrantedKeeps ==
  ASSUME IInv, NEW c \in Calls, Granted(c)
  PROVE  IInv'
  <1> USE DEF IInv
  <1>1. TypeOK'
    BY PathAssumption DEF Granted, request, TypeOK
  <1>2. InScope'
    BY PathAssumption DEF Granted, InScope
  <1>3. Spending'
    BY PathAssumption DEF Granted, request, TypeOK, Spending
  <1>4. Ledger'
    BY LedgerQuiet DEF Granted, request, TypeOK
  <1>5. NoIdentities'
    BY DEF Granted, NoIdentities, request, TypeOK
  <1> QED BY <1>1, <1>2, <1>3, <1>4, <1>5

LEMMA AskKeeps ==
  ASSUME IInv, NEW c \in Calls, Ask(c)
  PROVE  IInv'
  <1> USE DEF IInv
  <1>1. PICK i \in Identities, h \in Hosts :
          LET left == tokens[LimiterOf(i)] - 1
              turn == IF left >= 0 THEN now ELSE now - left IN
          /\ turn <= Horizon
          /\ tokens' = [tokens EXCEPT ![LimiterOf(i)] = left]
          /\ id' = [id EXCEPT ![c] = i] /\ host' = [host EXCEPT ![c] = h]
          /\ at' = [at EXCEPT ![c] = turn]
    BY DEF Ask
  <1>2. /\ pc[c] = "idle" /\ pc' = [pc EXCEPT ![c] = "wait"]
        /\ UNCHANGED <<now, interrupted, part, holder, outdated, spent, paced, wire>>
    BY DEF Ask
  <1>3. TypeOK'
    <2>1. LimiterOf(i) \in Limiters /\ tokens[LimiterOf(i)] \in Int /\ tokens[LimiterOf(i)] <= Burst
      BY OneLimiter DEF TypeOK
    <2>2. tokens' \in [Limiters -> Int] /\ \A l \in Limiters : tokens'[l] <= Burst
      BY <1>1, <2>1, PathAssumption DEF TypeOK
    <2>3. at' \in [Calls -> 0..Horizon]
      BY <1>1, <2>1, PathAssumption DEF TypeOK
    <2> QED BY <1>1, <1>2, <2>2, <2>3, PathAssumption DEF TypeOK
  <1>4. InScope'
    BY <1>2 DEF InScope
  <1>5. Spending'
    BY <1>1, <1>2 DEF Spending, TypeOK
  <1>6. NoIdentities'
    BY DEF NoIdentities
  <1> QED BY <1>3, <1>4, <1>5, <1>6, LedgerAsk

LEMMA PassKeeps ==
  ASSUME IInv, NEW c \in Calls, Pass(c)
  PROVE  IInv'
  <1> USE DEF IInv
  <1>1. TypeOK'
    BY PathAssumption DEF Pass, TypeOK
  <1>2. InScope' /\ Spending'
    BY DEF Pass, InScope, Spending, TypeOK
  <1>3. NoIdentities'
    BY DEF Pass, NoIdentities
  <1> QED BY <1>1, <1>2, <1>3, LedgerPass

LEMMA SendKeeps ==
  ASSUME IInv, NEW c \in Calls, Send(c)
  PROVE  IInv'
  <1> USE DEF IInv
  <1>1. CASE ~Allows(host[c])
    BY <1>1, ReturnKeeps DEF Send
  <1>2. CASE Allows(host[c])
    <2>1. /\ pc[c] = "send" /\ host[c] \in Allowed
          /\ pc' = [pc EXCEPT ![c] = "flight"] /\ wire' = wire \cup {host[c]}
          /\ spent' = [spent EXCEPT ![c].attempts = @ + 1]
          /\ UNCHANGED <<now, interrupted, tokens, id, host, at, part, holder, outdated, paced>>
      BY <1>2 DEF Send, Allows
    <2>2. spent[c].attempts \in 0..1 /\ spent[c].logins \in 0..1
      BY <2>1 DEF Spending, TypeOK
    <2>3. TypeOK'
      <3>1. spent' \in [Calls -> [attempts : 0..2, logins : 0..1]]
        BY <2>1, <2>2 DEF TypeOK
      <3> QED BY <2>1, <3>1, PathAssumption DEF TypeOK
    <2>4. InScope'
      BY <2>1 DEF InScope
    <2>5. Spending'
      BY <2>1 DEF Spending, TypeOK
    <2>6. Ledger'
      BY <2>1, LedgerQuiet DEF TypeOK
    <2>7. NoIdentities'
      BY <2>1 DEF NoIdentities
    <2> QED BY <2>3, <2>4, <2>5, <2>6, <2>7
  <1> QED BY <1>1, <1>2

LEMMA RedirectKeeps ==
  ASSUME IInv, NEW c \in Calls, Redirect(c)
  PROVE  IInv'
  <1> USE DEF IInv
  <1>1. CASE Return(c) /\ UNCHANGED <<now, interrupted, tokens, paced, wire>>
    BY <1>1, ReturnKeeps
  <1>2. ASSUME NEW h \in Hosts, Allows(h), wire' = wire \cup {h},
               UNCHANGED <<now, interrupted, tokens, pc, request, paced>>
        PROVE  IInv'
    <2>1. TypeOK' /\ InScope' /\ Spending' /\ NoIdentities'
      BY <1>2 DEF request, TypeOK, InScope, Spending, NoIdentities, Allows
    <2>2. Ledger'
      BY <1>2, LedgerQuiet DEF request
    <2> QED BY <2>1, <2>2
  <1> QED BY <1>1, <1>2 DEF Redirect

LEMMA TickKeeps ==
  ASSUME IInv, Tick
  PROVE  IInv'
  <1> USE DEF IInv
  <1>1. TypeOK'
    BY PathAssumption DEF Tick, request, TypeOK, LeastOf
  <1>2. InScope' /\ Spending' /\ NoIdentities'
    BY DEF Tick, request, InScope, Spending, NoIdentities
  <1> QED BY <1>1, <1>2, LedgerTick

LEMMA InterruptKeeps ==
  ASSUME IInv, Interrupt \/ UNCHANGED vars
  PROVE  IInv'
  <1> USE DEF IInv
  <1>1. TypeOK' /\ InScope' /\ Spending' /\ NoIdentities'
    BY DEF Interrupt, vars, request, TypeOK, InScope, Spending, NoIdentities
  <1>2. Ledger'
    BY LedgerQuiet DEF Interrupt, vars, request
  <1> QED BY <1>1, <1>2
-----------------------------------------------------------------------------
LEMMA InitHolds == Init => IInv
  <1> SUFFICES ASSUME Init PROVE IInv
    OBVIOUS
  <1>1. TypeOK
    <2>1. tokens \in [Limiters -> Int] /\ \A l \in Limiters : tokens[l] <= Burst
      BY PathAssumption DEF Init
    <2>2. NothingSpent \in [attempts : 0..2, logins : 0..1]
      BY DEF NothingSpent
    <2>3. spent \in [Calls -> [attempts : 0..2, logins : 0..1]]
      BY <2>2 DEF Init
    <2>4. now \in 0..Horizon /\ at \in [Calls -> 0..Horizon] /\ paced \in Nat
      <3>1. 0 \in 0..Horizon /\ 0 \in Nat
        BY PathAssumption
      <3> QED BY <3>1 DEF Init
    <2>6. host \in [Calls -> Hosts] /\ interrupted \in BOOLEAN
      <3>1. Target \in Hosts
        BY PathAssumption
      <3> QED BY <3>1 DEF Init
    <2>5. /\ pc \in [Calls -> {"idle", "wait", "send", "flight", "renew", "login"}]
          /\ id \in [Calls -> Identities \cup {Nobody}]
          /\ part \in [Calls -> {"first", "login", "retry"}]
          /\ holder \in [LoggedIn -> Calls \cup {Nobody}]
          /\ outdated \subseteq Calls /\ wire \subseteq Hosts
      BY DEF Init
    <2> QED BY <2>1, <2>3, <2>4, <2>5, <2>6 DEF TypeOK
  <1>2. InScope /\ Spending /\ NoIdentities
    BY DEF Init, InScope, Spending, NoIdentities, NothingSpent
  <1>3. Ledger
    <2>1. Due = {} /\ Cardinality(Due) = 0
      BY FS_EmptySet DEF Init, Due
    <2>2. \A l \in Limiters : Left(l) = Burst
      BY PathAssumption DEF Init, Left
    <2> QED BY <2>1, <2>2, PathAssumption DEF Init, Ledger
  <1> QED BY <1>1, <1>2, <1>3 DEF IInv

LEMMA StepKeeps == IInv /\ [Next]_vars => IInv'
  <1> SUFFICES ASSUME IInv, [Next]_vars PROVE IInv'
    OBVIOUS
  <1>1. ASSUME NEW c \in Calls, Ask(c) \/ Proceed(c) \/ Reply(c) PROVE IInv'
    <2>1. CASE Abandon(c) \/ Finish(c)
      BY <2>1, ReturnKeeps DEF Abandon, Finish
    <2> QED BY <1>1, <2>1, AskKeeps, PassKeeps, SendKeeps, RedirectKeeps, UnauthorizedKeeps,
               ReuseKeeps, RenewKeeps, SendLoginKeeps, GrantedKeeps DEF Proceed, Reply
  <1> QED BY <1>1, TickKeeps, InterruptKeeps DEF Next, Exited

\* The strengthening: what a call has spent by how far it is, and the ledger of
\* turns the limiter has sold.
THEOREM InductiveInvariant == Spec => []IInv
  <1> QED BY InitHolds, StepKeeps, PTL DEF Spec

\* rateLimitedClient over Authenticator over Client: a call costs the target at
\* most two attempts and a login, whatever it answers.
THEOREM TypeCorrect == Spec => []TypeOK
  <1>1. IInv => TypeOK
    BY DEF IInv
  <1> QED BY <1>1, InductiveInvariant, PTL

\* No request, redirect hop, login or retry leaves the allowlist.
THEOREM StaysInScope == Spec => []InScope
  <1>1. IInv => InScope
    BY DEF IInv
  <1> QED BY <1>1, InductiveInvariant, PTL

\* All identities together are let through no oftener than one limiter allows.
THEOREM BudgetIsOne == Spec => []OneBudget
  <1>1. IInv => OneBudget
    <2> SUFFICES ASSUME IInv PROVE OneBudget
      OBVIOUS
    <2>1. paced \in Nat /\ now \in Nat /\ Burst \in Nat
      BY PathAssumption DEF IInv, TypeOK
    <2>2. CASE Identities = {}
      BY <2>1, <2>2 DEF IInv, NoIdentities, OneBudget
    <2>3. CASE Identities # {}
      <3>1. PICK l \in Limiters : paced + Cardinality(Due) + Left(l) <= Burst + now
        BY <2>3, OneLimiter DEF IInv, Ledger
      <3>2. Left(l) \in Nat /\ Cardinality(Due) \in Nat
        BY DueFinite DEF Left, Due, IInv, TypeOK
      <3> QED BY <2>1, <3>1, <3>2 DEF OneBudget
    <2> QED BY <2>2, <2>3
  <1> QED BY <1>1, InductiveInvariant, PTL
=============================================================================
