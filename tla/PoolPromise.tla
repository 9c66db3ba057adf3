---------------------------- MODULE PoolPromise ----------------------------
(***************************************************************************)
(* What the worker pool of internal/core/engine/engine.go promises Collect *)
(* and Run, whatever its goroutines do: the items are taken up in order,   *)
(* never more than Width of them at once and at most one of them after the *)
(* context is cancelled; each is taken up once and is either done or lost; *)
(* the reply comes when nothing is in flight, lists what was done in input *)
(* order, and carries an error exactly when something is missing.          *)
(*                                                                         *)
(* WorkerPool implements this specification (WorkerPool!Promise).          *)
(***************************************************************************)
EXTENDS Naturals, Sequences

CONSTANT Width   \* how many items may be in flight: Config.MaxConcurrency

VARIABLES
  n,          \* how many items the call was given
  taken,      \* items 1..taken have been taken up
  running,    \* the items in flight
  done,       \* the items whose result is in
  cancelled,  \* the context is done
  extra,      \* items taken up after that
  replied,    \* the call has returned
  out, err    \* what it returned

vars == <<n, taken, running, done, cancelled, extra, replied, out, err>>

\* No more than Width items: each has a lane of its own.
Fits(S) == \E lane \in [S -> 1..Width] : \A i, j \in S : lane[i] = lane[j] => i = j

Ascending(s) == \A i, j \in 1..Len(s) : i < j => s[i] < s[j]
Lists(s, S)  == Ascending(s) /\ {s[i] : i \in 1..Len(s)} = S

Init ==
  /\ n \in Nat
  /\ taken = 0 /\ running = {} /\ done = {}
  /\ cancelled \in BOOLEAN
  /\ extra = 0
  /\ replied = FALSE /\ out = << >> /\ err = "nil"

Take ==
  /\ ~replied
  /\ taken < n
  /\ cancelled => extra = 0
  /\ taken' = taken + 1
  /\ running' = running \cup {taken + 1}
  /\ Fits(running')
  /\ extra' = IF cancelled THEN 1 ELSE 0
  /\ UNCHANGED <<n, done, cancelled, replied, out, err>>

\* The item is done, or lost to a panic.
Settle(i) ==
  /\ i \in running
  /\ running' = running \ {i}
  /\ done' \in {done, done \cup {i}}
  /\ UNCHANGED <<n, taken, cancelled, extra, replied, out, err>>

Cancel ==
  /\ ~cancelled
  /\ ~replied
  /\ cancelled' = TRUE
  /\ UNCHANGED <<n, taken, running, done, extra, replied, out, err>>

Reply ==
  /\ ~replied
  /\ running = {}
  /\ taken = n \/ cancelled
  /\ replied' = TRUE
  /\ Lists(out', done)
  /\ err' = IF done = 1..n THEN "nil" ELSE IF cancelled THEN "ctx" ELSE "incomplete"
  /\ UNCHANGED <<n, taken, running, done, cancelled, extra>>

Next == Take \/ (\E i \in running : Settle(i)) \/ Cancel \/ Reply

Spec == Init /\ [][Next]_vars
=============================================================================
