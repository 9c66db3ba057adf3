----------------------------- MODULE WorkerPool -----------------------------
(***************************************************************************)
(* runPool and guard of internal/core/engine/engine.go, the goroutine pool *)
(* under both Engine.Collect (one item per endpoint) and Engine.Run (one   *)
(* item per job), together with the error those two return.                *)
(*                                                                         *)
(* One feeder goroutine offers the items in order on an unbuffered channel *)
(* to at most MaxConcurrency workers.  The context may be cancelled at any *)
(* moment; the feeder looks at it once per item and again in the select    *)
(* that offers the item.                                                   *)
(*                                                                         *)
(* Items are their indices 1..n.  The number of items n is chosen in Init  *)
(* and never changes, so that one run covers 0..MaxItems items.            *)
(***************************************************************************)
EXTENDS Naturals, Sequences

CONSTANTS
  MaxItems,        \* the most items a call is given: a bound of the model
  MaxConcurrency   \* Config.MaxConcurrency, checked to be positive by New

ASSUME PoolAssumption ==
  /\ MaxItems \in Nat
  /\ MaxConcurrency \in Nat \ {0}

VARIABLES
  n,         \* len(items)
  pc,        \* where the feeder, i.e. the calling goroutine, is
  next,      \* the item the feed loop is at
  ctxDone,   \* ctx.Err() # nil
  at,        \* where each worker is in its range loop
  held,      \* the item a running worker holds, 0 for none
  slot,      \* results[i] and completed[i] together, see Completed
  cursor,    \* the item the gathering loop is at
  out,       \* the items whose results were gathered, in the order appended
  err,       \* what Collect or Run returns beside the results
  late       \* history: items handed out after the context was cancelled

vars == <<n, pc, next, ctxDone, at, held, slot, cursor, out, err, late>>

Items   == 1..n
MinOf(a, b) == IF a < b THEN a ELSE b
Workers == 1..MinOf(MaxConcurrency, n)

\* What became of an item.  A guarded panic leaves the zero result and
\* completed = FALSE, as for an item never dispatched; the model keeps the two
\* apart.  "cut" is a result fn produced after the context's error reached it:
\* a Target with BaselineErr set, a Result with Err set.
Fates == {"none", "ok", "cut", "panicked"}
Completed(i) == slot[i] \in {"ok", "cut"}

\* close(ch) has happened.
Closed == pc \in {"wait", "gather", "returned"}
-----------------------------------------------------------------------------
Init ==
  /\ n \in 0..MaxItems
  /\ pc = "enter"
  /\ next = 1
  /\ ctxDone \in BOOLEAN            \* the caller's context may be spent already
  /\ at = [w \in Workers |-> "ranging"]
  /\ held = [w \in Workers |-> 0]
  /\ slot = [i \in Items |-> "none"]
  /\ cursor = 1
  /\ out = << >>
  /\ err = "nil"
  /\ late = 0

\* With nothing to do the pool starts no goroutine and returns a nil slice,
\* which is not shorter than the items.
EnterEmpty ==
  /\ pc = "enter"
  /\ n = 0
  /\ pc' = "returned"
  /\ UNCHANGED <<n, next, ctxDone, at, held, slot, cursor, out, err, late>>

Enter ==
  /\ pc = "enter"
  /\ n > 0
  /\ pc' = "check"
  /\ UNCHANGED <<n, next, ctxDone, at, held, slot, cursor, out, err, late>>

\* Faulty variant: the loop runs one item past the end.
CheckContextPastEnd ==
  /\ pc = "check"
  /\ pc' = IF next > n + 1 \/ ctxDone THEN "close" ELSE "select"
  /\ UNCHANGED <<n, next, ctxDone, at, held, slot, cursor, out, err, late>>

\* Faulty variant: no test of the context at the loop head, only the select's.
CheckContextUnchecked ==
  /\ pc = "check"
  /\ pc' = IF next > n THEN "close" ELSE "select"
  /\ UNCHANGED <<n, next, ctxDone, at, held, slot, cursor, out, err, late>>

\* The head of the feed loop: leave when the items are used up or the context
\* is cancelled, otherwise go on to the select.
CheckContext ==
  /\ pc = "check"
  /\ pc' = IF next > n \/ ctxDone THEN "close" ELSE "select"
  /\ UNCHANGED <<n, next, ctxDone, at, held, slot, cursor, out, err, late>>

\* The send branch: worker w is receiving and takes the item.  With the context
\* done as well, both branches of the select are ready and either may be taken.
Dispatch(w) ==
  /\ pc = "select"
  /\ at[w] = "ranging"
  /\ at' = [at EXCEPT ![w] = "running"]
  /\ held' = [held EXCEPT ![w] = next]
  /\ next' = next + 1
  /\ pc' = "check"
  /\ late' = IF ctxDone THEN late + 1 ELSE late
  /\ UNCHANGED <<n, ctxDone, slot, cursor, out, err>>

\* The ctx.Done() branch.
SelectDone ==
  /\ pc = "select"
  /\ ctxDone
  /\ pc' = "close"
  /\ UNCHANGED <<n, next, ctxDone, at, held, slot, cursor, out, err, late>>

CloseChannel ==
  /\ pc = "close"
  /\ pc' = "wait"
  /\ UNCHANGED <<n, next, ctxDone, at, held, slot, cursor, out, err, late>>

\* Faulty variant: waiting for one worker instead of for all.
AwaitWorkersAny ==
  /\ pc = "wait"
  /\ \E w \in Workers : at[w] = "exited"
  /\ pc' = "gather"
  /\ UNCHANGED <<n, next, ctxDone, at, held, slot, cursor, out, err, late>>

\* wg.Wait returns once every worker has left its loop.
AwaitWorkers ==
  /\ pc = "wait"
  /\ \A w \in Workers : at[w] = "exited"
  /\ pc' = "gather"
  /\ UNCHANGED <<n, next, ctxDone, at, held, slot, cursor, out, err, late>>

\* Faulty variant: every slot is copied, completed or not.
GatherUnfiltered ==
  /\ pc = "gather"
  /\ cursor <= n
  /\ out' = Append(out, cursor)
  /\ cursor' = cursor + 1
  /\ UNCHANGED <<n, pc, next, ctxDone, at, held, slot, err, late>>

\* One turn of the loop that copies the completed slots out.
Gather ==
  /\ pc = "gather"
  /\ cursor <= n
  /\ out' = IF Completed(cursor) THEN Append(out, cursor) ELSE out
  /\ cursor' = cursor + 1
  /\ UNCHANGED <<n, pc, next, ctxDone, at, held, slot, err, late>>

\* Faulty variant: only the context is asked, so an item lost to a panic goes
\* unmentioned.
ReturnWithoutFallback ==
  /\ pc = "gather"
  /\ cursor > n
  /\ err' = IF Len(out) < n /\ ctxDone THEN "ctx" ELSE "nil"
  /\ pc' = "returned"
  /\ UNCHANGED <<n, next, ctxDone, at, held, slot, cursor, out, late>>

\* Faulty variant: a cancelled context is reported even by a complete call.
ReturnContextFirst ==
  /\ pc = "gather"
  /\ cursor > n
  /\ err' = IF ctxDone THEN "ctx" ELSE IF Len(out) < n THEN "incomplete" ELSE "nil"
  /\ pc' = "returned"
  /\ UNCHANGED <<n, next, ctxDone, at, held, slot, cursor, out, late>>

\* runPool returns and its caller compares the lengths:
\* cmp.Or(ctx.Err(), errIncomplete) if results are missing, nil otherwise.
Return ==
  /\ pc = "gather"
  /\ cursor > n
  /\ err' = IF Len(out) < n THEN (IF ctxDone THEN "ctx" ELSE "incomplete")
                            ELSE "nil"
  /\ pc' = "returned"
  /\ UNCHANGED <<n, next, ctxDone, at, held, slot, cursor, out, late>>
-----------------------------------------------------------------------------
\* Faulty variant: the result goes to the feeder's loop index, not to it.i.
SettleAtLoopIndex(w, f) ==
  /\ at[w] = "running"
  /\ slot' = [slot EXCEPT ![next - 1] = f]
  /\ at' = [at EXCEPT ![w] = "ranging"]
  /\ held' = [held EXCEPT ![w] = 0]
  /\ UNCHANGED <<n, pc, next, ctxDone, cursor, out, err, late>>

\* guard(fn) ends on worker w with fate f, and the worker ranges on.  Only a
\* cancelled context can cut fn's work short.
Settle(w, f) ==
  /\ at[w] = "running"
  /\ slot' = [slot EXCEPT ![held[w]] = f]
  /\ at' = [at EXCEPT ![w] = "ranging"]
  /\ held' = [held EXCEPT ![w] = 0]
  /\ UNCHANGED <<n, pc, next, ctxDone, cursor, out, err, late>>

Finish(w) ==
  \/ Settle(w, "ok")
  \/ ctxDone /\ Settle(w, "cut")

\* Faulty variant: the panic is recovered outside the range loop, so it ends
\* the worker.
PanicEndsWorker(w) ==
  /\ at[w] = "running"
  /\ slot' = [slot EXCEPT ![held[w]] = "panicked"]
  /\ at' = [at EXCEPT ![w] = "exited"]
  /\ held' = [held EXCEPT ![w] = 0]
  /\ UNCHANGED <<n, pc, next, ctxDone, cursor, out, err, late>>

\* guard recovers: the item is not completed and the worker lives on.
Panic(w) == Settle(w, "panicked")

\* The range loop sees the closed channel.
Exit(w) ==
  /\ at[w] = "ranging"
  /\ Closed
  /\ at' = [at EXCEPT ![w] = "exited"]
  /\ UNCHANGED <<n, pc, next, ctxDone, held, slot, cursor, out, err, late>>

\* The interrupt or the run's deadline (external to the pool).
Cancel ==
  /\ ~ctxDone
  /\ pc # "returned"
  /\ ctxDone' = TRUE
  /\ UNCHANGED <<n, pc, next, at, held, slot, cursor, out, err, late>>
-----------------------------------------------------------------------------
Feeder ==
  \/ EnterEmpty \/ Enter \/ CheckContext \/ SelectDone
  \/ \E w \in Workers : Dispatch(w)
  \/ CloseChannel \/ AwaitWorkers \/ Gather \/ Return

Worker(w) == Finish(w) \/ Panic(w) \/ Exit(w)

\* The call is over and nothing of it is left running.
Idle == pc = "returned" /\ UNCHANGED vars

Next == Feeder \/ (\E w \in Workers : Worker(w)) \/ Cancel \/ Idle

\* The Go scheduler runs every runnable goroutine, and fn comes back: every
\* request carries a client timeout and a check issues finitely many.  Nothing
\* obliges anyone to cancel.
Fairness ==
  /\ WF_vars(Feeder)
  /\ \A w \in 1..MinOf(MaxConcurrency, MaxItems) :
       WF_vars(w \in Workers /\ Worker(w))

Spec == Init /\ [][Next]_vars /\ Fairness
-----------------------------------------------------------------------------
\* The types, and the places of feeder and workers that runPool can be at.
TypeOK ==
  /\ n \in 0..MaxItems
  /\ pc \in {"enter", "check", "select", "close", "wait", "gather", "returned"}
  /\ next \in 1..(n + 1)
  /\ ctxDone \in BOOLEAN
  /\ at \in [Workers -> {"ranging", "running", "exited"}]
  /\ held \in [Workers -> 0..n]
  /\ slot \in [Items -> Fates]
  /\ cursor \in 1..(n + 1)
  /\ out \in Seq(Items)
  /\ err \in {"nil", "ctx", "incomplete"}
  /\ late \in Nat

Running == {held[w] : w \in {v \in Workers : at[v] = "running"}}
Done    == {i \in Items : Completed(i)}

Ascending(s) == \A i, j \in 1..Len(s) : i < j => s[i] < s[j]
Listed(s) == {s[i] : i \in 1..Len(s)}

\* "Each goroutine writes only its own indices" (engine.go:562): the item a
\* worker runs was dispatched, has no result yet and is run by nobody else, so
\* no slot has two writers and none is written twice.
SlotOwnership ==
  \A w \in Workers : at[w] = "running" =>
    /\ held[w] \in 1..(next - 1)
    /\ slot[held[w]] = "none"
    /\ \A v \in Workers : at[v] = "running" /\ held[v] = held[w] => v = w

\* The feeder looks at the context before the select "so that, once cancelled, no
\* further item is dispatched" (engine.go:587-589).  It may be cancelled between
\* the two, and then the select may still send; but however they race, at most
\* one item goes out after the context is done.
AtMostOneLate == late <= 1

\* The results come back in input order, each completed item exactly once.
OutputInOrder ==
  pc = "returned" => Ascending(out) /\ Listed(out) = Done

\* The error tells the truth about what is missing: nil means every item has a
\* result; otherwise the items with none are those that panicked and, after a
\* cancellation only, an undispatched tail.
HonestError ==
  pc = "returned" =>
    /\ err = "nil" <=> \A i \in Items : Completed(i)
    /\ err # "ctx" => \A i \in Items : slot[i] # "none"
    /\ \A i, j \in Items : slot[i] = "none" /\ i < j => slot[j] = "none"

\* Once the feeder starts reading the slots nobody writes them: wg.Wait has
\* seen every goroutine off, and none outlives the call.
QuietGather ==
  [][Closed /\ pc # "wait" => UNCHANGED <<slot, at, held>>]_vars

\* The call returns, cancelled or not and whatever panics: a panic never costs
\* the pool a worker, and a feeder at the select is never left without one.
Returns == <>(pc = "returned")

\* The caller sees the results when the call returns.
Shown == IF pc = "returned" THEN out ELSE << >>

\* The pool keeps PoolPromise.
Promise == INSTANCE PoolPromise WITH
  Width <- MaxConcurrency,
  taken <- next - 1,
  running <- Running,
  done <- Done,
  cancelled <- ctxDone,
  extra <- late,
  replied <- pc = "returned",
  out <- Shown

KeepsPromise == Promise!Spec
=============================================================================
