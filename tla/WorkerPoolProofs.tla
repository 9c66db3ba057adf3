-------------------------- MODULE WorkerPoolProofs --------------------------
(***************************************************************************)
(* Proofs about WorkerPool, for every number of items and of workers.      *)
(***************************************************************************)
EXTENDS WorkerPool, Integers, TLAPS

-----------------------------------------------------------------------------
(* The inductive invariant, by part.                                       *)

\* Nothing past the feeder's index has been touched, and an item before it that
\* has no result is in some worker's hands.
Dispatched ==
  /\ \A i \in Items : i >= next => slot[i] = "none"
  /\ \A i \in Items : i < next /\ slot[i] = "none" =>
       \E w \in Workers : at[w] = "running" /\ held[w] = i

\* Where the feeder can be, given the context and its index.
FeederPlace ==
  /\ pc = "select" => next <= n
  /\ pc = "enter" => next = 1
  /\ Closed \/ pc = "close" => next > n \/ ctxDone
  /\ late <= 1
  /\ late > 0 => ctxDone /\ pc # "select"

\* Workers leave only when the channel is closed, and are gone when the feeder
\* reads the slots.
WorkersGone ==
  /\ \A w \in Workers : at[w] = "exited" => Closed
  /\ pc \in {"gather", "returned"} => \A w \in Workers : at[w] = "exited"

\* The gathering loop: out lists the completed items below the cursor, and is
\* as long as the cursor is far exactly when none of them is missing.
Gathered ==
  /\ pc \notin {"gather", "returned"} => out = << >> /\ cursor = 1
  /\ pc = "returned" => cursor = n + 1
  /\ Ascending(out)
  /\ Listed(out) = {i \in Items : i < cursor /\ Completed(i)}
  /\ Len(out) <= cursor - 1
  /\ Len(out) = cursor - 1 <=> \A i \in Items : i < cursor => Completed(i)

\* The error a finished call returned.
ErrorTold ==
  /\ pc # "returned" => err = "nil"
  /\ pc = "returned" =>
       /\ err = "nil" <=> Len(out) = n
       /\ err = "ctx" => ctxDone
       /\ err = "incomplete" => next > n

IInv ==
  /\ TypeOK
  /\ SlotOwnership
  /\ Dispatched
  /\ FeederPlace
  /\ WorkersGone
  /\ Gathered
  /\ ErrorTold
-----------------------------------------------------------------------------
\* Every variable keeps its type; the index stays within 1..n+1 because the
\* feeder reaches the select only with an item to offer.
LEMMA TypeStep == TypeOK /\ FeederPlace /\ [Next]_vars => TypeOK'
<1> SUFFICES ASSUME TypeOK, FeederPlace, [Next]_vars PROVE TypeOK'
  OBVIOUS
<1> USE PoolAssumption DEF TypeOK, Items, Workers
<1>1. CASE EnterEmpty
  BY <1>1 DEF EnterEmpty
<1>2. CASE Enter
  BY <1>2 DEF Enter
<1>3. CASE CheckContext
  BY <1>3 DEF CheckContext
<1>4. ASSUME NEW w \in Workers, Dispatch(w) PROVE TypeOK'
  BY <1>4 DEF Dispatch, FeederPlace
<1>5. CASE SelectDone
  BY <1>5 DEF SelectDone
<1>6. CASE CloseChannel
  BY <1>6 DEF CloseChannel
<1>7. CASE AwaitWorkers
  BY <1>7 DEF AwaitWorkers
<1>8. CASE Gather
  <2>1. cursor \in 1..n
    BY <1>8 DEF Gather
  <2>2. ASSUME NEW S, NEW s \in Seq(S), NEW e \in S PROVE Append(s, e) \in Seq(S)
    OBVIOUS
  <2>3. Append(out, cursor) \in Seq(1..n)
    BY <2>1, <2>2
  <2>4. out' \in Seq(1..n)
    BY <1>8, <2>3 DEF Gather
  <2> QED
    BY <1>8, <2>1, <2>4 DEF Gather
<1>9. CASE Return
  BY <1>9 DEF Return
<1>10. ASSUME NEW w \in Workers, NEW f \in Fates, Settle(w, f) PROVE TypeOK'
  <2>1. slot' \in [1..n -> Fates]
    BY <1>10 DEF Settle
  <2>2. at' \in [Workers -> {"ranging", "running", "exited"}]
    BY <1>10 DEF Settle
  <2>3. held' \in [Workers -> 0..n]
    BY <1>10 DEF Settle
  <2> QED
    BY <1>10, <2>1, <2>2, <2>3 DEF Settle
<1>11. ASSUME NEW w \in Workers, Exit(w) PROVE TypeOK'
  BY <1>11 DEF Exit
<1>12. CASE Cancel
  BY <1>12 DEF Cancel
<1>13. CASE UNCHANGED vars
  BY <1>13 DEF vars
<1>14. \A w \in Workers : Worker(w) => TypeOK'
  BY <1>10, <1>11 DEF Worker, Finish, Panic, Fates
<1>15. Feeder => TypeOK'
  BY <1>1, <1>2, <1>3, <1>4, <1>5, <1>6, <1>7, <1>8, <1>9 DEF Feeder
<1> QED
  BY <1>12, <1>13, <1>14, <1>15 DEF Next, Idle

\* runPool as it is entered: nothing handed out, nothing gathered.
LEMMA InvInit == Init => IInv
<1> SUFFICES ASSUME Init PROVE IInv
  OBVIOUS
<1> USE PoolAssumption DEF Init
<1>1. TypeOK
  BY DEF TypeOK, Items, Fates
<1>2. SlotOwnership
  BY DEF SlotOwnership
<1>3. Dispatched
  BY DEF Dispatched, Items
<1>4. FeederPlace /\ WorkersGone
  BY DEF FeederPlace, WorkersGone, Closed
<1>5. Gathered
  BY DEF Gathered, Ascending, Listed, Items
<1> QED
  BY <1>1, <1>2, <1>3, <1>4, <1>5 DEF IInv, ErrorTold

\* The feeder's own moves before the gathering disturb nothing but its place.
LEMMA FeederStep ==
  ASSUME IInv,
         EnterEmpty \/ Enter \/ CheckContext \/ SelectDone \/ CloseChannel
           \/ AwaitWorkers
  PROVE  IInv'
<1> USE PoolAssumption DEF IInv
<1> USE DEF EnterEmpty, Enter, CheckContext, SelectDone, CloseChannel, AwaitWorkers
<1>1. TypeOK'
  BY TypeStep DEF Next, Feeder
<1>2. SlotOwnership'
  BY DEF SlotOwnership, Workers
<1>3. Dispatched'
  BY DEF Dispatched, Workers, Items
<1>4. FeederPlace'
  BY DEF FeederPlace, Closed, TypeOK
<1>5. WorkersGone'
  BY DEF WorkersGone, Closed, Workers, MinOf, TypeOK
<1>6. Gathered'
  <2>1. Ascending(out)' /\ Listed(out)' = Listed(out)
    BY DEF Gathered, Ascending, Listed
  <2>2. \A i : Completed(i)' <=> Completed(i)
    BY DEF Completed
  <2> QED
    BY <2>1, <2>2 DEF Gathered, Items, TypeOK, Closed
<1>7. ErrorTold'
  BY DEF ErrorTold, Gathered, TypeOK
<1> QED
  BY <1>1, <1>2, <1>3, <1>4, <1>5, <1>6, <1>7

\* A dispatch hands item next, untouched so far, to a worker that held nothing.
LEMMA DispatchStep ==
  ASSUME IInv, NEW w \in Workers, Dispatch(w)
  PROVE  IInv'
<1> USE PoolAssumption DEF IInv, Dispatch
<1>0. n \in Nat /\ next \in 1..n /\ Workers' = Workers /\ Items' = Items
  BY DEF TypeOK, FeederPlace, Workers, Items
<1>1. TypeOK'
  BY TypeStep DEF Next, Feeder
<1>2. SlotOwnership'
  <2> SUFFICES ASSUME NEW v \in Workers, at'[v] = "running"
               PROVE  /\ held'[v] \in 1..(next' - 1)
                      /\ slot'[held'[v]] = "none"
                      /\ \A u \in Workers : at'[u] = "running" /\ held'[u] = held'[v] => u = v
    BY <1>0 DEF SlotOwnership
  <2>1. \A u \in Workers : u # w => at'[u] = at[u] /\ held'[u] = held[u]
    BY DEF TypeOK
  <2>2. held'[w] = next /\ slot[next] = "none"
    BY <1>0 DEF TypeOK, Dispatched, Items
  <2>3. \A u \in Workers : at[u] = "running" => held[u] \in 1..(next - 1)
    BY DEF SlotOwnership
  <2>4. CASE v = w
    BY <1>0, <2>1, <2>2, <2>3, <2>4
  <2>5. CASE v # w
    BY <1>0, <2>1, <2>2, <2>3, <2>5 DEF SlotOwnership
  <2> QED
    BY <2>4, <2>5
<1>3. Dispatched'
  <2>1. \A i \in Items : i >= next' => slot'[i] = "none"
    BY <1>0 DEF Dispatched, TypeOK, Items
  <2>2. ASSUME NEW i \in Items, i < next', slot'[i] = "none"
        PROVE  \E v \in Workers : at'[v] = "running" /\ held'[v] = i
    <3>1. CASE i = next
      BY <3>1 DEF TypeOK
    <3>2. CASE i # next
      <4>1. i < next
        BY <1>0, <2>2, <3>2 DEF Items
      <4>2. PICK v \in Workers : at[v] = "running" /\ held[v] = i
        BY <2>2, <4>1 DEF Dispatched
      <4> QED
        BY <4>2 DEF TypeOK
    <3> QED
      BY <3>1, <3>2
  <2> QED
    BY <1>0, <2>1, <2>2 DEF Dispatched
<1>4. FeederPlace'
  BY <1>0 DEF FeederPlace, Closed, TypeOK
<1>5. WorkersGone'
  BY <1>0 DEF WorkersGone, Closed, TypeOK
<1>6. Gathered'
  BY <1>0 DEF Gathered, Ascending, Listed, Completed
<1>7. ErrorTold'
  BY DEF ErrorTold
<1> QED
  BY <1>1, <1>2, <1>3, <1>4, <1>5, <1>6, <1>7

\* Settling writes the one slot the worker owns; the gathering has not begun.
LEMMA SettleStep ==
  ASSUME IInv, NEW w \in Workers, NEW f \in {"ok", "cut", "panicked"},
         Settle(w, f), Worker(w)
  PROVE  IInv'
<1> USE PoolAssumption DEF IInv, Settle
<1>0. n \in Nat /\ next \in 1..(n + 1) /\ Workers' = Workers /\ Items' = Items
  BY DEF TypeOK, Workers, Items
<1>1. TypeOK'
  BY TypeStep DEF Next
<1>2. pc \notin {"gather", "returned"}
  BY DEF WorkersGone
<1>3. held[w] \in Items /\ held[w] < next /\ slot' = [slot EXCEPT ![held[w]] = f]
  BY <1>0 DEF SlotOwnership, Items
<1>4. SlotOwnership'
  <2> SUFFICES ASSUME NEW v \in Workers, at'[v] = "running"
               PROVE  /\ held'[v] \in 1..(next' - 1)
                      /\ slot'[held'[v]] = "none"
                      /\ \A u \in Workers : at'[u] = "running" /\ held'[u] = held'[v] => u = v
    BY <1>0 DEF SlotOwnership
  <2>1. v # w
    BY DEF TypeOK
  <2>2. \A u \in Workers : u # w => at'[u] = at[u] /\ held'[u] = held[u]
    BY DEF TypeOK
  <2>3. at'[w] # "running"
    BY DEF TypeOK
  <2>4. held[v] # held[w] /\ held[v] \in 1..(next - 1) /\ slot[held[v]] = "none"
    BY <2>1, <2>2 DEF SlotOwnership
  <2>5. held'[v] \in 1..(next' - 1) /\ slot'[held'[v]] = "none"
    BY <1>0, <1>3, <2>1, <2>2, <2>4 DEF TypeOK, Items
  <2> QED
    BY <2>1, <2>2, <2>3, <2>5 DEF SlotOwnership
<1>5. Dispatched'
  <2>1. \A i \in Items : i >= next' => slot'[i] = "none"
    BY <1>0, <1>3 DEF Dispatched, TypeOK, Items
  <2>2. ASSUME NEW i \in Items, i < next', slot'[i] = "none"
        PROVE  \E v \in Workers : at'[v] = "running" /\ held'[v] = i
    <3>1. i # held[w] /\ slot[i] = "none"
      BY <1>3, <2>2 DEF TypeOK
    <3>2. PICK v \in Workers : at[v] = "running" /\ held[v] = i
      BY <2>2, <3>1 DEF Dispatched
    <3> QED
      BY <3>1, <3>2 DEF TypeOK
  <2> QED
    BY <1>0, <2>1, <2>2 DEF Dispatched
<1>6. FeederPlace'
  BY <1>0 DEF FeederPlace, Closed
<1>7. WorkersGone'
  BY <1>0, <1>2 DEF WorkersGone, Closed, TypeOK
<1>8. Gathered'
  <2>1. out = << >> /\ cursor = 1 /\ out' = out /\ cursor' = cursor /\ pc' = pc /\ n' = n
    BY <1>2 DEF Gathered
  <2>2. Ascending(out') /\ Listed(out') = {} /\ Len(out') = 0
    BY <2>1 DEF Ascending, Listed
  <2> QED
    BY <1>0, <1>2, <2>1, <2>2 DEF Gathered, Items
<1>9. ErrorTold'
  BY DEF ErrorTold
<1> QED
  BY <1>1, <1>4, <1>5, <1>6, <1>7, <1>8, <1>9

\* A worker that leaves its range loop disturbs no slot.
LEMMA ExitStep ==
  ASSUME IInv, NEW w \in Workers, Exit(w)
  PROVE  IInv'
<1> USE PoolAssumption DEF IInv, Exit
<1>0. Workers' = Workers /\ Items' = Items
  BY DEF Workers, Items
<1>1. TypeOK'
  BY TypeStep DEF Next, Worker
<1>2. \A v \in Workers : at'[v] = "running" <=> at[v] = "running"
  BY DEF TypeOK
<1>3. SlotOwnership' /\ Dispatched'
  BY <1>0, <1>2 DEF SlotOwnership, Dispatched
<1>4. FeederPlace' /\ ErrorTold'
  BY DEF FeederPlace, Closed, ErrorTold
<1>5. WorkersGone'
  BY <1>0 DEF WorkersGone, Closed, TypeOK
<1>6. Gathered'
  BY <1>0 DEF Gathered, Ascending, Listed, Completed
<1> QED
  BY <1>1, <1>3, <1>4, <1>5, <1>6

\* A cancellation alone changes nothing but the context.
LEMMA CancelStep == ASSUME IInv, Cancel PROVE IInv'
<1> USE DEF IInv, Cancel
<1>0. Workers' = Workers /\ Items' = Items
  BY DEF Workers, Items
<1>1. TypeOK'
  BY TypeStep DEF Next
<1>2. SlotOwnership' /\ Dispatched' /\ WorkersGone'
  BY <1>0 DEF SlotOwnership, Dispatched, WorkersGone, Closed
<1>3. FeederPlace' /\ ErrorTold'
  BY DEF FeederPlace, Closed, ErrorTold
<1>4. Gathered'
  BY <1>0 DEF Gathered, Ascending, Listed, Completed
<1> QED
  BY <1>1, <1>2, <1>3, <1>4

\* One turn of the gathering loop keeps out the ascending list of what was
\* completed below the cursor.
LEMMA GatherStep == ASSUME IInv, Gather PROVE IInv'
<1> USE DEF IInv
<1>0. /\ Workers' = Workers /\ Items' = Items
      /\ \A i : Completed(i)' <=> Completed(i)
  BY DEF Gather, Workers, Items, Completed
<1>1. TypeOK'
  BY TypeStep DEF Next, Feeder
<1>2. SlotOwnership' /\ Dispatched' /\ WorkersGone'
  BY <1>0 DEF Gather, SlotOwnership, Dispatched, WorkersGone, Closed
<1>3. FeederPlace' /\ ErrorTold'
  BY DEF Gather, FeederPlace, Closed, ErrorTold
<1>4. Gathered'
  <2>1. /\ cursor \in 1..n /\ n \in Nat /\ cursor' = cursor + 1 /\ n' = n
        /\ out \in Seq(Int) /\ Items = 1..n
    BY DEF Gather, TypeOK, Items
  <2>2. \A k \in 1..Len(out) : out[k] \in Items /\ out[k] < cursor /\ Completed(out[k])
    BY DEF Gathered, Listed
  <2>3. \A i \in Items : i < cursor' <=> i < cursor \/ i = cursor
    BY <2>1
  <2>4. Len(out) \in Nat
    BY <2>1
  <2>5. CASE Completed(cursor)
    <3>1. out' = Append(out, cursor) /\ Len(out') = Len(out) + 1
      BY <2>1, <2>5 DEF Gather
    <3>2. /\ \A k \in 1..Len(out) : out'[k] = out[k]
          /\ out'[Len(out) + 1] = cursor
      BY <2>1, <3>1
    <3>3. Ascending(out')
      <4>1. \A i, j \in 1..Len(out) : i < j => out[i] < out[j]
        BY DEF Ascending, Gathered
      <4> SUFFICES ASSUME NEW i \in 1..Len(out'), NEW j \in 1..Len(out'), i < j PROVE out'[i] < out'[j]
        BY DEF Ascending
      <4>2. CASE j <= Len(out)
        BY <2>4, <3>1, <3>2, <4>1, <4>2
      <4>3. CASE j = Len(out) + 1
        BY <2>2, <2>4, <3>1, <3>2, <4>3
      <4> QED BY <2>4, <3>1, <4>2, <4>3
    <3>4. Listed(out') = Listed(out) \cup {cursor}
      BY <2>4, <3>1, <3>2 DEF Listed
    <3>5. Listed(out') = {i \in Items : i < cursor' /\ Completed(i)}
      BY <2>1, <2>3, <2>5, <3>4 DEF Gathered
    <3>6. /\ Len(out') <= cursor' - 1
          /\ Len(out') = cursor' - 1 <=> \A i \in Items : i < cursor' => Completed(i)
      BY <2>1, <2>3, <2>4, <2>5, <3>1 DEF Gathered
    <3> QED
      BY <1>0, <3>3, <3>5, <3>6 DEF Gathered, Gather
  <2>6. CASE ~Completed(cursor)
    <3>1. out' = out
      BY <2>6 DEF Gather
    <3>2. Ascending(out') /\ Listed(out') = {i \in Items : i < cursor' /\ Completed(i)}
      BY <2>3, <2>6, <3>1 DEF Gathered, Ascending, Listed
    <3>3. /\ Len(out') <= cursor' - 1
          /\ Len(out') # cursor' - 1
          /\ ~ \A i \in Items : i < cursor' => Completed(i)
      BY <2>1, <2>3, <2>4, <2>6, <3>1 DEF Gathered
    <3> QED
      BY <1>0, <3>2, <3>3 DEF Gathered, Gather
  <2> QED
    BY <2>5, <2>6
<1> QED
  BY <1>1, <1>2, <1>3, <1>4

\* The return computes the error from what was gathered and the context.
LEMMA ReturnStep == ASSUME IInv, Return PROVE IInv'
<1> USE DEF IInv
<1>0. /\ Workers' = Workers /\ Items' = Items
      /\ \A i : Completed(i)' <=> Completed(i)
  BY DEF Return, Workers, Items, Completed
<1>1. TypeOK'
  BY TypeStep DEF Next, Feeder
<1>2. cursor = n + 1 /\ n \in Nat /\ Len(out) <= n /\ Len(out) \in Nat
  BY DEF Return, TypeOK, Gathered
<1>3. SlotOwnership' /\ Dispatched' /\ WorkersGone'
  BY <1>0 DEF Return, SlotOwnership, Dispatched, WorkersGone, Closed
<1>4. FeederPlace'
  BY DEF Return, FeederPlace, Closed
<1>5. ErrorTold'
  BY <1>2 DEF Return, ErrorTold, FeederPlace, Closed
<1>6. Gathered'
  BY <1>0, <1>2 DEF Return, Gathered, Ascending, Listed
<1> QED
  BY <1>1, <1>3, <1>4, <1>5, <1>6

\* A stuttering step.
LEMMA StutterStep == ASSUME IInv, UNCHANGED vars PROVE IInv'
<1> USE DEF IInv, vars
<1>0. /\ Workers' = Workers /\ Items' = Items
      /\ \A i : Completed(i)' <=> Completed(i)
  BY DEF Workers, Items, Completed
<1>1. TypeOK' /\ SlotOwnership' /\ Dispatched' /\ WorkersGone'
  BY <1>0 DEF TypeOK, SlotOwnership, Dispatched, WorkersGone, Closed
<1>2. FeederPlace' /\ ErrorTold' /\ Gathered'
  BY <1>0 DEF FeederPlace, ErrorTold, Closed, Gathered, Ascending, Listed
<1> QED
  BY <1>1, <1>2

\* Every step of the feeder, of a worker and of the context keeps it.
LEMMA InvStep == IInv /\ [Next]_vars => IInv'
<1> SUFFICES ASSUME IInv, [Next]_vars PROVE IInv'
  OBVIOUS
<1>1. CASE Feeder
  BY <1>1, FeederStep, DispatchStep, GatherStep, ReturnStep DEF Feeder
<1>2. ASSUME NEW w \in Workers, Worker(w) PROVE IInv'
  BY <1>2, SettleStep, ExitStep DEF Worker, Finish, Panic
<1> QED
  BY <1>1, <1>2, CancelStep, StutterStep DEF Next, Idle

\* The invariant of runPool: who owns which slot, what was handed out and what
\* has been gathered, for any number of items and workers.
THEOREM InductiveInvariant == Spec => []IInv
BY InvInit, InvStep, PTL DEF Spec
-----------------------------------------------------------------------------
\* Type correctness of runPool's state (engine.go:556-610).
THEOREM TypeCorrect == Spec => []TypeOK
<1>1. IInv => TypeOK
  BY DEF IInv
<1> QED
  BY <1>1, InductiveInvariant, PTL

\* No slot of the shared results slice has two writers, and none is written
\* twice: the claim the pool makes for using no lock.
THEOREM SlotsAreOwned == Spec => []SlotOwnership
<1>1. IInv => SlotOwnership
  BY DEF IInv
<1> QED
  BY <1>1, InductiveInvariant, PTL

\* A cancellation racing the select lets one item through and never two.
THEOREM LateDispatchIsBounded == Spec => []AtMostOneLate
<1>1. IInv => AtMostOneLate
  BY DEF IInv, FeederPlace, AtMostOneLate
<1> QED
  BY <1>1, InductiveInvariant, PTL

\* The returned results are in input order, each completed item once.
THEOREM OutputIsOrdered == Spec => []OutputInOrder
<1>1. IInv => OutputInOrder
  BY DEF IInv, Gathered, OutputInOrder, Done, Items, TypeOK
<1> QED
  BY <1>1, InductiveInvariant, PTL

\* The error Collect and Run return tells what is missing and why.
THEOREM ErrorIsHonest == Spec => []HonestError
<1>1. ASSUME IInv, pc = "returned"
      PROVE  /\ err = "nil" <=> \A i \in Items : Completed(i)
             /\ err # "ctx" => \A i \in Items : slot[i] # "none"
             /\ \A i, j \in Items : slot[i] = "none" /\ i < j => slot[j] = "none"
  <2> USE <1>1 DEF IInv
  <2>1. n \in Nat /\ Items = 1..n /\ next \in 1..(n + 1) /\ cursor = n + 1 /\ Len(out) <= n
    BY DEF TypeOK, Items, Gathered
  <2>2. err = "nil" <=> \A i \in Items : Completed(i)
    BY <2>1 DEF Gathered, ErrorTold
  <2>3. \A i \in Items : i < next => slot[i] # "none"
    BY DEF WorkersGone, Dispatched
  <2>4. err = "nil" => \A i \in Items : slot[i] # "none"
    BY <2>2 DEF Completed
  <2>5. err = "incomplete" => \A i \in Items : slot[i] # "none"
    BY <2>1, <2>3 DEF ErrorTold
  <2>6. err # "ctx" => \A i \in Items : slot[i] # "none"
    BY <2>4, <2>5 DEF TypeOK
  <2>7. \A i, j \in Items : slot[i] = "none" /\ i < j => slot[j] = "none"
    BY <2>1, <2>3 DEF Dispatched
  <2> QED
    BY <2>2, <2>6, <2>7
<1>2. IInv => HonestError
  BY <1>1 DEF HonestError
<1> QED
  BY <1>2, InductiveInvariant, PTL

\* Nobody writes a slot once the feeder has begun to read them, and no worker
\* outlives the call.
THEOREM GatherIsQuiet == Spec => QuietGather
<1>1. IInv /\ [Next]_vars => [Closed /\ pc # "wait" => UNCHANGED <<slot, at, held>>]_vars
  <2> SUFFICES ASSUME IInv, Next, Closed, pc # "wait" PROVE UNCHANGED <<slot, at, held>>
    OBVIOUS
  <2>1. \A w \in Workers : at[w] = "exited"
    BY DEF IInv, WorkersGone, Closed
  <2>2. Feeder => UNCHANGED <<slot, at, held>>
    BY DEF Feeder, EnterEmpty, Enter, CheckContext, SelectDone, Dispatch, CloseChannel,
           AwaitWorkers, Gather, Return, Closed
  <2>3. \A w \in Workers : ~Worker(w)
    BY <2>1 DEF Worker, Finish, Panic, Settle, Exit
  <2> QED
    BY <2>2, <2>3 DEF Next, Cancel, Idle, vars
<1> QED
  BY <1>1, InductiveInvariant, PTL DEF Spec, QuietGather
-----------------------------------------------------------------------------
(* The pool implements PoolPromise.                                        *)

\* The items in flight have a worker each, so MaxConcurrency lanes suffice.
LEMMA RunningFitsNext ==
  ASSUME n' \in Nat
  PROVE  Promise!Fits(Running)'
<1> USE PoolAssumption
<1> DEFINE lane == [i \in Running' |-> CHOOSE w \in Workers' : at'[w] = "running" /\ held'[w] = i]
<1>1. \A i \in Running' : /\ lane[i] \in Workers'
                          /\ held'[lane[i]] = i
  BY DEF Running
<1>2. Workers' \subseteq 1..MaxConcurrency
  BY DEF Workers, MinOf
<1>3. lane \in [Running' -> 1..MaxConcurrency]
  BY <1>1, <1>2
<1>4. \A i, j \in Running' : lane[i] = lane[j] => i = j
  BY <1>1
<1> HIDE DEF lane
<1> QED
  BY <1>3, <1>4 DEF Promise!Fits

\* The pool keeps PoolPromise: every step of its goroutines is a step of the
\* promise or one the caller cannot see.
THEOREM PoolKeepsPromise == Spec => KeepsPromise
<1> USE DEF Promise!vars
<1>1. Init => Promise!Init
  BY PoolAssumption DEF Init, Promise!Init, Shown, Running, Done, Completed, Items
<1>2. ASSUME IInv, [Next]_vars PROVE [Promise!Next]_(Promise!vars)
  <2> USE PoolAssumption
  <2>0. /\ TypeOK /\ n \in Nat /\ next \in 1..(n + 1)
        /\ n' = n /\ Items' = Items /\ Workers' = Workers
    BY <1>2 DEF IInv, TypeOK, vars, Next, Feeder, Worker, Finish, Panic, Idle, EnterEmpty,
         Enter, CheckContext, SelectDone, Dispatch, CloseChannel, AwaitWorkers, Gather,
         Return, Settle, Exit, Cancel, Items, Workers
  <2>1. ASSUME UNCHANGED <<n, next, ctxDone, at, held, slot, late, err>>,
               pc' = "returned" <=> pc = "returned", pc = "returned" => out' = out
        PROVE  UNCHANGED Promise!vars
    BY <2>0, <2>1 DEF Completed, Running, Done, Shown
  <2>2. CASE Enter \/ CheckContext \/ SelectDone \/ CloseChannel \/ AwaitWorkers \/ Gather
    BY <2>1, <2>2 DEF Enter, CheckContext, SelectDone, CloseChannel, AwaitWorkers, Gather
  <2>3. ASSUME NEW w \in Workers, Dispatch(w) PROVE Promise!Take
    <3>1. at[w] = "ranging" /\ pc = "select" /\ next <= n /\ (ctxDone => late = 0) /\ late <= 1
      BY <1>2, <2>3 DEF Dispatch, IInv, FeederPlace, TypeOK
    <3>2. Promise!Fits(Running')
      BY <2>0, RunningFitsNext DEF Promise!Fits
    <3>3. Running' = Running \cup {next}
      <4>1. \A u \in Workers : u # w => at'[u] = at[u] /\ held'[u] = held[u]
        BY <2>0, <2>3 DEF Dispatch, TypeOK
      <4>2. at'[w] = "running" /\ held'[w] = next
        BY <2>0, <2>3 DEF Dispatch, TypeOK
      <4> QED
        BY <2>0, <3>1, <4>1, <4>2 DEF Running
    <3>4. late' = IF ctxDone THEN 1 ELSE 0
      BY <1>2, <2>3, <3>1 DEF Dispatch, IInv, FeederPlace, TypeOK
    <3>5. next - 1 < n /\ next' - 1 = (next - 1) + 1 /\ (next - 1) + 1 = next
      BY <2>0, <2>3, <3>1 DEF Dispatch
    <3>7. Running' = Running \cup {(next - 1) + 1}
      BY <3>3, <3>5, Zenon
    <3>6. Done' = Done /\ pc # "returned" /\ pc' # "returned" /\ Shown' = Shown
      BY <2>0, <2>3 DEF Dispatch, Done, Completed, Shown
    <3>8. ~(pc = "returned") /\ (pc = "returned")' = (pc = "returned")
      BY <3>6
    <3>9. UNCHANGED <<n, ctxDone, err>>
      BY <2>3 DEF Dispatch
    <3>10. ctxDone => late = 0
      BY <3>1
    <3> QED
      BY <3>2, <3>4, <3>5, <3>6, <3>7, <3>8, <3>9, <3>10 DEF Promise!Take
  <2>4. ASSUME NEW w \in Workers, NEW f \in {"ok", "cut", "panicked"}, Settle(w, f)
        PROVE  \E i \in Running : Promise!Settle(i)
    <3>1. held[w] \in Running /\ held[w] \in Items /\ slot[held[w]] = "none"
      BY <1>2, <2>0, <2>4 DEF Settle, IInv, SlotOwnership, Running, Items
    <3>2. \A u \in Workers : u # w => at'[u] = at[u] /\ held'[u] = held[u]
      BY <2>0, <2>4 DEF Settle, TypeOK
    <3>3. at'[w] = "ranging"
      BY <2>0, <2>4 DEF Settle, TypeOK
    <3>4. \A u \in Workers : u # w /\ at[u] = "running" => held[u] # held[w]
      BY <1>2, <2>4 DEF Settle, IInv, SlotOwnership
    <3>5. Running' = Running \ {held[w]}
      BY <2>0, <3>2, <3>3, <3>4 DEF Running
    <3>6. \A i \in Items : i # held[w] => slot'[i] = slot[i]
      BY <2>0, <2>4 DEF Settle, TypeOK
    <3>7. Done' \in {Done, Done \cup {held[w]}}
      <4>1. slot'[held[w]] = f
        BY <2>0, <2>4, <3>1 DEF Settle, TypeOK
      <4>2. CASE f = "panicked"
        <5>1. Done' = Done
          BY <2>0, <3>1, <3>6, <4>1, <4>2 DEF Completed, Done
        <5> QED
          BY <5>1
      <4>3. CASE f # "panicked"
        <5>1. Done' = Done \cup {held[w]}
          BY <2>0, <2>4, <3>1, <3>6, <4>1, <4>3 DEF Completed, Done
        <5> QED
          BY <5>1
      <4> QED
        BY <4>2, <4>3
    <3>8. Promise!Settle(held[w])
      BY <2>4, <3>1, <3>5, <3>7 DEF Promise!Settle, Settle, Shown
    <3> QED
      BY <3>1, <3>8
  <2>5. ASSUME NEW w \in Workers, Exit(w) PROVE UNCHANGED Promise!vars
    <3>1. \A u \in Workers : (at'[u] = "running" <=> at[u] = "running") /\ held'[u] = held[u]
      BY <2>0, <2>5 DEF Exit, TypeOK
    <3>2. Running' = Running /\ Done' = Done
      BY <2>0, <2>5, <3>1 DEF Exit, Running, Done, Completed
    <3> QED
      BY <2>5, <3>2 DEF Exit, Shown
  <2>6. CASE Cancel
    <3>1. Running' = Running /\ Done' = Done
      BY <2>0, <2>6 DEF Cancel, Running, Done, Completed
    <3> QED
      BY <2>6, <3>1 DEF Cancel, Promise!Cancel, Promise!Next, Shown
  <2>7. CASE EnterEmpty
    <3>1. n = 0 /\ next = 1 /\ out = << >> /\ err = "nil" /\ Running = {} /\ Done = {}
      BY <1>2, <2>0, <2>7 DEF EnterEmpty, IInv, FeederPlace, Gathered, ErrorTold, Running,
         Done, Workers, Items, MinOf
    <3>2. Running' = Running /\ Done' = Done
      BY <2>0, <2>7 DEF EnterEmpty, Running, Done, Completed
    <3>3. Promise!Lists(out, {})
      BY <3>1 DEF Promise!Lists, Promise!Ascending
    <3> QED
      BY <2>0, <2>7, <3>1, <3>2, <3>3 DEF EnterEmpty, Promise!Reply, Promise!Next, Shown
  <2>8. CASE Return
    <3>1. /\ Running = {} /\ cursor = n + 1 /\ (next > n \/ ctxDone)
          /\ Len(out) <= n
      BY <1>2, <2>0, <2>8 DEF Return, IInv, WorkersGone, Gathered, FeederPlace, Closed,
         TypeOK, Running
    <3>2. Running' = Running /\ Done' = Done
      BY <2>0, <2>8 DEF Return, Running, Done, Completed
    <3>3. Promise!Lists(out, Done)
      BY <1>2, <2>0, <3>1 DEF IInv, Gathered, Promise!Lists, Promise!Ascending, Ascending,
         Listed, Done, Items
    <3>4. Len(out) < n <=> Done # 1..n
      <4>1. Len(out) \in Nat /\ cursor - 1 = n /\ Items = 1..n
        BY <2>0, <3>1 DEF TypeOK, Items
      <4>2. Len(out) = n <=> \A i \in 1..n : Completed(i)
        BY <1>2, <2>0, <3>1, <4>1 DEF IInv, Gathered
      <4>3. Done = 1..n <=> \A i \in 1..n : Completed(i)
        BY <4>1 DEF Done
      <4> QED
        BY <2>0, <3>1, <4>1, <4>2, <4>3
    <3>5. err' = IF Done = 1..n THEN "nil" ELSE IF ctxDone THEN "ctx" ELSE "incomplete"
      BY <2>8, <3>4 DEF Return
    <3>6. Shown' = out
      BY <2>8 DEF Return, Shown
    <3>7. Promise!Lists(Shown', Done)
      BY <3>3, <3>6
    <3>8. next - 1 = n \/ ctxDone
      BY <2>0, <3>1
    <3> QED
      BY <2>8, <3>1, <3>2, <3>5, <3>7, <3>8 DEF Return, Promise!Reply, Promise!Next
  <2>9. CASE UNCHANGED vars
    BY <2>1, <2>9 DEF vars
  <2>10. CASE Feeder
    BY <2>2, <2>3, <2>7, <2>8, <2>10 DEF Feeder, Promise!Next
  <2>11. ASSUME NEW w \in Workers, Worker(w) PROVE [Promise!Next]_(Promise!vars)
    BY <2>4, <2>5, <2>11 DEF Worker, Finish, Panic, Promise!Next
  <2> QED
    BY <1>2, <2>6, <2>9, <2>10, <2>11 DEF Next, Idle, Promise!Next
<1> QED
  BY <1>1, <1>2, InductiveInvariant, PTL DEF Spec, KeepsPromise, Promise!Spec
=============================================================================
