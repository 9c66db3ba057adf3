----------------------------- MODULE AtomicStore -----------------------------
(***************************************************************************)
(* What writeFile of cmd/warden/main.go promises to whoever reads a        *)
(* stage's output: a path holds nothing or a whole file, and changes from  *)
(* one whole file to another in one step.                                  *)
(***************************************************************************)
CONSTANTS Paths, Torn   \* Torn: a file of which only a part has been written

VARIABLE disk

Init == \A p \in Paths : disk[p] # Torn

Put(p) ==
  /\ disk'[p] # Torn
  /\ disk' = [disk EXCEPT ![p] = disk'[p]]

Next == \E p \in Paths : Put(p)

Spec == Init /\ [][Next]_disk
=============================================================================
