--------------------------- MODULE MCAttackStage ---------------------------
(***************************************************************************)
(* Instances of AttackStage for TLC: one finding of each confirmer, one    *)
(* without, one on a destructive route and one confirmed before.           *)
(***************************************************************************)
EXTENDS AttackStage

Found(check, own) ==
  [check |-> check, id |-> FindingID(check, own),
   destructive |-> FALSE, auth |-> FALSE, confirmed |-> FALSE]

MCShapes ==
  {Found("sqli-boolean", "name"), Found("xss-reflected", "q"), Found("verbose-errors", "id"),
   Found("jwt-weak", "no-exp"),
   [Found("auth-required", "0") EXCEPT !.auth = TRUE],
   [Found("open-redirect", "next") EXCEPT !.destructive = TRUE],
   [Found("xss-reflected", "q") EXCEPT !.confirmed = TRUE]}

\* The findings of jwt-weak, and one that has no confirmer.
MCTokens == {Found("jwt-weak", "alg-none-accepted"), Found("jwt-weak", "no-exp"), Found("idor", "0")}

=============================================================================
