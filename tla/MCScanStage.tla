---------------------------- MODULE MCScanStage ----------------------------
(***************************************************************************)
(* Instances of ScanStage for TLC: a few kinds of route, one passive and   *)
(* one active check, and what each of them may return.                     *)
(***************************************************************************)
EXTENDS ScanStage

Shape(verb, templated, auth) == [verb |-> verb, templated |-> templated, auth |-> auth]

\* A public page, two collections to post to, one of them protected, and a
\* protected item to read or to delete.
MCShapes == {Shape("GET", FALSE, FALSE), Shape("GET", TRUE, TRUE),
             Shape("POST", FALSE, TRUE), Shape("POST", TRUE, FALSE), Shape("DELETE", TRUE, TRUE)}

Back(k, how) == [findings |-> k, err |-> how]

\* A passive check on any route, as missing-headers is, and an active one that
\* needs a parameter to inject into, as sqli-boolean does.  A third, as idor is,
\* keeps to the protected routes.
MCChecks ==
  << [kind |-> "passive", auth |-> FALSE, templated |-> FALSE,
      returns |-> {Back(0, "nil"), Back(1, "nil"), Back(0, "panic")}],
     [kind |-> "active", auth |-> FALSE, templated |-> TRUE,
      returns |-> {Back(1, "nil"), Back(1, "skipped"), Back(1, "other")}],
     [kind |-> "active", auth |-> TRUE, templated |-> TRUE,
      returns |-> {Back(0, "nil"), Back(0, "skipped")}] >>
=============================================================================
