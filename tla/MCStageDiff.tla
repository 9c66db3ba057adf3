---------------------------- MODULE MCStageDiff ----------------------------
(***************************************************************************)
(* StageDiff with a check of parameters, two of which share their name, in *)
(* the path and in the query, and a check of headers, one of which is      *)
(* graded by what the answer carries (headers.go:103-107).                 *)
(***************************************************************************)
EXTENDS StageDiff

CONSTANTS params, headers, one, other

MCChecks == {params, headers}
MCSubjects == {one, other}
MCNamed == [x \in MCChecks \X MCSubjects |-> IF x[1] = params THEN one ELSE x[2]]
MCGrades ==
  [x \in MCChecks \X MCSubjects |->
     IF x[1] = params THEN {"high"} ELSE IF x[2] = one THEN {"medium", "low"} ELSE {"medium"}]
=============================================================================
