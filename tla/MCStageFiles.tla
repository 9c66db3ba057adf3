---------------------------- MODULE MCStageFiles ----------------------------
(***************************************************************************)
(* Instances of StageFiles for TLC: command lines that share files, as     *)
(* input, as output, and as both.                                          *)
(***************************************************************************)
EXTENDS StageFiles

Path(stem, ext) == [stem |-> stem, ext |-> ext]
A == Path("a", "json")
B == Path("b", "json")
BHtml == Path("b", "html")
BSarif == Path("b", "sarif")
MCPaths == {A, B, BHtml, BSarif}

Line(command, from, to, js, sa) ==
  [cmd |-> command, in |-> from, out |-> to, json |-> js, sarif |-> sa]

\* The pipeline as README shows it, an attack in place, a report whose JSON falls
\* on its input, one with all three outputs, and two whose outputs collide.
MCCommands ==
  {Line("scan", A, A, NoPath, NoPath),
   Line("attack", A, B, NoPath, NoPath), Line("attack", A, A, NoPath, NoPath),
   Line("report", B, BHtml, NoPath, NoPath), Line("report", A, BHtml, NoPath, BSarif),
   Line("report", A, B, NoPath, NoPath), Line("report", A, BHtml, NoPath, B)}

Finding(number, check, rank) == [number |-> number, check |-> check, rank |-> rank, confirmed |-> FALSE]

\* Nothing beside a gap, and two findings of one check beside one, of which the
\* later is the more severe.
MCScanned ==
  {[findings |-> << >>, gaps |-> {"gap"}],
   [findings |-> << Finding(1, "x", 3), Finding(2, "x", 0) >>, gaps |-> {"gap"}]}
=============================================================================
