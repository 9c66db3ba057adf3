----------------------------- MODULE StageDiff -----------------------------
(***************************************************************************)
(* warden diff: Compare and Regressed of internal/diff/diff.go, on stage   *)
(* files as scan and attack write them (cmd/warden/main.go).               *)
(*                                                                         *)
(* Two scans are made, each may go through attack, and the two files are   *)
(* compared.  What each scan really did is kept beside the file, so that   *)
(* the report can be held against it.  A finding is of a check, on a route,*)
(* about a subject, a parameter or a header, and of the severity that this *)
(* scan's answer earned it.  Coverage is per check and route; an ID names  *)
(* the subject, and two subjects may share a name.                         *)
(***************************************************************************)
EXTENDS Naturals, FiniteSets

CONSTANTS
  Checks, Routes, Subjects,   \* names
  NoCheck,          \* the empty check name of a route-level entry
  Named,            \* the discriminator a check puts into a finding's ID, by its subject
  Grades            \* the severities a check may give what it finds about a subject

Severities == {"critical", "high", "medium", "low"}

ASSUME DiffAssumption ==
  NoCheck \notin Checks /\ Grades \in [Checks \X Subjects -> SUBSET Severities]

VARIABLES
  phase,
  scans,      \* what the two scans did, as they did it
  files,      \* the files compared: <<before, after>>
  emptied,    \* history: which of them attack wrote from an empty findings list
  threshold,  \* the word after --fail-on, which may be any
  report, regressed

diffVars == <<phase, scans, files, emptied, threshold, report, regressed>>

Pairs == Checks \X Routes
Findings == Checks \X Routes \X Subjects \X Severities
Of(f) == <<f[1], f[2]>>
About(f) == <<f[1], f[3]>>

\* Faulty variant: an ID is of a check and a route.
IDOfPair(f) == Of(f)

\* findingID: a parameter goes into it by its name alone, not by where it is, and
\* the severity does not go into it at all.
ID(f) == <<f[1], f[2], Named[About(f)]>>
IDs(F) == {ID(f) : f \in F}

\* What a check finds on a route, graded by the answer: the same header may be
\* worth more or less from one scan to the next.
FoundBy(c) ==
  {g \in UNION {[S -> Severities] : S \in SUBSET Subjects} :
     \A x \in DOMAIN g : g[x] \in Grades[<<c, x>>]}
Nought == [x \in {} |-> x]

\* One scan: the fate of every pair, and what was found there.  A route can be held
\* back as a whole, or not be in the spec; a check can be switched off.
FatesOf(c) ==
  [how : {"whole", "partial"}, found : FoundBy(c)]
    \cup [how : {"failed", "heldback", "gone"}, found : {Nought}]
Scans ==
  {s \in [Pairs -> UNION {FatesOf(c) : c \in Checks}] :
     /\ \A p \in Pairs : s[p] \in FatesOf(p[1])
     /\ \A r \in Routes : \A c, d \in Checks :
          s[<<c, r>>].how = "heldback" => s[<<d, r>>].how \in {"heldback", "gone"}}

Ended(s, how) == {p \in Pairs : s[p].how = how}
Looked(s) == Ended(s, "whole")
Found(s, p) == s[p].found
Seen(s) ==
  {f \in Findings : f[3] \in DOMAIN Found(s, Of(f)) /\ f[4] = Found(s, Of(f))[f[3]]}
Entry(p)  == [check |-> p[1], route |-> p[2]]
HeldBackEntry(p) == [check |-> NoCheck, route |-> p[2]]

\* The stage file runScan writes of it: a partial result is a skip, and its findings.
FileOf(s) ==
  [findings |-> Seen(s),
   examined |-> {Entry(p) : p \in Looked(s)},
   skipped  |-> {Entry(p) : p \in Ended(s, "partial")}
                \cup {HeldBackEntry(p) : p \in Ended(s, "heldback")},
   failed   |-> {Entry(p) : p \in Ended(s, "failed")}]

\* runAttack's file: the same findings and the scan's coverage, except that an
\* empty findings list is answered by a file with no coverage at all.
AttackedFile(f) ==
  IF f.findings = {} THEN [findings |-> {}, examined |-> {}, skipped |-> {}, failed |-> {}]
                     ELSE f
-----------------------------------------------------------------------------
\* accountedSet: the pairs the file has anything to say about.
Accounted(f) == f.examined \cup f.skipped \cup f.failed

\* Where a finding of the older file may end up.
Fortunes == {"resolved", "unverified", "dropped", "unchanged"}

\* Those of the findings F whose ID is not among those of G.
Unmatched(F, G) == {f \in F : ID(f) \notin IDs(G)}

\* Faulty variant: whatever is gone from the findings is resolved.
CompareNaively(b, a) ==
  LET Gone == Unmatched(b.findings, a.findings) IN
  [new          |-> Unmatched(a.findings, b.findings),
   resolved     |-> Gone,
   unverified   |-> {},
   dropped      |-> {},
   unchanged    |-> b.findings \ Gone,
   coverageLost |-> b.examined \ a.examined]

\* Faulty variant: a verdict counts as an account of its own, no longer as a fix.
CompareAccounted(b, a) ==
  LET Gone == Unmatched(b.findings, a.findings) IN
  [new          |-> Unmatched(a.findings, b.findings),
   resolved     |-> {f \in Gone : Entry(Of(f)) \in a.examined},
   unverified   |-> {f \in Gone : Entry(Of(f)) \in Accounted(a)},
   dropped      |-> {f \in Gone : Entry(Of(f)) \notin Accounted(a)},
   unchanged    |-> b.findings \ Gone,
   coverageLost |-> b.examined \ a.examined]

\* Faulty variant: only what nobody accounts for is lost coverage.
CompareForgiving(b, a) ==
  LET Gone == Unmatched(b.findings, a.findings) IN
  [new          |-> Unmatched(a.findings, b.findings),
   resolved     |-> {f \in Gone : Entry(Of(f)) \in a.examined},
   unverified   |-> {f \in Gone : Entry(Of(f)) \in Accounted(a) \ a.examined},
   dropped      |-> {f \in Gone : Entry(Of(f)) \notin Accounted(a)},
   unchanged    |-> b.findings \ Gone,
   coverageLost |-> b.examined \ Accounted(a)]

\* Compare, by ID: of a finding in both files the older record is kept, whatever the
\* newer one says.  One that is gone counts as resolved only where the newer run
\* reached a verdict.
Compare(b, a) ==
  LET Gone == Unmatched(b.findings, a.findings) IN
  [new          |-> Unmatched(a.findings, b.findings),
   resolved     |-> {f \in Gone : Entry(Of(f)) \in a.examined},
   unverified   |-> {f \in Gone : Entry(Of(f)) \in Accounted(a) \ a.examined},
   dropped      |-> {f \in Gone : Entry(Of(f)) \notin Accounted(a)},
   unchanged    |-> b.findings \ Gone,
   coverageLost |-> b.examined \ a.examined]

Known(w) ==
  CASE w = "critical" -> 0 [] w = "high" -> 1 [] w = "medium" -> 2 [] w = "low" -> 3

\* Faulty variant: the zero that a Go map answers for a missing key.
SeverityRankZero(w) == IF w \in Severities THEN Known(w) ELSE 0

\* severityRank: any other word comes last.
SeverityRank(w) == IF w \in Severities THEN Known(w) ELSE 4

\* Regressed: a new finding at the threshold or worse, or lost coverage.
Regressed(r, t) ==
  (\E f \in r.new : SeverityRank(f[4]) <= SeverityRank(t)) \/ r.coverageLost # {}
-----------------------------------------------------------------------------
NoScan == [p \in Pairs |-> [how |-> "gone", found |-> Nought]]
Nothing == FileOf(NoScan)

DiffInit ==
  /\ phase = "scan"
  /\ scans = [k \in 1..2 |-> NoScan]
  /\ files = [k \in 1..2 |-> Nothing]
  /\ emptied = {}
  /\ threshold \in Severities \cup {"unknown"}
  /\ report = Compare(Nothing, Nothing) /\ regressed = FALSE

\* Both scans, at their times.
Scan ==
  /\ phase = "scan"
  /\ scans' \in [1..2 -> Scans]
  /\ files' = [k \in 1..2 |-> FileOf(scans'[k])]
  /\ phase' = "attack"
  /\ UNCHANGED <<emptied, threshold, report, regressed>>

\* warden attack on one of the files, on both or on neither: the comparison is of
\* confirmed.json where it was run and of findings.json where it was not.
Attack ==
  /\ phase = "attack"
  /\ \E K \in SUBSET (1..2) :
       /\ files' = [k \in 1..2 |-> IF k \in K THEN AttackedFile(files[k]) ELSE files[k]]
       /\ emptied' = {k \in K : files[k].findings = {}}
  /\ phase' = "diff"
  /\ UNCHANGED <<scans, threshold, report, regressed>>

\* runDiff; regressed is exit status 2.
Diff ==
  /\ phase = "diff"
  /\ report' = Compare(files[1], files[2])
  /\ regressed' = Regressed(report', threshold)
  /\ phase' = "exited"
  /\ UNCHANGED <<scans, files, emptied, threshold>>

Exited == phase = "exited" /\ UNCHANGED diffVars

DiffNext == Scan \/ Attack \/ Diff \/ Exited

DiffSpec == DiffInit /\ [][DiffNext]_diffVars
-----------------------------------------------------------------------------
\* "Resolved" is the only category that means someone fixed something: the newer
\* scan really reached a verdict on that route and check, all of it, and did not
\* find it.  Whatever attack did to the files.
ResolvedIsEarned ==
  \A f \in report.resolved : Of(f) \in Looked(scans[2]) /\ f[3] \notin DOMAIN Found(scans[2], Of(f))

\* Every finding of the older file ends up in exactly one category; one of the newer
\* file is new, or goes by the ID of one that is unchanged.
EveryFindingPlaced ==
  phase = "exited" =>
    /\ \A f \in files[1].findings :
         \E part \in Fortunes :
           /\ f \in report[part]
           /\ \A other \in Fortunes : f \in report[other] => other = part
    /\ \A f \in files[2].findings : f \in report.new <=> ID(f) \notin IDs(report.unchanged)

\* What --fail-on promises to stop at: its own word and the graver ones; a word that
\* is none of the four stops at all.
AsGraveAs(t) ==
  CASE t = "critical" -> {"critical"}
    [] t = "high"     -> {"critical", "high"}
    [] t = "medium"   -> {"critical", "high", "medium"}
    [] OTHER          -> Severities

\* The CI gate: exit status 0 means that every finding the newer scan made at the
\* threshold or above goes by the name of one that the older scan made on the route,
\* at any severity, and that whatever the older scan reached a verdict on, the newer
\* one did too.  The last takes an older file that carries its scan's coverage.
GateSound ==
  phase = "exited" /\ ~regressed =>
    /\ \A f \in Seen(scans[2]) :
         f[4] \in AsGraveAs(threshold) =>
           \E g \in Seen(scans[1]) : Of(g) = Of(f) /\ Named[About(g)] = Named[About(f)]
    /\ 1 \notin emptied => Looked(scans[1]) \subseteq Looked(scans[2])
=============================================================================
