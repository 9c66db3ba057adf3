----------------------------- MODULE StageFiles -----------------------------
(***************************************************************************)
(* The files by which the stages hand on their work: writeFile, samePath,  *)
(* readFindings and runReport of cmd/warden/main.go, and what              *)
(* internal/report makes of a stage file.                                  *)
(*                                                                         *)
(* A process runs one command and may be killed between any two steps; the *)
(* machine itself stays up.                                                *)
(* Several may be at work on the same directory.  Of scan and attack only  *)
(* the file they read and the file they write are kept.  Findings are      *)
(* numbered in the order of check, path and ID, the last keys of the       *)
(* report's order.                                                         *)
(***************************************************************************)
EXTENDS Naturals, Sequences, FiniteSets

CONSTANTS
  Procs,      \* the processes that may be started
  Paths,      \* names of files, [stem, ext]: absolute and clean
  Commands,   \* the command lines, [cmd, in, out, json, sarif]
  Names,      \* names of checks
  Scanned,    \* what a scan may find: [findings, gaps]
  NoPath      \* a flag that was not given

\* A finding.  Its rank is severityRank of its severity, the worst being 0.
FindingRecords == [number : Nat, check : Names, rank : Nat, confirmed : BOOLEAN]

ASSUME FilesAssumption ==
  /\ NoPath \notin Paths
  /\ Commands \subseteq [cmd : {"scan", "attack", "report"}, in : Paths, out : Paths,
                         json : Paths \cup {NoPath}, sarif : Paths \cup {NoPath}]
  /\ \A p \in Paths : [stem |-> p.stem, ext |-> "json"] \in Paths
  /\ \A d \in Scanned : d = [findings |-> d.findings, gaps |-> d.gaps] /\ d.findings \in Seq(FindingRecords)

VARIABLES
  disk,      \* the file at each path
  temp,      \* the temporary file of each process
  pc, cmd,   \* of each process: where it is and its command line
  k,         \* which of its outputs it is at
  input,     \* the file it has read
  data,      \* the findings and coverage it works on
  owner      \* history: the process that put the file at each path there

vars == <<disk, temp, pc, cmd, k, input, data, owner>>

Absent == [kind |-> "absent"]
Torn   == [kind |-> "torn"]
Nobody == "nobody"
NoData == [findings |-> << >>, gaps |-> {}]
-----------------------------------------------------------------------------
\* Build's comparison: the more severe, then the confirmed, then the number.
Before(a, b) ==
  \/ a.rank < b.rank
  \/ a.rank = b.rank /\ a.confirmed /\ ~b.confirmed
  \/ a.rank = b.rank /\ a.confirmed = b.confirmed /\ a.number < b.number

\* slices.SortStableFunc: where element i of s ends up.
Place(s, i) ==
  Cardinality({j \in DOMAIN s : Before(s[j], s[i]) \/ (j <= i /\ ~Before(s[i], s[j]))})
Ordered(s) == [n \in DOMAIN s |-> s[CHOOSE i \in DOMAIN s : Place(s, i) = n]]

\* Faulty variant: the findings are left in scan order.
BuildUnordered(d) == d

\* Faulty variant: a report is about what was confirmed.
BuildConfirmed(d) ==
  [d EXCEPT !.findings = Ordered(SelectSeq(d.findings, LAMBDA f : f.confirmed))]

\* Build.
Build(d) == [d EXCEPT !.findings = Ordered(d.findings)]

\* rulesFor: a rule per check with a finding, as severe as the first of them.
RulesFor(s) ==
  [c \in {s[i].check : i \in DOMAIN s} |->
     s[CHOOSE i \in DOMAIN s : s[i].check = c /\ \A j \in 1..(i - 1) : s[j].check # c].rank]

Stage(d) == [kind |-> "stage", of |-> d]
Html(d)  == [kind |-> "html", of |-> Build(d)]
Json(d)  == [kind |-> "json", of |-> Build(d)]
Sarif(d) == [kind |-> "sarif", of |-> Build(d), rules |-> RulesFor(Build(d).findings)]

\* readFindings: report.json has a stage file's version, coverage and findings.
Readable(f) == f.kind \in {"stage", "json"}

\* Without --json the JSON report goes beside the HTML.
JsonPath(c) == IF c.json # NoPath THEN c.json ELSE [stem |-> c.out.stem, ext |-> "json"]

\* What a command writes, in its order.
Outputs(c, d) ==
  IF c.cmd # "report" THEN << [path |-> c.out, file |-> Stage(d)] >>
  ELSE << [path |-> c.out, file |-> Html(d)], [path |-> JsonPath(c), file |-> Json(d)] >>
       \o IF c.sarif = NoPath THEN << >> ELSE << [path |-> c.sarif, file |-> Sarif(d)] >>

Output(p) == Outputs(cmd[p], data[p])[k[p]]
Idle == CHOOSE c \in Commands : TRUE
-----------------------------------------------------------------------------
Init ==
  /\ disk = [p \in Paths |-> Absent]
  /\ temp = [p \in Procs |-> Absent]
  /\ pc = [p \in Procs |-> "unborn"] /\ cmd = [p \in Procs |-> Idle]
  /\ k = [p \in Procs |-> 1]
  /\ input = [p \in Procs |-> Absent] /\ data = [p \in Procs |-> NoData]
  /\ owner = [p \in Paths |-> Nobody]

Goto(p, where) == pc' = [pc EXCEPT ![p] = where]

Start(p) ==
  /\ pc[p] = "unborn"
  /\ \E c \in Commands :
       /\ cmd' = [cmd EXCEPT ![p] = c]
       /\ Goto(p, IF c.cmd = "scan" THEN "work" ELSE "read")
  /\ UNCHANGED <<disk, temp, k, input, data, owner>>

\* Faulty variant: the outputs of report are not compared.
ReadInputUnchecked(p) ==
  /\ pc[p] = "read"
  /\ LET c == cmd[p] f == disk[c.in] IN
     IF ~Readable(f) THEN Goto(p, "failed") /\ UNCHANGED <<input, data>>
     ELSE /\ input' = [input EXCEPT ![p] = f] /\ data' = [data EXCEPT ![p] = f.of]
          /\ Goto(p, IF c.cmd = "attack" THEN "work" ELSE "write")
  /\ UNCHANGED <<disk, temp, cmd, k, owner>>

\* os.ReadFile takes the file as it is at one moment: a later rename leaves the
\* opened file alone.  report also refuses two outputs of the same path.
ReadInput(p) ==
  /\ pc[p] = "read"
  /\ LET c == cmd[p] f == disk[c.in] IN
     IF ~Readable(f) \/ (c.cmd = "report" /\ c.out = JsonPath(c))
     THEN Goto(p, "failed") /\ UNCHANGED <<input, data>>
     ELSE /\ input' = [input EXCEPT ![p] = f] /\ data' = [data EXCEPT ![p] = f.of]
          /\ Goto(p, IF c.cmd = "attack" THEN "work" ELSE "write")
  /\ UNCHANGED <<disk, temp, cmd, k, owner>>

\* What attack makes of a file: some more of its findings confirmed; and no
\* coverage when there are none.
Attacked(d) ==
  IF d.findings = << >> THEN {NoData}
  ELSE {[d EXCEPT !.findings = [i \in DOMAIN d.findings |->
            [d.findings[i] EXCEPT !.confirmed = @ \/ i \in more]]] : more \in SUBSET DOMAIN d.findings}

\* The scan or the attack is done, or refuses.
Work(p) ==
  /\ pc[p] = "work"
  /\ \/ /\ \E d \in IF cmd[p].cmd = "scan" THEN Scanned ELSE Attacked(data[p]) :
             data' = [data EXCEPT ![p] = d]
        /\ Goto(p, "write")
     \/ Goto(p, "failed") /\ UNCHANGED data
  /\ UNCHANGED <<disk, temp, cmd, k, input, owner>>

\* The SARIF path is looked at when the other two files are written.
SarifCollides(p) == k[p] = 3 /\ cmd[p].sarif \in {cmd[p].out, JsonPath(cmd[p])}

RefuseSarif(p) ==
  /\ pc[p] = "write" /\ SarifCollides(p)
  /\ Goto(p, "failed")
  /\ UNCHANGED <<disk, temp, cmd, k, input, data, owner>>

\* Faulty variant: writing in place.
CreateTempInPlace(p) ==
  /\ pc[p] = "write" /\ ~SarifCollides(p)
  /\ disk' = [disk EXCEPT ![Output(p).path] = Torn] /\ Goto(p, "fill")
  /\ UNCHANGED <<temp, cmd, k, input, data, owner>>

\* os.CreateTemp, in the directory of the output and under a name of its own; no
\* file is read by such a name.
CreateTemp(p) ==
  /\ pc[p] = "write" /\ ~SarifCollides(p)
  /\ \/ temp' = [temp EXCEPT ![p] = Torn] /\ Goto(p, "fill")
     \/ Goto(p, "failed") /\ UNCHANGED temp
  /\ UNCHANGED <<disk, cmd, k, input, data, owner>>

\* tmp.Write and tmp.Close; the deferred os.Remove takes the file away if they fail.
Fill(p) ==
  /\ pc[p] = "fill"
  /\ \/ temp' = [temp EXCEPT ![p] = Output(p).file] /\ Goto(p, "rename")
     \/ temp' = [temp EXCEPT ![p] = Absent] /\ Goto(p, "failed")
  /\ UNCHANGED <<disk, cmd, k, input, data, owner>>

\* os.Rename, and on to the next output.
Rename(p) ==
  /\ pc[p] = "rename"
  /\ disk' = [disk EXCEPT ![Output(p).path] = temp[p]]
  /\ owner' = [owner EXCEPT ![Output(p).path] = p]
  /\ temp' = [temp EXCEPT ![p] = Absent]
  /\ IF k[p] < Len(Outputs(cmd[p], data[p]))
     THEN Goto(p, "write") /\ k' = [k EXCEPT ![p] = @ + 1]
     ELSE Goto(p, "ok") /\ UNCHANGED k
  /\ UNCHANGED <<cmd, input, data>>

RenameFails(p) ==
  /\ pc[p] = "rename"
  /\ temp' = [temp EXCEPT ![p] = Absent]
  /\ Goto(p, "failed")
  /\ UNCHANGED <<disk, cmd, k, input, data, owner>>

Over(p) == pc[p] \in {"ok", "failed", "killed"}

\* SIGKILL.  The kernel lives on and with it whatever was written; that nothing is
\* synced before the rename matters to a machine that stops, which is not modelled.
Kill(p) ==
  /\ pc[p] # "unborn" /\ ~Over(p)
  /\ Goto(p, "killed")
  /\ UNCHANGED <<disk, temp, cmd, k, input, data, owner>>
-----------------------------------------------------------------------------
Step(p) ==
  \/ Start(p) \/ ReadInput(p) \/ Work(p) \/ RefuseSarif(p)
  \/ CreateTemp(p) \/ Fill(p) \/ Rename(p) \/ RenameFails(p) \/ Kill(p)

AllOver == (\A p \in Procs : Over(p)) /\ UNCHANGED vars

Next == (\E p \in Procs : Step(p)) \/ AllOver

Spec == Init /\ [][Next]_vars
-----------------------------------------------------------------------------
Store == INSTANCE AtomicStore

\* "An interrupted run cannot leave a half-written pipeline-stage file behind"
\* (main.go:872-875), nor does a reader ever see one, whoever else is at work: for
\* processes that are killed, on a machine that is not.
StoresWhole == Store!Spec

\* report's outputs belong together: when it has ended well, each of its paths
\* holds the file asked for there, made from the input it read, unless another
\* process has put a file of its own there since.
OutputsAgree ==
  \A p \in Procs : pc[p] = "ok" =>
    \A i \in DOMAIN Outputs(cmd[p], data[p]) :
      LET o == Outputs(cmd[p], data[p])[i] IN owner[o.path] = p => disk[o.path] = o.file

Elements(s) == {s[i] : i \in DOMAIN s}

\* A report may put its JSON over its input, and does so unasked when they share a
\* stem (report --in confirmed.json --out confirmed.html): whoever reads that path
\* next still finds the same findings and gaps, as far as nobody else has replaced
\* the input meanwhile.
InputKept ==
  [][\A p \in Procs :
       LET c == cmd[p] IN
       /\ c.cmd = "report" /\ c.in \notin {c.out, c.sarif}
       /\ Rename(p) /\ disk[c.in] = input[p]
       => /\ Readable(disk'[c.in])
          /\ Elements(disk'[c.in].of.findings) = Elements(input[p].of.findings)
          /\ disk'[c.in].of.gaps = input[p].of.gaps]_vars

\* A SARIF rule is as severe as the worst finding of its check, which rulesFor
\* leaves to the order Build has put the findings in; and no check goes without.
RulesAreWorst ==
  \A q \in Paths : disk[q].kind = "sarif" =>
    LET s == disk[q].of.findings r == disk[q].rules IN
    /\ DOMAIN r = {f.check : f \in Elements(s)}
    /\ \A f \in Elements(s) : r[f.check] <= f.rank
=============================================================================
