--------------------------- MODULE StageFilesProofs ---------------------------
(***************************************************************************)
(* StageFiles keeps every path whole, a report's outputs together and its  *)
(* input's findings, for any processes, command lines and findings; and    *)
(* StageDiff, of two such files, tells what their scans did, for any set   *)
(* of checks and routes and any grading of what they find.                 *)
(***************************************************************************)
EXTENDS StageFiles, StageDiff, Functions, Integers, SequenceTheorems, FiniteSetTheorems,
        WellFoundedInduction, TLAPS

Where == {"unborn", "read", "work", "write", "fill", "rename", "ok", "failed", "killed"}
Writing == {"write", "fill", "rename", "ok"}

\* The processes' variables are functions, and a command line is one of Commands
\* once a process has it.
Shape ==
  /\ disk = [q \in Paths |-> disk[q]] /\ owner = [q \in Paths |-> owner[q]]
  /\ temp = [p \in Procs |-> temp[p]] /\ input = [p \in Procs |-> input[p]]
  /\ data = [p \in Procs |-> data[p]] /\ cmd = [p \in Procs |-> cmd[p]]
  /\ pc \in [Procs -> Where] /\ k \in [Procs -> Nat \ {0}]
  /\ \A p \in Procs : pc[p] # "unborn" => cmd[p] \in Commands

Whole == \A q \in Paths : disk[q] # Torn

\* What is about to be renamed is the output it stands for, and its path is none
\* of those already written.
AtWork ==
  \A p \in Procs :
    /\ pc[p] \in {"unborn", "read", "work"} => k[p] = 1
    /\ pc[p] = "work" => cmd[p].cmd # "report"
    /\ pc[p] \in Writing =>
         /\ k[p] \in DOMAIN Outputs(cmd[p], data[p])
         /\ cmd[p].cmd = "report" => cmd[p].out # JsonPath(cmd[p])
    /\ pc[p] \in {"fill", "rename", "ok"} => ~SarifCollides(p)
    /\ pc[p] = "ok" => k[p] = Len(Outputs(cmd[p], data[p]))
    /\ pc[p] = "rename" => temp[p] = Output(p).file

Holds(p, i) ==
  LET o == Outputs(cmd[p], data[p])[i] IN owner[o.path] = p => disk[o.path] = o.file

\* The outputs a process is done with are in place, unless they were replaced.
Written ==
  \A p \in Procs : pc[p] \in Writing =>
    \A i \in DOMAIN Outputs(cmd[p], data[p]) : (i < k[p] \/ pc[p] = "ok") => Holds(p, i)

IInv == Shape /\ Whole /\ AtWork /\ Written
-----------------------------------------------------------------------------
LEMMA AppendThird ==
  ASSUME NEW a, NEW b, NEW e
  PROVE  << a, b >> \o << e >> = << a, b, e >>
  <1> DEFINE S == {a, b, e}
  <1>1. << a, b >> \in Seq(S) /\ << e >> \in Seq(S) /\ << a, b, e >> \in Seq(S)
    OBVIOUS
  <1>2. << a, b >> \o << e >> \in Seq(S) /\ Len(<< a, b >> \o << e >>) = 3
    BY <1>1, ConcatProperties
  <1>3. \A i \in 1..3 : (<< a, b >> \o << e >>)[i] = << a, b, e >>[i]
    BY <1>1, ConcatProperties
  <1> QED BY <1>1, <1>2, <1>3, SeqEqual

\* The lists that runReport, and scan or attack, go through.
LEMMA OutputsForm ==
  ASSUME NEW c, NEW d
  PROVE  \/ /\ c.cmd # "report"
            /\ Outputs(c, d) = << [path |-> c.out, file |-> Stage(d)] >>
         \/ /\ c.cmd = "report" /\ c.sarif = NoPath
            /\ Outputs(c, d) = << [path |-> c.out, file |-> Html(d)],
                                  [path |-> JsonPath(c), file |-> Json(d)] >>
         \/ /\ c.cmd = "report" /\ c.sarif # NoPath
            /\ Outputs(c, d) = << [path |-> c.out, file |-> Html(d)],
                                  [path |-> JsonPath(c), file |-> Json(d)],
                                  [path |-> c.sarif, file |-> Sarif(d)] >>
  <1> DEFINE a == [path |-> c.out, file |-> Html(d)]
             b == [path |-> JsonPath(c), file |-> Json(d)]
             e == [path |-> c.sarif, file |-> Sarif(d)]
  <1>1. << a, b >> \o << >> = << a, b >>
    <2> HIDE DEF a, b
    <2> QED OBVIOUS
  <1>2. << a, b >> \o << e >> = << a, b, e >>
    BY AppendThird
  <1> QED BY <1>1, <1>2 DEF Outputs

\* There is at least one output, and each is a whole file.
LEMMA OutputsWhole ==
  ASSUME NEW c, NEW d
  PROVE  /\ Len(Outputs(c, d)) \in Nat \ {0} /\ DOMAIN Outputs(c, d) = 1..Len(Outputs(c, d))
         /\ \A i \in DOMAIN Outputs(c, d) : Outputs(c, d)[i].file # Torn
  <1>1. Stage(d) # Torn /\ Html(d) # Torn /\ Json(d) # Torn /\ Sarif(d) # Torn
    <2>1. /\ Stage(d).kind = "stage" /\ Html(d).kind = "html" /\ Json(d).kind = "json"
          /\ Sarif(d).kind = "sarif" /\ Torn.kind = "torn"
      BY DEF Stage, Html, Json, Sarif, Torn
    <2> QED BY <2>1
  <1> QED BY <1>1, OutputsForm

LEMMA OutputPaths ==
  ASSUME NEW c \in Commands, NEW d, NEW i \in DOMAIN Outputs(c, d)
  PROVE  Outputs(c, d)[i].path \in Paths
  <1>1. c.out \in Paths /\ JsonPath(c) \in Paths /\ (c.sarif # NoPath => c.sarif \in Paths)
    BY FilesAssumption DEF JsonPath
  <1> QED BY <1>1, OutputsForm

\* Two outputs have two paths, when the code's two comparisons say so.
LEMMA OutputsApart ==
  ASSUME NEW c, NEW d,
         c.cmd = "report" => c.out # JsonPath(c),
         NEW i \in DOMAIN Outputs(c, d), NEW j \in DOMAIN Outputs(c, d), i < j,
         j = 3 => c.sarif \notin {c.out, JsonPath(c)}
  PROVE  Outputs(c, d)[i].path # Outputs(c, d)[j].path
  BY OutputsForm
-----------------------------------------------------------------------------
\* A step that leaves the files, the command lines and the data alone, and brings
\* nobody further than he was, disturbs nothing.
LEMMA QuietStep ==
  ASSUME IInv, NEW p \in Procs, NEW where \in {"failed", "killed"},
         Goto(p, where), temp' = [q \in Procs |-> temp'[q]],
         \A q \in Procs : q # p => temp'[q] = temp[q],
         pc[p] # "unborn",
         UNCHANGED <<disk, cmd, k, input, data, owner>>
  PROVE  IInv'
  <1> USE DEF IInv, Goto, Where
  <1>1. pc' = [pc EXCEPT ![p] = where] /\ pc' \in [Procs -> Where] /\ pc'[p] = where
    BY DEF Shape
  <1>2. \A q \in Procs : q # p => pc'[q] = pc[q]
    BY <1>1 DEF Shape
  <1>3. Shape'
    BY <1>1, <1>2 DEF Shape
  <1>4. Whole'
    BY DEF Whole
  <1>5. AtWork'
    BY <1>1, <1>2 DEF AtWork, Writing, SarifCollides, Output
  <1>6. Written'
    BY <1>1, <1>2 DEF Written, Writing, Holds
  <1> QED BY <1>3, <1>4, <1>5, <1>6

LEMMA StartKeeps ==
  ASSUME IInv, NEW p \in Procs, Start(p)
  PROVE  IInv'
  <1> USE DEF IInv, Goto, Where
  <1>1. PICK c \in Commands :
          /\ cmd' = [cmd EXCEPT ![p] = c]
          /\ pc' = [pc EXCEPT ![p] = IF c.cmd = "scan" THEN "work" ELSE "read"]
    BY DEF Start
  <1>2. /\ pc[p] = "unborn" /\ pc' \in [Procs -> Where] /\ pc'[p] \in {"work", "read"}
        /\ cmd' = [q \in Procs |-> cmd'[q]] /\ cmd'[p] = c
        /\ pc'[p] = "work" => c.cmd # "report"
    BY <1>1 DEF Shape, Start
  <1>3. \A q \in Procs : q # p => pc'[q] = pc[q] /\ cmd'[q] = cmd[q]
    BY <1>1 DEF Shape
  <1>4. UNCHANGED <<disk, temp, k, input, data, owner>>
    BY DEF Start
  <1>5. Shape'
    BY <1>2, <1>3, <1>4 DEF Shape
  <1>6. Whole'
    BY <1>4 DEF Whole
  <1>7. AtWork'
    BY <1>2, <1>3, <1>4 DEF AtWork, Writing, SarifCollides, Output
  <1>8. Written'
    BY <1>2, <1>3, <1>4 DEF Written, Writing, Holds
  <1> QED BY <1>5, <1>6, <1>7, <1>8

\* To begin with, a process has written nothing, and its first output is there.
LEMMA Begins ==
  ASSUME IInv, NEW p \in Procs,
         pc[p] \in {"read", "work"},
         pc' = [pc EXCEPT ![p] = pc'[p]], pc'[p] \in {"work", "write", "failed"},
         pc'[p] = "work" => cmd[p].cmd # "report",
         pc'[p] = "write" /\ cmd[p].cmd = "report" => cmd[p].out # JsonPath(cmd[p]),
         input' = [q \in Procs |-> input'[q]],
         data' = [data EXCEPT ![p] = data'[p]],
         UNCHANGED <<disk, temp, cmd, k, owner>>
  PROVE  IInv'
  <1> USE DEF IInv, Where
  <1>1. /\ pc' \in [Procs -> Where] /\ data' = [q \in Procs |-> data'[q]]
        /\ \A q \in Procs : q # p => pc'[q] = pc[q] /\ data'[q] = data[q]
    BY DEF Shape
  <1>2. Shape'
    BY <1>1 DEF Shape
  <1>3. Whole'
    BY DEF Whole
  <1>4. 1 \in DOMAIN Outputs(cmd'[p], data'[p])
    BY OutputsWhole
  <1>5. AtWork'
    BY <1>1, <1>4 DEF AtWork, Writing, SarifCollides, Output
  <1>6. Written'
    <2>1. \A q \in Procs : q # p /\ pc'[q] \in Writing =>
            \A i \in DOMAIN Outputs(cmd'[q], data'[q]) : (i < k'[q] \/ pc'[q] = "ok") => Holds(q, i)'
      BY <1>1 DEF Written, Holds
    <2>2. k'[p] = 1 /\ pc'[p] # "ok"
      BY DEF AtWork
    <2>3. \A i \in DOMAIN Outputs(cmd'[p], data'[p]) : ~(i < k'[p])
      BY <2>2, OutputsWhole
    <2> QED BY <2>1, <2>2, <2>3 DEF Written
  <1> QED BY <1>2, <1>3, <1>5, <1>6

LEMMA ReadInputKeeps ==
  ASSUME IInv, NEW p \in Procs, ReadInput(p)
  PROVE  IInv'
  <1>1. /\ pc[p] = "read" /\ UNCHANGED <<disk, temp, cmd, k, owner>>
        /\ pc' = [pc EXCEPT ![p] = pc'[p]] /\ pc'[p] \in {"work", "write", "failed"}
    BY DEF ReadInput, Goto, IInv, Shape
  <1>2. input' = [q \in Procs |-> input'[q]] /\ data' = [data EXCEPT ![p] = data'[p]]
    BY DEF ReadInput, Goto, IInv, Shape
  <1>3. /\ pc'[p] = "work" => cmd[p].cmd # "report"
        /\ pc'[p] = "write" /\ cmd[p].cmd = "report" => cmd[p].out # JsonPath(cmd[p])
    BY DEF ReadInput, Goto, IInv, Shape
  <1> QED BY <1>1, <1>2, <1>3, Begins

LEMMA WorkKeeps ==
  ASSUME IInv, NEW p \in Procs, Work(p)
  PROVE  IInv'
  <1>1. /\ pc[p] = "work" /\ UNCHANGED <<disk, temp, cmd, k, owner, input>>
        /\ pc' = [pc EXCEPT ![p] = pc'[p]] /\ pc'[p] \in {"work", "write", "failed"}
        /\ data' = [data EXCEPT ![p] = data'[p]]
    BY DEF Work, Goto, IInv, Shape
  <1>2. cmd[p].cmd # "report"
    BY <1>1 DEF IInv, AtWork
  <1>3. input' = [q \in Procs |-> input'[q]]
    BY <1>1 DEF IInv, Shape
  <1> QED BY <1>1, <1>2, <1>3, Begins

LEMMA StopKeeps ==
  ASSUME IInv, NEW p \in Procs, RefuseSarif(p) \/ RenameFails(p) \/ Kill(p)
  PROVE  IInv'
  <1>1. PICK where \in {"failed", "killed"} : Goto(p, where)
    BY DEF RefuseSarif, RenameFails, Kill
  <1>2. /\ temp' = [q \in Procs |-> temp'[q]] /\ pc[p] # "unborn"
        /\ \A q \in Procs : q # p => temp'[q] = temp[q]
    BY DEF RefuseSarif, RenameFails, Kill, IInv, Shape
  <1>3. UNCHANGED <<disk, cmd, k, input, data, owner>>
    BY DEF RefuseSarif, RenameFails, Kill
  <1> QED BY <1>1, <1>2, <1>3, QuietStep

\* Getting the temporary file ready, or failing to.
LEMMA FileKeeps ==
  ASSUME IInv, NEW p \in Procs, CreateTemp(p) \/ Fill(p)
  PROVE  IInv'
  <1> USE DEF IInv
  <1>1. /\ pc[p] \in {"write", "fill"} /\ ~SarifCollides(p)
        /\ UNCHANGED <<disk, cmd, k, input, data, owner>>
    BY DEF CreateTemp, Fill, AtWork
  <1>2. /\ temp' = [q \in Procs |-> temp'[q]]
        /\ \A q \in Procs : q # p => temp'[q] = temp[q]
    BY DEF CreateTemp, Fill, Shape
  <1>3. CASE Goto(p, "failed")
    BY <1>1, <1>2, <1>3, QuietStep
  <1>4. CASE Goto(p, "fill") \/ (Goto(p, "rename") /\ temp' = [temp EXCEPT ![p] = Output(p).file])
    <2>1. /\ pc' \in [Procs -> Where] /\ pc'[p] \in {"fill", "rename"}
          /\ pc'[p] = "rename" => temp'[p] = Output(p).file
          /\ \A q \in Procs : q # p => pc'[q] = pc[q]
      BY <1>4 DEF Goto, Shape, Where
    <2>2. Shape'
      BY <1>1, <1>2, <2>1 DEF Shape
    <2>3. Whole'
      BY <1>1 DEF Whole
    <2>4. AtWork'
      BY <1>1, <1>2, <2>1 DEF AtWork, Writing, SarifCollides, Output
    <2>5. Written'
      BY <1>1, <2>1 DEF Written, Writing, Holds
    <2> QED BY <2>2, <2>3, <2>4, <2>5
  <1> QED BY <1>3, <1>4 DEF CreateTemp, Fill

\* The one step that changes a path: its outputs before this one have other paths,
\* and another process's claim to the path is over.
LEMMA RenameKeeps ==
  ASSUME IInv, NEW p \in Procs, Rename(p)
  PROVE  IInv'
  <1> USE DEF IInv
  <1> DEFINE all == Outputs(cmd[p], data[p])
  <1>1. /\ pc[p] = "rename" /\ UNCHANGED <<cmd, input, data>>
        /\ disk' = [disk EXCEPT ![all[k[p]].path] = all[k[p]].file]
        /\ owner' = [owner EXCEPT ![all[k[p]].path] = p]
        /\ temp' = [temp EXCEPT ![p] = Absent]
    BY DEF Rename, AtWork, Output
  <1>2. k[p] \in DOMAIN all /\ k[p] \in Nat \ {0} /\ all[k[p]].file # Torn /\ ~SarifCollides(p)
    BY <1>1, OutputsWhole DEF AtWork, Writing, Shape
  <1>3. \/ /\ k[p] < Len(all) /\ k' = [k EXCEPT ![p] = @ + 1] /\ pc' = [pc EXCEPT ![p] = "write"]
        \/ /\ k[p] = Len(all) /\ k' = k /\ pc' = [pc EXCEPT ![p] = "ok"]
    BY <1>2, OutputsWhole DEF Rename, Goto
  <1>4. /\ pc' \in [Procs -> Where] /\ k' \in [Procs -> Nat \ {0}]
        /\ \A q \in Procs : q # p => pc'[q] = pc[q] /\ k'[q] = k[q] /\ temp'[q] = temp[q]
    <2>1. pc' \in [Procs -> Where] /\ \A q \in Procs : q # p => pc'[q] = pc[q]
      BY <1>3 DEF Shape, Where
    <2>2. k' \in [Procs -> Nat \ {0}] /\ \A q \in Procs : q # p => k'[q] = k[q]
      BY <1>3 DEF Shape
    <2>3. \A q \in Procs : q # p => temp'[q] = temp[q]
      BY <1>1 DEF Shape
    <2> QED BY <2>1, <2>2, <2>3
  <1>5. Shape'
    <2>1. disk' = [q \in Paths |-> disk'[q]] /\ owner' = [q \in Paths |-> owner'[q]]
      BY <1>1 DEF Shape
    <2>2. temp' = [q \in Procs |-> temp'[q]]
      BY <1>1 DEF Shape
    <2>3. \A q \in Procs : pc'[q] # "unborn" => cmd'[q] \in Commands
      BY <1>1, <1>4 DEF Shape
    <2> QED BY <1>1, <1>4, <2>1, <2>2, <2>3 DEF Shape
  <1>6. Whole'
    BY <1>1, <1>2 DEF Whole, Shape
  <1>7. AtWork'
    <2>1. /\ k'[p] \in DOMAIN all /\ pc'[p] \in {"write", "ok"}
          /\ pc'[p] = "ok" => k'[p] = Len(all) /\ k'[p] = k[p]
      BY <1>2, <1>3, OutputsWhole DEF Shape
    <2>2. cmd[p].cmd = "report" => cmd[p].out # JsonPath(cmd[p])
      BY <1>1 DEF AtWork, Writing
    <2>3. pc'[p] = "ok" => ~SarifCollides(p)'
      BY <1>1, <1>2, <2>1 DEF SarifCollides
    <2> QED BY <1>1, <1>4, <2>1, <2>2, <2>3 DEF AtWork, Writing, SarifCollides, Output
  <1>8. Written'
    <2> SUFFICES ASSUME NEW q \in Procs, pc'[q] \in Writing,
                        NEW i \in DOMAIN Outputs(cmd[q], data[q]), i < k'[q] \/ pc'[q] = "ok"
                 PROVE  Holds(q, i)'
      BY <1>1 DEF Written
    <2> DEFINE o == Outputs(cmd[q], data[q])[i]
    <2>1. CASE q # p
      <3>1. Holds(q, i)
        BY <1>4, <2>1 DEF Written
      <3>2. CASE o.path = all[k[p]].path
        <4>1. owner'[o.path] = p \/ (owner'[o.path] = owner[o.path] /\ disk'[o.path] = disk[o.path])
          BY <1>1 DEF Shape
        <4> QED BY <1>1, <2>1, <3>1, <4>1 DEF Holds
      <3>3. CASE o.path # all[k[p]].path
        <4>1. owner'[o.path] = owner[o.path] /\ disk'[o.path] = disk[o.path]
          BY <1>1, <3>3 DEF Shape
        <4> QED BY <1>1, <3>1, <4>1 DEF Holds
      <3> QED BY <3>2, <3>3
    <2>2. CASE q = p /\ i = k[p]
      <3>1. o.path \in Paths => disk'[o.path] = o.file
        BY <1>1, <2>2 DEF Shape
      <3>2. o.path \in Paths
        BY <1>1, <2>2, OutputPaths DEF Shape
      <3> QED BY <1>1, <3>1, <3>2 DEF Holds
    <2>3. CASE q = p /\ i # k[p]
      <3>1. i < k[p] /\ i \in Nat
        BY <1>2, <1>3, <2>3, OutputsWhole DEF Shape
      <3>2. o.path # all[k[p]].path
        BY <1>1, <1>2, <2>3, <3>1, OutputsApart DEF AtWork, Writing, SarifCollides
      <3>3. owner'[o.path] = owner[o.path] /\ disk'[o.path] = disk[o.path]
        BY <1>1, <3>2 DEF Shape
      <3>4. Holds(p, i)
        BY <1>1, <2>3, <3>1 DEF Written, Writing
      <3> QED BY <1>1, <2>3, <3>3, <3>4 DEF Holds
    <2> QED BY <2>1, <2>2, <2>3
  <1> QED BY <1>5, <1>6, <1>7, <1>8
-----------------------------------------------------------------------------
LEMMA InitHolds == Init => IInv
  <1> SUFFICES ASSUME Init PROVE IInv
    OBVIOUS
  <1>1. Shape
    BY DEF Init, Shape, Where
  <1>2. Whole
    <2>1. Absent.kind = "absent" /\ Torn.kind = "torn"
      BY DEF Absent, Torn
    <2> QED BY <2>1 DEF Init, Whole
  <1>3. AtWork /\ Written
    BY DEF Init, AtWork, Written, Writing
  <1> QED BY <1>1, <1>2, <1>3 DEF IInv

LEMMA StepKeeps == IInv /\ [Next]_vars => IInv'
  <1> SUFFICES ASSUME IInv, [Next]_vars PROVE IInv'
    OBVIOUS
  <1>1. CASE UNCHANGED vars
    BY <1>1 DEF vars, IInv, Shape, Whole, AtWork, Written, Holds, Output, SarifCollides
  <1>2. ASSUME NEW p \in Procs, Step(p) PROVE IInv'
    BY <1>2, StartKeeps, ReadInputKeeps, WorkKeeps, StopKeeps, FileKeeps, RenameKeeps DEF Step
  <1> QED BY <1>1, <1>2 DEF Next, AllOver

\* The strengthening: what is about to be renamed is a whole file and the output it
\* stands for, and the outputs a report has written are in place.
THEOREM InductiveInvariant == Spec => []IInv
  <1> QED BY InitHolds, StepKeeps, PTL DEF Spec

\* writeFile: every path holds nothing or a whole file and goes from one to another
\* in one step, however many processes write there and whenever they are killed.
THEOREM FilesAreWhole == Spec => StoresWhole
  <1>1. Init => Store!Init
    BY DEF Init, Store!Init, Absent, Torn
  <1>2. IInv /\ IInv' /\ [Next]_vars => [Store!Next]_disk
    <2> SUFFICES ASSUME IInv, IInv', Next PROVE Store!Next \/ disk' = disk
      BY DEF vars
    <2>1. CASE UNCHANGED disk
      BY <2>1
    <2>2. ASSUME NEW p \in Procs, Rename(p) PROVE Store!Next \/ disk' = disk
      <3>1. PICK f : disk' = [disk EXCEPT ![Output(p).path] = f]
        BY <2>2 DEF Rename
      <3>2. CASE Output(p).path \in Paths
        <4>1. Store!Put(Output(p).path)
          BY <3>1, <3>2 DEF Store!Put, IInv, Whole, Shape
        <4> QED BY <3>2, <4>1 DEF Store!Next
      <3>3. CASE Output(p).path \notin Paths
        BY <3>1, <3>3 DEF IInv, Shape
      <3> QED BY <3>2, <3>3
    <2> QED BY <2>1, <2>2 DEF Next, AllOver, vars, Step, Start, ReadInput, Work, RefuseSarif,
                              CreateTemp, Fill, RenameFails, Kill
  <1> QED BY <1>1, <1>2, InductiveInvariant, PTL DEF Spec, StoresWhole, Store!Spec

\* runReport: a report that has ended well has its files in place, but for those
\* another process has replaced, for any command lines whose paths meet.
THEOREM ReportsAgree == Spec => []OutputsAgree
  <1>1. IInv => OutputsAgree
    BY DEF IInv, Written, OutputsAgree, Holds, Writing
  <1> QED BY <1>1, InductiveInvariant, PTL
-----------------------------------------------------------------------------
\* The comparison is the lexical one of three numbers.
Doubt(a) == IF a.confirmed THEN 0 ELSE 1

LEMMA BeforeIsLexical ==
  ASSUME NEW a \in FindingRecords, NEW b \in FindingRecords
  PROVE  /\ a.rank \in Nat /\ a.number \in Nat /\ Doubt(a) \in 0..1
         /\ Before(a, b) <=> \/ a.rank < b.rank
                             \/ a.rank = b.rank /\ Doubt(a) < Doubt(b)
                             \/ a.rank = b.rank /\ Doubt(a) = Doubt(b) /\ a.number < b.number
  <1>1. /\ a.rank \in Nat /\ a.number \in Nat /\ a.confirmed \in BOOLEAN /\ b.confirmed \in BOOLEAN
    BY DEF FindingRecords
  <1>2. /\ (a.confirmed /\ ~b.confirmed) <=> Doubt(a) < Doubt(b)
        /\ (a.confirmed = b.confirmed) <=> Doubt(a) = Doubt(b)
    <2>1. CASE a.confirmed = TRUE /\ b.confirmed = TRUE
      <3>1. Doubt(a) = 0 /\ Doubt(b) = 0
        BY <2>1 DEF Doubt
      <3>2. Doubt(a) = Doubt(b) /\ ~(Doubt(a) < Doubt(b))
        BY <3>1
      <3> QED BY <2>1, <3>2, Zenon
    <2>2. CASE a.confirmed = TRUE /\ b.confirmed = FALSE
      <3>1. Doubt(a) = 0 /\ Doubt(b) = 1
        BY <2>2 DEF Doubt
      <3> QED BY <2>2, <3>1
    <2>3. CASE a.confirmed = FALSE /\ b.confirmed = TRUE
      <3>1. Doubt(a) = 1 /\ Doubt(b) = 0
        BY <2>3 DEF Doubt
      <3> QED BY <2>3, <3>1
    <2>4. CASE a.confirmed = FALSE /\ b.confirmed = FALSE
      <3>1. Doubt(a) = 1 /\ Doubt(b) = 1
        BY <2>4 DEF Doubt
      <3>2. Doubt(a) = Doubt(b) /\ ~(Doubt(a) < Doubt(b))
        BY <3>1
      <3> QED BY <2>4, <3>2, Zenon
    <2> QED BY <1>1, <2>1, <2>2, <2>3, <2>4
  <1>3. Before(a, b) <=> \/ a.rank < b.rank
                         \/ a.rank = b.rank /\ Doubt(a) < Doubt(b)
                         \/ a.rank = b.rank /\ Doubt(a) = Doubt(b) /\ a.number < b.number
    BY <1>2, Zenon DEF Before
  <1> QED BY <1>1, <1>3 DEF Doubt

LEMMA BeforeOrders ==
  ASSUME NEW a \in FindingRecords, NEW b \in FindingRecords, NEW c \in FindingRecords
  PROVE  /\ ~Before(a, a)
         /\ Before(a, b) => ~Before(b, a) /\ a.rank <= b.rank
         /\ ~Before(a, b) => b.rank <= a.rank
         /\ Before(a, b) /\ Before(b, c) => Before(a, c)
         /\ ~Before(a, b) /\ ~Before(b, c) => ~Before(a, c)
  BY BeforeIsLexical

\* The order that a stable sort makes of the places of s.
Goes(s, i, j) == Before(s[i], s[j]) \/ (i < j /\ ~Before(s[j], s[i]))

LEMMA GoesOrders ==
  ASSUME NEW s \in Seq(FindingRecords), NEW h \in DOMAIN s, NEW i \in DOMAIN s, NEW j \in DOMAIN s
  PROVE  /\ ~Goes(s, i, i)
         /\ i # j => Goes(s, i, j) \/ Goes(s, j, i)
         /\ Goes(s, h, i) /\ Goes(s, i, j) => Goes(s, h, j)
         /\ Goes(s, i, j) => s[i].rank <= s[j].rank
  <1>1. h \in Int /\ i \in Int /\ j \in Int
    OBVIOUS
  <1> DEFINE a == s[h]  b == s[i]  c == s[j]
  <1>2. a \in FindingRecords /\ b \in FindingRecords /\ c \in FindingRecords
    OBVIOUS
  <1> HIDE DEF a, b, c
  <1>3. ~Goes(s, i, i)
    BY <1>1, <1>2, BeforeOrders DEF Goes, b
  <1>4. i # j => Goes(s, i, j) \/ Goes(s, j, i)
    BY <1>1, <1>2 DEF Goes
  <1>5. Goes(s, h, i) /\ Goes(s, i, j) => Goes(s, h, j)
    <2>1. /\ Goes(s, h, i) <=> Before(a, b) \/ (h < i /\ ~Before(b, a))
          /\ Goes(s, i, j) <=> Before(b, c) \/ (i < j /\ ~Before(c, b))
          /\ Goes(s, h, j) <=> Before(a, c) \/ (h < j /\ ~Before(c, a))
      BY DEF Goes, a, b, c
    <2>2. /\ Before(a, b) /\ Before(b, c) => Before(a, c)
          /\ ~Before(c, b) /\ ~Before(b, a) => ~Before(c, a)
      BY <1>2, BeforeOrders
    <2>3. /\ Before(a, b) /\ ~Before(c, b) => Before(a, c)
          /\ ~Before(b, a) /\ Before(b, c) => Before(a, c)
      BY <1>2, BeforeOrders
    <2> QED BY <1>1, <2>1, <2>2, <2>3
  <1>6. Goes(s, i, j) => s[i].rank <= s[j].rank
    BY <1>2, BeforeOrders DEF Goes, b, c
  <1> QED BY <1>3, <1>4, <1>5, <1>6

LEMMA LeastElement ==
  ASSUME NEW T, T \subseteq Nat, T # {}
  PROVE  \E x \in T : \A y \in T : x <= y
  <1> DEFINE R == OpToRel(<, Nat)
  <1>1. PICK x \in T : \A y \in T : ~(<<y, x>> \in R)
    <2>1. IsWellFoundedOn(R, Nat)
      BY NatLessThanWellFounded
    <2> HIDE DEF R
    <2> QED BY <2>1, WFMin
  <1>2. \A y \in T : <<y, x>> \in R <=> y < x
    BY DEF OpToRel
  <1> HIDE DEF R
  <1>3. \A y \in T : ~(y < x) /\ x \in Nat /\ y \in Nat
    BY <1>1, <1>2
  <1> QED BY <1>3

\* The elements of s up to place i, in that order; every place is taken once.
LEMMA PlacesTaken ==
  ASSUME NEW s \in Seq(FindingRecords)
  PROVE  /\ \A i \in DOMAIN s : Place(s, i) \in DOMAIN s
         /\ \A i, j \in DOMAIN s : Place(s, i) < Place(s, j) <=> Goes(s, i, j)
         /\ \A i, j \in DOMAIN s : Place(s, i) = Place(s, j) => i = j
         /\ \A m \in DOMAIN s : \E i \in DOMAIN s : Place(s, i) = m
  <1> DEFINE n == Len(s)
             D == 1..n
             UpTo(i) == {j \in D : Goes(s, j, i) \/ j = i}
             place == [i \in D |-> Place(s, i)]
  <1>1. n \in Nat /\ DOMAIN s = D /\ D \subseteq Int
    OBVIOUS
  <1>2. IsFiniteSet(D) /\ Cardinality(D) = n
    BY <1>1, FS_Interval
  <1>3. ASSUME NEW i \in D
        PROVE  /\ Place(s, i) = Cardinality(UpTo(i)) /\ IsFiniteSet(UpTo(i))
               /\ Place(s, i) \in D
    <2>1. ASSUME NEW j \in D
          PROVE  (Before(s[j], s[i]) \/ (j <= i /\ ~Before(s[i], s[j]))) <=> (Goes(s, j, i) \/ j = i)
      <3>1. ~Before(s[i], s[i])
        BY <1>1, BeforeOrders
      <3>2. j <= i <=> j < i \/ j = i
        BY <1>1
      <3> QED BY <3>1, <3>2, Zenon DEF Goes
    <2>2. UpTo(i) = {j \in D : Before(s[j], s[i]) \/ (j <= i /\ ~Before(s[i], s[j]))}
      BY <2>1, Zenon
    <2>3. Place(s, i) = Cardinality(UpTo(i))
      BY <1>1, <2>2, Zenon DEF Place
    <2>4. UpTo(i) \subseteq D /\ i \in UpTo(i)
      OBVIOUS
    <2> HIDE DEF UpTo
    <2>5. IsFiniteSet(UpTo(i)) /\ Cardinality(UpTo(i)) <= n /\ Cardinality(UpTo(i)) \in Nat
      BY <1>2, <2>4, FS_Subset, FS_CardinalityType
    <2>6. Cardinality(UpTo(i)) # 0
      BY <2>4, <2>5, FS_EmptySet
    <2> QED BY <1>1, <2>3, <2>5, <2>6
  <1>4. ASSUME NEW i \in D, NEW j \in D, Goes(s, i, j) PROVE Place(s, i) < Place(s, j)
    <2>1. UpTo(i) \subseteq UpTo(j)
      BY <1>1, <1>4, GoesOrders
    <2>2. j \in UpTo(j) /\ j \notin UpTo(i)
      <3>1. ~Goes(s, j, i) /\ i # j
        <4>1. ~Goes(s, i, i)
          BY <1>1, GoesOrders
        <4>2. Goes(s, i, j) /\ Goes(s, j, i) => Goes(s, i, i)
          BY <1>1, GoesOrders
        <4> QED BY <1>4, <4>1, <4>2
      <3> QED BY <3>1
    <2> HIDE DEF UpTo
    <2>3. Cardinality(UpTo(i)) <= Cardinality(UpTo(j)) /\ Cardinality(UpTo(i)) # Cardinality(UpTo(j))
      BY <1>3, <2>1, <2>2, FS_Subset
    <2> QED BY <1>1, <1>3, <2>3
  <1> HIDE DEF UpTo, D
  <1>5. ASSUME NEW i \in D, NEW j \in D
        PROVE  /\ Place(s, i) < Place(s, j) <=> Goes(s, i, j)
               /\ Place(s, i) = Place(s, j) => i = j
    <2>1. Place(s, i) \in Int /\ Place(s, j) \in Int
      BY <1>1, <1>3
    <2>2. ~Goes(s, i, i)
      BY <1>1, GoesOrders
    <2>3. i # j => Goes(s, i, j) \/ Goes(s, j, i)
      BY <1>1, GoesOrders
    <2>4. /\ Goes(s, i, j) => Place(s, i) < Place(s, j)
          /\ Goes(s, j, i) => Place(s, j) < Place(s, i)
      BY <1>4
    <2>5. CASE i = j
      BY <2>1, <2>2, <2>5
    <2>6. CASE i # j
      BY <2>1, <2>3, <2>4, <2>6
    <2> QED BY <2>5, <2>6
  <1>6. place \in Injection(D, D)
    BY <1>3, <1>5 DEF Injection, IsInjective
  <1>7. place \in Surjection(D, D)
    BY <1>2, <1>6, FS_Injection
  <1>8. \A m \in D : \E i \in D : Place(s, i) = m
    BY <1>7 DEF Surjection
  <1> QED BY <1>1, <1>3, <1>5, <1>8

\* Build: the same findings, the worst first.
LEMMA OrderedSorts ==
  ASSUME NEW s \in Seq(FindingRecords)
  PROVE  /\ Ordered(s) \in Seq(FindingRecords) /\ DOMAIN Ordered(s) = DOMAIN s
         /\ Elements(Ordered(s)) = Elements(s)
         /\ \A a, b \in DOMAIN s : a < b => Ordered(s)[a].rank <= Ordered(s)[b].rank
  <1> DEFINE at(m) == CHOOSE i \in DOMAIN s : Place(s, i) = m
  <1>1. \A m \in DOMAIN s : at(m) \in DOMAIN s /\ Place(s, at(m)) = m
    BY PlacesTaken
  <1>2. \A m \in DOMAIN s : Ordered(s)[m] = s[at(m)]
    BY DEF Ordered
  <1>3. DOMAIN Ordered(s) = DOMAIN s
    BY DEF Ordered
  <1>4. \A i \in DOMAIN s : at(Place(s, i)) = i /\ Place(s, i) \in DOMAIN s
    <2> TAKE i \in DOMAIN s
    <2>1. Place(s, i) \in DOMAIN s
      BY PlacesTaken
    <2>2. Place(s, at(Place(s, i))) = Place(s, i) /\ at(Place(s, i)) \in DOMAIN s
      BY <1>1, <2>1
    <2> HIDE DEF at
    <2> QED BY <2>1, <2>2, PlacesTaken
  <1> HIDE DEF at
  <1>5. Elements(Ordered(s)) = Elements(s)
    <2>1. \A m \in DOMAIN s : \E i \in DOMAIN s : Ordered(s)[m] = s[i]
      BY <1>1, <1>2
    <2>2. \A i \in DOMAIN s : \E m \in DOMAIN s : s[i] = Ordered(s)[m]
      BY <1>2, <1>4
    <2> QED BY <1>3, <2>1, <2>2 DEF Elements
  <1>6. Ordered(s) \in Seq(FindingRecords)
    <2>1. DOMAIN s = 1..Len(s) /\ Len(s) \in Nat
      OBVIOUS
    <2>2. \A m \in 1..Len(s) : Ordered(s)[m] \in FindingRecords
      BY <1>1, <1>2, <2>1
    <2>3. Ordered(s) = [m \in 1..Len(s) |-> Ordered(s)[m]]
      BY <2>1 DEF Ordered
    <2> QED BY <2>1, <2>2, <2>3
  <1>7. ASSUME NEW a \in DOMAIN s, NEW b \in DOMAIN s, a < b
        PROVE  Ordered(s)[a].rank <= Ordered(s)[b].rank
    <2>1. Goes(s, at(a), at(b))
      BY <1>1, <1>7, PlacesTaken
    <2>2. s[at(a)].rank <= s[at(b)].rank
      BY <1>1, <2>1, GoesOrders
    <2> QED BY <1>2, <2>2
  <1> QED BY <1>3, <1>5, <1>6, <1>7

\* rulesFor: of each check the first finding, which is the worst when the worst
\* comes first.
LEMMA FirstIsWorst ==
  ASSUME NEW s \in Seq(FindingRecords),
         \A a, b \in DOMAIN s : a < b => s[a].rank <= s[b].rank
  PROVE  /\ DOMAIN RulesFor(s) = {f.check : f \in Elements(s)}
         /\ \A f \in Elements(s) : RulesFor(s)[f.check] <= f.rank
  <1>1. DOMAIN RulesFor(s) = {f.check : f \in Elements(s)}
    BY DEF RulesFor, Elements
  <1>2. ASSUME NEW i \in DOMAIN s PROVE RulesFor(s)[s[i].check] <= s[i].rank
    <2> DEFINE c == s[i].check
               First(h) == s[h].check = c /\ \A j \in 1..(h - 1) : s[j].check # c
               T == {h \in DOMAIN s : s[h].check = c}
    <2>1. T \subseteq Nat /\ T # {} /\ DOMAIN s = 1..Len(s) /\ Len(s) \in Nat
      OBVIOUS
    <2>2. PICK least \in T : \A h \in T : least <= h
      <3> HIDE DEF T
      <3> QED BY <2>1, LeastElement
    <2>3. \A h \in DOMAIN s : First(h) <=> h = least
      <3> TAKE h \in DOMAIN s
      <3>1. First(least)
        <4> SUFFICES ASSUME NEW j \in 1..(least - 1) PROVE s[j].check # c
          BY <2>2
        <4>1. j \in DOMAIN s /\ ~(least <= j)
          BY <2>1, <2>2
        <4> QED BY <2>2, <4>1
      <3>2. ASSUME First(h) PROVE h = least
        <4>1. h \in T /\ least <= h
          BY <2>2, <3>2
        <4>2. least \notin 1..(h - 1)
          BY <2>2, <3>2
        <4> QED BY <2>1, <2>2, <4>1, <4>2
      <3> QED BY <3>1, <3>2
    <2>4. (CHOOSE h \in DOMAIN s : First(h)) = least
      BY <2>2, <2>3
    <2>5. RulesFor(s)[c] = s[CHOOSE h \in DOMAIN s : First(h)].rank
      BY DEF RulesFor
    <2>6. RulesFor(s)[c] = s[least].rank
      BY <2>4, <2>5
    <2>7. least = i \/ least < i
      BY <2>1, <2>2
    <2>8. s[least].rank <= s[i].rank
      <3>1. least \in DOMAIN s
        BY <2>2
      <3>2. s[i] \in FindingRecords
        OBVIOUS
      <3>3. s[i].rank \in Nat
        BY <3>2 DEF FindingRecords
      <3> QED BY <2>7, <3>1, <3>3
    <2> QED BY <2>6, <2>8
  <1>3. \A f \in Elements(s) : RulesFor(s)[f.check] <= f.rank
    BY <1>2 DEF Elements
  <1> QED BY <1>1, <1>3
-----------------------------------------------------------------------------
\* What a run works on, and what may be at a path.
Data == [findings : Seq(FindingRecords), gaps : {d.gaps : d \in Scanned} \cup {{}}]
Kept == {Absent} \cup {Stage(d) : d \in Data} \cup {Html(d) : d \in Data}
          \cup {Json(d) : d \in Data} \cup {Sarif(d) : d \in Data}

\* A report works on what is in the file it has read.
Contents ==
  /\ data \in [Procs -> Data]
  /\ \A q \in Paths : disk[q] \in Kept
  /\ \A p \in Procs :
       pc[p] \in {"write", "fill", "rename"} /\ cmd[p].cmd = "report" =>
         Readable(input[p]) /\ data[p] = input[p].of

LEMMA BuildKeeps ==
  ASSUME NEW d \in Data
  PROVE  /\ Build(d) \in Data /\ Build(d).gaps = d.gaps
         /\ Build(d).findings = Ordered(d.findings)
         /\ Elements(Build(d).findings) = Elements(d.findings)
  <1>1. d.findings \in Seq(FindingRecords)
    BY DEF Data
  <1>2. Ordered(d.findings) \in Seq(FindingRecords) /\ Elements(Ordered(d.findings)) = Elements(d.findings)
    BY <1>1, OrderedSorts
  <1>3. Build(d) \in Data /\ Build(d).gaps = d.gaps /\ Build(d).findings = Ordered(d.findings)
    BY <1>2 DEF Build, Data
  <1> QED BY <1>2, <1>3

LEMMA ReadableIsData ==
  ASSUME NEW f \in Kept, Readable(f)
  PROVE  f.of \in Data
  <1>1. /\ \A d : Html(d).kind = "html" /\ Sarif(d).kind = "sarif" /\ Stage(d).of = d /\ Json(d).of = Build(d)
        /\ Absent.kind = "absent"
    BY DEF Html, Sarif, Stage, Json, Absent
  <1>2. PICK d \in Data : f = Stage(d) \/ f = Json(d)
    BY <1>1 DEF Kept, Readable
  <1> QED BY <1>1, <1>2, BuildKeeps

LEMMA OutputsKept ==
  ASSUME NEW c, NEW d \in Data, NEW i \in DOMAIN Outputs(c, d)
  PROVE  Outputs(c, d)[i].file \in Kept
  BY OutputsForm DEF Kept

LEMMA AttackedIsData ==
  ASSUME NEW d \in Data, NEW e \in Attacked(d)
  PROVE  e \in Data
  <1>1. CASE e = NoData
    BY <1>1 DEF NoData, Data
  <1>2. CASE e # NoData
    <2>1. PICK more \in SUBSET DOMAIN d.findings :
            e = [d EXCEPT !.findings = [i \in DOMAIN d.findings |->
                   [d.findings[i] EXCEPT !.confirmed = @ \/ i \in more]]]
      BY <1>2 DEF Attacked
    <2> DEFINE s == [i \in DOMAIN d.findings |-> [d.findings[i] EXCEPT !.confirmed = @ \/ i \in more]]
    <2>2. d.findings \in Seq(FindingRecords)
      BY DEF Data
    <2>3. ASSUME NEW i \in DOMAIN d.findings PROVE s[i] \in FindingRecords
      <3> DEFINE a == d.findings[i]
                 flag == a.confirmed \/ i \in more
      <3>1. a \in FindingRecords /\ flag \in BOOLEAN
        BY <2>2
      <3>2. s[i] = [a EXCEPT !.confirmed = flag]
        BY Zenon
      <3> HIDE DEF a, flag, s
      <3> QED BY <3>1, <3>2 DEF FindingRecords
    <2>4. s \in Seq(FindingRecords)
      <3> DEFINE n == Len(d.findings)
      <3>1. n \in Nat /\ DOMAIN d.findings = 1..n /\ s = [i \in 1..n |-> s[i]]
        BY <2>2
      <3> HIDE DEF s, n
      <3>2. \A i \in 1..n : s[i] \in FindingRecords
        BY <2>3, <3>1
      <3>3. s \in [1..n -> FindingRecords]
        BY <3>1, <3>2
      <3> QED BY <3>1, <3>3, SeqDef
    <2> HIDE DEF s
    <2>5. e = [d EXCEPT !.findings = s]
      BY <2>1 DEF s
    <2> QED BY <2>4, <2>5 DEF Data
  <1> QED BY <1>1, <1>2

LEMMA ContentsInit == Init => Contents
  <1>1. NoData \in Data
    BY DEF NoData, Data
  <1> QED BY <1>1 DEF Init, Contents, Kept

LEMMA ContentsStep == IInv /\ Contents /\ [Next]_vars => Contents'
  <1> SUFFICES ASSUME IInv, Contents, [Next]_vars PROVE Contents'
    OBVIOUS
  <1>0. Shape /\ pc \in [Procs -> Where]
    BY DEF IInv, Shape
  <1>1. CASE UNCHANGED vars
    BY <1>1 DEF vars, Contents
  <1>2. ASSUME NEW p \in Procs, Start(p) PROVE Contents'
    <2>1. UNCHANGED <<data, disk, input>> /\ pc[p] = "unborn"
      BY <1>2 DEF Start
    <2>2. /\ \A q \in Procs : q # p => pc'[q] = pc[q] /\ cmd'[q] = cmd[q]
          /\ pc'[p] \in {"work", "read"}
      BY <1>0, <1>2 DEF Start, Goto, Shape
    <2> QED BY <2>1, <2>2 DEF Contents
  <1>3. ASSUME NEW p \in Procs, ReadInput(p) PROVE Contents'
    <2> DEFINE f == disk[cmd[p].in]
    <2>1. UNCHANGED <<disk, cmd>>
      BY <1>3 DEF ReadInput
    <2>2. CASE Goto(p, "failed") /\ UNCHANGED <<input, data>>
      BY <1>0, <2>1, <2>2 DEF Goto, Contents
    <2>3. CASE /\ Readable(f) /\ input' = [input EXCEPT ![p] = f] /\ data' = [data EXCEPT ![p] = f.of]
               /\ Goto(p, IF cmd[p].cmd = "attack" THEN "work" ELSE "write")
      <3>1. cmd[p].in \in Paths
        BY <1>0, <1>3, FilesAssumption DEF ReadInput, Shape
      <3>2. f.of \in Data
        BY <2>3, <3>1, ReadableIsData DEF Contents
      <3>3. data' \in [Procs -> Data] /\ data'[p] = f.of /\ \A q \in Procs : q # p => data'[q] = data[q]
        BY <2>3, <3>2 DEF Contents
      <3>4. /\ input'[p] = f
            /\ \A q \in Procs : q # p => input'[q] = input[q] /\ pc'[q] = pc[q]
        BY <1>0, <2>3 DEF Goto, Shape
      <3> QED BY <2>1, <2>3, <3>3, <3>4 DEF Contents
    <2> QED BY <1>3, <2>2, <2>3 DEF ReadInput
  <1>4. ASSUME NEW p \in Procs, Work(p) PROVE Contents'
    <2>1. UNCHANGED <<disk, cmd, input>> /\ pc[p] = "work" /\ cmd[p].cmd # "report"
      BY <1>4 DEF Work, IInv, AtWork
    <2>2. \A q \in Procs : q # p => pc'[q] = pc[q]
      BY <1>0, <1>4 DEF Work, Goto
    <2>3. data' \in [Procs -> Data] /\ \A q \in Procs : q # p => data'[q] = data[q]
      <3>1. CASE UNCHANGED data
        BY <3>1 DEF Contents
      <3>2. ASSUME NEW d \in IF cmd[p].cmd = "scan" THEN Scanned ELSE Attacked(data[p]),
                   data' = [data EXCEPT ![p] = d]
            PROVE  data' \in [Procs -> Data] /\ \A q \in Procs : q # p => data'[q] = data[q]
        <4>1. d \in Data
          <5>1. CASE d \in Scanned
            BY <5>1, FilesAssumption DEF Data
          <5>2. CASE d \in Attacked(data[p])
            BY <5>2, AttackedIsData DEF Contents
          <5> QED BY <3>2, <5>1, <5>2
        <4> QED BY <3>2, <4>1 DEF Contents
      <3> QED BY <1>4, <3>1, <3>2 DEF Work
    <2> QED BY <2>1, <2>2, <2>3 DEF Contents
  <1>5. ASSUME NEW p \in Procs,
               RefuseSarif(p) \/ CreateTemp(p) \/ Fill(p) \/ RenameFails(p) \/ Kill(p)
        PROVE  Contents'
    <2>1. UNCHANGED <<disk, cmd, input, data>>
      BY <1>5 DEF RefuseSarif, CreateTemp, Fill, RenameFails, Kill
    <2>2. /\ \A q \in Procs : q # p => pc'[q] = pc[q]
          /\ pc'[p] \in {"fill", "rename"} => pc[p] \in {"write", "fill"}
          /\ pc'[p] \in {"fill", "rename", "failed", "killed"}
      BY <1>0, <1>5 DEF RefuseSarif, CreateTemp, Fill, RenameFails, Kill, Goto
    <2> QED BY <2>1, <2>2 DEF Contents
  <1>6. ASSUME NEW p \in Procs, Rename(p) PROVE Contents'
    <2>1. /\ UNCHANGED <<cmd, input, data>> /\ pc[p] = "rename"
          /\ disk' = [disk EXCEPT ![Output(p).path] = temp[p]]
      BY <1>6 DEF Rename
    <2>2. temp[p] \in Kept
      <3>1. temp[p] = Output(p).file /\ k[p] \in DOMAIN Outputs(cmd[p], data[p])
        BY <2>1 DEF IInv, AtWork, Writing
      <3> QED BY <3>1, OutputsKept DEF Contents, Output
    <2>3. \A q \in Procs : q # p => pc'[q] = pc[q]
      BY <1>0, <1>6 DEF Rename, Goto
    <2>4. \A q \in Paths : disk'[q] \in Kept
      BY <1>0, <2>1, <2>2 DEF Contents, Shape
    <2> QED BY <2>1, <2>3, <2>4 DEF Contents
  <1> QED BY <1>1, <1>2, <1>3, <1>4, <1>5, <1>6 DEF Next, Step, AllOver

\* The files are made by Stage, Html, Json and Sarif of findings that a scan found.
THEOREM ContentsInvariant == Spec => []Contents
  <1>1. Init => Contents
    BY ContentsInit
  <1>2. IInv /\ Contents /\ [Next]_vars => Contents'
    BY ContentsStep
  <1> QED BY <1>1, <1>2, InductiveInvariant, PTL DEF Spec

\* rulesFor relies on Build's order, and may.
THEOREM SarifRulesAreWorst == Spec => []RulesAreWorst
  <1>1. Contents => RulesAreWorst
    <2> SUFFICES ASSUME Contents, NEW q \in Paths, disk[q].kind = "sarif"
                 PROVE  LET s == disk[q].of.findings r == disk[q].rules IN
                        /\ DOMAIN r = {f.check : f \in Elements(s)}
                        /\ \A f \in Elements(s) : r[f.check] <= f.rank
      BY DEF RulesAreWorst
    <2>1. \A d : Stage(d).kind = "stage" /\ Html(d).kind = "html" /\ Json(d).kind = "json" /\ Absent.kind = "absent"
      BY DEF Stage, Html, Json, Absent
    <2>2. PICK d \in Data : disk[q] = Sarif(d)
      BY <2>1 DEF Contents, Kept
    <2> DEFINE s == Ordered(d.findings)
    <2>3. d.findings \in Seq(FindingRecords)
      BY DEF Data
    <2>4. s \in Seq(FindingRecords) /\ \A a, b \in DOMAIN s : a < b => s[a].rank <= s[b].rank
      BY <2>3, OrderedSorts
    <2>5. disk[q].of.findings = s /\ disk[q].rules = RulesFor(s)
      BY <2>2, BuildKeeps DEF Sarif
    <2> HIDE DEF s
    <2> QED BY <2>4, <2>5, FirstIsWorst
  <1> QED BY <1>1, ContentsInvariant, PTL

\* report's JSON may take its input's place: nothing in it is lost.
THEOREM ReportKeepsItsInput == Spec => InputKept
  <1>1. IInv /\ Contents /\ [Next]_vars =>
          [\A p \in Procs :
             LET c == cmd[p] IN
             /\ c.cmd = "report" /\ c.in \notin {c.out, c.sarif}
             /\ Rename(p) /\ disk[c.in] = input[p]
             => /\ Readable(disk'[c.in])
                /\ Elements(disk'[c.in].of.findings) = Elements(input[p].of.findings)
                /\ disk'[c.in].of.gaps = input[p].of.gaps]_vars
    <2> SUFFICES ASSUME IInv, Contents, NEW p \in Procs,
                        cmd[p].cmd = "report", cmd[p].in \notin {cmd[p].out, cmd[p].sarif},
                        Rename(p), disk[cmd[p].in] = input[p]
                 PROVE  LET q == cmd[p].in IN
                        /\ Readable(disk'[q])
                        /\ Elements(disk'[q].of.findings) = Elements(input[p].of.findings)
                        /\ disk'[q].of.gaps = input[p].of.gaps
      OBVIOUS
    <2> DEFINE c == cmd[p]
               d == data[p]
    <2>1. /\ pc[p] = "rename" /\ temp[p] = Output(p).file
          /\ disk' = [disk EXCEPT ![Output(p).path] = temp[p]]
          /\ k[p] \in DOMAIN Outputs(c, d)
      BY DEF Rename, IInv, AtWork, Writing
    <2>2. d \in Data /\ Readable(input[p]) /\ d = input[p].of
      BY <2>1 DEF Contents
    <2>3. c.in \in Paths
      BY <2>1, FilesAssumption DEF IInv, Shape
    <2>4. CASE Output(p).path # c.in
      BY <2>1, <2>2, <2>4 DEF IInv, Shape
    <2>5. CASE Output(p).path = c.in
      <3>1. Output(p).file = Json(d)
        BY <2>1, <2>5, OutputsForm DEF Output
      <3>2. disk'[c.in] = Json(d)
        BY <2>1, <2>3, <2>5, <3>1 DEF IInv, Shape
      <3>3. Json(d).kind = "json" /\ Json(d).of = Build(d)
        BY DEF Json
      <3> QED BY <2>2, <3>2, <3>3, BuildKeeps DEF Readable
    <2> QED BY <2>4, <2>5
  <1> QED BY <1>1, InductiveInvariant, ContentsInvariant, PTL DEF Spec, InputKept
-----------------------------------------------------------------------------
(***************************************************************************)
(* warden diff, of two stage files.                                        *)
(***************************************************************************)
\* Each file is the one its scan wrote, or what attack made of it.
FilesCarryScans ==
  /\ scans \in [1..2 -> Scans]
  /\ \A i \in 1..2 : files[i] = FileOf(scans[i]) \/ (i \in emptied /\ files[i] = AttackedFile(FileOf(scans[i])))
  /\ phase \in {"scan", "attack"} => \A i \in 1..2 : files[i] = FileOf(scans[i])

\* The report is made of the files, and is empty before.
ReportTold ==
  /\ phase = "exited" => report = Compare(files[1], files[2]) /\ regressed = Regressed(report, threshold)
  /\ phase # "exited" => report.resolved = {}

DiffIInv == threshold \in Severities \cup {"unknown"} /\ FilesCarryScans /\ ReportTold
-----------------------------------------------------------------------------
\* A file that attack wrote still claims nothing that its scan did not do.
LEMMA AttackClaimsNoMore ==
  ASSUME NEW s PROVE AttackedFile(FileOf(s)).examined \subseteq FileOf(s).examined
BY DEF AttackedFile, FileOf

\* A verdict recorded in a scan's file is a verdict of the scan.
LEMMA VerdictsInFile ==
  ASSUME NEW s, NEW p \in Pairs, Entry(p) \in FileOf(s).examined
  PROVE  p \in Looked(s)
<1>1. PICK q \in Looked(s) : Entry(p) = Entry(q)
  BY DEF FileOf
<1>2. p[1] = q[1] /\ p[2] = q[2]
  BY <1>1 DEF Entry
<1>3. p = q
  BY <1>2 DEF Pairs, Looked, Ended
<1> QED
  BY <1>1, <1>3

\* And every verdict of the scan is recorded.
LEMMA VerdictsRecorded ==
  ASSUME NEW s, NEW p \in Looked(s) PROVE Entry(p) \in FileOf(s).examined
BY DEF FileOf

\* Findings of the same ID are of the same check and route, and share a name.
LEMMA Namesakes ==
  ASSUME NEW f \in Findings, NEW g \in Findings, ID(f) = ID(g)
  PROVE  Of(f) = Of(g) /\ Named[About(f)] = Named[About(g)]
BY DEF ID, Of

\* What a scan found is a finding, of the severity it was given.
LEMMA FoundIsSeen ==
  ASSUME NEW s \in Scans, NEW p \in Pairs, NEW x \in DOMAIN Found(s, p)
  PROVE  <<p[1], p[2], x, Found(s, p)[x]>> \in Seen(s)
<1>1. s[p] \in FatesOf(p[1])
  BY DEF Scans
<1>2. Found(s, p) \in FoundBy(p[1]) \cup {Nought}
  BY <1>1 DEF FatesOf, Found
<1>3. Found(s, p) \in FoundBy(p[1])
  BY <1>2 DEF Nought
<1>4. PICK S \in SUBSET Subjects : Found(s, p) \in [S -> Severities]
  BY <1>3 DEF FoundBy
<1>5. x \in Subjects /\ Found(s, p)[x] \in Severities
  BY <1>4
<1> DEFINE g == <<p[1], p[2], x, Found(s, p)[x]>>
<1>6. g \in Findings
  BY <1>5 DEF Findings, Pairs
<1>7. g[3] = x /\ g[4] = Found(s, p)[x] /\ Of(g) = p
  BY DEF Of, Pairs
<1>8. g[3] \in DOMAIN Found(s, Of(g)) /\ g[4] = Found(s, Of(g))[g[3]]
  BY <1>7
<1> HIDE DEF g
<1>9. g \in Seen(s)
  BY <1>6, <1>8 DEF Seen
<1> QED
  BY <1>9 DEF g

\* Attack leaves a file its findings, and its coverage unless they are none.
LEMMA FilesFindings ==
  ASSUME FilesCarryScans, NEW i \in 1..2
  PROVE  /\ files[i].findings = Seen(scans[i])
         /\ files[i].examined \subseteq FileOf(scans[i]).examined
         /\ i \notin emptied => files[i] = FileOf(scans[i])
<1>1. FileOf(scans[i]).findings = Seen(scans[i])
  BY DEF FileOf
<1>2. CASE files[i] = FileOf(scans[i])
  BY <1>1, <1>2
<1>3. CASE i \in emptied /\ files[i] = AttackedFile(FileOf(scans[i]))
  BY <1>1, <1>3, AttackClaimsNoMore DEF AttackedFile
<1> QED
  BY <1>2, <1>3 DEF FilesCarryScans

\* A severity that does not reach the threshold's rank is none that it stops at.
LEMMA RanksBelow ==
  ASSUME NEW t \in Severities \cup {"unknown"}, NEW w \in Severities,
         ~(SeverityRank(w) <= SeverityRank(t))
  PROVE  w \notin AsGraveAs(t)
BY DEF SeverityRank, Known, AsGraveAs, Severities
-----------------------------------------------------------------------------
\* Before the scans the report is the comparison of two empty files.
LEMMA DiffInvInit == DiffInit => DiffIInv
<1> SUFFICES ASSUME DiffInit PROVE DiffIInv
  OBVIOUS
<1>1. FilesCarryScans
  <2>1. \A p \in Pairs : NoScan[p] \in FatesOf(p[1]) /\ NoScan[p].how = "gone" /\ p[1] \in Checks
    BY DEF NoScan, FatesOf, Pairs
  <2>2. NoScan \in [Pairs -> UNION {FatesOf(c) : c \in Checks}]
    BY <2>1 DEF NoScan
  <2>3. \A r \in Routes : \A c, d \in Checks :
          NoScan[<<c, r>>].how = "heldback" => NoScan[<<d, r>>].how \in {"heldback", "gone"}
    BY <2>1 DEF Pairs
  <2>4. NoScan \in Scans
    BY <2>1, <2>2, <2>3 DEF Scans
  <2> QED
    BY <2>4 DEF DiffInit, FilesCarryScans, Nothing
<1>2. ReportTold
  <2>1. Compare(Nothing, Nothing).resolved = {f \in Unmatched(Nothing.findings, Nothing.findings) :
                                                Entry(Of(f)) \in Nothing.examined}
    BY DEF Compare
  <2>2. Unmatched(Nothing.findings, Nothing.findings) = {}
    BY DEF Unmatched, IDs
  <2> QED
    BY <2>1, <2>2 DEF DiffInit, ReportTold
<1> QED
  BY <1>1, <1>2 DEF DiffIInv, DiffInit

\* Scanning, attacking and comparing keep the report tied to the files.
LEMMA DiffInvStep == DiffIInv /\ [DiffNext]_diffVars => DiffIInv'
<1> SUFFICES ASSUME DiffIInv, [DiffNext]_diffVars PROVE DiffIInv'
  OBVIOUS
<1> USE DEF DiffIInv
<1>1. CASE Scan
  BY <1>1 DEF Scan, FilesCarryScans, ReportTold
<1>2. CASE Attack
  <2>1. PICK K \in SUBSET (1..2) :
          /\ files' = [i \in 1..2 |-> IF i \in K THEN AttackedFile(files[i]) ELSE files[i]]
          /\ emptied' = {i \in K : files[i].findings = {}}
    BY <1>2 DEF Attack
  <2>2. \A i \in 1..2 : files[i] = FileOf(scans[i])
    BY <1>2 DEF Attack, FilesCarryScans
  <2>3. ASSUME NEW i \in 1..2
        PROVE  files'[i] = FileOf(scans[i]) \/ (i \in emptied' /\ files'[i] = AttackedFile(FileOf(scans[i])))
    BY <2>1, <2>2 DEF AttackedFile
  <2>4. FilesCarryScans'
    BY <1>2, <2>3 DEF Attack, FilesCarryScans
  <2> QED
    BY <1>2, <2>4 DEF Attack, ReportTold
<1>3. CASE Diff
  BY <1>3 DEF Diff, FilesCarryScans, ReportTold
<1>4. CASE UNCHANGED diffVars
  BY <1>4 DEF diffVars, FilesCarryScans, ReportTold
<1> QED
  BY <1>1, <1>2, <1>3, <1>4 DEF DiffNext, Exited

\* The report is made of the files and the files of the scans.
THEOREM DiffInvariant == DiffSpec => []DiffIInv
BY DiffInvInit, DiffInvStep, PTL DEF DiffSpec
-----------------------------------------------------------------------------
\* "Resolved" is earned: the newer scan reached a verdict there, and did not find it.
THEOREM ResolvedEarned == DiffSpec => []ResolvedIsEarned
<1>1. DiffIInv => ResolvedIsEarned
  <2> SUFFICES ASSUME DiffIInv, NEW f \in report.resolved
               PROVE  Of(f) \in Looked(scans[2]) /\ f[3] \notin DOMAIN Found(scans[2], Of(f))
    BY DEF ResolvedIsEarned
  <2>1. report = Compare(files[1], files[2]) /\ FilesCarryScans
    BY DEF DiffIInv, ReportTold
  <2>2. f \in files[1].findings /\ ID(f) \notin IDs(files[2].findings) /\ Entry(Of(f)) \in files[2].examined
    BY <2>1 DEF Compare, Unmatched
  <2>3. f \in Findings /\ Of(f) \in Pairs
    BY <2>1, <2>2, FilesFindings DEF Seen, Findings, Of, Pairs
  <2>4. files[2].findings = Seen(scans[2]) /\ Entry(Of(f)) \in FileOf(scans[2]).examined
    BY <2>1, <2>2, FilesFindings
  <2>5. Of(f) \in Looked(scans[2])
    BY <2>3, <2>4, VerdictsInFile
  <2>6. ASSUME f[3] \in DOMAIN Found(scans[2], Of(f)) PROVE FALSE
    <3> DEFINE g == <<f[1], f[2], f[3], Found(scans[2], Of(f))[f[3]]>>
    <3>1. scans[2] \in Scans /\ Of(f)[1] = f[1] /\ Of(f)[2] = f[2]
      BY <2>1 DEF FilesCarryScans, Of
    <3>2. g \in Seen(scans[2])
      BY <2>3, <2>6, <3>1, FoundIsSeen
    <3>3. ID(g) = ID(f)
      BY DEF ID, About
    <3> HIDE DEF g
    <3> QED
      BY <2>2, <2>4, <3>2, <3>3 DEF IDs
  <2> QED
    BY <2>5, <2>6
<1> QED
  BY <1>1, DiffInvariant, PTL

\* No finding is lost between the two files or told twice.
THEOREM FindingsPlaced == DiffSpec => []EveryFindingPlaced
<1>1. DiffIInv => EveryFindingPlaced
  <2> SUFFICES ASSUME DiffIInv, phase = "exited" PROVE EveryFindingPlaced
    BY DEF EveryFindingPlaced
  <2> DEFINE Gone == Unmatched(files[1].findings, files[2].findings)
  <2>1. report = Compare(files[1], files[2])
    BY DEF DiffIInv, ReportTold
  <2>2. /\ report.resolved = {f \in Gone : Entry(Of(f)) \in files[2].examined}
        /\ report.unverified = {f \in Gone : Entry(Of(f)) \in Accounted(files[2]) \ files[2].examined}
        /\ report.dropped = {f \in Gone : Entry(Of(f)) \notin Accounted(files[2])}
        /\ report.unchanged = files[1].findings \ Gone
        /\ report.new = Unmatched(files[2].findings, files[1].findings)
    BY <2>1 DEF Compare
  <2>3. ASSUME NEW f \in files[1].findings
        PROVE  \E part \in Fortunes :
                 /\ f \in report[part]
                 /\ \A other \in Fortunes : f \in report[other] => other = part
    <3>1. CASE f \notin Gone
      BY <2>2, <3>1 DEF Fortunes
    <3>2. CASE f \in Gone
      BY <2>2, <3>2 DEF Fortunes, Accounted
    <3> QED
      BY <3>1, <3>2
  <2>4. ASSUME NEW f \in files[2].findings
        PROVE  f \in report.new <=> ID(f) \notin IDs(report.unchanged)
    <3>1. f \in report.new <=> ID(f) \notin IDs(files[1].findings)
      BY <2>2 DEF Unmatched
    <3>2. \A g \in files[1].findings : ID(g) = ID(f) => g \in report.unchanged
      BY <2>2 DEF Unmatched, IDs
    <3> QED
      BY <2>2, <3>1, <3>2 DEF IDs
  <2> QED
    BY <2>3, <2>4 DEF EveryFindingPlaced
<1> QED
  BY <1>1, DiffInvariant, PTL

\* The gate is sound: what it lets pass has a namesake in the older scan, and no
\* verdict of an older file that carries its coverage was lost.
THEOREM GateIsSound == DiffSpec => []GateSound
<1>1. DiffIInv => GateSound
  <2> SUFFICES ASSUME DiffIInv, phase = "exited", ~regressed
               PROVE  /\ \A f \in Seen(scans[2]) :
                           f[4] \in AsGraveAs(threshold) =>
                             \E g \in Seen(scans[1]) : Of(g) = Of(f) /\ Named[About(g)] = Named[About(f)]
                      /\ 1 \notin emptied => Looked(scans[1]) \subseteq Looked(scans[2])
    BY DEF GateSound
  <2>1. FilesCarryScans /\ threshold \in Severities \cup {"unknown"}
    BY DEF DiffIInv
  <2>2. report = Compare(files[1], files[2]) /\ ~Regressed(report, threshold)
    BY DEF DiffIInv, ReportTold
  <2>3. files[1].findings = Seen(scans[1]) /\ files[2].findings = Seen(scans[2])
    BY <2>1, FilesFindings
  <2>4. ASSUME NEW f \in Seen(scans[2]), f[4] \in AsGraveAs(threshold)
        PROVE  \E g \in Seen(scans[1]) : Of(g) = Of(f) /\ Named[About(g)] = Named[About(f)]
    <3>1. f \in Findings /\ f[4] \in Severities
      BY DEF Seen, Findings
    <3>2. CASE ID(f) \in IDs(Seen(scans[1]))
      <4>1. PICK g \in Seen(scans[1]) : ID(g) = ID(f)
        BY <3>2 DEF IDs
      <4>2. g \in Findings
        BY DEF Seen
      <4> QED
        BY <3>1, <4>1, <4>2, Namesakes
    <3>3. CASE ID(f) \notin IDs(Seen(scans[1]))
      <4>1. f \in report.new
        BY <2>2, <2>3, <3>3 DEF Compare, Unmatched
      <4>2. ~(SeverityRank(f[4]) <= SeverityRank(threshold))
        BY <2>2, <4>1 DEF Regressed
      <4> QED
        BY <2>1, <2>4, <3>1, <4>2, RanksBelow
    <3> QED
      BY <3>2, <3>3
  <2>5. ASSUME 1 \notin emptied, NEW p \in Looked(scans[1]) PROVE p \in Looked(scans[2])
    <3>1. files[1] = FileOf(scans[1])
      BY <2>1, <2>5, FilesFindings
    <3>2. Entry(p) \in files[2].examined
      BY <2>2, <3>1, VerdictsRecorded DEF Regressed, Compare
    <3>3. Entry(p) \in FileOf(scans[2]).examined
      BY <2>1, <3>2, FilesFindings
    <3> QED
      BY <3>3, VerdictsInFile DEF Looked, Ended
  <2> QED
    BY <2>4, <2>5
<1> QED
  BY <1>1, DiffInvariant, PTL
=============================================================================
