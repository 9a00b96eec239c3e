---------------------------- MODULE RebaseProofs ----------------------------
(***************************************************************************)
(* Proofs about Rebase, for every series, upstream text and set of         *)
(* revisions: the type invariant; that a report is red only for a reason   *)
(* (NoFalseAlarm); that a GREEN report of the series as it is now means    *)
(* what the applicator would find, within the exceptions that              *)
(* GreenMeansApplies names; and, for a report that none of them touches,   *)
(* that the series is cut for the new revision (CutFor).                   *)
(*                                                                         *)
(* The inductive invariant says that every row, of the run in progress and *)
(* of the report on disk, is the class of the content it names at the      *)
(* revisions of its own run: edits of the series and of the pin meanwhile  *)
(* change neither.                                                         *)
(***************************************************************************)
EXTENDS Rebase, TLAPS

\* A row is the verdict of its content, at the revisions of its run.
RowRight(row, from, to) == row.cls = ClassOf(row.hash, from, to, row.lost)

BotRight ==
  bot # Idle => \A i \in 1..Len(bot.rows) : RowRight(bot.rows[i], bot.from, bot.to)
ReportRight ==
  report # NoReport =>
    \A i \in 1..Len(report.rows) : RowRight(report.rows[i], report.from, report.to)
IInv == TypeOK /\ BotRight /\ ReportRight

-----------------------------------------------------------------------------
\* The worst of a set of classes is a class, and it is clean only when no other
\* class is in the set (classify.py's _worst).
LEMMA WorstIsWorst ==
  ASSUME NEW C \in SUBSET Classes
  PROVE  /\ Worst(C) \in Classes
         /\ Worst(C) = "clean" => C \subseteq {"clean"}
<1> DEFINE found == {i \in 1..7 : Severity[i] \in C \cup {"clean"}}
           w == CHOOSE i \in found : \A k \in found : i <= k
<1>1. 7 \in found
  BY DEF Severity
<1>2. \E i \in found : \A k \in found : i <= k
  <2>1. CASE 1 \in found  BY <2>1
  <2>2. CASE 1 \notin found /\ 2 \in found  BY <2>2
  <2>3. CASE {1, 2} \cap found = {} /\ 3 \in found  BY <2>3
  <2>4. CASE {1, 2, 3} \cap found = {} /\ 4 \in found  BY <2>4
  <2>5. CASE {1, 2, 3, 4} \cap found = {} /\ 5 \in found  BY <2>5
  <2>6. CASE {1, 2, 3, 4, 5} \cap found = {} /\ 6 \in found  BY <2>6
  <2>7. CASE {1, 2, 3, 4, 5, 6} \cap found = {}  BY <1>1, <2>7
  <2> QED  BY <2>1, <2>2, <2>3, <2>4, <2>5, <2>6, <2>7
<1>3. w \in found /\ \A k \in found : w <= k
  BY <1>2
<1>4. Worst(C) = Severity[w]
  BY DEF Worst
<1>5. Severity[w] \in Classes
  BY <1>3 DEF Severity, Classes
<1>6. ASSUME Severity[w] = "clean"  PROVE C \subseteq {"clean"}
  <2>1. w = 7
    BY <1>3, <1>6 DEF Severity
  <2>2. \A k \in 1..6 : Severity[k] \notin C
    BY <1>3, <2>1
  <2> QED  BY <2>2 DEF Severity, Classes
<1> QED  BY <1>4, <1>5, <1>6

\* Each file of a patch gets one of the classes, and so does the patch.
LEMMA ClassOfType ==
  ASSUME NEW h \in Hashes, NEW from \in Revs, NEW to \in Revs, NEW lost \in SUBSET Sites
  PROVE  ClassOf(h, from, to, lost) \in Classes
<1>1. \A s \in ManifestSites(h) : FileClass(h, s, from, to, lost) \in Classes
  BY DEF FileClass, Classes
<1>2. Worst({FileClass(h, s, from, to, lost) : s \in ManifestSites(h)}) \in Classes
  BY <1>1, WorstIsWorst
<1> QED  BY <1>2 DEF ClassOf, Classes

\* A file that an applying patch touches and that is classified clean has, at the
\* target, the text the patch was cut against; unless the patch adds it and the
\* target could not be read.
LEMMA CleanFileApplies ==
  ASSUME NEW h \in Hashes, NEW from \in Revs, NEW to \in Revs, NEW lost \in SUBSET Sites,
         NEW f \in Changes, NEW s \in Touches[f], s \in ManifestSites(h), s \in Sites,
         Base[from][s] = Below[f][s], lost \cap Added(h, from) = {},
         FileClass(h, s, from, to, lost) = "clean"
  PROVE  Base[to][s] = Below[f][s]
<1>1. CASE s \in Added(h, from)
  <2>1. Missing(to, s)
    BY <1>1 DEF FileClass, Absent
  <2>2. Missing(from, s)
    BY <1>1 DEF Added
  <2>3. s \in NewFiles
    BY <2>2, RebaseAssumption DEF Missing
  <2> QED  BY <2>1, <2>2, <2>3 DEF Missing
<1>2. CASE s \notin Added(h, from)
  <2>1. ~Absent(to, s, lost)
    BY <1>2 DEF FileClass
  <2>2. Base[to][s] = Base[from][s]
    BY <1>2, <2>1 DEF FileClass
  <2> QED  BY <2>2
<1> QED  BY <1>1, <1>2

\* A patch classified clean, no added file of which was out of sight, applies at
\* the target: its first file does.
LEMMA CleanApplies ==
  ASSUME NEW h \in Hashes, NEW from \in Revs, NEW to \in Revs, NEW lost \in SUBSET Sites,
         lost \cap Added(h, from) = {}, ClassOf(h, from, to, lost) = "clean"
  PROVE  AppliesAt(FirstFile(h), to)
<1> DEFINE f == FirstFile(h)
<1>1. f \in FileSet(h) /\ f \in Changes
  <2>1. FilesOf[h] \in Seq(Changes) /\ FilesOf[h] # <<>>
    BY SeriesAssumption
  <2>2. 1 \in 1..Len(FilesOf[h])
    BY <2>1
  <2> QED  BY <2>1, <2>2 DEF FirstFile, FileSet
<1>2. Touches[f] \subseteq ManifestSites(h) /\ Touches[f] \subseteq Sites
  BY <1>1, SeriesAssumption DEF ManifestSites
<1>3. AppliesAt(f, from)
  BY DEF ClassOf
<1>4. CASE CleanAtTarget(h, from, to, lost)
  <2> SUFFICES ASSUME NEW s \in Touches[f]  PROVE Base[to][s] = Below[f][s]
    BY DEF AppliesAt
  <2>1. CASE s \notin lost
    BY <1>4, <2>1 DEF CleanAtTarget, AppliesSeen
  <2>2. CASE s \in lost
    <3>1. s \in Added(h, from)
      BY <1>2, <1>4, <2>2 DEF CleanAtTarget, Absent
    <3> QED  BY <2>2, <3>1
  <2> QED  BY <2>1, <2>2
<1>5. CASE ~CleanAtTarget(h, from, to, lost)
  <2> DEFINE C == {FileClass(h, s, from, to, lost) : s \in ManifestSites(h)}
  <2>1. Worst(C) = "clean"
    BY <1>3, <1>5 DEF ClassOf
  <2>2. C \in SUBSET Classes
    BY DEF FileClass, Classes
  <2>3. C \subseteq {"clean"}
    BY <2>1, <2>2, WorstIsWorst
  <2> SUFFICES ASSUME NEW s \in Touches[f]  PROVE Base[to][s] = Below[f][s]
    BY DEF AppliesAt
  <2>4. FileClass(h, s, from, to, lost) = "clean"
    BY <1>2, <2>3
  <2>5. Base[from][s] = Below[f][s]
    BY <1>3 DEF AppliesAt
  <2> HIDE DEF f
  <2> QED  BY <1>1, <1>2, <2>4, <2>5, CleanFileApplies
<1> QED  BY <1>4, <1>5

-----------------------------------------------------------------------------
\* The invariant, for type correctness and for the rows.

LEMMA InitIInv == Init => IInv
<1> SUFFICES ASSUME Init  PROVE IInv
  OBVIOUS
<1>1. TypeOK
  BY SeriesAssumption DEF Init, TypeOK
<1> QED  BY <1>1 DEF Init, IInv, BotRight, ReportRight

\* Steps of the run.
LEMMA RunIInv ==
  ASSUME IInv,
         \/ \E to \in Targets, dry \in BOOLEAN : StartRun(to, dry)
         \/ \E lost \in SUBSET Sites : ClassifyPatch(lost)
         \/ WriteReport \/ RouteIssues \/ PrepareBranch \/ RunEnds
  PROVE  IInv'
<1> USE DEF IInv
<1>1. CASE \E to \in Targets, dry \in BOOLEAN : StartRun(to, dry)
  <2> PICK to \in Targets, dry \in BOOLEAN : StartRun(to, dry)
    BY <1>1
  <2>1. to \in Revs
    BY RebaseAssumption
  <2>2. bot' \in Runs /\ bot'.rows = <<>> /\ Len(bot'.rows) <= Len(bot'.listed)
    BY <2>1 DEF StartRun, TypeOK, Runs
  <2>3. TypeOK'
    BY <2>2 DEF StartRun, TypeOK, series
  <2>4. BotRight'
    BY <2>2 DEF BotRight
  <2>5. ReportRight'
    BY DEF ReportRight, StartRun
  <2> QED  BY <2>3, <2>4, <2>5
<1>2. CASE \E lost \in SUBSET Sites : ClassifyPatch(lost)
  <2> PICK lost \in SUBSET Sites : ClassifyPatch(lost)
    BY <1>2
  <2> DEFINE h == patchdir[judging]
             row == [id |-> judging, cls |-> ClassOf(h, bot.from, bot.to, lost),
                     hash |-> h, lost |-> lost]
  <2>1. /\ bot \in Runs /\ Len(bot.rows) < Len(bot.listed)
        /\ bot' = [bot EXCEPT !.rows = Append(@, row)]
    BY RebaseAssumption DEF ClassifyPatch, TypeOK
  <2>2. judging \in Pids /\ h \in Hashes
    BY <2>1 DEF judging, TypeOK, Runs
  <2>3. ClassOf(h, bot.from, bot.to, lost) \in Classes
    BY <2>1, <2>2, ClassOfType DEF Runs
  <2>4. row \in Rows
    BY <2>2, <2>3 DEF Rows
  <2>5. bot.rows \in Seq(Rows) /\ bot.listed \in Seq(Pids)
    BY <2>1 DEF Runs
  <2> HIDE DEF row
  <2>6. /\ bot'.rows = Append(bot.rows, row) /\ bot'.rows \in Seq(Rows)
        /\ bot'.from = bot.from /\ bot'.to = bot.to /\ bot'.listed = bot.listed
    BY <2>1, <2>4, <2>5 DEF Runs
  <2>7. bot' \in Runs
    BY <2>1, <2>6 DEF Runs
  <2>8. Len(bot'.rows) <= Len(bot'.listed)
    BY <2>1, <2>4, <2>5, <2>6
  <2>9. TypeOK'
    BY <2>7, <2>8 DEF ClassifyPatch, TypeOK, series
  <2>10. RowRight(row, bot.from, bot.to)
    BY DEF row, RowRight
  <2>11. BotRight'
    <3> SUFFICES ASSUME NEW i \in 1..Len(bot'.rows)
                 PROVE  RowRight(bot'.rows[i], bot.from, bot.to)
      BY <2>6 DEF BotRight
    <3>1. CASE i = Len(bot.rows) + 1
      BY <2>4, <2>5, <2>6, <2>10, <3>1
    <3>2. CASE i # Len(bot.rows) + 1
      <4>1. i \in 1..Len(bot.rows) /\ bot'.rows[i] = bot.rows[i]
        BY <2>4, <2>5, <2>6, <3>2
      <4> QED  BY <4>1 DEF BotRight, ClassifyPatch
    <3> QED  BY <3>1, <3>2
  <2>12. ReportRight'
    BY DEF ReportRight, ClassifyPatch
  <2> QED  BY <2>9, <2>11, <2>12
<1>3. CASE WriteReport
  <2>1. /\ bot \in Runs
        /\ report' = [from |-> bot.from, to |-> bot.to, rows |-> bot.rows]
    BY <1>3 DEF WriteReport, TypeOK
  <2>2. report' \in Reports
    BY <2>1 DEF Runs, Reports
  <2>3. \/ bot' = [bot EXCEPT !.at = "route"]
        \/ bot' = [bot EXCEPT !.at = "branch"]
        \/ bot' = Idle
    BY <1>3, Zenon DEF WriteReport
  <2>4. bot' \in Runs \cup {Idle}
    BY <2>1, <2>3 DEF Runs
  <2>5. bot' # Idle => /\ bot'.rows = bot.rows /\ bot'.listed = bot.listed
                       /\ bot'.from = bot.from /\ bot'.to = bot.to
    BY <2>1, <2>3 DEF Runs
  <2>6. bundles' = {} /\ UNCHANGED <<series, pin, branches>> /\ bot # Idle
    BY <1>3 DEF WriteReport
  <2>7. TypeOK'
    BY <2>2, <2>4, <2>5, <2>6 DEF TypeOK, series
  <2>8. BotRight'
    BY <2>5, <2>6 DEF BotRight
  <2>9. ReportRight'
    BY <2>1, <2>6 DEF BotRight, ReportRight
  <2> QED  BY <2>7, <2>8, <2>9
<1>4. CASE RouteIssues
  <2>1. bot \in Runs /\ bot.rows \in Seq(Rows)
    BY <1>4 DEF RouteIssues, TypeOK, Runs
  <2>2. bundles' \subseteq Pids
    <3> SUFFICES ASSUME NEW n \in 1..Len(bot.rows)  PROVE bot.rows[n].id \in Pids
      BY <1>4 DEF RouteIssues
    <3>1. bot.rows[n] \in Rows
      BY <2>1
    <3> QED  BY <3>1 DEF Rows
  <2>3. TypeOK'
    BY <1>4, <2>2 DEF RouteIssues, TypeOK, series
  <2> QED  BY <1>4, <2>3 DEF RouteIssues, BotRight, ReportRight
<1>5. CASE PrepareBranch
  <2>1. bot \in Runs
    BY <1>5 DEF PrepareBranch, TypeOK
  <2>2. branches' \subseteq Revs
    BY <1>5, <2>1 DEF PrepareBranch, TypeOK, Runs
  <2>3. TypeOK'
    BY <1>5, <2>2 DEF PrepareBranch, TypeOK, series
  <2> QED  BY <1>5, <2>3 DEF PrepareBranch, BotRight, ReportRight
<1>6. CASE RunEnds
  BY <1>6 DEF RunEnds, TypeOK, BotRight, ReportRight, series
<1> QED  BY <1>1, <1>2, <1>3, <1>4, <1>5, <1>6

\* What people do meanwhile changes no row.
LEMMA PeopleIInv ==
  ASSUME IInv,
         \/ \E p \in Pids : \E h \in ContentsOf[p] : EditPatch(p, h)
         \/ \E i \in 1..Len(manifest) : Unlist(i)
         \/ \E r \in Revs : Repin(r)
         \/ UNCHANGED vars
  PROVE  IInv'
<1> USE DEF IInv
<1>1. CASE \E p \in Pids : \E h \in ContentsOf[p] : EditPatch(p, h)
  <2> PICK p \in Pids : \E h \in ContentsOf[p] : EditPatch(p, h)
    BY <1>1
  <2> PICK h \in ContentsOf[p] : EditPatch(p, h)
    OBVIOUS
  <2>1. h \in Hashes
    BY SeriesAssumption
  <2>2. TypeOK'
    BY <2>1 DEF EditPatch, TypeOK
  <2> QED  BY <2>2 DEF EditPatch, BotRight, ReportRight
<1>2. CASE \E i \in 1..Len(manifest) : Unlist(i)
  <2> PICK i \in 1..Len(manifest) : Unlist(i)
    BY <1>2
  <2>1. manifest' \in Seq(Pids)
    BY DEF Unlist, TypeOK
  <2>2. TypeOK'
    BY <2>1 DEF Unlist, TypeOK
  <2> QED  BY <2>2 DEF Unlist, BotRight, ReportRight
<1>3. CASE \E r \in Revs : Repin(r)
  BY <1>3 DEF Repin, TypeOK, series, BotRight, ReportRight
<1>4. CASE UNCHANGED vars
  BY <1>4 DEF vars, TypeOK, series, BotRight, ReportRight
<1> QED  BY <1>1, <1>2, <1>3, <1>4

\* Every run of the bot, whatever is edited meanwhile, keeps the invariant.
THEOREM Invariance == Spec => []IInv
<1>1. IInv /\ [Next]_vars => IInv'
  BY RunIInv, PeopleIInv DEF Next
<1> QED  BY InitIInv, <1>1, PTL DEF Spec

\* The type invariant of the rebase bot.
THEOREM TypeCorrect == Spec => []TypeOK
<1>1. IInv => TypeOK
  BY DEF IInv
<1> QED  BY Invariance, <1>1, PTL

-----------------------------------------------------------------------------
\* What a GREEN report is worth.

\* A GREEN verdict has only clean rows (classify.py's verdict_of).
LEMMA GreenRows ==
  ASSUME NEW rows \in Seq(Rows), VerdictOf(rows) = "GREEN", NEW i \in 1..Len(rows)
  PROVE  rows[i].cls = "clean"
<1>1. rows[i] \in Rows
  OBVIOUS
<1>2. rows[i].cls \in Classes
  BY <1>1 DEF Rows
<1>3. rows[i].cls \in RowClasses(rows)
  BY DEF RowClasses
<1>4. RowClasses(rows) \cap Broken = {} /\ RowClasses(rows) \cap Drift = {}
  BY DEF VerdictOf
<1> QED  BY <1>2, <1>3, <1>4 DEF Classes, Broken, Drift

\* Where no two patches meet, the text a patch of one file finds in its turn is
\* upstream's.
LEMMA AloneOnUpstream ==
  ASSUME NEW listed \in Seq(Pids), NEW dirs \in [Pids -> Hashes], Disjoint(listed, dirs),
         NEW r \in Revs, NEW i \in 1..Len(listed), Len(FilesOf[dirs[listed[i]]]) = 1,
         NEW s \in Touches[FirstFile(dirs[listed[i]])]
  PROVE  TextBefore(listed, dirs, r, i, 1, s) = Base[r][s]
<1> DEFINE f == FirstFile(dirs[listed[i]])
<1>1. f \in FileSet(dirs[listed[i]])
  BY DEF FirstFile, FileSet
<1>2. \A a \in 1..(i - 1) : {g \in FileSet(dirs[listed[a]]) : s \in Touches[g]} = {}
  <2> SUFFICES ASSUME NEW a \in 1..(i - 1), NEW g \in FileSet(dirs[listed[a]]),
                      s \in Touches[g]
               PROVE  FALSE
    OBVIOUS
  <2>1. a \in 1..Len(listed) /\ a # i
    OBVIOUS
  <2>2. Touches[g] \cap Touches[f] = {}
    BY <1>1, <2>1 DEF Disjoint
  <2> QED  BY <2>2
<1>3. UNION {{g \in FileSet(dirs[listed[a]]) : s \in Touches[g]} : a \in 1..(i - 1)} = {}
  BY <1>2
<1>4. {FilesOf[dirs[listed[i]]][b] : b \in {m \in 1..(1 - 1) :
         s \in Touches[FilesOf[dirs[listed[i]]][m]]}} = {}
  OBVIOUS
<1> QED  BY <1>3, <1>4 DEF TextBefore

\* A GREEN report in sight is about patches of one file each, which upstream's text
\* at the target takes.
LEMMA GreenTakesEach ==
  ASSUME IInv, GreenInSight, NEW i \in 1..Len(manifest)
  PROVE  /\ patchdir[manifest[i]] \in Hashes
         /\ Len(FilesOf[patchdir[manifest[i]]]) = 1
         /\ AppliesAt(FirstFile(patchdir[manifest[i]]), report.to)
<1>1. /\ report \in Reports /\ manifest \in Seq(Pids) /\ patchdir \in [Pids -> Hashes]
      /\ report.rows \in Seq(Rows) /\ report.from \in Revs /\ report.to \in Revs
  BY DEF IInv, TypeOK, GreenInSight, Green, Reports
<1> DEFINE row == report.rows[i]
           h == patchdir[manifest[i]]
<1>2. /\ i \in 1..Len(report.rows) /\ row.hash = h /\ row \in Rows
      /\ row.lost \in SUBSET Sites /\ h \in Hashes
  <2>1. i \in 1..Len(report.rows) /\ row.hash = h
    BY DEF GreenInSight, UpToDate
  <2>2. row \in Rows
    BY <1>1, <2>1
  <2>3. h \in Hashes
    BY <1>1
  <2> QED  BY <2>1, <2>2, <2>3 DEF Rows
<1>3. Len(FilesOf[h]) = 1 /\ row.lost \cap Added(h, report.from) = {}
  BY <1>2 DEF GreenInSight, Blind
<1>4. row.cls = "clean"
  BY <1>1, <1>2, GreenRows DEF GreenInSight, Green
<1>5. ClassOf(h, report.from, report.to, row.lost) = "clean"
  BY <1>2, <1>4 DEF IInv, ReportRight, RowRight, GreenInSight, Green
<1>6. AppliesAt(FirstFile(h), report.to)
  BY <1>1, <1>2, <1>3, <1>5, CleanApplies
<1> QED  BY <1>2, <1>3, <1>6

\* GREEN, of the series as it is now, means that apply takes the whole series on
\* a fresh src/ at the target, up to the exceptions GreenInSight names.
THEOREM GreenIsHonoured == Spec => []GreenMeansApplies
<1>1. IInv => GreenMeansApplies
  <2> SUFFICES ASSUME IInv, GreenInSight
               PROVE  SeriesApplies(manifest, patchdir, report.to)
    BY DEF GreenMeansApplies
  <2>1. /\ manifest \in Seq(Pids) /\ patchdir \in [Pids -> Hashes] /\ report.to \in Revs
        /\ Disjoint(manifest, patchdir)
    BY DEF IInv, TypeOK, GreenInSight, Green, Reports
  <2> SUFFICES ASSUME NEW i \in 1..Len(manifest),
                      NEW n \in 1..Len(FilesOf[patchdir[manifest[i]]]),
                      NEW s \in Touches[FilesOf[patchdir[manifest[i]]][n]]
               PROVE  TextBefore(manifest, patchdir, report.to, i, n, s)
                        = Below[FilesOf[patchdir[manifest[i]]][n]][s]
    BY DEF SeriesApplies
  <2> DEFINE h == patchdir[manifest[i]]
  <2>2. n = 1 /\ Len(FilesOf[h]) = 1
    BY GreenTakesEach
  <2>3. Base[report.to][s] = Below[FirstFile(h)][s]
    BY <2>2, GreenTakesEach DEF AppliesAt, FirstFile
  <2>4. TextBefore(manifest, patchdir, report.to, i, 1, s) = Base[report.to][s]
    BY <2>1, <2>2, AloneOnUpstream DEF FirstFile
  <2> QED  BY <2>2, <2>3, <2>4 DEF FirstFile
<1> QED  BY Invariance, <1>1, PTL

\* And such a series is one that apply is never refused, wherever it dies and is run
\* again on src/ at the target: the applicator's theorem NeverRefusedInRecovery
\* starts from CutFor.
THEOREM GreenIsCutFor ==
  Spec => [](GreenInSight => CutFor(manifest, patchdir, report.to))
<1>1. IInv /\ GreenInSight => CutFor(manifest, patchdir, report.to)
  <2> SUFFICES ASSUME IInv, GreenInSight,
                      NEW i \in 1..Len(manifest), NEW f \in FileSet(patchdir[manifest[i]]),
                      NEW s \in Touches[f]
               PROVE  Base[report.to][s] = Below[f][s]
    BY DEF CutFor, GreenInSight
  <2>1. f = FirstFile(patchdir[manifest[i]])
    BY GreenTakesEach DEF FileSet, FirstFile
  <2> QED  BY <2>1, GreenTakesEach DEF AppliesAt
<1> QED  BY Invariance, <1>1, PTL

-----------------------------------------------------------------------------
\* What an alarm is worth.

\* A patch all of whose files apply at both revisions is clean, when no fetch was
\* lost: none of its files is gone at the target, for it reads there as it did.
LEMMA ApplyingIsClean ==
  ASSUME NEW h \in Hashes, NEW from \in Revs, NEW to \in Revs,
         \A f \in FileSet(h) : AppliesAt(f, from) /\ AppliesAt(f, to)
  PROVE  ClassOf(h, from, to, {}) = "clean"
<1>1. FirstFile(h) \in FileSet(h)
  <2>1. FilesOf[h] \in Seq(Changes) /\ FilesOf[h] # <<>>
    BY SeriesAssumption
  <2> QED  BY <2>1 DEF FirstFile, FileSet
<1>2. AppliesAt(FirstFile(h), from) /\ AppliesSeen(FirstFile(h), to, {})
  BY <1>1 DEF AppliesAt, AppliesSeen
<1>3. ASSUME NEW s \in ManifestSites(h) \ Added(h, from)
      PROVE  ~Absent(to, s, {})
  <2> PICK f \in FileSet(h) : s \in Touches[f]
    BY DEF ManifestSites
  <2>1. Base[from][s] = Base[to][s]
    BY DEF AppliesAt
  <2>2. ~Missing(from, s)
    BY DEF Added
  <2> QED  BY <2>1, <2>2 DEF Absent, Missing
<1>4. CleanAtTarget(h, from, to, {})
  BY <1>2, <1>3 DEF CleanAtTarget
<1> QED  BY <1>2, <1>4 DEF ClassOf

\* A report that is not GREEN names a patch that upstream's text refuses, at the
\* pin or at the target, unless a fetch failed (classify.py:166-261): whatever is
\* edited or re-pinned while the bot runs, nobody is sent a bundle for nothing.
THEOREM AlarmIsTrue == Spec => []NoFalseAlarm
<1>1. IInv => NoFalseAlarm
  <2> SUFFICES ASSUME IInv, report # NoReport, ~Green,
                      \A i \in 1..Len(report.rows) : report.rows[i].lost = {}
               PROVE  \E i \in 1..Len(report.rows) : \E f \in FileSet(report.rows[i].hash) :
                        ~AppliesAt(f, report.from) \/ ~AppliesAt(f, report.to)
    BY DEF NoFalseAlarm
  <2>1. /\ report.rows \in Seq(Rows) /\ report.from \in Revs /\ report.to \in Revs
    BY DEF IInv, TypeOK, Reports
  <2>2. PICK i \in 1..Len(report.rows) : report.rows[i].cls \in Broken \cup Drift
    BY DEF Green, VerdictOf, RowClasses
  <2> DEFINE h == report.rows[i].hash
  <2>3. h \in Hashes
    <3>1. report.rows[i] \in Rows
      BY <2>1
    <3> QED  BY <3>1 DEF Rows
  <2>4. ClassOf(h, report.from, report.to, {}) \in Broken \cup Drift
    BY <2>2 DEF IInv, ReportRight, RowRight
  <2>5. ClassOf(h, report.from, report.to, {}) # "clean"
    BY <2>4 DEF Broken, Drift
  <2> QED  BY <2>1, <2>3, <2>5, ApplyingIsClean
<1> QED  BY Invariance, <1>1, PTL
=============================================================================
