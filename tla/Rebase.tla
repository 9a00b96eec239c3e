------------------------------- MODULE Rebase -------------------------------
(***************************************************************************)
(* The rebase bot (build/upstream/rebase_bot.py, classify.py, issues.py):  *)
(* it judges each patch of the series at another chromium revision, writes *)
(* a report, routes what does not apply to owners and, on GREEN, prepares  *)
(* a DEPS bump.  Meanwhile people re-cut and retire patches and move the   *)
(* pin.  What a GREEN verdict is worth is what the applicator does with    *)
(* the series at that revision.                                            *)
(*                                                                         *)
(* A site here is a file of the manifest's `files`, or a region of one; a  *)
(* dir's files are the sites its patch files touch.                        *)
(***************************************************************************)
EXTENDS Series, FiniteSets

CONSTANTS
  NewFiles,    \* sites that are whole files which upstream need not have
  Removals,    \* upstream changes that take the file away
  Renames,     \* those of them that leave its text under another name
  Overlaps,    \* [Changes -> SUBSET Changes]: what a patch file's lines collide with
  Targets,     \* bound: revisions the bot is asked to judge
  MaxLost,     \* bound: patches of one run that a failed fetch touches
  NoReport,
  Idle

VARIABLES
  manifest,    \* ids in manifest order
  patchdir,    \* [Pids -> Hashes]: current content of each patch dir
  pin,         \* DEPS chromium_rev
  bot,         \* the run of the bot, or Idle
  report,      \* rebase-report.json
  bundles,     \* ids with an issue bundle of the run that wrote the report
  branches     \* revisions with a branch rebase/chromium-<rev>

series == <<manifest, patchdir>>
vars == <<series, pin, bot, report, bundles, branches>>

Classes == {"stale-base", "semantic", "path-collision", "file-deleted",
            "file-moved", "textual-drift", "clean"}

\* A row of the report.  hash and lost are not in the file: the content that was
\* judged, and the sites of which a fetch at the target failed: the file's text,
\* or, where there is no such file, the listing that would show it renamed.
Rows == [id : Pids, cls : Classes, hash : Hashes, lost : SUBSET Sites]
Runs == [at : {"classify", "route", "branch"}, from : Revs, to : Revs,
         dry : BOOLEAN, listed : Seq(Pids), rows : Seq(Rows)]
Reports == [from : Revs, to : Revs, rows : Seq(Rows)]

ASSUME RebaseAssumption ==
  /\ NewFiles \subseteq Sites
  /\ Renames \subseteq Removals /\ Removals \subseteq Changes
  /\ Overlaps \in [Changes -> SUBSET Changes]
  /\ \A f \in Changes : \A s \in Touches[f] : Below[f][s] \cap Removals = {}
  /\ Targets \subseteq Revs /\ MaxLost \in Nat
  /\ NoReport \notin Reports
  /\ Idle \notin Runs

TypeOK ==
  /\ manifest \in Seq(Pids)
  /\ patchdir \in [Pids -> Hashes]
  /\ \A p \in Pids : patchdir[p] \in ContentsOf[p]
  /\ pin \in Revs
  /\ bot \in Runs \cup {Idle}
  /\ bot # Idle => Len(bot.rows) <= Len(bot.listed)
  /\ report \in Reports \cup {NoReport}
  /\ bundles \subseteq Pids
  /\ branches \subseteq Revs

Init ==
  /\ manifest = Manifest0
  /\ patchdir \in {d \in [Pids -> Hashes] : \A p \in Pids : d[p] \in ContentsOf[p]}
  /\ pin \in Revs
  /\ bot = Idle /\ report = NoReport /\ bundles = {} /\ branches = {}

-----------------------------------------------------------------------------
\* classify.py: pure operators over a content, two revisions and what was lost.

Missing(r, s) == IF s \in NewFiles THEN Base[r][s] = {} ELSE Base[r][s] \cap Removals # {}

AppliesAt(f, r) == \A s \in Touches[f] : Base[r][s] = Below[f][s]

\* Only the first of a dir's patch files is looked at.
FirstFile(h) == FilesOf[h][1]
ManifestSites(h) == UNION {Touches[f] : f \in FileSet(h)}

\* Wrong on purpose: a file that the pin does not have is not taken for added.
AddedNever(h, from) == {}

\* 404 at the pin: the patch is taken to add the file.
Added(h, from) == {s \in ManifestSites(h) : Missing(from, s)}

\* A text that could not be fetched is taken for a file that is not there.
Absent(r, s, lost) == s \in lost \/ Missing(r, s)

AppliesSeen(f, r, lost) ==
  \A s \in Touches[f] : IF s \in lost THEN s \in NewFiles /\ Below[f][s] = {}
                                      ELSE Base[r][s] = Below[f][s]

\* git merge-file of the patched pin text with the target's.
Conflicts(f, s, from, to) ==
  /\ s \in Touches[f]
  /\ Overlaps[f] \cap ((Base[to][s] \ Base[from][s]) \cup (Base[from][s] \ Base[to][s])) # {}

FileClass(h, s, from, to, lost) ==
  CASE s \in Added(h, from) ->
         IF Absent(to, s, lost) THEN "clean" ELSE "path-collision"
    [] s \notin Added(h, from) /\ Absent(to, s, lost) ->
         IF s \notin lost /\ Base[to][s] \cap Renames # {} THEN "file-moved" ELSE "file-deleted"
    [] OTHER ->
         IF Base[to][s] = Base[from][s] THEN "clean"
         ELSE IF Conflicts(FirstFile(h), s, from, to) THEN "semantic" ELSE "textual-drift"

Severity == <<"stale-base", "semantic", "path-collision", "file-deleted",
              "file-moved", "textual-drift", "clean">>
Worst(classes) ==
  LET found == {i \in 1..7 : Severity[i] \in classes \cup {"clean"}}
  IN  Severity[CHOOSE i \in found : \A k \in found : i <= k]

CleanAtTarget(h, from, to, lost) ==
  /\ \A s \in ManifestSites(h) \ Added(h, from) : ~Absent(to, s, lost)
  /\ AppliesSeen(FirstFile(h), to, lost)

ClassOf(h, from, to, lost) ==
  CASE ~AppliesAt(FirstFile(h), from) -> "stale-base"
    [] AppliesAt(FirstFile(h), from) /\ CleanAtTarget(h, from, to, lost) -> "clean"
    [] OTHER -> Worst({FileClass(h, s, from, to, lost) : s \in ManifestSites(h)})

RowClasses(rows) == {rows[i].cls : i \in 1..Len(rows)}

Broken == {"stale-base", "semantic", "file-deleted", "path-collision"}
Drift == {"file-moved", "textual-drift"}

\* Wrong on purpose: mechanical drift counts as green.
VerdictOfLenient(rows) == IF RowClasses(rows) \cap Broken # {} THEN "BROKEN" ELSE "GREEN"

VerdictOf(rows) ==
  CASE RowClasses(rows) \cap Broken # {} -> "BROKEN"
    [] RowClasses(rows) \cap Broken = {} /\ RowClasses(rows) \cap Drift # {} -> "DRIFT"
    [] OTHER -> "GREEN"

-----------------------------------------------------------------------------
\* run_rebase.

\* Wrong on purpose: the rows of the last report are kept.
StartRunUnreset(to, dry) ==
  /\ bot = Idle
  /\ bot' = [at |-> "classify", from |-> pin, to |-> to, dry |-> dry, listed |-> manifest,
             rows |-> IF report = NoReport THEN <<>> ELSE report.rows]
  /\ UNCHANGED <<series, pin, report, bundles, branches>>

\* The manifest and the pin are read once, at the start.
StartRun(to, dry) ==
  /\ bot = Idle
  /\ bot' = [at |-> "classify", from |-> pin, to |-> to, dry |-> dry,
             listed |-> manifest, rows |-> <<>>]
  /\ UNCHANGED <<series, pin, report, bundles, branches>>

judging == bot.listed[Len(bot.rows) + 1]

\* One patch; its dir is read now, and is gone if the patch was retired since.
ClassifyPatch(lost) ==
  /\ bot # Idle /\ bot.at = "classify" /\ Len(bot.rows) < Len(bot.listed)
  /\ \E i \in 1..Len(manifest) : manifest[i] = judging
  /\ LET h == patchdir[judging] IN
       /\ lost \subseteq ManifestSites(h)
       /\ lost # {} => Cardinality({i \in 1..Len(bot.rows) : bot.rows[i].lost # {}}) < MaxLost
       /\ bot' = [bot EXCEPT !.rows = Append(@,
            [id |-> judging, cls |-> ClassOf(h, bot.from, bot.to, lost),
             hash |-> h, lost |-> lost])]
  /\ UNCHANGED <<series, pin, report, bundles, branches>>

\* The report goes to disk before its bundles and its branch do.
WriteReport ==
  /\ bot # Idle /\ bot.at = "classify" /\ Len(bot.rows) = Len(bot.listed)
  /\ report' = [from |-> bot.from, to |-> bot.to, rows |-> bot.rows]
  /\ bundles' = {}
  /\ bot' = CASE VerdictOf(bot.rows) # "GREEN" -> [bot EXCEPT !.at = "route"]
              [] VerdictOf(bot.rows) = "GREEN" /\ ~bot.dry -> [bot EXCEPT !.at = "branch"]
              [] OTHER -> Idle
  /\ UNCHANGED <<series, pin, branches>>

\* issues.route's filter
Routed(cls) == cls \in {"textual-drift", "file-moved", "semantic", "file-deleted", "stale-base"}

RouteIssues ==
  /\ bot # Idle /\ bot.at = "route"
  /\ bundles' = {bot.rows[i].id : i \in {n \in 1..Len(bot.rows) : Routed(bot.rows[n].cls)}}
  /\ bot' = Idle
  /\ UNCHANGED <<series, pin, report, branches>>

\* A DEPS at the target already is taken for a pattern that drifted: an error.
PrepareBranch ==
  /\ bot # Idle /\ bot.at = "branch"
  /\ branches' = IF bot.to # pin THEN branches \cup {bot.to} ELSE branches
  /\ bot' = Idle
  /\ UNCHANGED <<series, pin, report, bundles>>

\* A fetch at the pin fails, a dir is gone, or the process dies.
RunEnds ==
  /\ bot # Idle
  /\ bot' = Idle
  /\ UNCHANGED <<series, pin, report, bundles, branches>>

-----------------------------------------------------------------------------
\* People, at any time: the bot takes no lock.

EditPatch(p, h) ==
  /\ h # patchdir[p]
  /\ patchdir' = [patchdir EXCEPT ![p] = h]
  /\ UNCHANGED <<manifest, pin, bot, report, bundles, branches>>

Unlist(i) ==
  /\ manifest' = SubSeq(manifest, 1, i - 1) \o SubSeq(manifest, i + 1, Len(manifest))
  /\ UNCHANGED <<patchdir, pin, bot, report, bundles, branches>>

\* A prepared branch is merged, or a refresh made by hand (build/sync.py).
Repin(r) ==
  /\ r # pin
  /\ pin' = r
  /\ UNCHANGED <<series, bot, report, bundles, branches>>

Next ==
  \/ \E to \in Targets, dry \in BOOLEAN : StartRun(to, dry)
  \/ \E lost \in SUBSET Sites : ClassifyPatch(lost)
  \/ WriteReport \/ RouteIssues \/ PrepareBranch \/ RunEnds
  \/ \E p \in Pids : \E h \in ContentsOf[p] : EditPatch(p, h)
  \/ \E i \in 1..Len(manifest) : Unlist(i)
  \/ \E r \in Revs : Repin(r)

Spec == Init /\ [][Next]_vars

-----------------------------------------------------------------------------
\* What the applicator does with a series at a fresh src/ (build/patching/apply.py).

\* The text of a site when file n of the i-th patch's dir has its turn.
TextBefore(listed, dirs, r, i, n, s) ==
  Base[r][s] \cup
    UNION {{f \in FileSet(dirs[listed[a]]) : s \in Touches[f]} : a \in 1..(i - 1)} \cup
    {FilesOf[dirs[listed[i]]][b] : b \in {m \in 1..(n - 1) :
       s \in Touches[FilesOf[dirs[listed[i]]][m]]}}

\* Every file of every dir, in order, finds the text it was cut against.
SeriesApplies(listed, dirs, r) ==
  \A i \in 1..Len(listed) : \A n \in 1..Len(FilesOf[dirs[listed[i]]]) :
    LET f == FilesOf[dirs[listed[i]]][n] IN
      \A s \in Touches[f] : TextBefore(listed, dirs, r, i, n, s) = Below[f][s]

-----------------------------------------------------------------------------
\* Properties.

Green == report # NoReport /\ VerdictOf(report.rows) = "GREEN"

\* The report judged the series as it is now.
UpToDate ==
  /\ report # NoReport
  /\ Len(report.rows) = Len(manifest)
  /\ \A i \in 1..Len(manifest) :
       report.rows[i].id = manifest[i] /\ report.rows[i].hash = patchdir[manifest[i]]

\* A patch adds a file, and whether upstream has it could not be seen.
Blind(row) == row.lost \cap Added(row.hash, report.from) # {}

\* A GREEN report of the series as it is, with nothing in it that the bot does not
\* look at: the second and later files of a dir, patches that meet, and an added
\* file whose fetch at the target failed.
GreenInSight ==
  /\ Green /\ UpToDate
  /\ \A i \in 1..Len(report.rows) :
       ~Blind(report.rows[i]) /\ Len(FilesOf[report.rows[i].hash]) = 1
  /\ Disjoint(manifest, patchdir)

\* GREEN: "all patches apply cleanly at the target rev" (classify.py:265): a series
\* whose current state was judged GREEN is applied whole to a fresh src/ at the
\* target, whatever was edited or re-pinned meanwhile, within what the bot looks at.
GreenMeansApplies == GreenInSight => SeriesApplies(manifest, patchdir, report.to)

\* No false alarm: a report that is not GREEN, of a run that lost no fetch, has a
\* patch with a file that does not apply to upstream's text, at the pin or at the
\* target.
NoFalseAlarm ==
  report # NoReport /\ ~Green /\ (\A i \in 1..Len(report.rows) : report.rows[i].lost = {})
  => \E i \in 1..Len(report.rows) : \E f \in FileSet(report.rows[i].hash) :
       ~AppliesAt(f, report.from) \/ ~AppliesAt(f, report.to)

\* "On any non-GREEN verdict, issues.route() writes one bundle per conflicting
\* patch" (docs/contracts/patch-ledger-v1.md:50).
ConflictsAreRouted ==
  [][ RouteIssues => \A i \in 1..Len(bot.rows) :
        bot.rows[i].cls # "clean" => bot.rows[i].id \in bundles' ]_vars

\* "GREEN: every patch applies cleanly" (docs/contracts/patch-ledger-v1.md:43),
\* said of each patch's first file and upstream's own text.
GreenIsClean ==
  Green => \A i \in 1..Len(report.rows) : AppliesAt(FirstFile(report.rows[i].hash), report.to)
=============================================================================
