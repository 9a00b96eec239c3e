----------------------------- MODULE PatchApply -----------------------------
(***************************************************************************)
(* xr-patch apply / verify / revert (build/patching/apply.py): one run at  *)
(* a time over a Chromium tree, with its in-memory copy of the ledger      *)
(* (`applied`), the ledger on disk, and what may happen to either between  *)
(* runs.                                                                   *)
(*                                                                         *)
(* The series, the upstream text and what `git apply` makes of both are    *)
(* described in Series.                                                    *)
(***************************************************************************)
EXTENDS Series

CONSTANTS
  NoRow,       \* "this id has no ledger row"
  Torn         \* a ledger file that does not parse

VARIABLES
  tree,        \* [Sites -> SUBSET Changes], the working tree under src/
  head,        \* src's HEAD; a run whose --pin is another rev is refused
  manifest,    \* ids in manifest order
  patchdir,    \* [Pids -> Hashes]: current content of each patch dir
  ledger,      \* .xr/patch-apply.json: rows by id, or Torn
  pc,          \* where the run is; "idle" when none is
  cmd,         \* the run's subcommand
  chosen,      \* select_patches(): the ids this run visits, in order
  k,           \* index in chosen of the patch being visited
  j,           \* index in its patch files of the next one to handle
  applied,     \* the run's in-memory ledger
  exit         \* how the last run ended

persistent == <<tree, head, manifest, patchdir, ledger>>
run == <<pc, cmd, chosen, k, j, applied, exit>>
vars == <<persistent, run>>

Rows == [rev : Revs, hash : Hashes]
Ledgers == [Pids -> Rows \cup {NoRow}]
EmptyLedger == [p \in Pids |-> NoRow]

ASSUME LedgerAssumption ==
  /\ NoRow \notin Rows
  /\ Torn \notin Ledgers

TypeOK ==
  /\ tree \in [Sites -> SUBSET Changes]
  /\ head \in Revs
  /\ manifest \in Seq(Pids)
  /\ patchdir \in [Pids -> Hashes]
  /\ \A p \in Pids : patchdir[p] \in ContentsOf[p]
  /\ ledger \in Ledgers \cup {Torn}
  /\ ledger # Torn =>
       \A p \in Pids : ledger[p] # NoRow => ledger[p].hash \in ContentsOf[p]
  /\ pc \in {"idle", "patch", "file", "write"}
  /\ cmd \in {"apply", "verify", "revert"}
  /\ chosen \in Seq(Pids)
  /\ k \in Nat
  /\ pc \in {"patch", "file", "write"} => k \in 1..(Len(chosen) + 1)
  /\ pc = "file" => k \in 1..Len(chosen) /\ cmd # "verify"
  /\ j \in Nat
  /\ pc = "file" => j \in 0..(Len(FilesOf[patchdir[chosen[k]]]) + 1)
  /\ pc = "file" /\ cmd = "apply" => j >= 1
  /\ pc = "file" /\ cmd = "revert" => j <= Len(FilesOf[patchdir[chosen[k]]])
  /\ applied \in Ledgers
  /\ \A p \in Pids : applied[p] # NoRow => applied[p].hash \in ContentsOf[p]
  /\ exit \in {"none", "ok", "failed", "killed"}

Init ==
  /\ head \in Revs
  /\ tree = Base[head]
  /\ manifest = Manifest0
  /\ patchdir \in {d \in [Pids -> Hashes] : \A p \in Pids : d[p] \in ContentsOf[p]}
  /\ ledger = EmptyLedger
  /\ pc = "idle" /\ cmd = "verify" /\ chosen = <<>> /\ k = 1 /\ j = 0
  /\ applied = EmptyLedger /\ exit = "none"

-----------------------------------------------------------------------------
\* git, as the tool uses it.

\* `git apply --check f`: every hunk finds the text it was cut against.
AppliesCleanly(f) == \A s \in Touches[f] : tree[s] = Below[f][s]

\* Wrong on purpose: the recovery probe without --reverse.
ReversesCleanlyUnreversed(f) == \A s \in Touches[f] : tree[s] = Below[f][s]

\* Wrong on purpose: the probe looks for the change and not for its context.
ReversesCleanlyAnywhere(f) == \A s \in Touches[f] : f \in tree[s]

\* `git apply --reverse --check f`
ReversesCleanly(f) == \A s \in Touches[f] : tree[s] = Below[f][s] \cup {f}

Patched(f) == [s \in Sites |-> IF s \in Touches[f] THEN tree[s] \cup {f} ELSE tree[s]]
Unpatched(f) == [s \in Sites |-> IF s \in Touches[f] THEN tree[s] \ {f} ELSE tree[s]]

-----------------------------------------------------------------------------
\* A run.

pid == chosen[k]                          \* the patch the loop is visiting
content == patchdir[pid]                  \* content_hash(patchdir)
files == FilesOf[content]                 \* patch_files(patchdir)

\* Wrong on purpose: any row counts, whatever content it was written for.
RecordedAnyContent(p) == applied[p] # NoRow

\* The ledger row's content_hash is the content now in the patch dir.
Recorded(p) == applied[p] # NoRow /\ applied[p].hash = patchdir[p]

SelectPatches == {manifest} \cup {<<manifest[i]>> : i \in 1..Len(manifest)}

\* Every way out of cmd() lets go of the in-memory ledger.
Leave(status) ==
  /\ pc' = "idle" /\ exit' = status
  /\ cmd' = "verify" /\ chosen' = <<>> /\ k' = 1 /\ j' = 0
  /\ applied' = EmptyLedger

Start(c, sel) ==
  /\ pc = "idle"
  /\ manifest # <<>>                      \* lint_manifest refuses an empty list
  /\ ledger # Torn
  /\ pc' = "patch" /\ cmd' = c /\ chosen' = sel /\ k' = 1 /\ j' = 0
  /\ applied' = ledger
  /\ exit' = "none"
  /\ UNCHANGED persistent

\* load_ledger raises ToolError on a file that does not parse.
RefuseTorn ==
  /\ pc = "idle" /\ ledger = Torn
  /\ exit' = "failed"
  /\ UNCHANGED <<persistent, pc, cmd, chosen, k, j, applied>>

NextPatch == pc' = "patch" /\ k' = k + 1 /\ j' = 0

\* Wrong on purpose: revert undoes patches the ledger does not list.
VisitNothingUnlisted ==
  \/ cmd = "verify"
  \/ cmd = "apply" /\ Recorded(pid)

\* apply: recorded, a no-op; verify: report only; revert: nothing to undo.
VisitNothing ==
  \/ cmd = "verify"
  \/ cmd = "apply" /\ Recorded(pid)
  \/ cmd = "revert" /\ ~Recorded(pid)

SkipPatch ==
  /\ pc = "patch" /\ k <= Len(chosen)
  /\ VisitNothing
  /\ NextPatch
  /\ UNCHANGED <<persistent, cmd, chosen, applied, exit>>

\* Wrong on purpose: revert starts one past the last patch file.
OpenPatchPastEnd ==
  /\ pc = "patch" /\ k <= Len(chosen)
  /\ ~VisitNothing
  /\ pc' = "file"
  /\ j' = IF cmd = "apply" THEN 1 ELSE Len(files) + 1
  /\ UNCHANGED <<persistent, cmd, chosen, k, applied, exit>>

\* apply walks the patch files forwards, revert backwards.
OpenPatch ==
  /\ pc = "patch" /\ k <= Len(chosen)
  /\ ~VisitNothing
  /\ pc' = "file"
  /\ j' = IF cmd = "apply" THEN 1 ELSE Len(files)
  /\ UNCHANGED <<persistent, cmd, chosen, k, applied, exit>>

ApplyFile ==
  /\ pc = "file" /\ cmd = "apply" /\ j <= Len(files)
  /\ AppliesCleanly(files[j])
  /\ tree' = Patched(files[j])
  /\ j' = j + 1
  /\ UNCHANGED <<head, manifest, patchdir, ledger, pc, cmd, chosen, k, applied, exit>>

\* Wrong on purpose: a conflict is taken for "already applied".
RecoverFileUnchecked ==
  /\ pc = "file" /\ cmd = "apply" /\ j <= Len(files)
  /\ ~AppliesCleanly(files[j])
  /\ j' = j + 1
  /\ UNCHANGED <<persistent, pc, cmd, chosen, k, applied, exit>>

\* Wrong on purpose: the probe lacks --check and does reverse the file.
RecoverFileReversing ==
  /\ pc = "file" /\ cmd = "apply" /\ j <= Len(files)
  /\ ~AppliesCleanly(files[j]) /\ ReversesCleanly(files[j])
  /\ tree' = Unpatched(files[j])
  /\ j' = j + 1
  /\ UNCHANGED <<head, manifest, patchdir, ledger, pc, cmd, chosen, k, applied, exit>>

\* Does not apply, but its reversal would: taken as applied already.
RecoverFile ==
  /\ pc = "file" /\ cmd = "apply" /\ j <= Len(files)
  /\ ~AppliesCleanly(files[j]) /\ ReversesCleanly(files[j])
  /\ j' = j + 1
  /\ UNCHANGED <<persistent, pc, cmd, chosen, k, applied, exit>>

\* Returns the failure at once; write_ledger is not reached.
ApplyConflict ==
  /\ pc = "file" /\ cmd = "apply" /\ j <= Len(files)
  /\ ~AppliesCleanly(files[j]) /\ ~ReversesCleanly(files[j])
  /\ Leave("failed")
  /\ UNCHANGED persistent

RecordPatch ==
  /\ pc = "file" /\ cmd = "apply" /\ j > Len(files)
  /\ applied' = [applied EXCEPT ![pid] = [rev |-> head, hash |-> content]]
  /\ NextPatch
  /\ UNCHANGED <<persistent, cmd, chosen, exit>>

ReverseFile ==
  /\ pc = "file" /\ cmd = "revert" /\ j >= 1
  /\ ReversesCleanly(files[j])
  /\ tree' = Unpatched(files[j])
  /\ j' = j - 1
  /\ UNCHANGED <<head, manifest, patchdir, ledger, pc, cmd, chosen, k, applied, exit>>

RevertConflict ==
  /\ pc = "file" /\ cmd = "revert" /\ j >= 1
  /\ ~ReversesCleanly(files[j])
  /\ Leave("failed")
  /\ UNCHANGED persistent

ForgetPatch ==
  /\ pc = "file" /\ cmd = "revert" /\ j = 0
  /\ applied' = [applied EXCEPT ![pid] = NoRow]
  /\ NextPatch
  /\ UNCHANGED <<persistent, cmd, chosen, exit>>

\* `git apply` itself fails (disk, permissions) after a clean check.
GitFault ==
  /\ pc = "file" /\ j \in 1..Len(files)
  /\ \/ cmd = "apply" /\ AppliesCleanly(files[j])
     \/ cmd = "revert" /\ ReversesCleanly(files[j])
  /\ Leave("failed")
  /\ UNCHANGED persistent

\* write_text truncates the file and then fills it.
TruncateLedger ==
  /\ pc = "patch" /\ k > Len(chosen)
  /\ ledger' = Torn
  /\ pc' = "write"
  /\ UNCHANGED <<tree, head, manifest, patchdir, cmd, chosen, k, j, applied, exit>>

FillLedger ==
  /\ pc = "write"
  /\ ledger' = applied
  /\ Leave("ok")
  /\ UNCHANGED <<tree, head, manifest, patchdir>>

\* The process dies wherever it is.
Crash ==
  /\ pc # "idle"
  /\ Leave("killed")
  /\ UNCHANGED persistent

RunStep ==
  \/ SkipPatch \/ OpenPatch
  \/ ApplyFile \/ RecoverFile \/ ApplyConflict \/ RecordPatch
  \/ ReverseFile \/ RevertConflict \/ ForgetPatch
  \/ TruncateLedger \/ FillLedger

-----------------------------------------------------------------------------
\* Between runs.

\* A patch dir is re-cut (a rebase): same id, new content.
EditPatch(p, h) ==
  /\ pc = "idle"
  /\ h # patchdir[p]
  /\ patchdir' = [patchdir EXCEPT ![p] = h]
  /\ UNCHANGED <<tree, head, manifest, ledger, run>>

\* xr-patch retire takes the id out of the manifest; the tree is untouched.
Unlist(i) ==
  /\ pc = "idle"
  /\ manifest' = SubSeq(manifest, 1, i - 1) \o SubSeq(manifest, i + 1, Len(manifest))
  /\ UNCHANGED <<tree, head, patchdir, ledger, run>>

\* Someone deletes src/ and sync fetches it again, at the same revision or at
\* another: with src/ gone, sync.py's own guard does not refuse.  <checkout>/.xr, and
\* the ledger in it, live beside src/ and stay.  A sync over a src/ that is there is
\* not this step: gclient is run without --reset and leaves patched files alone.
Recheckout(r) ==
  /\ pc = "idle"
  /\ head' = r
  /\ tree' = Base[r]
  /\ UNCHANGED <<manifest, patchdir, ledger, run>>

\* The ledger is deleted: the way out of a torn one.
DropLedger ==
  /\ pc = "idle"
  /\ ledger' = EmptyLedger
  /\ UNCHANGED <<tree, head, manifest, patchdir, run>>

StartAny ==
  \E c \in {"apply", "verify", "revert"}, sel \in SelectPatches : Start(c, sel)

Between ==
  \/ StartAny \/ RefuseTorn
  \/ \E p \in Pids : \E h \in ContentsOf[p] : EditPatch(p, h)
  \/ \E i \in 1..Len(manifest) : Unlist(i)
  \/ \E r \in Revs : Recheckout(r)
  \/ DropLedger

Next == RunStep \/ GitFault \/ Crash \/ Between

Spec == Init /\ [][Next]_vars

-----------------------------------------------------------------------------
\* Properties.

InTree(f) == \A s \in Touches[f] : f \in tree[s]
Backed(h) == \A f \in FileSet(h) : InTree(f)

\* Every row on disk names content whose patch files are all in the tree.
LedgerBacked ==
  ledger # Torn => \A p \in Pids : ledger[p] # NoRow => Backed(ledger[p].hash)

\* The same of the run's copy; of the patch being reverted, what is left of it.
RunBacked ==
  \A p \in Pids : applied[p] # NoRow =>
    IF pc = "file" /\ cmd = "revert" /\ p = pid
    THEN \A i \in 1..j : InTree(files[i])
    ELSE Backed(applied[p].hash)

\* Every patch of the manifest has a row for the content its dir has now.
AllRecorded ==
  ledger # Torn /\ \A i \in 1..Len(manifest) :
    ledger[manifest[i]] # NoRow /\ ledger[manifest[i]].hash = patchdir[manifest[i]]

\* A revert runs ahead of the ledger until it has written it.
Truthful == RunBacked /\ (cmd # "revert" => LedgerBacked)

\* A ledger that tells the truth keeps telling it through every run of the tool,
\* every crash, fault, loss, re-cut and retirement, with two exceptions that the
\* code leaves open: a revert that stops half way (cmd() returns without
\* write_ledger) and a fresh src/ under an old ledger.
StaysTruthful ==
  [][ /\ Truthful
      /\ ~(cmd = "revert" /\ exit' \in {"failed", "killed"})
      /\ ~(\E r \in Revs : Recheckout(r))
      => Truthful' ]_vars

\* The ledger is read once and stays on disk as it was read until the run rewrites
\* it.  What it said of the patches this run selected was true.
LoadedTruth ==
  \A i \in 1..Len(chosen) : ledger[chosen[i]] # NoRow => Backed(ledger[chosen[i]].hash)

\* An "apply" that gets to writing its rows has every selected patch in the tree with
\* the content its dir has now, whatever crashed, was lost or was re-cut before,
\* provided the rows it loaded told the truth.  Nothing is asked of the rows of its
\* own: a patch file it skipped on the way would be missing here.
AppliedMeansInTree ==
  [][ cmd = "apply" /\ TruncateLedger /\ LoadedTruth
      => \A i \in 1..Len(chosen) : Backed(patchdir[chosen[i]]) ]_vars

\* Where no patch is cut on top of another, a revert whose rows tell the truth is
\* never refused by git, whatever was applied, re-cut or upstreamed before.
RevertCompletes == [][ RevertConflict => ~RunBacked ]_vars

\* "reverse applied patches (reverse order); round-trips to original"
\* (build/patching/apply.py:7): reverting the whole of a series that is
\* applied and recorded is not refused by git.
WholeRevertCompletes ==
  [][ RevertConflict /\ chosen = Manifest0 /\ AllRecorded => ~RunBacked ]_vars

\* No patch is taken out from under another.  Where upstream's own text is whole,
\* every patch file found in it stands on the text it was cut against, and of two
\* at one site one is cut on top of the other: whatever order series, re-cuts,
\* reverts, crashes and lost ledgers brought them in and out.
StacksStand ==
  \A s \in Sites : Base[head][s] \subseteq tree[s] =>
    \A f \in tree[s] \ Base[head][s] :
      /\ Base[head][s] \subseteq Below[f][s] /\ Below[f][s] \subseteq tree[s]
      /\ \A g \in tree[s] \ Base[head][s] :
           f # g => (f \in Below[g][s] <=> g \notin Below[f][s])

\* 'a patch is "applied" iff its content-hash matches at the recorded rev'
\* (docs/contracts/patch-manifest-v1.md:53): a row recorded at another revision than
\* the one checked out is not a reason to skip the patch, so one that is skipped all
\* the same had better be in the tree.
NoOpMatchesRev ==
  [][ cmd = "apply" /\ SkipPatch /\ applied[pid].rev # head => Backed(content) ]_vars

-----------------------------------------------------------------------------
\* Recovery: someone keeps re-running apply and deletes a ledger that does not
\* parse.  Nothing is reverted, re-cut or fetched meanwhile.

RecoveryNext ==
  \/ RunStep \/ GitFault \/ Crash \/ RefuseTorn \/ DropLedger
  \/ \E c \in {"apply", "verify"}, sel \in SelectPatches : Start(c, sel)

RecoverySpec ==
  /\ Init /\ [][RecoveryNext]_vars
  /\ WF_vars(RunStep)
  /\ SF_vars(Start("apply", manifest))
  /\ SF_vars(ledger = Torn /\ DropLedger)

AllInTree == \A i \in 1..Len(manifest) : Backed(patchdir[manifest[i]])

\* Re-running apply never loses ground: no run, fault, crash or lost ledger takes a
\* patch file out of the tree again, be its patch all in or half in.
KeepsGround ==
  [][ \A p \in Pids : \A f \in FileSet(patchdir[p]) : InTree(f) => InTree(f)' ]_vars

\* A series of separate patches cut for the revision src/ is at is never refused by
\* git, whatever the runs before left: a patch half in, files without a row, a torn
\* ledger.  A stack is not like that: its lower patch neither applies nor reverses.
NeverRefused == [][ CutFor(manifest, patchdir, head) => ~ApplyConflict ]_vars

\* Once runs stop dying, re-running apply brings every patch into the tree for
\* good and records it, from whatever point the last death left: half a patch
\* dir applied, applied but not recorded, a torn or a lost ledger.
RecoversFromCrash ==
  <>[][~Crash /\ ~GitFault]_vars => <>[]AllInTree /\ []<>AllRecorded
=============================================================================
