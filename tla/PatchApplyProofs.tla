-------------------------- MODULE PatchApplyProofs --------------------------
(***************************************************************************)
(* Proofs about PatchApply for every series, tree and set of revisions:    *)
(* type correctness, what a run has established so far, and from these the *)
(* two promises of the ledger and, for series without stacking, that a     *)
(* truthful revert is never refused; for every series, that the tree is a  *)
(* stack of changes at each site; and the safety of a recovery, in which   *)
(* apply is only run again.                                                *)
(***************************************************************************)
EXTENDS PatchApply, TLAPS

-----------------------------------------------------------------------------
\* What a run has established.

\* apply: the files of the patch being visited that are behind j are in the tree.
FilesSoFar ==
  pc = "file" /\ cmd = "apply" => \A i \in 1..(j - 1) : InTree(files[i])

\* apply: the patches behind k have a row for their current content.
RecordedSoFar ==
  cmd = "apply" => \A i \in 1..(k - 1) : Recorded(chosen[i])

\* revert: only a recorded patch is being reversed.
RevertsRecorded == pc = "file" /\ cmd = "revert" => Recorded(pid)

RunShape ==
  /\ pc = "write" => k = Len(chosen) + 1
  /\ pc = "idle" => cmd = "verify" /\ applied = EmptyLedger
  /\ pc # "idle" => exit = "none"

IInv == TypeOK /\ RunShape /\ FilesSoFar /\ RecordedSoFar /\ RevertsRecorded

-----------------------------------------------------------------------------

\* The visited patch and its files are what their names say, while the loop is
\* inside chosen.
LEMMA Visited ==
  ASSUME TypeOK, k \in 1..Len(chosen)
  PROVE  /\ pid \in Pids /\ content \in Hashes /\ content \in ContentsOf[pid]
         /\ files \in Seq(Changes) /\ Len(files) \in Nat /\ Len(files) >= 1
         /\ \A i \in 1..Len(files) : files[i] \in Changes
<1>1. pid \in Pids
  BY DEF TypeOK, pid
<1>2. content \in Hashes /\ content \in ContentsOf[pid]
  BY <1>1 DEF TypeOK, content
<1>3. files \in Seq(Changes) \ {<<>>}
  BY <1>2, SeriesAssumption, LedgerAssumption DEF SeriesAssumption, LedgerAssumption, files
<1> QED
  BY <1>1, <1>2, <1>3 DEF files

\* A run that ends lets go of its state in a well-typed way.
LEMMA LeaveType ==
  ASSUME NEW status \in {"ok", "failed", "killed"}, Leave(status)
  PROVE  /\ pc' = "idle" /\ cmd' = "verify" /\ chosen' = <<>> /\ k' = 1 /\ j' = 0
         /\ applied' = EmptyLedger /\ exit' = status
         /\ applied' \in Ledgers /\ \A p \in Pids : applied'[p] = NoRow
BY DEF Leave, EmptyLedger, Ledgers

\* Leaving with the disk untouched preserves the type invariant.
LEMMA LeaveTypeOK ==
  ASSUME TypeOK, NEW status \in {"ok", "failed", "killed"}, Leave(status), UNCHANGED persistent
  PROVE  TypeOK'
<1>1. /\ pc' = "idle" /\ cmd' = "verify" /\ chosen' = <<>> /\ k' = 1 /\ j' = 0
      /\ exit' = status
      /\ applied' \in Ledgers /\ \A p \in Pids : applied'[p] = NoRow
  BY LeaveType
<1>2. UNCHANGED <<tree, head, manifest, patchdir, ledger>>
  BY DEF persistent
<1> QED
  BY <1>1, <1>2 DEF TypeOK

LEMMA InitType == Init => TypeOK
<1> SUFFICES ASSUME Init PROVE TypeOK
  OBVIOUS
<1>1. EmptyLedger \in Ledgers /\ \A p \in Pids : EmptyLedger[p] = NoRow
  BY DEF EmptyLedger, Ledgers
<1>2. tree \in [Sites -> SUBSET Changes]
  BY SeriesAssumption, LedgerAssumption DEF Init, SeriesAssumption, LedgerAssumption
<1> QED
  BY <1>1, <1>2, SeriesAssumption, LedgerAssumption DEF Init, TypeOK, SeriesAssumption, LedgerAssumption

\* Each step of a run preserves the types.
LEMMA RunStepType == TypeOK /\ RunStep => TypeOK'
<1> SUFFICES ASSUME TypeOK, RunStep PROVE TypeOK'
  OBVIOUS
<1>1. CASE SkipPatch
  BY <1>1 DEF SkipPatch, NextPatch, TypeOK, persistent
<1>2. CASE OpenPatch
  <2>1. k \in 1..Len(chosen)
    BY <1>2 DEF OpenPatch, TypeOK
  <2>2. Len(files) \in Nat /\ Len(files) >= 1
    BY <2>1, Visited
  <2>3. cmd # "verify"
    BY <1>2 DEF OpenPatch, VisitNothing
  <2>4. FilesOf[patchdir[chosen[k]]] = files
    BY DEF files, content, pid
  <2> QED
    BY <1>2, <2>1, <2>2, <2>3, <2>4 DEF OpenPatch, TypeOK, persistent
<1>3. CASE ApplyFile
  <2>1. k \in 1..Len(chosen) /\ j \in 1..Len(files)
    BY <1>3, Visited DEF ApplyFile, TypeOK
  <2>2. files[j] \in Changes
    BY <2>1, Visited
  <2>3. tree' \in [Sites -> SUBSET Changes]
    BY <1>3, <2>2 DEF ApplyFile, Patched, TypeOK
  <2>4. FilesOf[patchdir[chosen[k]]] = files
    BY DEF files, content, pid
  <2>5. j + 1 \in 0..(Len(files) + 1)
    BY <2>1, Visited
  <2> QED
    BY <1>3, <2>1, <2>3, <2>4, <2>5 DEF ApplyFile, TypeOK
<1>4. CASE RecoverFile
  <2>1. k \in 1..Len(chosen) /\ j \in 1..Len(files)
    BY <1>4, Visited DEF RecoverFile, TypeOK
  <2>2. FilesOf[patchdir[chosen[k]]] = files
    BY DEF files, content, pid
  <2>3. j + 1 \in 0..(Len(files) + 1)
    BY <2>1, Visited
  <2> QED
    BY <1>4, <2>1, <2>2, <2>3 DEF RecoverFile, TypeOK, persistent
<1>5. CASE ApplyConflict
  BY <1>5, LeaveTypeOK DEF ApplyConflict
<1>6. CASE RecordPatch
  <2>1. k \in 1..Len(chosen) /\ pid \in Pids /\ content \in Hashes /\ content \in ContentsOf[pid]
    BY <1>6, Visited DEF RecordPatch, TypeOK
  <2> DEFINE row == [rev |-> head, hash |-> content]
  <2>2. row \in Rows /\ row.hash \in ContentsOf[pid]
    BY <2>1 DEF Rows, TypeOK
  <2>3. applied' \in Ledgers
    BY <1>6, <2>2 DEF RecordPatch, Ledgers, TypeOK
  <2>4. \A p \in Pids : applied'[p] # NoRow => applied'[p].hash \in ContentsOf[p]
    BY <1>6, <2>1, <2>2 DEF RecordPatch, Ledgers, TypeOK
  <2> HIDE DEF row
  <2> QED
    BY <1>6, <2>1, <2>3, <2>4 DEF RecordPatch, NextPatch, TypeOK, persistent
<1>7. CASE ReverseFile
  <2>1. k \in 1..Len(chosen) /\ j \in 1..Len(files)
    BY <1>7, Visited DEF ReverseFile, TypeOK, files, content, pid
  <2>2. tree' \in [Sites -> SUBSET Changes]
    BY <1>7, <2>1 DEF ReverseFile, Unpatched, TypeOK
  <2>3. FilesOf[patchdir[chosen[k]]] = files
    BY DEF files, content, pid
  <2>4. j - 1 \in 0..Len(files) /\ Len(files) \in Nat
    BY <2>1, Visited
  <2> QED
    BY <1>7, <2>1, <2>2, <2>3, <2>4 DEF ReverseFile, TypeOK
<1>8. CASE RevertConflict
  BY <1>8, LeaveTypeOK DEF RevertConflict
<1>9. CASE ForgetPatch
  <2>1. k \in 1..Len(chosen)
    BY <1>9 DEF ForgetPatch, TypeOK
  <2>2. applied' \in Ledgers
    BY <1>9 DEF ForgetPatch, Ledgers, TypeOK
  <2>3. \A p \in Pids : applied'[p] # NoRow => applied'[p].hash \in ContentsOf[p]
    BY <1>9 DEF ForgetPatch, Ledgers, TypeOK
  <2> QED
    BY <1>9, <2>1, <2>2, <2>3 DEF ForgetPatch, NextPatch, TypeOK, persistent
<1>10. CASE TruncateLedger
  BY <1>10 DEF TruncateLedger, TypeOK
<1>11. CASE FillLedger
  BY <1>11, LeaveType DEF FillLedger, TypeOK
<1> QED
  BY <1>1, <1>2, <1>3, <1>4, <1>5, <1>6, <1>7, <1>8, <1>9, <1>10, <1>11 DEF RunStep

LEMMA SelectType ==
  ASSUME TypeOK, NEW sel \in SelectPatches
  PROVE  sel \in Seq(Pids)
<1>1. CASE sel = manifest
  BY <1>1 DEF TypeOK
<1>2. ASSUME NEW i \in 1..Len(manifest), sel = <<manifest[i]>>
      PROVE  sel \in Seq(Pids)
  <2>1. manifest[i] \in Pids
    BY DEF TypeOK
  <2> QED
    BY <1>2, <2>1
<1> QED
  BY <1>1, <1>2 DEF SelectPatches

\* What happens between runs preserves the types.
LEMMA BetweenType == TypeOK /\ Between => TypeOK'
<1> SUFFICES ASSUME TypeOK, Between PROVE TypeOK'
  OBVIOUS
<1>1. ASSUME NEW c \in {"apply", "verify", "revert"}, NEW sel \in SelectPatches, Start(c, sel)
      PROVE  TypeOK'
  <2>1. sel \in Seq(Pids)
    BY SelectType
  <2>2. ledger \in Ledgers
    BY <1>1 DEF Start, TypeOK
  <2> QED
    BY <1>1, <2>1, <2>2 DEF Start, TypeOK, persistent
<1>2. CASE RefuseTorn
  BY <1>2 DEF RefuseTorn, TypeOK, persistent
<1>3. ASSUME NEW p \in Pids, NEW h \in ContentsOf[p], EditPatch(p, h)
      PROVE  TypeOK'
  <2>1. h \in Hashes
    BY SeriesAssumption, LedgerAssumption DEF SeriesAssumption, LedgerAssumption
  <2>2. patchdir' \in [Pids -> Hashes] /\ \A q \in Pids : patchdir'[q] \in ContentsOf[q]
    BY <1>3, <2>1 DEF EditPatch, TypeOK
  <2>3. pc' = "idle"
    BY <1>3 DEF EditPatch, run
  <2> QED
    BY <1>3, <2>2, <2>3 DEF EditPatch, TypeOK, run
<1>4. ASSUME NEW i \in 1..Len(manifest), Unlist(i)
      PROVE  TypeOK'
  <2>1. manifest' \in Seq(Pids)
    <3>1. SubSeq(manifest, 1, i - 1) \in Seq(Pids)
      BY DEF TypeOK
    <3>2. SubSeq(manifest, i + 1, Len(manifest)) \in Seq(Pids)
      BY DEF TypeOK
    <3> QED
      BY <1>4, <3>1, <3>2 DEF Unlist
  <2> QED
    BY <1>4, <2>1 DEF Unlist, TypeOK, run
<1>5. ASSUME NEW r \in Revs, Recheckout(r)
      PROVE  TypeOK'
  <2>1. Base[r] \in [Sites -> SUBSET Changes]
    BY SeriesAssumption, LedgerAssumption DEF SeriesAssumption, LedgerAssumption
  <2> QED
    BY <1>5, <2>1 DEF Recheckout, TypeOK, run
<1>6. CASE DropLedger
  <2>1. EmptyLedger \in Ledgers /\ \A p \in Pids : EmptyLedger[p] = NoRow
    BY DEF EmptyLedger, Ledgers
  <2> QED
    BY <1>6, <2>1 DEF DropLedger, TypeOK, run
<1> QED
  BY <1>1, <1>2, <1>3, <1>4, <1>5, <1>6 DEF Between, StartAny

LEMMA NextType == TypeOK /\ [Next]_vars => TypeOK'
<1> SUFFICES ASSUME TypeOK, [Next]_vars PROVE TypeOK'
  OBVIOUS
<1>1. CASE RunStep
  BY <1>1, RunStepType
<1>2. CASE GitFault
  BY <1>2, LeaveTypeOK DEF GitFault
<1>3. CASE Crash
  BY <1>3, LeaveTypeOK DEF Crash
<1>4. CASE Between
  BY <1>4, BetweenType
<1>5. CASE UNCHANGED vars
  BY <1>5 DEF vars, persistent, run, TypeOK
<1> QED
  BY <1>1, <1>2, <1>3, <1>4, <1>5 DEF Next

\* The tree, the ledger, the manifest and the run are always well typed; in
\* particular the loop indices of cmd() (apply.py:291-332) never leave the patch
\* list or the file list they walk.
THEOREM TypeCorrect == Spec => []TypeOK
<1>1. Init => TypeOK
  BY InitType
<1>2. TypeOK /\ [Next]_vars => TypeOK'
  BY NextType
<1> QED
  BY <1>1, <1>2, PTL DEF Spec

-----------------------------------------------------------------------------
\* The run invariant.

RunInv == RunShape /\ FilesSoFar /\ RecordedSoFar /\ RevertsRecorded

LEMMA LeaveInv ==
  ASSUME NEW status \in {"ok", "failed", "killed"}, Leave(status)
  PROVE  RunInv'
BY LeaveType DEF RunInv, RunShape, FilesSoFar, RecordedSoFar, RevertsRecorded

LEMMA IdleInv ==
  ASSUME IInv, pc = "idle", UNCHANGED <<pc, cmd, applied>>
  PROVE  RunInv'
BY DEF IInv, RunInv, RunShape, FilesSoFar, RecordedSoFar, RevertsRecorded

LEMMA InitInv == Init => IInv
BY InitType DEF Init, IInv, RunShape, FilesSoFar, RecordedSoFar, RevertsRecorded

\* A change in the tree stays there when another patch file is applied.
LEMMA ApplyKeeps ==
  ASSUME TypeOK, NEW f \in Changes, tree' = Patched(f)
  PROVE  \A g \in Changes : InTree(g) => InTree(g)'
<1> SUFFICES ASSUME NEW g \in Changes, InTree(g) PROVE InTree(g)'
  OBVIOUS
<1>1. Touches[g] \subseteq Sites
  BY SeriesAssumption, LedgerAssumption DEF SeriesAssumption, LedgerAssumption
<1> QED
  BY <1>1 DEF InTree, Patched, TypeOK

LEMMA FileSetChanges ==
  ASSUME NEW h \in Hashes
  PROVE  FileSet(h) \subseteq Changes
<1>1. FilesOf[h] \in Seq(Changes)
  BY SeriesAssumption, LedgerAssumption DEF SeriesAssumption, LedgerAssumption
<1> QED
  BY <1>1 DEF FileSet

LEMMA RunStepInv == IInv /\ RunStep => RunInv'
<1> SUFFICES ASSUME IInv, RunStep PROVE RunInv'
  OBVIOUS
<1> USE DEF IInv
<1>1. CASE SkipPatch
  <2>1. cmd = "apply" => Recorded(pid)
    BY <1>1 DEF SkipPatch, VisitNothing
  <2>2. RecordedSoFar'
    <3>1. k \in Nat /\ k' = k + 1 /\ cmd' = cmd /\ chosen' = chosen
          /\ applied' = applied /\ patchdir' = patchdir
      BY <1>1 DEF SkipPatch, NextPatch, persistent, TypeOK
    <3>2. cmd = "apply" => \A i \in 1..k : Recorded(chosen[i])
      <4> SUFFICES ASSUME cmd = "apply", NEW i \in 1..k PROVE Recorded(chosen[i])
        OBVIOUS
      <4>1. CASE i = k
        BY <2>1, <4>1 DEF pid
      <4>2. CASE i \in 1..(k - 1)
        BY <4>2 DEF RecordedSoFar
      <4> QED
        BY <3>1, <4>1, <4>2
    <3> QED
      BY <3>1, <3>2 DEF RecordedSoFar, Recorded
  <2>3. pc' = "patch" /\ exit' = exit /\ pc = "patch"
    BY <1>1 DEF SkipPatch, NextPatch
  <2> QED
    BY <2>2, <2>3 DEF RunInv, RunShape, FilesSoFar, RevertsRecorded
<1>2. CASE OpenPatch
  <2>1. RecordedSoFar'
    BY <1>2 DEF OpenPatch, RecordedSoFar, Recorded, persistent
  <2>2. FilesSoFar'
    BY <1>2 DEF OpenPatch, FilesSoFar
  <2>3. RevertsRecorded'
    BY <1>2 DEF OpenPatch, RevertsRecorded, Recorded, VisitNothing, persistent, pid
  <2> QED
    BY <1>2, <2>1, <2>2, <2>3 DEF OpenPatch, RunInv, RunShape
<1>3. CASE ApplyFile
  <2>1. k \in 1..Len(chosen) /\ j \in 1..Len(files)
    BY <1>3, Visited DEF ApplyFile, TypeOK
  <2>2. \A i \in 1..Len(files) : files[i] \in Changes
    BY <2>1, Visited
  <2>3. ASSUME NEW i \in 1..j PROVE InTree(files[i])'
    <3>1. files' = files /\ tree' = Patched(files[j])
      BY <1>3 DEF ApplyFile, files, content, pid
    <3>2. files[i] \in Changes /\ files[j] \in Changes
      BY <2>1, <2>2, Visited
    <3>3. CASE i = j
      <4>1. Touches[files[j]] \subseteq Sites
        BY <3>2, SeriesAssumption, LedgerAssumption DEF SeriesAssumption, LedgerAssumption
      <4> QED
        BY <3>1, <3>2, <3>3, <4>1 DEF InTree, Patched
    <3>4. CASE i \in 1..(j - 1)
      <4>1. InTree(files[i])
        BY <1>3, <3>4 DEF ApplyFile, FilesSoFar
      <4>2. \A g \in Changes : InTree(g) => InTree(g)'
        BY <3>1, <3>2, ApplyKeeps
      <4> QED
        BY <3>1, <3>2, <4>1, <4>2 DEF InTree
    <3> QED
      BY <3>3, <3>4, <2>1
  <2>4. FilesSoFar'
    BY <1>3, <2>1, <2>3 DEF ApplyFile, FilesSoFar, TypeOK
  <2>5. RecordedSoFar'
    BY <1>3 DEF ApplyFile, RecordedSoFar, Recorded
  <2> QED
    BY <1>3, <2>4, <2>5 DEF ApplyFile, RunInv, RunShape, RevertsRecorded
<1>4. CASE RecoverFile
  <2>1. k \in 1..Len(chosen) /\ j \in 1..Len(files)
    BY <1>4, Visited DEF RecoverFile, TypeOK
  <2>2. files' = files /\ tree' = tree
    BY <1>4 DEF RecoverFile, persistent, files, content, pid
  <2>3. InTree(files[j])
    BY <1>4 DEF RecoverFile, ReversesCleanly, InTree
  <2>4. \A i \in 1..j : InTree(files[i])
    BY <1>4, <2>1, <2>3 DEF RecoverFile, FilesSoFar
  <2>5. \A i \in 1..j : InTree(files[i])'
    BY <2>2, <2>4 DEF InTree
  <2>6. FilesSoFar'
    BY <1>4, <2>1, <2>5 DEF RecoverFile, FilesSoFar, TypeOK
  <2>7. RecordedSoFar'
    BY <1>4 DEF RecoverFile, RecordedSoFar, Recorded, persistent
  <2> QED
    BY <1>4, <2>6, <2>7 DEF RecoverFile, RunInv, RunShape, RevertsRecorded
<1>5. CASE ApplyConflict
  BY <1>5, LeaveInv DEF ApplyConflict
<1>6. CASE RecordPatch
  <2>1. k \in 1..Len(chosen) /\ pid \in Pids
    BY <1>6, Visited DEF RecordPatch, TypeOK
  <2>2. applied \in [Pids -> Rows \cup {NoRow}]
    BY DEF TypeOK, Ledgers
  <2>3. content \in Hashes /\ head \in Revs
    BY <2>1, Visited DEF TypeOK
  <2> DEFINE row == [rev |-> head, hash |-> content]
  <2>4. row \in Rows /\ row.hash = content
    BY <2>3 DEF Rows
  <2>5. row # NoRow
    BY <2>4, SeriesAssumption, LedgerAssumption DEF SeriesAssumption, LedgerAssumption
  <2>6. applied' = [applied EXCEPT ![pid] = row] /\ patchdir' = patchdir /\ chosen' = chosen
    BY <1>6 DEF RecordPatch, persistent
  <2> HIDE DEF row
  <2>7. ASSUME NEW i \in 1..k PROVE Recorded(chosen[i])'
    <3>1. chosen[i] \in Pids
      BY <2>1 DEF TypeOK
    <3>2. CASE chosen[i] = pid
      BY <2>1, <2>2, <2>4, <2>5, <2>6, <3>1, <3>2 DEF Recorded, content
    <3>3. CASE chosen[i] # pid
      <4>1. i \in 1..(k - 1)
        BY <2>1, <3>3 DEF pid
      <4>2. Recorded(chosen[i])
        BY <4>1, <1>6 DEF RecordPatch, RecordedSoFar
      <4> QED
        BY <2>2, <2>6, <3>1, <3>3, <4>2 DEF Recorded
    <3> QED
      BY <3>2, <3>3
  <2>8. RecordedSoFar'
    BY <1>6, <2>1, <2>7 DEF RecordPatch, NextPatch, RecordedSoFar, TypeOK
  <2> QED
    BY <1>6, <2>8 DEF RecordPatch, NextPatch, RunInv, RunShape, FilesSoFar, RevertsRecorded
<1>7. CASE ReverseFile
  <2>1. RevertsRecorded'
    BY <1>7 DEF ReverseFile, RevertsRecorded, Recorded, pid
  <2> QED
    BY <1>7, <2>1 DEF ReverseFile, RunInv, RunShape, FilesSoFar, RecordedSoFar
<1>8. CASE RevertConflict
  BY <1>8, LeaveInv DEF RevertConflict
<1>9. CASE ForgetPatch
  BY <1>9 DEF ForgetPatch, NextPatch, RunInv, RunShape, FilesSoFar, RecordedSoFar, RevertsRecorded
<1>10. CASE TruncateLedger
  <2>1. k = Len(chosen) + 1
    BY <1>10 DEF TruncateLedger, TypeOK
  <2>2. RecordedSoFar'
    BY <1>10 DEF TruncateLedger, RecordedSoFar, Recorded
  <2> QED
    BY <1>10, <2>1, <2>2 DEF TruncateLedger, RunInv, RunShape, FilesSoFar, RevertsRecorded
<1>11. CASE FillLedger
  BY <1>11, LeaveInv DEF FillLedger
<1> QED
  BY <1>1, <1>2, <1>3, <1>4, <1>5, <1>6, <1>7, <1>8, <1>9, <1>10, <1>11 DEF RunStep

LEMMA BetweenInv == IInv /\ Between => RunInv'
<1> SUFFICES ASSUME IInv, Between PROVE RunInv'
  OBVIOUS
<1>1. ASSUME NEW c \in {"apply", "verify", "revert"}, NEW sel \in SelectPatches, Start(c, sel)
      PROVE  RunInv'
  BY <1>1 DEF Start, RunInv, RunShape, FilesSoFar, RecordedSoFar, RevertsRecorded
<1>2. CASE RefuseTorn
  BY <1>2, IdleInv DEF RefuseTorn
<1>3. ASSUME NEW p \in Pids, NEW h \in ContentsOf[p], EditPatch(p, h)
      PROVE  RunInv'
  BY <1>3, IdleInv DEF EditPatch, run
<1>4. ASSUME NEW i \in 1..Len(manifest), Unlist(i)
      PROVE  RunInv'
  BY <1>4, IdleInv DEF Unlist, run
<1>5. ASSUME NEW r \in Revs, Recheckout(r)
      PROVE  RunInv'
  BY <1>5, IdleInv DEF Recheckout, run
<1>6. CASE DropLedger
  BY <1>6, IdleInv DEF DropLedger, run
<1> QED
  BY <1>1, <1>2, <1>3, <1>4, <1>5, <1>6 DEF Between, StartAny

LEMMA NextInv == IInv /\ [Next]_vars => IInv'
<1> SUFFICES ASSUME IInv, [Next]_vars PROVE IInv'
  OBVIOUS
<1>1. TypeOK'
  BY NextType DEF IInv
<1>2. RunInv'
  <2>1. CASE RunStep
    BY <2>1, RunStepInv
  <2>2. CASE GitFault
    BY <2>2, LeaveInv DEF GitFault
  <2>3. CASE Crash
    BY <2>3, LeaveInv DEF Crash
  <2>4. CASE Between
    BY <2>4, BetweenInv
  <2>5. CASE UNCHANGED vars
    BY <2>5 DEF vars, persistent, run, IInv, RunInv, RunShape, FilesSoFar, RecordedSoFar,
                RevertsRecorded, Recorded, InTree, files, content, pid
  <2> QED
    BY <2>1, <2>2, <2>3, <2>4, <2>5 DEF Next
<1> QED
  BY <1>1, <1>2 DEF IInv, RunInv

LEMMA RunInvariant == Spec => []IInv
<1>1. Init => IInv
  BY InitInv
<1>2. IInv /\ [Next]_vars => IInv'
  BY NextInv
<1> QED
  BY <1>1, <1>2, PTL DEF Spec

-----------------------------------------------------------------------------
\* The ledger tells the truth.

\* Content that was in the tree stays in it as the tree only grows.
LEMMA BackedKept ==
  ASSUME \A g \in Changes : InTree(g) => InTree(g)'
  PROVE  \A h \in Hashes : Backed(h) => Backed(h)'
BY FileSetChanges DEF Backed

LEMMA SameTreeKeeps ==
  ASSUME tree' = tree
  PROVE  \A g \in Changes : InTree(g) => InTree(g)'
BY DEF InTree

\* The rows of a well-typed ledger name hashes.
LEMMA RowHashes ==
  ASSUME TypeOK, NEW p \in Pids
  PROVE  /\ applied[p] # NoRow => applied[p].hash \in Hashes
         /\ ledger # Torn /\ ledger[p] # NoRow => ledger[p].hash \in Hashes
BY DEF TypeOK, Ledgers, Rows

\* As long as the tree only grows, a ledger left alone stays backed.
LEMMA LedgerBackedKept ==
  ASSUME TypeOK, LedgerBacked, ledger' = ledger,
         \A g \in Changes : InTree(g) => InTree(g)'
  PROVE  LedgerBacked'
BY BackedKept, RowHashes DEF LedgerBacked

\* The same of the run's copy, outside the reversal of a patch.
LEMMA RunBackedKept ==
  ASSUME TypeOK, RunBacked, applied' = applied,
         ~(pc = "file" /\ cmd = "revert"), ~(pc' = "file" /\ cmd' = "revert"),
         \A g \in Changes : InTree(g) => InTree(g)'
  PROVE  RunBacked'
<1> SUFFICES ASSUME NEW p \in Pids, applied[p] # NoRow
             PROVE  Backed(applied[p].hash)'
  BY DEF RunBacked
<1>1. Backed(applied[p].hash) /\ applied[p].hash \in Hashes
  BY RowHashes DEF RunBacked
<1> QED
  BY <1>1, BackedKept

\* A run that ends has no copy left to be wrong about.
LEMMA LeaveTruthful ==
  ASSUME NEW status \in {"ok", "failed", "killed"}, Leave(status), LedgerBacked'
  PROVE  Truthful'
BY LeaveType DEF Truthful, RunBacked

\* What is left of the patch under reversal, when git reverses one more file.
LEMMA ReverseKeeps ==
  ASSUME IInv, RunBacked, ReverseFile
  PROVE  RunBacked'
<1>1. k \in 1..Len(chosen) /\ j \in 1..Len(files) /\ pid \in Pids
      /\ content \in Hashes /\ content \in ContentsOf[pid]
      /\ \A i \in 1..Len(files) : files[i] \in Changes
  BY Visited DEF ReverseFile, IInv, TypeOK, files, content, pid
<1>2. /\ files' = files /\ pid' = pid /\ applied' = applied /\ j' = j - 1
      /\ pc' = "file" /\ cmd' = "revert" /\ pc = "file" /\ cmd = "revert"
      /\ tree' = Unpatched(files[j])
  BY DEF ReverseFile, files, content, pid
<1>3. ASSUME NEW g \in Changes, g # files[j], InTree(g)
      PROVE  InTree(g)'
  <2>1. Touches[g] \subseteq Sites
    BY SeriesAssumption, LedgerAssumption DEF SeriesAssumption, LedgerAssumption
  <2> QED
    BY <1>2, <1>3, <2>1 DEF InTree, Unpatched
<1> SUFFICES ASSUME NEW p \in Pids, applied[p] # NoRow
             PROVE  IF p = pid THEN \A i \in 1..(j - 1) : InTree(files[i])'
                    ELSE Backed(applied[p].hash)'
  BY <1>2 DEF RunBacked, InTree
<1>4. CASE p = pid
  <2> SUFFICES ASSUME NEW i \in 1..(j - 1) PROVE InTree(files[i])'
    BY <1>4
  <2>1. InTree(files[i])
    BY <1>1, <1>2, <1>4 DEF RunBacked
  <2>2. files[i] \in Changes /\ files[i] # files[j]
    BY <1>1, SeriesAssumption, LedgerAssumption DEF SeriesAssumption, LedgerAssumption, files
  <2> QED
    BY <1>2, <1>3, <2>1, <2>2 DEF InTree
<1>5. CASE p # pid
  <2>1. applied[p].hash \in ContentsOf[p] /\ applied[p].hash \in Hashes
    BY RowHashes DEF IInv, TypeOK
  <2>2. Backed(applied[p].hash)
    BY <1>5 DEF RunBacked
  <2>3. FileSet(applied[p].hash) \cap FileSet(content) = {}
    BY <1>1, <1>5, <2>1, SeriesAssumption, LedgerAssumption DEF SeriesAssumption, LedgerAssumption
  <2>4. files[j] \in FileSet(content)
    BY <1>1 DEF FileSet, files
  <2>5. FileSet(applied[p].hash) \subseteq Changes
    BY <2>1, FileSetChanges
  <2>6. \A g \in FileSet(applied[p].hash) : InTree(g)'
    BY <1>3, <2>2, <2>3, <2>4, <2>5 DEF Backed
  <2> QED
    BY <1>2, <1>5, <2>6 DEF Backed
<1> QED
  BY <1>4, <1>5

\* One step of a run, unless it is a revert giving up.
LEMMA TruthRunStep ==
  ASSUME IInv, Truthful, RunStep, ~(cmd = "revert" /\ exit' \in {"failed", "killed"})
  PROVE  Truthful'
<1> USE DEF IInv
<1>1. CASE SkipPatch
  <2>1. tree' = tree /\ ledger' = ledger /\ applied' = applied /\ cmd' = cmd
        /\ pc = "patch" /\ pc' = "patch"
    BY <1>1 DEF SkipPatch, NextPatch, persistent
  <2> QED
    BY <2>1, SameTreeKeeps, RunBackedKept, LedgerBackedKept DEF Truthful
<1>2. CASE OpenPatch
  <2>1. tree' = tree /\ ledger' = ledger /\ applied' = applied /\ cmd' = cmd
        /\ pc = "patch" /\ pc' = "file" /\ files' = files /\ pid' = pid
    BY <1>2 DEF OpenPatch, persistent, files, content, pid
  <2>2. RunBacked'
    <3>1. CASE cmd = "apply"
      BY <2>1, <3>1, SameTreeKeeps, RunBackedKept DEF Truthful
    <3>2. CASE cmd = "revert"
      <4>1. Recorded(pid) /\ j' = Len(files)
        BY <1>2, <3>2 DEF OpenPatch, VisitNothing
      <4>2. \A i \in 1..Len(files) : files[i] \in FileSet(applied[pid].hash)
        BY <4>1 DEF Recorded, FileSet, files, content
      <4> QED
        BY <2>1, <4>1, <4>2 DEF Truthful, RunBacked, Backed, InTree
    <3> QED
      BY <1>2, <3>1, <3>2 DEF OpenPatch, VisitNothing, TypeOK
  <2> QED
    BY <2>1, <2>2, SameTreeKeeps, LedgerBackedKept DEF Truthful
<1>3. CASE ApplyFile
  <2>1. k \in 1..Len(chosen) /\ j \in 1..Len(files)
    BY <1>3, Visited DEF ApplyFile, TypeOK
  <2>2. files[j] \in Changes
    BY <2>1, Visited
  <2>3. tree' = Patched(files[j]) /\ ledger' = ledger /\ applied' = applied
        /\ cmd = "apply" /\ cmd' = "apply"
    BY <1>3 DEF ApplyFile
  <2>4. \A g \in Changes : InTree(g) => InTree(g)'
    BY <2>2, <2>3, ApplyKeeps
  <2> QED
    BY <2>3, <2>4, RunBackedKept, LedgerBackedKept DEF Truthful
<1>4. CASE RecoverFile
  <2>1. tree' = tree /\ ledger' = ledger /\ applied' = applied
        /\ cmd = "apply" /\ cmd' = "apply"
    BY <1>4 DEF RecoverFile, persistent
  <2> QED
    BY <2>1, SameTreeKeeps, RunBackedKept, LedgerBackedKept DEF Truthful
<1>5. CASE ApplyConflict
  <2>1. LedgerBacked'
    BY <1>5, SameTreeKeeps, LedgerBackedKept DEF ApplyConflict, Truthful, persistent
  <2> QED
    BY <1>5, <2>1, LeaveTruthful DEF ApplyConflict
<1>6. CASE RecordPatch
  <2>1. k \in 1..Len(chosen) /\ pid \in Pids /\ content \in Hashes
        /\ Len(files) \in Nat /\ head \in Revs
    BY <1>6, Visited DEF RecordPatch, TypeOK
  <2>2. tree' = tree /\ ledger' = ledger /\ cmd' = "apply" /\ cmd = "apply"
        /\ applied' = [applied EXCEPT ![pid] = [rev |-> head, hash |-> content]]
    BY <1>6 DEF RecordPatch, persistent
  <2>3. Backed(content)
    BY <1>6, <2>1 DEF RecordPatch, FilesSoFar, Backed, FileSet, files, TypeOK
  <2>4. ASSUME NEW p \in Pids, applied'[p] # NoRow
        PROVE  Backed(applied'[p].hash)
    BY <2>1, <2>2, <2>3, <2>4 DEF Truthful, RunBacked, TypeOK, Ledgers
  <2>5. RunBacked'
    BY <2>2, <2>4 DEF RunBacked, Backed, InTree
  <2> QED
    BY <2>2, <2>5, SameTreeKeeps, LedgerBackedKept DEF Truthful
<1>7. CASE ReverseFile
  BY <1>7, ReverseKeeps DEF Truthful, ReverseFile
<1>8. CASE RevertConflict
  BY <1>8 DEF RevertConflict, Leave
<1>9. CASE ForgetPatch
  <2>1. pid \in Pids
    BY <1>9, Visited DEF ForgetPatch, TypeOK
  <2>2. tree' = tree /\ cmd' = "revert" /\ pc' = "patch" /\ cmd = "revert" /\ pc = "file"
        /\ applied' = [applied EXCEPT ![pid] = NoRow]
    BY <1>9 DEF ForgetPatch, NextPatch, persistent
  <2>3. ASSUME NEW p \in Pids, applied'[p] # NoRow
        PROVE  Backed(applied'[p].hash)
    BY <2>1, <2>2, <2>3 DEF Truthful, RunBacked, TypeOK, Ledgers
  <2>4. RunBacked'
    BY <2>2, <2>3 DEF RunBacked, Backed, InTree
  <2> QED
    BY <2>2, <2>4 DEF Truthful
<1>10. CASE TruncateLedger
  <2>1. tree' = tree /\ ledger' = Torn /\ applied' = applied /\ pc = "patch" /\ pc' = "write"
    BY <1>10 DEF TruncateLedger
  <2> QED
    BY <2>1, SameTreeKeeps, RunBackedKept DEF Truthful, LedgerBacked
<1>11. CASE FillLedger
  <2>1. tree' = tree /\ ledger' = applied /\ pc = "write"
    BY <1>11 DEF FillLedger
  <2>2. LedgerBacked'
    BY <2>1 DEF Truthful, RunBacked, LedgerBacked, Backed, InTree
  <2> QED
    BY <1>11, <2>2, LeaveTruthful DEF FillLedger
<1> QED
  BY <1>1, <1>2, <1>3, <1>4, <1>5, <1>6, <1>7, <1>8, <1>9, <1>10, <1>11 DEF RunStep

\* A run that starts copies the ledger it found.
LEMMA TruthStart ==
  ASSUME IInv, Truthful, NEW c, NEW sel, Start(c, sel)
  PROVE  Truthful'
<1>1. tree' = tree /\ ledger' = ledger /\ applied' = ledger /\ pc' = "patch"
      /\ ledger # Torn /\ LedgerBacked
  BY DEF Start, persistent, Truthful, IInv, RunShape
<1>2. RunBacked'
  BY <1>1 DEF RunBacked, LedgerBacked, Backed, InTree
<1> QED
  BY <1>1, <1>2, SameTreeKeeps, LedgerBackedKept DEF Truthful, IInv

\* Between runs, an empty ledger is as truthful as the one it replaces.
LEMMA TruthIdle ==
  ASSUME IInv, Truthful, tree' = tree, ledger' = ledger \/ ledger' = EmptyLedger,
         UNCHANGED <<pc, cmd, applied>>, pc = "idle"
  PROVE  Truthful'
<1> USE DEF IInv
<1>1. LedgerBacked'
  <2>1. CASE ledger' = ledger
    BY <2>1, SameTreeKeeps, LedgerBackedKept DEF Truthful, RunShape
  <2>2. CASE ledger' = EmptyLedger
    BY <2>2 DEF LedgerBacked, EmptyLedger
  <2> QED
    BY <2>1, <2>2
<1> QED
  BY <1>1, SameTreeKeeps, RunBackedKept DEF Truthful

\* A run that stops without writing, unless it is a revert.
LEMMA TruthLeave ==
  ASSUME IInv, Truthful, cmd # "revert", NEW status \in {"failed", "killed"}, Leave(status),
         UNCHANGED persistent
  PROVE  Truthful'
<1>1. LedgerBacked'
  BY SameTreeKeeps, LedgerBackedKept DEF Truthful, persistent, IInv
<1> QED
  BY <1>1, LeaveTruthful

\* What happens between runs, unless src/ is replaced.
LEMMA TruthBetween ==
  ASSUME IInv, Truthful, Between, ~(\E r \in Revs : Recheckout(r))
  PROVE  Truthful'
<1>1. ASSUME NEW c \in {"apply", "verify", "revert"}, NEW sel \in SelectPatches, Start(c, sel)
      PROVE  Truthful'
  BY <1>1, TruthStart
<1>2. CASE RefuseTorn
  BY <1>2, TruthIdle DEF RefuseTorn, persistent
<1>3. ASSUME NEW p \in Pids, NEW h \in ContentsOf[p], EditPatch(p, h)
      PROVE  Truthful'
  BY <1>3, TruthIdle DEF EditPatch, run
<1>4. ASSUME NEW i \in 1..Len(manifest), Unlist(i)
      PROVE  Truthful'
  BY <1>4, TruthIdle DEF Unlist, run
<1>5. CASE DropLedger
  BY <1>5, TruthIdle DEF DropLedger, run
<1> QED
  BY <1>1, <1>2, <1>3, <1>4, <1>5 DEF Between, StartAny

LEMMA TruthStep ==
  ASSUME IInv, [Next]_vars
  PROVE  /\ Truthful
         /\ ~(cmd = "revert" /\ exit' \in {"failed", "killed"})
         /\ ~(\E r \in Revs : Recheckout(r))
         => Truthful'
<1> SUFFICES ASSUME Truthful, ~(cmd = "revert" /\ exit' \in {"failed", "killed"}),
                    ~(\E r \in Revs : Recheckout(r))
             PROVE  Truthful'
  OBVIOUS
<1>1. CASE RunStep
  BY <1>1, TruthRunStep
<1>2. ASSUME NEW status \in {"failed", "killed"}, Leave(status), UNCHANGED persistent
      PROVE  Truthful'
  <2>1. cmd # "revert"
    BY <1>2 DEF Leave
  <2> QED
    BY <1>2, <2>1, TruthLeave
<1>3. CASE GitFault
  BY <1>2, <1>3 DEF GitFault
<1>4. CASE Crash
  BY <1>2, <1>4 DEF Crash
<1>5. CASE Between
  BY <1>5, TruthBetween
<1>6. CASE UNCHANGED vars
  BY <1>6 DEF vars, persistent, run, Truthful, RunBacked, LedgerBacked, Backed, InTree,
              files, content, pid
<1> QED
  BY <1>1, <1>3, <1>4, <1>5, <1>6 DEF Next

\* Of every series, every tree and every revision: a truthful ledger stays
\* truthful but for a revert that gives up and a fresh src/ (apply.py:251-336).
THEOREM LedgerStaysTruthful == Spec => StaysTruthful
<1>1. IInv /\ [Next]_vars =>
        [/\ Truthful
         /\ ~(cmd = "revert" /\ exit' \in {"failed", "killed"})
         /\ ~(\E r \in Revs : Recheckout(r))
         => Truthful']_vars
  BY TruthStep
<1> QED
  BY <1>1, RunInvariant, PTL DEF Spec, StaysTruthful

-----------------------------------------------------------------------------
\* A successful apply.

\* apply: the ledger is as it was loaded, and where the run's copy has departed from
\* it, the run has seen every file of the row's content into the tree.
AsLoaded ==
  pc \in {"patch", "file"} /\ cmd = "apply" =>
    /\ ledger # Torn
    /\ \A p \in Pids : applied[p] = ledger[p] \/ (applied[p] # NoRow /\ Backed(applied[p].hash))

LEMMA AsLoadedStep ==
  ASSUME IInv, AsLoaded, [Next]_vars
  PROVE  AsLoaded'
<1> USE DEF IInv
<1>1. ASSUME tree' = tree, ledger' = ledger, applied' = applied, cmd' = cmd,
             pc \in {"patch", "file"}
      PROVE  AsLoaded'
  BY <1>1 DEF AsLoaded, Backed, InTree
<1>2. CASE ApplyFile
  <2>1. k \in 1..Len(chosen) /\ j \in 1..Len(files)
    BY <1>2, Visited DEF ApplyFile, TypeOK
  <2>2. files[j] \in Changes
    BY <2>1, Visited
  <2>3. \A g \in Changes : InTree(g) => InTree(g)'
    BY <1>2, <2>2, ApplyKeeps DEF ApplyFile
  <2>4. /\ pc = "file" /\ cmd = "apply" /\ UNCHANGED <<ledger, applied, cmd, pc>>
        /\ ledger # Torn
    BY <1>2 DEF ApplyFile, AsLoaded
  <2>5. ASSUME NEW p \in Pids, applied[p] # ledger[p]
        PROVE  applied[p] # NoRow /\ Backed(applied[p].hash)'
    <3>1. applied[p] # NoRow /\ Backed(applied[p].hash)
      BY <2>4, <2>5 DEF AsLoaded
    <3>2. FileSet(applied[p].hash) \subseteq Changes
      BY <3>1, RowHashes, FileSetChanges
    <3> QED  BY <2>3, <2>4, <3>1, <3>2 DEF Backed
  <2> QED  BY <2>4, <2>5 DEF AsLoaded
<1>3. CASE RecordPatch
  <2>1. /\ k \in 1..Len(chosen) /\ pid \in Pids /\ content \in Hashes
        /\ Len(files) \in Nat /\ head \in Revs
    BY <1>3, Visited DEF RecordPatch, TypeOK
  <2>2. /\ tree' = tree /\ ledger' = ledger /\ pc = "file" /\ cmd = "apply"
        /\ applied' = [applied EXCEPT ![pid] = [rev |-> head, hash |-> content]]
    BY <1>3 DEF RecordPatch, persistent
  <2>3. Backed(content)
    BY <1>3, <2>1 DEF RecordPatch, FilesSoFar, Backed, FileSet, files, TypeOK
  <2>4. /\ [rev |-> head, hash |-> content] \in Rows
        /\ applied'[pid] = [rev |-> head, hash |-> content]
        /\ \A p \in Pids \ {pid} : applied'[p] = applied[p]
    BY <2>1, <2>2 DEF TypeOK, Ledgers, Rows
  <2>5. \A p \in Pids : applied'[p] = ledger[p] \/ (applied'[p] # NoRow /\ Backed(applied'[p].hash))
    BY <2>2, <2>3, <2>4, LedgerAssumption DEF AsLoaded, LedgerAssumption
  <2> QED  BY <2>2, <2>5 DEF AsLoaded, Backed, InTree
<1>4. ASSUME NEW c \in {"apply", "verify", "revert"}, NEW sel \in SelectPatches, Start(c, sel)
      PROVE  AsLoaded'
  BY <1>4 DEF Start, AsLoaded, persistent
<1>5. ASSUME pc' \notin {"patch", "file"} \/ cmd' # "apply"
      PROVE  AsLoaded'
  BY <1>5 DEF AsLoaded
<1>6. CASE pc = "idle" /\ pc' = pc
  BY <1>5, <1>6
<1>7. CASE UNCHANGED vars
  BY <1>7 DEF vars, persistent, run, AsLoaded, Backed, InTree
<1>8. CASE RunStep
  <2>1. CASE SkipPatch \/ OpenPatch \/ RecoverFile
    BY <1>1, <2>1 DEF SkipPatch, OpenPatch, RecoverFile, NextPatch, persistent
  <2>2. CASE ReverseFile \/ ForgetPatch
    BY <1>5, <2>2 DEF ReverseFile, ForgetPatch
  <2>3. CASE ApplyConflict \/ RevertConflict \/ TruncateLedger \/ FillLedger
    BY <1>5, <2>3 DEF ApplyConflict, RevertConflict, TruncateLedger, FillLedger, Leave
  <2> QED  BY <1>2, <1>3, <1>8, <2>1, <2>2, <2>3 DEF RunStep
<1>9. CASE GitFault \/ Crash
  BY <1>5, <1>9 DEF GitFault, Crash, Leave
<1>10. CASE Between
  BY <1>4, <1>6, <1>10
     DEF Between, StartAny, RefuseTorn, EditPatch, Unlist, Recheckout, DropLedger, run
<1> QED  BY <1>7, <1>8, <1>9, <1>10 DEF Next

\* A patch behind k was recorded for its current content: by this run, or before it.
LEMMA WrittenStep ==
  ASSUME IInv, AsLoaded, cmd = "apply", TruncateLedger, LoadedTruth, NEW i \in 1..Len(chosen)
  PROVE  Backed(patchdir[chosen[i]])
<1>1. pc = "patch" /\ i \in 1..(k - 1) /\ chosen[i] \in Pids
  BY DEF TruncateLedger, IInv, TypeOK
<1>2. applied[chosen[i]] # NoRow /\ applied[chosen[i]].hash = patchdir[chosen[i]]
  BY <1>1 DEF IInv, RecordedSoFar, Recorded
<1>3. CASE applied[chosen[i]] = ledger[chosen[i]]
  BY <1>2, <1>3 DEF LoadedTruth
<1>4. CASE Backed(applied[chosen[i]].hash)
  BY <1>2, <1>4
<1> QED  BY <1>1, <1>3, <1>4 DEF AsLoaded

\* An apply that reaches its last write (apply.py:291-335) has brought what it selected
\* into the tree, for every series, on a ledger that was true of those patches when
\* it was read: whatever crashes, losses and re-cuts came before.
THEOREM AppliedIsInTree == Spec => AppliedMeansInTree
<1>1. Init => AsLoaded
  BY DEF Init, AsLoaded
<1>2. IInv /\ AsLoaded /\ [Next]_vars => AsLoaded'
  BY AsLoadedStep
<1>3. IInv /\ AsLoaded /\ [Next]_vars =>
        [ cmd = "apply" /\ TruncateLedger /\ LoadedTruth
          => \A i \in 1..Len(chosen) : Backed(patchdir[chosen[i]]) ]_vars
  BY WrittenStep
<1> QED
  BY <1>1, <1>2, <1>3, RunInvariant, PTL DEF Spec, AppliedMeansInTree

\* The same of the exit status, where all the run holds is true to the end: what an
\* invariant of the whole behaviour gives (a recovery, a promotion).
LEMMA AppliedStep ==
  ASSUME IInv, [Next]_vars
  PROVE  cmd = "apply" /\ exit' = "ok" /\ Truthful
         => \A i \in 1..Len(chosen) : Backed(patchdir[chosen[i]])
<1> SUFFICES ASSUME cmd = "apply", exit' = "ok", Truthful, NEW i \in 1..Len(chosen)
             PROVE  Backed(patchdir[chosen[i]])
  OBVIOUS
<1>1. pc # "idle" /\ exit = "none"
  BY DEF IInv, RunShape
\* Only the write at the end of cmd() sets the exit status to "ok".
<1>2. FillLedger
  <2>1. ~Between
    BY <1>1 DEF Between, StartAny, Start, RefuseTorn, EditPatch, Unlist, Recheckout, DropLedger
  <2>2. ~GitFault /\ ~Crash
    BY DEF GitFault, Crash, Leave
  <2>3. ~(UNCHANGED vars)
    BY <1>1 DEF vars, run
  <2>4. RunStep
    BY <2>1, <2>2, <2>3 DEF Next
  <2> QED
    BY <1>1, <2>4 DEF RunStep, SkipPatch, OpenPatch, ApplyFile, RecoverFile, ApplyConflict,
       RecordPatch, ReverseFile, RevertConflict, ForgetPatch, TruncateLedger, Leave
<1>3. pc = "write" /\ k = Len(chosen) + 1
  BY <1>2 DEF FillLedger, IInv, RunShape
<1>4. Recorded(chosen[i])
  BY <1>3 DEF IInv, RecordedSoFar, TypeOK
<1>5. chosen[i] \in Pids
  BY DEF IInv, TypeOK
<1> QED
  BY <1>3, <1>4, <1>5 DEF Truthful, RunBacked, Recorded

-----------------------------------------------------------------------------
\* Reverting a series in which nothing is cut on top of anything else.

PatchFiles == UNION {FileSet(h) : h \in Hashes}

\* No patch file's context shows another patch file's change, and where upstream
\* has taken a change it reads as the patch would have left it.
Unstacked ==
  \A f \in PatchFiles : \A s \in Touches[f] :
    /\ Below[f][s] \cap PatchFiles = {}
    /\ \A r \in Revs : f \in Base[r][s] => Base[r][s] = Below[f][s] \cup {f}

\* Each patch file in the tree lies on top, where its reversal applies.
OnTop ==
  \A f \in PatchFiles : \A s \in Touches[f] :
    f \in tree[s] => tree[s] = Below[f][s] \cup {f}

LEMMA PatchFilesChanges == PatchFiles \subseteq Changes
BY FileSetChanges DEF PatchFiles

LEMMA VisitedFile ==
  ASSUME TypeOK, k \in 1..Len(chosen), j \in 1..Len(files)
  PROVE  files[j] \in PatchFiles /\ files[j] \in Changes /\ Touches[files[j]] \subseteq Sites
<1>1. content \in Hashes /\ files[j] \in Changes
  BY Visited
<1>2. files[j] \in PatchFiles
  BY <1>1 DEF PatchFiles, FileSet, files
<1> QED
  BY <1>1, <1>2, SeriesAssumption, LedgerAssumption DEF SeriesAssumption, LedgerAssumption

LEMMA OnTopInit ==
  ASSUME Unstacked, Init
  PROVE  OnTop
BY DEF Unstacked, Init, OnTop

LEMMA OnTopStep ==
  ASSUME Unstacked, TypeOK, OnTop, [Next]_vars
  PROVE  OnTop'
<1>1. CASE tree' = tree
  BY <1>1 DEF OnTop
<1>2. CASE ApplyFile
  <2>1. k \in 1..Len(chosen) /\ j \in 1..Len(files)
    BY <1>2, Visited DEF ApplyFile, TypeOK
  <2>2. files[j] \in PatchFiles /\ files[j] \in Changes /\ Touches[files[j]] \subseteq Sites
    BY <2>1, VisitedFile
  <2> SUFFICES ASSUME NEW g \in PatchFiles, NEW s \in Touches[g], g \in tree'[s]
               PROVE  tree'[s] = Below[g][s] \cup {g}
    BY DEF OnTop
  <2>3. s \in Sites
    BY PatchFilesChanges, SeriesAssumption, LedgerAssumption DEF SeriesAssumption, LedgerAssumption
  <2>4. CASE s \in Touches[files[j]]
    <3>1. tree[s] = Below[files[j]][s] /\ tree'[s] = tree[s] \cup {files[j]}
      BY <1>2, <2>3, <2>4 DEF ApplyFile, AppliesCleanly, Patched
    <3>2. g \notin Below[files[j]][s]
      BY <2>2, <2>4 DEF Unstacked
    <3> QED
      BY <3>1, <3>2
  <2>5. CASE s \notin Touches[files[j]]
    BY <1>2, <2>3, <2>5 DEF ApplyFile, Patched, OnTop
  <2> QED
    BY <2>4, <2>5
<1>3. CASE ReverseFile
  <2>1. k \in 1..Len(chosen) /\ j \in 1..Len(files)
    BY <1>3, Visited DEF ReverseFile, TypeOK, files, content, pid
  <2>2. files[j] \in PatchFiles /\ files[j] \in Changes /\ Touches[files[j]] \subseteq Sites
    BY <2>1, VisitedFile
  <2> SUFFICES ASSUME NEW g \in PatchFiles, NEW s \in Touches[g], g \in tree'[s]
               PROVE  tree'[s] = Below[g][s] \cup {g}
    BY DEF OnTop
  <2>3. s \in Sites
    BY PatchFilesChanges, SeriesAssumption, LedgerAssumption DEF SeriesAssumption, LedgerAssumption
  <2>4. CASE s \in Touches[files[j]]
    <3>1. tree[s] = Below[files[j]][s] \cup {files[j]} /\ tree'[s] = tree[s] \ {files[j]}
      BY <1>3, <2>3, <2>4 DEF ReverseFile, ReversesCleanly, Unpatched
    <3>2. g \notin Below[files[j]][s]
      BY <2>2, <2>4 DEF Unstacked
    <3> QED
      BY <3>1, <3>2
  <2>5. CASE s \notin Touches[files[j]]
    BY <1>3, <2>3, <2>5 DEF ReverseFile, Unpatched, OnTop
  <2> QED
    BY <2>4, <2>5
<1>4. ASSUME NEW r \in Revs, Recheckout(r)
      PROVE  OnTop'
  BY <1>4 DEF Recheckout, OnTop, Unstacked
<1>5. tree' = tree \/ ApplyFile \/ ReverseFile \/ \E r \in Revs : Recheckout(r)
  BY DEF Next, RunStep, Between, StartAny, SkipPatch, OpenPatch, RecoverFile, ApplyConflict,
     RecordPatch, RevertConflict, ForgetPatch, TruncateLedger, FillLedger, GitFault, Crash,
     Start, RefuseTorn, EditPatch, Unlist, DropLedger, persistent, vars
<1> QED
  BY <1>1, <1>2, <1>3, <1>4, <1>5

LEMMA RevertStep ==
  ASSUME IInv, OnTop, RevertConflict
  PROVE  ~RunBacked
<1> SUFFICES ASSUME RunBacked PROVE FALSE
  OBVIOUS
<1>1. k \in 1..Len(chosen) /\ j \in 1..Len(files) /\ pid \in Pids
  BY Visited DEF RevertConflict, IInv, TypeOK, files, content, pid
<1>2. applied[pid] # NoRow
  BY DEF RevertConflict, IInv, RevertsRecorded, Recorded
<1>3. InTree(files[j])
  BY <1>1, <1>2 DEF RevertConflict, RunBacked
<1>4. ReversesCleanly(files[j])
  BY <1>1, <1>3, VisitedFile DEF IInv, OnTop, InTree, ReversesCleanly
<1> QED
  BY <1>4 DEF RevertConflict

\* Without stacking, revert (apply.py:322-332) is refused by git only when the
\* rows it started from were wrong already.
THEOREM UnstackedReverts ==
  ASSUME Unstacked
  PROVE  Spec => RevertCompletes
<1>1. Init => OnTop
  BY OnTopInit
<1>2. IInv /\ OnTop /\ [Next]_vars => OnTop'
  BY OnTopStep DEF IInv
<1>3. IInv /\ OnTop => [ RevertConflict => ~RunBacked ]_vars
  BY RevertStep
<1> QED
  BY <1>1, <1>2, <1>3, RunInvariant, PTL DEF Spec, RevertCompletes

-----------------------------------------------------------------------------
\* A site is a stack of changes over upstream's text.

\* y is in the text that the first n of the changes q, each put in or taken out
\* once, make of B.
Shows(B, q, n, y) == ~(y \in B <=> \E a \in 1..n : q[a] = y)

\* The changes q[1], ..., q[n], each against the text the ones before it made of
\* B, made t of it at site s.
StackOver(B, s, n, q, t) ==
  /\ \A a, b \in 1..n : q[a] = q[b] => a = b
  /\ \A i \in 1..n : \A y \in Changes :
       y \in Below[q[i]][s] <=> y # q[i] /\ Shows(B, q, i - 1, y)
  /\ \A y \in Changes : y \in t <=> Shows(B, q, n, y)

Stacked(B, s, t) == \E n \in Nat : \E q \in [1..n -> Changes] : StackOver(B, s, n, q, t)

\* At every site, the tree is such a stack over upstream's text.
Stacks == \A s \in Sites : Stacked(Base[head][s], s, tree[s])

\* Upstream's text is the empty stack.
LEMMA EmptyStack ==
  ASSUME NEW B \in SUBSET Changes, NEW s \in Sites
  PROVE  Stacked(B, s, B)
<1> DEFINE q == [i \in 1..0 |-> i]
<1>1. q \in [1..0 -> Changes]
  OBVIOUS
<1>2. StackOver(B, s, 0, q, B)
  BY DEF StackOver, Shows
<1> HIDE DEF q
<1> QED  BY <1>1, <1>2 DEF Stacked

\* A change that was never moved goes on top.
LEMMA Push ==
  ASSUME NEW B \in SUBSET Changes, NEW s \in Sites, NEW n \in Nat,
         NEW q \in [1..n -> Changes], NEW t \in SUBSET Changes, StackOver(B, s, n, q, t),
         NEW g \in Changes, \A a \in 1..n : q[a] # g,
         NEW u \in SUBSET Changes, t \ {g} = Below[g][s], u \ {g} = Below[g][s],
         g \in t <=> g \notin u
  PROVE  Stacked(B, s, u)
<1> DEFINE p == [i \in 1..(n + 1) |-> IF i = n + 1 THEN g ELSE q[i]]
<1>1. p \in [1..(n + 1) -> Changes] /\ p[n + 1] = g /\ \A i \in 1..n : p[i] = q[i]
  OBVIOUS
<1> HIDE DEF p
<1>2. \A a, b \in 1..(n + 1) : p[a] = p[b] => a = b
  BY <1>1 DEF StackOver
<1>3. ASSUME NEW m \in 0..n, NEW y \in Changes
      PROVE  Shows(B, p, m, y) <=> Shows(B, q, m, y)
  BY <1>1 DEF Shows
<1>4. ASSUME NEW i \in 1..(n + 1), NEW y \in Changes
      PROVE  y \in Below[p[i]][s] <=> y # p[i] /\ Shows(B, p, i - 1, y)
  <2>1. i - 1 \in 0..n
    OBVIOUS
  <2>2. Shows(B, p, i - 1, y) <=> Shows(B, q, i - 1, y)
    BY <1>3, <2>1
  <2>3. CASE i = n + 1
    <3>1. y \in t <=> Shows(B, q, n, y)
      BY DEF StackOver
    <3>2. p[i] = g /\ i - 1 = n
      BY <1>1, <2>3
    <3>3. y \in Below[g][s] <=> y # g /\ y \in t
      OBVIOUS
    <3> QED  BY <2>2, <3>1, <3>2, <3>3
  <2>4. CASE i \in 1..n
    <3>1. p[i] = q[i]
      BY <1>1, <2>4
    <3>2. y \in Below[q[i]][s] <=> y # q[i] /\ Shows(B, q, i - 1, y)
      BY <2>4 DEF StackOver
    <3> QED  BY <2>2, <3>1, <3>2
  <2> QED  BY <2>3, <2>4
<1>5. ASSUME NEW y \in Changes
      PROVE  y \in u <=> Shows(B, p, n + 1, y)
  <2>1. (\E a \in 1..(n + 1) : p[a] = y) <=> y = g \/ \E a \in 1..n : q[a] = y
    BY <1>1
  <2>2. y \in t <=> Shows(B, q, n, y)
    BY DEF StackOver
  <2>3. y # g => (y \in u <=> y \in t)
    OBVIOUS
  <2>4. CASE y # g
    BY <2>1, <2>2, <2>3, <2>4 DEF Shows
  <2>5. CASE y = g
    <3>1. ~(\E a \in 1..n : q[a] = y)
      BY <2>5
    <3>2. y \in t <=> y \in B
      BY <2>2, <3>1 DEF Shows
    <3>3. Shows(B, p, n + 1, y) <=> y \notin B
      BY <2>1, <2>5 DEF Shows
    <3> QED  BY <2>5, <3>2, <3>3
  <2> QED  BY <2>4, <2>5
<1>6. StackOver(B, s, n + 1, p, u)
  BY <1>2, <1>4, <1>5 DEF StackOver
<1> QED  BY <1>1, <1>6 DEF Stacked

\* A change that was moved before is the top one: no other finds its context.
LEMMA Pop ==
  ASSUME NEW B \in SUBSET Changes, NEW s \in Sites, NEW n \in Nat,
         NEW q \in [1..n -> Changes], NEW t \in SUBSET Changes, StackOver(B, s, n, q, t),
         NEW i \in 1..n,
         NEW u \in SUBSET Changes, t \ {q[i]} = Below[q[i]][s], u \ {q[i]} = Below[q[i]][s],
         q[i] \in t <=> q[i] \notin u
  PROVE  Stacked(B, s, u)
<1> DEFINE g == q[i]
<1>1. g \in Changes
  OBVIOUS
<1>2. ASSUME NEW y \in Changes, y # g
      PROVE  Shows(B, q, n, y) <=> Shows(B, q, i - 1, y)
  <2>1. y \in t <=> Shows(B, q, n, y)
    BY DEF StackOver
  <2>2. y \in Below[g][s] <=> y # g /\ Shows(B, q, i - 1, y)
    BY DEF StackOver
  <2>3. y \in Below[g][s] <=> y \in t
    BY <1>2
  <2> QED  BY <1>2, <2>1, <2>2, <2>3
<1>3. i = n
  <2> SUFFICES ASSUME i < n  PROVE FALSE
    OBVIOUS
  <2> DEFINE y == q[i + 1]
  <2>1. i + 1 \in 1..n /\ y \in Changes
    OBVIOUS
  <2>2. y # g /\ ~(\E a \in 1..(i - 1) : q[a] = y)
    BY <2>1 DEF StackOver
  <2>3. \E a \in 1..n : q[a] = y
    BY <2>1
  <2> HIDE DEF y
  <2> QED  BY <1>2, <2>1, <2>2, <2>3 DEF Shows
<1> DEFINE p == [a \in 1..(n - 1) |-> q[a]]
<1>4. n - 1 \in Nat /\ p \in [1..(n - 1) -> Changes] /\ \A a \in 1..(n - 1) : p[a] = q[a]
  BY <1>3
<1> HIDE DEF p
<1>5. ASSUME NEW m \in 0..(n - 1), NEW y \in Changes
      PROVE  Shows(B, p, m, y) <=> Shows(B, q, m, y)
  BY <1>4 DEF Shows
<1>6. \A a, b \in 1..(n - 1) : p[a] = p[b] => a = b
  BY <1>4 DEF StackOver
<1>7. ASSUME NEW a \in 1..(n - 1), NEW y \in Changes
      PROVE  y \in Below[p[a]][s] <=> y # p[a] /\ Shows(B, p, a - 1, y)
  <2>1. Shows(B, p, a - 1, y) <=> Shows(B, q, a - 1, y)
    BY <1>4, <1>5
  <2>2. y \in Below[q[a]][s] <=> y # q[a] /\ Shows(B, q, a - 1, y)
    BY <1>4 DEF StackOver
  <2> QED  BY <1>4, <2>1, <2>2
<1>8. ASSUME NEW y \in Changes
      PROVE  y \in u <=> Shows(B, p, n - 1, y)
  <2>1. Shows(B, p, n - 1, y) <=> Shows(B, q, n - 1, y)
    BY <1>4, <1>5
  <2>2. y \in t <=> Shows(B, q, n, y)
    BY DEF StackOver
  <2>3. CASE y # g
    <3>1. y \in u <=> y \in t
      BY <2>3
    <3>2. Shows(B, q, n, y) <=> Shows(B, q, n - 1, y)
      BY <1>2, <1>3, <2>3
    <3> QED  BY <2>1, <2>2, <3>1, <3>2
  <2>4. CASE y = g
    <3>1. \E a \in 1..n : q[a] = y
      BY <2>4
    <3>2. ~(\E a \in 1..(n - 1) : q[a] = y)
      BY <1>3, <2>4 DEF StackOver
    <3>3. (y \in t <=> y \notin B) /\ (Shows(B, q, n - 1, y) <=> y \in B)
      BY <2>2, <3>1, <3>2 DEF Shows
    <3> QED  BY <2>1, <2>4, <3>3
  <2> QED  BY <2>3, <2>4
<1>9. StackOver(B, s, n - 1, p, u)
  BY <1>6, <1>7, <1>8 DEF StackOver
<1> QED  BY <1>4, <1>9 DEF Stacked

\* git moves one change, in or out, where the text is what it was cut against.
LEMMA Moved ==
  ASSUME NEW B \in SUBSET Changes, NEW s \in Sites, NEW t \in SUBSET Changes,
         Stacked(B, s, t), NEW g \in Changes,
         NEW u \in SUBSET Changes, t \ {g} = Below[g][s], u \ {g} = Below[g][s],
         g \in t <=> g \notin u
  PROVE  Stacked(B, s, u)
<1> PICK n \in Nat : \E q \in [1..n -> Changes] : StackOver(B, s, n, q, t)
  BY DEF Stacked
<1> PICK q \in [1..n -> Changes] : StackOver(B, s, n, q, t)
  OBVIOUS
<1>1. CASE \A a \in 1..n : q[a] # g
  BY <1>1, Push
<1>2. CASE \E a \in 1..n : q[a] = g
  BY <1>2, Pop
<1> QED  BY <1>1, <1>2

\* Only three actions touch the tree.
LEMMA TreeSteps ==
  ASSUME [Next]_vars
  PROVE  \/ tree' = tree /\ head' = head
         \/ ApplyFile \/ ReverseFile
         \/ \E r \in Revs : Recheckout(r)
BY DEF Next, RunStep, Between, StartAny, SkipPatch, OpenPatch, RecoverFile, ApplyConflict,
   RecordPatch, RevertConflict, ForgetPatch, TruncateLedger, FillLedger, GitFault, Crash,
   Start, RefuseTorn, EditPatch, Unlist, DropLedger, persistent, vars

LEMMA StacksInit == Init => Stacks
<1> SUFFICES ASSUME Init, NEW s \in Sites  PROVE Stacked(Base[head][s], s, tree[s])
  BY DEF Stacks
<1>1. Base[head][s] \in SUBSET Changes /\ tree = Base[head]
  BY SeriesAssumption DEF Init
<1> QED  BY <1>1, EmptyStack

LEMMA StacksStep ==
  ASSUME TypeOK, Stacks, [Next]_vars
  PROVE  Stacks'
<1> SUFFICES ASSUME NEW s \in Sites  PROVE Stacked(Base[head'][s], s, tree'[s])
  BY DEF Stacks
<1>1. /\ Base[head][s] \in SUBSET Changes /\ tree[s] \in SUBSET Changes
      /\ Stacked(Base[head][s], s, tree[s])
  BY SeriesAssumption DEF TypeOK, Stacks
<1>2. CASE tree' = tree /\ head' = head
  BY <1>1, <1>2
<1>3. CASE ApplyFile
  <2>1. k \in 1..Len(chosen) /\ j \in 1..Len(files)
    BY <1>3, Visited DEF ApplyFile, TypeOK
  <2> DEFINE g == files[j]
  <2>2. g \in Changes /\ head' = head /\ g \notin Below[g][s]
    BY <1>3, <2>1, VisitedFile, SeriesAssumption DEF ApplyFile
  <2>3. CASE s \in Touches[g]
    <3>1. tree[s] = Below[g][s] /\ tree'[s] = tree[s] \cup {g}
      BY <1>3, <2>3 DEF ApplyFile, AppliesCleanly, Patched
    <3> HIDE DEF g
    <3> QED  BY <1>1, <2>2, <3>1, Moved
  <2>4. CASE s \notin Touches[g]
    BY <1>1, <1>3, <2>2, <2>4 DEF ApplyFile, Patched
  <2> QED  BY <2>3, <2>4
<1>4. CASE ReverseFile
  <2>1. k \in 1..Len(chosen) /\ j \in 1..Len(files)
    BY <1>4, Visited DEF ReverseFile, TypeOK, files, content, pid
  <2> DEFINE g == files[j]
  <2>2. g \in Changes /\ head' = head /\ g \notin Below[g][s]
    BY <1>4, <2>1, VisitedFile, SeriesAssumption DEF ReverseFile
  <2>3. CASE s \in Touches[g]
    <3>1. tree[s] = Below[g][s] \cup {g} /\ tree'[s] = tree[s] \ {g}
      BY <1>4, <2>3 DEF ReverseFile, ReversesCleanly, Unpatched
    <3> HIDE DEF g
    <3> QED  BY <1>1, <2>2, <3>1, Moved
  <2>4. CASE s \notin Touches[g]
    BY <1>1, <1>4, <2>2, <2>4 DEF ReverseFile, Unpatched
  <2> QED  BY <2>3, <2>4
<1>5. ASSUME NEW r \in Revs, Recheckout(r)
      PROVE  Stacked(Base[head'][s], s, tree'[s])
  <2>1. Base[r][s] \in SUBSET Changes
    BY SeriesAssumption
  <2>2. head' = r /\ tree' = Base[r]
    BY <1>5 DEF Recheckout
  <2> QED  BY <2>1, <2>2, EmptyStack
<1> QED  BY <1>2, <1>3, <1>4, <1>5, TreeSteps

\* A stack that has all of upstream's text stands: what is over that text is in
\* the order in which it went in.
LEMMA StackStands ==
  ASSUME NEW B \in SUBSET Changes, NEW s \in Sites, NEW t \in SUBSET Changes,
         Stacked(B, s, t), B \subseteq t, NEW f \in t \ B
  PROVE  /\ B \subseteq Below[f][s] /\ Below[f][s] \subseteq t
         /\ \A g \in t \ B : f # g => (f \in Below[g][s] <=> g \notin Below[f][s])
<1> PICK n \in Nat : \E q \in [1..n -> Changes] : StackOver(B, s, n, q, t)
  BY DEF Stacked
<1> PICK q \in [1..n -> Changes] : StackOver(B, s, n, q, t)
  OBVIOUS
<1>1. \A a \in 1..n : q[a] \in t \ B
  <2> SUFFICES ASSUME NEW a \in 1..n  PROVE q[a] \in t \ B
    OBVIOUS
  <2>1. q[a] \in Changes /\ (q[a] \in t <=> Shows(B, q, n, q[a]))
    BY DEF StackOver
  <2>2. q[a] \in t <=> q[a] \notin B
    BY <2>1 DEF Shows
  <2> QED  BY <2>2
<1>2. \A y \in t \ B : \E a \in 1..n : q[a] = y
  BY DEF StackOver, Shows
\* The a-th change was cut against upstream's text and the changes before it.
<1>3. ASSUME NEW a \in 1..n, NEW y \in Changes
      PROVE  y \in Below[q[a]][s] <=> y \in B \/ \E c \in 1..(a - 1) : q[c] = y
  <2>1. y \in Below[q[a]][s] <=> y # q[a] /\ Shows(B, q, a - 1, y)
    BY DEF StackOver
  <2>2. (\E c \in 1..(a - 1) : q[c] = y) => y \notin B /\ y # q[a]
    BY <1>1 DEF StackOver
  <2>3. y \in B => y # q[a]
    BY <1>1
  <2> QED  BY <2>1, <2>2, <2>3 DEF Shows
<1>4. PICK a \in 1..n : q[a] = f
  BY <1>2
<1>5. Below[f][s] \in SUBSET Changes
  BY SeriesAssumption
<1>6. B \subseteq Below[f][s]
  BY <1>3, <1>4
<1>7. Below[f][s] \subseteq t
  <2> SUFFICES ASSUME NEW y \in Below[f][s]  PROVE y \in t
    OBVIOUS
  <2>1. y \in B \/ \E c \in 1..(a - 1) : q[c] = y
    BY <1>3, <1>4, <1>5
  <2>2. 1..(a - 1) \subseteq 1..n
    OBVIOUS
  <2> QED  BY <1>1, <2>1, <2>2
<1>8. ASSUME NEW g \in t \ B, f # g
      PROVE  f \in Below[g][s] <=> g \notin Below[f][s]
  <2>1. PICK b \in 1..n : q[b] = g
    BY <1>2
  <2>2. a # b
    BY <1>4, <1>8, <2>1
  <2>3. f \in Below[g][s] <=> \E c \in 1..(b - 1) : q[c] = f
    BY <1>3, <2>1
  <2>4. g \in Below[f][s] <=> \E c \in 1..(a - 1) : q[c] = g
    BY <1>3, <1>4
  <2>5. \A c \in 1..n : (q[c] = f <=> c = a) /\ (q[c] = g <=> c = b)
    BY <1>4, <2>1 DEF StackOver
  <2>6. f \in Below[g][s] <=> a < b
    BY <2>3, <2>5
  <2>7. g \in Below[f][s] <=> b < a
    BY <2>4, <2>5
  <2> QED  BY <2>2, <2>6, <2>7
<1> QED  BY <1>6, <1>7, <1>8

LEMMA StandStep ==
  ASSUME TypeOK, Stacks
  PROVE  StacksStand
<1> SUFFICES ASSUME NEW s \in Sites, Base[head][s] \subseteq tree[s],
                    NEW f \in tree[s] \ Base[head][s]
             PROVE  /\ Base[head][s] \subseteq Below[f][s] /\ Below[f][s] \subseteq tree[s]
                    /\ \A g \in tree[s] \ Base[head][s] :
                         f # g => (f \in Below[g][s] <=> g \notin Below[f][s])
  BY DEF StacksStand
<1>1. /\ Base[head][s] \in SUBSET Changes /\ tree[s] \in SUBSET Changes
      /\ Stacked(Base[head][s], s, tree[s])
  BY SeriesAssumption DEF TypeOK, Stacks
<1> DEFINE B == Base[head][s]
           t == tree[s]
<1>2. /\ B \in SUBSET Changes /\ t \in SUBSET Changes /\ Stacked(B, s, t)
      /\ B \subseteq t /\ f \in t \ B
  BY <1>1
<1> HIDE DEF B, t
<1>3. /\ B \subseteq Below[f][s] /\ Below[f][s] \subseteq t
      /\ \A g \in t \ B : f # g => (f \in Below[g][s] <=> g \notin Below[f][s])
  BY <1>2, StackStands
<1> QED  BY <1>3 DEF B, t

\* The order in which patches lie on one another is kept for them by git alone
\* (apply.py:303-326): for every series, stacked or not, upstream's own copies of
\* patches included, no run of the tool in whatever order takes a patch out from
\* under another.
THEOREM PatchesStand == Spec => []StacksStand
<1>1. TypeOK /\ Stacks /\ [Next]_vars => Stacks'
  BY StacksStep
<1>2. TypeOK /\ Stacks => StacksStand
  BY StandStep
<1> QED  BY StacksInit, <1>1, <1>2, TypeCorrect, PTL DEF Spec

-----------------------------------------------------------------------------
\* Recovery: apply is re-run, and nothing is reverted, re-cut or fetched meanwhile.

LEMMA RecoveryIsNext ==
  ASSUME [RecoveryNext]_vars
  PROVE  [Next]_vars
BY DEF RecoveryNext, Next, Between, StartAny

\* No run reverts.
LEMMA NoRevert ==
  ASSUME cmd # "revert", [RecoveryNext]_vars
  PROVE  cmd' # "revert"
BY DEF RecoveryNext, RunStep, SkipPatch, OpenPatch, ApplyFile, RecoverFile, ApplyConflict,
   RecordPatch, ReverseFile, RevertConflict, ForgetPatch, TruncateLedger, FillLedger,
   GitFault, Crash, Leave, RefuseTorn, DropLedger, Start, run, vars

LEMMA TruthInit == Init => Truthful
BY DEF Init, Truthful, RunBacked, LedgerBacked, EmptyLedger

\* No step of a recovery makes the ledger lie.
LEMMA RecoveryTruth ==
  ASSUME IInv, Truthful, cmd # "revert", [RecoveryNext]_vars
  PROVE  Truthful'
<1>1. CASE RunStep
  BY <1>1, TruthRunStep
<1>2. CASE GitFault
  BY <1>2, TruthLeave DEF GitFault
<1>3. CASE Crash
  BY <1>3, TruthLeave DEF Crash
<1>4. CASE RefuseTorn
  BY <1>4, TruthIdle DEF RefuseTorn, persistent
<1>5. CASE DropLedger
  BY <1>5, TruthIdle DEF DropLedger, run
<1>6. ASSUME NEW c \in {"apply", "verify"}, NEW sel \in SelectPatches, Start(c, sel)
      PROVE  Truthful'
  BY <1>6, TruthStart
<1>7. CASE UNCHANGED vars
  BY <1>7 DEF vars, persistent, run, Truthful, RunBacked, LedgerBacked, Backed, InTree,
              files, content, pid
<1> QED
  BY <1>1, <1>2, <1>3, <1>4, <1>5, <1>6, <1>7 DEF RecoveryNext

\* In a recovery the tree only grows.
LEMMA RecoveryGrows ==
  ASSUME IInv, cmd # "revert", [RecoveryNext]_vars
  PROVE  \A g \in Changes : InTree(g) => InTree(g)'
<1>1. tree' = tree \/ ApplyFile \/ ReverseFile
  BY DEF RecoveryNext, RunStep, SkipPatch, OpenPatch, RecoverFile, ApplyConflict, RecordPatch,
     RevertConflict, ForgetPatch, TruncateLedger, FillLedger, GitFault, Crash, RefuseTorn,
     DropLedger, Start, persistent, vars
<1>2. ~ReverseFile
  BY DEF ReverseFile
<1>3. CASE tree' = tree
  BY <1>3, SameTreeKeeps
<1>4. CASE ApplyFile
  <2>1. k \in 1..Len(chosen) /\ j \in 1..Len(files)
    BY <1>4, Visited DEF ApplyFile, IInv, TypeOK
  <2>2. files[j] \in Changes /\ tree' = Patched(files[j])
    BY <1>4, <2>1, Visited DEF ApplyFile, IInv
  <2> QED  BY <2>2, ApplyKeeps DEF IInv
<1> QED  BY <1>1, <1>2, <1>3, <1>4

\* What holds all through a recovery.
RecoveryInv == IInv /\ cmd # "revert" /\ Truthful

LEMMA RecoveryInvariant == RecoverySpec => []RecoveryInv
<1>1. Init => RecoveryInv
  BY InitInv, TruthInit DEF Init, RecoveryInv
<1>2. RecoveryInv /\ [RecoveryNext]_vars => RecoveryInv'
  BY NextInv, RecoveryIsNext, NoRevert, RecoveryTruth DEF RecoveryInv
<1> QED  BY <1>1, <1>2, PTL DEF RecoverySpec

\* Someone who only re-runs apply (apply.py:291-336) never meets a ledger that
\* lies, wherever the runs before died: for every series, stacked or not.
THEOREM RecoveryStaysTruthful == RecoverySpec => []Truthful
<1>1. RecoveryInv => Truthful
  BY DEF RecoveryInv
<1> QED  BY <1>1, RecoveryInvariant, PTL

\* Nor is anything that is in the tree taken out again.
THEOREM RecoveryKeepsGround == RecoverySpec => KeepsGround
<1>1. RecoveryInv /\ [RecoveryNext]_vars =>
        [\A p \in Pids : \A f \in FileSet(patchdir[p]) : InTree(f) => InTree(f)']_vars
  <2> SUFFICES ASSUME RecoveryInv, [RecoveryNext]_vars,
                      NEW p \in Pids, NEW f \in FileSet(patchdir[p]), InTree(f)
               PROVE  InTree(f)'
    OBVIOUS
  <2>1. patchdir[p] \in Hashes
    BY DEF RecoveryInv, IInv, TypeOK
  <2>2. f \in Changes
    BY <2>1, FileSetChanges
  <2> QED  BY <2>2, RecoveryGrows DEF RecoveryInv
<1> QED  BY <1>1, RecoveryInvariant, PTL DEF RecoverySpec, KeepsGround

\* So when apply exits 0 in a recovery, what it selected is in the tree, with no
\* condition on what the ledger said: the runs before cannot have spoiled it.
THEOREM RecoveryEndsInTree ==
  RecoverySpec => [][ cmd = "apply" /\ exit' = "ok"
                      => \A i \in 1..Len(chosen) : Backed(patchdir[chosen[i]]) ]_vars
<1>1. RecoveryInv /\ [RecoveryNext]_vars =>
        [ cmd = "apply" /\ exit' = "ok"
          => \A i \in 1..Len(chosen) : Backed(patchdir[chosen[i]]) ]_vars
  BY RecoveryIsNext, AppliedStep DEF RecoveryInv
<1> QED  BY <1>1, RecoveryInvariant, PTL DEF RecoverySpec
\* A recovery visits the manifest's patches, and none of their files is stuck between
\* applying and reversing.
VisitsManifest ==
  \A n \in 1..Len(chosen) : \E i \in 1..Len(manifest) : chosen[n] = manifest[i]
Unstuck ==
  CutFor(manifest, patchdir, head) =>
    \A i \in 1..Len(manifest) : \A f \in FileSet(patchdir[manifest[i]]) :
      AppliesCleanly(f) \/ ReversesCleanly(f)

LEMMA VisitsStep ==
  ASSUME IInv, VisitsManifest, [RecoveryNext]_vars
  PROVE  VisitsManifest'
<1>1. CASE chosen' = <<>> /\ manifest' = manifest
  BY <1>1 DEF VisitsManifest
<1>2. CASE chosen' = chosen /\ manifest' = manifest
  BY <1>2 DEF VisitsManifest
<1>3. ASSUME NEW c \in {"apply", "verify"}, NEW sel \in SelectPatches, Start(c, sel)
      PROVE  VisitsManifest'
  <2>1. manifest \in Seq(Pids) /\ chosen' = sel /\ manifest' = manifest
    BY <1>3 DEF IInv, TypeOK, Start, persistent
  <2>2. sel = manifest \/ \E i \in 1..Len(manifest) : sel = <<manifest[i]>>
    BY DEF SelectPatches
  <2> QED  BY <2>1, <2>2 DEF VisitsManifest
<1> QED
  BY <1>1, <1>2, <1>3
     DEF RecoveryNext, RunStep, SkipPatch, OpenPatch, ApplyFile, RecoverFile, ApplyConflict,
         RecordPatch, ReverseFile, RevertConflict, ForgetPatch, TruncateLedger, FillLedger,
         GitFault, Crash, Leave, RefuseTorn, DropLedger, persistent, run, vars

LEMMA UnstuckInit == Init => Unstuck
BY DEF Init, Unstuck, CutFor, AppliesCleanly, ReversesCleanly

\* A file that goes in can be reversed, and meets no other file's text.
LEMMA UnstuckApply ==
  ASSUME IInv, VisitsManifest, Unstuck, ApplyFile
  PROVE  Unstuck'
<1> DEFINE g == files[j]
<1>1. UNCHANGED <<head, manifest, patchdir>> /\ tree' = Patched(g) /\ AppliesCleanly(g)
  BY DEF ApplyFile
<1>2. PICK a \in 1..Len(manifest) : pid = manifest[a]
  BY DEF IInv, TypeOK, VisitsManifest, ApplyFile, pid
<1>3. g \in FileSet(patchdir[manifest[a]])
  BY <1>2 DEF IInv, TypeOK, ApplyFile, files, content, FileSet
<1> HIDE DEF g
<1> SUFFICES ASSUME CutFor(manifest, patchdir, head), NEW i \in 1..Len(manifest),
                    NEW f \in FileSet(patchdir[manifest[i]])
             PROVE  AppliesCleanly(f)' \/ ReversesCleanly(f)'
  BY <1>1 DEF Unstuck
<1>4. patchdir[manifest[i]] \in Hashes
  BY DEF IInv, TypeOK
<1>5. f \in Changes /\ Touches[f] \subseteq Sites
  BY <1>4, FileSetChanges, SeriesAssumption
<1>6. \A s \in Touches[f] : tree'[s] = IF s \in Touches[g] THEN tree[s] \cup {g} ELSE tree[s]
  BY <1>1, <1>5 DEF Patched
<1>7. CASE f = g
  BY <1>1, <1>6, <1>7 DEF AppliesCleanly, ReversesCleanly
<1>8. CASE f # g
  <2>1. Touches[f] \cap Touches[g] = {}
    BY <1>3, <1>8 DEF CutFor, Disjoint
  <2>2. \A s \in Touches[f] : tree'[s] = tree[s]
    BY <1>6, <2>1
  <2>3. AppliesCleanly(f) \/ ReversesCleanly(f)
    BY DEF Unstuck
  <2> QED  BY <2>2, <2>3 DEF AppliesCleanly, ReversesCleanly
<1> QED  BY <1>7, <1>8

LEMMA UnstuckStep ==
  ASSUME IInv, cmd # "revert", VisitsManifest, Unstuck, [RecoveryNext]_vars
  PROVE  Unstuck'
<1>1. CASE ApplyFile
  BY <1>1, UnstuckApply
<1>2. CASE UNCHANGED <<tree, head, manifest, patchdir>>
  BY <1>2 DEF Unstuck, AppliesCleanly, ReversesCleanly
<1> QED
  BY <1>1, <1>2
     DEF RecoveryNext, RunStep, SkipPatch, OpenPatch, RecoverFile, ApplyConflict,
         RecordPatch, ReverseFile, RevertConflict, ForgetPatch, TruncateLedger, FillLedger,
         GitFault, Crash, Leave, RefuseTorn, DropLedger, Start, persistent, run, vars

UnstuckInv == RecoveryInv /\ VisitsManifest /\ Unstuck

\* For every series of separate patches cut for the revision of src/: wherever runs
\* die, whatever is lost of the ledger, git refuses no patch file to a later apply
\* (apply.py:303-309).  It is what makes RecoversFromCrash possible at all.
THEOREM NeverRefusedInRecovery == RecoverySpec => NeverRefused
<1>1. Init => VisitsManifest /\ Unstuck
  BY UnstuckInit DEF Init, VisitsManifest
<1>2. UnstuckInv /\ [RecoveryNext]_vars => (VisitsManifest /\ Unstuck)'
  BY VisitsStep, UnstuckStep DEF UnstuckInv, RecoveryInv
<1>3. UnstuckInv /\ ApplyConflict => ~CutFor(manifest, patchdir, head)
  <2> SUFFICES ASSUME UnstuckInv, ApplyConflict, CutFor(manifest, patchdir, head)
               PROVE  FALSE
    OBVIOUS
  <2>1. PICK a \in 1..Len(manifest) : pid = manifest[a]
    BY DEF UnstuckInv, RecoveryInv, IInv, TypeOK, VisitsManifest, ApplyConflict, pid
  <2>2. files[j] \in FileSet(patchdir[manifest[a]])
    BY <2>1 DEF UnstuckInv, RecoveryInv, IInv, TypeOK, ApplyConflict, files, content, FileSet
  <2> QED  BY <2>1, <2>2 DEF UnstuckInv, Unstuck, ApplyConflict
<1>4. UnstuckInv /\ [RecoveryNext]_vars =>
        [CutFor(manifest, patchdir, head) => ~ApplyConflict]_vars
  BY <1>3
<1>5. RecoverySpec => []UnstuckInv
  <2>1. RecoveryInv /\ VisitsManifest /\ Unstuck <=> UnstuckInv
    BY DEF UnstuckInv
  <2> QED  BY <1>1, <1>2, <2>1, RecoveryInvariant, PTL DEF RecoverySpec
<1> QED  BY <1>4, <1>5, PTL DEF RecoverySpec, NeverRefused
=============================================================================
