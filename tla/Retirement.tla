----------------------------- MODULE Retirement -----------------------------
(***************************************************************************)
(* xr-patch retire (build/patching/retire.py) over two repositories: the   *)
(* patch manifest and patch dirs of xr-core, and the retirement ledger of  *)
(* the meta repo (build/upstream/retirements.py), with the people who      *)
(* commit both and the retirement-lint that reads the committed state.     *)
(*                                                                         *)
(* The lint runs on a meta commit: its ledger, and xr-core's history up to *)
(* the commit DEPS pins.                                                   *)
(***************************************************************************)
EXTENDS Naturals, Sequences

CONSTANTS
  Ids,          \* patch ids
  Listed0,      \* ids in the first committed manifest
  MaxCommits,   \* bound: commits to xr-core's manifest
  Torn          \* a file a write was cut short in

VARIABLES
  manifest,     \* xr-core working tree: the ids listed, or Torn
  dirs,         \* [Ids -> {"whole", "part", "gone"}]: patch dirs on disk
  ledger,       \* meta working tree: ids with a retirement row, or Torn
  coreLog,      \* xr-core's committed manifests, oldest first
  meta,         \* the meta commit under lint: its ledger rows and its pin
  pc,           \* where cmd_retire is
  target,       \* args.id
  original,     \* original_manifest
  backup,       \* pdir_backup: what the dir held, "gone" when there was none
  valid,        \* mechanism, evidence and note pass append_retirement
  had           \* history, for the properties: the ledger as the run found it

committed == <<coreLog, meta>>
call == <<target, original, backup, valid, had>>
vars == <<manifest, dirs, ledger, committed, pc, call>>

ASSUME RetirementAssumption ==
  /\ Listed0 \subseteq Ids
  /\ MaxCommits \in Nat \ {0}
  /\ \A rows \in SUBSET Ids : Torn # rows

DirState == {"whole", "part", "gone"}

TypeOK ==
  /\ manifest = Torn \/ manifest \in SUBSET Ids
  /\ dirs \in [Ids -> DirState]
  /\ ledger = Torn \/ ledger \in SUBSET Ids
  /\ coreLog \in Seq(SUBSET Ids) /\ Len(coreLog) \in 1..MaxCommits
  /\ meta \in [rows : SUBSET Ids, pin : 1..Len(coreLog)]
  /\ pc \in {"idle", "surgery", "rmtree", "append", "rollback", "restore"}
  /\ target \in Ids
  /\ original \in SUBSET Ids
  /\ backup \in DirState
  /\ valid \in BOOLEAN
  /\ had = Torn \/ had \in SUBSET Ids
  /\ pc # "idle" => target \in original

OnDisk(listed) == [i \in Ids |-> IF i \in listed THEN "whole" ELSE "gone"]

Init ==
  /\ manifest = Listed0 /\ dirs = OnDisk(Listed0)
  /\ ledger = {}
  /\ coreLog = <<Listed0>>
  /\ meta = [rows |-> {}, pin |-> 1]
  /\ pc = "idle" /\ target \in Ids
  /\ original = {} /\ backup = "gone" /\ valid = FALSE /\ had = {}

-----------------------------------------------------------------------------
\* cmd_retire.

\* Wrong on purpose: the id is not looked up before the surgery.
StartUnlisted(id, ok) ==
  /\ pc = "idle"
  /\ manifest # Torn
  /\ pc' = "surgery" /\ target' = id /\ valid' = ok
  /\ original' = manifest /\ backup' = dirs[id] /\ had' = ledger
  /\ UNCHANGED <<manifest, dirs, ledger, committed>>

\* An id that is not listed, or a manifest that does not parse, is refused here.
Start(id, ok) ==
  /\ pc = "idle"
  /\ manifest # Torn /\ id \in manifest
  /\ pc' = "surgery" /\ target' = id /\ valid' = ok
  /\ original' = manifest /\ backup' = dirs[id] /\ had' = ledger
  /\ UNCHANGED <<manifest, dirs, ledger, committed>>

\* remove_patch_from_manifest
Surgery ==
  /\ pc = "surgery"
  /\ manifest' = manifest \ {target}
  /\ pc' = IF backup # "gone" THEN "rmtree" ELSE "append"
  /\ UNCHANGED <<dirs, ledger, committed, call>>

RemoveTree ==
  /\ pc = "rmtree"
  /\ dirs' = [dirs EXCEPT ![target] = "gone"]
  /\ pc' = "append"
  /\ UNCHANGED <<manifest, ledger, committed, call>>

AppendAccepts == valid /\ ledger # Torn /\ target \notin ledger

AppendRow ==
  /\ pc = "append" /\ AppendAccepts
  /\ ledger' = ledger \cup {target}
  /\ pc' = "idle"
  /\ UNCHANGED <<manifest, dirs, committed, call>>

\* Wrong on purpose: the row is saved before its note and evidence are looked at.
AppendRefusedLate ==
  /\ pc = "append" /\ ~AppendAccepts
  /\ ledger' = IF ledger = Torn THEN Torn ELSE ledger \cup {target}
  /\ pc' = "rollback"
  /\ UNCHANGED <<manifest, dirs, committed, call>>

\* append_retirement raises before it saves anything.
AppendRefused ==
  /\ pc = "append" /\ ~AppendAccepts
  /\ pc' = "rollback"
  /\ UNCHANGED <<manifest, dirs, ledger, committed, call>>

\* One of the three file operations raises part of the way through.
Fault ==
  /\ \/ /\ pc = "surgery"
        /\ manifest' \in {manifest, Torn}
        /\ UNCHANGED <<dirs, ledger>>
     \/ /\ pc = "rmtree"
        /\ dirs' = [dirs EXCEPT ![target] = "part"]
        /\ UNCHANGED <<manifest, ledger>>
     \/ /\ pc = "append" /\ AppendAccepts
        /\ ledger' \in {ledger, Torn}
        /\ UNCHANGED <<manifest, dirs>>
  /\ pc' = "rollback"
  /\ UNCHANGED <<committed, call>>

\* The except clause: first the manifest text goes back,
Rollback ==
  /\ pc = "rollback"
  /\ manifest' = original
  /\ pc' = "restore"
  /\ UNCHANGED <<dirs, ledger, committed, call>>

RestoresDir == backup # "gone" /\ dirs[target] = "gone"

\* then the dir, but only when nothing of it is left.
RestoreDir ==
  /\ pc = "restore"
  /\ dirs' = IF RestoresDir THEN [dirs EXCEPT ![target] = backup] ELSE dirs
  /\ pc' = "idle"
  /\ UNCHANGED <<manifest, ledger, committed, call>>

\* The process dies, at worst in the middle of a write.
Crash ==
  /\ pc # "idle" /\ pc' = "idle"
  /\ \/ UNCHANGED <<manifest, dirs, ledger>>
     \/ pc \in {"surgery", "rollback"} /\ manifest' = Torn /\ UNCHANGED <<dirs, ledger>>
     \/ /\ pc = "rmtree" \/ (pc = "restore" /\ RestoresDir)
        /\ dirs' = [dirs EXCEPT ![target] = "part"]
        /\ UNCHANGED <<manifest, ledger>>
     \/ /\ pc = "append" /\ AppendAccepts
        /\ ledger' = Torn
        /\ UNCHANGED <<manifest, dirs>>
  /\ UNCHANGED <<committed, call>>

-----------------------------------------------------------------------------
\* People, between runs.

AddPatch(id) ==
  /\ pc = "idle" /\ manifest # Torn /\ id \notin manifest
  /\ manifest' = manifest \cup {id}
  /\ dirs' = [dirs EXCEPT ![id] = "whole"]
  /\ UNCHANGED <<ledger, committed, pc, call>>

\* The unsanctioned way: the entry and its dir deleted by hand.
HandRemove(id) ==
  /\ pc = "idle" /\ manifest # Torn /\ id \in manifest
  /\ manifest' = manifest \ {id}
  /\ dirs' = [dirs EXCEPT ![id] = "gone"]
  /\ UNCHANGED <<ledger, committed, pc, call>>

CommitCore ==
  /\ pc = "idle" /\ manifest # Torn
  /\ manifest # coreLog[Len(coreLog)] /\ Len(coreLog) < MaxCommits
  /\ coreLog' = Append(coreLog, manifest)
  /\ UNCHANGED <<manifest, dirs, ledger, meta, pc, call>>

\* One meta commit carries the ledger file and the DEPS pin.
CommitMeta(p) ==
  /\ pc = "idle" /\ ledger # Torn
  /\ meta' = [rows |-> ledger, pin |-> p]
  /\ UNCHANGED <<manifest, dirs, ledger, coreLog, pc, call>>

\* git reset and clean of the xr-core working tree, of the meta working tree.
RestoreCore ==
  /\ pc = "idle"
  /\ manifest' = coreLog[Len(coreLog)] /\ dirs' = OnDisk(coreLog[Len(coreLog)])
  /\ UNCHANGED <<ledger, committed, pc, call>>

RestoreMeta ==
  /\ pc = "idle"
  /\ ledger' = meta.rows
  /\ UNCHANGED <<manifest, dirs, committed, pc, call>>

RunStep == Surgery \/ RemoveTree \/ AppendRow \/ AppendRefused \/ Rollback \/ RestoreDir

Next ==
  \/ RunStep \/ Fault \/ Crash
  \/ \E id \in Ids, ok \in BOOLEAN : Start(id, ok)
  \/ \E id \in Ids : AddPatch(id) \/ HandRemove(id)
  \/ CommitCore \/ RestoreCore \/ RestoreMeta
  \/ \E p \in 1..Len(coreLog) : CommitMeta(p)

Spec == Init /\ [][Next]_vars

-----------------------------------------------------------------------------
\* retirement-lint on the meta commit.

Current == coreLog[meta.pin]

\* Wrong on purpose: only the newest change of the manifest is read.
RemovedLast == UNION {coreLog[i] \ coreLog[i + 1] : i \in {meta.pin - 1} \ {0}}

\* historical_removals: the ids on removed lines of `git log -p` of the manifest.
RemovedEver == UNION {coreLog[i] \ coreLog[i + 1] : i \in 1..(meta.pin - 1)}

StillPresent == meta.rows \cap Current
WithoutLedger == (RemovedEver \ meta.rows) \ Current
LintPasses == StillPresent = {} /\ WithoutLedger = {}

-----------------------------------------------------------------------------
\* Properties.

\* What the lint is for: whatever sequence of sanctioned, crashed, hand-made and
\* undone removals was committed, it passes exactly when every patch that was
\* ever listed is either listed still or in the ledger, and none is both.
EverListed == UNION {coreLog[i] : i \in 1..meta.pin}
LintSeesRemovals ==
  LintPasses <=> (EverListed \ Current \subseteq meta.rows /\ meta.rows \cap Current = {})

\* How a run ends that comes to an end by itself, whatever was refused or raised on
\* the way.  It retires: the ledger has the rows it found and a first one for the
\* patch, and the entry and the dir are gone.  Or it gives up: the manifest is as it
\* was, the patch has its dir again, though a failed rmtree may have taken some of
\* it, and the ledger is as it was found, with no row gained or lost.  One thing is
\* not put back and the property says so: when the write of the ledger itself is cut
\* short, the rows of all patches stay lost.
RetiresOrPutsBack ==
  [][ /\ AppendRow =>
           /\ had # Torn /\ target \notin had /\ ledger' = had \cup {target}
           /\ manifest = original \ {target} /\ dirs[target] = "gone"
      /\ RestoreDir =>
           /\ manifest' = original /\ ledger' \in {had, Torn}
           /\ backup # "gone" => dirs'[target] # "gone" ]_vars

\* "surgery first (rollback-able)" (build/patching/retire.py:42): a run that
\* raises puts the patch back whole.
RolledBackWhole ==
  [][ RestoreDir /\ backup = "whole" => dirs'[target] = "whole" ]_vars
=============================================================================
