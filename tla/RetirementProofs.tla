-------------------------- MODULE RetirementProofs --------------------------
(***************************************************************************)
(* Proofs about Retirement for every set of patches and every length of    *)
(* history: type correctness, what a run that ends by itself leaves        *)
(* behind, and that the lint judges every history right.                   *)
(***************************************************************************)
EXTENDS Retirement, TLAPS

\* What a run has done by the time it reaches each point.
RunShape ==
  /\ pc = "surgery" => manifest = original /\ dirs[target] = backup
  /\ pc = "rmtree" => manifest = original \ {target}
  /\ pc = "append" => manifest = original \ {target} /\ dirs[target] = "gone"
  /\ pc = "restore" => manifest = original
  /\ pc \in {"surgery", "rmtree", "append"} => ledger = had
  /\ pc # "idle" => ledger \in {had, Torn}

\* An id listed at one commit and not at a later one was taken out in between.
History ==
  \A p \in 1..Len(coreLog) : \A i \in 1..p : \A id \in coreLog[i] \ coreLog[p] :
    \E n \in i..(p - 1) : id \in coreLog[n] \ coreLog[n + 1]

-----------------------------------------------------------------------------

LEMMA InitType == Init => TypeOK /\ RunShape
<1> SUFFICES ASSUME Init PROVE TypeOK /\ RunShape
  OBVIOUS
<1>1. Listed0 \in SUBSET Ids /\ 1 \in 1..MaxCommits
  BY RetirementAssumption DEF RetirementAssumption
<1>2. coreLog \in Seq(SUBSET Ids) /\ Len(coreLog) = 1
  BY <1>1 DEF Init
<1>3. dirs \in [Ids -> DirState]
  BY DEF Init, OnDisk, DirState
<1>4. meta \in [rows : SUBSET Ids, pin : 1..Len(coreLog)]
  BY <1>2 DEF Init
<1> QED
  BY <1>1, <1>2, <1>3, <1>4 DEF Init, TypeOK, RunShape, DirState

\* A step of the run itself, a fault in it or its death keeps the types.
LEMMA RunType ==
  ASSUME TypeOK, RunShape, RunStep \/ Fault \/ Crash
  PROVE  TypeOK'
<1>1. CASE Surgery
  BY <1>1 DEF TypeOK, RunShape, Surgery, committed, call
<1>2. CASE RemoveTree
  BY <1>2 DEF TypeOK, RemoveTree, committed, call, DirState
<1>3. CASE AppendRow
  BY <1>3 DEF TypeOK, AppendRow, AppendAccepts, committed, call
<1>4. CASE AppendRefused
  BY <1>4 DEF TypeOK, AppendRefused, committed, call
<1>5. CASE Rollback
  BY <1>5 DEF TypeOK, Rollback, committed, call
<1>6. CASE RestoreDir
  BY <1>6 DEF TypeOK, RestoreDir, RestoresDir, committed, call, DirState
<1>7. CASE Fault
  BY <1>7 DEF TypeOK, Fault, AppendAccepts, committed, call, DirState
<1>8. CASE Crash
  BY <1>8 DEF TypeOK, Crash, AppendAccepts, RestoresDir, committed, call, DirState
<1> QED
  BY <1>1, <1>2, <1>3, <1>4, <1>5, <1>6, <1>7, <1>8 DEF RunStep

\* A commit to xr-core keeps the types: the history grows by the tree's manifest.
LEMMA CommitCoreType ==
  ASSUME TypeOK, CommitCore
  PROVE  /\ TypeOK'
         /\ Len(coreLog') = Len(coreLog) + 1
         /\ coreLog'[Len(coreLog) + 1] = manifest
         /\ \A i \in 1..Len(coreLog) : coreLog'[i] = coreLog[i]
<1>1. coreLog \in Seq(SUBSET Ids) /\ manifest \in SUBSET Ids /\ Len(coreLog) \in Nat
  BY DEF TypeOK, CommitCore
<1>2. /\ coreLog' \in Seq(SUBSET Ids) /\ Len(coreLog') = Len(coreLog) + 1
      /\ coreLog'[Len(coreLog) + 1] = manifest
      /\ \A i \in 1..Len(coreLog) : coreLog'[i] = coreLog[i]
  BY <1>1 DEF CommitCore
<1>3. Len(coreLog') \in 1..MaxCommits
  BY <1>1, <1>2, RetirementAssumption DEF RetirementAssumption, CommitCore, TypeOK
<1>4. meta' \in [rows : SUBSET Ids, pin : 1..Len(coreLog')]
  <2>1. 1..Len(coreLog) \subseteq 1..Len(coreLog')
    BY <1>1, <1>2
  <2> QED
    BY <2>1 DEF TypeOK, CommitCore
<1> QED
  BY <1>2, <1>3, <1>4 DEF TypeOK, CommitCore, call

LEMMA TypeStep ==
  ASSUME TypeOK, RunShape, [Next]_vars
  PROVE  TypeOK'
<1>1. CASE RunStep \/ Fault \/ Crash
  BY <1>1, RunType
<1>2. ASSUME NEW id \in Ids, NEW ok \in BOOLEAN, Start(id, ok)
      PROVE  TypeOK'
  BY <1>2 DEF TypeOK, Start, committed
<1>3. ASSUME NEW id \in Ids, AddPatch(id) \/ HandRemove(id)
      PROVE  TypeOK'
  BY <1>3 DEF TypeOK, AddPatch, HandRemove, committed, call, DirState
<1>4. CASE CommitCore
  BY <1>4, CommitCoreType
<1>5. CASE RestoreCore
  <2>1. coreLog[Len(coreLog)] \in SUBSET Ids
    BY DEF TypeOK
  <2> QED
    BY <1>5, <2>1 DEF TypeOK, RestoreCore, OnDisk, committed, call, DirState
<1>6. CASE RestoreMeta
  BY <1>6 DEF TypeOK, RestoreMeta, committed, call
<1>7. ASSUME NEW p \in 1..Len(coreLog), CommitMeta(p)
      PROVE  TypeOK'
  BY <1>7 DEF TypeOK, CommitMeta, call
<1>8. CASE UNCHANGED vars
  BY <1>8 DEF TypeOK, vars, committed, call
<1> QED
  BY <1>1, <1>2, <1>3, <1>4, <1>5, <1>6, <1>7, <1>8 DEF Next

LEMMA ShapeStep ==
  ASSUME TypeOK, RunShape, [Next]_vars
  PROVE  RunShape'
<1>1. CASE RunStep
  BY <1>1 DEF TypeOK, RunShape, RunStep, Surgery, RemoveTree, AppendRow, AppendRefused,
              Rollback, RestoreDir, call
<1>2. CASE Fault \/ Crash
  BY <1>2 DEF RunShape, Fault, Crash, call
<1>3. ASSUME NEW id \in Ids, NEW ok \in BOOLEAN, Start(id, ok)
      PROVE  RunShape'
  BY <1>3 DEF RunShape, Start
<1>4. CASE pc = "idle" /\ pc' = "idle"
  BY <1>4 DEF RunShape
<1>5. CASE UNCHANGED vars
  BY <1>5 DEF RunShape, vars, call
<1> QED
  BY <1>1, <1>2, <1>3, <1>4, <1>5
     DEF Next, AddPatch, HandRemove, CommitCore, RestoreCore, RestoreMeta, CommitMeta

LEMMA RunInvariant == Spec => [](TypeOK /\ RunShape)
BY InitType, TypeStep, ShapeStep, PTL DEF Spec

\* For every set of patches and bound on commits, the state is of its type; in
\* particular no run works on an id its manifest did not list (retire.py:31).
THEOREM TypeCorrect == Spec => []TypeOK
BY RunInvariant, PTL

-----------------------------------------------------------------------------

\* A retirement that ends by itself has added one row to the ledger it found, with
\* the entry and the dir gone, or has put the manifest and the dir back over a ledger
\* as it found it, or torn by its own write (retire.py:51-63).
THEOREM RetirementEndsTidy == Spec => RetiresOrPutsBack
<1>1. TypeOK /\ RunShape /\ [Next]_vars =>
        [/\ AppendRow =>
              /\ had # Torn /\ target \notin had /\ ledger' = had \cup {target}
              /\ manifest = original \ {target} /\ dirs[target] = "gone"
         /\ RestoreDir =>
              /\ manifest' = original /\ ledger' \in {had, Torn}
              /\ backup # "gone" => dirs'[target] # "gone"]_vars
  BY DEF TypeOK, RunShape, AppendRow, AppendAccepts, RestoreDir, RestoresDir
<1> QED
  BY <1>1, RunInvariant, PTL DEF Spec, RetiresOrPutsBack

-----------------------------------------------------------------------------

\* A commit that removes an id is itself the witness for it.
LEMMA HistoryCommit ==
  ASSUME TypeOK, History, CommitCore
  PROVE  History'
<1> DEFINE L == Len(coreLog)
<1>1. /\ L \in Nat /\ L >= 1 /\ Len(coreLog') = L + 1
      /\ \A i \in 1..L : coreLog'[i] = coreLog[i]
  BY CommitCoreType DEF TypeOK
<1> SUFFICES ASSUME NEW p \in 1..(L + 1), NEW i \in 1..p, NEW id \in coreLog'[i] \ coreLog'[p]
             PROVE  \E n \in i..(p - 1) : id \in coreLog'[n] \ coreLog'[n + 1]
  BY <1>1 DEF History
<1> HIDE DEF L
<1>2. CASE p \in 1..L
  <2>1. PICK n \in i..(p - 1) : id \in coreLog[n] \ coreLog[n + 1]
    BY <1>1, <1>2 DEF History, L
  <2>2. n \in 1..L /\ n + 1 \in 1..L
    BY <1>1, <1>2, <2>1
  <2> QED
    BY <1>1, <2>1, <2>2
<1>3. CASE p = L + 1
  <2>1. i \in 1..L /\ id \in coreLog[i]
    BY <1>1, <1>3
  <2>2. CASE id \in coreLog[L]
    BY <1>1, <1>3, <2>1, <2>2
  <2>3. CASE id \notin coreLog[L]
    <3>1. PICK n \in i..(L - 1) : id \in coreLog[n] \ coreLog[n + 1]
      BY <1>1, <2>1, <2>3 DEF History, L
    <3>2. n \in 1..L /\ n + 1 \in 1..L /\ n \in i..(p - 1)
      BY <1>1, <1>3, <3>1
    <3> QED
      BY <1>1, <3>1, <3>2
  <2> QED
    BY <2>2, <2>3
<1>4. p \in 1..L \/ p = L + 1
  BY <1>1
<1> QED
  BY <1>2, <1>3, <1>4

LEMMA HistoryStep ==
  ASSUME TypeOK, History, [Next]_vars
  PROVE  History'
<1>1. CASE CommitCore
  BY <1>1, HistoryCommit
<1>2. CASE coreLog' = coreLog
  BY <1>2 DEF History
<1> QED
  BY <1>1, <1>2
     DEF Next, RunStep, Surgery, RemoveTree, AppendRow, AppendRefused, Rollback, RestoreDir,
         Fault, Crash, Start, AddPatch, HandRemove, RestoreCore, RestoreMeta, CommitMeta,
         committed, vars

\* Whatever was ever listed and is not listed now shows up among the removals.
LEMMA RemovedIsSeen ==
  ASSUME TypeOK, History
  PROVE  EverListed \ Current = RemovedEver \ Current
<1>1. meta.pin \in 1..Len(coreLog) /\ meta.pin \in Nat
  BY DEF TypeOK
<1>2. ASSUME NEW id \in EverListed \ Current
      PROVE  id \in RemovedEver
  <2>1. PICK i \in 1..meta.pin : id \in coreLog[i]
    BY <1>2 DEF EverListed
  <2>2. PICK n \in i..(meta.pin - 1) : id \in coreLog[n] \ coreLog[n + 1]
    BY <1>1, <1>2, <2>1 DEF History, Current
  <2>3. n \in 1..(meta.pin - 1)
    BY <1>1, <2>1, <2>2
  <2> QED
    BY <2>2, <2>3 DEF RemovedEver
<1>3. ASSUME NEW id \in RemovedEver
      PROVE  id \in EverListed
  <2>1. PICK n \in 1..(meta.pin - 1) : id \in coreLog[n] \ coreLog[n + 1]
    BY <1>3 DEF RemovedEver
  <2>2. n \in 1..meta.pin
    BY <1>1, <2>1
  <2> QED
    BY <2>1, <2>2 DEF EverListed
<1> QED
  BY <1>2, <1>3

\* Of every history of commits to both repositories the lint says the right
\* thing: it passes exactly when each patch ever listed is listed still or has a
\* row, and none has both (retirements.py:148-193).
THEOREM LintIsRight == Spec => []LintSeesRemovals
<1>1. Init => History
  BY DEF Init, History
<1>2. TypeOK /\ History => LintSeesRemovals
  BY RemovedIsSeen DEF LintSeesRemovals, LintPasses, StillPresent, WithoutLedger
<1> QED
  BY <1>1, <1>2, HistoryStep, RunInvariant, PTL DEF Spec
=============================================================================
