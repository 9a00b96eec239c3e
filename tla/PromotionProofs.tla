--------------------------- MODULE PromotionProofs ---------------------------
(***************************************************************************)
(* Proofs about Promotion for every series, upstream and set of            *)
(* candidates: types, and that the smoke and the applicator agree within   *)
(* what PromotedApplies and RefusedStops name.  What is proved of the      *)
(* applicator alone comes from PatchApplyProofs, instantiated as Alone.    *)
(*                                                                         *)
(* The inductive invariant ties the two together.  Of the smoke: each      *)
(* judged patch was cut against upstream's text and the first files of     *)
(* patches judged before it (JudgedFit), and a bundle says so (BundleFits).*)
(* Of the applicator: a run visits patches of the manifest (ChosenListed), *)
(* a patch file is in the tree at all its sites or at none (WholeFiles),   *)
(* and each site is a stack over upstream's text (StacksStand).            *)
(***************************************************************************)
EXTENDS Promotion, TLAPS

Alone == INSTANCE PatchApplyProofs WITH Torn <- TornLedger

-----------------------------------------------------------------------------
\* What was proved of the applicator alone is said here of the composed one.

LEMMA AloneAssumptions == Alone!SeriesAssumption /\ Alone!LedgerAssumption
BY SeriesAssumption, PromotionAssumption
   DEF Alone!SeriesAssumption, Alone!LedgerAssumption, FileSet, Alone!FileSet,
       Applicator!Rows, Alone!Rows, Applicator!Ledgers, Alone!Ledgers

LEMMA SameInit == Applicator!Init <=> Alone!Init
BY DEF Applicator!Init, Alone!Init, Applicator!EmptyLedger, Alone!EmptyLedger

LEMMA SameNext == Applicator!Next <=> Alone!Next
BY DEF Applicator!Next, Alone!Next, Applicator!RunStep, Alone!RunStep, Applicator!GitFault,
       Alone!GitFault, Applicator!Crash, Alone!Crash, Applicator!Between, Alone!Between,
       Applicator!StartAny, Alone!StartAny, Applicator!Start, Alone!Start,
       Applicator!RefuseTorn, Alone!RefuseTorn, Applicator!EditPatch, Alone!EditPatch,
       Applicator!Unlist, Alone!Unlist, Applicator!Recheckout, Alone!Recheckout,
       Applicator!DropLedger, Alone!DropLedger, Applicator!SkipPatch, Alone!SkipPatch,
       Applicator!OpenPatch, Alone!OpenPatch, Applicator!ApplyFile, Alone!ApplyFile,
       Applicator!RecoverFile, Alone!RecoverFile, Applicator!ApplyConflict,
       Alone!ApplyConflict, Applicator!RecordPatch, Alone!RecordPatch,
       Applicator!ReverseFile, Alone!ReverseFile, Applicator!RevertConflict,
       Alone!RevertConflict, Applicator!ForgetPatch, Alone!ForgetPatch,
       Applicator!TruncateLedger, Alone!TruncateLedger, Applicator!FillLedger,
       Alone!FillLedger, Applicator!Leave, Alone!Leave, Applicator!NextPatch,
       Alone!NextPatch, Applicator!VisitNothing, Alone!VisitNothing, Applicator!Recorded,
       Alone!Recorded, Applicator!AppliesCleanly, Alone!AppliesCleanly,
       Applicator!ReversesCleanly, Alone!ReversesCleanly, Applicator!Patched,
       Alone!Patched, Applicator!Unpatched, Alone!Unpatched, Applicator!SelectPatches,
       Alone!SelectPatches, Applicator!EmptyLedger, Alone!EmptyLedger, Applicator!pid,
       Alone!pid, Applicator!content, Alone!content, Applicator!files, Alone!files,
       Applicator!persistent, Alone!persistent, Applicator!run, Alone!run

LEMMA SameStutter ==
  /\ UNCHANGED Alone!vars <=> UNCHANGED applicatorVars
  /\ UNCHANGED promotionVars <=> UNCHANGED applicatorVars /\ UNCHANGED <<smoke, bundle>>
BY DEF Alone!vars, Alone!persistent, Alone!run, applicatorVars, promotionVars

\* Every step of the promotion is one of the applicator, or leaves its state alone.
LEMMA AloneStep ==
  ASSUME [PromotionNext]_promotionVars
  PROVE  [Alone!Next]_(Alone!vars)
BY SameNext, SameStutter DEF PromotionNext, StartSmoke, TryPatch, PassSmoke, SmokeEnds

LEMMA SameType == Applicator!TypeOK <=> Alone!TypeOK
BY DEF Applicator!TypeOK, Alone!TypeOK, Applicator!Ledgers, Alone!Ledgers,
       Applicator!Rows, Alone!Rows

-----------------------------------------------------------------------------
\* The promotion runs the applicator as it is: a behaviour of the two together is,
\* to the applicator, one of its own with more between its runs, so that what was
\* proved of it holds here.
THEOREM PromotionRunsApplicator == PromotionSpec => Alone!Spec
<1>1. PromotionInit => Alone!Init
  BY SameInit DEF PromotionInit
<1>2. [PromotionNext]_promotionVars => [Alone!Next]_(Alone!vars)
  BY AloneStep
<1> QED  BY <1>1, <1>2, PTL DEF PromotionSpec, Alone!Spec

\* Here too no patch is taken out from under another, smoke, re-cuts and
\* retirements in between included.
THEOREM PromotedSeriesStand == PromotionSpec => []StacksStand
<1>1. Alone!Spec => []Alone!StacksStand
  BY Alone!PatchesStand, AloneAssumptions
<1>2. Alone!StacksStand => StacksStand
  BY DEF Alone!StacksStand, StacksStand, Applicator!StacksStand
<1> QED  BY <1>1, <1>2, PromotionRunsApplicator, PTL

LEMMA AloneInvariant == PromotionSpec => []Alone!IInv
<1>1. Alone!Spec => []Alone!IInv
  BY Alone!RunInvariant, AloneAssumptions
<1> QED  BY <1>1, PromotionRunsApplicator, PTL

-----------------------------------------------------------------------------
\* The inductive invariant.

FirstOf(h) == FilesOf[h][1]

\* The first files of the first n judged patches, where they touch s.
Before(judged, n, s) ==
  {FirstOf(judged[a]) : a \in {m \in 1..n : s \in Touches[FirstOf(judged[m])]}}

\* x is upstream's text at s and perhaps some of those files.
Made(x, judged, n, r, s) ==
  Base[r][s] \subseteq x /\ x \subseteq Base[r][s] \cup Before(judged, n, s)

\* The i-th judged patch was cut against such a text wherever it touches, or, at
\* some site, against another than the one it found.
Fits(judged, i, r) ==
  \A s \in Touches[FirstOf(judged[i])] :
    Made(Below[FirstOf(judged[i])][s], judged, i - 1, r, s)
Misfits(judged, i, r) ==
  \E s \in Touches[FirstOf(judged[i])] : \E x \in SUBSET Changes :
    Made(x, judged, i - 1, r, s) /\ x # Below[FirstOf(judged[i])][s]

JudgedFit == smoke # NoSmoke =>
  /\ \A i \in 1..Len(smoke.judged) : Fits(smoke.judged, i, smoke.to)
  /\ \A s \in Sites : Made(smoke.scratch[s], smoke.judged, Len(smoke.judged), smoke.to, s)

BundleFits == bundle # NoBundle =>
  /\ bundle.ready =>
       /\ Len(bundle.judged) = Len(bundle.listed)
       /\ \A i \in 1..Len(bundle.judged) : Fits(bundle.judged, i, bundle.to)
  /\ ~bundle.ready =>
       /\ Len(bundle.judged) \in 1..Len(bundle.listed)
       /\ Misfits(bundle.judged, Len(bundle.judged), bundle.to)

ChosenListed ==
  pc # "idle" => \A i \in 1..Len(chosen) : \E m \in 1..Len(manifest) : chosen[i] = manifest[m]

WholeFiles ==
  \A f \in Changes : (\A s \in Touches[f] : f \notin Base[head][s]) =>
    \A s, u \in Touches[f] : f \in tree[s] <=> f \in tree[u]

SmokeInv == PromotionTypeOK /\ JudgedFit /\ BundleFits
RunsInv == Alone!TypeOK /\ ChosenListed /\ WholeFiles

-----------------------------------------------------------------------------
\* The smoke.

LEMMA FirstType ==
  ASSUME NEW h \in Hashes
  PROVE  /\ FirstOf(h) \in FileSet(h) /\ FirstOf(h) \in Changes
         /\ Touches[FirstOf(h)] \subseteq Sites
<1>1. FilesOf[h] \in Seq(Changes) /\ FilesOf[h] # <<>>
  BY SeriesAssumption
<1>2. 1 \in 1..Len(FilesOf[h])
  BY <1>1
<1> QED  BY <1>1, <1>2, SeriesAssumption DEF FirstOf, FileSet

\* A patch judged later changes nothing of what was before.
LEMMA BeforeKept ==
  ASSUME NEW judged \in Seq(Hashes), NEW h \in Hashes, NEW n \in 0..Len(judged), NEW s
  PROVE  Before(Append(judged, h), n, s) = Before(judged, n, s)
<1>1. \A m \in 1..n : Append(judged, h)[m] = judged[m]
  OBVIOUS
<1> QED  BY <1>1 DEF Before

LEMMA FitsKept ==
  ASSUME NEW judged \in Seq(Hashes), NEW h \in Hashes, NEW i \in 1..Len(judged), NEW r
  PROVE  Fits(Append(judged, h), i, r) <=> Fits(judged, i, r)
<1>1. Append(judged, h)[i] = judged[i] /\ i - 1 \in 0..Len(judged)
  OBVIOUS
<1>2. \A s : Before(Append(judged, h), i - 1, s) = Before(judged, i - 1, s)
  BY <1>1, BeforeKept
<1> QED  BY <1>1, <1>2 DEF Fits, Made

\* What git apply is tried on is upstream's text and what it has taken so far.
LEMMA FetchedMade ==
  ASSUME SmokeInv, smoke # NoSmoke, NEW h \in Hashes, NEW s \in Sites
  PROVE  /\ Made(Fetched(smoke.scratch, h, smoke.to)[s], smoke.judged,
                 Len(smoke.judged), smoke.to, s)
         /\ Fetched(smoke.scratch, h, smoke.to)[s] \in SUBSET Changes
<1>1. smoke \in Smokes /\ smoke.scratch[s] \in SUBSET Changes
  BY PromotionAssumption DEF SmokeInv, PromotionTypeOK, Smokes, ScratchTrees
<1>2. Base[smoke.to][s] \in SUBSET Changes
  BY <1>1, PromotionAssumption, SeriesAssumption DEF Smokes
<1>3. Made(smoke.scratch[s], smoke.judged, Len(smoke.judged), smoke.to, s)
  BY DEF SmokeInv, JudgedFit
<1> QED  BY <1>1, <1>2, <1>3 DEF Fetched, Made

LEMMA StartKeeps ==
  ASSUME SmokeInv, NEW to \in Candidates, StartSmoke(to), Applicator!TypeOK'
  PROVE  SmokeInv'
<1>1. smoke' = [to |-> to, listed |-> manifest, judged |-> <<>>, scratch |-> Base[to]]
      /\ bundle' = NoBundle
  BY DEF StartSmoke
<1>2. manifest \in Seq(Pids) /\ Base[to] \in ScratchTrees
  BY PromotionAssumption, SeriesAssumption
     DEF SmokeInv, PromotionTypeOK, Applicator!TypeOK, ScratchTrees
<1>3. smoke' \in Smokes /\ Len(smoke'.judged) <= Len(smoke'.listed)
  BY <1>1, <1>2 DEF Smokes
<1>4. PromotionTypeOK'
  BY <1>1, <1>3 DEF PromotionTypeOK
<1>5. JudgedFit'
  BY <1>1 DEF JudgedFit, Made
<1> QED  BY <1>1, <1>4, <1>5 DEF SmokeInv, BundleFits

LEMMA TryKeeps ==
  ASSUME SmokeInv, TryPatch, Applicator!TypeOK'
  PROVE  SmokeInv'
<1> DEFINE L == Len(smoke.judged)
           h == patchdir[trying]
           f == FirstOf(h)
           t == Fetched(smoke.scratch, h, smoke.to)
           judged == Append(smoke.judged, h)
<1>1. smoke # NoSmoke /\ smoke \in Smokes /\ L < Len(smoke.listed)
  BY DEF TryPatch, SmokeInv, PromotionTypeOK
<1>2. smoke.judged \in Seq(Hashes) /\ smoke.listed \in Seq(Pids) /\ smoke.to \in Candidates
  BY <1>1 DEF Smokes
<1>3. trying \in Pids /\ h \in Hashes
  <2>1. patchdir \in [Pids -> Hashes]
    BY DEF SmokeInv, PromotionTypeOK, Applicator!TypeOK
  <2>2. Len(smoke.judged) + 1 \in 1..Len(smoke.listed)
    BY <1>1, <1>2
  <2>3. trying \in Pids
    BY <1>2, <2>2 DEF trying
  <2> QED  BY <2>1, <2>3
<1>4. /\ judged \in Seq(Hashes) /\ Len(judged) = L + 1 /\ L \in Nat
      /\ judged[L + 1] = h /\ \A i \in 1..L : judged[i] = smoke.judged[i]
  BY <1>2, <1>3
<1>5. f \in Changes /\ Touches[f] \subseteq Sites
  BY <1>3, FirstType
<1>6. \A s \in Sites : /\ Made(t[s], smoke.judged, L, smoke.to, s)
                       /\ t[s] \in SUBSET Changes
  BY <1>1, <1>3, FetchedMade
<1>7. \A s : Before(judged, L, s) = Before(smoke.judged, L, s)
  BY <1>2, <1>3, <1>4, BeforeKept
<1>8. \A i \in 1..L : Fits(judged, i, smoke.to)
  BY <1>1, <1>2, <1>3, FitsKept DEF SmokeInv, JudgedFit
<1>9. \/ /\ Finds(t, f, smoke.to)
         /\ smoke' = [smoke EXCEPT !.judged = judged, !.scratch =
              [s \in Sites |-> IF s \in Touches[f] THEN t[s] \cup {f} ELSE t[s]]]
         /\ bundle' = bundle
      \/ /\ ~Finds(t, f, smoke.to)
         /\ smoke' = NoSmoke /\ bundle' = Bundled(judged, FALSE)
  BY DEF TryPatch, FirstOf
<1> HIDE DEF h, t, f, L, judged
<1>10. CASE Finds(t, f, smoke.to) /\ bundle' = bundle
            /\ smoke' = [smoke EXCEPT !.judged = judged, !.scratch =
                 [s \in Sites |-> IF s \in Touches[f] THEN t[s] \cup {f} ELSE t[s]]]
  <2> DEFINE scratch == [s \in Sites |-> IF s \in Touches[f] THEN t[s] \cup {f} ELSE t[s]]
  <2>1. scratch \in ScratchTrees
    BY <1>5, <1>6 DEF ScratchTrees
  <2>2. \A s \in Sites : scratch[s] = IF s \in Touches[f] THEN t[s] \cup {f} ELSE t[s]
    OBVIOUS
  <2> HIDE DEF scratch
  <2>3. /\ smoke' \in Smokes /\ smoke'.judged = judged /\ smoke'.scratch = scratch
        /\ smoke'.to = smoke.to /\ smoke'.listed = smoke.listed
    BY <1>1, <1>4, <1>10, <2>1 DEF Smokes, scratch
  <2>4. PromotionTypeOK'
    BY <1>1, <1>2, <1>4, <1>10, <2>3 DEF SmokeInv, PromotionTypeOK, L
  <2>5. Fits(judged, L + 1, smoke.to)
    <3> SUFFICES ASSUME NEW s \in Touches[f]
                 PROVE  Made(Below[f][s], judged, L, smoke.to, s)
      BY <1>4 DEF Fits, f
    <3>1. t[s] = Below[f][s] /\ s \in Sites
      BY <1>5, <1>10 DEF Finds
    <3> QED  BY <1>6, <1>7, <3>1 DEF Made
  <2>6. \A i \in 1..(L + 1) : Fits(judged, i, smoke.to)
    BY <1>4, <1>8, <2>5
  <2>7. ASSUME NEW s \in Sites
        PROVE  Made(scratch[s], judged, L + 1, smoke.to, s)
    <3>1. Made(t[s], judged, L, smoke.to, s)
      BY <1>6, <1>7 DEF Made
    <3>2. Before(judged, L, s) \subseteq Before(judged, L + 1, s)
      BY <1>4 DEF Before
    <3>3. s \in Touches[f] => f \in Before(judged, L + 1, s)
      BY <1>4 DEF Before, f
    <3> QED  BY <2>2, <3>1, <3>2, <3>3 DEF Made
  <2>8. JudgedFit'
    BY <1>4, <2>3, <2>6, <2>7 DEF JudgedFit
  <2>9. BundleFits'
    BY <1>10 DEF SmokeInv, BundleFits
  <2> QED  BY <2>4, <2>8, <2>9 DEF SmokeInv
<1>11. CASE ~Finds(t, f, smoke.to) /\ smoke' = NoSmoke /\ bundle' = Bundled(judged, FALSE)
  <2>1. /\ bundle' \in Bundles /\ bundle'.to = smoke.to /\ bundle'.judged = judged
        /\ bundle'.listed = smoke.listed /\ bundle'.ready = FALSE
    BY <1>2, <1>4, <1>11 DEF Bundled, Bundles
  <2>2. PromotionTypeOK'
    BY <1>11, <2>1 DEF PromotionTypeOK
  <2>3. PICK s \in Touches[f] : t[s] # Below[f][s]
    BY <1>11 DEF Finds
  <2>4. s \in Sites /\ Made(t[s], judged, L, smoke.to, s) /\ t[s] \in SUBSET Changes
    BY <1>5, <1>6, <1>7 DEF Made
  <2>5. Misfits(judged, L + 1, smoke.to)
    <3>1. FirstOf(judged[L + 1]) = f /\ (L + 1) - 1 = L
      BY <1>4 DEF f
    <3> QED  BY <2>3, <2>4, <3>1 DEF Misfits
  <2>6. Len(judged) \in 1..Len(smoke.listed)
    BY <1>1, <1>2, <1>4
  <2>7. BundleFits'
    BY <1>4, <2>1, <2>5, <2>6 DEF BundleFits
  <2> QED  BY <1>11, <2>2, <2>7 DEF SmokeInv, JudgedFit
<1> QED  BY <1>9, <1>10, <1>11

LEMMA PassKeeps ==
  ASSUME SmokeInv, PassSmoke, Applicator!TypeOK'
  PROVE  SmokeInv'
<1>1. smoke # NoSmoke /\ smoke \in Smokes /\ Len(smoke.judged) = Len(smoke.listed)
  BY DEF PassSmoke, SmokeInv, PromotionTypeOK
<1>2. smoke' = NoSmoke /\ bundle' = Bundled(smoke.judged, TRUE)
  BY DEF PassSmoke
<1>3. /\ bundle' \in Bundles /\ bundle'.to = smoke.to /\ bundle'.judged = smoke.judged
      /\ bundle'.listed = smoke.listed /\ bundle'.ready = TRUE
  BY <1>1, <1>2 DEF Bundled, Bundles, Smokes
<1>4. PromotionTypeOK'
  BY <1>2, <1>3 DEF PromotionTypeOK
<1>5. BundleFits'
  BY <1>1, <1>3 DEF SmokeInv, JudgedFit, BundleFits
<1> QED  BY <1>2, <1>4, <1>5 DEF SmokeInv, JudgedFit

\* Every step keeps what the smoke and its bundle say.
LEMMA SmokeStep ==
  ASSUME SmokeInv, [PromotionNext]_promotionVars
  PROVE  SmokeInv'
<1>1. Applicator!TypeOK'
  <2>1. Alone!TypeOK /\ [Alone!Next]_(Alone!vars)
    BY AloneStep, SameType DEF SmokeInv, PromotionTypeOK
  <2>2. Alone!TypeOK'
    BY <2>1, Alone!NextType, AloneAssumptions
  <2> QED
    BY <2>2 DEF Applicator!TypeOK, Alone!TypeOK, Applicator!Ledgers, Alone!Ledgers,
                Applicator!Rows, Alone!Rows
<1>2. CASE UNCHANGED <<smoke, bundle>>
  BY <1>1, <1>2 DEF SmokeInv, PromotionTypeOK, JudgedFit, BundleFits
<1>3. CASE SmokeEnds
  BY <1>1, <1>3 DEF SmokeEnds, SmokeInv, PromotionTypeOK, JudgedFit, BundleFits
<1>4. CASE \E to \in Candidates : StartSmoke(to)
  BY <1>1, <1>4, StartKeeps
<1>5. CASE TryPatch
  BY <1>1, <1>5, TryKeeps
<1>6. CASE PassSmoke
  BY <1>1, <1>6, PassKeeps
<1> QED  BY <1>2, <1>3, <1>4, <1>5, <1>6 DEF PromotionNext, promotionVars

LEMMA SmokeInit == PromotionInit => SmokeInv
<1> SUFFICES ASSUME PromotionInit  PROVE SmokeInv
  OBVIOUS
<1>1. Alone!TypeOK
  BY SameInit, Alone!InitType, AloneAssumptions DEF PromotionInit
<1> QED  BY <1>1, SameType DEF PromotionInit, SmokeInv, PromotionTypeOK, JudgedFit, BundleFits

\* The types of the smoke, its bundle and the applicator under it.
THEOREM PromotionTypes == PromotionSpec => []PromotionTypeOK
<1>1. SmokeInv /\ [PromotionNext]_promotionVars => SmokeInv'
  BY SmokeStep
<1>2. SmokeInv => PromotionTypeOK
  BY DEF SmokeInv
<1> QED  BY SmokeInit, <1>1, <1>2, PTL DEF PromotionSpec

LEMMA SmokeInvariant == PromotionSpec => []SmokeInv
<1>1. SmokeInv /\ [PromotionNext]_promotionVars => SmokeInv'
  BY SmokeStep
<1> QED  BY SmokeInit, <1>1, PTL DEF PromotionSpec

-----------------------------------------------------------------------------
\* The applicator.

LEMMA RunsInit == PromotionInit => RunsInv
<1> SUFFICES ASSUME PromotionInit  PROVE RunsInv
  OBVIOUS
<1>1. Alone!TypeOK
  BY SameInit, Alone!InitType, AloneAssumptions DEF PromotionInit
<1>2. pc = "idle" /\ tree = Base[head]
  BY DEF PromotionInit, Applicator!Init
<1> QED  BY <1>1, <1>2 DEF RunsInv, ChosenListed, WholeFiles

\* A run visits what it chose from the manifest, which nobody edits meanwhile.
LEMMA ChosenStep ==
  ASSUME RunsInv, [Alone!Next]_(Alone!vars)
  PROVE  ChosenListed'
<1>1. manifest \in Seq(Pids)
  BY DEF RunsInv, Alone!TypeOK
<1>2. CASE pc = "idle" /\ pc' # "idle"
  <2> PICK c \in {"apply", "verify", "revert"}, sel \in Alone!SelectPatches : Alone!Start(c, sel)
    BY <1>2 DEF Alone!Next, Alone!RunStep, Alone!SkipPatch, Alone!OpenPatch, Alone!ApplyFile,
       Alone!RecoverFile, Alone!ApplyConflict, Alone!RecordPatch, Alone!ReverseFile,
       Alone!RevertConflict, Alone!ForgetPatch, Alone!TruncateLedger, Alone!FillLedger,
       Alone!GitFault, Alone!Crash, Alone!Between, Alone!StartAny, Alone!RefuseTorn,
       Alone!EditPatch, Alone!Unlist, Alone!Recheckout, Alone!DropLedger, Alone!run,
       Alone!vars
  <2>1. chosen' = sel /\ manifest' = manifest
    BY DEF Alone!Start, Alone!persistent
  <2>2. CASE sel = manifest
    BY <2>1, <2>2 DEF ChosenListed
  <2>3. CASE \E m \in 1..Len(manifest) : sel = <<manifest[m]>>
    BY <2>1, <2>3 DEF ChosenListed
  <2> QED  BY <2>2, <2>3 DEF Alone!SelectPatches
<1>3. CASE pc # "idle" /\ pc' # "idle"
  <2>1. chosen' = chosen /\ manifest' = manifest
    BY <1>3 DEF Alone!Next, Alone!RunStep, Alone!SkipPatch, Alone!OpenPatch, Alone!ApplyFile,
       Alone!RecoverFile, Alone!ApplyConflict, Alone!RecordPatch, Alone!ReverseFile,
       Alone!RevertConflict, Alone!ForgetPatch, Alone!TruncateLedger, Alone!FillLedger,
       Alone!GitFault, Alone!Crash, Alone!Between, Alone!StartAny, Alone!Start,
       Alone!RefuseTorn, Alone!EditPatch, Alone!Unlist, Alone!Recheckout, Alone!DropLedger,
       Alone!run, Alone!vars, Alone!persistent, Alone!Leave
  <2> QED  BY <1>3, <2>1 DEF RunsInv, ChosenListed
<1>4. CASE pc' = "idle"
  BY <1>4 DEF ChosenListed
<1> QED  BY <1>2, <1>3, <1>4

\* git apply puts one file in, or takes one out, wherever it touches.
LEMMA WholeStep ==
  ASSUME RunsInv, [Alone!Next]_(Alone!vars)
  PROVE  WholeFiles'
<1>1. tree \in [Sites -> SUBSET Changes]
  BY DEF RunsInv, Alone!TypeOK
<1>2. CASE tree' = tree /\ head' = head
  BY <1>2 DEF RunsInv, WholeFiles
<1>3. ASSUME NEW g \in Changes, head' = head,
             tree' = Alone!Patched(g) \/ tree' = Alone!Unpatched(g)
      PROVE  WholeFiles'
  <2> SUFFICES ASSUME NEW f \in Changes, \A s \in Touches[f] : f \notin Base[head][s],
                      NEW s \in Touches[f], NEW u \in Touches[f]
               PROVE  f \in tree'[s] <=> f \in tree'[u]
    BY <1>3 DEF WholeFiles
  <2>1. s \in Sites /\ u \in Sites
    BY SeriesAssumption
  <2>2. f \in tree[s] <=> f \in tree[u]
    BY DEF RunsInv, WholeFiles
  <2>3. CASE tree' = Alone!Patched(g)
    BY <1>1, <2>1, <2>2, <2>3 DEF Alone!Patched
  <2>4. CASE tree' = Alone!Unpatched(g)
    BY <1>1, <2>1, <2>2, <2>4 DEF Alone!Unpatched
  <2> QED  BY <1>3, <2>3, <2>4
<1>4. CASE Alone!ApplyFile
  <2>1. k \in 1..Len(chosen) /\ j \in 1..Len(Alone!files)
    BY <1>4, Alone!Visited, AloneAssumptions DEF Alone!ApplyFile, RunsInv, Alone!TypeOK
  <2>2. Alone!files[j] \in Changes
    BY <2>1, Alone!Visited, AloneAssumptions DEF RunsInv
  <2> QED  BY <1>3, <1>4, <2>2 DEF Alone!ApplyFile
<1>5. CASE Alone!ReverseFile
  <2>1. k \in 1..Len(chosen) /\ j \in 1..Len(Alone!files)
    BY <1>5, Alone!Visited, AloneAssumptions
       DEF Alone!ReverseFile, RunsInv, Alone!TypeOK, Alone!files, Alone!content, Alone!pid
  <2>2. Alone!files[j] \in Changes
    BY <2>1, Alone!Visited, AloneAssumptions DEF RunsInv
  <2> QED  BY <1>3, <1>5, <2>2 DEF Alone!ReverseFile
<1>6. ASSUME NEW r \in Revs, Alone!Recheckout(r)
      PROVE  WholeFiles'
  BY <1>6 DEF Alone!Recheckout, WholeFiles
<1> QED  BY <1>2, <1>4, <1>5, <1>6, Alone!TreeSteps, AloneAssumptions

LEMMA RunsInvariant == PromotionSpec => []RunsInv
<1>1. RunsInv /\ [PromotionNext]_promotionVars => RunsInv'
  <2> SUFFICES ASSUME RunsInv, [PromotionNext]_promotionVars  PROVE RunsInv'
    OBVIOUS
  <2>1. [Alone!Next]_(Alone!vars)
    BY AloneStep
  <2>2. Alone!TypeOK'
    BY <2>1, Alone!NextType, AloneAssumptions DEF RunsInv
  <2> QED  BY <2>1, <2>2, ChosenStep, WholeStep DEF RunsInv
<1> QED  BY RunsInit, <1>1, PTL DEF PromotionSpec

-----------------------------------------------------------------------------
\* What the smoke's verdict is worth.

\* Where patches do not meet, nothing judged before is at a patch's site.
LEMMA JudgedAlone ==
  ASSUME SmokeInv, Concerns(bundle), Apart, NEW m \in 1..Len(bundle.judged),
         Len(bundle.judged) <= Len(bundle.listed)
  PROVE  /\ m \in DOMAIN manifest /\ bundle.judged[m] = patchdir[manifest[m]]
         /\ bundle.judged[m] \in Hashes /\ bundle.to = head
         /\ \A s \in Touches[FirstOf(bundle.judged[m])] : Before(bundle.judged, m - 1, s) = {}
<1>1. bundle \in Bundles /\ bundle.judged \in Seq(Hashes) /\ bundle.listed \in Seq(Pids)
  BY DEF Concerns, SmokeInv, PromotionTypeOK, Bundles
<1>2. /\ manifest = bundle.listed /\ bundle.to = head
      /\ \A i \in 1..Len(bundle.judged) :
           i \in DOMAIN manifest /\ bundle.judged[i] = patchdir[manifest[i]]
  BY <1>1 DEF Concerns
<1>3. ASSUME NEW s \in Touches[FirstOf(bundle.judged[m])], NEW a \in 1..(m - 1),
             s \in Touches[FirstOf(bundle.judged[a])]
      PROVE  FALSE
  <2>1. a \in 1..Len(bundle.judged) /\ a # m
    BY <1>1
  <2>2. /\ FirstOf(bundle.judged[a]) \in FileSet(patchdir[manifest[a]])
        /\ FirstOf(bundle.judged[m]) \in FileSet(patchdir[manifest[m]])
    BY <1>1, <1>2, <2>1, FirstType
  <2>3. Touches[FirstOf(bundle.judged[a])] \cap Touches[FirstOf(bundle.judged[m])] = {}
    BY <1>2, <2>1, <2>2 DEF Apart
  <2> QED  BY <1>3, <2>3
<1>4. \A s \in Touches[FirstOf(bundle.judged[m])] : Before(bundle.judged, m - 1, s) = {}
  BY <1>3 DEF Before
<1>5. bundle.judged[m] \in Hashes
  BY <1>1
<1> QED  BY <1>2, <1>4, <1>5

\* Where src/ has nothing but upstream's text and the series, whose patches do not
\* meet, a patch file finds upstream's text or itself over it.
LEMMA AloneAtSite ==
  ASSUME Apart, OnlyOurs, NEW m \in DOMAIN manifest,
         NEW f \in FileSet(patchdir[manifest[m]]), NEW s \in Touches[f], s \in Sites
  PROVE  tree[s] = Base[head][s] \/ tree[s] = Base[head][s] \cup {f}
<1>1. ASSUME NEW g \in SeriesFiles, s \in Touches[g]
      PROVE  g = f
  <2> PICK b \in DOMAIN manifest : g \in FileSet(patchdir[manifest[b]])
    BY DEF SeriesFiles
  <2>1. g # f => Touches[g] \cap Touches[f] = {}
    BY DEF Apart
  <2> QED  BY <1>1, <2>1
<1>2. Base[head][s] \subseteq tree[s] /\ tree[s] \subseteq Base[head][s] \cup {f}
  BY <1>1 DEF OnlyOurs
<1> QED  BY <1>2

\* What promotion.py:188-241 promotes the applicator does not refuse, for every
\* series and upstream, within what PromotedApplies names.
LEMMA PromotedStep ==
  ASSUME SmokeInv, RunsInv, Applicator!ApplyConflict, Concerns(bundle), bundle.ready,
         \A i \in DOMAIN manifest : Len(FilesOf[patchdir[manifest[i]]]) = 1,
         Apart, OnlyOurs
  PROVE  FALSE
<1>1. /\ pc = "file" /\ cmd = "apply" /\ j <= Len(FilesOf[patchdir[chosen[k]]])
      /\ ~(\A s \in Touches[FilesOf[patchdir[chosen[k]]][j]] :
             tree[s] = Below[FilesOf[patchdir[chosen[k]]][j]][s])
      /\ ~(\A s \in Touches[FilesOf[patchdir[chosen[k]]][j]] :
             tree[s] = Below[FilesOf[patchdir[chosen[k]]][j]][s]
                         \cup {FilesOf[patchdir[chosen[k]]][j]})
  BY DEF Applicator!ApplyConflict, Applicator!AppliesCleanly, Applicator!ReversesCleanly,
         Applicator!files, Applicator!content, Applicator!pid
<1>2. /\ k \in 1..Len(chosen) /\ j >= 1 /\ j \in Nat
      /\ manifest \in Seq(Pids) /\ patchdir \in [Pids -> Hashes]
  BY <1>1 DEF RunsInv, Alone!TypeOK
<1>3. PICK m \in 1..Len(manifest) : chosen[k] = manifest[m]
  BY <1>1, <1>2 DEF RunsInv, ChosenListed
<1> DEFINE h == patchdir[manifest[m]]
           f == FirstOf(h)
<1>4. m \in DOMAIN manifest /\ h \in Hashes
  BY <1>2
<1>5. j = 1 /\ FilesOf[patchdir[chosen[k]]][j] = f
  <2>1. Len(FilesOf[h]) = 1
    BY <1>4
  <2>2. patchdir[chosen[k]] = h
    BY <1>3
  <2>3. Len(FilesOf[patchdir[chosen[k]]]) = 1
    BY <2>1, <2>2
  <2> HIDE DEF h
  <2>4. j <= 1
    BY <1>1, <2>3
  <2>5. j = 1
    BY <1>2, <2>4
  <2>6. FilesOf[patchdir[chosen[k]]][j] = FilesOf[h][1]
    BY <2>2, <2>5
  <2> QED  BY <2>5, <2>6 DEF FirstOf
<1>6. f \in FileSet(h) /\ f \in Changes /\ Touches[f] \subseteq Sites
  BY <1>4, FirstType
<1>7. /\ Len(bundle.judged) = Len(bundle.listed) /\ bundle.listed = manifest
      /\ Fits(bundle.judged, m, bundle.to)
  <2>1. bundle # NoBundle /\ bundle.listed = manifest
    BY DEF Concerns
  <2> QED  BY <2>1 DEF SmokeInv, BundleFits
<1>8. /\ bundle.judged[m] = h /\ bundle.to = head
      /\ \A s \in Touches[f] : Before(bundle.judged, m - 1, s) = {}
  BY <1>7, JudgedAlone
<1>9. \A s \in Touches[f] : Below[f][s] = Base[head][s]
  BY <1>7, <1>8 DEF Fits, Made
<1>10. \A s \in Touches[f] : f \notin Base[head][s]
  BY <1>6, <1>9, SeriesAssumption
<1> HIDE DEF h, f
<1>11. \A s \in Touches[f] : tree[s] = Base[head][s] \/ tree[s] = Base[head][s] \cup {f}
  BY <1>4, <1>6, AloneAtSite DEF h
<1>12. PICK s \in Touches[f] : tree[s] # Below[f][s]
  BY <1>1, <1>5
<1>13. PICK u \in Touches[f] : tree[u] # Below[f][u] \cup {f}
  BY <1>1, <1>5
<1>14. f \in tree[s] /\ f \notin tree[u]
  BY <1>9, <1>10, <1>11, <1>12, <1>13
<1> QED  BY <1>6, <1>10, <1>14 DEF RunsInv, WholeFiles

\* For every series, upstream and candidate: a series the smoke passed, not re-cut
\* since, is never refused by the applicator at that revision, through crashes, git
\* faults, lost ledgers and reverts (promotion.py:188-241, apply.py:291-320).
THEOREM PromotedSeriesApply == PromotionSpec => PromotedApplies
<1>1. SmokeInv /\ RunsInv /\ [PromotionNext]_promotionVars =>
        [ Applicator!ApplyConflict =>
            ~(/\ Concerns(bundle) /\ bundle.ready
              /\ \A i \in DOMAIN manifest : Len(FilesOf[patchdir[manifest[i]]]) = 1
              /\ Apart /\ OnlyOurs) ]_promotionVars
  BY PromotedStep
<1> QED  BY <1>1, SmokeInvariant, RunsInvariant, PTL DEF PromotionSpec, PromotedApplies

\* A record is backed alike for the applicator inside the promotion and alone.
LEMMA SameTruthful == Applicator!Truthful => Alone!Truthful
<1>1. ASSUME NEW h PROVE Applicator!Backed(h) <=> Alone!Backed(h)
  BY DEF Applicator!Backed, Alone!Backed, Applicator!InTree, Alone!InTree,
     Applicator!FileSet, Alone!FileSet
<1> QED
  BY <1>1 DEF Applicator!Truthful, Alone!Truthful, Applicator!RunBacked, Alone!RunBacked,
     Applicator!LedgerBacked, Alone!LedgerBacked, Applicator!files, Alone!files,
     Applicator!content, Alone!content, Applicator!pid, Alone!pid,
     Applicator!FileSet, Alone!FileSet, Applicator!InTree, Alone!InTree

\* The other way round.
LEMMA RefusedStep ==
  ASSUME SmokeInv, Alone!IInv, StacksStand, [PromotionNext]_promotionVars,
         cmd = "apply", exit' = "ok", chosen = manifest,
         Concerns(bundle), ~bundle.ready, Apart, OnlyOurs, Applicator!Truthful,
         \A f \in SeriesFiles : \A s \in Touches[f] : f \notin Base[head][s]
  PROVE  FALSE
<1>1. Alone!Truthful
  BY SameTruthful
<1>2. \A i \in 1..Len(chosen) : Alone!Backed(patchdir[chosen[i]])
  BY <1>1, AloneStep, Alone!AppliedStep, AloneAssumptions
<1> DEFINE n == Len(bundle.judged)
           h == bundle.judged[n]
           f == FirstOf(h)
<1>3. /\ n \in 1..Len(bundle.listed) /\ bundle.listed = manifest
      /\ Misfits(bundle.judged, n, bundle.to)
  <2>1. bundle # NoBundle /\ bundle.listed = manifest
    BY DEF Concerns
  <2> QED  BY <2>1 DEF SmokeInv, BundleFits
<1>4. n \in 1..n /\ n <= Len(bundle.listed)
  BY <1>3
<1>5. /\ n \in DOMAIN manifest /\ h = patchdir[manifest[n]] /\ h \in Hashes
      /\ bundle.to = head /\ \A s \in Touches[f] : Before(bundle.judged, n - 1, s) = {}
  BY <1>4, JudgedAlone
<1>6. f \in FileSet(h) /\ f \in Changes /\ Touches[f] \subseteq Sites
  BY <1>5, FirstType
<1>7. \A s \in Touches[f] : f \in tree[s]
  <2>1. n \in 1..Len(chosen) /\ h = patchdir[chosen[n]]
    BY <1>3, <1>5
  <2> QED  BY <1>2, <1>6, <2>1 DEF Alone!Backed, Alone!InTree, Alone!FileSet, FileSet
<1>8. PICK s \in Touches[f] : Base[head][s] # Below[f][s]
  <2> HIDE DEF n
  <2>1. PICK s \in Touches[f] : \E x \in SUBSET Changes :
          Made(x, bundle.judged, n - 1, bundle.to, s) /\ x # Below[f][s]
    BY <1>3 DEF Misfits
  <2> PICK x \in SUBSET Changes :
          Made(x, bundle.judged, n - 1, bundle.to, s) /\ x # Below[f][s]
    BY <2>1
  <2>2. x = Base[head][s]
    BY <1>5 DEF Made
  <2> QED  BY <2>2
<1>9. f \in SeriesFiles
  BY <1>5, <1>6 DEF SeriesFiles
<1> HIDE DEF n, h, f
<1>10. f \notin Base[head][s] /\ s \in Sites /\ f \in tree[s]
  BY <1>6, <1>7, <1>9
<1>11. tree[s] = Base[head][s] \cup {f}
  BY <1>5, <1>6, <1>10, AloneAtSite
<1>12. Base[head][s] \subseteq Below[f][s] /\ Below[f][s] \subseteq tree[s]
  BY <1>10, <1>11 DEF StacksStand, Applicator!StacksStand
<1>13. f \notin Below[f][s]
  BY <1>6, <1>10, SeriesAssumption
<1> QED  BY <1>8, <1>11, <1>12, <1>13

\* For every series, upstream and candidate: apply does not end well over a series
\* the smoke refused, within what RefusedStops names.  That the tree is a stack at
\* every site is what excludes that the refused file came in by a detour.
THEOREM RefusedSeriesStop == PromotionSpec => RefusedStops
<1>1. SmokeInv /\ Alone!IInv /\ StacksStand /\ [PromotionNext]_promotionVars =>
        [ cmd = "apply" /\ exit' = "ok" /\ chosen = manifest =>
            ~(/\ Concerns(bundle) /\ ~bundle.ready
              /\ Apart /\ OnlyOurs /\ Applicator!Truthful
              /\ \A f \in SeriesFiles : \A s \in Touches[f] : f \notin Base[head][s])
        ]_promotionVars
  BY RefusedStep
<1> QED
  BY <1>1, SmokeInvariant, AloneInvariant, PromotedSeriesStand, PTL
     DEF PromotionSpec, RefusedStops
=============================================================================
