------------------------------ MODULE Promotion ------------------------------
(***************************************************************************)
(* The weekly promotion (build/upstream/promotion.py) and what follows it: *)
(* the smoke tries the patch series over a scratch tree of the candidate's *)
(* files, its verdict goes into a bundle, a person moves the pin on it,    *)
(* src/ is synced there and xr-patch (PatchApply, composed as Applicator)  *)
(* applies the series.  What the verdict is worth is what the applicator   *)
(* then does, crashes and re-runs included.                                *)
(*                                                                         *)
(* People re-cut and retire patches at any time.  Smoke and applicator     *)
(* share only the manifest and the patch dirs, which neither writes, so    *)
(* the smoke's steps are taken between the applicator's runs.              *)
(***************************************************************************)
EXTENDS Series

CONSTANTS
  NoRow, TornLedger,
  NewFiles,  \* sites that are whole files which upstream need not have
  Removals,  \* upstream changes that take the file away
  Candidates,\* bound: revisions of the series' tags
  NoSmoke, NoBundle

VARIABLES
  tree, head, manifest, patchdir, ledger,    \* the applicator's
  pc, cmd, chosen, k, j, applied, exit,
  smoke,   \* the smoke under way, or NoSmoke
  bundle   \* work/upstream-cache/promotion, or NoBundle

Applicator == INSTANCE PatchApply WITH Torn <- TornLedger

applicatorVars == <<tree, head, manifest, patchdir, ledger,
                    pc, cmd, chosen, k, j, applied, exit>>
promotionVars == <<applicatorVars, smoke, bundle>>

ScratchTrees == [Sites -> SUBSET Changes]

\* judged: the contents of the patches tried so far; scratch: the temporary tree.
Smokes == [to : Candidates, listed : Seq(Pids), judged : Seq(Hashes), scratch : ScratchTrees]

\* listed and judged are not in the report: what it is about.
Bundles == [to : Candidates, listed : Seq(Pids), judged : Seq(Hashes), ready : BOOLEAN]

ASSUME PromotionAssumption ==
  /\ NewFiles \subseteq Sites /\ Removals \subseteq Changes
  /\ \A f \in Changes : \A s \in Touches[f] : Below[f][s] \cap Removals = {}
  /\ Candidates \subseteq Revs
  /\ NoSmoke \notin Smokes /\ NoBundle \notin Bundles
  /\ NoRow \notin Applicator!Rows /\ TornLedger \notin Applicator!Ledgers

PromotionTypeOK ==
  /\ Applicator!TypeOK
  /\ smoke \in Smokes \cup {NoSmoke}
  /\ smoke # NoSmoke => Len(smoke.judged) <= Len(smoke.listed)
  /\ bundle \in Bundles \cup {NoBundle}

PromotionInit == Applicator!Init /\ smoke = NoSmoke /\ bundle = NoBundle

NotAt(r, s) == IF s \in NewFiles THEN Base[r][s] = {} ELSE Base[r][s] \cap Removals # {}
DirSites(h) == UNION {Touches[f] : f \in FileSet(h)}

\* The patch's files are written as upstream has them, over whatever an earlier
\* patch made of them; one that upstream does not have stays as it is.
Fetched(t, h, r) == [s \in Sites |->
  IF s \in DirSites(h) /\ ~NotAt(r, s) THEN Base[r][s] ELSE t[s]]

\* Wrong on purpose, for a mutant: a file that is not there is passed over.
FindsPresent(t, f, r) == \A s \in Touches[f] : NotAt(r, s) \/ t[s] = Below[f][s]

\* Wrong on purpose, for a mutant: a file that is not there refuses the patch.
FindsNothingAbsent(t, f, r) == \A s \in Touches[f] : ~NotAt(r, s) /\ t[s] = Below[f][s]

\* git apply in the scratch tree.
Finds(t, f, r) == \A s \in Touches[f] : t[s] = Below[f][s]

\* The old bundle is deleted before anything is tried.  The scratch tree starts
\* empty; a site of it counts only once its file was asked for, so that
\* upstream's text, of which an absent file is one, may stand there already.
StartSmoke(to) ==
  /\ smoke = NoSmoke
  /\ smoke' = [to |-> to, listed |-> manifest, judged |-> <<>>, scratch |-> Base[to]]
  /\ bundle' = NoBundle
  /\ UNCHANGED applicatorVars

trying == smoke.listed[Len(smoke.judged) + 1]

Bundled(judged, ready) ==
  [to |-> smoke.to, listed |-> smoke.listed, judged |-> judged, ready |-> ready]

\* The next patch's first file is tried.
TryPatch ==
  /\ smoke # NoSmoke /\ Len(smoke.judged) < Len(smoke.listed)
  /\ \E i \in DOMAIN manifest : manifest[i] = trying
  /\ LET h == patchdir[trying]
         f == FilesOf[h][1]
         t == Fetched(smoke.scratch, h, smoke.to)
         judged == Append(smoke.judged, h)
     IN  \/ /\ Finds(t, f, smoke.to)
            /\ smoke' = [smoke EXCEPT !.judged = judged, !.scratch =
                 [s \in Sites |-> IF s \in Touches[f] THEN t[s] \cup {f} ELSE t[s]]]
            /\ UNCHANGED bundle
         \/ /\ ~Finds(t, f, smoke.to)
            /\ smoke' = NoSmoke /\ bundle' = Bundled(judged, FALSE)
  /\ UNCHANGED applicatorVars

\* All of the series passed, and so did the other steps (argsets, branding, SBOM,
\* assumptions).
PassSmoke ==
  /\ smoke # NoSmoke /\ Len(smoke.judged) = Len(smoke.listed)
  /\ smoke' = NoSmoke /\ bundle' = Bundled(smoke.judged, TRUE)
  /\ UNCHANGED applicatorVars

\* Anything else ends it: a dir that is gone, a fetch that fails for another
\* reason than a 404, another step that fails, a death.  What a bundle then says
\* is not about the series.
SmokeEnds ==
  /\ smoke # NoSmoke
  /\ smoke' = NoSmoke
  /\ UNCHANGED <<applicatorVars, bundle>>

PromotionNext ==
  \/ Applicator!Next /\ UNCHANGED <<smoke, bundle>>
  \/ pc = "idle" /\ ((\E to \in Candidates : StartSmoke(to)) \/ TryPatch \/ PassSmoke \/ SmokeEnds)

PromotionSpec == PromotionInit /\ [][PromotionNext]_promotionVars
-----------------------------------------------------------------------------
\* No patch is taken out from under another, by the applicator alone or between two
\* promotions (a re-cut of one patch stands on another one here).
StacksStand == Applicator!StacksStand

\* The bundle is about the series as it is and the revision src/ is at.
Concerns(b) ==
  /\ b # NoBundle
  /\ b.to = head /\ b.listed = manifest
  /\ \A i \in DOMAIN b.judged : patchdir[manifest[i]] = b.judged[i]

SeriesFiles == UNION {FileSet(patchdir[manifest[i]]) : i \in DOMAIN manifest}

\* src/ is upstream's text and nothing but the series, whole or in part.
OnlyOurs == \A s \in Sites :
  /\ Base[head][s] \subseteq tree[s]
  /\ tree[s] \subseteq Base[head][s] \cup {f \in SeriesFiles : s \in Touches[f]}

\* No two files of the series meet at a site.
Apart == \A a, b \in DOMAIN manifest :
  \A f \in FileSet(patchdir[manifest[a]]), g \in FileSet(patchdir[manifest[b]]) :
    f # g \/ a # b => Touches[f] \cap Touches[g] = {}

\* A series that was promoted is never refused by the applicator at that revision,
\* through crashes, git faults, lost ledgers and reverts, as long as it is not
\* re-cut, and within what the smoke looks at: the first file of each dir, each
\* over upstream's text.
PromotedApplies == [][
  Applicator!ApplyConflict =>
    ~(/\ Concerns(bundle) /\ bundle.ready
      /\ \A i \in DOMAIN manifest : Len(FilesOf[patchdir[manifest[i]]]) = 1
      /\ Apart /\ OnlyOurs)]_promotionVars

\* A series that was refused is not taken by the applicator at that revision
\* either, unless its patches meet, which is how a stack is refused, or upstream
\* has a change already, which the applicator takes for applied.  A ledger that
\* does not tell the truth is another matter.
RefusedStops == [][
  cmd = "apply" /\ exit' = "ok" /\ chosen = manifest =>
    ~(/\ Concerns(bundle) /\ ~bundle.ready
      /\ Apart /\ OnlyOurs /\ Applicator!Truthful
      /\ \A f \in SeriesFiles : \A s \in Touches[f] : f \notin Base[head][s])]_promotionVars
=============================================================================
