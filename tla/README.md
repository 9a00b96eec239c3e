# TLA+ models of xr-browser

xr-browser is a thin fork of Chromium: a meta repository that pins an upstream
revision and a patch repository (`xr-core`), builds the tree out of the two,
keeps the patch series alive as upstream moves, and serves updates of the
result. The code that decides something with state is Python tooling and one
stateless update server with a Rust twin. This directory models that code in
TLA+, checks it with TLC on small instances and proves the main theorems with
TLAPS for all values of the constants. Paths below are relative to the
repository root.

## 1. The system

| Component | Code | State it keeps | Operations | Modelled |
|---|---|---|---|---|
| Patch applicator | `build/patching/apply.py` | tree under `src/`, ledger `.xr/patch-apply.json` | apply, verify, revert, lint | `PatchApply` |
| Patch retirement | `build/patching/retire.py`, `build/upstream/retirements.py` | manifest and patch dirs of xr-core, `retirements.json` of the meta repo, git history of both | retire with rollback, retirement-lint | `Retirement` |
| Update server | `release/server/refimpl/update_server_ref.py`, `release/server/rust/src/lib.rs` | none of its own: the spec YAMLs an operator edits | one `handle()` per request | `Rollout` |
| Update client | external (xr-core verifier); golden vectors and drill here | installed version, pinned epoch, replay set, sticky revocation | check, accept, deny, install | `Rollout` |
| Checkout and pins | `build/sync.py`, `build/preflight.py` | `src/`, egress record, sibling clone | sync, check-pin-alive, refresh | effect on tree and ledger only |
| Fetch chokepoint | `build/upstream/fetch.py` | cache directory, shared by processes | fetch with 3 attempts, immutable cache | `Fetch` |
| Rebase bot | `build/upstream/rebase_bot.py`, `classify.py`, `issues.py` | report, issue bundles, prepared branches | classify, report, route, prepare a branch | `Rebase` |
| Promotion | `build/upstream/promotion.py` | scratch tree, bundle | smoke of a candidate revision | `Promotion`, over `PatchApply` |
| Scheduled-lane gate | `tools/scheduled_lane_check.py` | none: runs and jobs of the API, dates of commits | judge each lane, from governance and from each lane | `Lanes` |
| Range gates | `tools/amend_guard.py`, `dr_parse.py`, `dco_check.py`, `entrypoint_mode_check.py`, `freeze_check.py` | none: main, the runs over it | judge the commits of a push | `Commits` |
| Phase closure | `tools/evidence_*.py` | bundles under `evidence/`, `docs/state/phase-base.json` | interim, final, corrections, ci-run claims | `Evidence` |
| Fast lane | `build/upstream/fastlane.py`, `fork_health.py` | freeze marker | plan, clock, health | no |
| Mutation harness | `tools/mutation_test.py` | source tree, objects, timestamps | mutate, rebuild, score, restore | `Mutation` |
| In-place rewrite | `tools/inplace.py` | one file | atomic replace | `Inplace`, implementing `AtomicFile` |
| Sibling pin reader | `tools/xr_sibling.py` | none | read head, pin, cleanliness | no |
| Budget, categories, assumption suite | `build/farm/budget_meter.py`, `build/upstream/assumptions.py` | none | counts and regular expressions over files | no |
| List compiler and signer | `xr-lists/compile.py`, `sign.py` | none beyond one pass | translate, sign | no |
| Other gates and linters | `tools/release_gate.py`, `tools/ci_*.py`, ... | none | predicates of one committed tree | no |
| Build wrappers, signing, SBOM, branding, GN | `build/gn`, `build/sbom`, `build/signing`, ... | files of external tools | run external tools | no |
| Browser harnesses, generators, matrices | `build/spike`, `build/qa`, `build/webui`, `tools/*matrix*`, `tools/gen_*` | none that lasts | measure, generate vectors | no |

`PROJECT.json` lists the same components with the reason for each that is left
out: they are pure functions of one committed tree, wrappers around external
tools, or test infrastructure for code of other repositories.

### How the components interact

* `sync.py` writes `src/` at the pin in `DEPS`; `apply.py` patches that tree and
  writes `<checkout>/.xr/patch-apply.json`, *beside* `src/`, so that a fresh
  `src/` does not carry a fresh ledger.
* `retire.py` edits xr-core's manifest and deletes a patch dir, then appends to
  the meta repo's retirement ledger. The two repositories are committed
  separately, and the meta repo sees xr-core through a pin. `retirements.py`
  lints one meta commit against the history of the manifest up to that pin.
* The rebase bot and the promotion smoke judge a patch series against another
  revision; a green verdict is what a person re-pins on, and what `apply.py`
  then has to live up to. Both read upstream through `fetch.py`, each in a process
  of its own, over one cache.
* A push to main starts governance, which judges the push's commits (range
  gates), the evidence bundles and the other workflows' scheduled runs, and cancels the
  run of the push before. The lanes themselves end by judging each other.
* The update server renders each answer from the spec of the moment; an
  operator edits that spec between any two requests; clients hold on to answers
  and may be fed old ones. The epoch in the spec, the epoch a client has pinned
  and the revocation notice travel separately.

### What is hard

There are no threads in the modelled code. What is concurrent is processes and
people: a run can die between any two file operations, `write_text` can be cut
short, `git apply` can fail after a clean check, and between runs somebody
re-cuts patches, retires them, deletes `src/` and syncs anew, resets a working tree, deletes a ledger,
moves a pin, edits a ramp. `PROJECT.json` `hazards` lists each such exposure at
its line, with the properties that would catch it going wrong, or the reason for
those that none covers. In CI the concurrent parties are workflow runs: one can be
cancelled, overtaken or unreachable when another reads it.

### What makes each component correct

* **Applicator.** The ledger never claims a patch that is not in the tree;
  exit 0 means every selected patch is in the tree in its current content; a
  death at any point is repaired by re-running; a no-op is taken only for a
  patch that is there; a recorded series can be taken out again.
* **Retirement.** A run retires its patch or puts it back, and gains or loses no
  other row (but for a write of the ledger cut short); a patch that leaves the manifest
  without a ledger row is caught whatever path it left by; nothing is both listed
  and retired.
* **Server and client.** No client gets a version from outside the ramps that
  version was offered at; no client goes backwards; a client in an open ramp
  arrives; a revoked epoch gets no offers.
* **Rebase bot.** A GREEN report means that `apply.py` takes the series at the
  target; a report that is not GREEN has a reason in the texts; each patch in
  conflict reaches its owner.
* **Promotion.** A promoted series is never refused by the applicator at that
  revision, and a refused one is not taken by it.
* **Lanes.** A lane that is broken is red, a lane that is red is broken, and once
  nothing is broken the fleet turns green by itself.
* **Range gates.** A green commit keeps every law a range gate enforces.
* **Phase closure.** A final phase was proven at its own head, and a phase that was
  can always be closed by appending.
* **Mutation harness.** A verdict is of the mutant it names, and a passing gate is
  earned.
* **In-place rewrite, fetch.** A reader sees a whole file; a fetch ends.

## 2. Modules

### Series

The vocabulary of `PatchApply` and `Rebase`: patches, their contents and files,
the sites a file touches, the text it was cut against and upstream's text at each
revision.

* A tree is a function from *sites* (text regions) to the set of changes each
  contains. A patch file adds one change to each site it touches, and was cut
  against a definite content there (`Below`). `git apply --check` is equality
  with that content, `--reverse --check` equality with that content plus the
  change. Stacked patches, a change upstream has taken, and conflicts are all
  instances of this. `git apply` is external, and all-or-nothing per patch file
  as `docs/contracts/patch-manifest-v1.md:45` requires.
* A content hash is a model value standing for a patch dir's content
  (`FilesOf[h]` is its sorted list of patch files, `ContentsOf[p]` what a dir may
  be re-cut to).
* `CutFor` is the simple case: a series of patches that do not meet, each cut for a
  revision's text or taken by upstream. It is where the bot's verdict and the applicator
  meet: a GREEN report shows it, and under it apply is never refused (section 4).

### PatchApply

One run of `xr-patch apply|verify|revert` at a time over a tree, plus what may
happen between runs.

* `pc`, `chosen`, `k`, `j`, `applied` are `cmd()`'s control: the selected
  patches, the loop over them, the loop over files (forward for apply, backward
  for revert), and the in-memory ledger. `Leave` is every return path; a failed
  run returns *without* `write_ledger`, and so does the model.
* The write of the ledger is two steps (`TruncateLedger`, `FillLedger`) because
  `write_text` is; `Crash` may come at any step, `GitFault` after any clean check.
* Between runs: `EditPatch` (re-cut), `Unlist` (retirement), `Recheckout` (a
  fresh `src/`; the ledger stays), `DropLedger` (the way out of a torn ledger).

The theorem that the ledger is truthful does not hold without qualification and
the model says exactly where: see the property `StaysTruthful` and section 6. Of a series
that is stacked what holds is `StacksStand`: at every site the patch files are a stack, each
one on the text it was cut against, and none is taken out from under another.

`MCPatchApply` gives two series: an independent one (a two-file dir that is
re-cut once, and a one-file dir that upstream takes at the second revision) and a
stacked one (`top` cut on top of `low`).

### Rebase

`run_rebase` step by step: `StartRun` reads the manifest and the pin,
`ClassifyPatch` reads one patch dir and fetches its files at both revisions,
`WriteReport` puts the report on disk, `RouteIssues` or `PrepareBranch` does what
the verdict asks for, and `RunEnds` is an exception or a death at any of these
points. `classify.py` is the pure part: `ClassOf` is `classify_patch` (stale base,
then clean at the target as a whole, then the worst of the files' classes),
`FileClass` its third step with `classify_file`, `Worst` and `VerdictOf` as
named. A site is a file of the manifest, or a region of one. `Missing` is a 404
(`NewFiles`: whole files upstream need not have; `Removals`: upstream changes that take
the file away); `lost` is what failed to be fetched at the target, which the code
takes for a 404 (`Absent`). `Conflicts` stands for `git merge-file`; which
upstream edits collide with a patch file's lines is the constant `Overlaps`.

While a run is going people re-cut (`EditPatch`) and retire (`Unlist`) patches
and move the pin (`Repin`): the bot takes no lock, and checks only xr-core's
`HEAD`, once, not its working tree. A row keeps the content that was judged
(`hash`) and what was lost as history, so that a property can say when a report is still
about the series as it is.

`TextBefore` and `SeriesApplies` say what `apply.py` would do with a whole series on
a fresh `src/`: each file of each dir in order, over what the earlier ones left.
`GreenMeansApplies` relates the two tools. It holds with three exceptions, each of which
is something the bot does not look at: a dir's second and later patch files
(`patch_texts[0]`), two patches that meet at a site, and an added file that could not be
fetched at the target (finding 6). Without any one of the three hypotheses TLC
violates it, in `MCRebase`'s series or, for the second, in one with a stack.

`MCRebase` has a patch that edits a file and is re-cut, with a second file that only
one revision takes, and a patch that adds a file which upstream has at the
third revision.

### Retirement

`cmd_retire` step by step: `Surgery` (manifest rewritten), `RemoveTree`
(`rmtree`), `AppendRow`; and the `except` clause as its two steps `Rollback`
(manifest text back) and `RestoreDir` (the backup is copied only when nothing of
the dir is left). `Fault` raises from any of the three file operations, part of
the way through; `Crash` dies in any. Between runs people add patches, remove
them by hand, commit either repository, move the pin and reset either working
tree. The lint (`RemovedEver`, `StillPresent`, `WithoutLedger`, `LintPasses`) is
a definition over the committed state: xr-core's history to the pin and the
ledger of the meta commit. Whether a row passes the schema checks of
`append_retirement` is one flag, `valid`. `had` is a history variable: the ledger as the
run found it.

### Rollout

`Handle` is `handle()`'s decision for one app entry: gate, pause, epoch
revocation, ramp, version, in the code's order. The server has no state, so the
variables are the spec YAMLs, and the operator's edits (`Publish`, `SetRamp`,
`Pause`, `Serve`, `Rotate`, `Revoke`) interleave with requests in flight. The
client is external and is what the golden vectors
(`tools/update_vectors_families.py`) and the drill (`tools/rollout_drill.py`)
say it does: the epoch law, the monotonic law, the replay law (`SeenSet` is
written before the verdict, so a lost download is refused on retry) and the
sticky revocation. `Replay` feeds a client any answer it ever got. `exposed` is a
history variable: the widest ramp at which each version was the head.

`Staged` is what all of this amounts to for a client's version, without channel, epochs,
pauses, answers or replays: an update begins once for each version, upwards, inside the
exposure of that version, and ends in it or in nothing; by hand the version becomes the head.
The refinement mapping (`Promise`) takes an update for begun when the answer is accepted
(`begun` is the client's `SeenSet`, `updating` what it downloads); `RolloutIsStaged` is
`Promise!StagedSpec`.

Left out: signatures, package hashes and request parsing (the model's requests
are well formed, its answers authentic), and the hash that maps an install id to a
bucket (a client has *some* fixed bucket).

### Promotion

The smoke of `promotion.py` and what follows it. `StartSmoke` deletes the old bundle and
reads the manifest, `TryPatch` takes one patch (its files fetched anew over whatever the
patches before it made of them, then its first patch file applied), `PassSmoke` writes a
promo-ready bundle, and `SmokeEnds` is every other way out. The applicator is not restated: the module
instantiates `PatchApply` (`Applicator`) over the same manifest, patch dirs and revisions,
and its next-state relation takes `Applicator!Next` as it is, crashes, git faults, re-cuts,
retirements and fresh checkouts included. `PromotedApplies` and `RefusedStops` relate the two: what a
bundle says of a series, and what the applicator then does with it at that revision.

Each holds under the hypotheses it names, all of which are things the smoke does not look
at or people may change: the bundle is about the series and the revision as they are
(`Concerns`), each dir has one patch file, patches do not meet (`Apart`), `src/` holds
nothing but upstream and the series (`OnlyOurs`). Without any one of them TLC violates the
property, in this instance or in one with a stack or a two-file dir.

Smoke and applicator write nothing the other reads, so the smoke's steps are taken while
the applicator is idle: this loses no behaviour of either and keeps the product small.

### Lanes

The runs of each scheduled workflow as the API lists them, newest first, one page of them.
`LaneFails` is `check_lane`'s verdict FAIL; governance uses it as it is, a lane's last step
uses it with `--own-lane` (`HealthFails`). A run ends `work` (a step of its own failed),
`health` (only the lane-health step did), `success` or `cancelled`. There is no clock: of
dates, only whether a commit came after a run matters (`touched.real`), and whether its date
looks so when compared as text (`touched.shown`).

### Commits

Main as a sequence of commits, each with what it touches, its trailers and the tree it leaves
(`Trees`: what the freeze registers say, whether the RFC is approved, the script's exec bit).
`PushMain` starts a run over the commits of one push and cancels the one under way; `EndRun`
judges them (`RunFails`), the registers being read at the push's HEAD. The first push has no
range, and each gate then does something else: the whole history (`dr_parse`, `dco_check`), the
last commit (`amend_guard`), nothing (the mode-drift law).

### Evidence

One phase from its first commit to the next phase. A push may append a DoD row, of any id and
correcting any id, and rewrites the rest of the bundle; governance at each push judges the bundle
(`BundlePasses`). A row is its id, whether its status pends, the id it corrects, what it cites
if it is a ci-run row, whether it claims hosted execution, and whether it keeps the laws that look at
it alone (`sound`: status, label, artifacts, transcript, stale BLOCKED). Every ci-run row, old
ones included, must resolve green; `heard` is the set of those on which the API answers, any
subset, since each row is asked for by itself. `CitedRunGreen` is the resolver, `HeadCovered` the head match,
`HostedCovered` rule (d). The four commits of a final claim (the phase's head, a row's
run, its job and its `head_sha`) are kept apart, because the code compares only two of the pairs.

`_effective_rows` is there twice. `EffectiveRows` is its three loops as written, over folds;
`NothingPends` says in one formula which statuses count in the end (`ReadAsWritten`: those of ids that no row corrects, and of first
corrections not themselves corrected before). `BundlePasses` and the proofs use the second, and the
assumption `LoopsAgree` of `MCTools` has TLC compare the two on every sequence of up to three rows over
three ids; on all sequences of four they agree as well (331,776, too many for each run).

### Mutation

One target of `mutation_test.py`: `source`, `object` and `newer` are the scratch tree as `make`
sees it. `JudgeMutant` restores the source with a timestamp that may be that of the object
just built, which is how a later build can reuse it; `Remade` is what a build rebuilds, the mutated
file's objects having been dropped. `mixed` records verdicts given over a stale object of another file.
`Caught` says which suites a mutant fails by itself, so that a verdict can be right or wrong.

### AtomicFile and Inplace

`AtomicFile` is what a rewrite promises: the file goes from one whole text to the next in one step,
under the mode it had when that rewrite began; a failure changes nothing; a power cut leaves a file
that was there. `Inplace` is `rewrite_in_place`, one action per system call, with racing writers,
chmods, exceptions (`Raise`), kills, write-back and power cuts. The refinement mapping (`Contract`)
hides the temporary file and takes a rewrite for undertaken from `mkstemp` on;
`RewritesAreAtomic` is `Contract!FileSpec`.

### Fetch

`_cached` and `http_get` for one immutable URL and several processes: `MissCache`, `Attempt` (each of
the outcomes an attempt can have), `OpenCache` (`write_bytes` truncates) and `FillCache`, with kills anywhere.
The two ways a cut file is served are history variables: `raced` and `maimed`.

### The parts run together

`MCTools` instantiates the seven modules above in one run. They share no state, so a behaviour is
of one part, chosen at the start: the states to visit are the sum of the parts' and not their
product, and nothing is lost, since no property speaks of two parts.

## 3. Runs

| Run | Checks | Shows | Size |
|---|---|---|---|
| `patch_apply` | `TypeOK`, `StaysTruthful`, `AppliedMeansInTree`, `RevertCompletes` | the safety of the applicator, two independent patches | 23,600 states |
| `patch_recovery` | `Truthful`, `KeepsGround`, `NeverRefused`, `RecoversFromCrash` | re-running apply repairs every death, under fairness, and on the way makes nothing worse | 966 states |
| `patch_revert_order` | `WholeRevertCompletes` (violated) | finding 1 | |
| `patch_stale_ledger` | `NoOpMatchesRev` (violated) | finding 2 | |
| `rebase` | `TypeOK`, `GreenMeansApplies`, `NoFalseAlarm` | what a verdict of the rebase bot is worth, while everything it read may change | 2,510,400 states |
| `rebase_unrouted` | `ConflictsAreRouted` (violated) | finding 5 | |
| `rebase_blind` | `GreenIsClean` (violated) | finding 6 | |
| `retirement` | `TypeOK`, `LintSeesRemovals`, `RetiresOrPutsBack` | how a retirement ends; retirements, crashes, hand edits and resets against the lint | 692,920 states |
| `retirement_rollback` | `RolledBackWhole` (violated) | finding 3 | |
| `rollout` | `TypeOK`, `RampContains`, `NeverBackwards`, `RolloutIsStaged`, `Converges` | safety of a rollout, that it implements `Staged`, and convergence | about 352,000 states |
| `rollout_revoked` | `RevokedGetsNoOffer` (violated) | finding 4 | |
| `tools` | `TypesOK`; `NoSilentRed`, `NoFalseRed`, `FleetRecovers` (Lanes); `GreenIsLawful` (Commits); `FinalIsProven`, `AlwaysClosable` (Evidence); `VerdictIsOwn`, `GateIsEarned` (Mutation); `RewritesAreAtomic` (Inplace); `ServedWhole`, `FetchEnds` (Fetch); `PromotedApplies`, `RefusedStops`, `StacksStand` (Promotion) | each part's laws, within the exceptions the properties name | 305,515 states |

Every property of a passing run has a mutant in `PROJECT.json`: a definition of
the model replaced by the operator marked "Wrong on purpose" before it, the way
a plausible bug in that code would, under which TLC finds the property violated.

### Bounds, and why they are enough

* `patch_apply`, `patch_recovery`: two patches, one of two files, so that a run
  can stop between patches and between the files of one; two contents for it, of
  which only the second file differs, so that a re-cut leaves one file in place;
  two revisions, one with a patch already upstream, so that "reverses cleanly" is
  met without a previous run. No further bound: the state space is finite.
* `rebase`: three revisions, so that pin, target and the revision a patch was
  cut against may all differ; `Targets` are the oldest and the newest; two
  patches, so that a run is cut by an edit after the first row and before the second, and a
  bad row may stand beside a clean one; `MaxLost = 1`, since one patch with a failed fetch
  shows each effect of it on a verdict.
* `retirement`: two ids, one listed at first, so that a patch is retired while
  another comes and goes; `MaxCommits = 3` commits of the manifest, the fewest in
  which a patch is listed, removed and listed again, with the pin at each of them.
* `rollout`: one client, because the server keeps nothing and clients share
  nothing; `Buckets = 2` (in the ramp, out of it, and at its edge), `MaxVersion =
  2` above the starting version 0 (a head set back, and an old answer for the
  other), `MaxEpoch = 2` (one rotation).

* `tools`, `Lanes`: two lanes, so that each may redden the other; a page of two runs, so that a
  scheduled run scrolls off behind manual ones of the one lane people start
  (`HandLanes`); that lane has both a shallow checkout and a cancelling concurrency group.
* `tools`, `Commits`: at most four commits, the fewest for a stamp, an amendment before and one
  after a push, and a commit that undoes what an earlier one of the push did; eleven kinds of commit,
  one or more per law and per way around it.
* `tools`, `Evidence`: three pushes (a head, another run, a final claim), three rows (a row, its
  correction, the correction's correction) of three ids, two of which come back in other rows; ten rows that people
  append: pending, verified, hosted, ci-run rows that are right, of another commit, of another job or
  without one, and one beyond repair.
* `tools`, `Mutation`: two units, so that one's object may be stale while the other is judged, and five
  mutants, of which one does not compile, one is caught by both suites and two by none.
* `tools`, `Inplace`: two writers, two texts, two modes; `Fetch`: three processes and the code's three attempts.
* `tools`, `Promotion`: a patch that edits a file and one that adds one and is re-cut into a patch on top of the
  first, over two revisions of which the second has taken the edited file away and the added one in.
* The tools run to their bound and stop there, so `tools` does not check deadlock.

### Fairness, and why the code justifies it

* `RecoverySpec`: weak fairness of the run's own steps (a process that has not
  died goes on); strong fairness of starting `apply` on the whole manifest and
  of deleting a ledger that does not parse, which are what a person does on a
  failure (`load_ledger`'s error names the ledger file). The property assumes
  that crashes and git faults stop at some point, and its next-state relation leaves
  out re-cuts, reverts and fresh `src/` trees, which would undo what it claims.
* `FairSpec`: weak fairness of the client's own steps, since a client checks
  periodically with a backoff of 6 to 48 hours, and strong fairness of `Answer`:
  of unboundedly many requests, the server answers some. Nothing is assumed of the
  operator; `Converges` holds of those who leave the head and the ramp alone.
* `LaneFairness`: cron keeps firing each lane and a run that started ends, which GitHub's own time
  limit sees to. Nothing is assumed of people but that they stop breaking things (`calm`).
* `FetchFairness`: a process goes on, which for a request means that it ends within `FETCH_TIMEOUT_S`;
  a process that is killed is not obliged to come back.

## 4. Theorems

All are checked by TLAPS for every value of the constants that meets the
module's `ASSUME` (`SeriesAssumption`, `LedgerAssumption`, `RebaseAssumption`,
`RetirementAssumption`, `RolloutAssumption`, `LaneAssumption`, `CommitAssumption`, `EvidenceAssumption`,
`MutationAssumption`, `InplaceAssumption`, `FetchAssumption`, `PromotionAssumption`), which TLC evaluates on the instances.

| Theorem | Statement | Argument |
|---|---|---|
| `PatchApplyProofs!TypeCorrect` | `Spec => []TypeOK` | per action |
| `PatchApplyProofs!LedgerStaysTruthful` | `Spec => StaysTruthful` | the step lemma for `Truthful`, under `IInv` |
| `PatchApplyProofs!AppliedIsInTree` | `Spec => AppliedMeansInTree` | `IInv` and `AsLoaded` |
| `PatchApplyProofs!UnstackedReverts` | no stacking `=> (Spec => RevertCompletes)` | `IInv` and `OnTop` |
| `PatchApplyProofs!PatchesStand` | `Spec => []StacksStand` | `IInv` and `Stacks` |
| `PatchApplyProofs!RecoveryStaysTruthful`, `!RecoveryKeepsGround`, `!RecoveryEndsInTree` | `RecoverySpec => []Truthful`, `KeepsGround`, and exit 0 means in the tree | `RecoveryInv` |
| `PatchApplyProofs!NeverRefusedInRecovery` | `RecoverySpec => NeverRefused` | `RecoveryInv` and `Unstuck` |
| `RebaseProofs!TypeCorrect` | `Spec => []TypeOK` | `IInv` |
| `RebaseProofs!GreenIsHonoured` | `Spec => []GreenMeansApplies` | `IInv`, `CleanApplies`, `AloneOnUpstream` |
| `RebaseProofs!GreenIsCutFor` | `Spec => [](GreenInSight => CutFor(manifest, patchdir, report.to))` | `IInv`, `GreenTakesEach` |
| `RebaseProofs!AlarmIsTrue` | `Spec => []NoFalseAlarm` | `IInv`, `ApplyingIsClean` |
| `RetirementProofs!TypeCorrect` | `Spec => []TypeOK` | per action |
| `RetirementProofs!RetirementEndsTidy` | `Spec => RetiresOrPutsBack` | `TypeOK` and `RunShape` |
| `RetirementProofs!LintIsRight` | `Spec => []LintSeesRemovals` | the history lemma |
| `RolloutProofs!TypeCorrect` | `Spec => []TypeOK` | per action |
| `RolloutProofs!RolloutContained` | `Spec => RampContains` | `TypeOK` and `Contained` |
| `RolloutProofs!VersionsNeverFall` | `Spec => NeverBackwards` | `TypeOK` |
| `RolloutProofs!RolloutImplementsStaged` | `Spec => RolloutIsStaged` | `IInv` and `NoneWanted`, step by step |
| `ToolProofs!FetchServesWhole` | `FetchSpec => []ServedWhole` | `FetchInv` |
| `ToolProofs!VerdictsAreOwn` | `MutationSpec => VerdictIsOwn` | `MutationInv` |
| `ToolProofs!PassingGateIsEarned` | `MutationSpec => []GateIsEarned` | `MutationInv`, cardinalities |
| `ToolProofs!InplaceImplementsContract` | `InplaceSpec => RewritesAreAtomic` | `InplaceInv`, step by step |
| `GovernanceProofs!GreenCommitsAreLawful` | `CommitSpec => []GreenIsLawful` | `CommitInv` |
| `GovernanceProofs!FinalPhasesAreProven` | `EvidenceSpec => []FinalIsProven` | `EvidenceInv`, `NothingPending` |
| `GovernanceProofs!PhasesCanBeClosed` | `EvidenceSpec => []AlwaysClosable` | `ClosableInv`, the rows `Corrected` adds (`CorrectedPasses`) |
| `GovernanceProofs!NoLaneIsSilentlyRed`, `!NoLaneIsFalselyRed` | `LaneSpec => []NoSilentRed`, `[]NoFalseRed` | `LaneInv` |
| `PromotionProofs!PromotionRunsApplicator` | `PromotionSpec => Alone!Spec` | step by step |
| `PromotionProofs!PromotedSeriesStand` | `PromotionSpec => []StacksStand` | `PatchesStand`, instantiated |
| `PromotionProofs!PromotedSeriesApply` | `PromotionSpec => PromotedApplies` | `SmokeInv` and `RunsInv` |
| `PromotionProofs!RefusedSeriesStop` | `PromotionSpec => RefusedStops` | `SmokeInv`, `Alone!IInv`, `StacksStand` |
| `PromotionProofs!PromotionTypes` | `PromotionSpec => []PromotionTypeOK` | `SmokeInv` |
| `CompositionProofs!ToolsTypes`, `!ToolsAreSafe`, `!ToolsStepSafely` | the run `tools`: `Spec => []TypesOK`, its other invariants, its safety properties of steps | the parts' theorems |
| `FetchTypes`, `MutationTypes`, `InplaceTypes`, `CommitTypes`, `EvidenceTypes`, `LaneTypes` | `[]` of each module's type invariant | per action |

* **Applicator.** None of the properties is inductive. `IInv` adds to `TypeOK`
  the shape of a run (`RunShape`: the ledger is written only after the last
  patch, and no row is held in memory between runs), `FilesSoFar` (an apply that stands at file `j` of a patch has the files
  before it in the tree), `RecordedSoFar` (it has recorded the selected patches
  before it) and `RevertsRecorded` (a revert opens only patches whose row matches
  their dir). `AsLoaded` says what became of the rows an apply loaded: each is still as on disk, or stands for
  a patch whose every file the run has seen in the tree; it needs no recovery and no truthful ledger, so that
  `AppliedIsInTree` asks only for what the run was given. `FilesSoFar` is why a two-file dir half applied before a death is
  finished, not skipped. Truth of the ledger is *not* an invariant (sections 2
  and 6), so `LedgerStaysTruthful` is a statement about steps: no step but the two
  excepted ones makes a true ledger false.
* `UnstackedReverts` needs the hypothesis `Unstacked`: no patch file was cut
  against text that holds another, and where upstream has a patch file's change it has
  nothing on top of it. Under it `OnTop` is an invariant (each patch file in the tree
  lies on top of the text it was cut against), so `--reverse --check` succeeds for
  whatever is in the tree. The hypothesis cannot be dropped: finding 1 is the
  counterexample.
* **Stacks.** `StacksStand` is not inductive: that each file has under it the text it was cut
  against does not say that the files came in one after the other, and a file may be reversed
  only if it came last. The invariant `Stacks` has at each site a sequence of changes, each put in, or
  (a revert of what upstream has taken) taken out of upstream's text, once and against the text the ones before it
  made, which together make the site what it is. `--check` is what lets `Push` add one to the end,
  `--reverse --check` what lets `Pop` take back the last and nothing else (the mutant
  `ReversesCleanlyAnywhere` is a probe that looks for the change alone).
* **Recovery.** Without reverts, re-cuts and fresh `src/` trees truth of the ledger *is* an invariant
  (`RecoveryInv`), so what exit 0 means needs no hypothesis. `Unstuck`: for a series with `CutFor`
  every file applies or reverses, at every moment; a file that goes in meets no other one's
  site. This is the safety half of `RecoversFromCrash`; that the runs get round to it is the liveness
  half, which TLC checks.
* **Rebase.** `IInv` says that every row, of the run and of the report, is the class
  of the content it names at the revisions of its own run; nothing people do touches
  it. The rest is pure: GREEN has only clean rows (`GreenRows`); a clean row
  outside the exceptions finds at the target the text its patch was cut against
  (`CleanApplies`, of which the file-by-file route, where an addition is clean because the
  file is absent and anything else because the text is unchanged since the pin, is
  `CleanFileApplies`); and where patches do not meet, what a file finds in its turn is
  upstream's text (`AloneOnUpstream`). `RebaseAssumption` is used once: no patch file
  is cut against a file that is gone. `AlarmIsTrue` is the converse of `CleanApplies`: a patch that
  applies at both revisions is clean when no fetch was lost. `GreenIsCutFor` hands the verdict on to
  the applicator: GREEN at a target, and `NeverRefusedInRecovery` holds of `src/` at that target.
* **Lint.** The removals seen in `git log` are differences of neighbouring
  commits; what the property speaks of is the set of ids ever listed. The bridge
  is that an id listed at one commit and not at a later one was removed at some
  step between the two (`History`), an invariant kept by appending a commit.
* **Fetch.** `FetchInv`: an attempt count leaves room for one more (`AttemptLeft`), and the cache is
  cut only while someone writes it or after a writer was killed (`CacheIsOwned`).
* **Mutation.** `MutationInv`: at most the running mutant is in the sources, and its own file's object is it
  (`OneMutant`); every verdict so far is its mutant's or `mixed` (`OwnSoFar`). The gate then follows by counting:
  what was killed is a subset of what deserved it.
* **In-place rewrite.** `InplaceInv`: what the path and the disk hold is whole and synced (`NamesAreWhole`), and a
  temporary file is as far as its writer's step says (`TempKeepsUp`). Each step then maps to one of `AtomicFile`
  or to a stutter: only `Replace` publishes.
* **Governance.** `CommitInv` adds that commits are judged in the order they were pushed (`PushedInOrder`), by which
  the first push is recognised afterwards; `EvidenceInv`, that only the last commit's run can be open
  (`LastIsOpen`), by which a green main was judged with the bundle it has; that nothing pends is turned into a
  statement about any set of pending rows by its first correction, or its last row of an id (`NothingPending`);
  `ClosableInv`, that a green run had a row to judge (`GreenHasRows`), and then the appended rows are the last of every id
  and correct every id, so that no older status counts; `LaneInv` is what `red` records of
  the newest scheduled run (`LaneLaw`).
* **Rollout.** `Contained` says that every offer in flight, every offer ever sent
  and every download in progress was made to a bucket inside the exposure of its
  version, and `exposed` never shrinks; it is what survives replay and delay. With
  `NoneWanted` (only a client that downloads wants a version) each step is one of `Staged` or a
  stutter: `Accept` is where an update begins, and the replay law is why it begins once.
* **Promotion.** What the applicator does inside a promotion is what it does alone
  (`PromotionRunsApplicator`), so `PatchApplyProofs` is instantiated and its theorems are cited, not
  proved again. `SmokeInv` says what each verdict so far was given on (a patch judged found upstream's text,
  or the first files of patches judged before it), and survives edits because it speaks of contents;
  `RunsInv`, that a run visits patches of the manifest and that a patch file is in the tree at all its
  sites or at none. Where patches are apart a judged patch and the same patch at its turn in `apply` see the
  same text (`JudgedAlone`, `AloneAtSite`). For `RefusedSeriesStop` one detour is left: the refused file might
  be in the tree over other text than its own; that the site is a stack excludes it.
* **Composition.** To each tool a step of `MCTools` is a step of its own or none (`OthersStutter`), so each
  theorem carries over to the specification that TLC runs.

**Only model-checked**: the liveness properties `RecoversFromCrash`, `Converges`, `FleetRecovers` and
`FetchEnds` (they rest on fairness and on steps being enabled, which are outside what the prover does), and
the six refuted properties, whose counterexamples TLC gives. Every safety property that a passing run checks is
also a theorem.

## 5. Assumptions and abstractions

* One run of each tool at a time, and in `PatchApply` and `Retirement` people act
  between runs; in `Rebase`, which runs for hours, they act during one. The code
  takes no lock; two runs at once over one checkout are outside the model.
* `git apply` changes nothing when it fails. The code passes it no `-C` or
  `--3way`, so all the context of a hunk matches or the hunk is refused; that git
  may find the context at another line is covered by a site being a region of text.
* A patch file belongs to one patch, and a change once in a site is identified
  by its file: two different files making the same edit are not represented.
* Bad schema, unreadable input and argument errors that end a run before its first
  effect are left out, or are one flag.
* DoD rows are appended and never edited, as the contract demands (`evidence-bundle-v1.md:128-139`) and no code
  checks; a bundle's rows are under `dod_rows`.
* The client is external; a client that deviates from the vectors is out of scope.

## 6. Findings

1. **Revert does not run in reverse order** (`build/patching/apply.py:291`, run
   `patch_revert_order`). The module's docstring promises "reverse applied
   patches (reverse order)". The loop visits patches in manifest order and only
   the files *within* a dir backwards. Of two stacked patches git refuses the first,
   and a fully applied, fully recorded series cannot be reverted.
2. **A no-op under a stale ledger** (`build/patching/apply.py:298`, run
   `patch_stale_ledger`). The contract says "a patch is applied iff its
   content-hash matches at the recorded rev". `applied_at_rev` is written and
   never read. When `src/` is deleted and fetched again at another revision, `.xr/`
   beside it stays, so apply exits 0 having skipped a patch that is not in the tree
   and whose row is of the revision before. (A sync over a `src/` that is there is
   another matter: `sync.py` refuses it without `--force` and runs `gclient sync`
   without `--reset`, which does not put patched files back.)
3. **Rollback leaves half a patch dir** (`build/patching/retire.py:61`, run
   `retirement_rollback`). If `rmtree` fails part of the way, the dir still
   exists, so the backup is not copied back: the manifest lists a patch whose dir
   is short of files.
4. **Revoked epochs still get offers** (`update_server_ref.py:163`, run
   `rollout_revoked`). `epochs.yaml` says that a revoked epoch stops receiving
   offers server-side; the refusal is conditional on an optional request field, and
   a client that leaves it out is answered with an offer.
5. **A path collision is nobody's work item** (`build/upstream/issues.py:51`,
   run `rebase_unrouted`). The contract has one bundle per conflicting patch on
   any verdict but GREEN. The class `path-collision` was added to the verdict and not
   to the router's filter, so the report is BROKEN and its patch has no bundle.
6. **A failed fetch passes for an absent file** (`build/upstream/rebase_bot.py:165`,
   run `rebase_blind`). At the pin only a 404 counts as missing and everything else
   fails closed; at the target every `FetchError` does. For a file the patch adds,
   absent is what clean means: a failure to see that upstream now owns the file
   is reported as GREEN.

### What else the models show

These are the named exceptions of the passing properties. Most are within what the documents allow, or no document
speaks of them; where one does, it is quoted.

* **Promotion** (`promotion.py:136-166`). The smoke refuses a stacked series and a change upstream has taken,
  both of which `xr-patch` takes; it passes two patches over the same text, or a dir whose second file fails,
  which `xr-patch` refuses; and it passes an empty manifest.
* **Lanes** (`scheduled_lane_check.py`). Dates are compared as strings with their offsets (204); a page is 30 runs
  of all events (126), so a scheduled run can scroll off it; a cancelled scheduled run is red (139-213); in a
  checkout of one commit every file was touched by that commit (79).
* **Retirement**. When the write of `retirements.json` itself is cut short, rollback restores the manifest and the dir
  and leaves the ledger torn (`retire.py:51-63`): every earlier row is lost until git brings the file back.
* **Range gates**. Registers and RFC are read at the push's HEAD (`amend_guard.py:88-89`), so a push that takes
  a contract off both registers may amend it; of a first push only the last commit is read (`p5_gates.sh:34`) and no
  exec bit (`p13_gates.sh:52`); the commits of a run that the next push cancels are never judged. The law these escape
  is stated: "any commit in the given range that touches a GUARDED file MUST" carry an approved RFC
  (`amend_guard.py:3-6`), a stamp is exempt only if it touches no frozen file (22-24), "a stamp must never smuggle an
  amendment past the gate" (98-99).
* **Evidence**. Of several corrections of an id the first wins, and they take effect in the order of the rows without
  regard to whether a correction is later than what it corrects (`evidence_finality.py:112-122`); the
  contract has "the later row's status is effective" (`evidence-bundle-v1.md:232-234`). So a first correction that pends can be
  replaced only by a row that bears its id again. Nothing can be appended to close a phase with a row that cites a red or
  cancelled run, a ci-run row without ids, a local-run row without a transcript or a BLOCKED row gone stale, since the strict laws read
  every row and not the effective ones. The resolver takes the conclusion of
  the job and the head of the run and does not compare them (`evidence_ci.py:103-114`); a bundle that keeps no commits skips the
  head check; the API out of reach passes.
* **Mutation**. An object of another file, built from an earlier mutant, stays linked when the restored source shares
  its timestamp (`mutation_test.py:135-137`); a matrix of no mutants scores 100 (286).
* **Fetch**. A body cut short escapes both `except` clauses and is not retried (`fetch.py:129-136`); the cache is written
  in place (244), so a reader during a write, or any reader after a killed writer, gets a cut file.
* **In-place rewrite**. A chmod between the stat and the rename is undone by the rename. The contract allows it: the
  mode is the one the file had when the rewrite began.

## 7. Not modelled, and why

* **Functions of one tree**: the linters (`ci_parity_check`, `ci_triage`, `exception_ledger_check`, `runner_caps`,
  `release_gate`, ...), the patch budget, the assumption suite, `mutation_freshness`, `lint_manifest`. Each reads
  committed files once and answers; a model would restate its conditions.
* **Translators and generators**: the list compiler and signer, the golden-vector and matrix generators, the mutation
  operators. Their subject is text; they keep no state and committed vectors pin their output.
* **Wrappers of external programs**: GN, SBOM, branding, signing, toolchain pins, spike and QA harnesses, web UI round trips. What
  they do is done by programs that are not here.
* **Checkout and pins**: of `sync.py`, the effect on `src/` and the ledger, and the pin `refresh` writes. `check-pin-alive` is a
  sequence of git commands whose one interesting property (which ref `FETCH_HEAD` names, `sync.py:233-237`) is git's.
* **Fast lane and fork health**: one-pass reports; the freeze marker is written and read and never removed.
* **Within modelled parts**: schemas, vocabulary, wording, reports and logging; the `Phase-Close` form, which no CI run
  turns on; `lint` of the manifest; the range log of the rebase bot; request parsing and signatures of the update server. The
  components' notes in `PROJECT.json` say which.
