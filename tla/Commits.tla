------------------------------- MODULE Commits -------------------------------
(***************************************************************************)
(* Governance over a push (run_checks.sh and the range gates it calls:     *)
(* amend_guard.py, dr_parse.py --check-trailers, dco_check.py,             *)
(* entrypoint_mode_check.py; freeze_check.py on the tree at HEAD).  A run  *)
(* judges the commits of its own push, as `before..HEAD`, and a newer push *)
(* to the same ref cancels it (governance.yml), so a commit is judged once *)
(* or never.  What is frozen is read from the tree at HEAD, not from the   *)
(* tree the commit changed.                                                *)
(***************************************************************************)
EXTENDS Naturals, Sequences

CONSTANTS
  PushedCommits, \* the commits people make, of the set of all
  MaxCommits,    \* bound: commits on main
  NoRun

VARIABLES
  log,      \* main, oldest first
  judged,   \* Seq(Judgements): one for each commit
  govRun    \* the governance run under way, or NoRun

commitVars == <<log, judged, govRun>>

\* The files the gates know: a contract, the two freeze registers, the mojom
\* tree, the decision register and a script a workflow executes.
GuardedFiles == {"contract", "frozen", "index", "mojom", "register", "script"}

\* What a tree says: where FROZEN.yaml's packet row points ("none": no such
\* file), whether INDEX.md's table names the contract, whether the RFC is
\* APPROVED, and the script's exec bit.
Trees == [frozen : {"none", "other", "contract"}, index : BOOLEAN,
          rfc : BOOLEAN, exec : BOOLEAN]
EmptyTree == [frozen |-> "none", index |-> FALSE, rfc |-> FALSE, exec |-> TRUE]

\* cites: a Contract-Amendment trailer naming the RFC; marked: a Register-Change
\* trailer; signed: a sign-off by the committer.
AllCommits == [touch : SUBSET GuardedFiles, cites : BOOLEAN, marked : BOOLEAN,
               signed : BOOLEAN, tree : Trees]
GovRuns == [from : 0 .. MaxCommits, to : 1 .. MaxCommits]

\* end: what the run said of the commit; at: the HEAD it was judged at.
Judgements == [end : {"local", "open", "cancelled", "green", "red"}, at : 0 .. MaxCommits]

ASSUME CommitAssumption ==
  /\ PushedCommits \subseteq AllCommits
  /\ MaxCommits \in Nat
  /\ NoRun \notin GovRuns

CommitTypeOK ==
  /\ log \in Seq(AllCommits) /\ Len(log) <= MaxCommits
  /\ judged \in Seq(Judgements) /\ Len(judged) = Len(log)
  /\ govRun \in GovRuns \cup {NoRun}
  /\ govRun # NoRun => govRun.from < govRun.to /\ govRun.to <= Len(log)

CommitInit == log = <<>> /\ judged = <<>> /\ govRun = NoRun

TreeBefore(i) == IF i = 1 THEN EmptyTree ELSE log[i - 1].tree
Listed(t) == t.frozen = "contract" \/ t.index

\* Wrong on purpose, for a mutant: any commit that touches FROZEN.yaml is a stamp.
StampExemptAny(c, t) == "frozen" \in c.touch

\* A stamp commit is exempt when it carries no amendment.
StampExempt(c, t) ==
  /\ "frozen" \in c.touch /\ "mojom" \notin c.touch
  /\ ~("contract" \in c.touch /\ Listed(t))

\* A commit amend_guard fails, t being the tree at HEAD.  An unlisted file under
\* docs/contracts, and everything before FROZEN.yaml exists, only warns.
AmendFails(c, t) ==
  /\ ~StampExempt(c, t)
  /\ c.touch \cap ({"frozen", "index", "mojom"} \cup {f \in {"contract"} : Listed(t)}) # {}
  /\ t.frozen # "none"
  /\ ~(c.cites /\ t.rfc)

RegisterFails(c) == "register" \in c.touch /\ ~c.marked
SignoffFails(c) == ~c.signed
ModeDriftFails(i) == TreeBefore(i).exec /\ ~log[i].tree.exec

\* freeze_check, and the entry-point mode law, on the tree itself.
TreeFails(t) == t.frozen = "none" \/ ~t.exec

\* With no range, on the first push of a ref, amend_guard reads the last commit
\* only (p5_gates.sh) and nothing looks for a dropped exec bit (p13_gates.sh),
\* where the other range gates read the whole history.
AmendRange(r) == IF r.from = 0 THEN {r.to} ELSE r.from + 1 .. r.to

RunFails(r) ==
  \/ TreeFails(log[r.to].tree)
  \/ \E i \in AmendRange(r) : AmendFails(log[i], log[r.to].tree)
  \/ \E i \in r.from + 1 .. r.to :
       RegisterFails(log[i]) \/ SignoffFails(log[i]) \/ (r.from # 0 /\ ModeDriftFails(i))

Judge(r, end) == [i \in DOMAIN judged |->
  IF i \in r.from + 1 .. r.to THEN [end |-> end, at |-> r.to] ELSE judged[i]]

\* A commit changes what it touches and nothing else.
Follows(c, t) ==
  /\ c.tree.frozen # t.frozen => "frozen" \in c.touch
  /\ c.tree.index # t.index => "index" \in c.touch
  /\ c.tree.exec # t.exec => "script" \in c.touch

CommitLocally == \E c \in PushedCommits :
  /\ Len(log) < MaxCommits
  /\ Follows(c, TreeBefore(Len(log) + 1))
  /\ log' = Append(log, c)
  /\ judged' = Append(judged, [end |-> "local", at |-> 0])
  /\ UNCHANGED govRun

\* git push main: whatever run is under way on the ref is cancelled.
PushMain ==
  /\ \E i \in DOMAIN judged : judged[i].end = "local"
  /\ \E from \in 0 .. Len(log) :
       /\ \A i \in DOMAIN judged : i <= from <=> judged[i].end # "local"
       /\ govRun' = [from |-> from, to |-> Len(log)]
  /\ judged' = [i \in DOMAIN judged |->
       CASE judged[i].end = "local" -> [end |-> "open", at |-> Len(log)]
         [] judged[i].end = "open" -> [judged[i] EXCEPT !.end = "cancelled"]
         [] OTHER -> judged[i]]
  /\ UNCHANGED log

EndRun ==
  /\ govRun # NoRun
  /\ judged' = Judge(govRun, IF RunFails(govRun) THEN "red" ELSE "green")
  /\ govRun' = NoRun
  /\ UNCHANGED log

CommitNext == CommitLocally \/ PushMain \/ EndRun
CommitSpec == CommitInit /\ [][CommitNext]_commitVars
-----------------------------------------------------------------------------
\* Commit i changes a contract that was frozen when it did.
Amends(i) == "contract" \in log[i].touch /\ Listed(TreeBefore(i))

InFirstPush(i) == judged[i].at = judged[1].at

\* The two ways past the amendment law: a push that takes the contract off both
\* registers, since they are read at its HEAD; and a ref's first push, of which
\* only the last commit is read.
Escapes(i) == ~Listed(log[judged[i].at].tree) \/ InFirstPush(i)

\* A commit that a run passed is signed, is marked if it edits the decision
\* register, drops no exec bit unless it is of the first push, and cites an RFC
\* approved at the run's HEAD if it amends a frozen contract, those two ways apart.
\* It says nothing of a commit whose run was cancelled by the next push: no run
\* reads that one again.
GreenIsLawful == \A i \in DOMAIN judged : judged[i].end = "green" =>
  /\ log[i].signed
  /\ "register" \in log[i].touch => log[i].marked
  /\ TreeBefore(i).exec /\ ~log[i].tree.exec => InFirstPush(i)
  /\ Amends(i) => \/ log[i].cites /\ log[judged[i].at].tree.rfc
                  \/ Escapes(i)
=============================================================================
