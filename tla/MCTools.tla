-------------------------------- MODULE MCTools --------------------------------
(***************************************************************************)
(* The repository's tools on small instances.  They share no state, so a   *)
(* behaviour of this module is one of one tool, chosen at the start, and   *)
(* the others keep their initial state: the states to visit are the sum of *)
(* the tools' and not their product.                                       *)
(***************************************************************************)
EXTENDS Lanes, Commits, Evidence, Mutation, Inplace, Fetch, Promotion, TLC

VARIABLE part

Parts == {"lanes", "commits", "evidence", "mutation", "inplace", "fetch",
          "promotion"}

vars == <<part, laneVars, commitVars, evidenceVars, mutationVars, inplaceVars, fetchVars,
          promotionVars>>

Init ==
  /\ part \in Parts
  /\ LaneInit /\ CommitInit /\ EvidenceInit /\ MutationInit /\ InplaceInit /\ FetchInit
  /\ PromotionInit
  /\ part # "promotion" =>
       head = "r2" /\ patchdir = [p \in Pids |-> CHOOSE h \in ContentsOf[p] : TRUE]

Next ==
  /\ UNCHANGED part
  /\ \/ part = "lanes" /\ LaneNext
     \/ part # "lanes" /\ UNCHANGED laneVars
  /\ \/ part = "commits" /\ CommitNext
     \/ part # "commits" /\ UNCHANGED commitVars
  /\ \/ part = "evidence" /\ EvidenceNext
     \/ part # "evidence" /\ UNCHANGED evidenceVars
  /\ \/ part = "mutation" /\ MutationNext
     \/ part # "mutation" /\ UNCHANGED mutationVars
  /\ \/ part = "inplace" /\ InplaceNext
     \/ part # "inplace" /\ UNCHANGED inplaceVars
  /\ \/ part = "fetch" /\ FetchNext
     \/ part # "fetch" /\ UNCHANGED fetchVars
  /\ \/ part = "promotion" /\ PromotionNext
     \/ part # "promotion" /\ UNCHANGED promotionVars

Fairness ==
  /\ \A l \in Lanes : /\ WF_laneVars(part = "lanes" /\ LaneFire(l))
                      /\ WF_laneVars(part = "lanes" /\ LaneFinish(l))
  /\ \A e \in Engines : WF_fetchVars(part = "fetch" /\ FetchStep(e))

Spec == Init /\ [][Next]_vars /\ Fairness

\* Every variable of every tool has its type.
TypesOK ==
  /\ LaneTypeOK /\ CommitTypeOK /\ EvidenceTypeOK
  /\ MutationTypeOK /\ InplaceTypeOK /\ FetchTypeOK /\ PromotionTypeOK
-----------------------------------------------------------------------------
\* The commits: two that freeze a contract, amendments of it with and without an
\* approved RFC, as stamps or not, the ones that take it off the registers, and one
\* per other law.
Tree(f, i, r) == [frozen |-> f, index |-> i, rfc |-> r, exec |-> TRUE]
Commit(touch, cites, t) ==
  [touch |-> touch, cites |-> cites, marked |-> TRUE, signed |-> TRUE, tree |-> t]
Frozen == Tree("contract", TRUE, FALSE)

MCPushedCommits ==
  {Commit(touch, FALSE, Frozen) :
     touch \in {{"frozen", "index"}, {"contract"}, {"contract", "frozen"}}} \cup
  {Commit({"contract"}, TRUE, Tree("contract", TRUE, TRUE)),
   Commit({"contract", "frozen", "index"}, FALSE, Tree("other", FALSE, FALSE)),
   Commit({"contract"}, FALSE, Tree("other", FALSE, FALSE)),
   Commit({"frozen"}, FALSE, Tree("none", FALSE, FALSE)),
   [Commit({"register"}, FALSE, Frozen) EXCEPT !.marked = FALSE],
   [Commit({}, FALSE, Frozen) EXCEPT !.signed = FALSE],
   [Commit({"script"}, FALSE, Frozen) EXCEPT !.tree.exec = FALSE],
   Commit({"script"}, FALSE, Frozen)}

\* The rows: a pending one, plain or correcting another that may be pending too; a
\* verified one; hosted claims; ci-run rows that say the first or the second commit,
\* cite a run of another, a job of another, or none; and a row that breaks a law of
\* its own.
Row(i, pending, corrects) == [id |-> i, pending |-> pending, corrects |-> corrects,
  cites |-> NoCitation, hosted |-> FALSE, sound |-> TRUE]
Cites(r, run, job, says) == [r EXCEPT !.cites = [run |-> run, job |-> job, says |-> says]]

MCPushedRows ==
  {Row("a", TRUE, NoId), Row("b", TRUE, "a"), Row("b", FALSE, NoId),
   [Row("a", FALSE, NoId) EXCEPT !.hosted = TRUE],
   Cites(Row("b", FALSE, "a"), 1, 1, 1), Cites(Row("a", FALSE, "b"), 2, 2, 2),
   Cites(Row("c", FALSE, "b"), 1, 1, 2), Cites(Row("c", FALSE, NoId), 2, 1, 2),
   Cites(Row("c", FALSE, NoId), 1, 0, 1), [Row("c", FALSE, "c") EXCEPT !.sound = FALSE]}

\* What the code's loops find pending among up to MaxRows rows of any ids is what
\* NothingPends says.
ASSUME LoopsAgree ==
  \A s \in SeqOf({Row(i, p, c) : i \in RowIds, p \in BOOLEAN, c \in RowIds \cup {NoId}}, MaxRows) :
    NothingPends(s) <=> \A i \in DOMAIN EffectiveRows(s) : ~EffectiveRows(s)[i]

\* The claims: interim with and without a date, final at either of the first two
\* commits or at none, and what the bundle keeps.
Claim(state, dated, h, kept) == [state |-> state, dated |-> dated, head |-> h, kept |-> kept]

MCPushedClaims ==
  {Claim("interim", d, 0, {}) : d \in BOOLEAN} \cup {Claim("final", FALSE, 0, {})} \cup
  {Claim("final", FALSE, h, kept) : h \in 1 .. 2, kept \in {{}, {2}, {1, 2}}}

\* a1 is killed by both units' suites, b1 by its own, a2 and b2 by none, and a3
\* does not compile.
MCUnitOf == [m \in Mutants |-> IF m \in {"a1", "a2", "a3"} THEN "a" ELSE "b"]
MCCaught == [m \in Mutants |->
  CASE m = "a1" -> {"a", "b"} [] m = "b1" -> {"b"} [] OTHER -> {}]

\* The series: "hook" edits a file; "own" adds one, and re-cut is a patch on top of
\* hook's.  Upstream has hook's text at r2; at r3 it has taken that file away and
\* the file own adds in.
MCPids == {"hook", "own"}
MCHashes == {"h1", "o1", "o2"}
MCChanges == {"hf", "of", "on", "near", "gone"}
MCSites == {"h", "n"}
MCFilesOf == "h1" :> <<"hf">> @@ "o1" :> <<"of">> @@ "o2" :> <<"on">>
MCContentsOf == "hook" :> {"h1"} @@ "own" :> {"o1", "o2"}
MCTouches == [f \in MCChanges |->
  CASE f \in {"hf", "on"} -> {"h"} [] f = "of" -> {"n"} [] OTHER -> {}]
MCBelow == [f \in MCChanges |-> [s \in MCSites |->
  CASE s = "h" /\ f = "hf" -> {"near"} [] s = "h" /\ f = "on" -> {"near", "hf"} [] OTHER -> {}]]
MCBase == "r2" :> ("h" :> {"near"} @@ "n" :> {}) @@ "r3" :> ("h" :> {"gone"} @@ "n" :> {"of"})
MCManifest == <<"hook", "own">>
=============================================================================
