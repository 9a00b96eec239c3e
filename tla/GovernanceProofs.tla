--------------------------- MODULE GovernanceProofs ---------------------------
(***************************************************************************)
(* Proofs about the three parts of governance that Commits, Evidence and   *)
(* Lanes model, for any number of commits, rows, lanes and any page size.  *)
(***************************************************************************)
EXTENDS Commits, Evidence, Lanes, SequenceTheorems, FiniteSetTheorems, WellFoundedInduction,
        TLAPS

\* A set of natural numbers has a least member.
LEMMA LeastExists ==
  ASSUME NEW S \in SUBSET Nat, S # {}
  PROVE  \E n \in S : \A k \in S : n <= k
<1>1. IsWellFoundedOn(OpToRel(<, Nat), Nat)
  BY NatLessThanWellFounded
<1>2. PICK n \in S : \A k \in S : ~(<<k, n>> \in OpToRel(<, Nat))
  BY <1>1, WFMin
<1>3. \A k \in S : ~(k < n)
  BY <1>2 DEF OpToRel
<1> QED
  BY <1>3

-----------------------------------------------------------------------------
(* Commits *)

\* What GreenIsLawful says of one commit.
Lawful(i) ==
  /\ log[i].signed
  /\ "register" \in log[i].touch => log[i].marked
  /\ TreeBefore(i).exec /\ ~log[i].tree.exec => InFirstPush(i)
  /\ Amends(i) => \/ log[i].cites /\ log[judged[i].at].tree.rfc
                  \/ Escapes(i)

\* Commits not pushed come last, each of the others was pushed under a HEAD there
\* is, and the run under way is the last push's.
PushedInOrder ==
  /\ \A i, j \in DOMAIN judged : i <= j /\ judged[i].end = "local" => judged[j].end = "local"
  /\ \A i \in DOMAIN judged : judged[i].end # "local" => judged[i].at \in 1 .. Len(log)
  /\ govRun # NoRun => \A i \in DOMAIN judged : i > govRun.to <=> judged[i].end = "local"

CommitInv == CommitTypeOK /\ PushedInOrder /\ GreenIsLawful

LEMMA LawfulDef == GreenIsLawful <=> \A i \in DOMAIN judged : judged[i].end = "green" => Lawful(i)
BY DEF GreenIsLawful, Lawful

LEMMA CommitShape ==
  ASSUME CommitTypeOK
  PROVE  /\ Len(log) \in 0 .. MaxCommits /\ MaxCommits \in Nat
         /\ DOMAIN log = 1 .. Len(log) /\ DOMAIN judged = 1 .. Len(log)
         /\ \A i \in 1 .. Len(log) : log[i] \in AllCommits /\ judged[i] \in Judgements
BY LenProperties, ElementOfSeq, CommitAssumption DEF CommitTypeOK, CommitAssumption

LEMMA CommitInitInv == CommitInit => CommitInv
<1> SUFFICES ASSUME CommitInit PROVE CommitInv
  OBVIOUS
<1>1. CommitTypeOK
  BY EmptySeq, CommitAssumption DEF CommitInit, CommitTypeOK, CommitAssumption
<1>2. DOMAIN judged = {}
  BY <1>1, CommitShape, EmptySeq DEF CommitInit
<1>3. PushedInOrder /\ GreenIsLawful
  BY <1>2 DEF CommitInit, PushedInOrder, GreenIsLawful
<1> QED
  BY <1>1, <1>3 DEF CommitInv

\* A commit that was passed stays lawful while the log only grows.
LEMMA LawfulStays ==
  ASSUME CommitInv, NEW i \in 1 .. Len(log), judged[i].end = "green",
         judged'[i] = judged[i], judged'[1].at = judged[1].at,
         \A k \in 1 .. Len(log) : log'[k] = log[k]
  PROVE  Lawful(i)'
<1>1. Lawful(i)
  BY CommitShape, LawfulDef DEF CommitInv
<1>2. judged[i].at \in 1 .. Len(log) /\ Len(log) \in Nat
  BY CommitShape DEF CommitInv, PushedInOrder
<1>3. log'[i] = log[i] /\ log'[judged'[i].at] = log[judged[i].at]
  BY <1>2
<1>4. TreeBefore(i)' = TreeBefore(i)
  <2>1. CASE i = 1
    BY <2>1 DEF TreeBefore
  <2>2. CASE i # 1
    <3>1. i - 1 \in 1 .. Len(log)
      BY <1>2, <2>2
    <3> QED
      BY <2>2, <3>1 DEF TreeBefore
  <2> QED
    BY <2>1, <2>2
<1>5. Amends(i)' = Amends(i) /\ Escapes(i)' = Escapes(i) /\ InFirstPush(i)' = InFirstPush(i)
  BY <1>3, <1>4 DEF Amends, Escapes, InFirstPush, Listed
<1> QED
  BY <1>1, <1>3, <1>4, <1>5 DEF Lawful

LEMMA CommitLocallyKeeps ==
  ASSUME CommitInv, CommitLocally PROVE CommitInv'
<1>1. PICK c \in PushedCommits :
        /\ Len(log) < MaxCommits
        /\ log' = Append(log, c)
        /\ judged' = Append(judged, [end |-> "local", at |-> 0])
        /\ govRun' = govRun
  BY DEF CommitLocally
<1> DEFINE n == Len(log)
<1> DEFINE new == [end |-> "local", at |-> 0]
<1>2. /\ n \in 0 .. MaxCommits /\ MaxCommits \in Nat /\ DOMAIN judged = 1 .. n
      /\ log \in Seq(AllCommits) /\ judged \in Seq(Judgements) /\ Len(judged) = n
  BY CommitShape DEF CommitInv, CommitTypeOK
<1>3. c \in AllCommits /\ new \in Judgements
  BY <1>2, CommitAssumption DEF CommitAssumption, Judgements
<1> HIDE DEF new
<1>4. /\ log' \in Seq(AllCommits) /\ Len(log') = n + 1
      /\ \A k \in 1 .. n : log'[k] = log[k]
  BY <1>1, <1>2, <1>3, AppendProperties
<1>5. /\ judged' \in Seq(Judgements) /\ Len(judged') = n + 1
      /\ judged'[n + 1] = new /\ \A k \in 1 .. n : judged'[k] = judged[k]
  BY <1>1, <1>2, <1>3, AppendProperties DEF new
<1>6. CommitTypeOK'
  BY <1>1, <1>2, <1>4, <1>5 DEF CommitInv, CommitTypeOK, GovRuns
<1>7. DOMAIN judged' = 1 .. n + 1 /\ Len(log') = n + 1
  BY <1>4, <1>5, LenProperties
<1>8. new.end = "local"
  BY DEF new
<1>9. PushedInOrder'
  <2>1. \A i, j \in 1 .. n + 1 :
          i <= j /\ judged'[i].end = "local" => judged'[j].end = "local"
    BY <1>2, <1>5, <1>8 DEF CommitInv, PushedInOrder
  <2>2. \A i \in 1 .. n + 1 : judged'[i].end # "local" => judged'[i].at \in 1 .. n + 1
    BY <1>2, <1>5, <1>8 DEF CommitInv, PushedInOrder
  <2>3. ASSUME govRun # NoRun, NEW i \in 1 .. n + 1
        PROVE  i > govRun.to <=> judged'[i].end = "local"
    <3>1. govRun.to \in 1 .. n
      BY <2>3, <1>2 DEF CommitInv, CommitTypeOK, GovRuns
    <3> QED
      BY <2>3, <3>1, <1>2, <1>5, <1>8 DEF CommitInv, PushedInOrder
  <2> QED
    BY <1>1, <1>7, <2>1, <2>2, <2>3 DEF PushedInOrder
<1>10. ASSUME NEW i \in 1 .. n + 1, judged'[i].end = "green" PROVE Lawful(i)'
  <2>1. i \in 1 .. n /\ 1 \in 1 .. n
    BY <1>2, <1>5, <1>8, <1>10
  <2> QED
    BY <1>4, <1>5, <1>10, <2>1, LawfulStays
<1>11. GreenIsLawful'
  BY <1>7, <1>10 DEF GreenIsLawful, Lawful
<1> QED
  BY <1>6, <1>9, <1>11 DEF CommitInv

LEMMA PushMainKeeps ==
  ASSUME CommitInv, PushMain PROVE CommitInv'
<1> DEFINE n == Len(log)
<1>1. /\ n \in 0 .. MaxCommits /\ MaxCommits \in Nat /\ DOMAIN judged = 1 .. n
      /\ Len(judged) = n /\ judged \in Seq(Judgements)
      /\ \A i \in 1 .. n : judged[i] \in Judgements
  BY CommitShape DEF CommitInv, CommitTypeOK
<1>2. PICK l \in 1 .. n : judged[l].end = "local"
  BY <1>1 DEF PushMain
<1>3. PICK from \in 0 .. n :
        /\ \A i \in DOMAIN judged : i <= from <=> judged[i].end # "local"
        /\ govRun' = [from |-> from, to |-> n]
  BY DEF PushMain
<1>4. from < n /\ n \in 1 .. MaxCommits
  BY <1>1, <1>2, <1>3
<1>5. /\ log' = log /\ DOMAIN judged' = 1 .. n
      /\ \A i \in 1 .. n : judged'[i] =
           CASE judged[i].end = "local" -> [end |-> "open", at |-> n]
             [] judged[i].end = "open" -> [judged[i] EXCEPT !.end = "cancelled"]
             [] OTHER -> judged[i]
  BY <1>1 DEF PushMain
<1>6. \A i \in 1 .. n :
        /\ judged'[i] \in Judgements
        /\ judged'[i].end # "local"
        /\ judged[i].end # "local" => judged'[i].at = judged[i].at
        /\ judged[i].end = "local" => judged'[i].at = n
        /\ judged'[i].end = "green" => judged[i].end = "green" /\ judged'[i] = judged[i]
  <2> TAKE i \in 1 .. n
  <2>0. judged[i] \in Judgements
    BY <1>1
  <2>1. CASE judged[i].end = "local"
    BY <1>1, <1>4, <1>5, <2>1 DEF Judgements
  <2>2. CASE judged[i].end = "open"
    BY <1>5, <2>0, <2>2 DEF Judgements
  <2>3. CASE judged[i].end \notin {"local", "open"}
    BY <1>5, <2>0, <2>3
  <2> QED
    BY <2>1, <2>2, <2>3
<1>7. judged' \in Seq(Judgements) /\ Len(judged') = n
  <2>1. judged' \in [1 .. n -> Judgements]
    BY <1>1, <1>6 DEF PushMain
  <2>2. judged' \in Seq(Judgements)
    BY <1>1, <2>1, SeqDef
  <2> QED
    BY <1>1, <1>5, <2>2, LenProperties
<1>8. CommitTypeOK'
  <2>1. govRun' \in GovRuns /\ govRun'.from < govRun'.to /\ govRun'.to = n
    BY <1>1, <1>3, <1>4 DEF GovRuns
  <2>2. log' \in Seq(AllCommits) /\ Len(log') = n /\ n <= MaxCommits
    BY <1>1, <1>5 DEF CommitInv, CommitTypeOK
  <2> QED
    BY <1>1, <1>7, <2>1, <2>2 DEF CommitTypeOK
<1>9. \A i \in 1 .. n : judged'[i].at \in 1 .. n
  BY <1>1, <1>4, <1>6 DEF CommitInv, PushedInOrder
<1>10. PushedInOrder'
  BY <1>1, <1>3, <1>5, <1>6, <1>9 DEF PushedInOrder
<1>11. ASSUME NEW i \in 1 .. n, judged'[i].end = "green" PROVE Lawful(i)'
  <2>1. judged[i].end = "green" /\ judged'[i] = judged[i]
    BY <1>6, <1>11
  <2>2. 1 \in 1 .. n
    BY <1>4
  <2>3. judged[1].end # "local"
    BY <1>1, <2>1, <2>2 DEF CommitInv, PushedInOrder
  <2> QED
    BY <1>5, <1>6, <2>1, <2>2, <2>3, LawfulStays
<1>12. GreenIsLawful'
  BY <1>5, <1>11 DEF GreenIsLawful, Lawful
<1> QED
  BY <1>8, <1>10, <1>12 DEF CommitInv

\* What a run passes is lawful, or escapes the amendment law.
LEMMA PassedIsLawful ==
  ASSUME CommitTypeOK, govRun # NoRun, ~RunFails(govRun),
         NEW i \in govRun.from + 1 .. govRun.to
  PROVE  /\ log[i].signed
         /\ "register" \in log[i].touch => log[i].marked
         /\ TreeBefore(i).exec /\ ~log[i].tree.exec => govRun.from = 0
         /\ Amends(i) => \/ log[i].cites /\ log[govRun.to].tree.rfc
                         \/ ~Listed(log[govRun.to].tree)
                         \/ govRun.from = 0
<1> DEFINE t == log[govRun.to].tree
<1>1. /\ ~RegisterFails(log[i]) /\ ~SignoffFails(log[i])
      /\ ModeDriftFails(i) => govRun.from = 0
  BY DEF RunFails
<1>2. t.frozen # "none"
  BY DEF RunFails, TreeFails
<1>3. ASSUME Amends(i), Listed(t), govRun.from # 0 PROVE log[i].cites /\ t.rfc
  <2>1. ~AmendFails(log[i], t)
    BY <1>3 DEF RunFails, AmendRange
  <2>2. "contract" \in log[i].touch
    BY <1>3 DEF Amends
  <2>3. ~StampExempt(log[i], t)
    BY <1>3, <2>2 DEF StampExempt
  <2>4. log[i].touch \cap ({"frozen", "index", "mojom"} \cup {f \in {"contract"} : Listed(t)}) # {}
    BY <1>3, <2>2
  <2> QED
    BY <1>2, <2>1, <2>3, <2>4 DEF AmendFails
<1> QED
  BY <1>1, <1>3 DEF RegisterFails, SignoffFails, ModeDriftFails

LEMMA EndRunKeeps ==
  ASSUME CommitInv, EndRun PROVE CommitInv'
<1> DEFINE n == Len(log)
<1> DEFINE end == IF RunFails(govRun) THEN "red" ELSE "green"
<1>1. /\ n \in 0 .. MaxCommits /\ MaxCommits \in Nat /\ DOMAIN judged = 1 .. n
      /\ Len(judged) = n /\ judged \in Seq(Judgements)
      /\ \A i \in 1 .. n : judged[i] \in Judgements
  BY CommitShape DEF CommitInv, CommitTypeOK
<1>2. /\ govRun # NoRun /\ judged' = Judge(govRun, end) /\ govRun' = NoRun /\ log' = log
  BY DEF EndRun
<1>3. /\ govRun.from \in 0 .. n /\ govRun.to \in 1 .. n /\ govRun.from < govRun.to
      /\ govRun.to \in 0 .. MaxCommits
  BY <1>1, <1>2 DEF CommitInv, CommitTypeOK, GovRuns
<1> DEFINE R == govRun.from + 1 .. govRun.to
<1> HIDE DEF end
<1>4. /\ DOMAIN judged' = 1 .. n
      /\ \A i \in 1 .. n : judged'[i] = IF i \in R THEN [end |-> end, at |-> govRun.to]
                                        ELSE judged[i]
  BY <1>1, <1>2 DEF Judge
<1>5. end \in {"red", "green"}
  BY DEF end
<1>6. judged' \in Seq(Judgements) /\ Len(judged') = n
  <2>1. [end |-> end, at |-> govRun.to] \in Judgements
    BY <1>3, <1>5 DEF Judgements
  <2>2. \A i \in 1 .. n : judged'[i] \in Judgements
    BY <1>1, <1>4, <2>1
  <2>3. judged' \in [1 .. n -> Judgements]
    BY <1>1, <1>2, <2>2 DEF Judge
  <2>4. judged' \in Seq(Judgements)
    BY <1>1, <2>3, SeqDef
  <2> QED
    BY <1>1, <1>4, <2>4, LenProperties
<1>7. CommitTypeOK'
  BY <1>2, <1>6 DEF CommitInv, CommitTypeOK
<1>8. \A i \in 1 .. n :
        /\ judged'[i].end = "local" <=> judged[i].end = "local"
        /\ judged'[i].end # "local" => judged'[i].at \in 1 .. n
  <2> TAKE i \in 1 .. n
  <2>1. CASE i \in R
    <3>1. judged[i].end # "local"
      BY <1>1, <1>2, <1>3, <2>1 DEF CommitInv, PushedInOrder
    <3> QED
      BY <1>3, <1>4, <1>5, <2>1, <3>1
  <2>2. CASE i \notin R
    BY <1>1, <1>4, <2>2 DEF CommitInv, PushedInOrder
  <2> QED
    BY <2>1, <2>2
<1>9. PushedInOrder'
  BY <1>1, <1>2, <1>4, <1>8 DEF CommitInv, PushedInOrder
<1>10. ASSUME NEW i \in 1 .. n, judged'[i].end = "green" PROVE Lawful(i)'
  <2>1. CASE i \in R
    <3>1. judged'[i].at = govRun.to /\ ~RunFails(govRun)
      BY <1>4, <1>10, <2>1 DEF end
    <3>2. govRun.from = 0 => judged'[1].at = govRun.to
      BY <1>1, <1>3, <1>4
    <3>3. /\ log[i].signed
          /\ "register" \in log[i].touch => log[i].marked
          /\ TreeBefore(i).exec /\ ~log[i].tree.exec => govRun.from = 0
          /\ Amends(i) => \/ log[i].cites /\ log[govRun.to].tree.rfc
                          \/ ~Listed(log[govRun.to].tree)
                          \/ govRun.from = 0
      BY <1>2, <2>1, <3>1, PassedIsLawful DEF CommitInv
    <3>4. TreeBefore(i)' = TreeBefore(i) /\ Amends(i)' = Amends(i)
      BY <1>2 DEF TreeBefore, Amends
    <3> QED
      BY <1>2, <3>1, <3>2, <3>3, <3>4 DEF Lawful, Escapes, InFirstPush
  <2>2. CASE i \notin R
    <3>1. judged'[i] = judged[i] /\ judged[i].end = "green"
      BY <1>4, <1>10, <2>2
    <3>2. i <= govRun.to /\ 1 \notin R
      BY <1>1, <1>2, <1>3, <2>2, <3>1 DEF CommitInv, PushedInOrder
    <3>3. judged'[1].at = judged[1].at
      BY <1>1, <1>3, <1>4, <3>2
    <3> QED
      BY <1>2, <3>1, <3>3, LawfulStays
  <2> QED
    BY <2>1, <2>2
<1>11. GreenIsLawful'
  BY <1>4, <1>10 DEF GreenIsLawful, Lawful
<1> QED
  BY <1>7, <1>9, <1>11 DEF CommitInv

LEMMA CommitNextKeeps == CommitInv /\ [CommitNext]_commitVars => CommitInv'
<1> SUFFICES ASSUME CommitInv, [CommitNext]_commitVars PROVE CommitInv'
  OBVIOUS
<1>1. CASE UNCHANGED commitVars
  BY <1>1 DEF commitVars, CommitInv, CommitTypeOK, PushedInOrder, GreenIsLawful, Amends,
     Escapes, InFirstPush, TreeBefore
<1>2. CASE CommitNext
  BY <1>2, CommitLocallyKeeps, PushMainKeeps, EndRunKeeps DEF CommitNext
<1> QED
  BY <1>1, <1>2

\* Every variable of the range gates has its type.
THEOREM CommitTypes == CommitSpec => []CommitTypeOK
<1>1. CommitInv => CommitTypeOK
  BY DEF CommitInv
<1> QED
  BY <1>1, CommitInitInv, CommitNextKeeps, PTL DEF CommitSpec

\* Whatever is pushed in whatever batches, a commit a governance run passed obeys
\* the range laws (amend_guard, dr_parse, dco_check, entrypoint_mode_check).
THEOREM GreenCommitsAreLawful == CommitSpec => []GreenIsLawful
<1>1. CommitInv => GreenIsLawful
  BY DEF CommitInv
<1> QED
  BY <1>1, CommitInitInv, CommitNextKeeps, PTL DEF CommitSpec

-----------------------------------------------------------------------------
(* Evidence *)

\* The bundle speaks of commits there are, and only the last commit's run can
\* still be under way.
LastIsOpen ==
  /\ claim # NoClaim => Sayable(claim)
  /\ \A n \in DOMAIN rows : Citable(rows[n].cites)
  /\ \A i \in DOMAIN runEnds : runEnds[i] = "open" => i = Len(runEnds)

EvidenceInv == EvidenceTypeOK /\ LastIsOpen /\ FinalIsProven

LEMMA EvidenceShape ==
  ASSUME EvidenceTypeOK
  PROVE  /\ Len(runEnds) \in 0 .. MaxPushes /\ MaxPushes \in Nat
         /\ DOMAIN runEnds = 1 .. Len(runEnds)
         /\ Len(rows) \in 0 .. MaxRows /\ MaxRows \in Nat
         /\ DOMAIN rows = 1 .. Len(rows)
         /\ \A n \in DOMAIN rows : rows[n] \in DodRows
BY LenProperties, ElementOfSeq, EvidenceAssumption DEF EvidenceTypeOK, EvidenceAssumption

LEMMA EvidenceInitInv == EvidenceInit => EvidenceInv
<1> SUFFICES ASSUME EvidenceInit PROVE EvidenceInv
  OBVIOUS
<1>1. EvidenceTypeOK
  <2>1. rows \in Seq(DodRows) /\ Len(rows) = 0 /\ runEnds \in Seq(RunEnds) /\ Len(runEnds) = 0
    BY EmptySeq DEF EvidenceInit
  <2>2. Len(rows) <= MaxRows /\ Len(runEnds) <= MaxPushes
    BY <2>1, EvidenceAssumption DEF EvidenceAssumption
  <2>3. claim \in AllClaims \cup {NoClaim} /\ flying \in BOOLEAN /\ blind \in BOOLEAN
    BY DEF EvidenceInit
  <2> QED
    BY <2>1, <2>2, <2>3 DEF EvidenceTypeOK
<1>2. DOMAIN runEnds = {} /\ DOMAIN rows = {}
  BY <1>1, EvidenceShape, EmptySeq DEF EvidenceInit
<1>3. LastIsOpen /\ FinalIsProven
  BY <1>2 DEF EvidenceInit, LastIsOpen, FinalIsProven
<1> QED
  BY <1>1, <1>3 DEF EvidenceInv

\* A push leaves one run open, its own, and makes none green.
LEMMA PushedShape ==
  ASSUME EvidenceTypeOK, Len(runEnds) < MaxPushes
  PROVE  /\ Pushed \in Seq(RunEnds) /\ Len(Pushed) = Len(runEnds) + 1
         /\ Pushed[Len(runEnds) + 1] = "open"
         /\ \A i \in 1 .. Len(runEnds) :
              Pushed[i] # "open" /\ (Pushed[i] = "green" => runEnds[i] = "green")
<1> DEFINE n == Len(runEnds)
<1> DEFINE old == [i \in DOMAIN runEnds |-> IF runEnds[i] = "open" THEN "cancelled" ELSE runEnds[i]]
<1>1. n \in Nat /\ DOMAIN runEnds = 1 .. n /\ \A i \in 1 .. n : runEnds[i] \in RunEnds
  BY EvidenceShape, ElementOfSeq DEF EvidenceTypeOK
<1>2. /\ old \in [1 .. n -> RunEnds]
      /\ \A i \in 1 .. n : old[i] # "open" /\ (old[i] = "green" => runEnds[i] = "green")
  BY <1>1 DEF RunEnds
<1>3. old \in Seq(RunEnds)
  BY <1>1, <1>2, SeqDef
<1>4. Len(old) = n
  BY <1>1, <1>2, <1>3, LenProperties
<1> HIDE DEF old
<1>5. Pushed = Append(old, "open") /\ "open" \in RunEnds
  BY DEF Pushed, old, RunEnds
<1> QED
  BY <1>1, <1>2, <1>3, <1>4, <1>5, AppendProperties

LEMMA PushKeeps ==
  ASSUME EvidenceInv, Len(runEnds) < MaxPushes, runEnds' = Pushed, blind' = FALSE,
         flying' \in BOOLEAN, rows' \in Seq(DodRows), Len(rows') <= MaxRows,
         \A k \in DOMAIN rows' : Citable(rows'[k].cites),
         claim' \in AllClaims \cup {NoClaim}, claim' # NoClaim => Sayable(claim')
  PROVE  EvidenceInv'
<1> DEFINE n == Len(runEnds)
<1>1. /\ n \in Nat /\ MaxPushes \in Nat
      /\ runEnds' \in Seq(RunEnds) /\ Len(runEnds') = n + 1
      /\ runEnds'[n + 1] = "open" /\ \A i \in 1 .. n : runEnds'[i] # "open"
  BY PushedShape, EvidenceShape DEF EvidenceInv
<1>2. DOMAIN runEnds' = 1 .. n + 1
  BY <1>1, LenProperties
<1>3. EvidenceTypeOK'
  <2>1. Len(runEnds') <= MaxPushes
    BY <1>1
  <2>2. blind' \in BOOLEAN
    OBVIOUS
  <2> QED
    BY <1>1, <2>1, <2>2 DEF EvidenceTypeOK
<1>4. claim' # NoClaim => Sayable(claim)'
  <2> SUFFICES ASSUME claim' # NoClaim
               PROVE  claim'.head <= n + 1 /\ \A i \in claim'.kept : i <= n + 1
    BY <1>1 DEF Sayable
  <2>1. claim'.head <= n /\ \A i \in claim'.kept : i <= n
    BY DEF Sayable
  <2>2. claim' \in AllClaims
    OBVIOUS
  <2>3. claim'.head \in Nat /\ \A i \in claim'.kept : i \in Nat
    BY <1>1, <2>2 DEF AllClaims
  <2> QED
    BY <1>1, <2>1, <2>3
<1>5. ASSUME NEW k \in DOMAIN rows', rows'[k].cites # NoCitation
      PROVE  /\ rows'[k].cites.run <= n + 1 /\ rows'[k].cites.job <= n + 1
             /\ rows'[k].cites.says <= n + 1
  <2>1. rows'[k] \in DodRows
    BY ElementOfSeq, LenProperties
  <2>2. rows'[k].cites \in Citations
    BY <1>5, <2>1 DEF DodRows
  <2>3. rows'[k].cites.run \in Nat /\ rows'[k].cites.job \in Nat /\ rows'[k].cites.says \in Nat
    BY <1>1, <2>2 DEF Citations
  <2>4. rows'[k].cites.run <= n /\ rows'[k].cites.job <= n /\ rows'[k].cites.says <= n
    BY <1>5 DEF Citable
  <2> QED
    BY <1>1, <2>3, <2>4
<1>6. \A k \in DOMAIN rows' : Citable(rows[k].cites)'
  BY <1>1, <1>5 DEF Citable
<1>7. LastIsOpen'
  BY <1>1, <1>2, <1>4, <1>6 DEF LastIsOpen
<1>8. ~HeadIsGreen'
  BY <1>1 DEF HeadIsGreen
<1> QED
  BY <1>3, <1>7, <1>8 DEF EvidenceInv, FinalIsProven

LEMMA PushBundleKeeps ==
  ASSUME EvidenceInv, PushBundle PROVE EvidenceInv'
<1>1. PICK c \in PushedClaims : Sayable(c) /\ claim' = c
  BY DEF PushBundle
<1>2. /\ Len(runEnds) < MaxPushes /\ runEnds' = Pushed /\ blind' = FALSE /\ flying' = flying
  BY DEF PushBundle
<1>3. c \in AllClaims
  BY EvidenceAssumption DEF EvidenceAssumption
<1>4. CASE rows' = rows
  BY <1>1, <1>2, <1>3, <1>4, PushKeeps DEF EvidenceInv, EvidenceTypeOK, LastIsOpen
<1>5. ASSUME NEW r \in PushedRows,
             Len(rows) < MaxRows, Citable(r.cites), rows' = Append(rows, r)
      PROVE  EvidenceInv'
  <2>1. r \in DodRows /\ rows \in Seq(DodRows)
    BY EvidenceAssumption DEF EvidenceAssumption, EvidenceInv, EvidenceTypeOK
  <2>2. /\ rows' \in Seq(DodRows) /\ Len(rows') = Len(rows) + 1
        /\ \A k \in 1 .. Len(rows) : rows'[k] = rows[k]
        /\ rows'[Len(rows) + 1] = r
    BY <1>5, <2>1, AppendProperties
  <2>3. Len(rows) \in Nat /\ MaxRows \in Nat /\ DOMAIN rows = 1 .. Len(rows)
    BY EvidenceShape DEF EvidenceInv
  <2>4. DOMAIN rows' = 1 .. Len(rows) + 1
    BY <2>2, LenProperties
  <2>5. \A k \in DOMAIN rows' : Citable(rows'[k].cites)
    <3> TAKE k \in DOMAIN rows'
    <3>1. k \in DOMAIN rows \/ k = Len(rows) + 1
      BY <2>3, <2>4
    <3> QED
      BY <1>5, <2>2, <2>3, <3>1 DEF EvidenceInv, LastIsOpen
  <2>6. Len(rows') <= MaxRows
    BY <1>5, <2>2, <2>3
  <2>7. flying' \in BOOLEAN /\ claim' \in AllClaims \cup {NoClaim} /\ Sayable(claim')
    BY <1>1, <1>2, <1>3 DEF EvidenceInv, EvidenceTypeOK
  <2> QED
    BY <1>2, <2>2, <2>5, <2>6, <2>7, PushKeeps
<1> QED
  BY <1>4, <1>5 DEF PushBundle

LEMMA NextPhaseKeeps ==
  ASSUME EvidenceInv, NextPhase PROVE EvidenceInv'
<1>1. /\ Len(runEnds) < MaxPushes /\ runEnds' = Pushed /\ blind' = FALSE
      /\ flying' = FALSE /\ rows' = rows /\ claim' = claim
  BY DEF NextPhase
<1> QED
  BY <1>1, PushKeeps DEF EvidenceInv, EvidenceTypeOK, LastIsOpen

\* A set of numbers up to N has a greatest member.
LEMMA GreatestExists ==
  ASSUME NEW N \in Nat, NEW S \in SUBSET (1 .. N), S # {}
  PROVE  \E n \in S : \A k \in S : k <= n
<1> DEFINE T == {N - k : k \in S}
<1>1. T \in SUBSET Nat /\ T # {}
  <2>1. \A k \in S : N - k \in Nat
    <3> TAKE k \in S
    <3>1. k \in 1 .. N
      OBVIOUS
    <3> QED
      BY <3>1
  <2> QED
    BY <2>1
<1>2. PICK t \in T : \A u \in T : t <= u
  BY <1>1, LeastExists
<1>3. PICK n \in S : t = N - n
  OBVIOUS
<1>4. ASSUME NEW k \in S PROVE k <= n
  <2>1. N - n <= N - k
    BY <1>2, <1>3
  <2> QED
    BY <2>1
<1> QED
  BY <1>4

\* If no status that decides an id is pending, every set of pending rows has a row
\* outside it that bears or corrects an id of it.
LEMMA NothingPending ==
  ASSUME EvidenceTypeOK, NothingPends(rows),
         NEW S \in SUBSET DOMAIN rows, S # {}, \A r \in S : rows[r].pending
  PROVE  \E r \in S, f \in DOMAIN rows \ S :
           rows[f].id = rows[r].id \/ rows[f].corrects = rows[r].id
<1> SUFFICES ASSUME \A r \in S, f \in DOMAIN rows :
                      rows[f].id = rows[r].id \/ rows[f].corrects = rows[r].id => f \in S
             PROVE  FALSE
  OBVIOUS
<1>1. Len(rows) \in Nat /\ DOMAIN rows = 1 .. Len(rows)
  BY EvidenceShape
<1>2. ASSUME NEW r \in S PROVE PendsAsWritten(rows, rows[r].id)
  <2> DEFINE same == {n \in DOMAIN rows : rows[n].id = rows[r].id}
  <2>1. same \in SUBSET (1 .. Len(rows)) /\ same # {}
    BY <1>1
  <2>2. PICK g \in same : \A k \in same : k <= g
    BY <1>1, <2>1, GreatestExists
  <2>3. g \in DOMAIN rows /\ rows[g].id = rows[r].id /\ rows[g].pending
    OBVIOUS
  <2>4. ASSUME NEW m \in DOMAIN rows, m > g PROVE rows[m].id # rows[r].id
    BY <1>1, <2>2, <2>4
  <2> QED
    BY <2>3, <2>4 DEF PendsAsWritten
<1>3. ASSUME NEW r \in S PROVE rows[r].id \notin ReadAsWritten(rows)
  BY <1>2 DEF NothingPends
<1> DEFINE F == {n \in Fixers(rows) : \E r \in S : rows[n].corrects = rows[r].id}
<1>4. CASE F = {}
  <2>1. PICK r \in S : TRUE
    OBVIOUS
  <2>2. rows[r].id \in IdsOf(rows) \ {rows[n].corrects : n \in Fixers(rows)}
    BY <1>4, <2>1 DEF IdsOf
  <2> QED
    BY <1>3, <2>1, <2>2 DEF ReadAsWritten
<1>5. CASE F # {}
  <2>1. F \in SUBSET Nat
    BY <1>1 DEF Fixers
  <2>2. PICK n \in F : \A k \in F : n <= k
    BY <1>5, <2>1, LeastExists
  <2>3. n \in DOMAIN rows /\ n \in S /\ n \in Fixers(rows)
    BY <2>2 DEF Fixers
  <2>4. ASSUME NEW m \in Fixers(rows), m < n, rows[m].corrects = rows[n].id PROVE FALSE
    <3>1. m \in F
      BY <2>3, <2>4
    <3>2. n <= m /\ n \in Nat /\ m \in Nat
      BY <2>1, <2>2, <3>1
    <3> QED
      BY <2>4, <3>2
  <2>5. rows[n].id \in ReadAsWritten(rows)
    BY <2>3, <2>4 DEF ReadAsWritten
  <2> QED
    BY <1>3, <2>3, <2>5
<1> QED
  BY <1>4, <1>5

\* What FinalIsProven says of the rows' statuses.
NoneLeftPending ==
  \A S \in SUBSET DOMAIN rows : S # {} /\ (\A r \in S : rows[r].pending) =>
    \E r \in S, f \in DOMAIN rows \ S : rows[f].id = rows[r].id \/ rows[f].corrects = rows[r].id

\* A final bundle that governance passed is proven, when governance could look.
LEMMA PassedIsProven ==
  ASSUME EvidenceTypeOK, LastIsOpen, claim # NoClaim, claim.state = "final",
         NEW heard \in SUBSET CiRows(rows), BundlePasses(rows, claim, flying, heard, runEnds)
  PROVE  /\ \/ claim.head \in DOMAIN runEnds /\ runEnds[claim.head] = "green"
            \/ heard # CiRows(rows)
            \/ HeadRows # {} /\ \A n \in HeadRows : Misleads(rows[n].cites, claim)
         /\ NoneLeftPending
<1>1. HeadCovered(rows, claim) /\ NothingPends(rows)
  BY DEF BundlePasses
<1>2. HeadRows # {}
  BY <1>1 DEF HeadCovered, HeadRows
<1>3. ASSUME heard = CiRows(rows), NEW n \in HeadRows, ~Misleads(rows[n].cites, claim)
      PROVE  claim.head \in DOMAIN runEnds /\ runEnds[claim.head] = "green"
  <2> DEFINE c == rows[n].cites
  <2>1. n \in CiRows(rows) /\ n \in DOMAIN rows /\ c # NoCitation /\ c.says = claim.head
    BY <1>3 DEF HeadRows, CiRows
  <2>2. c.job # 0 /\ runEnds[c.job] = "green" /\ (claim.kept = {} \/ c.run \in claim.kept)
    BY <1>3, <2>1 DEF BundlePasses, CitedRunGreen
  <2>3. c.job = c.run /\ c.says = c.run
    BY <1>3, <2>2 DEF Misleads
  <2>4. c \in Citations
    BY <2>1, EvidenceShape DEF DodRows
  <2>5. c.job \in Nat /\ c.job <= Len(runEnds)
    BY <2>1, <2>4, EvidenceShape DEF Citations, LastIsOpen, Citable
  <2>6. c.job \in DOMAIN runEnds
    BY <2>2, <2>5, EvidenceShape
  <2> QED
    BY <2>1, <2>2, <2>3, <2>6
<1>4. NoneLeftPending
  BY <1>1, NothingPending DEF NoneLeftPending
<1> QED
  BY <1>2, <1>3, <1>4

LEMMA EndGovernanceKeeps ==
  ASSUME EvidenceInv, EndGovernance PROVE EvidenceInv'
<1> DEFINE n == Len(runEnds)
<1>1. PICK i \in DOMAIN runEnds, heard \in SUBSET CiRows(rows), end \in {"green", "red"} :
        /\ runEnds[i] = "open"
        /\ end = "green" =>
             claim # NoClaim /\ BundlePasses(rows, claim, flying, heard, runEnds)
        /\ runEnds' = [runEnds EXCEPT ![i] = end]
        /\ blind' = (heard # CiRows(rows))
        /\ UNCHANGED <<rows, claim, flying>>
  BY DEF EndGovernance
<1>2. /\ n \in 1 .. MaxPushes /\ i = n /\ DOMAIN runEnds = 1 .. n
  BY <1>1, EvidenceShape DEF EvidenceInv, LastIsOpen
<1>3. /\ runEnds' \in Seq(RunEnds) /\ Len(runEnds') = n
      /\ \A j \in 1 .. n : runEnds'[j] = IF j = n THEN end ELSE runEnds[j]
  BY <1>1, <1>2, ExceptSeq DEF EvidenceInv, EvidenceTypeOK, RunEnds
<1>4. DOMAIN runEnds' = 1 .. n
  BY <1>2, <1>3, LenProperties
<1>5. EvidenceTypeOK'
  BY <1>1, <1>3 DEF EvidenceInv, EvidenceTypeOK
<1>6. LastIsOpen'
  BY <1>1, <1>2, <1>3, <1>4 DEF EvidenceInv, LastIsOpen, Sayable, Citable
<1>7. FinalIsProven'
  <2> SUFFICES ASSUME HeadIsGreen', claim # NoClaim, claim.state = "final"
               PROVE  FinalIsProven'
    BY <1>1 DEF FinalIsProven
  <2>1. end = "green"
    BY <1>2, <1>3 DEF HeadIsGreen
  <2>2. /\ \/ claim.head \in DOMAIN runEnds /\ runEnds[claim.head] = "green"
           \/ heard # CiRows(rows)
           \/ HeadRows # {} /\ \A k \in HeadRows : Misleads(rows[k].cites, claim)
        /\ NoneLeftPending
    BY <1>1, <2>1, PassedIsProven DEF EvidenceInv
  <2>3. claim.head \in DOMAIN runEnds /\ runEnds[claim.head] = "green" =>
          runEnds'[claim.head] = "green"
    BY <1>2, <1>3, <2>1
  <2>4. \/ runEnds'[claim'.head] = "green"
        \/ blind'
        \/ HeadRows' # {} /\ \A k \in HeadRows' : Misleads(rows[k].cites, claim)'
    BY <1>1, <2>2, <2>3 DEF HeadRows, CiRows, Misleads
  <2>5. NoneLeftPending'
    BY <1>1, <2>2 DEF NoneLeftPending
  <2> QED
    BY <2>4, <2>5 DEF FinalIsProven, NoneLeftPending
<1> QED
  BY <1>5, <1>6, <1>7 DEF EvidenceInv

LEMMA EvidenceNextKeeps == EvidenceInv /\ [EvidenceNext]_evidenceVars => EvidenceInv'
<1> SUFFICES ASSUME EvidenceInv, [EvidenceNext]_evidenceVars PROVE EvidenceInv'
  OBVIOUS
<1>1. CASE UNCHANGED evidenceVars
  BY <1>1 DEF evidenceVars, EvidenceInv, EvidenceTypeOK, LastIsOpen, Sayable, Citable,
     FinalIsProven, HeadIsGreen, HeadRows, CiRows, Misleads
<1>2. CASE EvidenceNext
  BY <1>2, PushBundleKeeps, NextPhaseKeeps, EndGovernanceKeeps DEF EvidenceNext
<1> QED
  BY <1>1, <1>2

\* Every variable of the closure gate has its type.
THEOREM EvidenceTypes == EvidenceSpec => []EvidenceTypeOK
<1>1. EvidenceInv => EvidenceTypeOK
  BY DEF EvidenceInv
<1> QED
  BY <1>1, EvidenceInitInv, EvidenceNextKeeps, PTL DEF EvidenceSpec

\* However long a phase takes and whatever is claimed of it on the way, a phase
\* that is final on a green main is proven (evidence_check --strict and its laws).
THEOREM FinalPhasesAreProven == EvidenceSpec => []FinalIsProven
<1>1. EvidenceInv => FinalIsProven
  BY DEF EvidenceInv
<1> QED
  BY <1>1, EvidenceInitInv, EvidenceNextKeeps, PTL DEF EvidenceSpec

\* A set's elements, written out in some order, are all there.
LEMMA SetToSeqShape ==
  ASSUME NEW S, IsFiniteSet(S)
  PROVE  /\ SetToSeq(S) \in Seq(S)
         /\ \A x \in S : \E i \in DOMAIN SetToSeq(S) : SetToSeq(S)[i] = x
<1> DEFINE n == Cardinality(S)
<1> DEFINE q == SetToSeq(S)
<1>1. n \in Nat /\ ExistsBijection(1 .. n, S)
  BY FS_CardinalityType
<1>2. \E f \in [1 .. n -> S] : IsInjective(f)
  BY <1>1 DEF ExistsBijection, Bijection, Injection
<1>3. q \in [1 .. n -> S] /\ IsInjective(q)
  BY <1>2 DEF SetToSeq
<1> HIDE DEF q
<1>4. q \in Seq(S)
  BY <1>1, <1>3, SeqDef
<1>5. q \in Injection(1 .. n, S)
  BY <1>3 DEF Injection
<1>6. Cardinality(1 .. n) = n
  BY <1>1, FS_Interval
<1>7. q \in Surjection(1 .. n, S)
  BY <1>5, <1>6, FS_Injection
<1>8. \A x \in S : \E i \in DOMAIN q : q[i] = x
  BY <1>3, <1>7 DEF Surjection
<1> QED
  BY <1>4, <1>8 DEF q

\* Where a run was green there is a row.
GreenHasRows == (\E h \in DOMAIN runEnds : runEnds[h] = "green") => rows # <<>>

ClosableInv == EvidenceInv /\ GreenHasRows

LEMMA PushedGreens ==
  ASSUME EvidenceTypeOK, Len(runEnds) < MaxPushes
  PROVE  \A h \in DOMAIN Pushed :
           Pushed[h] = "green" => h \in DOMAIN runEnds /\ runEnds[h] = "green"
<1>1. DOMAIN Pushed = 1 .. Len(runEnds) + 1 /\ Len(runEnds) \in Nat
  BY PushedShape, EvidenceShape, LenProperties
<1> QED
  BY <1>1, PushedShape, EvidenceShape

LEMMA ClosablePushKeeps ==
  ASSUME ClosableInv, PushBundle PROVE GreenHasRows'
<1>1. rows \in Seq(DodRows)
  BY DEF ClosableInv, EvidenceInv, EvidenceTypeOK
<1>2. rows # <<>> => rows' # <<>>
  <2>1. CASE rows' = rows
    BY <2>1
  <2>2. ASSUME NEW r \in PushedRows, rows' = Append(rows, r) PROVE rows' # <<>>
    <3>1. r \in DodRows
      BY EvidenceAssumption DEF EvidenceAssumption
    <3>2. rows' \in Seq(DodRows) /\ Len(rows') = Len(rows) + 1 /\ Len(rows) \in Nat
      BY <1>1, <2>2, <3>1, AppendProperties, LenProperties
    <3> QED
      BY <3>2, EmptySeq
  <2> QED
    BY <2>1, <2>2 DEF PushBundle
<1>3. Len(runEnds) < MaxPushes /\ runEnds' = Pushed
  BY DEF PushBundle
<1> QED
  BY <1>2, <1>3, PushedGreens DEF ClosableInv, EvidenceInv, GreenHasRows

LEMMA ClosableNextKeeps == ClosableInv /\ [EvidenceNext]_evidenceVars => ClosableInv'
<1> SUFFICES ASSUME ClosableInv, [EvidenceNext]_evidenceVars PROVE ClosableInv'
  OBVIOUS
<1>1. EvidenceInv'
  BY EvidenceNextKeeps DEF ClosableInv
<1>2. CASE UNCHANGED evidenceVars
  BY <1>1, <1>2 DEF evidenceVars, ClosableInv, GreenHasRows
<1>3. CASE PushBundle
  BY <1>1, <1>3, ClosablePushKeeps DEF ClosableInv
<1>4. CASE NextPhase
  <2>1. rows' = rows /\ Len(runEnds) < MaxPushes /\ runEnds' = Pushed
    BY <1>4 DEF NextPhase
  <2> QED
    BY <1>1, <2>1, PushedGreens DEF ClosableInv, EvidenceInv, GreenHasRows
<1>5. CASE EndGovernance
  <2>1. PICK i \in DOMAIN runEnds, heard \in SUBSET CiRows(rows), end \in {"green", "red"} :
          /\ end = "green" => BundlePasses(rows, claim, flying, heard, runEnds)
          /\ runEnds' = [runEnds EXCEPT ![i] = end]
          /\ rows' = rows
    BY <1>5 DEF EndGovernance
  <2>2. ASSUME NEW h \in DOMAIN runEnds', runEnds'[h] = "green" PROVE rows # <<>>
    <3>1. CASE h = i
      <4>1. end = "green"
        BY <2>1, <2>2, <3>1
      <4> QED
        BY <2>1, <4>1 DEF BundlePasses
    <3>2. CASE h # i
      BY <2>1, <2>2, <3>2 DEF ClosableInv, GreenHasRows
    <3> QED
      BY <3>1, <3>2
  <2> QED
    BY <1>1, <2>1, <2>2 DEF ClosableInv, GreenHasRows
<1> QED
  BY <1>2, <1>3, <1>4, <1>5 DEF EvidenceNext

\* The rows that Corrected adds, one for each id, come after the old.
Fixing(h) == {Correction(i, h) : i \in IdsOf(rows)}

LEMMA CorrectedShape ==
  ASSUME EvidenceTypeOK, NEW h
  PROVE  /\ \E m \in Nat : DOMAIN Corrected(rows, h) = 1 .. Len(rows) + m
         /\ \A i \in 1 .. Len(rows) :
              i \in DOMAIN Corrected(rows, h) /\ Corrected(rows, h)[i] = rows[i]
         /\ \A i \in DOMAIN Corrected(rows, h) :
              i > Len(rows) => Corrected(rows, h)[i] \in Fixing(h)
         /\ \A x \in Fixing(h) : \E i \in DOMAIN Corrected(rows, h) :
              i > Len(rows) /\ Corrected(rows, h)[i] = x
<1> DEFINE n == Len(rows)
<1> DEFINE fixes == SetToSeq(Fixing(h))
<1> DEFINE all == Corrected(rows, h)
<1>1. rows \in Seq(DodRows) /\ n \in Nat /\ DOMAIN rows = 1 .. n
  BY EvidenceShape DEF EvidenceTypeOK
<1>2. IsFiniteSet(Fixing(h))
  <2>1. IsFiniteSet(1 .. n)
    BY <1>1, FS_Interval
  <2>2. [k \in 1 .. n |-> Correction(rows[k].id, h)] \in Surjection(1 .. n, Fixing(h))
    BY <1>1 DEF Surjection, Fixing, IdsOf
  <2> QED
    BY <2>1, <2>2, FS_Surjection
<1>3. /\ fixes \in Seq(Fixing(h))
      /\ \A x \in Fixing(h) : \E i \in DOMAIN fixes : fixes[i] = x
  BY <1>2, SetToSeqShape
<1> HIDE DEF fixes
<1>4. all = rows \o fixes
  BY DEF Corrected, fixes, Fixing
<1>5. /\ Len(fixes) \in Nat /\ DOMAIN fixes = 1 .. Len(fixes)
      /\ \A i \in DOMAIN fixes : fixes[i] \in Fixing(h)
  BY <1>3, LenProperties, ElementOfSeq
<1> DEFINE rec == DodRows \cup Fixing(h)
<1>6. rows \in Seq(rec) /\ fixes \in Seq(rec)
  <2>1. \A i \in 1 .. n : rows[i] \in rec
    BY <1>1, ElementOfSeq
  <2>2. rows \in [1 .. n -> rec]
    BY <1>1, <2>1, LenProperties
  <2>3. fixes \in [1 .. Len(fixes) -> rec]
    BY <1>3, <1>5, LenProperties
  <2> QED
    BY <1>1, <1>5, <2>2, <2>3, SeqDef
<1> HIDE DEF rec
<1>7. /\ all \in Seq(rec) /\ Len(all) = n + Len(fixes)
      /\ \A i \in 1 .. n + Len(fixes) : all[i] = IF i <= n THEN rows[i] ELSE fixes[i - n]
  BY <1>4, <1>6, ConcatProperties
<1>8. DOMAIN all = 1 .. n + Len(fixes)
  BY <1>7, LenProperties
<1> HIDE DEF all
<1>9. \A i \in 1 .. n : i \in DOMAIN all /\ all[i] = rows[i]
  BY <1>1, <1>5, <1>7, <1>8
<1>10. ASSUME NEW i \in DOMAIN all, i > n PROVE all[i] \in Fixing(h)
  <2>1. i - n \in DOMAIN fixes /\ all[i] = fixes[i - n]
    BY <1>1, <1>5, <1>7, <1>8, <1>10
  <2> QED
    BY <1>5, <2>1
<1>11. \A x \in Fixing(h) : \E i \in DOMAIN all : i > n /\ all[i] = x
  <2> TAKE x \in Fixing(h)
  <2>1. PICK k \in DOMAIN fixes : fixes[k] = x
    BY <1>3
  <2>2. n + k \in DOMAIN all /\ n + k > n /\ all[n + k] = fixes[(n + k) - n] /\ (n + k) - n = k
    BY <1>1, <1>5, <1>7, <1>8, <2>1
  <2> QED
    BY <2>1, <2>2
<1> QED
  BY <1>5, <1>8, <1>9, <1>10, <1>11 DEF all

\* A bundle so corrected passes at h, whatever the API answers, if no row is beyond
\* repair.
LEMMA CorrectedPasses ==
  ASSUME ClosableInv, NEW h \in DOMAIN runEnds, runEnds[h] = "green",
         \A r \in DOMAIN rows : ~BeyondRepair(rows[r]),
         NEW heard \in SUBSET CiRows(Corrected(rows, h))
  PROVE  BundlePasses(Corrected(rows, h), Honest(h), flying, heard, runEnds)
<1> DEFINE n == Len(rows)
<1> DEFINE all == Corrected(rows, h)
<1> DEFINE c == [run |-> h, job |-> h, says |-> h]
<1>1. EvidenceTypeOK /\ n \in Nat /\ DOMAIN rows = 1 .. n /\ rows \in Seq(DodRows)
  BY EvidenceShape DEF ClosableInv, EvidenceInv, EvidenceTypeOK
<1>2. h \in 1 .. MaxPushes /\ h # 0
  BY <1>1, EvidenceShape
<1>3. c # NoCitation
  BY <1>2, EvidenceAssumption DEF EvidenceAssumption, Citations
<1>4. PICK m \in Nat : DOMAIN all = 1 .. n + m
  BY <1>1, CorrectedShape
<1>5. \A i \in 1 .. n : i \in DOMAIN all /\ all[i] = rows[i]
  BY <1>1, CorrectedShape
<1>6. \A i \in DOMAIN all : i > n => all[i] \in Fixing(h)
  BY <1>1, CorrectedShape
<1>7. ASSUME NEW r \in DOMAIN rows
      PROVE  \E i \in DOMAIN all : i > n /\ all[i] = Correction(rows[r].id, h)
  <2>1. Correction(rows[r].id, h) \in Fixing(h)
    BY DEF Fixing, IdsOf
  <2> QED
    BY <1>1, <2>1, CorrectedShape
<1>8. 1 \in DOMAIN rows
  <2>1. rows # <<>>
    BY DEF ClosableInv, GreenHasRows
  <2> QED
    BY <1>1, <2>1, EmptySeq
<1> HIDE DEF all
<1>9. \A i \in DOMAIN all :
        \/ i \in DOMAIN rows /\ all[i] = rows[i]
        \/ i \notin DOMAIN rows /\ \E x \in IdsOf(rows) : all[i] = Correction(x, h)
  <2> TAKE i \in DOMAIN all
  <2>1. CASE i <= n
    <3>1. i \in 1 .. n
      BY <1>1, <1>4, <2>1
    <3> QED
      BY <1>1, <1>5, <3>1
  <2>2. CASE i > n
    <3>1. all[i] \in Fixing(h) /\ i \notin 1 .. n
      BY <1>1, <1>4, <1>6, <2>2
    <3> QED
      BY <1>1, <3>1 DEF Fixing
  <2> QED
    BY <1>1, <1>4, <2>1, <2>2
<1>10. ASSUME NEW r \in DOMAIN rows
       PROVE  \E k \in CiRows(all) : k > n /\ all[k] = Correction(rows[r].id, h)
  BY <1>3, <1>7 DEF CiRows, Correction
<1>11. all # <<>> /\ \A r \in DOMAIN all : all[r].sound
  <2>1. all # <<>>
    BY <1>5, <1>1, <1>8, EmptySeq
  <2>2. \A r \in DOMAIN all : all[r].sound
    BY <1>9 DEF BeyondRepair, Correction
  <2> QED
    BY <2>1, <2>2
<1>12. HeadCovered(all, Honest(h))
  <2>1. PICK k \in CiRows(all) : all[k] = Correction(rows[1].id, h)
    BY <1>8, <1>10
  <2>2. all[k].cites.says = h
    BY <2>1 DEF Correction
  <2> QED
    BY <1>2, <2>2 DEF HeadCovered, Honest
<1>13. NothingPends(all)
  <2> SUFFICES ASSUME NEW k \in DOMAIN all, all[k].pending,
                      \A j \in DOMAIN all : j > k => all[j].id # all[k].id
               PROVE  FALSE
    BY DEF NothingPends, PendsAsWritten
  <2>1. k \in DOMAIN rows /\ all[k] = rows[k]
    BY <1>9 DEF Correction
  <2>2. PICK j \in DOMAIN all : j > n /\ all[j] = Correction(rows[k].id, h)
    BY <1>7, <2>1
  <2>3. j > k /\ all[j].id = all[k].id
    BY <1>1, <1>4, <2>1, <2>2 DEF Correction
  <2> QED
    BY <2>3
<1>14. HostedCovered(all)
  <2> SUFFICES ASSUME NEW r \in DOMAIN all, all[r].hosted
               PROVE  \E k \in CiRows(all) : all[k].corrects = all[r].id
    BY DEF HostedCovered
  <2>1. r \in DOMAIN rows /\ all[r] = rows[r]
    BY <1>9 DEF Correction
  <2>2. PICK k \in CiRows(all) : all[k] = Correction(rows[r].id, h)
    BY <1>10, <2>1
  <2>3. all[k].corrects = all[r].id
    BY <2>1, <2>2 DEF Correction
  <2> QED
    BY <2>3
<1>15. ASSUME NEW k \in CiRows(all)
       PROVE  /\ all[k].cites.run # 0 /\ all[k].cites.job # 0
              /\ CitedRunGreen(all[k].cites, Honest(h), runEnds)
  <2>1. k \in DOMAIN all /\ all[k].cites # NoCitation
    BY DEF CiRows
  <2>2. CASE k \in DOMAIN rows /\ all[k] = rows[k]
    <3> DEFINE d == rows[k].cites
    <3>1. d # NoCitation /\ ~BeyondRepair(rows[k])
      BY <2>1, <2>2
    <3>2. d.run # 0 /\ d.job # 0 /\ runEnds[d.job] = "green"
      BY <3>1 DEF BeyondRepair
    <3>3. d \in Citations
      BY <1>1, <2>2, <3>1, EvidenceShape DEF DodRows
    <3>4. d.run \in Nat /\ d.run <= Len(runEnds)
      BY <1>1, <2>2, <3>1, <3>3, EvidenceShape
         DEF Citations, ClosableInv, EvidenceInv, LastIsOpen, Citable
    <3>5. d.run \in DOMAIN runEnds
      BY <1>1, <3>2, <3>4, EvidenceShape
    <3> QED
      BY <2>2, <3>2, <3>5 DEF CitedRunGreen, Honest
  <2>3. CASE \E x \in IdsOf(rows) : all[k] = Correction(x, h)
    BY <1>2, <2>3 DEF Correction, CitedRunGreen, Honest
  <2> QED
    BY <1>9, <2>1, <2>2, <2>3
<1>16. heard \in SUBSET CiRows(all) /\ Honest(h).state = "final"
  BY DEF all, Honest
<1>17. BundlePasses(all, Honest(h), flying, heard, runEnds)
  BY <1>11, <1>12, <1>13, <1>14, <1>15, <1>16 DEF BundlePasses
<1> QED
  BY <1>17 DEF all

\* Whatever was claimed, left pending and corrected before, a phase with a green
\* commit can be closed there by appending rows, unless a row breaks a law of its
\* own, lacks its run or job, or cites a job that is not green (evidence_check
\* --strict and the laws it calls).
THEOREM PhasesCanBeClosed == EvidenceSpec => []AlwaysClosable
<1>1. EvidenceInit => ClosableInv
  <2> SUFFICES ASSUME EvidenceInit PROVE ClosableInv
    OBVIOUS
  <2>1. EvidenceInv
    BY EvidenceInitInv
  <2>2. DOMAIN runEnds = {}
    BY EmptySeq, <2>1, EvidenceShape DEF EvidenceInit, EvidenceInv
  <2> QED
    BY <2>1, <2>2 DEF ClosableInv, GreenHasRows
<1>2. ClosableInv => AlwaysClosable
  BY CorrectedPasses DEF AlwaysClosable
<1> QED
  BY <1>1, <1>2, ClosableNextKeeps, PTL DEF EvidenceSpec

-----------------------------------------------------------------------------
(* Lanes *)

\* What a lane's page p, its memory f of a failure and what became of its file, t,
\* have to do with each other: only the newest scheduled run can be open, and
\* unless it is, or was cancelled, it failed its work exactly if the lane is
\* remembered as red or has been touched.
LaneLaw(p, f, t) ==
  /\ f => ~t.real
  /\ \A i, j \in ScheduledRuns(p) : p[i].end = "open" => i <= j
  /\ \A i \in DOMAIN p : First(i, ScheduledRuns(p)) =>
       /\ f => p[i].end \in {"open", "work", "cancelled"}
       /\ p[i].end = "work" => f \/ t.real

LaneInv == LaneTypeOK /\ \A l \in Lanes : LaneLaw(page[l], red[l], touched[l])

LaneTouches == [real : BOOLEAN, shown : BOOLEAN]

LEMMA PageShape ==
  ASSUME LaneTypeOK, NEW l \in Lanes
  PROVE  /\ page[l] \in Seq(LaneRuns) /\ Len(page[l]) \in 0 .. PageSize
         /\ DOMAIN page[l] = 1 .. Len(page[l])
         /\ PageSize \in Nat \ {0}
<1>1. page[l] \in Seq(LaneRuns) /\ Len(page[l]) <= PageSize
  BY DEF LaneTypeOK
<1> QED
  BY <1>1, LenProperties, LaneAssumption DEF LaneAssumption

\* A new run comes first and the others move down, the oldest off a full page.
LEMMA PageWithShape ==
  ASSUME NEW p \in Seq(LaneRuns), Len(p) <= PageSize, NEW r \in LaneRuns
  PROVE  /\ PageWith(p, r) \in Seq(LaneRuns)
         /\ Len(PageWith(p, r)) \in 1 .. PageSize
         /\ DOMAIN PageWith(p, r) = 1 .. Len(PageWith(p, r))
         /\ Len(PageWith(p, r)) <= Len(p) + 1
         /\ PageWith(p, r)[1] = r
         /\ \A k \in 2 .. Len(PageWith(p, r)) : PageWith(p, r)[k] = p[k - 1]
<1> DEFINE all == <<r>> \o p
<1> DEFINE n == IF Len(p) < PageSize THEN Len(p) + 1 ELSE PageSize
<1>1. /\ Len(p) \in Nat /\ PageSize \in Nat /\ PageSize >= 1
      /\ n \in 1 .. PageSize /\ n <= Len(p) + 1
  BY LenProperties, LaneAssumption DEF LaneAssumption
<1>2. <<r>> \in Seq(LaneRuns) /\ Len(<<r>>) = 1 /\ <<r>>[1] = r
  OBVIOUS
<1>3. /\ all \in Seq(LaneRuns) /\ Len(all) = Len(p) + 1
      /\ \A k \in 1 .. Len(p) + 1 : all[k] = IF k <= 1 THEN <<r>>[k] ELSE p[k - 1]
  BY <1>1, <1>2, ConcatProperties
<1> HIDE DEF all, n
<1>4. \A k \in 1 .. n : all[k] \in LaneRuns
  BY <1>1, <1>3, ElementOfSeq
<1> DEFINE q == SubSeq(all, 1, n)
<1>5. /\ q \in Seq(LaneRuns) /\ Len(q) = IF 1 <= n THEN n - 1 + 1 ELSE 0
      /\ \A k \in 1 .. n - 1 + 1 : q[k] = all[1 + k - 1]
  BY <1>1, <1>4, SubSeqProperties
<1>6. Len(q) = n /\ \A k \in 1 .. n : q[k] = all[k]
  BY <1>1, <1>5
<1>7. DOMAIN q = 1 .. n
  BY <1>5, <1>6, LenProperties
<1>8. PageWith(p, r) = q
  BY DEF PageWith, all, n
<1> HIDE DEF q
<1>9. q[1] = r
  BY <1>1, <1>2, <1>3, <1>6
<1>10. \A k \in 2 .. n : q[k] = p[k - 1]
  BY <1>1, <1>3, <1>6
<1> QED
  BY <1>1, <1>5, <1>6, <1>7, <1>8, <1>9, <1>10

LEMMA LawAfterFire ==
  ASSUME NEW p \in Seq(LaneRuns), Len(p) <= PageSize, NEW f \in BOOLEAN,
         NEW t \in LaneTouches, NEW u \in LaneTouches,
         LaneLaw(p, f, t), ~u.real,
         \A i \in DOMAIN p : p[i] # [sched |-> TRUE, end |-> "open"]
  PROVE  LaneLaw(PageWith(p, [sched |-> TRUE, end |-> "open"]), f, u)
<1> DEFINE r == [sched |-> TRUE, end |-> "open"]
<1> DEFINE q == PageWith(p, r)
<1>1. r \in LaneRuns
  BY DEF LaneRuns, LaneEnds
<1>2. /\ Len(q) \in Nat /\ Len(q) >= 1 /\ DOMAIN q = 1 .. Len(q) /\ Len(q) <= Len(p) + 1
      /\ q[1] = r /\ \A k \in 2 .. Len(q) : q[k] = p[k - 1]
  <2> HIDE DEF r
  <2>1. /\ Len(q) \in 1 .. PageSize /\ DOMAIN q = 1 .. Len(q) /\ Len(q) <= Len(p) + 1
        /\ q[1] = r /\ \A k \in 2 .. Len(q) : q[k] = p[k - 1]
    BY <1>1, PageWithShape
  <2> HIDE DEF q
  <2>2. Len(q) \in Nat /\ Len(q) >= 1
    BY <2>1, LaneAssumption DEF LaneAssumption
  <2> QED
    BY <2>1, <2>2
<1>3. DOMAIN p = 1 .. Len(p) /\ Len(p) \in Nat
  BY LenProperties
<1> HIDE DEF q
<1>4. 1 \in ScheduledRuns(q)
  BY <1>2 DEF ScheduledRuns
<1>5. ASSUME NEW i \in ScheduledRuns(q), q[i].end = "open" PROVE i = 1
  <2> SUFFICES ASSUME i # 1 PROVE FALSE
    OBVIOUS
  <2>1. i - 1 \in DOMAIN p /\ q[i] = p[i - 1] /\ q[i].sched
    BY <1>2, <1>3, <1>5 DEF ScheduledRuns
  <2>2. p[i - 1] \in LaneRuns
    BY <1>3, <2>1, ElementOfSeq
  <2> QED
    BY <1>5, <2>1, <2>2 DEF LaneRuns
<1>6. \A i, j \in ScheduledRuns(q) : q[i].end = "open" => i <= j
  BY <1>2, <1>5 DEF ScheduledRuns
<1>7. ASSUME NEW i \in DOMAIN q, First(i, ScheduledRuns(q)) PROVE q[i].end = "open"
  BY <1>2, <1>4, <1>7 DEF First
<1> QED
  BY <1>6, <1>7 DEF LaneLaw, q

\* A run started by hand, which may cancel what is open.
LEMMA LawAfterManual ==
  ASSUME NEW p \in Seq(LaneRuns), Len(p) <= PageSize, NEW f \in BOOLEAN, NEW t \in LaneTouches,
         LaneLaw(p, f, t), NEW s \in Seq(LaneRuns), Len(s) = Len(p),
         \A i \in DOMAIN p : /\ s[i].sched = p[i].sched
                             /\ s[i].end = p[i].end \/ s[i].end = "cancelled"
  PROVE  LaneLaw(PageWith(s, [sched |-> FALSE, end |-> "open"]), f, t)
<1> DEFINE r == [sched |-> FALSE, end |-> "open"]
<1> DEFINE q == PageWith(s, r)
<1>1. r \in LaneRuns
  BY DEF LaneRuns, LaneEnds
<1>2. /\ Len(q) \in Nat /\ Len(q) >= 1 /\ DOMAIN q = 1 .. Len(q) /\ Len(q) <= Len(p) + 1
      /\ q[1] = r /\ \A k \in 2 .. Len(q) : q[k] = s[k - 1]
  <2> HIDE DEF r
  <2>1. /\ Len(q) \in 1 .. PageSize /\ DOMAIN q = 1 .. Len(q) /\ Len(q) <= Len(s) + 1
        /\ q[1] = r /\ \A k \in 2 .. Len(q) : q[k] = s[k - 1]
    BY <1>1, PageWithShape
  <2> HIDE DEF q
  <2>2. Len(q) \in Nat /\ Len(q) >= 1
    BY <2>1, LaneAssumption DEF LaneAssumption
  <2> QED
    BY <2>1, <2>2
<1>3. DOMAIN p = 1 .. Len(p) /\ Len(p) \in Nat
  BY LenProperties
<1> HIDE DEF q
<1>4. \A i \in ScheduledRuns(q) :
        /\ i \in 2 .. Len(q) /\ i - 1 \in ScheduledRuns(p)
        /\ q[i].end = p[i - 1].end \/ q[i].end = "cancelled"
  <2> TAKE i \in ScheduledRuns(q)
  <2>1. i \in 1 .. Len(q) /\ q[i].sched
    BY <1>2 DEF ScheduledRuns
  <2>2. i # 1
    BY <1>2, <2>1
  <2>3. i - 1 \in 1 .. Len(p) /\ q[i] = s[i - 1]
    BY <1>2, <1>3, <2>1, <2>2
  <2> QED
    BY <1>2, <1>3, <2>1, <2>2, <2>3 DEF ScheduledRuns
<1>5. \A i, j \in ScheduledRuns(q) : q[i].end = "open" => i <= j
  <2> TAKE i, j \in ScheduledRuns(q)
  <2> HAVE q[i].end = "open"
  <2>1. p[i - 1].end = "open" /\ i - 1 \in ScheduledRuns(p) /\ j - 1 \in ScheduledRuns(p)
    BY <1>4
  <2>2. i - 1 <= j - 1
    BY <2>1 DEF LaneLaw
  <2> QED
    BY <1>2, <1>4, <2>2
<1>6. ASSUME NEW i \in DOMAIN q, First(i, ScheduledRuns(q))
      PROVE  First(i - 1, ScheduledRuns(p)) /\ i - 1 \in DOMAIN p
  <2>1. i \in ScheduledRuns(q) /\ i \in 2 .. Len(q) /\ i - 1 \in ScheduledRuns(p)
    BY <1>4, <1>6 DEF First
  <2>2. ASSUME NEW j \in ScheduledRuns(p) PROVE i - 1 <= j
    <3>1. j \in 1 .. Len(p) /\ p[j].sched
      BY <1>3, <2>2 DEF ScheduledRuns
    <3>2. CASE j + 1 > Len(q)
      BY <1>2, <2>1, <3>1, <3>2
    <3>3. CASE j + 1 <= Len(q)
      <4>1. j + 1 \in 2 .. Len(q) /\ (j + 1) - 1 = j
        BY <1>2, <1>3, <3>1, <3>3
      <4>2. q[j + 1] = s[j]
        BY <1>2, <4>1
      <4>3. j + 1 \in ScheduledRuns(q)
        BY <1>2, <1>3, <3>1, <4>1, <4>2 DEF ScheduledRuns
      <4> QED
        BY <1>2, <1>6, <2>1, <3>1, <4>3 DEF First
    <3> QED
      BY <1>2, <1>3, <3>1, <3>2, <3>3
  <2> QED
    BY <2>1, <2>2 DEF First, ScheduledRuns
<1>7. ASSUME NEW i \in DOMAIN q, First(i, ScheduledRuns(q))
      PROVE  /\ f => q[i].end \in {"open", "work", "cancelled"}
             /\ q[i].end = "work" => f \/ t.real
  <2>1. q[i].end = p[i - 1].end \/ q[i].end = "cancelled"
    BY <1>4, <1>7 DEF First
  <2>2. /\ f => p[i - 1].end \in {"open", "work", "cancelled"}
        /\ p[i - 1].end = "work" => f \/ t.real
    BY <1>6, <1>7 DEF LaneLaw
  <2> QED
    BY <2>1, <2>2
<1> QED
  BY <1>5, <1>7 DEF LaneLaw, q

\* A run ends; if it was a scheduled one it was the newest.
LEMMA LawAfterFinish ==
  ASSUME NEW p \in Seq(LaneRuns), NEW f \in BOOLEAN, NEW t \in LaneTouches, LaneLaw(p, f, t),
         NEW i \in DOMAIN p, p[i].end = "open", NEW e \in {"success", "work", "health"}
  PROVE  LaneLaw([p EXCEPT ![i].end = e],
                 IF p[i].sched THEN e = "work" /\ ~t.real ELSE f, t)
<1> DEFINE q == [p EXCEPT ![i].end = e]
<1>1. DOMAIN p = 1 .. Len(p) /\ Len(p) \in Nat
  BY LenProperties
<1>2. \A k \in DOMAIN p : p[k] \in LaneRuns
  BY <1>1, ElementOfSeq
<1>3. DOMAIN q = DOMAIN p
  OBVIOUS
<1>4. q[i].sched = p[i].sched /\ q[i].end = e
  BY <1>2 DEF LaneRuns
<1>5. \A k \in DOMAIN p \ {i} : q[k] = p[k]
  OBVIOUS
<1> HIDE DEF q
<1>6. ScheduledRuns(q) = ScheduledRuns(p)
  BY <1>3, <1>4, <1>5 DEF ScheduledRuns
<1>7. \A k, j \in ScheduledRuns(q) : q[k].end = "open" => k <= j
  <2> TAKE k, j \in ScheduledRuns(q)
  <2> HAVE q[k].end = "open"
  <2>1. k # i /\ k \in DOMAIN p
    BY <1>4, <1>6 DEF ScheduledRuns
  <2> QED
    BY <1>5, <1>6, <2>1 DEF LaneLaw
<1>8. CASE p[i].sched
  <2>1. First(i, ScheduledRuns(p))
    BY <1>8 DEF LaneLaw, First, ScheduledRuns
  <2>2. ASSUME NEW k \in DOMAIN q, First(k, ScheduledRuns(q)) PROVE k = i
    <3>1. k <= i /\ i <= k
      BY <1>6, <2>1, <2>2 DEF First
    <3> QED
      BY <1>1, <1>3, <3>1
  <2>3. \A k \in DOMAIN q : First(k, ScheduledRuns(q)) => q[k].end = e
    BY <1>4, <2>2
  <2>4. CASE e = "work" /\ ~t.real
    BY <1>7, <1>8, <2>3, <2>4 DEF LaneLaw, q
  <2>5. CASE ~(e = "work" /\ ~t.real)
    BY <1>7, <1>8, <2>3, <2>5 DEF LaneLaw, q
  <2> QED
    BY <2>4, <2>5
<1>9. CASE ~p[i].sched
  <2>1. ASSUME NEW k \in DOMAIN q, First(k, ScheduledRuns(q))
        PROVE  /\ f => q[k].end \in {"open", "work", "cancelled"}
               /\ q[k].end = "work" => f \/ t.real
    <3>1. k \in DOMAIN p \ {i} /\ First(k, ScheduledRuns(p))
      BY <1>6, <1>9, <2>1 DEF First, ScheduledRuns
    <3> QED
      BY <1>5, <3>1 DEF LaneLaw
  <2> QED
    BY <1>7, <1>9, <2>1 DEF LaneLaw, q
<1> QED
  BY <1>8, <1>9

LEMMA LaneInitInv == LaneInit => LaneInv
<1> SUFFICES ASSUME LaneInit PROVE LaneInv
  OBVIOUS
<1>1. <<>> \in Seq(LaneRuns) /\ Len(<<>>) = 0 /\ DOMAIN <<>> = {}
  BY EmptySeq
<1>2. LaneTypeOK
  <2>1. page \in [Lanes -> Seq(LaneRuns)]
    BY <1>1 DEF LaneInit
  <2>2. \A l \in Lanes : Len(page[l]) <= PageSize
    BY <1>1, LaneAssumption DEF LaneInit, LaneAssumption
  <2>3. touched \in [Lanes -> [real : BOOLEAN, shown : BOOLEAN]]
    BY DEF LaneInit
  <2>4. red \in [Lanes -> BOOLEAN] /\ calm \in BOOLEAN
    BY DEF LaneInit
  <2> QED
    BY <2>1, <2>2, <2>3, <2>4 DEF LaneTypeOK
<1>3. LaneLaw(<<>>, FALSE, [real |-> FALSE, shown |-> FALSE])
  BY <1>1 DEF LaneLaw, ScheduledRuns
<1>4. \A l \in Lanes : LaneLaw(page[l], red[l], touched[l])
  BY <1>3 DEF LaneInit
<1> QED
  BY <1>2, <1>4 DEF LaneInv

\* The shape every lane's action has: one lane's page, memory and file change.
LEMMA OneLaneKeeps ==
  ASSUME LaneInv, NEW l \in Lanes, calm' \in BOOLEAN,
         NEW p \in Seq(LaneRuns), Len(p) <= PageSize, NEW f \in BOOLEAN, NEW t \in LaneTouches,
         page' = [page EXCEPT ![l] = p], red' = [red EXCEPT ![l] = f],
         touched' = [touched EXCEPT ![l] = t], LaneLaw(p, f, t)
  PROVE  LaneInv'
<1>1. LaneTypeOK
  BY DEF LaneInv
<1>2. /\ page'[l] = p /\ red'[l] = f /\ touched'[l] = t
      /\ \A k \in Lanes \ {l} : page'[k] = page[k] /\ red'[k] = red[k] /\ touched'[k] = touched[k]
  BY <1>1 DEF LaneTypeOK
<1>3. LaneTypeOK'
  <2>1. page' \in [Lanes -> Seq(LaneRuns)]
    BY <1>1 DEF LaneTypeOK
  <2>2. \A k \in Lanes : Len(page'[k]) <= PageSize
    BY <1>1, <1>2 DEF LaneTypeOK
  <2>3. touched' \in [Lanes -> [real : BOOLEAN, shown : BOOLEAN]]
    BY <1>1 DEF LaneTypeOK, LaneTouches
  <2>4. red' \in [Lanes -> BOOLEAN]
    BY <1>1 DEF LaneTypeOK
  <2> QED
    BY <2>1, <2>2, <2>3, <2>4 DEF LaneTypeOK
<1>4. \A k \in Lanes : LaneLaw(page'[k], red'[k], touched'[k])
  BY <1>2 DEF LaneInv
<1> QED
  BY <1>3, <1>4 DEF LaneInv

LEMMA LaneFacts ==
  ASSUME LaneInv, NEW l \in Lanes
  PROVE  /\ page[l] \in Seq(LaneRuns) /\ Len(page[l]) <= PageSize
         /\ red[l] \in BOOLEAN /\ touched[l] \in LaneTouches /\ calm \in BOOLEAN
         /\ LaneLaw(page[l], red[l], touched[l])
         /\ red = [red EXCEPT ![l] = red[l]]
         /\ touched = [touched EXCEPT ![l] = touched[l]]
         /\ page = [page EXCEPT ![l] = page[l]]
BY DEF LaneInv, LaneTypeOK, LaneTouches

LEMMA LaneFireKeeps ==
  ASSUME LaneInv, NEW l \in Lanes, LaneFire(l) PROVE LaneInv'
<1> DEFINE r == [sched |-> TRUE, end |-> "open"]
<1> DEFINE q == PageWith(page[l], r)
<1>1. PICK shown \in BOOLEAN :
        touched' = [touched EXCEPT ![l] = [real |-> FALSE, shown |-> shown]]
  BY DEF LaneFire
<1>2. /\ \A i \in DOMAIN page[l] : page[l][i] # r
      /\ page' = [page EXCEPT ![l] = q] /\ red' = red /\ calm' = calm
  BY DEF LaneFire
<1> DEFINE u == [real |-> FALSE, shown |-> shown]
<1>3. r \in LaneRuns /\ u \in LaneTouches /\ ~u.real
  BY DEF LaneRuns, LaneEnds, LaneTouches
<1>4. q \in Seq(LaneRuns) /\ Len(q) <= PageSize
  <2>1. q \in Seq(LaneRuns) /\ Len(q) \in 1 .. PageSize
    BY <1>3, LaneFacts, PageWithShape
  <2> QED
    BY <2>1
<1>5. LaneLaw(q, red[l], u)
  <2> HIDE DEF u
  <2>1. /\ page[l] \in Seq(LaneRuns) /\ Len(page[l]) <= PageSize
        /\ red[l] \in BOOLEAN /\ touched[l] \in LaneTouches
        /\ LaneLaw(page[l], red[l], touched[l])
    BY LaneFacts
  <2> QED
    BY <1>2, <1>3, <2>1, LawAfterFire
<1> HIDE DEF q, u
<1>6. page' = [page EXCEPT ![l] = q] /\ touched' = [touched EXCEPT ![l] = u]
  BY <1>1, <1>2 DEF u
<1>7. red' = [red EXCEPT ![l] = red[l]] /\ red[l] \in BOOLEAN /\ calm' \in BOOLEAN
  BY <1>2, LaneFacts
<1>8. u \in LaneTouches
  BY <1>3
<1> QED
  BY <1>4, <1>5, <1>6, <1>7, <1>8, OneLaneKeeps

LEMMA LaneManualKeeps ==
  ASSUME LaneInv, NEW l \in Lanes, LaneManual(l) PROVE LaneInv'
<1> DEFINE p == page[l]
<1> DEFINE r == [sched |-> FALSE, end |-> "open"]
<1>1. PICK cancel \in BOOLEAN :
        LET kept == [i \in DOMAIN page[l] |->
                      IF cancel /\ page[l][i].end = "open"
                      THEN [page[l][i] EXCEPT !.end = "cancelled"] ELSE page[l][i]]
        IN  page' = [page EXCEPT ![l] = PageWith(kept, r)]
  BY DEF LaneManual
<1> DEFINE kept == [i \in DOMAIN p |-> IF cancel /\ p[i].end = "open"
                                       THEN [p[i] EXCEPT !.end = "cancelled"] ELSE p[i]]
<1>2. page' = [page EXCEPT ![l] = PageWith(kept, r)]
  BY <1>1
<1>3. /\ p \in Seq(LaneRuns) /\ Len(p) <= PageSize /\ Len(p) \in Nat
      /\ DOMAIN p = 1 .. Len(p) /\ \A i \in DOMAIN p : p[i] \in LaneRuns
  BY LaneFacts, LenProperties, ElementOfSeq
<1>4. DOMAIN kept = DOMAIN p /\ \A i \in DOMAIN p :
        /\ kept[i] \in LaneRuns /\ kept[i].sched = p[i].sched
        /\ kept[i].end = p[i].end \/ kept[i].end = "cancelled"
  BY <1>3 DEF LaneRuns, LaneEnds
<1>5. kept \in [1 .. Len(p) -> LaneRuns]
  BY <1>3, <1>4
<1>6. kept \in Seq(LaneRuns) /\ Len(kept) = Len(p)
  <2>1. kept \in Seq(LaneRuns)
    BY <1>3, <1>5, SeqDef
  <2> HIDE DEF kept
  <2> QED
    BY <1>3, <1>4, <2>1, LenProperties
<1> HIDE DEF kept
<1>7. r \in LaneRuns
  BY DEF LaneRuns, LaneEnds
<1> DEFINE q == PageWith(kept, r)
<1>8. q \in Seq(LaneRuns) /\ Len(q) <= PageSize
  <2>1. q \in Seq(LaneRuns) /\ Len(q) \in 1 .. PageSize
    BY <1>3, <1>6, <1>7, PageWithShape
  <2> QED
    BY <2>1
<1>9. LaneLaw(q, red[l], touched[l])
  BY <1>3, <1>4, <1>6, LaneFacts, LawAfterManual
<1>10. /\ red' = [red EXCEPT ![l] = red[l]] /\ red[l] \in BOOLEAN
       /\ touched' = [touched EXCEPT ![l] = touched[l]] /\ touched[l] \in LaneTouches
       /\ calm' \in BOOLEAN
  BY LaneFacts DEF LaneManual
<1> HIDE DEF q
<1>11. page' = [page EXCEPT ![l] = q]
  BY <1>2 DEF q
<1> QED
  BY <1>8, <1>9, <1>10, <1>11, OneLaneKeeps

LEMMA LaneFinishKeeps ==
  ASSUME LaneInv, NEW l \in Lanes, LaneFinish(l) PROVE LaneInv'
<1> DEFINE p == page[l]
<1>1. PICK i \in DOMAIN p, e \in {"success", "work", "health"} :
        /\ p[i].end = "open"
        /\ page' = [page EXCEPT ![l][i].end = e]
        /\ red' = [red EXCEPT ![l] =
             IF p[i].sched THEN e = "work" /\ ~touched[l].real ELSE red[l]]
        /\ touched' = touched /\ calm' = calm
  BY DEF LaneFinish
<1> DEFINE q == [p EXCEPT ![i].end = e]
<1> DEFINE f == IF p[i].sched THEN e = "work" /\ ~touched[l].real ELSE red[l]
<1>2. page' = [page EXCEPT ![l] = q]
  BY <1>1
<1>3. p \in Seq(LaneRuns) /\ Len(p) <= PageSize /\ i \in 1 .. Len(p) /\ p[i] \in LaneRuns
  BY LaneFacts, LenProperties, ElementOfSeq
<1>4. q \in Seq(LaneRuns) /\ Len(q) <= PageSize
  <2> DEFINE new == [p[i] EXCEPT !.end = e]
  <2>1. new \in LaneRuns
    BY <1>3 DEF LaneRuns, LaneEnds
  <2>2. q = [p EXCEPT ![i] = new]
    OBVIOUS
  <2> HIDE DEF new, q
  <2> QED
    BY <1>3, <2>1, <2>2, ExceptSeq
<1>5. LaneLaw(q, f, touched[l])
  <2>1. /\ p \in Seq(LaneRuns) /\ red[l] \in BOOLEAN /\ touched[l] \in LaneTouches
        /\ LaneLaw(p, red[l], touched[l])
    BY LaneFacts
  <2> HIDE DEF p
  <2> QED
    BY <1>1, <2>1, LawAfterFinish
<1>6. f \in BOOLEAN
  BY LaneFacts
<1>7. red' = [red EXCEPT ![l] = f] /\ calm' \in BOOLEAN
  BY <1>1, LaneFacts
<1>8. touched' = [touched EXCEPT ![l] = touched[l]] /\ touched[l] \in LaneTouches
  BY <1>1, LaneFacts
<1> HIDE DEF q, f
<1> QED
  BY <1>2, <1>4, <1>5, <1>6, <1>7, <1>8, OneLaneKeeps

LEMMA LaneCommitKeeps ==
  ASSUME LaneInv, NEW l \in Lanes, LaneCommit(l) PROVE LaneInv'
<1>1. PICK shown \in BOOLEAN :
        /\ touched' = [touched EXCEPT ![l] = [real |-> TRUE, shown |-> shown]]
        /\ red' = [red EXCEPT ![l] = FALSE]
  BY DEF LaneCommit
<1> DEFINE u == [real |-> TRUE, shown |-> shown]
<1>2. u \in LaneTouches /\ u.real
  BY DEF LaneTouches
<1>3. LaneLaw(page[l], FALSE, u)
  BY <1>2, LaneFacts DEF LaneLaw
<1>4. /\ page' = [page EXCEPT ![l] = page[l]] /\ calm' \in BOOLEAN
      /\ page[l] \in Seq(LaneRuns) /\ Len(page[l]) <= PageSize
  BY LaneFacts DEF LaneCommit
<1> HIDE DEF u
<1>5. touched' = [touched EXCEPT ![l] = u] /\ FALSE \in BOOLEAN
  BY <1>1 DEF u
<1> QED
  BY <1>1, <1>2, <1>3, <1>4, <1>5, OneLaneKeeps

LEMMA LaneNextKeeps == LaneInv /\ [LaneNext]_laneVars => LaneInv'
<1> SUFFICES ASSUME LaneInv, [LaneNext]_laneVars PROVE LaneInv'
  OBVIOUS
<1>1. CASE UNCHANGED <<page, touched, red>> /\ calm' \in BOOLEAN
  BY <1>1 DEF LaneInv, LaneTypeOK
<1>2. CASE UNCHANGED laneVars
  BY <1>1, <1>2 DEF laneVars, LaneInv, LaneTypeOK
<1>3. CASE CalmDown
  BY <1>1, <1>3 DEF CalmDown
<1>4. CASE \E l \in Lanes : LaneFire(l) \/ LaneManual(l) \/ LaneFinish(l) \/ LaneCommit(l)
  BY <1>4, LaneFireKeeps, LaneManualKeeps, LaneFinishKeeps, LaneCommitKeeps
<1> QED
  BY <1>2, <1>3, <1>4 DEF LaneNext

\* The first of a set of runs on a lane's page.
LEMMA FirstExists ==
  ASSUME LaneTypeOK, NEW l \in Lanes, NEW S \in SUBSET DOMAIN page[l], S # {}
  PROVE  \E i \in DOMAIN page[l] : First(i, S)
<1>1. S \subseteq Nat
  BY PageShape
<1> QED
  BY <1>1, LeastExists DEF First

\* What the verdict says once the newest scheduled run is known.
LEMMA VerdictOfNewest ==
  ASSUME LaneTypeOK, NEW l \in Lanes, NEW i \in DOMAIN page[l], Newest(l, i)
  PROVE  GovernanceRed(l) <=>
           /\ page[l][i].end \notin Excusable \cup {"open"}
           /\ IF DoneBefore(page[l], i) # {}
              THEN \E j \in DOMAIN page[l] :
                     First(j, DoneBefore(page[l], i)) /\ page[l][j].end \notin Excusable
              ELSE ~touched[l].shown
<1>1. ASSUME NEW k \in DOMAIN page[l], First(k, ScheduledRuns(page[l])) PROVE k = i
  <2>1. k <= i /\ i <= k /\ k \in Nat /\ i \in Nat
    BY <1>1, PageShape DEF Newest, First, ScheduledRuns
  <2> QED
    BY <2>1
<1> QED
  BY <1>1 DEF GovernanceRed, LaneFails, Newest

LEMMA RedIsNotSilent == LaneInv => NoSilentRed
<1> SUFFICES ASSUME LaneInv, NEW l \in Lanes, red[l],
                    NEW k \in DOMAIN page[l], page[l][k].sched,
                    ~(touched[l].shown /\ ~touched[l].real)
             PROVE  \/ GovernanceRed(l)
                    \/ \E i \in DOMAIN page[l] : Newest(l, i) /\
                         \/ page[l][i].end = "open"
                         \/ \E j \in 1 .. (i - 1) : page[l][j].end \in {"success", "health"}
  BY DEF NoSilentRed
<1>1. LaneTypeOK
  BY DEF LaneInv
<1>2. ScheduledRuns(page[l]) # {} /\ ScheduledRuns(page[l]) \subseteq DOMAIN page[l]
  BY DEF ScheduledRuns
<1>3. PICK i \in DOMAIN page[l] : Newest(l, i)
  BY <1>1, <1>2, FirstExists DEF Newest
<1>4. page[l][i].end \in {"open", "work", "cancelled"} /\ ~touched[l].real
  BY <1>3 DEF LaneInv, LaneLaw, Newest
<1>5. CASE page[l][i].end = "open"
  BY <1>3, <1>5
<1>6. CASE page[l][i].end # "open" /\ DoneBefore(page[l], i) = {}
  BY <1>1, <1>3, <1>4, <1>6, VerdictOfNewest DEF Excusable
<1>7. CASE page[l][i].end # "open" /\ DoneBefore(page[l], i) # {}
  <2>1. DoneBefore(page[l], i) \subseteq DOMAIN page[l]
    BY DEF DoneBefore
  <2>2. PICK j \in DOMAIN page[l] : First(j, DoneBefore(page[l], i))
    BY <1>1, <1>7, <2>1, FirstExists
  <2>3. j \in 1 .. (i - 1)
    BY <1>1, <2>2, PageShape DEF First, DoneBefore
  <2>4. CASE page[l][j].end \in Excusable
    BY <1>3, <2>3, <2>4 DEF Excusable
  <2>5. CASE page[l][j].end \notin Excusable
    BY <1>1, <1>3, <1>4, <1>7, <2>2, <2>5, VerdictOfNewest DEF Excusable
  <2> QED
    BY <2>4, <2>5
<1> QED
  BY <1>5, <1>6, <1>7

LEMMA RedIsNotFalse == LaneInv => NoFalseRed
<1> SUFFICES ASSUME LaneInv, NEW l \in Lanes, GovernanceRed(l)
             PROVE  \/ red[l]
                    \/ \E i \in DOMAIN page[l] : Newest(l, i) /\
                         \E j \in 1 .. i : page[l][j].end = "cancelled"
                                           \/ (j < i /\ page[l][j].end = "work")
                    \/ touched[l].real /\ ~touched[l].shown
  BY DEF NoFalseRed
<1>1. LaneTypeOK
  BY DEF LaneInv
<1>2. PICK i \in DOMAIN page[l] : Newest(l, i)
  BY DEF GovernanceRed, LaneFails, Newest
<1>3. /\ page[l][i].end \notin Excusable \cup {"open"}
      /\ IF DoneBefore(page[l], i) # {}
         THEN \E j \in DOMAIN page[l] :
                First(j, DoneBefore(page[l], i)) /\ page[l][j].end \notin Excusable
         ELSE ~touched[l].shown
  BY <1>1, <1>2, VerdictOfNewest
<1>4. i \in Nat /\ i >= 1 /\ \A k \in DOMAIN page[l] : page[l][k] \in LaneRuns /\ k \in Nat /\ k >= 1
  BY <1>1, PageShape, ElementOfSeq
<1>5. CASE page[l][i].end = "cancelled"
  BY <1>2, <1>4, <1>5
<1>6. CASE page[l][i].end = "work"
  <2>1. red[l] \/ touched[l].real
    BY <1>2, <1>6 DEF LaneInv, LaneLaw, Newest
  <2>2. CASE DoneBefore(page[l], i) = {}
    BY <1>3, <2>1, <2>2
  <2>3. CASE DoneBefore(page[l], i) # {}
    <3>1. PICK j \in DOMAIN page[l] :
            First(j, DoneBefore(page[l], i)) /\ page[l][j].end \notin Excusable
      BY <1>3, <2>3
    <3>2. j \in 1 .. i /\ j < i /\ page[l][j].end # "open"
      BY <1>4, <3>1 DEF First, DoneBefore
    <3>3. page[l][j].end \in {"work", "cancelled"}
      BY <1>4, <3>1, <3>2 DEF LaneRuns, LaneEnds, Excusable
    <3> QED
      BY <1>2, <3>2, <3>3
  <2> QED
    BY <2>2, <2>3
<1>7. page[l][i].end \in {"cancelled", "work"}
  BY <1>3, <1>4 DEF LaneRuns, LaneEnds, Excusable
<1> QED
  BY <1>5, <1>6, <1>7

\* Every variable of the lane gate has its type.
THEOREM LaneTypes == LaneSpec => []LaneTypeOK
<1>1. LaneInv => LaneTypeOK
  BY DEF LaneInv
<1> QED
  BY <1>1, LaneInitInv, LaneNextKeeps, PTL DEF LaneSpec

\* However many lanes there are and however long a page is, no lane whose work
\* failed is missed by governance but in the ways NoSilentRed names (check_lane).
THEOREM NoLaneIsSilentlyRed == LaneSpec => []NoSilentRed
BY RedIsNotSilent, LaneInitInv, LaneNextKeeps, PTL DEF LaneSpec

\* And governance calls no lane red but for a failure or a cancelled run of its
\* own (check_lane, _health_only), the offsets of NoFalseRed apart.
THEOREM NoLaneIsFalselyRed == LaneSpec => []NoFalseRed
BY RedIsNotFalse, LaneInitInv, LaneNextKeeps, PTL DEF LaneSpec
=============================================================================
