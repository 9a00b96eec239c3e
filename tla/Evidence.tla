------------------------------- MODULE Evidence -------------------------------
(***************************************************************************)
(* How a phase closes (evidence_check.py --strict and the laws it calls:   *)
(* evidence_finality, evidence_closure, evidence_strict, evidence_ci and   *)
(* evidence_presence_check).  Every push to main is judged by a governance *)
(* run, and a newer push cancels it.  A bundle's rows are only ever        *)
(* appended to.  Some are ci-run rows: each cites a run, which is looked   *)
(* up through the API, and when the API is out of reach the check lets the *)
(* row pass.  A bundle that says it is final names the commit it closes at *)
(* and has a ci-run row that says it is of that commit.                    *)
(*                                                                         *)
(* One phase, P12 or later, whose commits name it from the first.  A push  *)
(* is one commit, numbered by its place on main; run i is governance at    *)
(* commit i, the one workflow the bundle claims.  Every bundle has its     *)
(* report.md and a not_done_by_design row; `dated` is whether one opens    *)
(* with a date.  All rows are under dod_rows, and no laws but those of the *)
(* bundle change: neither the artifacts rows cite nor what the             *)
(* capabilities ledger proves.                                             *)
(***************************************************************************)
EXTENDS Naturals, Sequences, SequencesExt

CONSTANTS
  RowIds,       \* the ids of DoD rows
  PushedRows,   \* rows people append, of the set of all
  PushedClaims, \* what people say of the phase, of the set of all
  MaxPushes,    \* bound: commits pushed to main
  MaxRows,      \* bound: DoD rows in the bundle
  NoId,         \* corrects no row
  NoCitation,   \* not a ci-run row
  NoClaim       \* no evidence.json yet

VARIABLES
  rows,    \* Seq(DodRows): the bundle's DoD rows
  claim,   \* the rest of the bundle, or NoClaim
  flying,  \* docs/state/phase-base.json says this phase is in flight
  runEnds, \* governance run i, for every commit on main
  blind    \* the last commit's run did not get the API's word on some ci-run row

evidenceVars == <<rows, claim, flying, runEnds, blind>>

\* A ci-run row's ci_run, ci_job and head_sha, by the commit whose run that is, or
\* whose job, or that has the sha (0: the field is not there).
Citations == [run : 0 .. MaxPushes, job : 0 .. MaxPushes, says : 0 .. MaxPushes]

\* pending: the status is a *-PENDING-* one, or another that is none of the final
\* vocabulary.  corrects: the id the row names, of any row or of none.  hosted: a
\* VERIFIED row whose text claims hosted execution.  sound: it obeys the laws that
\* look at this row alone (status, source label, artifacts and transcript, a
\* BLOCKED status that the capabilities ledger does not refute).
DodRows == [id : RowIds, pending : BOOLEAN, corrects : RowIds \cup {NoId},
            cites : Citations \cup {NoCitation}, hosted : BOOLEAN, sound : BOOLEAN]

\* head is phase_head (0: none); kept are the commits under pin and repos.
AllClaims == [state : {"interim", "final"}, dated : BOOLEAN, head : 0 .. MaxPushes,
              kept : SUBSET (1 .. MaxPushes)]

RunEnds == {"open", "cancelled", "green", "red"}

ASSUME EvidenceAssumption ==
  /\ PushedRows \subseteq DodRows /\ PushedClaims \subseteq AllClaims
  /\ MaxPushes \in Nat /\ MaxRows \in Nat
  /\ NoId \notin RowIds /\ NoCitation \notin Citations /\ NoClaim \notin AllClaims

EvidenceTypeOK ==
  /\ rows \in Seq(DodRows) /\ Len(rows) <= MaxRows
  /\ claim \in AllClaims \cup {NoClaim}
  /\ flying \in BOOLEAN /\ blind \in BOOLEAN
  /\ runEnds \in Seq(RunEnds) /\ Len(runEnds) <= MaxPushes

EvidenceInit ==
  /\ rows = <<>> /\ claim = NoClaim
  /\ flying = TRUE /\ runEnds = <<>> /\ blind = FALSE

IdsOf(s) == {s[n].id : n \in DOMAIN s}
CiRows(s) == {n \in DOMAIN s : s[n].cites # NoCitation}

\* The first row to correct an id decides it.  Ids need not be unique and a row may
\* correct an id that only comes later, or its own.
Fixers(s) == {n \in DOMAIN s :
  s[n].corrects \in IdsOf(s) /\ \A m \in DOMAIN s : m < n => s[m].corrects # s[n].corrects}

\* An id has the status of its last row.
PendsAsWritten(s, i) ==
  \E n \in DOMAIN s : /\ s[n].id = i /\ s[n].pending
                       /\ \A m \in DOMAIN s : m > n => s[m].id # i

\* Whose status ends up as some id's: that of an id nobody corrects, and that of a
\* first correction.  Those take effect in their order, so a correction of it
\* counts only if it comes before it.
ReadAsWritten(s) ==
  (IdsOf(s) \ {s[n].corrects : n \in Fixers(s)}) \cup
  {s[n].id : n \in {f \in Fixers(s) : ~\E m \in Fixers(s) : m < f /\ s[m].corrects = s[f].id}}

NothingPends(s) == \A i \in ReadAsWritten(s) : ~PendsAsWritten(s, i)

\* The same as the code computes it, in three loops: whether each id pends.
StatusOf(s) == FoldLeft(LAMBDA e, r : (r.id :> r.pending) @@ e, <<>>, s)
CorrectionsOf(s) == FoldLeft(
  LAMBDA e, r : IF r.corrects = NoId \/ \E c \in Range(e) : c[1] = r.corrects
                THEN e ELSE Append(e, <<r.corrects, r.id>>), <<>>, s)
EffectiveRows(s) == FoldLeft(
  LAMBDA e, c : IF c[1] \in DOMAIN e THEN [e EXCEPT ![c[1]] = e[c[2]]] ELSE e,
  StatusOf(s), CorrectionsOf(s))

InterimLegal(c, inFlight) == inFlight \/ c.dated

\* Wrong on purpose, for a mutant: a ci-run row of any head will do.
HeadCoveredAny(s, c) == c.head # 0 /\ CiRows(s) # {}

\* A final bundle names its head and has a governance ci-run row that says it.
HeadCovered(s, c) == c.head # 0 /\ \E n \in CiRows(s) : s[n].cites.says = c.head

\* Wrong on purpose, for a mutant: a hosted claim must be a ci-run row itself.
HostedCoveredItself(s) == \A r \in DOMAIN s : s[r].hosted => r \in CiRows(s)

\* A row that claims hosted execution is a ci-run row or corrected by one.
HostedCovered(s) == \A r \in DOMAIN s : s[r].hosted =>
  r \in CiRows(s) \/ \E n \in CiRows(s) : s[n].corrects = s[r].id

\* The API's word: the cited job ended green, and the cited run is at a commit the
\* bundle keeps, if it keeps any.  Neither is compared with what the row says, nor
\* the job with the run.
CitedRunGreen(cites, c, ends) ==
  ends[cites.job] = "green" /\ (c.kept = {} \/ cites.run \in c.kept)

\* Every row is judged, the corrected ones too; heard: the ci-run rows on which the
\* API gave its word.
BundlePasses(s, c, inFlight, heard, ends) ==
  /\ s # <<>> /\ \A r \in DOMAIN s : s[r].sound
  /\ IF c.state = "interim" THEN InterimLegal(c, inFlight) ELSE HeadCovered(s, c) /\ NothingPends(s)
  /\ HostedCovered(s)
  /\ \A n \in CiRows(s) : s[n].cites.run # 0 /\ s[n].cites.job # 0
  /\ \A n \in heard : CitedRunGreen(s[n].cites, c, ends)

\* A commit with the bundle as it now is goes to main.
Pushed == Append([i \in DOMAIN runEnds |-> IF runEnds[i] = "open" THEN "cancelled" ELSE runEnds[i]],
                 "open")

\* A bundle speaks of commits there are.
Sayable(c) == c.head <= Len(runEnds) /\ \A i \in c.kept : i <= Len(runEnds)
Citable(cites) == cites # NoCitation =>
  cites.run <= Len(runEnds) /\ cites.job <= Len(runEnds) /\ cites.says <= Len(runEnds)

\* The rest of the bundle is rewritten and a row may be added, of any id and
\* correcting any.
PushBundle ==
  /\ Len(runEnds) < MaxPushes
  /\ \E c \in PushedClaims : Sayable(c) /\ claim' = c
  /\ \/ UNCHANGED rows
     \/ \E r \in PushedRows :
          Len(rows) < MaxRows /\ Citable(r.cites) /\ rows' = Append(rows, r)
  /\ runEnds' = Pushed /\ blind' = FALSE
  /\ UNCHANGED flying

\* The next phase starts: phase-base.json moves on.
NextPhase ==
  /\ Len(runEnds) < MaxPushes /\ flying
  /\ flying' = FALSE
  /\ runEnds' = Pushed /\ blind' = FALSE
  /\ UNCHANGED <<rows, claim>>

\* Governance ends: red without a bundle (the commits name the phase), red by the
\* bundle, or red for a reason of its own.
EndGovernance == \E i \in DOMAIN runEnds : runEnds[i] = "open" /\
  \E heard \in SUBSET CiRows(rows), end \in {"green", "red"} :
    /\ end = "green" => claim # NoClaim /\ BundlePasses(rows, claim, flying, heard, runEnds)
    /\ runEnds' = [runEnds EXCEPT ![i] = end]
    /\ blind' = (heard # CiRows(rows))
    /\ UNCHANGED <<rows, claim, flying>>

EvidenceNext == PushBundle \/ NextPhase \/ EndGovernance
EvidenceSpec == EvidenceInit /\ [][EvidenceNext]_evidenceVars
-----------------------------------------------------------------------------
HeadIsGreen == runEnds # <<>> /\ runEnds[Len(runEnds)] = "green"

\* A ci-run row that says c's head proves nothing of it when it cites a job of
\* another run, or a run of another commit that the bundle keeps (or keeps none).
Misleads(cites, c) ==
  \/ cites.job # cites.run
  \/ cites.says # cites.run /\ (c.kept = {} \/ cites.run \in c.kept)

HeadRows == {n \in CiRows(rows) : rows[n].cites.says = claim.head}

\* When main is green and the phase is final, governance passed at the very commit
\* the phase names as its head, unless the run that judged main could not reach the
\* API or the rows that say that head all mislead.  And every pending row leads,
\* over rows that correct its id or bear it again, to one that is not pending: no
\* set of pending rows is all that ever answers for its ids.
FinalIsProven == HeadIsGreen /\ claim # NoClaim /\ claim.state = "final" =>
  /\ \/ runEnds[claim.head] = "green"
     \/ blind
     \/ HeadRows # {} /\ \A n \in HeadRows : Misleads(rows[n].cites, claim)
  /\ \A S \in SUBSET DOMAIN rows : S # {} /\ (\A r \in S : rows[r].pending) =>
       \E r \in S, f \in DOMAIN rows \ S : rows[f].id = rows[r].id \/ rows[f].corrects = rows[r].id

\* What a careful author can still write: for every id one more row of that id,
\* verified, that corrects it and cites the governance run of commit h; and a claim
\* that closes at h and keeps every commit.
Correction(i, h) == [id |-> i, pending |-> FALSE, corrects |-> i,
  cites |-> [run |-> h, job |-> h, says |-> h], hosted |-> FALSE, sound |-> TRUE]
Corrected(s, h) == s \o SetToSeq({Correction(i, h) : i \in IdsOf(s)})
Honest(h) == [state |-> "final", dated |-> FALSE, head |-> h, kept |-> DOMAIN runEnds]

\* No row can take back a row that breaks a law of its own, a ci-run row without
\* its ids, or one that cites a job that is not green.
BeyondRepair(r) ==
  \/ ~r.sound
  \/ r.cites # NoCitation /\ (0 \in {r.cites.run, r.cites.job} \/ runEnds[r.cites.job] # "green")

\* A phase with a green commit can always be closed there by appending rows,
\* whatever else was claimed, left pending or corrected before, in flight or not,
\* unless some row is beyond repair.
AlwaysClosable == \A h \in DOMAIN runEnds : runEnds[h] = "green" =>
  \/ \A heard \in SUBSET CiRows(Corrected(rows, h)) :
       BundlePasses(Corrected(rows, h), Honest(h), flying, heard, runEnds)
  \/ \E r \in DOMAIN rows : BeyondRepair(rows[r])
=============================================================================
