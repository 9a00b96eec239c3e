--------------------------- MODULE CompositionProofs ---------------------------
(***************************************************************************)
(* The proofs about each tool, carried over to the composition of them     *)
(* that TLC runs: the safety properties of MCTools hold of its Spec.       *)
(*                                                                         *)
(* MCTools gives the tools no say in each other's state, so a behaviour of *)
(* it is, to each tool, a behaviour of that tool or a stutter for ever     *)
(* (OthersStutter).  What was proved of a tool by its initial states and   *)
(* steps is then proved of the composition; Fairness is not needed.        *)
(***************************************************************************)
EXTENDS MCTools, GovernanceProofs, ToolProofs, PromotionProofs

LEMMA InitOfParts ==
  Init => /\ LaneInit /\ CommitInit /\ EvidenceInit /\ MutationInit /\ InplaceInit
          /\ FetchInit /\ PromotionInit
BY DEF Init

\* A step of the composition is, to each tool, a step of that tool or none.
LEMMA OthersStutter ==
  [Next]_vars =>
    /\ [LaneNext]_laneVars /\ [CommitNext]_commitVars /\ [EvidenceNext]_evidenceVars
    /\ [MutationNext]_mutationVars /\ [InplaceNext]_inplaceVars /\ [FetchNext]_fetchVars
    /\ [PromotionNext]_promotionVars
BY DEF Next, vars

\* Commits, Evidence, Mutation, Inplace and Promotion are specified without fairness:
\* the composition is, to each of them, a behaviour of its specification.
THEOREM PartsRun ==
  Spec => CommitSpec /\ EvidenceSpec /\ MutationSpec /\ InplaceSpec /\ PromotionSpec
BY InitOfParts, OthersStutter, PTL
   DEF Spec, CommitSpec, EvidenceSpec, MutationSpec, InplaceSpec, PromotionSpec

\* Of Lanes and Fetch the safety half: MCTools is fair to them only when they run.
LEMMA LanesStay == Spec => []LaneInv
BY InitOfParts, OthersStutter, LaneInitInv, LaneNextKeeps, PTL DEF Spec

LEMMA FetchStays == Spec => []FetchInv
BY InitOfParts, OthersStutter, FetchInitInv, FetchNextKeeps, PTL DEF Spec

\* The state of every tool keeps its types in the composition that TLC runs, for
\* every value of the constants.
THEOREM ToolsTypes == Spec => []TypesOK
<1>1. LaneInv => LaneTypeOK
  BY DEF LaneInv
<1>2. FetchInv => FetchTypeOK
  BY DEF FetchInv
<1>3. LaneTypeOK /\ CommitTypeOK /\ EvidenceTypeOK /\ MutationTypeOK /\ InplaceTypeOK
        /\ FetchTypeOK /\ PromotionTypeOK => TypesOK
  BY DEF TypesOK
<1> QED
  BY <1>1, <1>2, <1>3, LanesStay, FetchStays, PartsRun, CommitTypes, EvidenceTypes,
     MutationTypes, InplaceTypes, PromotionTypes, PTL

\* What each tool promises of its states, together: the gates over main and over
\* the lanes, the closure of a phase, the mutation gate, the shared cache and the
\* series, as the code of one repository that runs them all.
THEOREM ToolsAreSafe ==
  Spec => [](/\ NoSilentRed /\ NoFalseRed /\ GreenIsLawful /\ FinalIsProven
             /\ AlwaysClosable /\ GateIsEarned /\ ServedWhole /\ StacksStand)
<1>1. FetchInv => ServedWhole
  BY DEF FetchInv
<1> QED
  BY <1>1, LanesStay, RedIsNotSilent, RedIsNotFalse, FetchStays, PartsRun,
     GreenCommitsAreLawful, FinalPhasesAreProven, PhasesCanBeClosed,
     PassingGateIsEarned, PromotedSeriesStand, PTL

\* And of their steps: a verdict is the mutant's own, a rewrite is atomic, and the
\* smoke and the applicator agree about a series.
THEOREM ToolsStepSafely ==
  Spec => VerdictIsOwn /\ RewritesAreAtomic /\ PromotedApplies /\ RefusedStops
BY PartsRun, VerdictsAreOwn, InplaceImplementsContract, PromotedSeriesApply,
   RefusedSeriesStop
=============================================================================
