---------------------------- MODULE RolloutProofs ----------------------------
(***************************************************************************)
(* Proofs about Rollout for any number of clients, buckets, versions and   *)
(* epochs: types, that a staged rollout contains its head, that no client  *)
(* goes back, and that the whole implements Staged.                        *)
(***************************************************************************)
EXTENDS Rollout, TLAPS

\* Every offer on its way to a client, or that may be fed to it again, and every
\* download it has begun, lies inside a ramp its version was the head at.
Contained ==
  /\ ramp <= exposed[head]
  /\ \A c \in Clients : \A o \in got[c] : bucket[c] < exposed[o.version]
  /\ \A c \in Clients : IsOffer(reply[c]) => bucket[c] < exposed[reply[c].version]
  /\ \A c \in Clients : pc[c] = "downloading" => bucket[c] < exposed[want[c]]

IInv == TypeOK /\ Contained

-----------------------------------------------------------------------------

\* What handle() answers: a refusal, or the head to a client below it in the ramp.
LEMMA HandleAnswers ==
  ASSUME TypeOK, NEW c \in Clients
  PROVE  /\ Handle(c) \in Offers \cup Refusals
         /\ Handle(c) \in Offers => InRamp(c) /\ Handle(c).version = head
<1>1. \A why \in {"noupdate", "pausedChannel", "epochRevoked"} :
        Refused(why) \in Refusals /\ Refused(why) \notin Offers
  BY DEF Refused, Refusals, Offers
<1>2. [version |-> head, epoch |-> active] \in Offers
  BY DEF TypeOK, Offers
<1>3. CASE ~served
  BY <1>1, <1>3 DEF Handle
<1>4. CASE served /\ paused
  BY <1>1, <1>4 DEF Handle
<1>5. CASE served /\ ~paused /\ named[c] /\ epoch[c] \in revoked
  BY <1>1, <1>5 DEF Handle
<1>6. CASE served /\ ~paused /\ ~(named[c] /\ epoch[c] \in revoked)
  BY <1>1, <1>2, <1>6 DEF Handle
<1> QED
  BY <1>3, <1>4, <1>5, <1>6

LEMMA NoReplyIsNone == NoReply \notin Offers /\ NoReply \notin Refusals
BY DEF NoReply, Offers, Refusals

LEMMA OfferType ==
  ASSUME NEW o \in Offers
  PROVE  o.version \in Versions /\ o.epoch \in Epochs
BY DEF Offers

LEMMA InitInvariant == Init => IInv
<1> SUFFICES ASSUME Init PROVE IInv
  OBVIOUS
<1>1. 1 \in Epochs /\ 0 \in Versions /\ 0 \in 0..Buckets
  BY RolloutAssumption DEF RolloutAssumption, Epochs, Versions
<1>2. TypeOK
  BY <1>1 DEF Init, TypeOK
<1>3. Contained
  BY <1>1, NoReplyIsNone DEF Init, Contained, IsOffer
<1> QED
  BY <1>2, <1>3 DEF IInv

-----------------------------------------------------------------------------
\* The operator.

\* Moving head or ramp never narrows what a version has been exposed to.
LEMMA ExposeWidens ==
  ASSUME TypeOK, head' \in Versions, ramp' \in 0..Buckets, Expose
  PROVE  /\ exposed' \in [Versions -> 0..Buckets]
         /\ ramp' <= exposed'[head']
         /\ \A v \in Versions : exposed[v] <= exposed'[v]
<1>1. \A v \in Versions : exposed[v] \in 0..Buckets
  BY DEF TypeOK
<1>2. exposed' = [exposed EXCEPT ![head'] = IF exposed[head'] < ramp' THEN ramp' ELSE exposed[head']]
  BY DEF Expose
<1>3. exposed' \in [Versions -> 0..Buckets]
  BY <1>1, <1>2 DEF TypeOK
<1>4. /\ exposed'[head'] = IF exposed[head'] < ramp' THEN ramp' ELSE exposed[head']
      /\ \A v \in Versions : v # head' => exposed'[v] = exposed[v]
  BY <1>2 DEF TypeOK
<1> QED
  BY <1>1, <1>3, <1>4, RolloutAssumption DEF RolloutAssumption

LEMMA WidenKeeps ==
  ASSUME TypeOK, Contained, UNCHANGED client,
         exposed' \in [Versions -> 0..Buckets],
         ramp' <= exposed'[head'],
         \A v \in Versions : exposed[v] <= exposed'[v]
  PROVE  Contained'
<1> DEFINE B(c) == bucket[c]
<1>1. \A c \in Clients, v \in Versions : bucket[c] < exposed[v] => bucket[c] < exposed'[v]
  BY RolloutAssumption DEF RolloutAssumption, TypeOK
<1>2. \A c \in Clients : \A o \in got[c] : o.version \in Versions
  BY OfferType DEF TypeOK
<1>3. \A c \in Clients : IsOffer(reply[c]) => reply[c].version \in Versions
  BY OfferType DEF IsOffer
<1>4. \A c \in Clients : want[c] \in Versions
  BY DEF TypeOK
<1> QED
  BY <1>1, <1>2, <1>3, <1>4 DEF Contained, client, IsOffer

LEMMA OperatorStep ==
  ASSUME IInv, Operator
  PROVE  IInv'
<1> USE DEF IInv
<1>1. ASSUME NEW v \in Versions \ {0}, Publish(v)
      PROVE  IInv'
  <2>1. head' \in Versions /\ ramp' \in 0..Buckets /\ Expose /\ UNCHANGED client
    BY <1>1 DEF Publish, TypeOK
  <2>2. TypeOK'
    BY <1>1, <2>1, ExposeWidens DEF Publish, TypeOK, client
  <2> QED
    BY <2>1, <2>2, ExposeWidens, WidenKeeps
<1>2. ASSUME NEW r \in 0..Buckets, SetRamp(r)
      PROVE  IInv'
  <2>1. head' \in Versions /\ ramp' \in 0..Buckets /\ Expose /\ UNCHANGED client
    BY <1>2 DEF SetRamp, TypeOK
  <2>2. TypeOK'
    BY <1>2, <2>1, ExposeWidens DEF SetRamp, TypeOK, client
  <2> QED
    BY <2>1, <2>2, ExposeWidens, WidenKeeps
<1>3. CASE Pause
  BY <1>3 DEF Pause, TypeOK, Contained, client, IsOffer
<1>4. CASE Serve
  BY <1>4 DEF Serve, TypeOK, Contained, client, IsOffer
<1>5. CASE Rotate
  <2>1. active' \in Epochs
    BY <1>5, RolloutAssumption DEF RolloutAssumption, Rotate, TypeOK, Epochs
  <2> QED
    BY <1>5, <2>1 DEF Rotate, TypeOK, Contained, client, IsOffer
<1>6. ASSUME NEW e \in Epochs, Revoke(e)
      PROVE  IInv'
  BY <1>6 DEF Revoke, TypeOK, Contained, client, IsOffer
<1> QED
  BY <1>1, <1>2, <1>3, <1>4, <1>5, <1>6 DEF Operator

-----------------------------------------------------------------------------
\* The server and the clients.

\* The server's answer is inside the ramp, and the ramp inside the exposure.
LEMMA AnswerStep ==
  ASSUME IInv, NEW c \in Clients, Answer(c)
  PROVE  IInv'
<1> USE DEF IInv
<1>1. /\ reply'[c] = Handle(c) /\ got'[c] = got[c] \cup ({Handle(c)} \cap Offers)
      /\ \A d \in Clients \ {c} : reply'[d] = reply[d] /\ got'[d] = got[d]
      /\ UNCHANGED <<spec, bucket, installed, epoch, manual, seen, pc, want>>
      /\ pc[c] = "checking"
  BY DEF Answer, TypeOK
<1>2. Handle(c) \in Offers \cup Refusals
  BY HandleAnswers
<1>3. Handle(c) \in Offers => bucket[c] < exposed[Handle(c).version]
  <2>1. bucket[c] \in 0..(Buckets - 1) /\ ramp \in 0..Buckets /\ exposed[head] \in 0..Buckets
    BY DEF TypeOK
  <2> QED
    BY <2>1, HandleAnswers, RolloutAssumption DEF RolloutAssumption, InRamp, Contained
<1>4. TypeOK'
  <2>1. reply' \in [Clients -> Offers \cup Refusals \cup {NoReply}]
    BY <1>2 DEF Answer, TypeOK
  <2>2. got' \in [Clients -> SUBSET Offers]
    BY DEF Answer, TypeOK
  <2>3. named' \in [Clients -> BOOLEAN]
    BY DEF Answer, TypeOK
  <2> QED
    BY <1>1, <2>1, <2>2, <2>3 DEF TypeOK, spec
<1>5. Contained'
  BY <1>1, <1>3 DEF Contained, IsOffer, spec
<1> QED
  BY <1>4, <1>5

LEMMA AcceptStep ==
  ASSUME IInv, NEW c \in Clients, Accept(c)
  PROVE  IInv'
<1> USE DEF IInv
<1>1. reply[c] \in Offers /\ reply[c].version \in Versions
      /\ reply[c].version > installed[c] /\ bucket[c] < exposed[reply[c].version]
  BY OfferType DEF Accept, IsOffer, Verifies, Contained
<1>2. /\ reply'[c] = NoReply /\ want'[c] = reply[c].version /\ pc'[c] = "downloading"
      /\ \A d \in Clients \ {c} : reply'[d] = reply[d] /\ want'[d] = want[d] /\ pc'[d] = pc[d]
      /\ UNCHANGED <<spec, bucket, installed, epoch, manual, got>>
  BY DEF Accept, TypeOK
<1>3. TypeOK'
  <2>1. /\ reply' \in [Clients -> Offers \cup Refusals \cup {NoReply}]
        /\ want' \in [Clients -> Versions]
        /\ seen' \in [Clients -> SUBSET Versions]
        /\ pc' \in [Clients -> {"idle", "checking", "downloading"}]
    BY <1>1 DEF Accept, TypeOK
  <2>2. named' = named
    BY DEF Accept
  <2> QED
    BY <1>1, <1>2, <2>1, <2>2 DEF TypeOK, spec
<1>4. Contained'
  BY <1>1, <1>2, NoReplyIsNone DEF Contained, IsOffer, spec
<1> QED
  BY <1>3, <1>4

LEMMA ClientOtherStep ==
  ASSUME IInv, NEW c \in Clients,
         \/ \E names \in BOOLEAN : Check(c, names)
         \/ Replay(c) \/ Deny(c) \/ DownloadDone(c) \/ DownloadFails(c)
         \/ EpochApply(c) \/ ManualInstall(c)
  PROVE  IInv'
<1> USE DEF IInv
<1>1. 0 \in Versions
  BY RolloutAssumption DEF RolloutAssumption, Versions
<1>2. ASSUME NEW names \in BOOLEAN, Check(c, names)
      PROVE  IInv'
  BY <1>2 DEF Check, TypeOK, Contained, IsOffer, spec
<1>3. CASE Replay(c)
  BY <1>3 DEF Replay, TypeOK, Contained, IsOffer, spec
<1>4. CASE Deny(c)
  BY <1>4, NoReplyIsNone DEF Deny, TypeOK, Contained, IsOffer, spec
<1>5. CASE DownloadDone(c)
  BY <1>1, <1>5 DEF DownloadDone, TypeOK, Contained, IsOffer, spec
<1>6. CASE DownloadFails(c)
  BY <1>1, <1>6 DEF DownloadFails, TypeOK, Contained, IsOffer, spec
<1>7. CASE EpochApply(c)
  BY <1>7 DEF EpochApply, TypeOK, Contained, IsOffer, spec
<1>8. CASE ManualInstall(c)
  BY <1>8 DEF ManualInstall, TypeOK, Contained, IsOffer, spec
<1> QED
  BY <1>2, <1>3, <1>4, <1>5, <1>6, <1>7, <1>8

LEMMA Step ==
  ASSUME IInv, [Next]_vars
  PROVE  IInv'
<1>1. CASE Operator
  BY <1>1, OperatorStep
<1>2. ASSUME NEW c \in Clients,
             \/ Answer(c) \/ ClientStep(c)
             \/ Replay(c) \/ DownloadFails(c) \/ EpochApply(c) \/ ManualInstall(c)
      PROVE  IInv'
  BY <1>2, AnswerStep, AcceptStep, ClientOtherStep DEF ClientStep
<1>3. CASE UNCHANGED vars
  BY <1>3 DEF vars, spec, client, IInv, TypeOK, Contained, IsOffer
<1> QED
  BY <1>1, <1>2, <1>3 DEF Next

LEMMA RolloutInvariant == Spec => []IInv
BY InitInvariant, Step, PTL DEF Spec

-----------------------------------------------------------------------------

\* Of any number of clients and versions the state is of its type; in particular
\* what a client downloads is newer than what it has.
THEOREM TypeCorrect == Spec => []TypeOK
<1>1. IInv => TypeOK
  BY DEF IInv
<1> QED
  BY <1>1, RolloutInvariant, PTL

\* A version reaches, by update, only clients inside a ramp it was the head at
\* (update_server_ref.py:182): delays and repeated answers do not leak it.
THEOREM RolloutContained == Spec => RampContains
<1>1. IInv /\ [Next]_vars =>
        [\A c \in Clients : DownloadDone(c) => bucket[c] < exposed[want[c]]]_vars
  BY DEF IInv, Contained, DownloadDone
<1> QED
  BY <1>1, RolloutInvariant, PTL DEF Spec, RampContains

\* No client's version ever falls, by update or by the manual path.
THEOREM VersionsNeverFall == Spec => NeverBackwards
<1>1. IInv /\ [Next]_vars => \A c \in Clients : installed'[c] >= installed[c]
  <2> SUFFICES ASSUME IInv, [Next]_vars, NEW c \in Clients
               PROVE  installed'[c] >= installed[c]
    OBVIOUS
  <2> USE DEF IInv
  <2>1. installed[c] \in Nat /\ want[c] \in Nat /\ head \in Nat
    BY DEF TypeOK, Versions
  <2>2. CASE installed' = installed
    BY <2>1, <2>2
  <2>3. ASSUME NEW d \in Clients, DownloadDone(d)
        PROVE  installed'[c] >= installed[c]
    BY <2>1, <2>3 DEF DownloadDone, TypeOK
  <2>4. ASSUME NEW d \in Clients, ManualInstall(d)
        PROVE  installed'[c] >= installed[c]
    BY <2>1, <2>4 DEF ManualInstall, TypeOK
  <2>5. CASE Operator
    BY <2>2, <2>5 DEF Operator, Publish, SetRamp, Pause, Serve, Rotate, Revoke, client
  <2>6. ASSUME NEW d \in Clients, NEW names \in BOOLEAN,
               \/ Answer(d) \/ Check(d, names) \/ Accept(d) \/ Deny(d)
               \/ Replay(d) \/ DownloadFails(d) \/ EpochApply(d)
        PROVE  installed' = installed
    BY <2>6 DEF Answer, Check, Accept, Deny, Replay, DownloadFails, EpochApply
  <2>7. CASE UNCHANGED vars
    BY <2>2, <2>7 DEF vars, client
  <2> QED
    BY <2>2, <2>3, <2>4, <2>5, <2>6, <2>7 DEF Next, ClientStep
<1> QED
  BY <1>1, RolloutInvariant, PTL DEF Spec, NeverBackwards
-----------------------------------------------------------------------------
\* The refinement of Staged.

\* A client that is not downloading has no update under way.
NoneWanted == \A c \in Clients : pc[c] # "downloading" => want[c] = 0

LEMMA NoneWantedStep ==
  ASSUME TypeOK, NoneWanted, [Next]_vars
  PROVE  NoneWanted'
<1>1. CASE Operator
  BY <1>1 DEF NoneWanted, Operator, Publish, SetRamp, Pause, Serve, Rotate, Revoke, client
<1>2. ASSUME NEW c \in Clients, NEW names \in BOOLEAN,
             \/ Answer(c) \/ Check(c, names) \/ Accept(c) \/ Deny(c) \/ DownloadDone(c)
             \/ Replay(c) \/ DownloadFails(c) \/ EpochApply(c) \/ ManualInstall(c)
      PROVE  NoneWanted'
  BY <1>2 DEF TypeOK, NoneWanted, Answer, Check, Accept, Deny, DownloadDone, Replay,
     DownloadFails, EpochApply, ManualInstall
<1>3. CASE UNCHANGED vars
  BY <1>3 DEF NoneWanted, vars, client
<1> QED
  BY <1>1, <1>2, <1>3 DEF Next, ClientStep

LEMMA StartsStaged == Init => Promise!StagedInit /\ NoneWanted
<1> SUFFICES ASSUME Init PROVE Promise!StagedInit /\ NoneWanted
  OBVIOUS
<1>1. exposed \in [Versions -> 0..Buckets]
  BY InitInvariant DEF IInv, TypeOK
<1> QED
  BY <1>1 DEF Init, NoneWanted, Promise!StagedInit

\* Of the operator's edits only a head or a ramp shows at this level.
LEMMA OperatorIsStaged ==
  ASSUME TypeOK, Operator
  PROVE  Promise!StagedNext \/ UNCHANGED Promise!stagedVars
<1>1. ASSUME NEW v \in Versions \ {0}, Publish(v)
      PROVE  Promise!StagedNext
  <2>1. ramp \in 0..Buckets /\ Promise!Show(v, ramp)
    BY <1>1 DEF TypeOK, Publish, Expose, client, Promise!Show
  <2> QED
    BY <2>1 DEF Promise!StagedNext
<1>2. ASSUME NEW r \in 0..Buckets, SetRamp(r)
      PROVE  Promise!StagedNext
  <2>1. head \in Versions /\ Promise!Show(head, r)
    BY <1>2 DEF TypeOK, SetRamp, Expose, client, Promise!Show
  <2> QED
    BY <2>1 DEF Promise!StagedNext
<1>3. ASSUME Pause \/ Serve \/ Rotate \/ \E e \in Epochs : Revoke(e)
      PROVE  UNCHANGED Promise!stagedVars
  BY <1>3 DEF Pause, Serve, Rotate, Revoke, client, Promise!stagedVars
<1> QED
  BY <1>1, <1>2, <1>3 DEF Operator

\* An update begins where the answer is accepted, and the answer lies inside the
\* exposure of its version however long it was on its way.
LEMMA AcceptBegins ==
  ASSUME IInv, NoneWanted, NEW c \in Clients, Accept(c)
  PROVE  Promise!StagedNext
<1> DEFINE v == reply[c].version
<1>1. v \in Versions /\ bucket[c] < exposed[v] /\ v > installed[c] /\ v \notin seen[c]
  BY OfferType DEF IInv, Contained, Accept, IsOffer, Verifies
<1>2. want[c] = 0
  <2>1. pc[c] # "downloading"
    BY NoReplyIsNone DEF IInv, TypeOK, Accept, IsOffer
  <2> QED
    BY <2>1 DEF NoneWanted
<1>3. Promise!Begin(c, v)
  BY <1>1, <1>2 DEF Accept, spec, Promise!Begin
<1> QED
  BY <1>1, <1>3 DEF Promise!StagedNext

\* A download that ends, and an install by hand.
LEMMA InstallIsStaged ==
  ASSUME TypeOK, NoneWanted, NEW c \in Clients,
         DownloadDone(c) \/ DownloadFails(c) \/ ManualInstall(c)
  PROVE  Promise!StagedNext
<1>1. CASE DownloadDone(c) \/ DownloadFails(c)
  <2>1. want[c] # 0
    BY <1>1 DEF TypeOK, Versions, DownloadDone, DownloadFails
  <2>2. Promise!Finish(c)
    BY <1>1, <2>1 DEF DownloadDone, DownloadFails, spec, Promise!Finish
  <2> QED
    BY <2>2 DEF Promise!StagedNext
<1>2. CASE ManualInstall(c)
  <2>1. Promise!ByHand(c)
    BY <1>2 DEF NoneWanted, ManualInstall, spec, Promise!ByHand
  <2> QED
    BY <2>1 DEF Promise!StagedNext
<1> QED
  BY <1>1, <1>2

LEMMA StepIsStaged ==
  ASSUME IInv, NoneWanted, [Next]_vars
  PROVE  [Promise!StagedNext]_(Promise!stagedVars)
<1>1. CASE Operator
  BY <1>1, OperatorIsStaged DEF IInv
<1>2. ASSUME NEW c \in Clients, Accept(c)
      PROVE  Promise!StagedNext
  BY <1>2, AcceptBegins
<1>3. ASSUME NEW c \in Clients, DownloadDone(c) \/ DownloadFails(c) \/ ManualInstall(c)
      PROVE  Promise!StagedNext
  BY <1>3, InstallIsStaged DEF IInv
<1>4. ASSUME NEW c \in Clients, NEW names \in BOOLEAN,
             \/ Answer(c) \/ Check(c, names) \/ Deny(c) \/ Replay(c) \/ EpochApply(c)
      PROVE  UNCHANGED Promise!stagedVars
  BY <1>4 DEF Answer, Check, Deny, Replay, EpochApply, spec, Promise!stagedVars
<1>5. CASE UNCHANGED vars
  BY <1>5 DEF vars, spec, client, Promise!stagedVars
<1> QED
  BY <1>1, <1>2, <1>3, <1>4, <1>5 DEF Next, ClientStep

\* Server, operator and any number of clients implement the staged rollout of
\* Staged: a version changes by an update begun inside its exposure and once, or by
\* hand to the head (update_server_ref.py:123-193 and the laws of the client).
THEOREM RolloutImplementsStaged == Spec => RolloutIsStaged
<1>1. TypeOK /\ NoneWanted /\ [Next]_vars => NoneWanted'
  BY NoneWantedStep
<1>2. IInv => TypeOK
  BY DEF IInv
<1>3. IInv /\ NoneWanted /\ [Next]_vars => [Promise!StagedNext]_(Promise!stagedVars)
  BY StepIsStaged
<1> QED
  BY <1>1, <1>2, <1>3, StartsStaged, RolloutInvariant, PTL
     DEF Spec, RolloutIsStaged, Promise!StagedSpec
=============================================================================
