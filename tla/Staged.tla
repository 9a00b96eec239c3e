-------------------------------- MODULE Staged --------------------------------
(***************************************************************************)
(* What a staged rollout promises of a client's version, whatever channel, *)
(* epochs, answers and replays carry it: the version moves by an update    *)
(* the client began inside the exposure of the version, once for each      *)
(* version and upwards, or by hand to the head.                            *)
(***************************************************************************)
EXTENDS Naturals

CONSTANTS Clients, Versions, Buckets

VARIABLES
  head,       \* the version a current build has
  exposed,    \* [Versions -> 0..Buckets]: the buckets a version was offered to
  bucket,     \* [Clients -> 0..(Buckets - 1)]
  installed,  \* [Clients -> Versions]
  begun,      \* [Clients -> SUBSET Versions]: the updates it ever began
  updating    \* [Clients -> Versions]: the update under way, or 0

stagedVars == <<head, exposed, bucket, installed, begun, updating>>

StagedInit ==
  /\ head \in Versions
  /\ exposed \in [Versions -> 0..Buckets]
  /\ \A v \in Versions \ {head} : exposed[v] = 0
  /\ bucket \in [Clients -> 0..(Buckets - 1)]
  /\ installed = [c \in Clients |-> 0]
  /\ begun = [c \in Clients |-> {}]
  /\ updating = [c \in Clients |-> 0]

\* The head moves, or is shown to more buckets; what was shown stays shown.
Show(v, n) ==
  /\ head' = v
  /\ exposed' = [exposed EXCEPT ![v] = IF @ < n THEN n ELSE @]
  /\ UNCHANGED <<bucket, installed, begun, updating>>

Begin(c, v) ==
  /\ updating[c] = 0
  /\ bucket[c] < exposed[v] /\ v > installed[c] /\ v \notin begun[c]
  /\ begun' = [begun EXCEPT ![c] = @ \cup {v}]
  /\ updating' = [updating EXCEPT ![c] = v]
  /\ UNCHANGED <<head, exposed, bucket, installed>>

\* An update under way comes to an end: done, or lost for good.
Finish(c) ==
  /\ updating[c] # 0
  /\ installed' \in {installed, [installed EXCEPT ![c] = updating[c]]}
  /\ updating' = [updating EXCEPT ![c] = 0]
  /\ UNCHANGED <<head, exposed, bucket, begun>>

ByHand(c) ==
  /\ updating[c] = 0 /\ head >= installed[c]
  /\ installed' = [installed EXCEPT ![c] = head]
  /\ UNCHANGED <<head, exposed, bucket, begun, updating>>

StagedNext ==
  \/ \E v \in Versions, n \in 0..Buckets : Show(v, n)
  \/ \E c \in Clients : Finish(c) \/ ByHand(c) \/ \E v \in Versions : Begin(c, v)

StagedSpec == StagedInit /\ [][StagedNext]_stagedVars
=============================================================================
