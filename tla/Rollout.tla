------------------------------- MODULE Rollout -------------------------------
(***************************************************************************)
(* The update server (release/server/refimpl/update_server_ref.py and its  *)
(* deployable twin rust/src/lib.rs) answering clients of one channel while *)
(* an operator edits the spec it renders from.  The server keeps nothing:  *)
(* its state is that spec.  The client's verifier lives in another         *)
(* repository; what is here of it is what the golden vectors               *)
(* (tools/update_vectors_families.py) and the drill (tools/rollout_drill.py)*)
(* say it does.                                                            *)
(***************************************************************************)
EXTENDS Naturals

CONSTANTS
  Clients,
  Buckets,      \* size of the bucket space (100 in cohorts.yaml)
  MaxVersion,   \* bound: versions are 0..MaxVersion, in parse_version's order
  MaxEpoch      \* bound: epoch ids are 1..MaxEpoch, in order of activation

VARIABLES
  head,         \* version-graph.yaml: the channel's head
  served,       \* channels.yaml
  paused,       \* channels.yaml
  ramp,         \* cohorts.yaml: ramp_percent
  active,       \* epochs.yaml: the epoch offers are signed under
  revoked,      \* epochs.yaml: revoked epoch ids
  exposed,      \* history: the widest ramp each version was the head at
  bucket,       \* client: its bucket, fixed by the install id
  installed,    \* client: current_version
  epoch,        \* client: the epoch it has pinned
  manual,       \* client: revoked / manual_path, set by epoch-apply
  seen,         \* client: manifest ids it has accepted (SeenSet)
  pc,           \* client: where it is
  named,        \* client: whether the request it has sent carries its epoch
  reply,        \* client: the answer on its way to it
  got,          \* client: offers it was ever sent, which may be fed to it again
  want          \* client: the version it is downloading, else 0

spec == <<head, served, paused, ramp, active, revoked, exposed>>
client == <<bucket, installed, epoch, manual, seen, pc, named, reply, got, want>>
vars == <<spec, client>>

ASSUME RolloutAssumption ==
  /\ Buckets \in Nat \ {0} /\ MaxVersion \in Nat \ {0} /\ MaxEpoch \in Nat \ {0}

Versions == 0..MaxVersion
Epochs == 1..MaxEpoch

\* A served manifest: the response holds nothing of the client it is for, so its
\* manifest id (the hash of the response) is the version's alone.
Offers == [version : Versions, epoch : Epochs]
Refusals == [refused : {"noupdate", "pausedChannel", "epochRevoked"}]
NoReply == [refused |-> "none"]

TypeOK ==
  /\ head \in Versions /\ served \in BOOLEAN /\ paused \in BOOLEAN
  /\ ramp \in 0..Buckets
  /\ active \in Epochs /\ revoked \in SUBSET Epochs
  /\ exposed \in [Versions -> 0..Buckets]
  /\ bucket \in [Clients -> 0..(Buckets - 1)]
  /\ installed \in [Clients -> Versions]
  /\ epoch \in [Clients -> Epochs]
  /\ manual \in [Clients -> BOOLEAN]
  /\ seen \in [Clients -> SUBSET Versions]
  /\ pc \in [Clients -> {"idle", "checking", "downloading"}]
  /\ named \in [Clients -> BOOLEAN]
  /\ reply \in [Clients -> Offers \cup Refusals \cup {NoReply}]
  /\ got \in [Clients -> SUBSET Offers]
  /\ want \in [Clients -> Versions]
  /\ \A c \in Clients : reply[c] # NoReply => pc[c] = "checking"
  /\ \A c \in Clients : pc[c] = "downloading" => want[c] > installed[c]

Init ==
  /\ head \in Versions \ {0} /\ served \in BOOLEAN /\ paused = FALSE
  /\ ramp \in 0..Buckets
  /\ active = 1 /\ revoked = {}
  /\ exposed = [v \in Versions |-> IF v = head THEN ramp ELSE 0]
  /\ bucket \in [Clients -> 0..(Buckets - 1)]
  /\ installed = [c \in Clients |-> 0]
  /\ epoch = [c \in Clients |-> 1]
  /\ manual = [c \in Clients |-> FALSE]
  /\ seen = [c \in Clients |-> {}]
  /\ pc = [c \in Clients |-> "idle"]
  /\ named = [c \in Clients |-> FALSE]
  /\ reply = [c \in Clients |-> NoReply]
  /\ got = [c \in Clients |-> {}]
  /\ want = [c \in Clients |-> 0]

-----------------------------------------------------------------------------
\* The server: handle(), one app entry.

\* Wrong on purpose: the boundary bucket is let in.
InRampBoundary(c) == bucket[c] <= ramp

\* Wrong on purpose: the last bucket of the ramp is left out.
InRampShort(c) == bucket[c] + 1 < ramp

InRamp(c) == bucket[c] < ramp

Refused(why) == [refused |-> why]

Handle(c) ==
  CASE ~served -> Refused("noupdate")
    [] served /\ paused -> Refused("pausedChannel")
    [] served /\ ~paused /\ named[c] /\ epoch[c] \in revoked -> Refused("epochRevoked")
    [] OTHER -> IF InRamp(c) /\ installed[c] < head
                THEN [version |-> head, epoch |-> active]
                ELSE Refused("noupdate")

IsOffer(r) == r \in Offers

Answer(c) ==
  /\ pc[c] = "checking" /\ reply[c] = NoReply
  /\ reply' = [reply EXCEPT ![c] = Handle(c)]
  /\ got' = [got EXCEPT ![c] = @ \cup ({Handle(c)} \cap Offers)]
  /\ named' = [named EXCEPT ![c] = FALSE]
  /\ UNCHANGED <<spec, bucket, installed, epoch, manual, seen, pc, want>>

-----------------------------------------------------------------------------
\* The operator: edits to the spec YAMLs.

\* A version's exposure grows with the ramps it is the head at.
Expose ==
  exposed' = [exposed EXCEPT ![head'] = IF @ < ramp' THEN ramp' ELSE @]

\* A new head, or the old one again.
Publish(v) ==
  /\ v # head
  /\ head' = v /\ ramp' = ramp /\ Expose
  /\ UNCHANGED <<served, paused, active, revoked, client>>

SetRamp(r) ==
  /\ r # ramp
  /\ ramp' = r /\ head' = head /\ Expose
  /\ UNCHANGED <<served, paused, active, revoked, client>>

Pause ==
  /\ paused' = ~paused
  /\ UNCHANGED <<head, served, ramp, active, revoked, exposed, client>>

\* The gate on the channel lifts.
Serve ==
  /\ ~served /\ served' = TRUE
  /\ UNCHANGED <<head, paused, ramp, active, revoked, exposed, client>>

Rotate ==
  /\ active < MaxEpoch
  /\ active' = active + 1
  /\ UNCHANGED <<head, served, paused, ramp, revoked, exposed, client>>

Revoke(e) ==
  /\ e <= active /\ e \notin revoked
  /\ revoked' = revoked \cup {e}
  /\ UNCHANGED <<head, served, paused, ramp, active, exposed, client>>

Operator ==
  \/ \E v \in Versions \ {0} : Publish(v)
  \/ \E r \in 0..Buckets : SetRamp(r)
  \/ Pause \/ Serve \/ Rotate
  \/ \E e \in Epochs : Revoke(e)

-----------------------------------------------------------------------------
\* A client.

\* The epoch is an optional field of the request.
Check(c, names) ==
  /\ pc[c] = "idle"
  /\ pc' = [pc EXCEPT ![c] = "checking"]
  /\ named' = [named EXCEPT ![c] = names]
  /\ UNCHANGED <<spec, bucket, installed, epoch, manual, seen, reply, got, want>>

\* A response sent earlier arrives again, in place of the answer.
Replay(c) ==
  /\ pc[c] = "checking" /\ reply[c] = NoReply
  /\ \E o \in got[c] : reply' = [reply EXCEPT ![c] = o]
  /\ named' = [named EXCEPT ![c] = FALSE]
  /\ UNCHANGED <<spec, bucket, installed, epoch, manual, seen, pc, got, want>>

\* Wrong on purpose: only an equal version is refused.
VerifiesUnequal(c, o) ==
  /\ o.epoch = epoch[c] /\ ~manual[c]
  /\ o.version # installed[c]
  /\ o.version \notin seen[c]

\* Wrong on purpose: an answer accepted before is accepted again.
VerifiesReplayed(c, o) ==
  /\ o.epoch = epoch[c] /\ ~manual[c]
  /\ o.version > installed[c]

\* The epoch law, the monotonic law, the replay law.
Verifies(c, o) ==
  /\ o.epoch = epoch[c] /\ ~manual[c]
  /\ o.version > installed[c]
  /\ o.version \notin seen[c]

\* The id is in SeenSet before the verdict is accept.
Accept(c) ==
  /\ IsOffer(reply[c]) /\ Verifies(c, reply[c])
  /\ seen' = [seen EXCEPT ![c] = @ \cup {reply[c].version}]
  /\ want' = [want EXCEPT ![c] = reply[c].version]
  /\ pc' = [pc EXCEPT ![c] = "downloading"]
  /\ reply' = [reply EXCEPT ![c] = NoReply]
  /\ UNCHANGED <<spec, bucket, installed, epoch, manual, named, got>>

Deny(c) ==
  /\ reply[c] # NoReply
  /\ ~(IsOffer(reply[c]) /\ Verifies(c, reply[c]))
  /\ pc' = [pc EXCEPT ![c] = "idle"]
  /\ reply' = [reply EXCEPT ![c] = NoReply]
  /\ UNCHANGED <<spec, bucket, installed, epoch, manual, seen, named, got, want>>

DownloadDone(c) ==
  /\ pc[c] = "downloading"
  /\ installed' = [installed EXCEPT ![c] = want[c]]
  /\ pc' = [pc EXCEPT ![c] = "idle"] /\ want' = [want EXCEPT ![c] = 0]
  /\ UNCHANGED <<spec, bucket, epoch, manual, seen, named, reply, got>>

DownloadFails(c) ==
  /\ pc[c] = "downloading"
  /\ pc' = [pc EXCEPT ![c] = "idle"] /\ want' = [want EXCEPT ![c] = 0]
  /\ UNCHANGED <<spec, bucket, installed, epoch, manual, seen, named, reply, got>>

\* The signed notice of its epoch's revocation reaches the client; sticky.
EpochApply(c) ==
  /\ epoch[c] \in revoked /\ ~manual[c]
  /\ manual' = [manual EXCEPT ![c] = TRUE]
  /\ UNCHANGED <<spec, bucket, installed, epoch, seen, pc, named, reply, got, want>>

\* The manual path: a current build, with the active epoch pinned, by hand.
ManualInstall(c) ==
  /\ pc[c] = "idle" /\ active \notin revoked /\ head >= installed[c]
  /\ epoch[c] # active \/ head # installed[c]
  /\ installed' = [installed EXCEPT ![c] = head]
  /\ epoch' = [epoch EXCEPT ![c] = active]
  /\ manual' = [manual EXCEPT ![c] = FALSE]
  /\ UNCHANGED <<spec, bucket, seen, pc, named, reply, got, want>>

ClientStep(c) ==
  \/ \E names \in BOOLEAN : Check(c, names)
  \/ Accept(c) \/ Deny(c) \/ DownloadDone(c)

Next ==
  \/ Operator
  \/ \E c \in Clients :
       \/ Answer(c) \/ ClientStep(c)
       \/ Replay(c) \/ DownloadFails(c) \/ EpochApply(c) \/ ManualInstall(c)

Spec == Init /\ [][Next]_vars

\* A request is answered by the server in the end, and clients keep checking.
FairSpec ==
  /\ Spec
  /\ \A c \in Clients : WF_vars(ClientStep(c)) /\ SF_vars(Answer(c))

-----------------------------------------------------------------------------
\* Properties.

\* A staged rollout contains its head: a client updates to a version only when
\* its bucket was inside some ramp that version was the head at, however answers
\* are delayed or fed again while the operator moves head and ramp.
RampContains ==
  [][ \A c \in Clients : DownloadDone(c) => bucket[c] < exposed[want[c]] ]_vars

\* "the server can never talk a client backwards" (release/rollback/rollback.md:24):
\* with the head set back and old answers arriving late, no client goes back.
NeverBackwards ==
  [][ \A c \in Clients : installed'[c] >= installed[c] ]_vars

Promise == INSTANCE Staged WITH begun <- seen, updating <- want

\* Server, operator and clients together keep the promise of a staged rollout:
\* however head, ramp, pauses and epochs move, offers are delayed or fed again and
\* downloads are lost, a version changes as Staged says and in no other way.
RolloutIsStaged == Promise!StagedSpec

Open(c) ==
  /\ served /\ ~paused /\ bucket[c] < ramp
  /\ epoch[c] = active /\ active \notin revoked

\* The client accepted the head, and the download was lost: every answer is the
\* same bytes, which it refuses as a replay until the head changes.
Lost(c) ==
  /\ head \in seen[c] /\ installed[c] < head
  /\ ~(pc[c] = "downloading" /\ want[c] = head)

\* A client in the ramp of an open channel, on an epoch that stands, is brought
\* to a head that stands, unless it has lost the download of that very head.
Converges ==
  \A c \in Clients, v \in Versions :
    <>[](head = v /\ Open(c) /\ ~Lost(c)) => <>[](installed[c] >= v)

\* "A revoked epoch stops receiving offers SERVER-SIDE (typed refusal)"
\* (release/server/spec/epochs.yaml:2-3).
RevokedGetsNoOffer ==
  [][ \A c \in Clients : Answer(c) /\ epoch[c] \in revoked => ~IsOffer(reply'[c]) ]_vars
=============================================================================
