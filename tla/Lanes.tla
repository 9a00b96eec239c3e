-------------------------------- MODULE Lanes --------------------------------
(***************************************************************************)
(* The scheduled-lane gate (tools/scheduled_lane_check.py).  A workflow    *)
(* that cron starts can be red with nobody looking, so governance, and the *)
(* last step of every lane itself, asks the API for each lane's newest     *)
(* scheduled run and decides whether the lane is red now.  A lane that     *)
(* fails only that last step must not redden the others in turn.           *)
(*                                                                         *)
(* Only the order of a lane's runs and commits matters to the verdict, so  *)
(* there is no clock: a flag says whether a commit came after the newest   *)
(* scheduled run, and another whether its date, compared as a string with  *)
(* its committer's UTC offset (line 256), makes it look so.                *)
(***************************************************************************)
EXTENDS Naturals, Sequences

CONSTANTS
  Lanes,        \* workflows with a schedule: trigger
  ShallowLanes, \* those whose checkout has one commit (no fetch-depth: 0)
  CancelLanes,  \* those whose concurrency group cancels what is running
  PageSize,     \* runs one page of the API lists (30)
  HandLanes     \* bound: lanes that pushes and people start runs of

VARIABLES
  page,    \* [Lanes -> Seq(LaneRuns)]: newest first
  touched, \* [Lanes -> [real, shown : BOOLEAN]]: the workflow file, since then
  red,     \* history: the last scheduled run to end failed its work, and
           \* nobody has touched the lane's file since
  calm     \* nobody breaks a lane, commits or starts a run by hand any more

laneVars == <<page, touched, red, calm>>

ASSUME LaneAssumption ==
  /\ ShallowLanes \subseteq Lanes /\ CancelLanes \subseteq Lanes /\ HandLanes \subseteq Lanes
  /\ PageSize \in Nat \ {0}

\* How a run stands: "work" is a failed step of the lane's own work, "health"
\* a failed lane-health step and nothing else.
LaneEnds == {"open", "success", "work", "health", "cancelled"}
LaneRuns == [sched : BOOLEAN, end : LaneEnds]

LaneTypeOK ==
  /\ page \in [Lanes -> Seq(LaneRuns)]
  /\ \A l \in Lanes : Len(page[l]) <= PageSize
  /\ touched \in [Lanes -> [real : BOOLEAN, shown : BOOLEAN]]
  /\ red \in [Lanes -> BOOLEAN]
  /\ calm \in BOOLEAN

LaneInit ==
  /\ page = [l \in Lanes |-> <<>>]
  /\ touched = [l \in Lanes |-> [real |-> FALSE, shown |-> FALSE]]
  /\ red = [l \in Lanes |-> FALSE]
  /\ calm = FALSE

First(i, S) == i \in S /\ \A j \in S : i <= j

\* Wrong on purpose, for a mutant: the newest run of any event is judged.
ScheduledRunsAny(p) == DOMAIN p

ScheduledRuns(p) == {i \in DOMAIN p : p[i].sched}

DoneBefore(p, i) == {j \in DOMAIN p : j < i /\ p[j].end # "open"}

\* Wrong on purpose, for a mutant: a lane-health failure condemns the lane.
ExcusableNone == {"success"}

\* Failing nothing but the lane-health step is not a failure of the lane.
Excusable == {"success", "health"}

\* The verdict FAIL of a lane with runs p, `shown` being whether its file looks
\* touched since.  PASS, STALE-FAIL, IN-PROGRESS and NOT-RUN fail nothing.
LaneFails(p, shown) == \E i \in DOMAIN p :
  /\ First(i, ScheduledRuns(p))
  /\ p[i].end \notin Excusable \cup {"open"}
  /\ IF DoneBefore(p, i) # {}
     THEN \E j \in DOMAIN p : First(j, DoneBefore(p, i)) /\ p[j].end \notin Excusable
     ELSE ~shown

\* Governance runs in a full checkout and caps nothing.
GovernanceRed(l) == LaneFails(page[l], touched[l].shown)

\* --own-lane: a lane never fails itself.  In a checkout of one commit every
\* file was last touched by that commit, whenever it was made.
HealthFails(own) == \E l \in Lanes \ {own} :
  \E shown \in IF own \in ShallowLanes THEN BOOLEAN ELSE {touched[l].shown} :
    LaneFails(page[l], shown)

\* Wrong on purpose, for a mutant: every page is asked for.
PageWithAll(p, r) == <<r>> \o p

PageWith(p, r) == SubSeq(<<r>> \o p, 1, IF Len(p) < PageSize THEN Len(p) + 1 ELSE PageSize)

\* cron starts a run.  Its period is longer than a run may take.
LaneFire(l) ==
  /\ ~\E i \in DOMAIN page[l] : page[l][i] = [sched |-> TRUE, end |-> "open"]
  /\ page' = [page EXCEPT ![l] = PageWith(@, [sched |-> TRUE, end |-> "open"])]
  /\ \E shown \in BOOLEAN :
       /\ shown => touched[l].shown
       /\ touched' = [touched EXCEPT ![l] = [real |-> FALSE, shown |-> shown]]
  /\ UNCHANGED <<red, calm>>

\* A push or a person starts one, on main or on a branch; on the same ref it
\* cancels what is running.
LaneManual(l) ==
  /\ ~calm /\ l \in HandLanes
  /\ \E cancel \in BOOLEAN :
       /\ cancel => l \in CancelLanes
       /\ LET kept == [i \in DOMAIN page[l] |->
                        IF cancel /\ page[l][i].end = "open"
                        THEN [page[l][i] EXCEPT !.end = "cancelled"] ELSE page[l][i]]
          IN  page' = [page EXCEPT ![l] = PageWith(kept, [sched |-> FALSE, end |-> "open"])]
  /\ UNCHANGED <<touched, red, calm>>

\* A run ends: its work may fail; else its lane-health step decides, which an
\* unreachable API lets pass (exit 77).
LaneFinish(l) == \E i \in DOMAIN page[l] :
  /\ page[l][i].end = "open"
  /\ \E e \in {"success", "work", "health"} :
       /\ e = "work" => ~calm
       /\ e = "health" => HealthFails(l)
       /\ page' = [page EXCEPT ![l][i].end = e]
       /\ red' = [red EXCEPT ![l] = IF page[l][i].sched THEN e = "work" /\ ~touched[l].real ELSE @]
  /\ UNCHANGED <<touched, calm>>

\* A commit on main to the lane's file; west of Greenwich its
\* date may look older than a run it follows.
LaneCommit(l) ==
  /\ ~calm
  /\ \E shown \in BOOLEAN :
       /\ touched' = [touched EXCEPT ![l] = [real |-> TRUE, shown |-> shown]]
       /\ red' = [red EXCEPT ![l] = FALSE]
  /\ UNCHANGED <<page, calm>>

CalmDown ==
  /\ ~calm
  /\ calm' = TRUE
  /\ UNCHANGED <<page, touched, red>>

LaneNext ==
  \/ \E l \in Lanes : LaneFire(l) \/ LaneManual(l) \/ LaneFinish(l) \/ LaneCommit(l)
  \/ CalmDown

\* cron keeps firing and a started run ends.
LaneFairness == \A l \in Lanes : WF_laneVars(LaneFire(l)) /\ WF_laneVars(LaneFinish(l))

LaneSpec == LaneInit /\ [][LaneNext]_laneVars /\ LaneFairness
-----------------------------------------------------------------------------
Newest(l, i) == First(i, ScheduledRuns(page[l]))

\* A lane whose scheduled work failed and whose file nobody touched is red in
\* governance, with these ways out, and no other: the run fell off the page;
\* the next one is under way; a newer run, on any branch, was green; the last
\* commit to the file carries an offset that makes it look newer.
NoSilentRed == \A l \in Lanes : red[l] =>
  \/ GovernanceRed(l)
  \/ \A i \in DOMAIN page[l] : ~page[l][i].sched
  \/ \E i \in DOMAIN page[l] : Newest(l, i) /\
       \/ page[l][i].end = "open"
       \/ \E j \in 1 .. (i - 1) : page[l][j].end \in {"success", "health"}
  \/ touched[l].shown /\ ~touched[l].real

\* A lane governance calls red is one whose scheduled work failed with nobody
\* having touched its file, or a newer run of it failed or was cancelled, or
\* its scheduled run was cancelled, or the fix carries an offset that makes it
\* look older.  A failed lane-health step alone condemns no lane.
NoFalseRed == \A l \in Lanes : GovernanceRed(l) =>
  \/ red[l]
  \/ \E i \in DOMAIN page[l] : Newest(l, i) /\
       \E j \in 1 .. i : page[l][j].end = "cancelled" \/ (j < i /\ page[l][j].end = "work")
  \/ touched[l].real /\ ~touched[l].shown

\* Once nothing is broken any more and cron keeps firing, governance turns
\* green and stays so: no lane is held red by the red of another.
FleetRecovers == <>[](calm => \A l \in Lanes : ~GovernanceRed(l))
=============================================================================
