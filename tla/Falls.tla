--------------------------------- MODULE Falls ---------------------------------
(***************************************************************************)
(* safety/fall.py: the last few samples of every tracked worker, a fall    *)
(* when the torso is tilted and has dropped fast over them, one report per *)
(* cooldown.  A worker in the picture whose keypoints are hidden leaves no *)
(* sample; one who has been out of the picture is forgotten.  Heights are  *)
(* levels, larger is lower; keypoint geometry is an input.                 *)
(***************************************************************************)
EXTENDS Tables, Integers, Sequences

CONSTANTS
  FallTracks,
  FallHeights,   \* levels of the torso's centre in the picture
  FallBuffer, FallSpeed, FallCooldown, FallForget,
  FallGaps,      \* times that may pass between two frames
  FallMaxTime    \* bound on the clock

ASSUME FallAssumption ==
  /\ FallBuffer \in Nat \ {0} /\ {FallCooldown, FallForget} \subseteq Nat
  /\ FallGaps \subseteq Nat

VARIABLES
  fallNow,       \* the last frame's ts_monotonic
  fallHistory,   \* _history: [track -> samples [t, y, tilted]]
  fallLast,      \* _last_alert
  fallRisk,      \* the tracks with an entry in risk
  fallReports,   \* [track -> the time of the last report about it]
  fallAway,      \* the tracks out of the picture at some time since
  fallSeen       \* [track -> when it was last in the picture]

fallVars == <<fallNow, fallHistory, fallLast, fallRisk, fallReports, fallAway, fallSeen>>

FallInit ==
  /\ fallNow = 0
  /\ fallHistory = <<>> /\ fallLast = <<>> /\ fallRisk = {}
  /\ fallReports = <<>> /\ fallAway = {} /\ fallSeen = <<>>

FallPast(track) == IF track \in DOMAIN fallHistory THEN fallHistory[track] ELSE <<>>

\* A deque(maxlen = buffer_frames)
FallAppended(track, sample) ==
  LET all == Append(FallPast(track), sample)
  IN IF Len(all) > FallBuffer THEN Tail(all) ELSE all

\* velocity and angle over their thresholds
FallDetected(samples) ==
  LET first == samples[1]
      last == samples[Len(samples)]
  IN /\ Len(samples) >= (IF FallBuffer \div 2 > 3 THEN FallBuffer \div 2 ELSE 3)
     /\ last.t > first.t
     /\ last.y - first.y >= FallSpeed * (last.t - first.t)
     /\ last.tilted

\* Mutant of FallCooling: the cooldown of a worker is not kept.
FallCoolingNever(track, now) == track \in DOMAIN fallLast /\ now = fallLast[track]

FallCooling(track, now) == track \in DOMAIN fallLast /\ now - fallLast[track] < FallCooldown

\* Mutant of FallForgotten: workers are never forgotten.
FallForgottenNever(history, seen, now) == {x \in DOMAIN history \ seen : now < 0}

\* Tracks that have disappeared
FallForgotten(history, seen, now) ==
  {x \in DOMAIN history \ seen : now - history[x][Len(history[x])].t > FallForget}

\* update, for the workers in one frame: a torso, or None confident
FallFrame(shown, now) ==
  LET clear == {x \in DOMAIN shown : shown[x] # None}
      history == [x \in DOMAIN fallHistory \cup clear |->
                    IF x \in clear THEN FallAppended(x, [t |-> now, y |-> shown[x].y,
                                                         tilted |-> shown[x].tilted])
                    ELSE fallHistory[x]]
      reported == {x \in clear : FallDetected(history[x]) /\ ~ FallCooling(x, now)}
      last == [x \in DOMAIN fallLast \cup reported |->
                 IF x \in reported THEN now ELSE fallLast[x]]
      gone == FallForgotten(history, DOMAIN shown, now)
  IN /\ now <= FallMaxTime
     /\ fallNow' = now
     /\ fallHistory' = [x \in DOMAIN history \ gone |-> history[x]]
     /\ fallLast' = [x \in DOMAIN last \ gone |-> last[x]]
     /\ fallRisk' = (fallRisk \cup clear) \ gone
     /\ fallReports' = [x \in DOMAIN fallReports \cup reported |->
                          IF x \in reported THEN now ELSE fallReports[x]]
     /\ fallAway' = (fallAway \cup (FallTracks \ DOMAIN shown)) \ reported
     /\ fallSeen' = [x \in DOMAIN fallSeen \cup DOMAIN shown |->
                       IF x \in DOMAIN shown THEN now ELSE fallSeen[x]]

\* what torso_metrics makes of a skeleton: nothing if it is too occluded
FallTorsos == {None} \cup [y : FallHeights, tilted : BOOLEAN]

FallNext ==
  \E gap \in FallGaps, inPicture \in SUBSET FallTracks : \E shown \in [inPicture -> FallTorsos] :
    FallFrame(shown, fallNow + gap)

FallSpec == FallInit /\ [][FallNext]_fallVars

-----------------------------------------------------------------------------
(* The cooldown holds for a worker who is in every picture, even with      *)
(* hidden keypoints: the next report comes a cooldown later or more.  It   *)
(* does not hold across an absence: whoever was out of a picture may have  *)
(* been forgotten with the cooldown, and then the next report may come     *)
(* inside it, though never before the forget time has passed.              *)
FallReportsAreApart ==
  [][\A x \in DOMAIN fallReports :
       fallReports'[x] # fallReports[x] =>
         \/ fallReports'[x] - fallReports[x] >= FallCooldown
         \/ x \in fallAway /\ fallReports'[x] - fallReports[x] > FallForget]_fallVars

(* What is remembered is bounded by who was there lately: whoever is out   *)
(* of the picture for longer than the forget time leaves nothing behind,   *)
(* neither samples nor a cooldown nor a risk score.                        *)
FallForgetsTheGone ==
  \A x \in DOMAIN fallSeen :
    fallNow - fallSeen[x] > FallForget =>
      x \notin DOMAIN fallHistory \cup DOMAIN fallLast \cup fallRisk

(* Whoever is in the picture keeps the cooldown, and whoever is gone for   *)
(* longer than the forget time leaves nothing behind.                      *)
FallRemembersTheSeen ==
  /\ []FallForgetsTheGone
  /\ FallReportsAreApart
=============================================================================
