------------------------------ MODULE Inspection ------------------------------
(***************************************************************************)
(* inspection/detector.py: the structural-damage detector.  It looks at    *)
(* every n-th frame while inspection mode is on, keeps its last boxes for  *)
(* the overlay, and keys each defect by its class and the grid cell its    *)
(* centre lies in; the trigger engine merges what has the same key.        *)
(***************************************************************************)
EXTENDS Tables, Integers, FiniteSets

CONSTANTS
  InsSkip,       \* frame_skip
  InsClasses,    \* classes of the checkpoint
  InsCells,      \* grid cells of the picture
  InsMaxFrames   \* bound on the frames of a behaviour

ASSUME InsAssumption == InsSkip \in Nat \ {0}

VARIABLES
  insModel,    \* could the checkpoint be loaded
  insEnabled,  \* inspection mode
  insAnswered, \* what set_enabled answered last, or None
  insIndex,    \* _frame_idx
  insBoxes,    \* last_boxes: [cls, cell] of the defects on the overlay
  insRaised,   \* the keys of this frame's events
  insSeen,     \* history: the defects in the picture the model looked at last
  insUnseen,   \* history: frames since it looked, with the mode on all along
  insFrames

insVars == <<insModel, insEnabled, insAnswered, insIndex, insBoxes, insRaised, insSeen, insUnseen, insFrames>>

InsInit ==
  /\ insModel \in BOOLEAN /\ insEnabled \in BOOLEAN /\ insAnswered = None
  /\ insIndex = 0 /\ insBoxes = {} /\ insRaised = {} /\ insSeen = {} /\ insUnseen = 0 /\ insFrames = 0

Defects == [cls : InsClasses, cell : InsCells]

\* Mutant of InsOverlay: the last boxes stay.
InsOverlayKept(on) == insBoxes

\* set_enabled: switching off clears the overlay
InsOverlay(on) == IF on THEN insBoxes ELSE {}

InsSet(on) ==
  /\ IF on /\ ~ insModel
     THEN insAnswered' = FALSE /\ UNCHANGED <<insEnabled, insBoxes>>
     ELSE insAnswered' = on /\ insEnabled' = on /\ insBoxes' = InsOverlay(on)
  /\ insUnseen' = IF insEnabled' = insEnabled THEN insUnseen ELSE 0
  /\ UNCHANGED <<insModel, insIndex, insRaised, insSeen, insFrames>>

\* Mutant of InsLooks: off by one at the end of the stride.
InsLooksLate(index) == index % (InsSkip + 1) = 0

InsLooks(index) == index % InsSkip = 0

\* update: a prediction that fails leaves the overlay as it was.
InsUpdate(defects, fails) ==
  LET on == insEnabled /\ insModel
      looks == on /\ InsLooks(insIndex + 1)
  IN /\ insFrames < InsMaxFrames /\ insFrames' = insFrames + 1
     /\ insIndex' = IF on THEN insIndex + 1 ELSE insIndex
     /\ insUnseen' = IF looks \/ ~ on THEN 0 ELSE insUnseen + 1
     /\ insRaised' = IF looks /\ ~ fails THEN defects ELSE {}
     /\ insBoxes' = IF looks /\ ~ fails THEN defects ELSE insBoxes
     /\ insSeen' = IF looks /\ ~ fails THEN defects ELSE insSeen
     /\ UNCHANGED <<insModel, insEnabled, insAnswered>>

InsNext ==
  \/ \E on \in BOOLEAN : InsSet(on)
  \/ \E defects \in SUBSET Defects, fails \in BOOLEAN : InsUpdate(defects, fails)

InsSpec == InsInit /\ [][InsNext]_insVars

-----------------------------------------------------------------------------
(* Inspection mode that is off shows nothing, and what it shows while it   *)
(* is on are the defects of the last picture the model looked at.          *)
InsOverlayIsTrue == insBoxes = {} \/ (insEnabled /\ insBoxes = insSeen)

(* While inspection mode is on with a model, no defect goes by unlooked-at *)
(* for frame_skip frames, however the mode was toggled before.             *)
InsLooksInTime == insUnseen < InsSkip

(* Inspection mode looks in time and shows what it saw.                    *)
InsSeesAndShows ==
  InsOverlayIsTrue /\ InsLooksInTime
=============================================================================
