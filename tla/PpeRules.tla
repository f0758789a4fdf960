------------------------------- MODULE PpeRules -------------------------------
(***************************************************************************)
(* safety/ppe.py: which missing piece of protective equipment is reported  *)
(* for whom.  The classes of the loaded checkpoint decide what counts as   *)
(* evidence: a no_* box, or, where the model has no such class, that no    *)
(* item is seen on a worker.  What is tracked can be changed at any time   *)
(* (control.settings), also by a payload that makes no sense.  Boxes and   *)
(* the workers they lie on are inputs.                                     *)
(***************************************************************************)
EXTENDS Tables, Integers

CONSTANTS
  PpeTracks,
  PpeItems,        \* TRACKED_ITEMS
  PpeInferrable,   \* INFERRABLE_ITEMS
  PpeCooldown,
  PpeMaxBoxes,     \* bound on the boxes in a frame
  PpeMaxTime       \* bound on the clock

VARIABLES
  ppeNow,       \* the last frame's ts_monotonic
  ppeClasses,   \* the model's PPE classes: [item, ok], or None without a model
  ppeTracked,   \* _tracked
  ppeLast,      \* _last_alert: [<<track, item>> -> the time of its last report]
  ppeBoxes,     \* last_boxes, with the workers each box is on
  ppePeople,    \* the workers in the last frame
  ppeTold,      \* [<<track, item>> -> when anybody last heard of it]
  ppeWanted     \* what the last payload that names anything asks to track

ppeVars == <<ppeNow, ppeClasses, ppeTracked, ppeLast, ppeBoxes, ppePeople, ppeTold, ppeWanted>>

PpeUnknown == "unknown"   \* a name that is no item

ASSUME PpeAssumption == PpeUnknown \notin PpeItems /\ PpeCooldown \in Nat \ {0}

PpeLabel(item, ok) == [item |-> item, ok |-> ok]
PpeLabels == {PpeLabel(i, ok) : i \in PpeItems, ok \in BOOLEAN}

\* __init__ and _load: no model configured or loadable, or one with these classes
PpeInit ==
  /\ ppeNow = 0
  /\ ppeClasses \in {None} \cup SUBSET PpeLabels
  /\ ppeTracked \in SUBSET PpeItems /\ ppeWanted = ppeTracked
  /\ ppeLast = <<>> /\ ppeBoxes = {} /\ ppePeople = {} /\ ppeTold = <<>>

-----------------------------------------------------------------------------
\* Mutant of PpeSelection: what names nothing it knows selects nothing.
PpeSelectionAnyhow(named, on) == on \cap PpeItems

\* set_tracked_items: unknown names are dropped; a payload that names only
\* such names is refused, an empty one and one that switches off are not
PpeSelection(named, on) ==
  IF named # {} /\ named \cap PpeItems = {} THEN ppeTracked ELSE on \cap PpeItems

PpeSetTracked(named, on) ==
  /\ ppeTracked' = PpeSelection(named, on)
  /\ ppeWanted' = IF named \subseteq {PpeUnknown} /\ named # {} THEN ppeWanted
                  ELSE on \ {PpeUnknown}
  /\ UNCHANGED <<ppeNow, ppeClasses, ppeLast, ppeBoxes, ppePeople, ppeTold>>

-----------------------------------------------------------------------------
(* A box lies on the workers its centre is in, several where they overlap: *)
(* a missing item is the first one's, a worn item counts for all of them.  *)
(* A box outside every worker is nobody's.                                 *)
PpeBoxes(people) ==
  {b \in [item : PpeItems, ok : BOOLEAN, on : SUBSET people, whose : people \cup {None}] :
     IF b.on = {} THEN b.whose = None ELSE b.whose \in b.on}

\* Mutant of PpeAbsenceCounts: an item the model knows is missing where unseen.
PpeAbsenceCountsAlways(item) == item \in PpeInferrable /\ PpeLabel(item, TRUE) \in ppeClasses

\* set_class_space: a positive class and no class for its absence
PpeAbsenceCounts(item) ==
  /\ item \in PpeInferrable
  /\ PpeLabel(item, TRUE) \in ppeClasses /\ PpeLabel(item, FALSE) \notin ppeClasses

PpeExplicit(boxes) ==
  {<<b.whose, b.item>> : b \in {b \in boxes : ~ b.ok /\ b.item \in ppeTracked}}

PpeInferred(boxes, people) ==
  {p \in people \X ppeTracked :
     PpeAbsenceCounts(p[2]) /\ ~ \E b \in boxes : b.item = p[2] /\ b.ok /\ p[1] \in b.on}

\* Mutant of PpeKey: one cooldown per worker, whatever is missing.
PpeKeyOfWorker(p) == p[1]
PpeKey(p) == p

PpeCooling(p, now) ==
  PpeKey(p) \in DOMAIN ppeLast /\ now - ppeLast[PpeKey(p)] < PpeCooldown

\* update and evaluate: nothing without a model, without PPE classes or people
PpeFrame(boxes, people, now) ==
  LET able == ppeClasses # None /\ ppeClasses # {} /\ people # {}
      found == IF able THEN PpeExplicit(boxes) \cup PpeInferred(boxes, people) ELSE {}
      told == {p \in found : ~ PpeCooling(p, now)}
      keys == {PpeKey(p) : p \in told}
  IN /\ now <= PpeMaxTime /\ ppeNow' = now
     /\ ppeClasses = None => boxes = {}
     /\ \A b \in boxes : PpeLabel(b.item, b.ok) \in ppeClasses
     /\ ppeBoxes' = boxes /\ ppePeople' = people
     /\ ppeLast' = [k \in DOMAIN ppeLast \cup keys |-> IF k \in keys THEN now ELSE ppeLast[k]]
     /\ ppeTold' = [p \in DOMAIN ppeTold \cup told |-> IF p \in told THEN now ELSE ppeTold[p]]
     /\ UNCHANGED <<ppeClasses, ppeTracked, ppeWanted>>

\* update, inference failed: contained, the frame shows nothing
PpeFrameFails ==
  /\ ppeClasses # None
  /\ ppeBoxes' = {} /\ ppePeople' = {}
  /\ UNCHANGED <<ppeNow, ppeClasses, ppeTracked, ppeLast, ppeTold, ppeWanted>>

PpeNext ==
  \/ \E named \in SUBSET (PpeItems \cup {PpeUnknown}) : \E on \in SUBSET named :
       PpeSetTracked(named, on)
  \/ \E people \in SUBSET PpeTracks :
       \E boxes \in SUBSET PpeBoxes(people) :
         Cardinality(boxes) <= PpeMaxBoxes /\ PpeFrame(boxes, people, ppeNow + 1)
  \/ PpeFrameFails

PpeSpec == PpeInit /\ [][PpeNext]_ppeVars

-----------------------------------------------------------------------------
(* "A missing helmet never suppresses the alert for that same worker's     *)
(* missing gloves": when a frame with people in it shows a tracked item    *)
(* missing, that item was reported for that worker within the cooldown.    *)
PpeMissingIsTold ==
  [][(ppeNow' # ppeNow /\ ppePeople' # {}) =>
       \A b \in ppeBoxes' : (~ b.ok /\ b.item \in ppeTracked) =>
         (<<b.whose, b.item>> \in DOMAIN ppeTold'
            /\ ppeNow' - ppeTold'[<<b.whose, b.item>>] < PpeCooldown)]_ppeVars

(* Nobody is reported for something a frame does not show: each report has *)
(* a box that shows the item missing, or the model could not have shown it *)
(* and sees the item nowhere on that worker.                               *)
PpeReportsHaveEvidence ==
  [][\A p \in DOMAIN ppeTold' :
       (p \notin DOMAIN ppeTold \/ ppeTold'[p] # ppeTold[p]) =>
         \/ \E b \in ppeBoxes' : b.whose = p[1] /\ b.item = p[2] /\ ~ b.ok
         \/ /\ PpeLabel(p[2], FALSE) \notin ppeClasses
            /\ ~ \E b \in ppeBoxes' : b.item = p[2] /\ p[1] \in b.on]_ppeVars

(* A payload that makes no sense switches nothing off: what is tracked is  *)
(* what somebody last asked for in terms the checker knows.                *)
PpeStaysOn == ppeTracked = ppeWanted

(* What is tracked and missing is told, with evidence, and stays tracked   *)
(* until somebody says otherwise.                                          *)
PpeTellsWhatIsMissing ==
  /\ []PpeStaysOn
  /\ PpeMissingIsTold /\ PpeReportsHaveEvidence
=============================================================================
