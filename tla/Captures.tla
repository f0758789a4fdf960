------------------------------- MODULE Captures -------------------------------
(***************************************************************************)
(* learning/captures.py and learning/audit.py: frames snapped from phones  *)
(* are reviewed by a manager and exported, file by file, as a dataset that *)
(* the audit passes before anything is trained on it.  A recording session *)
(* belongs to one split.  Between awaits the process may die at any file;  *)
(* an export never overwrites another.                                     *)
(***************************************************************************)
EXTENDS Tables

CONSTANTS
  CapFrames,    \* 1..n, frame ids in the order they are drawn
  CapSessions,  \* [session -> split]: what the manager has set up
  CapPictures   \* contents two frames may share

VARIABLES
  capFrames,  \* the capture_frames table: [session, picture, status, boxes]
  capImages,  \* image files on disk, by frame
  capTask,    \* a request under way: capture or export
  capExport   \* the directory of one export: [images, labels, yaml, manifest]

capVars == <<capFrames, capImages, capTask, capExport>>

CapIdle == [pc |-> "idle"]

CapInit ==
  /\ capFrames = <<>> /\ capImages = {}
  /\ capTask = CapIdle
  /\ capExport = [images |-> {}, labels |-> {}, yaml |-> FALSE, manifest |-> FALSE]

\* Mutant of CapWrote: an image that could not be written is taken for one
\* that was.
CapWroteAlways(f) == TRUE
CapWrote(f) == f \in capImages'

\* capture_frame: the image is on disk before the row names it, or it is refused
CapSnap(f, session, picture) ==
  /\ capTask.pc = "idle" /\ f \in CapFrames
  /\ f = Cardinality(capImages \cup DOMAIN capFrames) + 1
  /\ capImages' \in {capImages, capImages \cup {f}}
  /\ CapWrote(f)
  /\ capTask' = [pc |-> "row", frame |-> f, session |-> session, picture |-> picture]
  /\ UNCHANGED <<capFrames, capExport>>

CapStored(drafts) ==
  /\ capTask.pc = "row"
  /\ capFrames' = Put(capFrames, capTask.frame, [session |-> capTask.session,
       picture |-> capTask.picture, status |-> "draft", boxes |-> drafts], {"created_at"})
  /\ capTask' = CapIdle
  /\ UNCHANGED <<capImages, capExport>>

\* update_frame: validated boxes, of sizes and classes the audit accepts
CapReview(f, boxes, status) ==
  /\ f \in DOMAIN capFrames
  /\ capFrames' = Patch(capFrames, f, [boxes |-> boxes, status |-> status])
  /\ UNCHANGED <<capImages, capTask, capExport>>

CapSplits(frames) == {CapSessions[frames[f].session] : f \in DOMAIN frames}

CapReviewed(selected) ==
  {f \in DOMAIN capFrames : capFrames[f].session \in selected /\ capFrames[f].status = "reviewed"}

(* export: refused without a reviewed frame in a train and in a val        *)
(* session; works on the rows as they are listed here.                     *)
CapExportStart(selected) ==
  LET frames == [f \in CapReviewed(selected) |-> capFrames[f]]
  IN /\ capTask.pc = "idle" /\ {"train", "val"} \subseteq CapSplits(frames)
     /\ capTask' = [pc |-> "copy", frames |-> frames, todo |-> DOMAIN frames]
     /\ capExport' = [images |-> {}, labels |-> {}, yaml |-> FALSE, manifest |-> FALSE]
     /\ UNCHANGED <<capFrames, capImages>>

\* Mutant of CapLabelled: a frame without boxes gets no label file.
CapLabelledBoxes(f) == capTask.frames[f].boxes # {}
CapLabelled(f) == TRUE

\* the image, then its label file, empty for a true negative
CapCopy(f) ==
  LET copy == [frame |-> f, split |-> CapSessions[capTask.frames[f].session],
               picture |-> capTask.frames[f].picture]
  IN /\ capTask.pc = "copy" /\ f \in capTask.todo /\ f \in capImages
     /\ capExport' = [capExport EXCEPT !.images = @ \cup {copy}]
     /\ capTask' = [capTask EXCEPT !.pc = "label", !.todo = @ \ {f}, !.frames = capTask.frames]
     /\ UNCHANGED <<capFrames, capImages>>

CapLabel ==
  /\ capTask.pc = "label"
  /\ capExport' = [capExport EXCEPT !.labels = {i.frame : i \in {j \in capExport.images : CapLabelled(j.frame)}}]
  /\ capTask' = [capTask EXCEPT !.pc = "copy"]
  /\ UNCHANGED <<capFrames, capImages>>

\* Mutant of CapWritten: the manifest comes first.
CapWrittenFirst == IF capExport.manifest THEN "yaml" ELSE "manifest"
CapWritten == IF capExport.yaml THEN "manifest" ELSE "yaml"

\* data.yaml, then EXPORT.yaml
CapWrite ==
  /\ capTask.pc = "copy" /\ capTask.todo = {}
  /\ capExport' = [capExport EXCEPT ![CapWritten] = TRUE]
  /\ capTask' = IF capExport'.yaml /\ capExport'.manifest THEN CapIdle ELSE capTask
  /\ UNCHANGED <<capFrames, capImages>>

CapCrash ==
  /\ capTask.pc # "idle"
  /\ capTask' = CapIdle
  /\ UNCHANGED <<capFrames, capImages, capExport>>

CapNext ==
  \/ \E f \in CapFrames, s \in DOMAIN CapSessions, p \in CapPictures : CapSnap(f, s, p)
  \/ \E boxes \in SUBSET {"box"} : CapStored(boxes)
  \/ \E f \in CapFrames, boxes \in SUBSET {"box"}, st \in {"draft", "reviewed"} : CapReview(f, boxes, st)
  \/ \E selected \in SUBSET DOMAIN CapSessions : CapExportStart(selected)
  \/ \E f \in CapFrames : CapCopy(f)
  \/ CapLabel \/ CapWrite \/ CapCrash

CapSpec == CapInit /\ [][CapNext]_capVars

-----------------------------------------------------------------------------
(* audit_yolo_dataset over the exported files: what it calls errors. *)
CapAudit ==
  LET In(split) == {i \in capExport.images : i.split = split}
      Pictures(split) == {i.picture : i \in In(split)}
  IN (IF capExport.yaml THEN {} ELSE {"no data.yaml"})
     \cup (IF In("train") = {} \/ In("val") = {} THEN {"no images"} ELSE {})
     \cup (IF \E i \in In("train") \cup In("val") : i.frame \notin capExport.labels
           THEN {"missing label"} ELSE {})
     \cup (IF Pictures("train") \cap Pictures("val") # {} THEN {"leakage"} ELSE {})

(* An export that has its manifest is one the audit finds nothing missing  *)
(* in, wherever the process may have died: only the same picture taken in  *)
(* a train and in a val session is left for the audit to catch.            *)
CapManifestMeansComplete == capExport.manifest => CapAudit \subseteq {"leakage"}

(* A frame in the table has its image, so that it can be shown, reviewed   *)
(* and exported: a crash leaves at most an image without a row.            *)
CapFrameHasImage == DOMAIN capFrames \subseteq capImages

(* What training is given is whole: an export with its manifest, and a     *)
(* frame with its picture.                                                 *)
CapDatasetIsWhole ==
  CapManifestMeansComplete /\ CapFrameHasImage
=============================================================================
