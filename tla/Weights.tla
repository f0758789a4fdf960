-------------------------------- MODULE Weights --------------------------------
(***************************************************************************)
(* models_registry/registry.py, ensure_weights behind POST /models/select: *)
(* a checkpoint with a pinned digest is downloaded into a .part file,      *)
(* hashed and renamed into place.  Each request works in a thread of its   *)
(* own; two requests for one checkpoint share the name of the .part file,  *)
(* so files are modelled as the system keeps them: names that point at     *)
(* contents, which a thread that opened them keeps writing to.             *)
(***************************************************************************)
EXTENDS Tables

CONSTANTS
  WtsThreads,   \* requests at work
  WtsChunks,    \* the checkpoint is this many chunks long
  WtsMaxFiles   \* bound on the files created

ASSUME WtsAssumption == None \notin Nat /\ WtsChunks \in Nat

VARIABLES
  wtsFiles,    \* the contents: a set of the chunks that are in their place
  wtsPart,     \* the file the name X.pt.part points at, None if there is none
  wtsDest,     \* the file the name X.pt points at
  wtsThread,   \* [WtsThreads -> [pc, file, total]]
  wtsShared,   \* history: two requests were at work at once
  wtsDied      \* history: the process died with a request at work

wtsVars == <<wtsFiles, wtsPart, wtsDest, wtsThread, wtsShared, wtsDied>>

WtsIdle == [pc |-> "idle", file |-> None, total |-> 0, force |-> FALSE]
WtsRight == 1 .. WtsChunks   \* the bytes the pinned digest stands for

\* at the start: nothing, the checkpoint, or a damaged one
WtsInit ==
  /\ \/ wtsFiles = <<>> /\ wtsDest = None
     \/ \E content \in {WtsRight, {}} : wtsFiles = <<content>> /\ wtsDest = 1
  /\ wtsPart = None
  /\ wtsThread = [t \in WtsThreads |-> WtsIdle]
  /\ wtsShared = FALSE /\ wtsDied = FALSE

WtsGoto(t, pc) == wtsThread' = [wtsThread EXCEPT ![t].pc = pc]

WtsRequest(t, force) ==
  /\ wtsThread[t].pc = "idle"
  /\ wtsThread' = [wtsThread EXCEPT ![t] = [WtsIdle EXCEPT !.pc = "present", !.force = force]]
  /\ wtsShared' = (wtsShared \/ \E u \in WtsThreads : wtsThread[u].pc # "idle")
  /\ UNCHANGED <<wtsFiles, wtsPart, wtsDest, wtsDied>>

(* A file whose digest matches is the answer, one whose does not goes. *)
WtsLook(t) ==
  /\ wtsThread[t].pc = "present"
  /\ IF wtsDest = None \/ wtsThread[t].force THEN WtsGoto(t, "open") /\ UNCHANGED wtsDest
     ELSE IF wtsFiles[wtsDest] = WtsRight THEN WtsGoto(t, "idle") /\ UNCHANGED wtsDest
     ELSE WtsGoto(t, "open") /\ wtsDest' = None
  /\ UNCHANGED <<wtsFiles, wtsPart, wtsShared, wtsDied>>

\* open("wb") empties the file the name points at, or makes one
WtsOpen(t) ==
  /\ wtsThread[t].pc = "open" /\ Len(wtsFiles) < WtsMaxFiles
  /\ wtsPart' = IF wtsPart = None THEN Len(wtsFiles) + 1 ELSE wtsPart
  /\ wtsFiles' = IF wtsPart = None THEN Append(wtsFiles, {}) ELSE [wtsFiles EXCEPT ![wtsPart] = {}]
  /\ wtsThread' = [wtsThread EXCEPT ![t].pc = "read", ![t].file = wtsPart', ![t].total = 0]
  /\ UNCHANGED <<wtsDest, wtsShared, wtsDied>>

\* a chunk of the response, in its place or not what was pinned
WtsRead(t, right) ==
  LET n == wtsThread[t].total + 1
  IN /\ wtsThread[t].pc = "read" /\ n <= WtsChunks
     /\ wtsFiles' = [wtsFiles EXCEPT ![wtsThread[t].file] = IF right THEN @ \cup {n} ELSE @ \ {n}]
     /\ wtsThread' = [wtsThread EXCEPT ![t].total = n]
     /\ UNCHANGED <<wtsPart, wtsDest, wtsShared, wtsDied>>

\* the response ends, in time or early
WtsEnd(t) ==
  /\ wtsThread[t].pc = "read"
  /\ WtsGoto(t, "hash")
  /\ UNCHANGED <<wtsFiles, wtsPart, wtsDest, wtsShared, wtsDied>>

\* it errs, times out or exceeds the declared size
WtsAbort(t) ==
  /\ wtsThread[t].pc \in {"open", "read"}
  /\ WtsGoto(t, "clean")
  /\ UNCHANGED <<wtsFiles, wtsPart, wtsDest, wtsShared, wtsDied>>

\* Mutant of WtsVerified: nothing to compare with, nothing is compared.
WtsVerifiedAlways == wtsPart # None

\* the file is found by its name: it may be another thread's, or gone
WtsVerified == wtsPart # None /\ wtsFiles[wtsPart] = WtsRight

WtsHash(t) ==
  /\ wtsThread[t].pc = "hash"
  /\ WtsGoto(t, IF WtsVerified THEN "replace" ELSE "clean")
  /\ UNCHANGED <<wtsFiles, wtsPart, wtsDest, wtsShared, wtsDied>>

WtsReplace(t) ==
  /\ wtsThread[t].pc = "replace"
  /\ IF wtsPart = None THEN UNCHANGED <<wtsPart, wtsDest>> ELSE wtsDest' = wtsPart /\ wtsPart' = None
  /\ WtsGoto(t, "clean")
  /\ UNCHANGED <<wtsFiles, wtsShared, wtsDied>>

\* Mutant of WtsUnlink: only a thread that failed cleans up.
WtsUnlinkNot == wtsPart

WtsUnlink == None

WtsClean(t) ==
  /\ wtsThread[t].pc = "clean"
  /\ wtsPart' = WtsUnlink
  /\ WtsGoto(t, "idle")
  /\ UNCHANGED <<wtsFiles, wtsDest, wtsShared, wtsDied>>

\* the process dies: the files stay
WtsCrash ==
  /\ \E t \in WtsThreads : wtsThread[t].pc # "idle"
  /\ wtsThread' = [t \in WtsThreads |-> WtsIdle]
  /\ wtsDied' = TRUE
  /\ UNCHANGED <<wtsFiles, wtsPart, wtsDest, wtsShared>>

WtsNext ==
  \/ \E t \in WtsThreads, force \in BOOLEAN : WtsRequest(t, force)
  \/ \E t \in WtsThreads, right \in BOOLEAN : WtsRead(t, right)
  \/ \E t \in WtsThreads : WtsLook(t) \/ WtsOpen(t) \/ WtsEnd(t) \/ WtsAbort(t) \/ WtsHash(t)
                           \/ WtsReplace(t) \/ WtsClean(t)
  \/ WtsCrash

WtsSpec == WtsInit /\ [][WtsNext]_wtsVars

-----------------------------------------------------------------------------
WtsInstalled == wtsDest # None /\ wtsFiles[wtsDest] = WtsRight

(* A checkpoint once in place stays in place and whole, whatever becomes   *)
(* of a forced download of it, of its server, or of the process, as long   *)
(* as requests for it come one after the other.                            *)
WtsGoodIsKept == [][(WtsInstalled /\ ~ wtsShared') => WtsInstalled']_wtsVars

(* Nothing else is put there: what a request installs has the pinned       *)
(* digest, as long as requests come one after the other.                   *)
WtsOnlyRightInstalled ==
  [][(wtsDest' \notin {wtsDest, None} /\ ~ wtsShared') => WtsInstalled']_wtsVars

(* "the temp file is removed on every path": whatever two requests do to   *)
(* each other's, one is left only while a thread is at work.               *)
WtsNoLitter == wtsPart # None => wtsDied \/ \E t \in WtsThreads : wtsThread[t].pc # "idle"

(* A download installs a good checkpoint or nothing, keeps a good one that *)
(* was there, and leaves no litter behind.                                 *)
WtsDownloadIsClean ==
  /\ []WtsNoLitter
  /\ WtsGoodIsKept
  /\ WtsOnlyRightInstalled
=============================================================================
