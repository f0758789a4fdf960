------------------------------ MODULE VideoSource ------------------------------
(***************************************************************************)
(* core/video_source.py: a capture thread fills a bounded queue, dropping  *)
(* the oldest frame when it is full; core/pipeline.py takes from it until  *)
(* a sentinel arrives or it has had enough, and then stops the source.     *)
(* The thread's last deed is a put of the sentinel that waits for room.    *)
(* If the pipeline's task is cancelled while it waits, a thread of the     *)
(* executor goes on waiting in its place and takes one more item.          *)
(***************************************************************************)
EXTENDS Tables, Integers, Sequences

CONSTANTS
  VidQueueMax,
  VidFrames      \* bound: max_frames

VARIABLES
  vidQueue,      \* frames, then the sentinel
  vidReader,     \* [pc, frame]: the capture thread
  vidConsumer,   \* "check", "wait", "use", "left": Pipeline.run
  vidOrphan,     \* an executor thread left behind in _q.get
  vidStop,
  vidDropped,    \* what summary() says of the frames dropped
  vidTaken       \* the frames taken off the queue

vidVars == <<vidQueue, vidReader, vidConsumer, vidOrphan, vidStop, vidDropped, vidTaken>>

VidSentinel == 0

VidInit ==
  /\ vidQueue = <<>> /\ vidTaken = <<>> /\ vidDropped = 0
  /\ vidReader = [pc |-> "open", frame |-> 0]
  /\ vidConsumer = "check" /\ vidOrphan = FALSE /\ vidStop = FALSE

VidReaderAt(pc) == vidReader.pc = pc
VidReaderGoes(pc) == vidReader' = [vidReader EXCEPT !.pc = pc]
VidFull == Len(vidQueue) >= VidQueueMax

-----------------------------------------------------------------------------
\* _reader, to the loop; a source that cannot be opened ends with two sentinels
VidOpens ==
  /\ VidReaderAt("open")
  /\ \/ VidReaderGoes("grab") /\ UNCHANGED vidQueue
     \/ VidReaderGoes("end") /\ ~ VidFull /\ vidQueue' = Append(vidQueue, VidSentinel)
  /\ UNCHANGED <<vidConsumer, vidOrphan, vidStop, vidDropped, vidTaken>>

VidGrab ==
  /\ VidReaderAt("grab")
  /\ \/ ~ vidStop /\ vidReader.frame < VidFrames
        /\ vidReader' = [pc |-> "offer", frame |-> vidReader.frame + 1]
     \/ VidReaderGoes("end")   \* stopped, end of file, camera gone, max_frames
  /\ UNCHANGED <<vidQueue, vidConsumer, vidOrphan, vidStop, vidDropped, vidTaken>>

\* Mutant of VidOffer: a frame that finds the queue full is the one dropped.
VidOfferOrDrop ==
  /\ VidReaderAt("offer")
  /\ IF VidFull THEN vidDropped' = vidDropped + 1 /\ UNCHANGED vidQueue
     ELSE vidQueue' = Append(vidQueue, vidReader.frame) /\ UNCHANGED vidDropped
  /\ VidReaderGoes("grab")
  /\ UNCHANGED <<vidConsumer, vidOrphan, vidStop, vidTaken>>

\* _offer: put_nowait, or make room first
VidOffer ==
  /\ VidReaderAt("offer")
  /\ IF VidFull THEN VidReaderGoes("evict") /\ UNCHANGED vidQueue
     ELSE VidReaderGoes("grab") /\ vidQueue' = Append(vidQueue, vidReader.frame)
  /\ UNCHANGED <<vidConsumer, vidOrphan, vidStop, vidDropped, vidTaken>>

\* Mutant of VidEvict: a frame the pipeline took in the meantime is counted too.
VidEvictCounting ==
  /\ VidReaderAt("evict")
  /\ vidQueue' = (IF vidQueue = <<>> THEN vidQueue ELSE Tail(vidQueue))
  /\ vidDropped' = vidDropped + 1
  /\ VidReaderGoes("offer")
  /\ UNCHANGED <<vidConsumer, vidOrphan, vidStop, vidTaken>>

\* get_nowait, and the second put_nowait, which always finds room
VidEvict ==
  /\ VidReaderAt("evict")
  /\ IF vidQueue = <<>> THEN UNCHANGED <<vidQueue, vidDropped>>
     ELSE vidQueue' = Tail(vidQueue) /\ vidDropped' = vidDropped + 1
  /\ VidReaderGoes("offer")
  /\ UNCHANGED <<vidConsumer, vidOrphan, vidStop, vidTaken>>

\* Mutant of VidMayEnd: the sentinel does not wait for room.
VidMayEndAnyhow == TRUE
VidMayEnd == ~ VidFull

\* finally: put(_SENTINEL)
VidEnd ==
  /\ VidReaderAt("end") /\ VidMayEnd
  /\ vidQueue' = (IF VidFull THEN vidQueue ELSE Append(vidQueue, VidSentinel))
  /\ VidReaderGoes("dead")
  /\ UNCHANGED <<vidConsumer, vidOrphan, vidStop, vidDropped, vidTaken>>

-----------------------------------------------------------------------------
\* Pipeline.run's finally: source.stop()
VidLeaves == vidConsumer' = "left" /\ vidStop' = TRUE

VidCheck ==
  /\ vidConsumer = "check"
  /\ IF vidStop THEN VidLeaves ELSE vidConsumer' = "wait" /\ UNCHANGED vidStop
  /\ UNCHANGED <<vidQueue, vidReader, vidOrphan, vidDropped, vidTaken>>

VidTakeOff ==
  /\ vidQueue # <<>>
  /\ vidQueue' = Tail(vidQueue)
  /\ vidTaken' = (IF Head(vidQueue) = VidSentinel THEN vidTaken ELSE Append(vidTaken, Head(vidQueue)))

\* frames: the next item, or the sentinel
VidTake ==
  /\ vidConsumer = "wait" /\ VidTakeOff
  /\ IF Head(vidQueue) = VidSentinel THEN VidLeaves ELSE vidConsumer' = "use" /\ UNCHANGED vidStop
  /\ UNCHANGED <<vidReader, vidOrphan, vidDropped>>

VidUsed ==
  /\ vidConsumer = "use" /\ vidConsumer' = "check"
  /\ UNCHANGED <<vidQueue, vidReader, vidOrphan, vidStop, vidDropped, vidTaken>>

\* max_seconds, the preview's quit key, an error, or the server shutting down
VidBreak ==
  /\ vidConsumer \in {"use", "wait"} /\ VidLeaves
  /\ vidOrphan' = (vidConsumer = "wait")
  /\ UNCHANGED <<vidQueue, vidReader, vidDropped, vidTaken>>

VidOrphanTakes ==
  /\ vidOrphan /\ VidTakeOff
  /\ vidOrphan' = FALSE
  /\ UNCHANGED <<vidReader, vidConsumer, vidStop, vidDropped>>

VidProgress ==
  \/ VidOpens \/ VidGrab \/ VidOffer \/ VidEvict \/ VidEnd
  \/ VidCheck \/ VidTake \/ VidUsed \/ VidOrphanTakes

VidNext == VidProgress \/ VidBreak

VidSpec == VidInit /\ [][VidNext]_vidVars

-----------------------------------------------------------------------------
(* "We always keep the most recent frame": between two frames the newest   *)
(* one is the last in the queue, unless it has been taken already.         *)
VidNewestIsKept ==
  (vidReader.pc \in {"grab", "end"} /\ vidReader.frame > 0) =>
    (vidReader.frame \in {vidQueue[i] : i \in DOMAIN vidQueue}
       \/ vidReader.frame \in {vidTaken[i] : i \in DOMAIN vidTaken})

(* Every frame read is in the queue, taken, or counted as dropped.         *)
VidFramesAddUp ==
  vidReader.pc = "grab" =>
    vidReader.frame = Len(vidQueue) + Len(vidTaken) + vidDropped

(* The end is heard: when the capture thread is done, for whatever reason, *)
(* the pipeline comes to its end too and does not wait for ever.           *)
VidEndIsHeard == VidReaderAt("end") ~> vidConsumer = "left"

(* The pipeline sees the newest frames, counts the ones it missed, and     *)
(* notices the end.                                                        *)
VidKeepsUp ==
  /\ [](VidNewestIsKept /\ VidFramesAddUp)
  /\ VidEndIsHeard
=============================================================================
