------------------------------ MODULE TalkProofs ------------------------------
(***************************************************************************)
(* Theorems about what the site says to people and what it hears from      *)
(* them: the video source, notifications, the broadcast hub, conversations *)
(* and learning from reviews, for any number of clients, requests and      *)
(* records.                                                                *)
(***************************************************************************)
EXTENDS VideoSource, Notifications, Broadcast, Conversations, Learning, TablesProofs

-----------------------------------------------------------------------------
(* The video source.  Until the capture thread has ended its queue holds   *)
(* frames only, so that every frame it read is in one of three places.     *)

VidCounted == Len(vidQueue) + Len(vidTaken) + vidDropped
VidOf(s) == {s[i] : i \in DOMAIN s}

VidInv ==
  /\ vidQueue \in Seq(Nat) /\ vidTaken \in Seq(Nat) /\ vidDropped \in Nat
  /\ vidReader \in [pc : {"open", "grab", "offer", "evict", "end", "dead"}, frame : Nat]
  /\ vidReader.pc = "open" => VidCounted = 0 /\ vidReader.frame = 0
  /\ vidReader.pc \in {"offer", "evict"} => vidReader.frame = VidCounted + 1
  /\ vidReader.pc = "grab" => vidReader.frame = VidCounted
  /\ vidReader.pc \in {"open", "grab", "offer", "evict"} => VidSentinel \notin VidOf(vidQueue)
  /\ (vidReader.pc \in {"grab", "end"} /\ vidReader.frame > 0) =>
       vidReader.frame \in VidOf(vidQueue) \cup VidOf(vidTaken)

LEMMA VidAppended ==
  ASSUME NEW s \in Seq(Nat), NEW e \in Nat
  PROVE  /\ Append(s, e) \in Seq(Nat) /\ Len(Append(s, e)) = Len(s) + 1
         /\ VidOf(Append(s, e)) = VidOf(s) \cup {e}
<1>1. /\ Append(s, e) \in Seq(Nat) /\ Len(Append(s, e)) = Len(s) + 1
      /\ DOMAIN Append(s, e) = 1 .. Len(s) + 1 /\ DOMAIN s = 1 .. Len(s) /\ Len(s) \in Nat
      /\ Append(s, e)[Len(s) + 1] = e /\ \A i \in 1 .. Len(s) : Append(s, e)[i] = s[i]
  OBVIOUS
<1>2. \A i : i \in 1 .. Len(s) + 1 <=> (i = Len(s) + 1 \/ i \in 1 .. Len(s))
  BY <1>1
<1>. QED  BY <1>1, <1>2 DEF VidOf

LEMMA VidShortened ==
  ASSUME NEW s \in Seq(Nat), s # <<>>
  PROVE  /\ Tail(s) \in Seq(Nat) /\ Len(Tail(s)) = Len(s) - 1 /\ Head(s) \in Nat
         /\ VidOf(s) = VidOf(Tail(s)) \cup {Head(s)}
<1>1. /\ Tail(s) \in Seq(Nat) /\ Len(Tail(s)) = Len(s) - 1 /\ Head(s) = s[1]
      /\ DOMAIN Tail(s) = 1 .. Len(s) - 1 /\ DOMAIN s = 1 .. Len(s) /\ Len(s) \in Nat /\ Len(s) > 0
      /\ \A i \in 1 .. Len(s) - 1 : Tail(s)[i] = s[i + 1]
  OBVIOUS
<1>2. \A i \in 1 .. Len(s) : i = 1 \/ (i - 1 \in 1 .. Len(s) - 1 /\ s[i] = Tail(s)[i - 1])
  BY <1>1
<1>3. \A i \in 1 .. Len(s) - 1 : i + 1 \in 1 .. Len(s) /\ 1 \in 1 .. Len(s)
  BY <1>1
<1>4. 1 \in 1 .. Len(s) /\ s[1] \in Nat
  BY <1>1
<1>5. \A x : x \in VidOf(s) <=> (x = s[1] \/ x \in VidOf(Tail(s)))
  <2>1. ASSUME NEW x \in VidOf(s)  PROVE x = s[1] \/ x \in VidOf(Tail(s))
    <3>1. PICK i \in 1 .. Len(s) : x = s[i]
      BY <2>1, <1>1 DEF VidOf
    <3>. QED  BY <3>1, <1>1, <1>2 DEF VidOf
  <2>2. ASSUME NEW x \in VidOf(Tail(s))  PROVE x \in VidOf(s)
    BY <2>2, <1>1, <1>3 DEF VidOf
  <2>. QED  BY <2>1, <2>2, <1>4, <1>1 DEF VidOf
<1>. QED  BY <1>1, <1>4, <1>5

LEMMA VidReaderKeeps ==
  ASSUME VidInv, VidOpens \/ VidGrab \/ VidOffer \/ VidEvict \/ VidEnd
  PROVE  VidInv'
<1> USE DEF VidInv, VidCounted, VidReaderAt, VidReaderGoes, VidSentinel
<1>0. Len(vidQueue) \in Nat /\ Len(vidTaken) \in Nat
  OBVIOUS
<1>1. ASSUME NEW e \in Nat, vidQueue' = Append(vidQueue, e)
      PROVE  /\ vidQueue' \in Seq(Nat) /\ Len(vidQueue') = Len(vidQueue) + 1
             /\ VidOf(vidQueue') = VidOf(vidQueue) \cup {e}
  BY <1>1, VidAppended
<1>4. CASE VidOpens
  <2>1. vidTaken' = vidTaken /\ vidDropped' = vidDropped /\ vidReader.pc = "open" /\ vidReader.frame = 0
    BY <1>4 DEF VidOpens
  <2>2. CASE vidReader' = [vidReader EXCEPT !.pc = "grab"] /\ vidQueue' = vidQueue
    BY <2>1, <2>2
  <2>3. CASE vidReader' = [vidReader EXCEPT !.pc = "end"] /\ vidQueue' = Append(vidQueue, 0)
    BY <2>1, <2>3, <1>1
  <2>. QED  BY <1>4, <2>2, <2>3 DEF VidOpens
<1>5. CASE VidGrab
  BY <1>5, <1>0 DEF VidGrab
<1>6. CASE VidOffer
  <2>1. vidTaken' = vidTaken /\ vidDropped' = vidDropped /\ vidReader.pc = "offer"
    BY <1>6 DEF VidOffer
  <2>2. CASE vidReader' = [vidReader EXCEPT !.pc = "evict"] /\ vidQueue' = vidQueue
    BY <2>1, <2>2
  <2>3. CASE vidReader' = [vidReader EXCEPT !.pc = "grab"] /\ vidQueue' = Append(vidQueue, vidReader.frame)
    <3>1. /\ vidQueue' \in Seq(Nat) /\ Len(vidQueue') = Len(vidQueue) + 1
          /\ VidOf(vidQueue') = VidOf(vidQueue) \cup {vidReader.frame} /\ vidReader.frame # 0
      BY <2>1, <2>3, <1>1, <1>0
    <3>2. vidReader'.pc = "grab" /\ vidReader'.frame = vidReader.frame /\ vidReader'.frame = VidCounted'
      BY <2>1, <2>3, <3>1, <1>0
    <3>. QED  BY <2>1, <2>3, <3>1, <3>2
  <2>. QED  BY <1>6, <2>2, <2>3 DEF VidOffer
<1>7. CASE VidEvict
  <2>1. vidTaken' = vidTaken /\ vidReader.pc = "evict" /\ vidReader' = [vidReader EXCEPT !.pc = "offer"]
    BY <1>7 DEF VidEvict
  <2>2. CASE vidQueue = <<>>
    BY <1>7, <2>1, <2>2 DEF VidEvict
  <2>3. CASE vidQueue # <<>>
    <3>1. vidQueue' = Tail(vidQueue) /\ vidDropped' = vidDropped + 1
      BY <1>7, <2>3 DEF VidEvict
    <3>2. vidQueue' \in Seq(Nat) /\ Len(vidQueue') = Len(vidQueue) - 1 /\ VidOf(vidQueue') \subseteq VidOf(vidQueue)
      BY <3>1, <2>3, VidShortened
    <3>3. vidReader'.pc = "offer" /\ vidReader'.frame = vidReader.frame /\ VidCounted' = VidCounted
      BY <2>1, <3>1, <3>2, <1>0
    <3>4. vidReader'.frame = VidCounted' + 1
      BY <2>1, <3>3
    <3>5. VidSentinel \notin VidOf(vidQueue')
      BY <2>1, <3>2
    <3>6. vidDropped' \in Nat
      BY <3>1
    <3>7. vidReader' \in [pc : {"open", "grab", "offer", "evict", "end", "dead"}, frame : Nat]
      BY <2>1
    <3>. QED  BY <2>1, <3>2, <3>3, <3>4, <3>5, <3>6, <3>7
  <2>. QED  BY <2>2, <2>3
<1>8. CASE VidEnd
  <2>1. vidReader' = [vidReader EXCEPT !.pc = "dead"] /\ vidTaken' = vidTaken /\ vidDropped' = vidDropped
        /\ vidQueue' \in {vidQueue, Append(vidQueue, 0)}
    BY <1>8 DEF VidEnd
  <2>. QED  BY <2>1, <1>1
<1>. QED  BY <1>4, <1>5, <1>6, <1>7, <1>8

LEMMA VidTakeOffKeeps ==
  ASSUME VidInv, VidTakeOff, UNCHANGED <<vidReader, vidDropped>>
  PROVE  VidInv'
<1> USE DEF VidInv, VidCounted, VidSentinel
<1>1. /\ vidQueue # <<>> /\ vidQueue' = Tail(vidQueue)
      /\ vidTaken' = IF Head(vidQueue) = 0 THEN vidTaken ELSE Append(vidTaken, Head(vidQueue))
  BY DEF VidTakeOff
<1>2. /\ vidQueue' \in Seq(Nat) /\ Len(vidQueue') = Len(vidQueue) - 1 /\ Head(vidQueue) \in Nat
      /\ VidOf(vidQueue) = VidOf(vidQueue') \cup {Head(vidQueue)} /\ Len(vidQueue) \in Nat /\ Len(vidTaken) \in Nat
  BY <1>1, VidShortened
<1>3. CASE Head(vidQueue) = 0
  <2>1. VidOf(vidTaken') = VidOf(vidTaken) /\ vidTaken' = vidTaken
    BY <1>1, <1>3
  <2>2. vidReader.pc \in {"end", "dead"}
    BY <1>2, <1>3
  <2>. QED  BY <2>1, <2>2, <1>2, <1>3
<1>4. CASE Head(vidQueue) # 0
  <2>1. vidTaken' \in Seq(Nat) /\ Len(vidTaken') = Len(vidTaken) + 1 /\ VidOf(vidTaken') = VidOf(vidTaken) \cup {Head(vidQueue)}
    BY <1>1, <1>2, <1>4, VidAppended
  <2>2. VidCounted' = VidCounted
    BY <2>1, <1>2
  <2>. QED  BY <2>1, <2>2, <1>2
<1>. QED  BY <1>3, <1>4

(* Between two reads the newest frame is queued or was taken, and no frame *)
(* goes missing uncounted, whatever the queue's size and the pipeline's    *)
(* pace, and also when a cancelled wait takes one more frame.              *)
THEOREM FramesAreAccounted == VidSpec => [](VidNewestIsKept /\ VidFramesAddUp)
<1>1. VidInit => VidInv
  BY DEF VidInit, VidInv, VidCounted, VidOf, VidSentinel
<1>2. VidInv /\ [VidNext]_vidVars => VidInv'
  <2> SUFFICES ASSUME VidInv, [VidNext]_vidVars PROVE VidInv'
    OBVIOUS
  <2>1. UNCHANGED <<vidQueue, vidReader, vidDropped, vidTaken>> => VidInv'
    BY DEF VidInv, VidCounted
  <2>2. CASE VidOpens \/ VidGrab \/ VidOffer \/ VidEvict \/ VidEnd
    BY <2>2, VidReaderKeeps
  <2>3. CASE VidTake \/ VidOrphanTakes
    BY <2>3, VidTakeOffKeeps DEF VidTake, VidOrphanTakes
  <2>4. CASE VidCheck \/ VidUsed \/ VidBreak
    BY <2>1, <2>4 DEF VidCheck, VidUsed, VidBreak
  <2>. QED  BY <2>1, <2>2, <2>3, <2>4 DEF VidNext, VidProgress, vidVars
<1>3. VidInv => VidNewestIsKept /\ VidFramesAddUp
  BY DEF VidInv, VidOf, VidCounted, VidNewestIsKept, VidFramesAddUp
<1>. QED  BY <1>1, <1>2, <1>3, PTL DEF VidSpec

-----------------------------------------------------------------------------
(* Notifications.  The mark of every note that was drawn outlasts it by a  *)
(* window, since marks are only ever set to a later time; in memory a note *)
(* is drawn in the step that finds no mark.                                *)

NotifNoteRecords ==
  [channel : STRING, key : NotifKeys, at : Nat, attempts : Nat,
   status : {"queued", "sent", "skipped", "failed"}]

NotifTaskRecords ==
  {NotifIdle}
    \cup [pc : {"look", "mark"}, key : NotifKeys, at : 1 .. Len(NotifChannels)]
    \cup [pc : {"send", "pause"}, key : NotifKeys, at : 1 .. Len(NotifChannels), note : Nat]

NotifShapes ==
  /\ notifNow \in Nat
  /\ notifNotes \in Seq(NotifNoteRecords)
  /\ notifTask \in [NotifTasks -> NotifTaskRecords]
  /\ \A t \in NotifTasks : notifTask[t].pc \in {"send", "pause"} => notifTask[t].note \in DOMAIN notifNotes
  /\ \A mark \in DOMAIN notifMarks : notifMarks[mark] \in Nat

NotifMarkOf(note) == <<note.channel, note.key>>

NotifMarksLast ==
  \A i \in DOMAIN notifNotes :
    LET mark == NotifMarkOf(notifNotes[i])
    IN /\ mark \in DOMAIN notifMarks /\ notifMarks[mark] >= notifNotes[i].at + NotifWindow
       /\ notifNotes[i].at <= notifNow

NotifInv ==
  /\ NotifShapes /\ NotifMarksLast /\ NotifOncePerWindow
  /\ notifCache = "memory" => \A t \in NotifTasks : notifTask[t].pc # "mark"

LEMMA NotifNotesAre ==
  ASSUME NotifShapes, NEW i \in DOMAIN notifNotes
  PROVE  notifNotes[i] \in NotifNoteRecords /\ notifNotes[i].at \in Nat
<1>1. notifNotes[i] \in NotifNoteRecords
  BY DEF NotifShapes
<1>. QED  BY <1>1 DEF NotifNoteRecords

\* Marks that only move forward, and notes that keep what they are about.
LEMMA NotifMarksMove ==
  ASSUME NotifMarksLast, NotifShapes, DOMAIN notifNotes' = DOMAIN notifNotes,
         \A i \in DOMAIN notifNotes : /\ notifNotes'[i].channel = notifNotes[i].channel
                                      /\ notifNotes'[i].key = notifNotes[i].key
                                      /\ notifNotes'[i].at = notifNotes[i].at,
         notifCache' = notifCache,
         notifNow' \in Nat, notifNow <= notifNow', DOMAIN notifMarks \subseteq DOMAIN notifMarks',
         \A mark \in DOMAIN notifMarks : notifMarks'[mark] \in Nat /\ notifMarks[mark] <= notifMarks'[mark]
  PROVE  NotifMarksLast' /\ (NotifOncePerWindow => NotifOncePerWindow')
<1>1. \A i \in DOMAIN notifNotes : NotifMarkOf(notifNotes'[i]) = NotifMarkOf(notifNotes[i])
  BY DEF NotifMarkOf
<1>2. ASSUME NEW i \in DOMAIN notifNotes
      PROVE  LET mark == NotifMarkOf(notifNotes'[i])
             IN /\ mark \in DOMAIN notifMarks' /\ notifMarks'[mark] >= notifNotes'[i].at + NotifWindow
                /\ notifNotes'[i].at <= notifNow'
  <2>1. /\ notifNotes[i].at \in Nat /\ notifNotes'[i].at = notifNotes[i].at
        /\ NotifMarkOf(notifNotes'[i]) = NotifMarkOf(notifNotes[i])
    BY <1>1, NotifNotesAre
  <2>2. PICK mark : mark = NotifMarkOf(notifNotes[i])
    OBVIOUS
  <2>3. /\ mark \in DOMAIN notifMarks /\ notifMarks[mark] >= notifNotes[i].at + NotifWindow
        /\ notifNotes[i].at <= notifNow /\ notifMarks[mark] \in Nat /\ notifNow \in Nat
    BY <2>2 DEF NotifMarksLast, NotifShapes
  <2>4. mark \in DOMAIN notifMarks' /\ notifMarks[mark] <= notifMarks'[mark] /\ notifMarks'[mark] \in Nat
    BY <2>3
  <2>. QED  BY <2>1, <2>2, <2>3, <2>4, NotifAssumption
<1>3. NotifMarksLast'
  BY <1>2 DEF NotifMarksLast
<1>4. NotifOncePerWindow => NotifOncePerWindow'
  BY DEF NotifOncePerWindow
<1>. QED  BY <1>3, <1>4

NotifSameIssue(new, note) ==
  new \in NotifNoteRecords /\ new.channel = note.channel /\ new.key = note.key /\ new.at = note.at

NotifNotesSaved(note) ==
  /\ NotifSameIssue([note EXCEPT !.status = "sent"], note)
  /\ NotifSameIssue([note EXCEPT !.status = "skipped"], note)
  /\ NotifSameIssue([note EXCEPT !.attempts = note.attempts + 1, !.status = "sent"], note)
  /\ NotifSameIssue([note EXCEPT !.attempts = note.attempts + 1], note)
  /\ NotifSameIssue([note EXCEPT !.attempts = note.attempts + 1, !.status = "failed"], note)

\* Whatever becomes of a note, it is about the same issue.
LEMMA NotifSavedIsSame ==
  ASSUME NEW note \in NotifNoteRecords PROVE NotifNotesSaved(note)
<1>1. NotifSameIssue([note EXCEPT !.status = "sent"], note)
  BY DEF NotifSameIssue, NotifNoteRecords
<1>2. NotifSameIssue([note EXCEPT !.status = "skipped"], note)
  BY DEF NotifSameIssue, NotifNoteRecords
<1>3. NotifSameIssue([note EXCEPT !.attempts = note.attempts + 1, !.status = "sent"], note)
  <2>1. note.attempts + 1 \in Nat /\ note = [channel |-> note.channel, key |-> note.key, at |-> note.at,
          attempts |-> note.attempts, status |-> note.status]
    BY DEF NotifNoteRecords
  <2>2. PICK k \in Nat : k = note.attempts + 1
    BY <2>1
  <2>3. NotifSameIssue([note EXCEPT !.attempts = k, !.status = "sent"], note)
    BY <2>1 DEF NotifSameIssue, NotifNoteRecords
  <2>. QED  BY <2>2, <2>3
<1>4. NotifSameIssue([note EXCEPT !.attempts = note.attempts + 1], note)
  BY DEF NotifSameIssue, NotifNoteRecords
<1>5. NotifSameIssue([note EXCEPT !.attempts = note.attempts + 1, !.status = "failed"], note)
  <2>1. note.attempts + 1 \in Nat /\ note = [channel |-> note.channel, key |-> note.key, at |-> note.at,
          attempts |-> note.attempts, status |-> note.status]
    BY DEF NotifNoteRecords
  <2>2. PICK k \in Nat : k = note.attempts + 1
    BY <2>1
  <2>3. NotifSameIssue([note EXCEPT !.attempts = k, !.status = "failed"], note)
    BY <2>1 DEF NotifSameIssue, NotifNoteRecords
  <2>. QED  BY <2>2, <2>3
<1>. QED  BY <1>1, <1>2, <1>3, <1>4, <1>5 DEF NotifNotesSaved

\* Where a call goes next keeps its shape.
LEMMA NotifGoesOn ==
  ASSUME NotifShapes, NEW t \in NotifTasks, notifTask[t].pc # "idle", NotifNext1(t)
  PROVE  /\ notifTask' \in [NotifTasks -> NotifTaskRecords]
         /\ notifTask'[t].pc \in {"idle", "look"}
         /\ \A u \in NotifTasks : u # t => notifTask'[u] = notifTask[u]
<1>1. notifTask[t] \in NotifTaskRecords /\ Len(NotifChannels) \in Nat
  BY NotifAssumption DEF NotifShapes
<1>2. notifTask[t].at \in 1 .. Len(NotifChannels) /\ notifTask[t].key \in NotifKeys
  BY <1>1 DEF NotifTaskRecords, NotifIdle
<1>3. notifTask' = [notifTask EXCEPT ![t] = notifTask'[t]] /\ notifTask'[t] \in NotifTaskRecords
      /\ notifTask'[t].pc \in {"idle", "look"}
  BY <1>1, <1>2 DEF NotifShapes, NotifNext1, NotifTaskRecords, NotifIdle
<1>. QED  BY <1>3 DEF NotifShapes

LEMMA NotifMergeKeeps ==
  ASSUME NotifInv, NEW t \in NotifTasks, NotifMerge(t)
  PROVE  NotifInv'
<1>1. /\ notifTask' \in [NotifTasks -> NotifTaskRecords] /\ notifTask'[t].pc \in {"idle", "look"}
      /\ \A u \in NotifTasks : u # t => notifTask'[u] = notifTask[u]
  BY NotifGoesOn DEF NotifMerge, NotifInv
<1>2. /\ NotifMark(t) \in DOMAIN notifMarks /\ notifMarks[NotifMark(t)] >= notifNow
      /\ notifMarks' = [notifMarks EXCEPT ![NotifMark(t)] = notifNow + NotifWindow]
      /\ notifNotes' = notifNotes /\ notifNow' = notifNow /\ notifCache' = notifCache
  BY DEF NotifMerge, NotifMarked, NotifMergeTtl
<1>3. NotifShapes'
  BY <1>1, <1>2, NotifAssumption DEF NotifInv, NotifShapes
<1>4. NotifMarksLast'
  <2>1. ASSUME NEW mark \in DOMAIN notifMarks
        PROVE  notifMarks'[mark] \in Nat /\ (notifMarks[mark] <= notifMarks'[mark] \/ mark = NotifMark(t))
    BY <1>2, <2>1, NotifAssumption DEF NotifInv, NotifShapes
  <2>2. ASSUME NEW i \in DOMAIN notifNotes
        PROVE  LET mark == NotifMarkOf(notifNotes[i])
               IN mark \in DOMAIN notifMarks' /\ notifMarks'[mark] >= notifNotes[i].at + NotifWindow
    <3>1. PICK mark : mark = NotifMarkOf(notifNotes[i])
      OBVIOUS
    <3>2. /\ mark \in DOMAIN notifMarks /\ notifMarks[mark] >= notifNotes[i].at + NotifWindow
          /\ notifNotes[i].at <= notifNow /\ notifMarks[mark] \in Nat /\ notifNow \in Nat
          /\ notifNotes[i].at \in Nat
      BY <3>1, NotifNotesAre DEF NotifInv, NotifMarksLast, NotifShapes
    <3>. QED  BY <3>1, <3>2, <2>1, <1>2, NotifAssumption
  <2>. QED  BY <2>2, <1>2 DEF NotifInv, NotifMarksLast
<1>5. NotifOncePerWindow'
  BY <1>2 DEF NotifInv, NotifOncePerWindow
<1>. QED  BY <1>1, <1>2, <1>3, <1>4, <1>5 DEF NotifInv

LEMMA NotifDrawKeeps ==
  ASSUME NotifInv, NEW t \in NotifTasks, NotifDraw(t), notifTask[t].pc \in {"look", "mark"},
         notifCache = "memory" => ~ NotifMarked(NotifMark(t))
  PROVE  NotifInv'
<1> DEFINE note == NotifNote(t)
<1>1. /\ notifTask[t].at \in 1 .. Len(NotifChannels) /\ notifTask[t].key \in NotifKeys
      /\ notifNow \in Nat /\ NotifWindow \in Nat
  BY NotifAssumption DEF NotifInv, NotifShapes, NotifTaskRecords, NotifIdle
<1>2. note \in NotifNoteRecords /\ note.at = notifNow /\ NotifMarkOf(note) = NotifMark(t)
  <2>1. NotifChannels[notifTask[t].at] \in STRING
    BY <1>1, NotifAssumption
  <2>2. note = [channel |-> NotifChannels[notifTask[t].at], key |-> notifTask[t].key, at |-> notifNow,
                attempts |-> 0, status |-> "queued"]
    BY DEF NotifNote
  <2>3. note \in NotifNoteRecords /\ note.at = notifNow
    BY <2>1, <2>2, <1>1 DEF NotifNoteRecords
  <2>. QED  BY <2>3 DEF NotifMarkOf, NotifMark, NotifNote
<1>3. /\ notifNotes' = Append(notifNotes, note)
      /\ notifNow' = notifNow /\ notifCache' = notifCache
      /\ DOMAIN notifMarks' = DOMAIN notifMarks \cup {NotifMark(t)}
      /\ notifMarks'[NotifMark(t)] = notifNow + NotifWindow
      /\ \A mark \in DOMAIN notifMarks : mark # NotifMark(t) => notifMarks'[mark] = notifMarks[mark]
  BY DEF NotifDraw, Changed
<1> HIDE DEF note
<1>4. /\ notifNotes' \in Seq(NotifNoteRecords) /\ DOMAIN notifNotes' = 1 .. Len(notifNotes) + 1
      /\ DOMAIN notifNotes = 1 .. Len(notifNotes) /\ Len(notifNotes) \in Nat
      /\ notifNotes'[Len(notifNotes) + 1] = note
      /\ \A i \in 1 .. Len(notifNotes) : notifNotes'[i] = notifNotes[i]
  BY <1>2, <1>3 DEF NotifInv, NotifShapes
<1>5. /\ notifTask' \in [NotifTasks -> NotifTaskRecords]
      /\ notifTask'[t].pc = "send" /\ notifTask'[t].note = Len(notifNotes) + 1
      /\ \A u \in NotifTasks : u # t => notifTask'[u] = notifTask[u]
  <2>1. notifTask' = [notifTask EXCEPT ![t] = [pc |-> "send", key |-> notifTask[t].key,
                        at |-> notifTask[t].at, note |-> Len(notifNotes) + 1]]
    BY DEF NotifDraw, NotifInv, NotifShapes
  <2>. QED  BY <2>1, <1>1, <1>4 DEF NotifInv, NotifShapes, NotifTaskRecords
<1>6. NotifShapes'
  <2>1. \A u \in NotifTasks : notifTask'[u].pc \in {"send", "pause"} => notifTask'[u].note \in DOMAIN notifNotes'
    BY <1>4, <1>5 DEF NotifInv, NotifShapes
  <2>2. \A mark \in DOMAIN notifMarks' : notifMarks'[mark] \in Nat
    BY <1>1, <1>3 DEF NotifInv, NotifShapes
  <2>. QED  BY <1>1, <1>3, <1>4, <1>5, <2>1, <2>2 DEF NotifShapes
<1>7. \A i \in 1 .. Len(notifNotes) : /\ NotifMarkOf(notifNotes[i]) \in DOMAIN notifMarks
        /\ notifMarks[NotifMarkOf(notifNotes[i])] >= notifNotes[i].at + NotifWindow
        /\ notifNotes[i].at <= notifNow /\ notifNotes[i].at \in Nat
        /\ notifMarks[NotifMarkOf(notifNotes[i])] \in Nat
  BY <1>4, NotifNotesAre DEF NotifInv, NotifMarksLast, NotifShapes
<1>8. NotifMarksLast'
  <2> SUFFICES ASSUME NEW i \in 1 .. Len(notifNotes) + 1
               PROVE  /\ NotifMarkOf(notifNotes'[i]) \in DOMAIN notifMarks'
                      /\ notifMarks'[NotifMarkOf(notifNotes'[i])] >= notifNotes'[i].at + NotifWindow
                      /\ notifNotes'[i].at <= notifNow'
    BY <1>4 DEF NotifMarksLast
  <2>1. CASE i = Len(notifNotes) + 1
    BY <2>1, <1>1, <1>2, <1>3, <1>4
  <2>2. CASE i \in 1 .. Len(notifNotes)
    <3>1. CASE NotifMarkOf(notifNotes[i]) = NotifMark(t)
      BY <2>2, <3>1, <1>1, <1>3, <1>4, <1>7
    <3>2. CASE NotifMarkOf(notifNotes[i]) # NotifMark(t)
      BY <2>2, <3>2, <1>3, <1>4, <1>7
    <3>. QED  BY <3>1, <3>2
  <2>. QED  BY <2>1, <2>2, <1>4
<1>9. NotifOncePerWindow'
  <2> SUFFICES ASSUME notifCache = "memory", NEW i \in 1 .. Len(notifNotes) + 1,
                      NEW j \in 1 .. Len(notifNotes) + 1, i < j,
                      notifNotes'[i].channel = notifNotes'[j].channel, notifNotes'[i].key = notifNotes'[j].key
               PROVE  notifNotes'[j].at - notifNotes'[i].at > NotifWindow
    BY <1>3, <1>4 DEF NotifOncePerWindow
  <2>1. CASE j \in 1 .. Len(notifNotes)
    <3>1. i \in 1 .. Len(notifNotes)
      BY <2>1
    <3>. QED  BY <2>1, <3>1, <1>4 DEF NotifInv, NotifOncePerWindow
  <2>2. CASE j = Len(notifNotes) + 1
    <3>1. i \in 1 .. Len(notifNotes) /\ notifNotes'[i] = notifNotes[i] /\ notifNotes'[j] = note
      BY <2>2, <1>4
    <3>2. NotifMarkOf(notifNotes[i]) = NotifMark(t)
      BY <3>1, <1>2 DEF NotifMarkOf
    <3>3. notifMarks[NotifMarkOf(notifNotes[i])] < notifNow
      BY <3>1, <3>2, <1>1, <1>7 DEF NotifMarked
    <3>4. notifNow - notifNotes[i].at > NotifWindow
      BY <3>1, <3>3, <1>1, <1>7
    <3>. QED  BY <3>1, <3>4, <1>2
  <2>. QED  BY <2>1, <2>2, <1>4
<1>10. notifCache' = "memory" => \A u \in NotifTasks : notifTask'[u].pc # "mark"
  BY <1>3, <1>5 DEF NotifInv
<1>. QED  BY <1>6, <1>8, <1>9, <1>10 DEF NotifInv

LEMMA NotifSaveKeeps ==
  ASSUME NotifInv, NEW t \in NotifTasks, NotifDeliverHere(t) \/ NotifSent(t) \/ NotifUnsent(t)
  PROVE  NotifInv'
<1> DEFINE n == notifTask[t].note
           note == notifNotes[n]
<1>1. /\ notifTask[t].pc = "send" /\ n \in DOMAIN notifNotes /\ note \in NotifNoteRecords
      /\ notifTask[t] \in [pc : {"send"}, key : NotifKeys, at : 1 .. Len(NotifChannels), note : Nat]
  BY DEF NotifInv, NotifShapes, NotifDeliverHere, NotifSent, NotifUnsent, NotifTaskRecords, NotifIdle
<1>2. notifCache' = notifCache /\ notifMarks' = notifMarks /\ notifNow' = notifNow
  BY DEF NotifDeliverHere, NotifSent, NotifUnsent
<1>3. PICK new : /\ notifNotes' = [notifNotes EXCEPT ![n] = new] /\ new \in NotifNoteRecords
                 /\ new.channel = note.channel /\ new.key = note.key /\ new.at = note.at
  <2>1. PICK old : old = note
    OBVIOUS
  <2>2. NotifNotesSaved(old)
    BY <1>1, <2>1, NotifSavedIsSame
  <2>3. \E new : notifNotes' = [notifNotes EXCEPT ![n] = new] /\ NotifSameIssue(new, old)
    <3>1. CASE NotifDeliverHere(t)
      BY <3>1, <2>1, <2>2 DEF NotifDeliverHere, NotifSaved, NotifNotesSaved
    <3>2. CASE NotifSent(t)
      BY <3>2, <2>1, <2>2 DEF NotifSent, NotifSaved, NotifNotesSaved
    <3>3. CASE NotifUnsent(t)
      BY <3>3, <2>1, <2>2 DEF NotifUnsent, NotifSaved, NotifNotesSaved
    <3>. QED  BY <3>1, <3>2, <3>3
  <2>. QED  BY <2>1, <2>3 DEF NotifSameIssue
<1>4. /\ notifTask' \in [NotifTasks -> NotifTaskRecords] /\ notifTask'[t].pc \in {"idle", "look", "pause"}
      /\ \A u \in NotifTasks : u # t => notifTask'[u] = notifTask[u]
      /\ notifTask'[t].pc = "pause" => notifTask'[t].note = n
  <2>1. CASE NotifNext1(t)
    BY <2>1, <1>1, NotifGoesOn DEF NotifInv
  <2>2. CASE notifTask' = [notifTask EXCEPT ![t].pc = "pause"]
    BY <2>2, <1>1 DEF NotifInv, NotifShapes, NotifTaskRecords
  <2>. QED  BY <2>1, <2>2 DEF NotifDeliverHere, NotifSent, NotifUnsent, NotifGivesUp
<1>5. /\ notifNotes' \in Seq(NotifNoteRecords) /\ DOMAIN notifNotes' = DOMAIN notifNotes
      /\ \A i \in DOMAIN notifNotes : /\ notifNotes'[i].channel = notifNotes[i].channel
                                      /\ notifNotes'[i].key = notifNotes[i].key
                                      /\ notifNotes'[i].at = notifNotes[i].at
  BY <1>1, <1>3 DEF NotifInv, NotifShapes
<1> HIDE DEF n, note
<1>6. NotifShapes'
  BY <1>1, <1>2, <1>4, <1>5 DEF NotifInv, NotifShapes
<1>7. NotifMarksLast' /\ NotifOncePerWindow'
  BY <1>2, <1>5, NotifMarksMove DEF NotifInv, NotifShapes
<1>. QED  BY <1>2, <1>4, <1>6, <1>7 DEF NotifInv

LEMMA NotifNextKeeps == NotifInv /\ [NotifNext]_notifVars => NotifInv'
<1> SUFFICES ASSUME NotifInv, [NotifNext]_notifVars PROVE NotifInv'
  OBVIOUS
<1>1. ASSUME NEW t \in NotifTasks, NEW k \in NotifKeys, NotifCall(t, k)  PROVE NotifInv'
  <2>1. notifTask' = [notifTask EXCEPT ![t] = [pc |-> "look", key |-> k, at |-> 1]]
        /\ UNCHANGED <<notifCache, notifMarks, notifNotes, notifNow>> /\ 1 \in 1 .. Len(NotifChannels)
    BY <1>1, NotifAssumption DEF NotifCall
  <2>2. NotifShapes'
    BY <2>1 DEF NotifInv, NotifShapes, NotifTaskRecords
  <2>3. NotifMarksLast' /\ NotifOncePerWindow'
    BY <2>1, NotifMarksMove DEF NotifInv, NotifShapes
  <2>. QED  BY <2>1, <2>2, <2>3 DEF NotifInv, NotifShapes
<1>2. ASSUME NEW t \in NotifTasks, NotifFresh(t)  PROVE NotifInv'
  <2>1. CASE NotifDraw(t)
    BY <2>1, <1>2, NotifDrawKeeps DEF NotifFresh
  <2>2. CASE notifCache # "memory" /\ notifTask' = [notifTask EXCEPT ![t].pc = "mark"]
             /\ UNCHANGED <<notifCache, notifMarks, notifNotes, notifNow>>
    <3>1. notifTask[t] \in [pc : {"look"}, key : NotifKeys, at : 1 .. Len(NotifChannels)]
      BY <1>2 DEF NotifFresh, NotifInv, NotifShapes, NotifTaskRecords, NotifIdle
    <3>2. NotifShapes'
      BY <2>2, <3>1 DEF NotifInv, NotifShapes, NotifTaskRecords
    <3>3. NotifMarksLast' /\ NotifOncePerWindow'
      BY <2>2, NotifMarksMove DEF NotifInv, NotifShapes
    <3>. QED  BY <2>2, <3>2, <3>3 DEF NotifInv
  <2>. QED  BY <1>2, <2>1, <2>2 DEF NotifFresh
<1>3. ASSUME NEW t \in NotifTasks, NotifSetMark(t)  PROVE NotifInv'
  BY <1>3, NotifDrawKeeps DEF NotifSetMark, NotifInv
<1>4. ASSUME NEW t \in NotifTasks, NotifRetry(t)  PROVE NotifInv'
  <2>1. notifTask[t] \in [pc : {"pause"}, key : NotifKeys, at : 1 .. Len(NotifChannels), note : Nat]
    BY <1>4 DEF NotifRetry, NotifInv, NotifShapes, NotifTaskRecords, NotifIdle
  <2>2. NotifShapes'
    BY <1>4, <2>1 DEF NotifRetry, NotifInv, NotifShapes, NotifTaskRecords
  <2>3. NotifMarksLast' /\ NotifOncePerWindow'
    BY <1>4, NotifMarksMove DEF NotifRetry, NotifInv, NotifShapes
  <2>. QED  BY <1>4, <2>1, <2>2, <2>3 DEF NotifRetry, NotifInv, NotifShapes
<1>5. CASE NotifTick
  <2>1. notifNow' = notifNow + 1 /\ UNCHANGED <<notifCache, notifMarks, notifTask, notifNotes>>
    BY <1>5 DEF NotifTick
  <2>2. NotifMarksLast' /\ NotifOncePerWindow'
    BY <2>1, NotifMarksMove DEF NotifInv, NotifShapes
  <2>. QED  BY <2>1, <2>2 DEF NotifInv, NotifShapes
<1>6. CASE UNCHANGED notifVars
  BY <1>6 DEF notifVars, NotifInv, NotifShapes, NotifMarksLast, NotifOncePerWindow
<1>7. ASSUME NEW t \in NotifTasks, NotifBreaks(t)  PROVE NotifInv'
  <2>1. NotifShapes' /\ (notifCache = "memory" => \A u \in NotifTasks : notifTask'[u].pc # "mark")
    BY <1>7 DEF NotifBreaks, NotifInv, NotifShapes, NotifTaskRecords, NotifIdle
  <2>2. NotifMarksLast' /\ NotifOncePerWindow'
    BY <1>7, NotifMarksMove DEF NotifBreaks, NotifInv, NotifShapes
  <2>. QED  BY <1>7, <2>1, <2>2 DEF NotifBreaks, NotifInv
<1>. QED  BY <1>1, <1>2, <1>3, <1>4, <1>5, <1>6, <1>7, NotifMergeKeeps, NotifSaveKeeps DEF NotifNext, NotifWork

LEMMA NotifRepeats ==
  ASSUME NotifInv, [NotifNext]_notifVars, NEW t \in NotifTasks, NEW mark \in DOMAIN notifMarks,
         notifTask[t].pc = "look", NotifMark(t) = mark, notifTask'[t] # notifTask[t],
         notifTask'[t].pc # "mark"
  PROVE  notifMarks'[mark] = notifNow + NotifWindow
<1>1. \A u \in NotifTasks, k \in NotifKeys : u # t \/ ~ NotifCall(u, k)
  BY DEF NotifCall
<1>2. ASSUME NEW u \in NotifTasks,
             NotifWork(u) \/ NotifBreaks(u) \/ \E k \in NotifKeys : NotifCall(u, k)
      PROVE  \A v \in NotifTasks : v # u => notifTask'[v] = notifTask[v]
  BY <1>2 DEF NotifWork, NotifCall, NotifMerge, NotifFresh, NotifSetMark, NotifDraw, NotifDeliverHere,
       NotifSent, NotifUnsent, NotifRetry, NotifGivesUp, NotifBreaks, NotifNext1, NotifInv, NotifShapes
<1>3. NotifWork(t)
  BY <1>1, <1>2 DEF NotifNext, notifVars, NotifTick, NotifBreaks
<1>4. NotifMerge(t) \/ (NotifFresh(t) /\ NotifDraw(t))
  <2>1. NotifMerge(t) \/ NotifFresh(t)
    BY <1>3 DEF NotifWork, NotifSetMark, NotifDeliverHere, NotifSent, NotifUnsent, NotifRetry
  <2>2. ASSUME notifTask' = [notifTask EXCEPT ![t].pc = "mark"]
        PROVE  notifTask'[t].pc = "mark"
    <3>1. notifTask[t] \in [pc : {"look"}, key : NotifKeys, at : 1 .. Len(NotifChannels)]
      BY DEF NotifInv, NotifShapes, NotifTaskRecords, NotifIdle
    <3>. QED  BY <3>1, <2>2 DEF NotifInv, NotifShapes
  <2>. QED  BY <2>1, <2>2 DEF NotifFresh
<1>. QED  BY <1>4 DEF NotifMerge, NotifMergeTtl, NotifDraw, Changed

(* Nobody is told of an issue twice within the window while marks are kept *)
(* in memory, and on either cache every repetition merged extends it: for  *)
(* any window, channels, senders, callers and outcomes of their attempts.  *)
THEOREM ToldOncePerWindow == NotifSpec => []NotifOncePerWindow /\ NotifQuietWhileRepeated
<1>1. NotifInit => NotifInv
  BY DEF NotifInit, NotifInv, NotifShapes, NotifMarksLast, NotifOncePerWindow, NotifTaskRecords, NotifIdle
<1>2. NotifInv /\ [NotifNext]_notifVars => [\A t \in NotifTasks : \A mark \in DOMAIN notifMarks :
       (notifTask[t].pc = "look" /\ NotifMark(t) = mark /\ notifTask'[t] # notifTask[t]
          /\ notifTask'[t].pc # "mark") => notifMarks'[mark] = notifNow + NotifWindow]_notifVars
  BY NotifRepeats
<1>3. NotifInv => NotifOncePerWindow
  BY DEF NotifInv
<1>. QED  BY <1>1, <1>2, <1>3, NotifNextKeeps, PTL DEF NotifSpec, NotifQuietWhileRepeated

-----------------------------------------------------------------------------
(* The broadcast hub.  What is on its way to a client, or was heard by it, *)
(* was wanted by one and the same record: the one it connected with, which *)
(* it may have taken along when it left.                                   *)

BcMessages ==
  [topic : {"dashboard", "primary", "advisory"}, alert : BcAlerts, audience : {"dashboard", "device"},
   zone : BcZones \cup {None}, worker : BcWorkers \cup {None}, exclude : BcWorkers \cup {None}]

\* one of the messages that are published of an alert of this worker and zone
BcOneOf(m, a, worker, zone) ==
  \/ m = [topic |-> "dashboard", alert |-> a, audience |-> "dashboard", zone |-> zone,
          worker |-> None, exclude |-> None]
  \/ worker # None /\ m = [topic |-> "primary", alert |-> a, audience |-> "device",
                           zone |-> None, worker |-> worker, exclude |-> None]
  \/ zone # None /\ m = [topic |-> "advisory", alert |-> a, audience |-> "device",
                         zone |-> zone, worker |-> None, exclude |-> worker]

BcIsOf(m, raised) ==
  m.alert \in DOMAIN raised /\ BcOneOf(m, m.alert, raised[m.alert].worker, raised[m.alert].zone)

\* a message a client heard, or that is on its way there
BcGets(c, m) == m \in bcHeard[c] \/ <<c, m>> \in bcSends

BcSuits(c, client) ==
  /\ c \in DOMAIN bcClients => bcClients[c] = client
  /\ \A m : BcGets(c, m) => BcWants(client, m)

BcInv ==
  /\ bcQueue \in Seq(BcMessages) /\ Len(bcQueue) <= BcQueueMax
  /\ \E n \in Nat : DOMAIN bcRaised = 1 .. n
  /\ bcDrawn \in Nat /\ DOMAIN bcHeard = BcClients /\ DOMAIN bcClients \subseteq BcClients
  /\ \A c \in BcClients : bcDrawn < c => c \notin DOMAIN bcClients /\ \A m : ~ BcGets(c, m)
  /\ \A i \in DOMAIN bcQueue : BcIsOf(bcQueue[i], bcRaised)
  /\ \A c \in BcClients : \A m : BcGets(c, m) => BcIsOf(m, bcRaised)
  /\ \A c \in BcClients : \E client : BcSuits(c, client)

\* One client wants one message of an alert at most.
LEMMA BcOneTopic ==
  ASSUME NEW client, NEW raised, NEW m, NEW n, BcIsOf(m, raised), BcIsOf(n, raised),
         m.alert = n.alert, BcWants(client, m), BcWants(client, n)
  PROVE  m.topic = n.topic
BY DEF BcIsOf, BcOneOf, BcWants

LEMMA BcInvMeans == BcInv => BcOneVoice /\ BcZoneScoped
<1> SUFFICES ASSUME BcInv PROVE BcOneVoice /\ BcZoneScoped
  OBVIOUS
<1>1. ASSUME NEW c \in BcClients, NEW a  PROVE Cardinality(BcTopics(c, a)) <= 1
  <2>1. PICK client : BcSuits(c, client)
    BY DEF BcInv
  <2>2. ASSUME NEW x \in BcTopics(c, a), NEW y \in BcTopics(c, a)  PROVE x = y
    <3>1. PICK m : m \in bcHeard[c] /\ m.alert = a /\ m.topic = x
      BY <2>2 DEF BcTopics
    <3>2. PICK n : n \in bcHeard[c] /\ n.alert = a /\ n.topic = y
      BY <2>2 DEF BcTopics
    <3>3. BcIsOf(m, bcRaised) /\ BcIsOf(n, bcRaised)
      BY <3>1, <3>2 DEF BcInv, BcGets
    <3>4. BcWants(client, m) /\ BcWants(client, n)
      BY <2>1, <3>1, <3>2 DEF BcSuits, BcGets
    <3>. QED  BY <3>1, <3>2, <3>3, <3>4, BcOneTopic
  <2>3. CASE BcTopics(c, a) = {}
    BY <2>3, FS_EmptySet
  <2>4. CASE \E x : BcTopics(c, a) = {x}
    <3>1. PICK x : BcTopics(c, a) = {x}
      BY <2>4
    <3>2. Cardinality({x}) = 1
      BY FS_Singleton
    <3>. QED  BY <3>1, <3>2
  <2>. QED  BY <2>2, <2>3, <2>4
<1>2. ASSUME NEW c \in DOMAIN bcClients, NEW m \in bcHeard[c]
      PROVE  BcWants(bcClients[c], m) /\ BcIsOf(m, bcRaised)
  <2>1. c \in BcClients
    BY DEF BcInv
  <2>2. PICK client : BcSuits(c, client)
    BY <2>1 DEF BcInv
  <2>. QED  BY <2>1, <2>2 DEF BcSuits, BcGets, BcInv
<1>3. BcZoneScoped
  BY <1>2 DEF BcZoneScoped, BcIsOf, BcOneOf, BcWants
<1>4. ASSUME NEW c \in BcClients, NEW m \in bcHeard[c], m.topic = "advisory", c \in DOMAIN bcClients,
             bcRaised[m.alert].worker # None
      PROVE  bcClients[c].worker # bcRaised[m.alert].worker
  BY <1>2, <1>4 DEF BcIsOf, BcOneOf, BcWants
<1>. QED  BY <1>1, <1>3, <1>4 DEF BcOneVoice

\* What is published of an alert.
LEMMA BcPublishedAre ==
  ASSUME NEW a \in BcAlerts, NEW worker \in BcWorkers \cup {None}, NEW zone \in BcZones \cup {None}
  PROVE  /\ BcPublished(a, worker, zone) \in Seq(BcMessages)
         /\ \A i \in DOMAIN BcPublished(a, worker, zone) : BcOneOf(BcPublished(a, worker, zone)[i], a, worker, zone)
<1> DEFINE One(m) == m \in BcMessages /\ m.alert = a /\ BcOneOf(m, a, worker, zone)
           Good(s) == s \in Seq(BcMessages) /\ \A i \in DOMAIN s : One(s[i])
           first == [topic |-> "dashboard", alert |-> a, audience |-> "dashboard", zone |-> zone,
                     worker |-> None, exclude |-> None]
           primary == [topic |-> "primary", alert |-> a, audience |-> "device", zone |-> None,
                       worker |-> worker, exclude |-> None]
           advisory == [topic |-> "advisory", alert |-> a, audience |-> "device", zone |-> zone,
                        worker |-> None, exclude |-> worker]
<1>1. One(first) /\ (worker # None => One(primary)) /\ (zone # None => One(advisory))
  BY DEF BcMessages, BcOneOf
<1>2. BcPublished(a, worker, zone) = <<first>> \o (IF worker = None THEN <<>> ELSE <<primary>>)
                                       \o (IF zone = None THEN <<>> ELSE <<advisory>>)
  BY DEF BcPublished
<1> HIDE DEF first, primary, advisory
<1>3. ASSUME NEW m, One(m)  PROVE Good(<<m>>)
  BY <1>3
<1>4. ASSUME NEW s, NEW t, Good(s), Good(t)  PROVE Good(s \o t)
  <2> HIDE DEF One
  <2>1. /\ s \o t \in Seq(BcMessages) /\ DOMAIN (s \o t) = 1 .. Len(s) + Len(t)
        /\ Len(s) \in Nat /\ Len(t) \in Nat /\ DOMAIN s = 1 .. Len(s) /\ DOMAIN t = 1 .. Len(t)
        /\ \A i \in 1 .. Len(s) + Len(t) : (s \o t)[i] = IF i <= Len(s) THEN s[i] ELSE t[i - Len(s)]
    BY <1>4
  <2>2. \A i \in 1 .. Len(s) + Len(t) : i \in 1 .. Len(s) \/ (i > Len(s) /\ i - Len(s) \in 1 .. Len(t))
    BY <2>1
  <2>. QED  BY <1>4, <2>1, <2>2
<1>5. Good(<<>>)
  OBVIOUS
<1> HIDE DEF Good, One
<1>6. /\ Good(<<first>>)
      /\ Good(IF worker = None THEN <<>> ELSE <<primary>>)
      /\ Good(IF zone = None THEN <<>> ELSE <<advisory>>)
  BY <1>1, <1>3, <1>5
<1>. QED  BY <1>2, <1>4, <1>6 DEF Good, One

\* Whoever leaves, fails or hears only moves what is on its way.
LEMMA BcQuietStep ==
  ASSUME BcInv, bcQueue' = bcQueue, bcRaised' = bcRaised, bcDrawn' = bcDrawn, DOMAIN bcHeard' = DOMAIN bcHeard,
         \A c \in BcClients : \A m : BcGets(c, m)' => BcGets(c, m),
         DOMAIN bcClients' \subseteq DOMAIN bcClients, \A c \in DOMAIN bcClients' : bcClients'[c] = bcClients[c]
  PROVE  BcInv'
<1>1. \A c \in BcClients : \A client : BcSuits(c, client) => BcSuits(c, client)'
  BY DEF BcSuits
<1>2. \A c \in BcClients : \E client : BcSuits(c, client)'
  BY <1>1 DEF BcInv
<1>. QED  BY <1>2 DEF BcInv

LEMMA BcLeaveKeeps ==
  ASSUME BcInv, \/ \E c \in BcClients : BcVanish(c) \/ BcDisconnect(c)
                \/ \E c, m : BcSend(c, m) \/ BcSendFails(c, m)
  PROVE  BcInv'
<1>1. CASE \E c \in BcClients : BcVanish(c)
  BY <1>1, BcQuietStep DEF BcVanish, BcGets
<1>2. CASE \E c \in BcClients : BcDisconnect(c)
  BY <1>2, BcQuietStep DEF BcDisconnect, BcGets
<1>3. ASSUME NEW c, NEW m, BcSendFails(c, m)  PROVE BcInv'
  <2>1. bcSends' \subseteq bcSends /\ bcHeard' = bcHeard
    BY <1>3 DEF BcSendFails
  <2>2. \A d \in BcClients : \A n : BcGets(d, n)' => BcGets(d, n)
    BY <2>1 DEF BcGets
  <2>. QED  BY <1>3, <2>1, <2>2, BcQuietStep DEF BcSendFails
<1>4. ASSUME NEW c, NEW m, BcSend(c, m)  PROVE BcInv'
  <2>1. /\ bcSends' \subseteq bcSends /\ <<c, m>> \in bcSends /\ DOMAIN bcHeard = BcClients
        /\ bcHeard' = [bcHeard EXCEPT ![c] = bcHeard[c] \cup {m}]
    BY <1>4 DEF BcSend, BcInv
  <2>2. \A d \in BcClients : \A n : BcGets(d, n)' => BcGets(d, n)
    BY <2>1 DEF BcGets
  <2>. QED  BY <1>4, <2>1, <2>2, BcQuietStep DEF BcSend
<1>. QED  BY <1>1, <1>2, <1>3, <1>4

LEMMA BcConnectKeeps ==
  ASSUME BcInv, NEW worker \in BcWorkers \cup {None}, NEW zone \in BcZones \cup {None}, BcConnect(worker, zone)
  PROVE  BcInv'
<1>0. PICK c : c = bcDrawn + 1
  OBVIOUS
<1>1. PICK client : /\ DOMAIN bcClients' = DOMAIN bcClients \cup {c} /\ bcClients'[c] = client
                    /\ \A d \in DOMAIN bcClients : d # c => bcClients'[d] = bcClients[d]
  BY <1>0 DEF BcConnect, Changed
<1>2. /\ c \in BcClients /\ bcDrawn' = c /\ c \in Nat /\ bcDrawn < c /\ bcDrawn \in Nat
      /\ UNCHANGED <<bcQueue, bcSends, bcRaised, bcHeard>>
  BY <1>0, BcAssumption DEF BcConnect, BcInv
<1>3. \A d, m : BcGets(d, m)' = BcGets(d, m)
  BY <1>2 DEF BcGets
<1>4. BcSuits(c, client)'
  <2>1. \A m : ~ BcGets(c, m)
    BY <1>2 DEF BcInv
  <2>. QED  BY <2>1, <1>1, <1>3 DEF BcSuits
<1>5. ASSUME NEW d \in BcClients, d # c  PROVE \E k : BcSuits(d, k)'
  <2>1. PICK k : BcSuits(d, k)
    BY DEF BcInv
  <2>2. BcSuits(d, k)'
    BY <2>1, <1>1, <1>3, <1>5 DEF BcSuits
  <2>. QED  BY <2>2
<1>6. \A d \in BcClients : bcDrawn' < d => d \notin DOMAIN bcClients' /\ \A m : ~ BcGets(d, m)'
  <2>1. ASSUME NEW d \in BcClients, bcDrawn' < d  PROVE bcDrawn < d /\ d # c
    BY <2>1, <1>2, BcAssumption
  <2>. QED  BY <2>1, <1>1, <1>3 DEF BcInv
<1>7. \A d \in BcClients : \E k : BcSuits(d, k)'
  BY <1>4, <1>5
<1>8. \A d \in BcClients : \A m : BcGets(d, m)' => BcIsOf(m, bcRaised')
  BY <1>2, <1>3 DEF BcInv
<1>9. DOMAIN bcClients' \subseteq BcClients
  BY <1>1, <1>2 DEF BcInv
<1>. QED  BY <1>2, <1>6, <1>7, <1>8, <1>9 DEF BcInv

LEMMA BcDeliverKeeps ==
  ASSUME BcInv, BcDeliver
  PROVE  BcInv'
<1>1. PICK m : m = Head(bcQueue)
  OBVIOUS
<1>2. /\ bcQueue # <<>> /\ bcQueue' = Tail(bcQueue) /\ bcQueue \in Seq(BcMessages)
      /\ UNCHANGED <<bcClients, bcDrawn, bcRaised, bcHeard>>
  BY DEF BcDeliver, BcInv
<1>3. /\ bcQueue' \in Seq(BcMessages) /\ Len(bcQueue') = Len(bcQueue) - 1 /\ m = bcQueue[1]
      /\ Len(bcQueue) \in Nat /\ 1 \in DOMAIN bcQueue
      /\ \A i \in DOMAIN bcQueue' : i + 1 \in DOMAIN bcQueue /\ bcQueue'[i] = bcQueue[i + 1]
  BY <1>1, <1>2
<1>4. BcIsOf(m, bcRaised)
  BY <1>3 DEF BcInv
<1>5. \A c, n : <<c, n>> \in bcSends' =>
        <<c, n>> \in bcSends \/ (n = m /\ c \in DOMAIN bcClients /\ BcWants(bcClients[c], m))
  BY <1>1 DEF BcDeliver
<1>6. \A c, n : BcGets(c, n)' =>
        BcGets(c, n) \/ (n = m /\ c \in DOMAIN bcClients /\ BcWants(bcClients[c], m))
  BY <1>2, <1>5 DEF BcGets
<1>7. ASSUME NEW c \in BcClients  PROVE \E k : BcSuits(c, k)'
  <2>1. PICK k : BcSuits(c, k)
    BY DEF BcInv
  <2>2. BcSuits(c, k)'
    BY <2>1, <1>2, <1>6 DEF BcSuits
  <2>. QED  BY <2>2
<1>8. \A c \in BcClients : bcDrawn' < c => c \notin DOMAIN bcClients' /\ \A n : ~ BcGets(c, n)'
  BY <1>2, <1>6 DEF BcInv
<1>9. \A i \in DOMAIN bcQueue' : BcIsOf(bcQueue'[i], bcRaised')
  BY <1>2, <1>3 DEF BcInv
<1>10. \A c \in BcClients : \A n : BcGets(c, n)' => BcIsOf(n, bcRaised')
  BY <1>2, <1>4, <1>6 DEF BcInv
<1>11. Len(bcQueue') <= BcQueueMax
  BY <1>3, BcAssumption DEF BcInv
<1>. QED  BY <1>2, <1>3, <1>7, <1>8, <1>9, <1>10, <1>11 DEF BcInv

LEMMA BcRaiseKeeps ==
  ASSUME BcInv, NEW a \in BcAlerts, NEW worker \in BcWorkers \cup {None}, NEW zone \in BcZones \cup {None},
         BcRaise(a, worker, zone)
  PROVE  BcInv'
<1>1. PICK new : new = BcPublished(a, worker, zone)
  OBVIOUS
<1>2. PICK fit : fit = IF Len(new) <= BcQueueMax - Len(bcQueue) THEN Len(new) ELSE BcQueueMax - Len(bcQueue)
  OBVIOUS
<1>3. /\ new \in Seq(BcMessages) /\ \A i \in DOMAIN new : BcOneOf(new[i], a, worker, zone)
      /\ bcQueue \in Seq(BcMessages) /\ Len(bcQueue) \in Nat /\ Len(new) \in Nat
      /\ fit \in 0 .. Len(new) /\ Len(bcQueue) + fit <= BcQueueMax
  BY <1>1, <1>2, BcPublishedAre, BcAssumption DEF BcInv
<1>4. /\ bcQueue' = bcQueue \o SubSeq(new, 1, fit)
      /\ DOMAIN bcRaised' = DOMAIN bcRaised \cup {a}
      /\ bcRaised'[a].worker = worker /\ bcRaised'[a].zone = zone
      /\ \A b \in DOMAIN bcRaised : b # a => bcRaised'[b] = bcRaised[b]
      /\ UNCHANGED <<bcClients, bcSends, bcDrawn, bcHeard>>
  BY <1>1, <1>2 DEF BcRaise, Changed
<1>5. PICK n \in Nat : DOMAIN bcRaised = 1 .. n
  BY DEF BcInv
<1>6. a = n + 1
  <2>1. Cardinality(1 .. n) = n
    BY FS_Interval
  <2>. QED  BY <2>1, <1>5 DEF BcRaise
<1>7. DOMAIN bcRaised' = 1 .. n + 1 /\ a \notin DOMAIN bcRaised
  BY <1>4, <1>5, <1>6
<1>8. \A m : BcIsOf(m, bcRaised) => BcIsOf(m, bcRaised')
  BY <1>4, <1>7 DEF BcIsOf
<1>9. /\ bcQueue' \in Seq(BcMessages) /\ Len(bcQueue') = Len(bcQueue) + fit
      /\ \A i \in 1 .. Len(bcQueue') : IF i <= Len(bcQueue) THEN bcQueue'[i] = bcQueue[i]
           ELSE i - Len(bcQueue) \in DOMAIN new /\ bcQueue'[i] = new[i - Len(bcQueue)]
  <2>1. PICK s : s = SubSeq(new, 1, fit)
    OBVIOUS
  <2>2. s \in Seq(BcMessages) /\ Len(s) = fit /\ \A i \in 1 .. fit : i \in DOMAIN new /\ s[i] = new[i]
    BY <2>1, <1>3
  <2>. QED  BY <1>3, <1>4, <2>1, <2>2
<1>10. \A i \in DOMAIN bcQueue' : BcIsOf(bcQueue'[i], bcRaised')
  <2> SUFFICES ASSUME NEW i \in 1 .. Len(bcQueue') PROVE BcIsOf(bcQueue'[i], bcRaised')
    BY <1>9
  <2>1. CASE i <= Len(bcQueue)
    BY <2>1, <1>3, <1>8, <1>9 DEF BcInv
  <2>2. CASE ~ i <= Len(bcQueue)
    BY <2>2, <1>3, <1>4, <1>9 DEF BcIsOf, BcOneOf
  <2>. QED  BY <2>1, <2>2
<1>11. \A c, m : BcGets(c, m)' = BcGets(c, m)
  BY <1>4 DEF BcGets
<1>12. \A c \in BcClients : \E k : BcSuits(c, k)'
  BY <1>4, <1>11 DEF BcInv, BcSuits
<1>13. \A c \in BcClients : \A m : BcGets(c, m)' => BcIsOf(m, bcRaised')
  BY <1>8, <1>11 DEF BcInv
<1>14. n + 1 \in Nat
  OBVIOUS
<1>15. Len(bcQueue') <= BcQueueMax
  BY <1>3, <1>9
<1>. QED  BY <1>4, <1>7, <1>9, <1>10, <1>11, <1>12, <1>13, <1>14, <1>15 DEF BcInv

(* Each audience hears an alert once and in its own words, no subject the  *)
(* advisory about themselves, and no device what is not of its zone: for   *)
(* any clients, workers, zones and alerts, whoever comes, goes or is slow. *)
THEOREM HeardOnceAndInPlace == BcSpec => [](BcOneVoice /\ BcZoneScoped)
<1>1. BcInit => BcInv
  <2> SUFFICES ASSUME BcInit PROVE BcInv
    OBVIOUS
  <2>1. \A c \in BcClients : \A m : ~ BcGets(c, m)
    BY DEF BcInit, BcGets
  <2>2. \A c \in BcClients : BcSuits(c, None)
    BY <2>1 DEF BcSuits, BcInit
  <2>3. DOMAIN bcRaised = 1 .. 0
    BY DEF BcInit
  <2>. QED  BY <2>1, <2>2, <2>3, BcAssumption DEF BcInit, BcInv
<1>2. BcInv /\ [BcNext]_bcVars => BcInv'
  <2> SUFFICES ASSUME BcInv, [BcNext]_bcVars PROVE BcInv'
    OBVIOUS
  <2>1. CASE UNCHANGED bcVars
    BY <2>1, BcQuietStep DEF bcVars, BcGets
  <2>2. CASE BcProgress
    BY <2>2, BcDeliverKeeps, BcLeaveKeeps DEF BcProgress, BcSending
  <2>. QED  BY <2>1, <2>2, BcConnectKeeps, BcRaiseKeeps, BcLeaveKeeps DEF BcNext
<1>. QED  BY <1>1, <1>2, BcInvMeans, PTL DEF BcSpec

-----------------------------------------------------------------------------
(* Conversations.  Only a manager's reply makes a question answered, and   *)
(* what the model writes late names its own columns only.                  *)

ConvRoles == {"worker", "site_manager"}
ConvStatuses == {"pending", "answered", "closed"}
ConvMessageRecords == [worker : ConvWorkers, sender_role : ConvRoles, read : BOOLEAN]

ConvSettled(row) ==
  /\ {"status", "manager_reply"} \subseteq DOMAIN row
  /\ row.status \in ConvStatuses
  /\ row.status = "answered" => row.manager_reply # None

ConvTables ==
  /\ \E n \in Nat : DOMAIN convQuestions = 1 .. n
  /\ \A q \in DOMAIN convQuestions : ConvSettled(convQuestions[q])
  /\ \E n \in Nat : DOMAIN convMessages = 1 .. n
  /\ \A m \in DOMAIN convMessages : convMessages[m] \in ConvMessageRecords

ConvInv == ConvTables /\ DOMAIN convAnswering \cup convAwaitNotice \subseteq DOMAIN convQuestions

ConvKeepsReplies ==
  \A q \in DOMAIN convQuestions :
    convQuestions[q].manager_reply # None =>
      \/ convQuestions'[q].manager_reply = convQuestions[q].manager_reply
      \/ \E r \in ConvReplies : ConvReply(q, r)

ConvClearsOneBadge ==
  \A w \in ConvWorkers, role \in ConvRoles :
    ~ (ConvUnread(w, role) \subseteq ConvUnread(w, role)') =>
      /\ ConvUnread(w, role)' = {}
      /\ \A v \in ConvWorkers, other \in ConvRoles :
           <<v, other>> # <<w, role>> => ConvUnread(v, other)' = ConvUnread(v, other)

\* Questions that changed by a patch of one of them.
LEMMA ConvPatched ==
  ASSUME ConvTables, NEW q \in DOMAIN convQuestions, NEW changes,
         convQuestions' = Patch(convQuestions, q, changes), convMessages' = convMessages,
         ConvSettled(Changed(convQuestions[q], changes))
  PROVE  /\ ConvTables'
         /\ \A p \in DOMAIN convQuestions : p # q => convQuestions'[p] = convQuestions[p]
         /\ convQuestions'[q] = Changed(convQuestions[q], changes)
<1>1. /\ DOMAIN convQuestions' = DOMAIN convQuestions
      /\ \A p \in DOMAIN convQuestions : p # q => convQuestions'[p] = convQuestions[p]
      /\ convQuestions'[q] = Changed(convQuestions[q], changes)
  BY PatchTable
<1>2. \A p \in DOMAIN convQuestions' : ConvSettled(convQuestions'[p])
  BY <1>1 DEF ConvTables
<1>. QED  BY <1>1, <1>2 DEF ConvTables

LEMMA ConvAskKeeps ==
  ASSUME ConvTables, NEW q, ConvAsk(q)
  PROVE  ConvTables' /\ ConvKeepsReplies /\ convMessages' = convMessages
<1> DEFINE row == [status |-> "pending", llm_answer |-> None, llm_grounded |-> None,
                   llm_error |-> None, manager_reply |-> None]
<1>1. PICK n \in Nat : DOMAIN convQuestions = 1 .. n
  BY DEF ConvTables
<1>2. q = n + 1 /\ convQuestions' = Put(convQuestions, q, row, {"created_at"}) /\ convMessages' = convMessages
  BY <1>1, IdsAreDrawn DEF ConvAsk
<1>3. ConvSettled(row)
  BY DEF ConvSettled, ConvStatuses
<1> HIDE DEF row
<1>4. /\ DOMAIN convQuestions' = 1 .. n + 1 /\ convQuestions'[q] = row
      /\ \A p \in DOMAIN convQuestions : convQuestions'[p] = convQuestions[p]
  <2>1. q \notin DOMAIN convQuestions /\ DOMAIN convQuestions \cup {q} = 1 .. n + 1
    BY <1>1, <1>2, IdsAreDrawn
  <2>. QED  BY <2>1, <1>2 DEF Put
<1>5. \A p \in DOMAIN convQuestions' : ConvSettled(convQuestions'[p])
  BY <1>1, <1>2, <1>3, <1>4 DEF ConvTables
<1>6. n + 1 \in Nat
  OBVIOUS
<1>. QED  BY <1>2, <1>4, <1>5, <1>6 DEF ConvTables, ConvKeepsReplies

LEMMA ConvAnswerKeeps ==
  ASSUME ConvTables, NEW q, NEW outcome \in {"text", "short", "error"}, ConvAnswer(q, outcome),
         q \in DOMAIN convQuestions
  PROVE  ConvTables' /\ ConvKeepsReplies /\ convMessages' = convMessages
<1>1. PICK grounded : grounded = convAnswering[q].grounded
  OBVIOUS
<1>2. PICK changes : changes = Changed(ConvComposed(outcome, grounded), [llm_grounded |-> grounded])
  OBVIOUS
<1>3. convQuestions' = Patch(convQuestions, q, changes) /\ convMessages' = convMessages
  BY <1>1, <1>2 DEF ConvAnswer, ConvWritten
<1>4. DOMAIN ConvComposed(outcome, grounded) = {"llm_answer", "llm_error"}
  BY DEF ConvComposed
<1>5. "status" \notin DOMAIN changes /\ "manager_reply" \notin DOMAIN changes
  <2>1. DOMAIN [llm_grounded |-> grounded] = {"llm_grounded"}
    OBVIOUS
  <2>2. DOMAIN changes = {"llm_answer", "llm_error"} \cup {"llm_grounded"}
    BY <1>2, <1>4, <2>1 DEF Changed
  <2>. QED  BY <2>2
<1>6. PICK row : row = convQuestions[q]
  OBVIOUS
<1>7. /\ Changed(row, changes).status = row.status /\ Changed(row, changes).manager_reply = row.manager_reply
      /\ {"status", "manager_reply"} \subseteq DOMAIN Changed(row, changes) /\ ConvSettled(row)
  <2>1. {"status", "manager_reply"} \subseteq DOMAIN row /\ ConvSettled(row)
    BY <1>6 DEF ConvTables, ConvSettled
  <2>. QED  BY <2>1, <1>5 DEF Changed
<1>8. ConvSettled(Changed(row, changes))
  BY <1>7 DEF ConvSettled
<1>9. /\ ConvTables' /\ \A p \in DOMAIN convQuestions : p # q => convQuestions'[p] = convQuestions[p]
      /\ convQuestions'[q] = Changed(row, changes)
  BY <1>3, <1>6, <1>8, ConvPatched
<1>. QED  BY <1>3, <1>6, <1>7, <1>9 DEF ConvKeepsReplies

LEMMA ConvDecisionKeeps ==
  ASSUME ConvTables, NEW q, \/ \E r \in ConvReplies : ConvReply(q, r)
                         \/ ConvClose(q)
  PROVE  ConvTables' /\ ConvKeepsReplies /\ convMessages' = convMessages
<1>1. PICK row : row = convQuestions[q]
  OBVIOUS
<1>2. q \in DOMAIN convQuestions /\ convMessages' = convMessages
  BY DEF ConvReply, ConvClose
<1>3. ConvSettled(row)
  BY <1>1, <1>2 DEF ConvTables
<1>4. ASSUME NEW r \in ConvReplies, ConvReply(q, r)  PROVE ConvTables' /\ ConvKeepsReplies
  <2>1. ConvSettled(Changed(row, [manager_reply |-> r, status |-> "answered"]))
    BY <1>3, ConvAssumption DEF ConvSettled, ConvStatuses, Changed
  <2>2. ConvTables' /\ \A p \in DOMAIN convQuestions : p # q => convQuestions'[p] = convQuestions[p]
    BY <1>1, <1>2, <1>4, <2>1, ConvPatched DEF ConvReply
  <2>. QED  BY <1>4, <2>2 DEF ConvKeepsReplies
<1>5. CASE ConvClose(q)
  <2>1. /\ ConvSettled(Changed(row, [status |-> "closed"]))
        /\ Changed(row, [status |-> "closed"]).manager_reply = row.manager_reply
    BY <1>3 DEF ConvSettled, ConvStatuses, Changed
  <2>2. /\ ConvTables' /\ \A p \in DOMAIN convQuestions : p # q => convQuestions'[p] = convQuestions[p]
        /\ convQuestions'[q] = Changed(row, [status |-> "closed"])
    BY <1>1, <1>2, <1>5, <2>1, ConvPatched DEF ConvClose
  <2>3. convQuestions'[q].manager_reply = convQuestions[q].manager_reply
    BY <1>1, <2>1, <2>2
  <2>4. \A p \in DOMAIN convQuestions : convQuestions'[p].manager_reply = convQuestions[p].manager_reply
    BY <2>2, <2>3
  <2>. QED  BY <1>2, <2>2, <2>4 DEF ConvKeepsReplies
<1>. QED  BY <1>2, <1>4, <1>5

LEMMA ConvSendKeeps ==
  ASSUME ConvTables, NEW m, NEW worker \in ConvWorkers, NEW role \in ConvRoles, ConvSend(m, worker, role)
  PROVE  ConvTables' /\ ConvClearsOneBadge
<1> DEFINE row == [worker |-> worker, sender_role |-> role, read |-> FALSE]
<1>1. PICK n \in Nat : DOMAIN convMessages = 1 .. n
  BY DEF ConvTables
<1>2. /\ m = n + 1 /\ convMessages' = Put(convMessages, m, row, {"created_at"})
      /\ convQuestions' = convQuestions
  BY <1>1, IdsAreDrawn DEF ConvSend
<1>3. row \in ConvMessageRecords
  BY DEF ConvMessageRecords
<1> HIDE DEF row
<1>4. /\ DOMAIN convMessages' = 1 .. n + 1 /\ convMessages'[m] = row
      /\ \A k \in DOMAIN convMessages : convMessages'[k] = convMessages[k]
  <2>1. m \notin DOMAIN convMessages /\ DOMAIN convMessages \cup {m} = 1 .. n + 1
    BY <1>1, <1>2, IdsAreDrawn
  <2>. QED  BY <2>1, <1>2 DEF Put
<1>5. \A k \in DOMAIN convMessages' : convMessages'[k] \in ConvMessageRecords
  <2>1. \A k \in DOMAIN convMessages' : k \in DOMAIN convMessages \/ k = m
    BY <1>1, <1>2, <1>4
  <2>. QED  BY <2>1, <1>3, <1>4 DEF ConvTables
<1>6. n + 1 \in Nat /\ DOMAIN convMessages \subseteq DOMAIN convMessages'
  BY <1>1, <1>4
<1>7. \A w, r : ConvUnread(w, r) \subseteq ConvUnread(w, r)'
  BY <1>4, <1>6 DEF ConvUnread
<1>. QED  BY <1>2, <1>4, <1>5, <1>6, <1>7 DEF ConvTables, ConvClearsOneBadge

LEMMA ConvMarkReadKeeps ==
  ASSUME ConvTables, NEW worker \in ConvWorkers, NEW role \in ConvRoles, ConvMarkRead(worker, role)
  PROVE  ConvTables' /\ ConvClearsOneBadge
<1>1. PICK from : from = ConvOther(role)
  OBVIOUS
<1>2. /\ DOMAIN convMessages' = DOMAIN convMessages /\ convQuestions' = convQuestions
      /\ \A m \in DOMAIN convMessages : convMessages'[m] =
           IF convMessages[m].worker = worker /\ convMessages[m].sender_role = from
           THEN [convMessages[m] EXCEPT !.read = TRUE] ELSE convMessages[m]
  BY <1>1 DEF ConvMarkRead, ConvReads
<1>3. ASSUME NEW m \in DOMAIN convMessages
      PROVE  /\ convMessages'[m] \in ConvMessageRecords
             /\ convMessages'[m].worker = convMessages[m].worker
             /\ convMessages'[m].sender_role = convMessages[m].sender_role
             /\ IF convMessages[m].worker = worker /\ convMessages[m].sender_role = from
                THEN convMessages'[m].read ELSE convMessages'[m].read = convMessages[m].read
  <2>1. convMessages[m] \in ConvMessageRecords
    BY DEF ConvTables
  <2>. QED  BY <1>2, <2>1 DEF ConvMessageRecords
<1>4. ASSUME NEW w, NEW r
      PROVE  ConvUnread(w, r)' = IF w = worker /\ r = from THEN {} ELSE ConvUnread(w, r)
  BY <1>2, <1>3 DEF ConvUnread
<1>5. ConvClearsOneBadge
  <2>1. ASSUME NEW w \in ConvWorkers, NEW r \in ConvRoles, ~ (ConvUnread(w, r) \subseteq ConvUnread(w, r)')
        PROVE  w = worker /\ r = from
    BY <1>4, <2>1
  <2>2. ASSUME NEW v, NEW other, <<v, other>> # <<worker, from>>
        PROVE  ConvUnread(v, other)' = ConvUnread(v, other)
    BY <1>4, <2>2
  <2>3. ConvUnread(worker, from)' = {}
    BY <1>4
  <2>. QED  BY <2>1, <2>2, <2>3 DEF ConvClearsOneBadge
<1>. QED  BY <1>2, <1>3, <1>5 DEF ConvTables

LEMMA ConvStepKeeps ==
  ASSUME ConvInv, [ConvQuestionStep \/ ConvMessageStep]_convVars
  PROVE  ConvInv' /\ ConvKeepsReplies /\ ConvClearsOneBadge
<1> USE DEF ConvInv
<1> DEFINE ConvKeeps == ConvTables' /\ ConvKeepsReplies /\ ConvClearsOneBadge
<1>1. ASSUME convMessages' = convMessages  PROVE ConvClearsOneBadge
  BY <1>1 DEF ConvClearsOneBadge, ConvUnread
<1>2. ASSUME convQuestions' = convQuestions  PROVE ConvKeepsReplies
  BY <1>2 DEF ConvKeepsReplies
<1>3. ASSUME convMessages' = convMessages, convQuestions' = convQuestions  PROVE ConvTables'
  BY <1>3 DEF ConvTables
<1>4. ASSUME UNCHANGED convVars \/ ConvRestart PROVE ConvKeeps
  BY <1>4, <1>1, <1>2, <1>3 DEF convVars, ConvRestart
<1>5. ASSUME NEW q, ConvAnnounce(q) \/ \E grounded \in BOOLEAN : ConvRetrieve(q, grounded)
      PROVE  ConvKeeps
  BY <1>5, <1>1, <1>2, <1>3 DEF ConvAnnounce, ConvRetrieve
<1>6. ASSUME NEW q, NEW outcome \in {"text", "short", "error"}, ConvAnswer(q, outcome)
      PROVE  ConvKeeps
  <2>1. q \in DOMAIN convQuestions
    BY <1>6 DEF ConvAnswer, ConvInv
  <2>. QED  BY <1>6, <2>1, <1>1, ConvAnswerKeeps
<1>7. ASSUME NEW q, ConvAsk(q) \/ ConvClose(q) \/ \E r \in ConvReplies : ConvReply(q, r)
      PROVE  ConvKeeps
  BY <1>7, <1>1, ConvAskKeeps, ConvDecisionKeeps
<1>8. ASSUME NEW w \in ConvWorkers, NEW role \in ConvRoles,
             ConvMarkRead(w, role) \/ \E m : ConvSend(m, w, role)
      PROVE  ConvKeeps
  BY <1>8, <1>2, ConvSendKeeps, ConvMarkReadKeeps DEF ConvSend, ConvMarkRead
<1>9. ASSUME ConvQuestionStep PROVE ConvKeeps
  BY <1>9, <1>4, <1>5, <1>6, <1>7 DEF ConvQuestionStep, ConvProgress
<1>10. ASSUME ConvMessageStep PROVE ConvKeeps
  BY <1>10, <1>8 DEF ConvMessageStep, ConvRoles
<1>11. ConvKeeps
  BY <1>4, <1>9, <1>10
<1>12. DOMAIN convAnswering' \cup convAwaitNotice' \subseteq DOMAIN convQuestions'
  <2>1. ASSUME NEW q, ConvAsk(q)  PROVE q \in DOMAIN convQuestions' /\ DOMAIN convQuestions \subseteq DOMAIN convQuestions'
    BY <2>1 DEF ConvAsk, Put
  <2>2. ASSUME NEW q, \/ ConvClose(q) \/ \E r \in ConvReplies : ConvReply(q, r)
                      \/ \E outcome \in {"text", "short", "error"} : ConvAnswer(q, outcome)
        PROVE  DOMAIN convQuestions' = DOMAIN convQuestions
    BY <2>2 DEF ConvClose, ConvReply, ConvAnswer, ConvWritten, Patch
  <2>3. CASE \E q \in ConvQuestions : ConvAsk(q)
    BY <2>1, <2>3 DEF ConvAsk
  <2>4. CASE \E q \in ConvQuestions : ConvClose(q) \/ \E r \in ConvReplies : ConvReply(q, r)
    BY <2>2, <2>4 DEF ConvClose, ConvReply
  <2>5. ASSUME NEW q \in ConvQuestions, ConvProgress(q)
        PROVE  DOMAIN convAnswering' \cup convAwaitNotice' \subseteq DOMAIN convQuestions'
    <3>1. CASE ConvAnnounce(q)
      BY <3>1 DEF ConvAnnounce, Changed
    <3>2. CASE \E grounded \in BOOLEAN : ConvRetrieve(q, grounded)
      BY <3>2 DEF ConvRetrieve
    <3>3. CASE \E outcome \in {"text", "short", "error"} : ConvAnswer(q, outcome)
      BY <3>3, <2>2 DEF ConvAnswer, Delete
    <3>. QED  BY <2>5, <3>1, <3>2, <3>3 DEF ConvProgress
  <2>6. CASE ConvRestart
    BY <2>6 DEF ConvRestart
  <2>7. CASE ConvMessageStep
    BY <2>7 DEF ConvMessageStep, ConvSend, ConvMarkRead
  <2>8. CASE UNCHANGED convVars
    BY <2>8 DEF convVars
  <2>. QED  BY <2>3, <2>4, <2>5, <2>6, <2>7, <2>8 DEF ConvQuestionStep
<1>. QED  BY <1>11, <1>12

(* Whatever the model says and however late, a question nobody accountable *)
(* has answered stays on the manager's queue and a manager's reply is not  *)
(* taken away; reading one thread clears one badge: for any questions,     *)
(* messages and workers, with and without restarts.                        *)
THEOREM NobodyIsOverlooked ==
  ConvSpec => []ConvAwaitingIsHonest /\ ConvReplyIsKept /\ ConvReadingClearsOneBadge
<1>1. ConvInit => ConvInv
  <2> SUFFICES ASSUME ConvInit PROVE ConvInv
    OBVIOUS
  <2>1. DOMAIN convQuestions = 1 .. 0 /\ DOMAIN convMessages = 1 .. 0 /\ 0 \in Nat
    BY DEF ConvInit
  <2>. QED  BY <2>1 DEF ConvInit, ConvInv, ConvTables
<1>2. ConvInv => ConvAwaitingIsHonest
  BY DEF ConvInv, ConvTables, ConvSettled, ConvStatuses, ConvAwaitingIsHonest, ConvAwaiting
<1>3. ConvInv /\ [ConvQuestionStep \/ ConvMessageStep]_convVars =>
        /\ [ConvKeepsReplies]_convVars /\ [ConvClearsOneBadge]_convVars /\ ConvInv'
  BY ConvStepKeeps
<1>4. ConvReplyIsKept <=> [][ConvKeepsReplies]_convVars
  BY DEF ConvReplyIsKept, ConvKeepsReplies
<1>5. ConvReadingClearsOneBadge <=> [][ConvClearsOneBadge]_convVars
  BY DEF ConvReadingClearsOneBadge, ConvClearsOneBadge, ConvRoles
<1>. QED  BY <1>1, <1>2, <1>3, <1>4, <1>5, PTL DEF ConvSpec

-----------------------------------------------------------------------------
(* Learning, where one request runs at a time.  A claim takes free rows    *)
(* only, and a release gives back all that its run still holds.            *)

LrnRowsOK ==
  /\ \E n \in Nat : DOMAIN lrnRows = 1 .. n
  /\ \E m \in Nat : DOMAIN lrnRuns = 1 .. m
  /\ \A f \in DOMAIN lrnRows : lrnRows[f].consumed_by \in DOMAIN lrnRuns \cup {None}

LrnTaskOK(t) ==
  lrnTask[t].pc # "idle" =>
    /\ lrnTask[t].pc \in {"list", "claim", "release"} /\ {"pc", "run"} \subseteq DOMAIN lrnTask[t]
    /\ lrnTask[t].run \in DOMAIN lrnRuns /\ lrnRuns[lrnTask[t].run].status = "pending"
    /\ lrnTask[t].pc # "list" => "todo" \in DOMAIN lrnTask[t]
    /\ lrnTask[t].pc = "claim" => lrnTask[t].todo \subseteq LrnUnconsumed
    /\ lrnTask[t].pc = "release" => lrnTask[t].todo = LrnClaimedBy(lrnTask[t].run)

LrnJobOK(run) ==
  /\ run \in DOMAIN lrnRuns /\ lrnRuns[run].status = "running"
  /\ lrnJobs[run].pc \in {"train", "release"} /\ {"pc", "todo"} \subseteq DOMAIN lrnJobs[run]
  /\ lrnJobs[run].pc = "release" => lrnJobs[run].todo = LrnClaimedBy(run)

LrnInv ==
  lrnBackend = "sqlite" =>
    /\ LrnRowsOK
    /\ DOMAIN lrnTask = LrnTasks /\ \A t \in LrnTasks : LrnTaskOK(t)
    /\ \A run \in DOMAIN lrnJobs : LrnJobOK(run)
    /\ \A t \in LrnTasks : lrnTask[t].pc # "idle" => LrnMayRun(t)
    /\ \A run \in DOMAIN lrnJobs : lrnJobs[run].pc = "release" => LrnJobMayRun(run)
    /\ LrnNothingStranded

LrnKeepsCompleted ==
  \A f \in DOMAIN lrnRows :
    (lrnBackend = "sqlite" /\ lrnRows[f].consumed_by # None
       /\ lrnRuns[lrnRows[f].consumed_by].status = "completed")
      => lrnRows'[f].consumed_by = lrnRows[f].consumed_by

\* The newest row of a claim is one of it, and the stamp changes that one only.
LEMMA LrnStamps ==
  ASSUME LrnRowsOK, NEW todo \in SUBSET DOMAIN lrnRows, todo # {}, NEW owner
  PROVE  /\ LrnNewest(todo) \in todo
         /\ DOMAIN LrnStamp(lrnRows, todo, owner) = DOMAIN lrnRows
         /\ LrnStamp(lrnRows, todo, owner)[LrnNewest(todo)].consumed_by = owner
         /\ \A f \in DOMAIN lrnRows \ {LrnNewest(todo)} : LrnStamp(lrnRows, todo, owner)[f] = lrnRows[f]
<1>1. PICK n \in Nat : DOMAIN lrnRows = 1 .. n
  BY DEF LrnRowsOK
<1> DEFINE S == {n - f : f \in todo}
<1>2. S \in SUBSET Nat /\ S # {}
  BY <1>1
<1>3. PICK x \in S : \A y \in S : x <= y
  BY <1>2, LeastNatural
<1>4. PICK f \in todo : x = n - f
  BY <1>3
<1>5. \A g \in todo : g <= f
  <2> TAKE g \in todo
  <2>1. n - g \in S
    OBVIOUS
  <2>2. n - f <= n - g
    BY <1>3, <1>4, <2>1
  <2>. QED  BY <1>1, <2>2
<1>6. LrnNewest(todo) \in todo
  BY <1>5 DEF LrnNewest
<1> DEFINE changes == [consumed_by |-> owner]
<1>7. \A r : Changed(r, changes).consumed_by = owner
  BY ChangedRecord
<1>. QED  BY <1>6, <1>7 DEF LrnStamp, Patch

\* One row stamped: for the run that has it, or for no run.
LEMMA LrnStamped ==
  ASSUME LrnRowsOK, NEW todo \in SUBSET DOMAIN lrnRows, todo # {},
         NEW owner \in DOMAIN lrnRuns \cup {None},
         lrnRows' = LrnStamp(lrnRows, todo, owner), lrnRuns' = lrnRuns
  PROVE  /\ LrnRowsOK'
         /\ LrnNewest(todo) \in todo
         /\ lrnRows'[LrnNewest(todo)].consumed_by = owner
         /\ \A f \in DOMAIN lrnRows \ {LrnNewest(todo)} : lrnRows'[f] = lrnRows[f]
         /\ DOMAIN lrnRows' = DOMAIN lrnRows
<1>1. /\ LrnNewest(todo) \in todo
      /\ DOMAIN lrnRows' = DOMAIN lrnRows
      /\ lrnRows'[LrnNewest(todo)].consumed_by = owner
      /\ \A f \in DOMAIN lrnRows \ {LrnNewest(todo)} : lrnRows'[f] = lrnRows[f]
  BY LrnStamps
<1>. QED  BY <1>1 DEF LrnRowsOK

\* A run whose status is patched: the others are as they were.
LEMMA LrnPatched ==
  ASSUME LrnRowsOK, NEW run \in DOMAIN lrnRuns, NEW changes, "status" \in DOMAIN changes,
         lrnRuns' = Patch(lrnRuns, run, changes), lrnRows' = lrnRows
  PROVE  /\ LrnRowsOK'
         /\ lrnRuns'[run].status = changes.status
         /\ \A r \in DOMAIN lrnRuns \ {run} : lrnRuns'[r] = lrnRuns[r]
<1>1. /\ DOMAIN lrnRuns' = DOMAIN lrnRuns
      /\ \A r \in DOMAIN lrnRuns \ {run} : lrnRuns'[r] = lrnRuns[r]
      /\ lrnRuns'[run] = Changed(lrnRuns[run], changes)
  BY PatchTable
<1>2. lrnRuns'[run].status = changes.status
  BY <1>1 DEF Changed
<1>. QED  BY <1>1, <1>2 DEF LrnRowsOK

\* A review is recorded, a run begins, its reviews are listed.
LEMMA LrnBegins ==
  ASSUME lrnBackend = "sqlite", LrnInv,
         \/ \E f \in LrnRows, sample \in {"positive", "negative", "skipped"} : LrnRecord(f, sample)
         \/ \E t \in LrnTasks, run \in LrnRunIds : LrnStart(t, run)
         \/ \E t \in LrnTasks : LrnList(t)
  PROVE  LrnInv' /\ LrnKeepsCompleted
<1>. USE DEF LrnInv
<1>1. PICK n \in Nat : DOMAIN lrnRows = 1 .. n
  BY DEF LrnRowsOK
<1>2. PICK m \in Nat : DOMAIN lrnRuns = 1 .. m
  BY DEF LrnRowsOK
<1>3. ASSUME NEW f \in LrnRows, NEW sample \in {"positive", "negative", "skipped"}, LrnRecord(f, sample)
      PROVE  LrnInv' /\ LrnKeepsCompleted
  <2>1. f = n + 1 /\ f \notin DOMAIN lrnRows /\ DOMAIN lrnRows \cup {f} = 1 .. n + 1
    BY <1>3, <1>1, IdsAreDrawn DEF LrnRecord
  <2>2. /\ DOMAIN lrnRows' = 1 .. n + 1
        /\ \A g \in DOMAIN lrnRows : lrnRows'[g] = lrnRows[g]
        /\ lrnRows'[f] = [sample |-> sample, consumed_by |-> None]
    BY <1>3, <2>1 DEF LrnRecord, Put
  <2>3. \A t \in LrnTasks : lrnTask[t].pc = "idle"
    BY <1>3 DEF LrnRecord, LrnAlone
  <2>4. \A run \in DOMAIN lrnJobs : lrnJobs[run].pc = "train"
    BY <1>3 DEF LrnRecord, LrnAlone
  <2>u. UNCHANGED <<lrnBackend, lrnValSet, lrnRuns, lrnTask, lrnJobs, lrnRunning, lrnCrashed>>
    BY <1>3 DEF LrnRecord
  <2>5. LrnRowsOK'
    BY <2>1, <2>2, <2>u DEF LrnRowsOK
  <2>6. \A g \in DOMAIN lrnRows' : lrnRows'[g].consumed_by # None => g \in DOMAIN lrnRows
    BY <2>1, <2>2, <1>1
  <2>7. LrnNothingStranded'
    BY <2>2, <2>6, <2>u DEF LrnNothingStranded, LrnAtWork
  <2>8. \A run \in DOMAIN lrnJobs' : LrnJobOK(run)'
    BY <2>4, <2>u DEF LrnJobOK
  <2>. QED  BY <2>2, <2>3, <2>4, <2>5, <2>7, <2>8, <2>u DEF LrnTaskOK, LrnKeepsCompleted
<1>4. ASSUME NEW t \in LrnTasks, NEW run \in LrnRunIds, LrnStart(t, run)
      PROVE  LrnInv' /\ LrnKeepsCompleted
  <2>1. run = m + 1 /\ run \notin DOMAIN lrnRuns /\ DOMAIN lrnRuns \cup {run} = 1 .. m + 1
    BY <1>4, <1>2, IdsAreDrawn DEF LrnStart
  <2>2. /\ DOMAIN lrnRuns' = 1 .. m + 1
        /\ \A r \in DOMAIN lrnRuns : lrnRuns'[r] = lrnRuns[r] /\ r \in DOMAIN lrnRuns'
        /\ run \in DOMAIN lrnRuns' /\ lrnRuns'[run].status = "pending"
    BY <1>4, <2>1 DEF LrnStart, Put
  <2>3. /\ \A u \in LrnTasks \ {t} : lrnTask[u].pc = "idle"
        /\ \A r \in DOMAIN lrnJobs : lrnJobs[r].pc = "train"
    BY <1>4 DEF LrnStart, LrnMayRun, LrnAlone
  <2>4. /\ DOMAIN lrnTask' = LrnTasks
        /\ lrnTask'[t] = [pc |-> "list", run |-> run]
        /\ \A u \in LrnTasks \ {t} : lrnTask'[u] = lrnTask[u]
    BY <1>4 DEF LrnStart
  <2>u. UNCHANGED <<lrnBackend, lrnValSet, lrnRows, lrnJobs, lrnRunning, lrnCrashed>>
    BY <1>4 DEF LrnStart
  <2>5. LrnRowsOK'
    BY <2>1, <2>2, <2>u, <1>2 DEF LrnRowsOK
  <2>6. \A u \in LrnTasks : LrnTaskOK(u)'
    BY <2>2, <2>3, <2>4 DEF LrnTaskOK
  <2>7. \A r \in DOMAIN lrnJobs' : LrnJobOK(r)'
    BY <2>2, <2>3, <2>u DEF LrnJobOK
  <2>8. \A v \in LrnTasks : lrnTask'[v].pc # "idle" => LrnMayRun(v)'
    BY <2>3, <2>4, <2>u DEF LrnMayRun, LrnAlone
  <2>9. \A f \in DOMAIN lrnRows : lrnRows[f].consumed_by # None =>
            /\ lrnRows[f].consumed_by \in DOMAIN lrnRuns
            /\ LrnAtWork(lrnRows[f].consumed_by) => LrnAtWork(lrnRows[f].consumed_by)'
    BY <1>4, <2>3, <2>4, <2>u DEF LrnRowsOK, LrnAtWork, LrnStart
  <2>10. LrnNothingStranded'
    BY <2>2, <2>9, <2>u DEF LrnNothingStranded
  <2>. QED  BY <2>3, <2>4, <2>5, <2>6, <2>7, <2>8, <2>10, <2>u DEF LrnKeepsCompleted
<1>5. ASSUME NEW t \in LrnTasks, LrnList(t)
      PROVE  LrnInv' /\ LrnKeepsCompleted
  <2>1. /\ \A u \in LrnTasks \ {t} : lrnTask[u].pc = "idle"
        /\ \A r \in DOMAIN lrnJobs : lrnJobs[r].pc = "train"
    BY <1>5 DEF LrnList, LrnMayRun, LrnAlone
  <2>2. /\ DOMAIN lrnTask' = LrnTasks
        /\ lrnTask'[t] = [pc |-> "claim", run |-> lrnTask[t].run, rows |-> LrnUnconsumed, todo |-> LrnUnconsumed]
        /\ \A u \in LrnTasks \ {t} : lrnTask'[u] = lrnTask[u]
        /\ lrnTask[t].pc = "list"
    BY <1>5 DEF LrnList
  <2>u. UNCHANGED <<lrnBackend, lrnValSet, lrnRows, lrnRuns, lrnJobs, lrnRunning, lrnCrashed>>
    BY <1>5 DEF LrnList
  <2>3. LrnTaskOK(t)'
    BY <2>2, <2>u DEF LrnTaskOK, LrnUnconsumed
  <2>4. \A u \in LrnTasks : LrnTaskOK(u)'
    BY <2>1, <2>2, <2>3 DEF LrnTaskOK
  <2>5. \A r : LrnAtWork(r) => LrnAtWork(r)'
    BY <2>1, <2>2, <2>u DEF LrnAtWork
  <2>6. LrnNothingStranded'
    BY <2>5, <2>u DEF LrnNothingStranded
  <2>7. \A v \in LrnTasks : lrnTask'[v].pc # "idle" => LrnMayRun(v)'
    BY <2>1, <2>2, <2>u DEF LrnMayRun, LrnAlone
  <2>8. \A r \in DOMAIN lrnJobs' : LrnJobOK(r)'
    BY <2>1, <2>u DEF LrnJobOK
  <2>9. LrnRowsOK'
    BY <2>u DEF LrnRowsOK
  <2>. QED  BY <2>1, <2>2, <2>4, <2>6, <2>7, <2>8, <2>9, <2>u DEF LrnKeepsCompleted
<1>. QED  BY <1>3, <1>4, <1>5

\* A request claims, and gives back what it claimed when it is refused.
LEMMA LrnClaims ==
  ASSUME lrnBackend = "sqlite", LrnInv, NEW t \in LrnTasks, LrnClaim(t) \/ LrnToRelease(t) \/ LrnRelease(t)
  PROVE  LrnInv' /\ LrnKeepsCompleted
<1>. USE DEF LrnInv
<1> DEFINE run == lrnTask[t].run
<1>1. /\ \A u \in LrnTasks \ {t} : lrnTask[u].pc = "idle"
      /\ \A r \in DOMAIN lrnJobs : lrnJobs[r].pc = "train"
  BY DEF LrnClaim, LrnToRelease, LrnRelease, LrnClaimed, LrnMayRun, LrnAlone
<1>2. /\ lrnTask[t].pc \in {"claim", "release"} /\ {"pc", "run", "todo"} \subseteq DOMAIN lrnTask[t]
      /\ run \in DOMAIN lrnRuns /\ lrnRuns[run].status = "pending" /\ run # None
      /\ lrnTask[t].pc = "claim" => lrnTask[t].todo \subseteq LrnUnconsumed
      /\ lrnTask[t].pc = "release" => lrnTask[t].todo = LrnClaimedBy(run)
      /\ LrnAtWork(run)
  <2>1. lrnTask[t].pc \in {"claim", "release"}
    BY DEF LrnClaim, LrnToRelease, LrnRelease, LrnClaimed
  <2>2. run \in DOMAIN lrnRuns => run # None
    BY LrnAssumption DEF LrnRowsOK
  <2>. QED  BY <2>1, <2>2 DEF LrnTaskOK, LrnAtWork
<1>u. UNCHANGED <<lrnBackend, lrnValSet, lrnRuns, lrnJobs, lrnRunning, lrnCrashed>>
  BY DEF LrnClaim, LrnToRelease, LrnRelease
\* what the three of them leave to show
<1>3. ASSUME LrnRowsOK', LrnTaskOK(t)', DOMAIN lrnTask' = LrnTasks,
             \A u \in LrnTasks \ {t} : lrnTask'[u] = lrnTask[u],
             lrnTask'[t].run = run, lrnTask'[t].pc # "idle", DOMAIN lrnRows' = DOMAIN lrnRows,
             \A f \in DOMAIN lrnRows :
               \/ lrnRows'[f].consumed_by = lrnRows[f].consumed_by
               \/ lrnRows[f].consumed_by \in {None, run} /\ lrnRows'[f].consumed_by \in {None, run}
      PROVE  LrnInv' /\ LrnKeepsCompleted
  <2>1. \A u \in LrnTasks : LrnTaskOK(u)'
    BY <1>1, <1>3 DEF LrnTaskOK
  <2>2. \A r \in DOMAIN lrnJobs' : LrnJobOK(r)'
    BY <1>1, <1>u DEF LrnJobOK
  <2>3. \A v \in LrnTasks : lrnTask'[v].pc # "idle" => LrnMayRun(v)'
    BY <1>1, <1>3, <1>u DEF LrnMayRun, LrnAlone
  <2>4. \A r : LrnAtWork(r) => LrnAtWork(r)'
    BY <1>1, <1>3, <1>u DEF LrnAtWork
  <2>5. LrnNothingStranded'
    BY <1>2, <1>3, <1>u, <2>4 DEF LrnNothingStranded
  <2>6. LrnKeepsCompleted
    BY <1>2, <1>3 DEF LrnKeepsCompleted
  <2>. QED  BY <1>1, <1>3, <1>u, <2>1, <2>2, <2>3, <2>5, <2>6
<1>4. CASE LrnClaim(t)
  <2> DEFINE todo == lrnTask[t].todo
  <2>1. /\ todo \subseteq LrnUnconsumed /\ todo \in SUBSET DOMAIN lrnRows /\ todo # {}
        /\ lrnTask[t].pc = "claim"
    BY <1>2, <1>4 DEF LrnUnconsumed, LrnClaim
  <2>2. lrnRows' = LrnStamp(lrnRows, todo, run) /\ lrnRuns' = lrnRuns
    BY <1>4 DEF LrnClaim
  <2>3. /\ LrnRowsOK' /\ LrnNewest(todo) \in todo
        /\ lrnRows'[LrnNewest(todo)].consumed_by = run
        /\ \A f \in DOMAIN lrnRows \ {LrnNewest(todo)} : lrnRows'[f] = lrnRows[f]
        /\ DOMAIN lrnRows' = DOMAIN lrnRows
    BY <1>2, <2>1, <2>2, LrnStamped
  <2>4. lrnTask' = [lrnTask EXCEPT ![t].todo = todo \ {LrnNewest(todo)}]
    BY <1>4 DEF LrnClaim
  <2>5. /\ DOMAIN lrnTask' = LrnTasks /\ \A u \in LrnTasks \ {t} : lrnTask'[u] = lrnTask[u]
        /\ lrnTask'[t].run = run /\ lrnTask'[t].pc = "claim"
        /\ lrnTask'[t].todo = todo \ {LrnNewest(todo)} /\ DOMAIN lrnTask'[t] = DOMAIN lrnTask[t]
    BY <1>2, <2>1, <2>4
  <2>6. lrnTask'[t].todo \subseteq LrnUnconsumed'
    BY <2>1, <2>3, <2>5 DEF LrnUnconsumed
  <2>7. LrnTaskOK(t)'
    BY <1>2, <1>u, <2>5, <2>6 DEF LrnTaskOK
  <2>8. lrnRows[LrnNewest(todo)].consumed_by = None
    BY <2>1, <2>3 DEF LrnUnconsumed
  <2> HIDE DEF todo, run
  <2>. QED  BY <1>3, <2>3, <2>5, <2>7, <2>8
<1>5. CASE LrnToRelease(t)
  <2>1. /\ lrnTask' = [lrnTask EXCEPT ![t] = [pc |-> "release", run |-> run, todo |-> LrnClaimedBy(run)]]
        /\ lrnRows' = lrnRows
    BY <1>5 DEF LrnToRelease
  <2>2. /\ DOMAIN lrnTask' = LrnTasks /\ \A u \in LrnTasks \ {t} : lrnTask'[u] = lrnTask[u]
        /\ lrnTask'[t] = [pc |-> "release", run |-> run, todo |-> LrnClaimedBy(run)]
    BY <2>1
  <2>3. LrnClaimedBy(run) = {f \in DOMAIN lrnRows' : lrnRows'[f].consumed_by = lrnTask'[t].run}
    BY <2>1, <2>2 DEF LrnClaimedBy
  <2>4. LrnTaskOK(t)'
    BY <1>2, <1>u, <2>2, <2>3 DEF LrnTaskOK, LrnClaimedBy
  <2>5. LrnRowsOK'
    BY <1>u, <2>1 DEF LrnRowsOK
  <2> HIDE DEF run
  <2>. QED  BY <1>3, <2>1, <2>2, <2>4, <2>5
<1>6. CASE LrnRelease(t)
  <2> DEFINE todo == lrnTask[t].todo
  <2>1. /\ todo = LrnClaimedBy(run) /\ todo \in SUBSET DOMAIN lrnRows /\ todo # {}
        /\ lrnTask[t].pc = "release"
    BY <1>2, <1>6 DEF LrnClaimedBy, LrnRelease
  <2>2. lrnRows' = LrnStamp(lrnRows, todo, None) /\ lrnRuns' = lrnRuns
    BY <1>6 DEF LrnRelease
  <2>3. /\ LrnRowsOK' /\ LrnNewest(todo) \in todo
        /\ lrnRows'[LrnNewest(todo)].consumed_by = None
        /\ \A f \in DOMAIN lrnRows \ {LrnNewest(todo)} : lrnRows'[f] = lrnRows[f]
        /\ DOMAIN lrnRows' = DOMAIN lrnRows
    BY <2>1, <2>2, LrnStamped
  <2>4. lrnTask' = [lrnTask EXCEPT ![t].todo = todo \ {LrnNewest(todo)}]
    BY <1>6 DEF LrnRelease
  <2>5. /\ DOMAIN lrnTask' = LrnTasks /\ \A u \in LrnTasks \ {t} : lrnTask'[u] = lrnTask[u]
        /\ lrnTask'[t].run = run /\ lrnTask'[t].pc = "release"
        /\ lrnTask'[t].todo = todo \ {LrnNewest(todo)} /\ DOMAIN lrnTask'[t] = DOMAIN lrnTask[t]
    BY <1>2, <2>1, <2>4
  <2>6. lrnTask'[t].todo = {f \in DOMAIN lrnRows' : lrnRows'[f].consumed_by = lrnTask'[t].run}
    BY <1>2, <2>1, <2>3, <2>5 DEF LrnClaimedBy
  <2>7. LrnTaskOK(t)'
    BY <1>2, <1>u, <2>5, <2>6 DEF LrnTaskOK, LrnClaimedBy
  <2>8. lrnRows[LrnNewest(todo)].consumed_by = run
    BY <2>1, <2>3 DEF LrnClaimedBy
  <2> HIDE DEF todo, run
  <2>. QED  BY <1>3, <2>3, <2>5, <2>7, <2>8
<1>. QED  BY <1>4, <1>5, <1>6

\* A request ends: refused, or with its run in training.
LEMMA LrnAnswers ==
  ASSUME lrnBackend = "sqlite", LrnInv, NEW t \in LrnTasks, LrnBlocked(t) \/ LrnLaunch(t)
  PROVE  LrnInv' /\ LrnKeepsCompleted
<1>. USE DEF LrnInv
<1>1. /\ \A u \in LrnTasks \ {t} : lrnTask[u].pc = "idle"
      /\ \A r \in DOMAIN lrnJobs : lrnJobs[r].pc = "train"
      /\ lrnTask[t].pc \in {"claim", "release"}
  BY DEF LrnBlocked, LrnLaunch, LrnClaimed, LrnMayRun, LrnAlone
<1>2. PICK run \in DOMAIN lrnRuns :
        /\ run = lrnTask[t].run /\ lrnRuns[run].status = "pending" /\ run # None
        /\ lrnTask[t].pc = "release" => lrnTask[t].todo = LrnClaimedBy(run)
  <2>1. \A r \in DOMAIN lrnRuns : r # None
    BY LrnAssumption DEF LrnRowsOK
  <2>. QED  BY <1>1, <2>1 DEF LrnTaskOK
<1>3. run \notin DOMAIN lrnJobs
  BY <1>2 DEF LrnJobOK
<1>4. UNCHANGED <<lrnBackend, lrnValSet, lrnRows, lrnCrashed>> /\ lrnTask' = [lrnTask EXCEPT ![t] = LrnIdle]
  BY DEF LrnBlocked, LrnLaunch
<1>5. DOMAIN lrnTask' = LrnTasks /\ \A u \in LrnTasks : lrnTask'[u].pc = "idle"
  BY <1>1, <1>4 DEF LrnIdle
<1>6. LrnKeepsCompleted
  BY <1>4 DEF LrnKeepsCompleted
<1>7. \A r : LrnAtWork(r) => r \in DOMAIN lrnJobs \cup {run}
  BY <1>1, <1>2 DEF LrnAtWork
<1>8. CASE LrnBlocked(t)
  <2> DEFINE changes == [status |-> "blocked"]
  <2>1. lrnRuns' = Patch(lrnRuns, run, changes) /\ lrnJobs' = lrnJobs /\ LrnClaimedBy(run) = {}
    BY <1>2, <1>8 DEF LrnBlocked, LrnFinish
  <2>2. LrnRowsOK' /\ \A r \in DOMAIN lrnRuns \ {run} : lrnRuns'[r] = lrnRuns[r]
    BY <1>4, <2>1, LrnPatched
  <2>3. \A r \in DOMAIN lrnJobs' : LrnJobOK(r)'
    <3>1. \A r \in DOMAIN lrnJobs : r \in DOMAIN lrnRuns \ {run}
      BY <1>3 DEF LrnJobOK
    <3>2. DOMAIN lrnRuns' = DOMAIN lrnRuns
      BY <2>1, PatchTable
    <3>. QED  BY <1>1, <2>1, <2>2, <3>1, <3>2 DEF LrnJobOK
  <2>4. \A f \in DOMAIN lrnRows : lrnRows[f].consumed_by # run
    BY <2>1 DEF LrnClaimedBy
  <2>5. LrnNothingStranded'
    <3>1. \A r : LrnAtWork(r) /\ r # run => LrnAtWork(r)'
      BY <1>7, <2>1 DEF LrnAtWork
    <3>. QED  BY <1>4, <2>2, <2>4, <3>1 DEF LrnNothingStranded, LrnRowsOK
  <2>. QED  BY <1>1, <1>4, <1>5, <1>6, <2>1, <2>2, <2>3, <2>5 DEF LrnTaskOK
<1>9. CASE LrnLaunch(t)
  <2> DEFINE changes == [samples |-> Cardinality(lrnTask[t].rows), status |-> "running"]
  <2> DEFINE job == [pc |-> "train", rows |-> lrnTask[t].rows, todo |-> {}]
  <2>1. lrnRuns' = Patch(lrnRuns, run, changes) /\ lrnJobs' = Changed(lrnJobs, [r \in {run} |-> job])
    BY <1>2, <1>9 DEF LrnLaunch
  <2>2. /\ LrnRowsOK' /\ lrnRuns'[run].status = "running"
        /\ \A r \in DOMAIN lrnRuns \ {run} : lrnRuns'[r] = lrnRuns[r]
    BY <1>4, <2>1, LrnPatched
  <2>3. DOMAIN lrnRuns' = DOMAIN lrnRuns
    BY <2>1, PatchTable
  <2>4. /\ DOMAIN lrnJobs' = DOMAIN lrnJobs \cup {run} /\ lrnJobs'[run] = job
        /\ \A r \in DOMAIN lrnJobs : lrnJobs'[r] = lrnJobs[r]
    BY <1>3, <2>1 DEF Changed
  <2>5. \A r \in DOMAIN lrnJobs' : LrnJobOK(r)'
    BY <1>1, <1>2, <1>3, <2>2, <2>3, <2>4 DEF LrnJobOK
  <2>6. \A r \in DOMAIN lrnJobs' : lrnJobs'[r].pc = "train"
    BY <1>1, <2>4
  <2>7. LrnNothingStranded'
    <3>1. \A r : LrnAtWork(r) => LrnAtWork(r)'
      BY <1>7, <2>4 DEF LrnAtWork
    <3>2. \A r \in DOMAIN lrnRuns : lrnRuns[r].status = "completed" => lrnRuns'[r].status = "completed"
      BY <1>2, <2>2
    <3>. QED  BY <1>4, <3>1, <3>2 DEF LrnNothingStranded, LrnRowsOK
  <2>. QED  BY <1>4, <1>5, <1>6, <2>2, <2>5, <2>6, <2>7 DEF LrnTaskOK
<1>. QED  BY <1>8, <1>9

\* A job that raises gives back, row after row.
LEMMA LrnJobGivesBack ==
  ASSUME lrnBackend = "sqlite", LrnInv, NEW run \in LrnRunIds, LrnRaises(run) \/ LrnReleaseJob(run)
  PROVE  LrnInv' /\ LrnKeepsCompleted
<1>. USE DEF LrnInv
<1>1. /\ \A u \in LrnTasks : lrnTask[u].pc = "idle"
      /\ \A r \in DOMAIN lrnJobs \ {run} : lrnJobs[r].pc = "train"
      /\ run \in DOMAIN lrnJobs
  BY DEF LrnRaises, LrnReleaseJob, LrnJobMayRun, LrnAlone
<1>2. /\ run \in DOMAIN lrnRuns /\ lrnRuns[run].status = "running" /\ run # None
      /\ {"pc", "todo"} \subseteq DOMAIN lrnJobs[run]
      /\ lrnJobs[run].pc = "release" => lrnJobs[run].todo = LrnClaimedBy(run)
      /\ LrnAtWork(run)
  <2>1. \A r \in DOMAIN lrnRuns : r # None
    BY LrnAssumption DEF LrnRowsOK
  <2>. QED  BY <1>1, <2>1 DEF LrnJobOK, LrnAtWork
<1>u. UNCHANGED <<lrnBackend, lrnValSet, lrnRuns, lrnTask, lrnRunning, lrnCrashed>>
  BY DEF LrnRaises, LrnReleaseJob
<1>3. ASSUME LrnRowsOK', LrnJobOK(run)', DOMAIN lrnJobs' = DOMAIN lrnJobs,
             \A r \in DOMAIN lrnJobs \ {run} : lrnJobs'[r] = lrnJobs[r],
             DOMAIN lrnRows' = DOMAIN lrnRows,
             \A f \in DOMAIN lrnRows :
               \/ lrnRows'[f].consumed_by = lrnRows[f].consumed_by
               \/ lrnRows[f].consumed_by = run /\ lrnRows'[f].consumed_by = None
      PROVE  LrnInv' /\ LrnKeepsCompleted
  <2>1. \A r \in DOMAIN lrnJobs' : LrnJobOK(r)'
    BY <1>1, <1>3, <1>u DEF LrnJobOK
  <2>2. \A r : LrnAtWork(r) => LrnAtWork(r)'
    BY <1>3, <1>u DEF LrnAtWork
  <2>3. LrnNothingStranded'
    BY <1>3, <1>u, <2>2 DEF LrnNothingStranded
  <2>4. LrnKeepsCompleted
    BY <1>2, <1>3 DEF LrnKeepsCompleted
  <2>5. \A r \in DOMAIN lrnJobs' : lrnJobs'[r].pc = "release" => LrnJobMayRun(r)'
    BY <1>1, <1>3, <1>u DEF LrnJobMayRun, LrnAlone
  <2>. QED  BY <1>1, <1>3, <1>u, <2>1, <2>3, <2>4, <2>5 DEF LrnTaskOK
<1>4. CASE LrnRaises(run)
  <2>1. lrnJobs' = [lrnJobs EXCEPT ![run].pc = "release", ![run].todo = LrnClaimedBy(run)] /\ lrnRows' = lrnRows
    BY <1>4 DEF LrnRaises, LrnGivesBack
  <2>2. /\ DOMAIN lrnJobs' = DOMAIN lrnJobs /\ \A r \in DOMAIN lrnJobs \ {run} : lrnJobs'[r] = lrnJobs[r]
        /\ lrnJobs'[run].pc = "release" /\ lrnJobs'[run].todo = LrnClaimedBy(run)
        /\ DOMAIN lrnJobs'[run] = DOMAIN lrnJobs[run]
    BY <1>1, <1>2, <2>1
  <2>3. LrnJobOK(run)'
    BY <1>2, <1>u, <2>1, <2>2 DEF LrnJobOK, LrnClaimedBy
  <2>4. LrnRowsOK'
    BY <1>u, <2>1 DEF LrnRowsOK
  <2>. QED  BY <1>3, <2>1, <2>2, <2>3, <2>4
<1>5. CASE LrnReleaseJob(run)
  <2> DEFINE todo == lrnJobs[run].todo
  <2>1. /\ todo = LrnClaimedBy(run) /\ todo \in SUBSET DOMAIN lrnRows /\ todo # {}
        /\ lrnJobs[run].pc = "release"
    BY <1>2, <1>5 DEF LrnClaimedBy, LrnReleaseJob
  <2>2. lrnRows' = LrnStamp(lrnRows, todo, None) /\ lrnRuns' = lrnRuns
    BY <1>5 DEF LrnReleaseJob
  <2>3. /\ LrnRowsOK' /\ LrnNewest(todo) \in todo
        /\ lrnRows'[LrnNewest(todo)].consumed_by = None
        /\ \A f \in DOMAIN lrnRows \ {LrnNewest(todo)} : lrnRows'[f] = lrnRows[f]
        /\ DOMAIN lrnRows' = DOMAIN lrnRows
    BY <2>1, <2>2, LrnStamped
  <2>4. lrnJobs' = [lrnJobs EXCEPT ![run].todo = todo \ {LrnNewest(todo)}]
    BY <1>5 DEF LrnReleaseJob
  <2>5. /\ DOMAIN lrnJobs' = DOMAIN lrnJobs /\ \A r \in DOMAIN lrnJobs \ {run} : lrnJobs'[r] = lrnJobs[r]
        /\ lrnJobs'[run].pc = "release"
        /\ lrnJobs'[run].todo = todo \ {LrnNewest(todo)} /\ DOMAIN lrnJobs'[run] = DOMAIN lrnJobs[run]
    BY <1>1, <1>2, <2>1, <2>4
  <2>6. lrnJobs'[run].todo = {f \in DOMAIN lrnRows' : lrnRows'[f].consumed_by = run}
    BY <1>2, <2>1, <2>3, <2>5 DEF LrnClaimedBy
  <2>7. LrnJobOK(run)'
    BY <1>2, <1>u, <2>5, <2>6 DEF LrnJobOK, LrnClaimedBy
  <2>8. lrnRows[LrnNewest(todo)].consumed_by = run
    BY <2>1, <2>3 DEF LrnClaimedBy
  <2> HIDE DEF todo
  <2>. QED  BY <1>3, <2>3, <2>5, <2>7, <2>8
<1>. QED  BY <1>4, <1>5

\* A job ends, in one way or the other, or its process does.
LEMMA LrnJobEnds ==
  ASSUME lrnBackend = "sqlite", LrnInv, NEW run \in LrnRunIds,
         LrnFailed(run) \/ \E promoted \in BOOLEAN : LrnTrained(run, promoted)
  PROVE  LrnInv' /\ LrnKeepsCompleted
<1>. USE DEF LrnInv
<1>1. /\ \A u \in LrnTasks : lrnTask[u].pc = "idle"
      /\ \A r \in DOMAIN lrnJobs \ {run} : lrnJobs[r].pc = "train"
      /\ run \in DOMAIN lrnJobs
  BY DEF LrnFailed, LrnTrained, LrnJobMayRun, LrnAlone
<1>2. run \in DOMAIN lrnRuns /\ lrnRuns[run].status = "running"
  BY <1>1 DEF LrnJobOK
<1>u. UNCHANGED <<lrnBackend, lrnValSet, lrnRows, lrnTask, lrnRunning, lrnCrashed>> /\ lrnJobs' = Delete(lrnJobs, run)
  BY DEF LrnFailed, LrnTrained
<1>3. PICK changes : /\ "status" \in DOMAIN changes /\ lrnRuns' = Patch(lrnRuns, run, changes)
                     /\ changes.status = "completed" \/ LrnClaimedBy(run) = {}
  <2>1. CASE LrnFailed(run)
    <3> DEFINE changes == [status |-> "failed"]
    <3>1. LrnClaimedBy(run) = {} /\ lrnRuns' = Patch(lrnRuns, run, changes)
      BY <1>1, <2>1 DEF LrnFailed, LrnFinish, LrnJobOK
    <3>. QED  BY <3>1
  <2>2. ASSUME NEW promoted \in BOOLEAN, LrnTrained(run, promoted)
        PROVE  \E changes : /\ "status" \in DOMAIN changes /\ lrnRuns' = Patch(lrnRuns, run, changes)
                            /\ changes.status = "completed" \/ LrnClaimedBy(run) = {}
    <3> DEFINE changes == [status |-> "completed", promoted |-> promoted,
                           samples |-> Cardinality(LrnUsable(lrnJobs[run].rows))]
    <3>1. lrnRuns' = Patch(lrnRuns, run, changes) /\ "status" \in DOMAIN changes
          /\ changes.status = "completed"
      BY <2>2 DEF LrnTrained
    <3>. QED  BY <3>1
  <2>. QED  BY <2>1, <2>2
<1>4. /\ LrnRowsOK' /\ lrnRuns'[run].status = changes.status
      /\ \A r \in DOMAIN lrnRuns \ {run} : lrnRuns'[r] = lrnRuns[r]
  BY <1>2, <1>3, <1>u, LrnPatched
<1>5. DOMAIN lrnRuns' = DOMAIN lrnRuns
  BY <1>3, PatchTable
<1>6. DOMAIN lrnJobs' = DOMAIN lrnJobs \ {run} /\ \A r \in DOMAIN lrnJobs' : lrnJobs'[r] = lrnJobs[r]
  BY <1>u DEF Delete
<1>7. \A r \in DOMAIN lrnJobs' : LrnJobOK(r)'
  BY <1>1, <1>4, <1>5, <1>6 DEF LrnJobOK
<1>8. \A r : LrnAtWork(r) /\ r # run => LrnAtWork(r)'
  BY <1>6, <1>u DEF LrnAtWork
<1>9. LrnNothingStranded'
  <2>1. \A f \in DOMAIN lrnRows : lrnRows[f].consumed_by = run => lrnRuns'[run].status = "completed"
    BY <1>3, <1>4 DEF LrnClaimedBy
  <2>. QED  BY <1>4, <1>8, <1>u, <2>1 DEF LrnNothingStranded, LrnRowsOK
<1>10. LrnKeepsCompleted
  BY <1>u DEF LrnKeepsCompleted
<1>. QED  BY <1>1, <1>4, <1>6, <1>7, <1>9, <1>10, <1>u DEF LrnTaskOK

(* On SQLite, what a completed run trained on stays its own, and every     *)
(* other claimed review belongs to a run at work, or came back: for any    *)
(* number of requests, reviews and runs (_execute, start_run).             *)
THEOREM ReviewsAreNotLost == LrnSpec => []LrnNothingStranded /\ LrnCompletedKeeps
<1>1. LrnInit => LrnInv
  <2> SUFFICES ASSUME LrnInit PROVE LrnInv
    OBVIOUS
  <2>1. DOMAIN lrnRows = 1 .. 0 /\ DOMAIN lrnRuns = 1 .. 0 /\ DOMAIN lrnJobs = {}
    BY DEF LrnInit
  <2>2. DOMAIN lrnTask = LrnTasks /\ \A t \in LrnTasks : lrnTask[t].pc = "idle"
    BY DEF LrnInit, LrnIdle
  <2>. QED  BY <2>1, <2>2 DEF LrnInv, LrnRowsOK, LrnTaskOK, LrnNothingStranded
<1>2. LrnInv /\ [LrnNext]_lrnVars => LrnInv' /\ LrnKeepsCompleted
  <2> SUFFICES ASSUME LrnInv, [LrnNext]_lrnVars PROVE LrnInv' /\ LrnKeepsCompleted
    OBVIOUS
  <2>1. lrnBackend' = lrnBackend
    BY DEF LrnNext, LrnProgress, LrnRecord, LrnStart, LrnList, LrnClaim, LrnToRelease, LrnRelease, LrnBlocked,
           LrnLaunch, LrnRaises, LrnReleaseJob, LrnFailed, LrnTrained, LrnRestart, lrnVars
  <2>2. CASE lrnBackend # "sqlite"
    BY <2>1, <2>2 DEF LrnInv, LrnKeepsCompleted
  <2>3. CASE lrnBackend = "sqlite" /\ LrnRestart
    <3>. USE DEF LrnInv
    <3>1. /\ DOMAIN lrnTask' = LrnTasks /\ \A t \in LrnTasks : lrnTask'[t].pc = "idle"
          /\ DOMAIN lrnJobs' = {} /\ UNCHANGED <<lrnBackend, lrnRows, lrnRuns>>
      BY <2>3 DEF LrnRestart, LrnIdle
    <3>2. ~ lrnCrashed' => ~ lrnCrashed /\ DOMAIN lrnJobs = {} /\ \A t \in LrnTasks : lrnTask[t].pc = "idle"
      <4>1. ~ lrnCrashed' => ~ lrnCrashed /\ lrnJobs = <<>> /\ \A t \in LrnTasks : lrnTask[t].pc = "idle"
        BY <2>3, Zenon DEF LrnRestart
      <4>. QED  BY <4>1
    <3>3. LrnNothingStranded'
      BY <3>1, <3>2 DEF LrnNothingStranded, LrnAtWork
    <3>. QED  BY <3>1, <3>3 DEF LrnRowsOK, LrnTaskOK, LrnKeepsCompleted
  <2>4. CASE lrnBackend = "sqlite" /\ UNCHANGED lrnVars
    BY <2>4 DEF lrnVars, LrnInv, LrnKeepsCompleted, LrnRowsOK, LrnTaskOK, LrnJobOK, LrnMayRun, LrnJobMayRun, LrnAlone,
                LrnNothingStranded, LrnAtWork, LrnUnconsumed, LrnClaimedBy
  <2>5. CASE lrnBackend = "sqlite" /\ LrnNext /\ ~ LrnRestart
    <3>1. CASE \/ \E f \in LrnRows, sample \in {"positive", "negative", "skipped"} : LrnRecord(f, sample)
               \/ \E t \in LrnTasks, run \in LrnRunIds : LrnStart(t, run)
               \/ \E t \in LrnTasks : LrnList(t)
      BY <2>5, <3>1, LrnBegins
    <3>2. CASE \E t \in LrnTasks : LrnClaim(t) \/ LrnToRelease(t) \/ LrnRelease(t)
      BY <2>5, <3>2, LrnClaims
    <3>3. CASE \E t \in LrnTasks : LrnBlocked(t) \/ LrnLaunch(t)
      BY <2>5, <3>3, LrnAnswers
    <3>4. CASE \E run \in LrnRunIds : LrnRaises(run) \/ LrnReleaseJob(run)
      BY <2>5, <3>4, LrnJobGivesBack
    <3>5. CASE \E run \in LrnRunIds : LrnFailed(run) \/ \E promoted \in BOOLEAN : LrnTrained(run, promoted)
      BY <2>5, <3>5, LrnJobEnds
    <3>. QED  BY <2>5, <3>1, <3>2, <3>3, <3>4, <3>5 DEF LrnNext, LrnProgress
  <2>. QED  BY <2>2, <2>3, <2>4, <2>5
<1>3. LrnInv => LrnNothingStranded
  BY DEF LrnInv, LrnNothingStranded
<1>. QED  BY <1>1, <1>2, <1>3, PTL DEF LrnSpec, LrnCompletedKeeps, LrnKeepsCompleted
=============================================================================
