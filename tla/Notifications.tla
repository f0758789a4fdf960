----------------------------- MODULE Notifications ----------------------------
(***************************************************************************)
(* notifications/service.py: one logical notification goes to its channels *)
(* one after the other; per channel a mark in the trigger cache merges     *)
(* repetitions within the dedup window, and a sender that fails is retried *)
(* with a growing pause.  With the Redis cache the look-up and the mark    *)
(* are two round trips; in memory a task does both without a break.        *)
(***************************************************************************)
EXTENDS Tables

CONSTANTS
  NotifTasks,     \* callers of notify: events, rules, questions
  NotifKeys,      \* dedup keys
  NotifChannels,  \* a sequence: the channels of the severity, in order
  NotifSenders,   \* the channels an integration is registered for
  NotifWindow,    \* dedup_window_s
  NotifAttempts,  \* max_attempts
  NotifMaxNotes,  \* bound on the notes drawn
  NotifMaxTime    \* bound on the clock

ASSUME NotifAssumption == NotifWindow \in Nat /\ NotifChannels \in Seq(STRING) \ {<<>>}

VARIABLES
  notifCache,     \* "memory" or "redis"
  notifMarks,     \* <<channel, key>> -> when its mark expires
  notifTask,      \* [NotifTasks -> where each call is]
  notifNotes,     \* the notes drawn, in order: [channel, key, at, attempts, status]
  notifNow,
  notifBroken     \* history: a call of notify was broken off by the bus or the table

notifVars == <<notifCache, notifMarks, notifTask, notifNotes, notifNow, notifBroken>>

NotifIdle == [pc |-> "idle"]

NotifInit ==
  /\ notifCache \in {"memory", "redis"}
  /\ notifMarks = <<>>
  /\ notifTask = [t \in NotifTasks |-> NotifIdle]
  /\ notifNotes = <<>>
  /\ notifNow = 0 /\ notifBroken = FALSE

\* Mutant of NotifMarked: the mark is gone in the tick it expires in.
NotifMarkedShort(mark) == mark \in DOMAIN notifMarks /\ notifMarks[mark] > notifNow

\* the mark lives through the very tick it expires in
NotifMarked(mark) == mark \in DOMAIN notifMarks /\ notifMarks[mark] >= notifNow

\* bound: every note the calls at work may still draw has its place
NotifRoom ==
  LET calls == 1 + Cardinality({t \in NotifTasks : notifTask[t].pc # "idle"})
  IN Len(notifNotes) + calls * Len(NotifChannels) <= NotifMaxNotes

NotifCall(t, key) ==
  /\ notifTask[t].pc = "idle" /\ NotifRoom
  /\ notifTask' = [notifTask EXCEPT ![t] = [pc |-> "look", key |-> key, at |-> 1]]
  /\ UNCHANGED <<notifCache, notifMarks, notifNotes, notifNow, notifBroken>>

NotifMark(t) == <<NotifChannels[notifTask[t].at], notifTask[t].key>>

\* the next channel of this call, or its end
NotifNext1(t) ==
  notifTask' = [notifTask EXCEPT ![t] =
    IF @.at = Len(NotifChannels) THEN NotifIdle ELSE [pc |-> "look", key |-> @.key, at |-> @.at + 1]]

\* Mutant of NotifMergeTtl: a duplicate keeps the first mark's expiry.
NotifMergeTtlKept(mark) == notifMarks

NotifMergeTtl(mark) == [notifMarks EXCEPT ![mark] = notifNow + NotifWindow]

(* A repetition within the window is merged, and extends the window. *)
NotifMerge(t) ==
  /\ notifTask[t].pc = "look" /\ NotifMarked(NotifMark(t))
  /\ notifMarks' = NotifMergeTtl(NotifMark(t))
  /\ NotifNext1(t)
  /\ UNCHANGED <<notifCache, notifNotes, notifNow, notifBroken>>

NotifNote(t) ==
  [channel |-> NotifChannels[notifTask[t].at], key |-> notifTask[t].key, at |-> notifNow,
   attempts |-> 0, status |-> "queued"]

\* the mark is set before anything is delivered
NotifDraw(t) ==
  /\ notifMarks' = Changed(notifMarks, [mark \in {NotifMark(t)} |-> notifNow + NotifWindow])
  /\ notifNotes' = Append(notifNotes, NotifNote(t))
  /\ notifTask' = [notifTask EXCEPT ![t] = [pc |-> "send", key |-> @.key, at |-> @.at,
                                            note |-> Len(notifNotes) + 1]]
  /\ UNCHANGED <<notifCache, notifNow, notifBroken>>

NotifFresh(t) ==
  /\ notifTask[t].pc = "look" /\ ~ NotifMarked(NotifMark(t))
  /\ IF notifCache = "memory" THEN NotifDraw(t)
     ELSE /\ notifTask' = [notifTask EXCEPT ![t].pc = "mark"]
          /\ UNCHANGED <<notifCache, notifMarks, notifNotes, notifNow, notifBroken>>

NotifSetMark(t) == notifTask[t].pc = "mark" /\ NotifDraw(t)

NotifSaved(t, note) == notifNotes' = [notifNotes EXCEPT ![notifTask[t].note] = note]

\* the dashboard: onto the bus, then saved; a channel without a sender: saved
NotifDeliverHere(t) ==
  LET note == notifNotes[notifTask[t].note]
  IN /\ notifTask[t].pc = "send" /\ note.channel \notin NotifSenders
     /\ NotifSaved(t, IF note.channel = "dashboard" THEN [note EXCEPT !.status = "sent"]
                      ELSE [note EXCEPT !.status = "skipped"])
     /\ NotifNext1(t)
     /\ UNCHANGED <<notifCache, notifMarks, notifNow, notifBroken>>

NotifSent(t) ==
  LET note == notifNotes[notifTask[t].note]
  IN /\ notifTask[t].pc = "send" /\ note.channel \in NotifSenders
     /\ NotifSaved(t, [note EXCEPT !.attempts = @ + 1, !.status = "sent"])
     /\ NotifNext1(t)
     /\ UNCHANGED <<notifCache, notifMarks, notifNow, notifBroken>>

\* Mutant of NotifGivesUp: the last failure leaves the whole call.
NotifGivesUpAll(t) == notifTask' = [notifTask EXCEPT ![t] = NotifIdle]

NotifGivesUp(t) == NotifNext1(t)

(* An attempt says no or raises: again after the pause, or "failed" and on *)
(* to the next channel.                                                    *)
NotifUnsent(t) ==
  LET note == notifNotes[notifTask[t].note]
  IN /\ notifTask[t].pc = "send" /\ note.channel \in NotifSenders
     /\ IF note.attempts + 1 < NotifAttempts
        THEN /\ NotifSaved(t, [note EXCEPT !.attempts = @ + 1])
             /\ notifTask' = [notifTask EXCEPT ![t].pc = "pause"]
        ELSE /\ NotifSaved(t, [note EXCEPT !.attempts = @ + 1, !.status = "failed"])
             /\ NotifGivesUp(t)
     /\ UNCHANGED <<notifCache, notifMarks, notifNow, notifBroken>>

NotifRetry(t) ==
  /\ notifTask[t].pc = "pause"
  /\ notifTask' = [notifTask EXCEPT ![t].pc = "send"]
  /\ UNCHANGED <<notifCache, notifMarks, notifNotes, notifNow, notifBroken>>

(* The bus or the table raises, instead of a delivery or after it: nothing *)
(* is saved and the call ends, with the later channels untried.  (Bound:   *)
(* it happens once.)                                                       *)
NotifBreaks(t) ==
  /\ notifTask[t].pc = "send" /\ ~ notifBroken
  /\ notifTask' = [notifTask EXCEPT ![t] = NotifIdle]
  /\ notifBroken' = TRUE
  /\ UNCHANGED <<notifCache, notifMarks, notifNotes, notifNow>>

NotifTick ==
  /\ notifNow < NotifMaxTime
  /\ notifNow' = notifNow + 1
  /\ UNCHANGED <<notifCache, notifMarks, notifTask, notifNotes, notifBroken>>

\* Fair: every sender answers, raises or times out, and a pause ends.
NotifWork(t) ==
  NotifMerge(t) \/ NotifFresh(t) \/ NotifSetMark(t) \/ NotifDeliverHere(t) \/ NotifSent(t)
    \/ NotifUnsent(t) \/ NotifRetry(t)

NotifNext ==
  \/ \E t \in NotifTasks, k \in NotifKeys : NotifCall(t, k)
  \/ \E t \in NotifTasks : NotifWork(t) \/ NotifBreaks(t)
  \/ NotifTick

NotifSpec == NotifInit /\ [][NotifNext]_notifVars

-----------------------------------------------------------------------------
(* Nobody is told twice of one thing within the window: two notes of a key *)
(* and channel are more than a window apart.  Two replicas or tasks over   *)
(* Redis can both find no mark.                                            *)
NotifOncePerWindow ==
  notifCache = "memory" =>
    \A i, j \in DOMAIN notifNotes :
      i < j /\ notifNotes[i].channel = notifNotes[j].channel /\ notifNotes[i].key = notifNotes[j].key =>
        notifNotes[j].at - notifNotes[i].at > NotifWindow

(* While a mark merges repetitions, there is a note it stands for, and the *)
(* repetitions of an issue keep it merged: a mark expires a full window    *)
(* after the last time the issue was raised, not after the first.          *)
NotifQuietWhileRepeated ==
  [][\A t \in NotifTasks : \A mark \in DOMAIN notifMarks :
       (notifTask[t].pc = "look" /\ NotifMark(t) = mark /\ notifTask'[t] # notifTask[t]
          /\ notifTask'[t].pc # "mark") => notifMarks'[mark] = notifNow + NotifWindow]_notifVars

(* A channel that fails for good holds up the ones after it no longer than *)
(* its retries: every channel of every call ends merged, sent, skipped or  *)
(* failed, so that a call that starts comes to its last channel, unless    *)
(* the bus or the table has raised.                                        *)
NotifEveryChannelTried ==
  \A t \in NotifTasks :
    notifTask[t].pc = "look" ~>
      \/ notifTask[t].pc # "idle" /\ notifTask[t].at = Len(NotifChannels)
      \/ notifBroken

(* An issue is told once per window while it lasts, and on every channel.  *)
NotifTellsOnceAndAll ==
  /\ []NotifOncePerWindow
  /\ NotifQuietWhileRepeated
  /\ NotifEveryChannelTried
=============================================================================
