----------------------------- MODULE WorkerFeeds -----------------------------
(***************************************************************************)
(* The edge server's side of one worker's camera (display/server.py        *)
(* ws_video, _read_frames, LatestFrame; display/feeds.py FeedRegistry),    *)
(* with any phone that behaves like PhoneLink at the other end.            *)
(*                                                                         *)
(* Every socket has a handler task and a reader task.  The reader puts     *)
(* frames into a one-place slot, the handler takes one at a time through   *)
(* decoding, the detectors (browser_gate lets one frame in at a time) and  *)
(* the relay to the registry.  A phone that comes back has a new socket    *)
(* while the handler of the old one may still be at work.                  *)
(*                                                                         *)
(* Not modelled: the pixels, detections and counters of a feed, its zone   *)
(* and name, evict_stale (never called), sockets without a worker id.      *)
(***************************************************************************)
EXTENDS PhoneLink

NoFeed == MaxFrames + 1

VARIABLES
  pc,        \* where the handler of each socket is
  slot,      \* LatestFrame._payload, 0 when there is none
  shut,      \* LatestFrame._closed
  received,  \* history: the newest frame the reader has put
  taken,     \* the frame the handler has taken last
  gate,      \* who holds browser_gate
  feed       \* the newest frame of the worker's WorkerFeed, 0 before the first

serverVars == <<pc, slot, shut, received, taken, gate, feed>>
vars == <<linkVars, serverVars>>

\* The states of a handler between feeds.open and feeds.close.
Serving == {"waiting", "decoding", "queued", "inferring", "encoding",
            "replying", "closing"}

TypeOK ==
  /\ LinkTypeOK
  /\ pc \in [Conns -> {"none", "building", "done"} \cup Serving]
  /\ {slot, received, taken} \subseteq [Conns -> 0..MaxFrames]
  /\ shut \in [Conns -> BOOLEAN]
  /\ gate \in Conns \cup {NoConn}
  /\ feed \in 0..NoFeed

Init ==
  /\ LinkInit
  /\ pc = [c \in Conns |-> "none"]
  /\ slot = [c \in Conns |-> 0] /\ received = slot /\ taken = slot
  /\ shut = [c \in Conns |-> FALSE]
  /\ gate = NoConn
  /\ feed = NoFeed

Goto(c, s) == pc' = [pc EXCEPT ![c] = s]

\* Mutant of Replied: the error of the send escapes the handler.
RepliedRaising(c) ==
  \/ Goto(c, "waiting")
  \/ link[c] # "open" /\ Goto(c, "raised")

\* A reply ends the handler when it finds the socket closed.
Replied(c) ==
  \/ Goto(c, "waiting")
  \/ link[c] # "open" /\ Goto(c, "closing")

----------------------------------------------------------------------------
\* Mutant of Accept: the feed is opened before the pipeline is built.
AcceptListing(c) ==
  /\ pc[c] = "none" /\ link[c] = "open"
  /\ Goto(c, "building")
  /\ feed' = IF feed = NoFeed THEN 0 ELSE feed
  /\ UNCHANGED <<slot, shut, received, taken, gate>>

Accept(c) ==
  /\ pc[c] = "none" /\ link[c] = "open"
  /\ Goto(c, "building")
  /\ UNCHANGED <<slot, shut, received, taken, gate, feed>>

\* browser_pipeline() raised: close 1011.
Refuse(c) ==
  /\ pc[c] = "building"
  /\ Goto(c, "done")
  /\ UNCHANGED <<slot, shut, received, taken, gate, feed>>

\* feeds.open keeps a feed that is there.
Open(c) ==
  /\ pc[c] = "building"
  /\ Goto(c, "waiting")
  /\ feed' = IF feed = NoFeed THEN 0 ELSE feed
  /\ UNCHANGED <<slot, shut, received, taken, gate>>

\* Mutant of PutFrame: a full slot keeps the frame it has.
PutFrameIfEmpty(c, f) ==
  /\ slot' = [slot EXCEPT ![c] = IF @ = 0 THEN f ELSE @]
  /\ received' = [received EXCEPT ![c] = f]

\* LatestFrame.put: the newest frame replaces the one that waits.
PutFrame(c, f) ==
  /\ slot' = [slot EXCEPT ![c] = f]
  /\ received' = [received EXCEPT ![c] = f]

Receive(c) ==
  /\ pc[c] \in Serving /\ ~shut[c] /\ wire[c] # << >>
  /\ PutFrame(c, Head(wire[c]))
  /\ UNCHANGED <<pc, shut, taken, gate, feed>>

\* Mutant of ReaderEnds: the slot is not closed.
ReaderEndsSilently(c) ==
  /\ pc[c] \in Serving /\ ~shut[c]
  /\ link[c] = "lost" \/ (link[c] = "closed" /\ wire[c] = << >>)
  /\ UNCHANGED serverVars

\* The reader's last step; a lost connection may take frames with it.
ReaderEnds(c) ==
  /\ pc[c] \in Serving /\ ~shut[c]
  /\ link[c] = "lost" \/ (link[c] = "closed" /\ wire[c] = << >>)
  /\ shut' = [shut EXCEPT ![c] = TRUE]
  /\ UNCHANGED <<pc, slot, received, taken, gate, feed>>

\* LatestFrame.get with a frame, and decode_frame.
Take(c) ==
  /\ pc[c] = "waiting" /\ slot[c] # 0
  /\ Goto(c, "decoding")
  /\ taken' = [taken EXCEPT ![c] = slot[c]]
  /\ slot' = [slot EXCEPT ![c] = 0]
  /\ UNCHANGED <<shut, received, gate, feed>>

\* LatestFrame.get after the end of the stream.
Drained(c) ==
  /\ pc[c] = "waiting" /\ slot[c] = 0 /\ shut[c]
  /\ Goto(c, "closing")
  /\ UNCHANGED <<slot, shut, received, taken, gate, feed>>

Undecodable(c) ==
  /\ pc[c] = "decoding"
  /\ Replied(c)
  /\ UNCHANGED <<slot, shut, received, taken, gate, feed>>

Decoded(c) ==
  /\ pc[c] = "decoding"
  /\ Goto(c, "queued")
  /\ UNCHANGED <<slot, shut, received, taken, gate, feed>>

Infer(c) ==
  /\ pc[c] = "queued" /\ gate = NoConn
  /\ gate' = c
  /\ Goto(c, "inferring")
  /\ UNCHANGED <<slot, shut, received, taken, feed>>

Inferred(c) ==
  /\ pc[c] = "inferring"
  /\ gate' = NoConn
  /\ Goto(c, "encoding")
  /\ UNCHANGED <<slot, shut, received, taken, feed>>

\* Mutant of InferenceFails: the lock is released after a result only.
InferenceFailsLocked(c) ==
  /\ pc[c] = "inferring"
  /\ Replied(c)
  /\ UNCHANGED <<slot, shut, received, taken, gate, feed>>

\* process_browser_frame raised: the lock is released, the phone is told.
InferenceFails(c) ==
  /\ pc[c] = "inferring"
  /\ gate' = NoConn
  /\ Replied(c)
  /\ UNCHANGED <<slot, shut, received, taken, feed>>

\* feeds.publish ignores a frame of a worker without a feed; a relay that
\* fails publishes nothing.
Publish(c) ==
  /\ pc[c] = "encoding"
  /\ Goto(c, "replying")
  /\ feed' \in {feed, IF feed = NoFeed THEN NoFeed ELSE taken[c]}
  /\ UNCHANGED <<slot, shut, received, taken, gate>>

Reply(c) ==
  /\ pc[c] = "replying"
  /\ Replied(c)
  /\ UNCHANGED <<slot, shut, received, taken, gate, feed>>

\* The finally block: the reader is cancelled, the feed closed.
Close(c) ==
  /\ pc[c] = "closing"
  /\ Goto(c, "done")
  /\ shut' = [shut EXCEPT ![c] = TRUE]
  /\ feed' = NoFeed
  /\ UNCHANGED <<slot, received, taken, gate>>

Reader(c) ==
  \/ Receive(c) /\ wire' = [wire EXCEPT ![c] = Tail(@)]
  \/ ReaderEnds(c) /\ UNCHANGED wire

Handler(c) ==
  \/ Refuse(c) \/ Open(c)
  \/ Take(c) \/ Drained(c) \/ Undecodable(c) \/ Decoded(c)
  \/ Infer(c) \/ Inferred(c) \/ InferenceFails(c)
  \/ Publish(c) \/ Reply(c) \/ Close(c)

ReaderStep(c)  == Reader(c) /\ UNCHANGED <<link, captured>>
HandlerStep(c) == Handler(c) /\ UNCHANGED linkVars

Next ==
  \/ LinkNext /\ UNCHANGED serverVars
  \/ \E c \in Conns :
       \/ Accept(c) /\ UNCHANGED linkVars
       \/ ReaderStep(c) \/ HandlerStep(c)

\* The event loop runs every task that can run, and asyncio.Lock is fair.
Fairness ==
  \A c \in Conns : WF_vars(ReaderStep(c)) /\ WF_vars(HandlerStep(c))

Spec == Init /\ [][Next]_vars /\ Fairness

----------------------------------------------------------------------------
(* The manager never sees a phone that is not there: a worker with a feed  *)
(* has a socket whose handler has opened it and will close it.             *)
NoGhostFeed == feed # NoFeed => \E c \in Conns : pc[c] \in Serving

(* The server's state is what its variables may hold, and a listed worker  *)
(* has a socket that is served.                                            *)
FeedIsServed ==
  TypeOK /\ NoGhostFeed

(* Latest frame wins on every socket: an empty slot means the handler has  *)
(* the newest frame that arrived, and a full one holds it (LatestFrame).   *)
LatestFrameWins ==
  \A c \in Conns : received[c] = IF slot[c] = 0 THEN taken[c] ELSE slot[c]

(* A frame that waits is taken (or its socket ends), whatever becomes of   *)
(* the frames of other sockets at the shared detectors.                    *)
EveryFrameGetsItsTurn ==
  \A c \in Conns : slot[c] # 0 ~> slot[c] = 0 \/ pc[c] = "done"

(* When no connection of the phone is left, the manager's list loses the   *)
(* worker, also after a connection that just died.                         *)
GonePhoneIsDelisted ==
  (\A c \in Conns : link[c] # "open") ~> feed = NoFeed

(* Frames keep getting their turn, and workers keep leaving the list.      *)
FeedsKeepMoving ==
  EveryFrameGetsItsTurn /\ GonePhoneIsDelisted

(* The registry holds "every worker currently streaming" (FeedRegistry): a *)
(* socket that is connected and served has its feed.                       *)
StreamingIsListed ==
  \A c \in Conns :
     link[c] = "open" /\ pc[c] \in Serving \ {"closing"} => feed # NoFeed
=============================================================================
