------------------------------ MODULE PhoneLink ------------------------------
(***************************************************************************)
(* What the server sees of a worker's phones: sockets that are opened,     *)
(* carry numbered frames, are closed or lose their connection, and are not *)
(* used again.  Several may be open at once, for a worker may be signed in *)
(* on two phones.  CameraStreamer takes these steps from inside the phone, *)
(* WorkerFeeds is the server at the other end.                             *)
(***************************************************************************)
EXTENDS Naturals, Sequences, FiniteSets

CONSTANTS
  Conns,       \* the sockets that may be opened (a bound)
  NoConn,
  MaxFrames    \* bound on the frames captured

ASSUME LinkAssumption ==
  /\ IsFiniteSet(Conns) /\ NoConn \notin Conns
  /\ MaxFrames \in Nat \ {0}

\* Frames are numbered in the order in which they are captured.
Frames == 1..MaxFrames

VARIABLES
  link,        \* the connection behind each socket
  wire,        \* frames on their way to the server, by socket
  captured     \* frames sent so far (bounded)

linkVars == <<link, wire, captured>>

LinkTypeOK ==
  /\ link \in [Conns -> {"unused", "open", "closed", "lost"}]
  /\ wire \in [Conns -> Seq(Frames)]
  /\ captured \in 0..MaxFrames

LinkInit ==
  /\ link = [c \in Conns |-> "unused"]
  /\ wire = [c \in Conns |-> << >>]
  /\ captured = 0

Unused == {c \in Conns : link[c] = "unused"}

Connect(c) ==
  /\ c \in Unused /\ link' = [link EXCEPT ![c] = "open"]
  /\ UNCHANGED <<wire, captured>>

\* _onImage: a frame for a dead socket goes nowhere.
Send(c) ==
  /\ link[c] = "open" /\ captured < MaxFrames
  /\ captured' = captured + 1
  /\ wire' = [wire EXCEPT ![c] = Append(@, captured')]
  /\ UNCHANGED link

HangUp(c) ==
  /\ link[c] = "open" /\ link' = [link EXCEPT ![c] = "closed"]
  /\ UNCHANGED <<wire, captured>>

\* Mutant of Lose: a lost socket is kept for another try.
LoseAndRetry(c) ==
  /\ link[c] = "open" /\ link' = [link EXCEPT ![c] = "retrying"]
  /\ UNCHANGED <<wire, captured>>

\* The network loses the connection; the streamer does not open another.
Lose(c) ==
  /\ link[c] = "open" /\ link' = [link EXCEPT ![c] = "lost"]
  /\ UNCHANGED <<wire, captured>>

LinkNext == \E c \in Conns : Connect(c) \/ Send(c) \/ HangUp(c) \/ Lose(c)
=============================================================================
