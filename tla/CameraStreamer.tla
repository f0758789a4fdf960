--------------------------- MODULE CameraStreamer ---------------------------
(***************************************************************************)
(* The worker's phone as a camera (worker_app/lib/core/camera_stream.dart) *)
(* and whoever opens and closes it: the toggle of the camera tab           *)
(* (screens/camera_tab.dart), the signed-in session and the life cycle of  *)
(* the app (main.dart).                                                    *)
(*                                                                         *)
(* start() suspends twice: while the camera opens, and while the image     *)
(* stream of the opened camera starts.  _teardown is one step, its awaits  *)
(* taken together: the camera plugin answers its calls in the order they   *)
(* are made, so a teardown has taken the socket before a start() made      *)
(* after it can open another.                                              *)
(*                                                                         *)
(* Not modelled: what is only shown on the screen (connected, error, fps   *)
(* and the counters) and accounts without a worker id.                     *)
(***************************************************************************)
EXTENDS PhoneLink

VARIABLES
  streaming, starting, wantOn,   \* the fields of these names
  opening,      \* calls of start() that wait for the camera to open
  imaging,      \* sockets whose start() waits for startImageStream
  channel,      \* _channel
  signedIn,     \* _SignedIn is mounted
  askedBy,      \* history: who last started or stopped the camera
  sturdy        \* the camera of this phone streams whenever it opens

cameraVars == <<streaming, starting, wantOn, opening, imaging, channel,
                signedIn, askedBy, sturdy, linkVars>>

CameraTypeOK ==
  /\ LinkTypeOK
  /\ {streaming, starting, wantOn, signedIn, sturdy} \subseteq BOOLEAN
  /\ opening \in Nat
  /\ imaging \in SUBSET Conns
  /\ channel \in Conns \cup {NoConn}
  /\ askedBy \in {"none", "tap", "session", "stop"}

CameraInit ==
  /\ LinkInit
  /\ streaming = FALSE /\ starting = FALSE /\ wantOn = FALSE
  /\ opening = 0 /\ imaging = {} /\ channel = NoConn
  /\ signedIn = FALSE /\ askedBy = "none"
  /\ sturdy \in BOOLEAN

\* start(), up to its first await.
Start ==
  /\ ~streaming /\ ~starting
  /\ opening < Cardinality(Unused)
  /\ wantOn' = TRUE /\ starting' = TRUE /\ opening' = opening + 1
  /\ UNCHANGED <<streaming, imaging, channel, sturdy, linkVars>>

\* Mutant of Teardown: the socket is forgotten and stays open.
TeardownForgetful ==
  /\ channel' = NoConn
  /\ UNCHANGED <<sturdy, linkVars>>

\* _teardown(): the socket is taken from the streamer and closed.
Teardown ==
  /\ channel' = NoConn
  /\ \/ channel # NoConn /\ HangUp(channel)
     \/ channel \notin {c \in Conns : link[c] = "open"} /\ UNCHANGED linkVars
  /\ UNCHANGED sturdy

----------------------------------------------------------------------------
\* The camera is open: _openSocket, then the image stream is asked for.
CameraOpens(c) ==
  /\ opening > 0 /\ opening' = opening - 1
  /\ Connect(c) /\ channel' = c
  /\ streaming' = TRUE /\ starting' = FALSE
  /\ imaging' = imaging \cup {c}
  /\ UNCHANGED <<wantOn, signedIn, askedBy, sturdy>>

\* No camera, no permission, initialize() failed: the catch branch.
CameraFails ==
  /\ opening > 0 /\ opening' = opening - 1
  /\ starting' = FALSE
  /\ Teardown
  /\ UNCHANGED <<streaming, wantOn, imaging, signedIn, askedBy>>

ImagesFlow(c) ==
  /\ c \in imaging /\ imaging' = imaging \ {c}
  /\ UNCHANGED <<streaming, starting, wantOn, opening, channel, signedIn,
                 askedBy, sturdy, linkVars>>

\* startImageStream throws: the same catch branch, with _streaming left on.
ImagesFail(c) ==
  /\ ~sturdy
  /\ c \in imaging /\ imaging' = imaging \ {c}
  /\ starting' = FALSE
  /\ Teardown
  /\ UNCHANGED <<streaming, wantOn, opening, signedIn, askedBy>>

----------------------------------------------------------------------------
\* The camera tab's button, which is disabled while the camera starts.
TapResume == signedIn /\ Start /\ askedBy' = "tap" /\ UNCHANGED signedIn

\* Mutant of Stop: the worker's wish is left as it was.
StopOnce ==
  /\ streaming' = FALSE
  /\ Teardown
  /\ askedBy' = "stop"
  /\ UNCHANGED <<starting, opening, imaging, wantOn>>

\* stop()
Stop ==
  /\ wantOn' = FALSE /\ streaming' = FALSE
  /\ Teardown
  /\ askedBy' = "stop"
  /\ UNCHANGED <<starting, opening, imaging>>

TapStop == signedIn /\ streaming /\ ~starting /\ Stop /\ UNCHANGED signedIn

\* A worker signs in, or something in the session changes (_syncCamera).
SessionChanges == Start /\ signedIn' = TRUE /\ askedBy' = "session"

\* The next worker signs in while start() for the last one still runs: the
\* call of start() returns at once.
SignInBusy ==
  /\ ~signedIn /\ (streaming \/ starting)
  /\ signedIn' = TRUE /\ askedBy' = "session"
  /\ UNCHANGED <<streaming, starting, wantOn, opening, imaging, channel,
                 sturdy, linkVars>>

\* _SignedIn.dispose(): stop() whatever the camera is doing.
SignOut == signedIn /\ Stop /\ signedIn' = FALSE

\* The app leaves the foreground (pauseForBackground) ...
Pause ==
  /\ signedIn /\ streaming /\ streaming' = FALSE
  /\ Teardown
  /\ UNCHANGED <<starting, wantOn, opening, imaging, signedIn, askedBy>>

\* ... and comes back (resumeFromBackground).
ResumeApp == signedIn /\ wantOn /\ Start /\ UNCHANGED <<signedIn, askedBy>>

----------------------------------------------------------------------------
\* _onImage
Capture ==
  /\ streaming /\ channel # NoConn /\ Send(channel)
  /\ UNCHANGED <<streaming, starting, wantOn, opening, imaging, channel,
                 signedIn, askedBy, sturdy>>

LinkLost(c) ==
  /\ Lose(c)
  /\ UNCHANGED <<streaming, starting, wantOn, opening, imaging, channel,
                 signedIn, askedBy, sturdy>>

CameraNext ==
  \/ \E c \in Conns :
       CameraOpens(c) \/ ImagesFlow(c) \/ ImagesFail(c) \/ LinkLost(c)
  \/ CameraFails
  \/ TapResume \/ TapStop
  \/ SessionChanges \/ SignInBusy \/ SignOut
  \/ Pause \/ ResumeApp
  \/ Capture

CameraSpec == CameraInit /\ [][CameraNext]_cameraVars

----------------------------------------------------------------------------
(* On a phone whose opened camera always streams (sturdy), what was        *)
(* stopped stays stopped through pauses, resumes, slow openings and lost   *)
(* links until the worker or a change of the session starts it again       *)
(* (_wantOn, resumeFromBackground).  Where startImageStream can throw,     *)
(* start() leaves _starting off under a second start(), and neither this   *)
(* nor the next holds.                                                     *)
StopSticks ==
  sturdy /\ askedBy = "stop" /\ signedIn => ~streaming /\ ~starting

(* Such a phone has one socket at a time, and a paused or stopped one has  *)
(* none: otherwise the server would serve a stream nobody is recording.    *)
OneSocketAtATime ==
  sturdy => \A c \in Conns : link[c] = "open" => streaming /\ channel = c

(* A camera that streams once opened is off when stopped, and has one      *)
(* socket at most.                                                         *)
CameraObeys ==
  CameraTypeOK /\ StopSticks /\ OneSocketAtATime

(* camera_tab.dart promises a camera the worker can stop at a tap: what    *)
(* the worker stopped, nothing but the worker's own tap starts again.      *)
OnlyTheWorkerRestarts ==
  [][askedBy = "stop" /\ signedIn /\ starting' => askedBy' = "tap"]_cameraVars
=============================================================================
