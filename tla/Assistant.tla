------------------------------- MODULE Assistant -------------------------------
(***************************************************************************)
(* assistant/service.py: one spoken or typed request per worker, answered  *)
(* by a fixed rule when its words call for one, else by the local model,   *)
(* which serves one request at a time in the order they came, else, when   *)
(* the model fails or answers nothing, by a fallback.  A request is the    *)
(* set of subjects its words touch and whether a photo comes with it.      *)
(***************************************************************************)
EXTENDS Tables, Integers, Sequences

CONSTANTS
  AsWorkers,    \* workers who ask: bound, one request each
  AsSubjects    \* subjects of requests: a subset of those below

ASSUME AsAssumption ==
  AsSubjects \subseteq {"emergency", "measure", "report", "identify", "specification"}

VARIABLES
  asEnabled,  \* assistant.enabled
  asIndexed,  \* is a specification index there
  asStage,    \* [worker -> "quiet", "retrieve", "queue", "model" or "answered"]
  asWaiting   \* the workers at _inference_lock, the first one holds it

asConfig == <<asEnabled, asIndexed>>
asVars == <<asConfig, asStage, asWaiting>>

AsInit ==
  /\ asEnabled \in BOOLEAN /\ asIndexed \in BOOLEAN
  /\ asStage = [w \in AsWorkers |-> "quiet"]
  /\ asWaiting = <<>>

-----------------------------------------------------------------------------
\* _deterministic_route: is there a rule that fits?
AsRouted(r) ==
  \/ r.subjects \cap {"emergency", "measure", "report"} # {}
  \/ "identify" \in r.subjects /\ ~ r.photo

AsGoesTo(w, stage) == asStage' = [asStage EXCEPT ![w] = stage]

AsReplied(w) == AsGoesTo(w, "answered") /\ UNCHANGED asWaiting

\* _answer: a disabled assistant answers from the fallback
AsGoesOn(w) ==
  IF asEnabled THEN AsGoesTo(w, "queue") /\ asWaiting' = Append(asWaiting, w) ELSE AsReplied(w)

\* ask: rules first
AsAsk(w, r) ==
  /\ asStage[w] = "quiet"
  /\ IF AsRouted(r) THEN AsReplied(w)
     ELSE IF "specification" \in r.subjects /\ asIndexed
     THEN AsGoesTo(w, "retrieve") /\ UNCHANGED asWaiting
     ELSE AsGoesOn(w)
  /\ UNCHANGED asConfig

\* _retrieve: an index that raises has found nothing
AsRetrieves(w) ==
  /\ asStage[w] = "retrieve"
  /\ AsGoesOn(w)
  /\ UNCHANGED asConfig

\* _generate behind the lock
AsGenerates(w) ==
  /\ asStage[w] = "queue" /\ asWaiting[1] = w
  /\ AsGoesTo(w, "model")
  /\ UNCHANGED <<asConfig, asWaiting>>

\* Mutant of AsModelEnds: the lock is given back after an answer only.
AsModelEndsLocked(w, answers) ==
  /\ asStage[w] = "model" /\ AsGoesTo(w, "answered")
  /\ asWaiting' = IF answers THEN Tail(asWaiting) ELSE asWaiting
  /\ UNCHANGED asConfig

\* The model answers, or it refuses, takes too long, or answers nothing and
\* the fallback does; either way the lock is free again.
AsModelEnds(w, answers) ==
  /\ asStage[w] = "model" /\ AsGoesTo(w, "answered")
  /\ asWaiting' = Tail(asWaiting)
  /\ UNCHANGED asConfig

AsProgress(w) ==
  AsRetrieves(w) \/ AsGenerates(w) \/ \E answers \in BOOLEAN : AsModelEnds(w, answers)

AsRequests == [subjects : SUBSET AsSubjects, photo : BOOLEAN]

AsNext == \E w \in AsWorkers : AsProgress(w) \/ \E r \in AsRequests : AsAsk(w, r)

AsSpec == AsInit /\ [][AsNext]_asVars

-----------------------------------------------------------------------------
(* "The demo must degrade instead of hanging": every worker who asks is    *)
(* answered, whatever the index and the model do and however many wait     *)
(* for the model.                                                          *)
AsEveryoneIsAnswered ==
  \A w \in AsWorkers : asStage[w] \in {"retrieve", "queue", "model"} ~> asStage[w] = "answered"
=============================================================================
