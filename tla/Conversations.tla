----------------------------- MODULE Conversations ----------------------------
(***************************************************************************)
(* workforce/questions.py and workforce/messages.py behind their routes: a *)
(* worker's question is stored, answered in the background by the LLM and  *)
(* with authority by the manager; messages run both ways in one thread per *)
(* worker.  On SQLite the store does not suspend: what interleaves is the  *)
(* wait for the model, with the question as it was read before it.         *)
(***************************************************************************)
EXTENDS Tables

CONSTANTS
  ConvQuestions,  \* 1..n, the question ids in the order they are drawn
  ConvReplies,    \* texts a manager may reply
  ConvMessages,   \* 1..n, the message ids in the order they are drawn
  ConvWorkers     \* workers, each with a thread

ASSUME ConvAssumption == None \notin ConvReplies

VARIABLES
  convLlm,        \* llm_enabled
  convQuestions,  \* the questions table
  convAnswering,  \* background tasks: question -> [pc, question as read, grounded]
  convAwaitNotice,\* questions the dashboard was not told of: its request died
  convMessages,   \* the messages table
  convLost        \* history: questions whose background task died with a process

convVars == <<convLlm, convQuestions, convAnswering, convAwaitNotice, convMessages, convLost>>

ConvInit ==
  /\ convLlm \in BOOLEAN
  /\ convQuestions = <<>>
  /\ convAnswering = <<>>
  /\ convAwaitNotice = {}
  /\ convMessages = <<>>
  /\ convLost = {}

-----------------------------------------------------------------------------
\* Questions.

(* ask_question, up to its first await after the row: the answer is handed *)
(* to a background task that starts when the response has gone out.        *)
ConvAsk(q) ==
  /\ q \in ConvQuestions /\ q = Cardinality(DOMAIN convQuestions) + 1
  /\ convQuestions' = Put(convQuestions, q, [status |-> "pending", llm_answer |-> None,
       llm_grounded |-> None, llm_error |-> None, manager_reply |-> None], {"created_at"})
  /\ convAwaitNotice' = convAwaitNotice \cup {q}
  /\ UNCHANGED <<convLlm, convAnswering, convMessages, convLost>>

\* notify and publish to the dashboards; the response; the background task
ConvAnnounce(q) ==
  /\ q \in convAwaitNotice
  /\ convAwaitNotice' = convAwaitNotice \ {q}
  /\ convAnswering' = Changed(convAnswering, [k \in {q} |-> [pc |-> "start"]])
  /\ UNCHANGED <<convLlm, convQuestions, convMessages, convLost>>

(* answer_with_llm reads the question and searches the index: extracts or  *)
(* none, none too when there is no index or the search fails.              *)
ConvRetrieve(q, grounded) ==
  /\ q \in DOMAIN convAnswering /\ convAnswering[q].pc = "start"
  /\ convAnswering' = [convAnswering EXCEPT ![q] =
       [pc |-> "model", question |-> convQuestions[q], grounded |-> grounded]]
  /\ UNCHANGED <<convLlm, convQuestions, convAwaitNotice, convMessages, convLost>>

(* _compose: what each outcome of the call to the model is turned into. *)
ConvComposed(outcome, grounded) ==
  IF ~ convLlm THEN [llm_answer |-> "disabled", llm_error |-> "llm_disabled"]
  ELSE CASE outcome = "text"  -> [llm_answer |-> IF grounded THEN "text with references"
                                                 ELSE "text with warning", llm_error |-> None]
         [] outcome = "short" -> [llm_answer |-> "apology", llm_error |-> "empty_response"]
         [] outcome = "error" -> [llm_answer |-> "apology", llm_error |-> "error"]

\* Mutants of ConvWritten: the question is put back as it was read; the model
\* settles the question; a failed call writes nothing.
ConvWrittenWhole(q, changes) == Put(convQuestions, q, changes @@ convAnswering[q].question, {})
ConvWrittenSettled(q, changes) == Patch(convQuestions, q, changes @@ [status |-> "answered"])
ConvWrittenUnlessError(q, changes) ==
  IF changes.llm_error = "error" THEN convQuestions ELSE Patch(convQuestions, q, changes)

\* only the model's own fields are patched, into the row as it is now
ConvWritten(q, changes) == Patch(convQuestions, q, changes)

ConvAnswer(q, outcome) ==
  /\ q \in DOMAIN convAnswering /\ convAnswering[q].pc = "model"
  /\ LET grounded == convAnswering[q].grounded
     IN convQuestions' = ConvWritten(q, Changed(ConvComposed(outcome, grounded), [llm_grounded |-> grounded]))
  /\ convAnswering' = Delete(convAnswering, q)
  /\ UNCHANGED <<convLlm, convAwaitNotice, convMessages, convLost>>

ConvReply(q, reply) ==
  /\ q \in DOMAIN convQuestions
  /\ convQuestions' = Patch(convQuestions, q, [manager_reply |-> reply, status |-> "answered"])
  /\ UNCHANGED <<convLlm, convAnswering, convAwaitNotice, convMessages, convLost>>

ConvClose(q) ==
  /\ q \in DOMAIN convQuestions
  /\ convQuestions' = Patch(convQuestions, q, [status |-> "closed"])
  /\ UNCHANGED <<convLlm, convAnswering, convAwaitNotice, convMessages, convLost>>

(* The queue a manager works from: questions.stats()["awaiting_manager"]. *)
ConvAwaiting ==
  {q \in DOMAIN convQuestions : convQuestions[q].status = "pending"
                                /\ convQuestions[q].manager_reply = None}

-----------------------------------------------------------------------------
\* Messages.

ConvSend(m, worker, role) ==
  /\ m \in ConvMessages /\ m = Cardinality(DOMAIN convMessages) + 1
  /\ convMessages' = Put(convMessages, m,
       [worker |-> worker, sender_role |-> role, read |-> FALSE], {"created_at"})
  /\ UNCHANGED <<convLlm, convQuestions, convAnswering, convAwaitNotice, convLost>>

ConvOther(role) == IF role = "site_manager" THEN "worker" ELSE "site_manager"

\* Mutant of ConvReads: both sides' messages count as read.
ConvReadsBoth(m, worker, role) == convMessages[m].worker = worker
ConvReads(m, worker, role) ==
  convMessages[m].worker = worker /\ convMessages[m].sender_role = ConvOther(role)

(* mark_read: everything the other side wrote in the thread. *)
ConvMarkRead(worker, role) ==
  /\ convMessages' = [m \in DOMAIN convMessages |->
       IF ConvReads(m, worker, role)
       THEN [convMessages[m] EXCEPT !.read = TRUE] ELSE convMessages[m]]
  /\ UNCHANGED <<convLlm, convQuestions, convAnswering, convAwaitNotice, convLost>>

\* unread: the inbox line and the dashboard's badge for a worker's side, the
\* worker's own badge for the manager's side
ConvUnread(worker, from) ==
  {m \in DOMAIN convMessages : /\ convMessages[m].worker = worker
                               /\ convMessages[m].sender_role = from /\ ~ convMessages[m].read}

-----------------------------------------------------------------------------
ConvRestart ==
  /\ DOMAIN convAnswering \cup convAwaitNotice # {}
  /\ convLost' = convLost \cup DOMAIN convAnswering \cup convAwaitNotice
  /\ convAnswering' = <<>> /\ convAwaitNotice' = {}
  /\ UNCHANGED <<convLlm, convQuestions, convMessages>>

\* Fair: the event loop runs a background task, the call to the model times out.
ConvProgress(q) ==
  \/ ConvAnnounce(q)
  \/ \E grounded \in BOOLEAN : ConvRetrieve(q, grounded)
  \/ \E outcome \in {"text", "short", "error"} : ConvAnswer(q, outcome)

ConvQuestionStep ==
  \/ \E q \in ConvQuestions : ConvAsk(q) \/ ConvProgress(q) \/ ConvClose(q)
  \/ \E q \in ConvQuestions, r \in ConvReplies : ConvReply(q, r)
  \/ ConvRestart

ConvMessageStep ==
  \/ \E m \in ConvMessages, w \in ConvWorkers, role \in {"worker", "site_manager"} : ConvSend(m, w, role)
  \/ \E w \in ConvWorkers, role \in {"worker", "site_manager"} : ConvMarkRead(w, role)

ConvSpec == ConvInit /\ [][ConvQuestionStep \/ ConvMessageStep]_convVars

-----------------------------------------------------------------------------
(* The manager's reply is "the authoritative one": a late answer of the    *)
(* model, computed from the question as it was before, never takes it away. *)
ConvReplyIsKept ==
  [][\A q \in DOMAIN convQuestions :
       convQuestions[q].manager_reply # None =>
         \/ convQuestions'[q].manager_reply = convQuestions[q].manager_reply
         \/ \E r \in ConvReplies : ConvReply(q, r)]_convVars

(* A question nobody accountable has answered or closed is on the manager's *)
(* queue, whatever the model said and in whatever order.                    *)
ConvAwaitingIsHonest ==
  \A q \in DOMAIN convQuestions :
    convQuestions[q].status # "closed" /\ convQuestions[q].manager_reply = None => q \in ConvAwaiting

(* Every question gets an answer, a warning or an apology, unless the      *)
(* process that was to produce it died: nothing takes the task up again.   *)
ConvHearsBack ==
  \A q \in ConvQuestions :
    q \in DOMAIN convQuestions ~>
      (q \in convLost \/ (q \in DOMAIN convQuestions /\ convQuestions[q].llm_answer # None))

(* Reading a thread clears the reader's badge for it and nothing else: not *)
(* the badge of the other side, not another thread's.                      *)
ConvReadingClearsOneBadge ==
  [][\A w \in ConvWorkers, role \in {"worker", "site_manager"} :
       ~ (ConvUnread(w, role) \subseteq ConvUnread(w, role)') =>
         /\ ConvUnread(w, role)' = {}
         /\ \A v \in ConvWorkers, other \in {"worker", "site_manager"} :
              <<v, other>> # <<w, role>> => ConvUnread(v, other)' = ConvUnread(v, other)]_convVars

(* Whoever writes is answered, by the model, the manager or an apology,    *)
(* and no answer or badge of one hides another.                            *)
ConvNobodyIsOverlooked ==
  /\ []ConvAwaitingIsHonest
  /\ ConvReplyIsKept /\ ConvReadingClearsOneBadge
  /\ ConvHearsBack
=============================================================================
