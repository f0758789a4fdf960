-------------------------------- MODULE Papers --------------------------------
(***************************************************************************)
(* What the rules file about an event (backend/service.py, _execute) and   *)
(* what managers decide on it (backend/app.py, the /rfis and /inspections  *)
(* routes): one table row for each RFI and inspection, and the copy the    *)
(* dashboards were sent last.  On Postgres every statement is a suspension *)
(* point; on SQLite a request runs through.  The actions of one event are  *)
(* executed in order, after people have been told of the alert.            *)
(***************************************************************************)
EXTENDS Tables, Integers, Sequences

CONSTANTS
  PapActions,    \* the actions the rules ask for, in order: [kind -> ..., id -> ...]
  PapReviewers   \* managers' requests under way at a time

\* every record is filed under an id drawn for it
ASSUME PapAssumption ==
  /\ PapActions \in Seq([kind : {"rfi", "inspection"}, id : {PapActions[i].id : i \in DOMAIN PapActions}])
  /\ \A i, j \in DOMAIN PapActions : PapActions[i].id = PapActions[j].id => i = j
  /\ None \notin {"pending_review", "requested"}

PapIds == {PapActions[i].id : i \in DOMAIN PapActions}
PapKind(id) == (CHOOSE a \in {PapActions[i] : i \in DOMAIN PapActions} : a.id = id).kind
PapDecisions(id) == IF PapKind(id) = "rfi" THEN {"approved", "rejected"} ELSE {"completed"}

VARIABLES
  papBackend,  \* "sqlite" or "postgres"
  papDrafter,  \* is an RFI drafter configured
  papNext,     \* the action of the event that is executed now
  papDraft,    \* the status of its record, or None
  papRow,      \* [id -> the status in its row, or None]
  papShown,    \* [id -> the status dashboards were sent last, or None]
  papReview,   \* [manager -> None or [id, decision, at, read]]
  papFailed    \* the database refused a row: the rest of the actions are skipped

papVars == <<papBackend, papDrafter, papNext, papDraft, papRow, papShown, papReview, papFailed>>
papEvent == <<papNext, papDraft, papFailed>>

PapInit ==
  /\ papBackend \in {"sqlite", "postgres"} /\ papDrafter \in BOOLEAN
  /\ papNext = 1 /\ papDraft = None /\ papFailed = FALSE
  /\ papRow = [id \in PapIds |-> None] /\ papShown = [id \in PapIds |-> None]
  /\ papReview = [m \in PapReviewers |-> None]

-----------------------------------------------------------------------------
PapBusy == papNext <= Len(PapActions) /\ ~ papFailed
PapAction == PapActions[papNext]

\* RFIDrafter.draft: the index may know no clause, the model's prose is
\* optional; either way there is a draft
PapDrafts ==
  /\ PapBusy /\ papDraft = None /\ PapAction.kind = "rfi" /\ papDrafter
  /\ papDraft' = "pending_review"
  /\ UNCHANGED <<papBackend, papDrafter, papNext, papRow, papShown, papReview, papFailed>>

\* Mutant of PapDraftFails: no draft, no RFI.
PapDraftFailsForGood ==
  /\ PapBusy /\ papDraft = None /\ PapAction.kind = "rfi"
  /\ papNext' = papNext + 1
  /\ UNCHANGED <<papBackend, papDrafter, papDraft, papRow, papShown, papReview, papFailed>>

\* The index or the drafter raises, or there is none: the plain record
PapDraftFails ==
  /\ PapBusy /\ papDraft = None /\ PapAction.kind = "rfi"
  /\ papDraft' = "pending_review"
  /\ UNCHANGED <<papBackend, papDrafter, papNext, papRow, papShown, papReview, papFailed>>

PapRequest ==
  /\ PapBusy /\ papDraft = None /\ PapAction.kind = "inspection"
  /\ papDraft' = "requested"
  /\ UNCHANGED <<papBackend, papDrafter, papNext, papRow, papShown, papReview, papFailed>>

\* hub.publish of the record as it was drafted
PapPublished ==
  /\ papShown' = [papShown EXCEPT ![PapAction.id] = papDraft]
  /\ papNext' = papNext + 1 /\ papDraft' = None

\* save_rfi or save_inspection (INSERT, ignoring a conflict); on SQLite the
\* request runs on to its publish.
PapSaves ==
  /\ PapBusy /\ papDraft # None /\ papRow[PapAction.id] = None
  /\ papRow' = [papRow EXCEPT ![PapAction.id] = papDraft]
  /\ \/ papBackend = "postgres" /\ UNCHANGED <<papNext, papDraft, papShown>>
     \/ papBackend = "sqlite" /\ PapPublished
  /\ UNCHANGED <<papBackend, papDrafter, papReview, papFailed>>

\* The exception leaves the loop over the rules' actions.
PapSaveFails ==
  /\ PapBusy /\ papDraft # None /\ papRow[PapAction.id] = None
  /\ papFailed' = TRUE
  /\ UNCHANGED <<papBackend, papDrafter, papNext, papDraft, papRow, papShown, papReview>>

PapFiled ==
  /\ PapBusy /\ papDraft # None /\ papRow[PapAction.id] # None
  /\ PapPublished
  /\ UNCHANGED <<papBackend, papDrafter, papRow, papReview, papFailed>>

-----------------------------------------------------------------------------
\* Mutant of PapAnswer: dashboards get the row the request found.
PapAnswerOld(before, after) == before

\* update_rfi's last read is what is answered and published
PapAnswer(before, after) == after

\* _review_rfi or complete_inspection up to its first statement; a 404
\* changes nothing.  On SQLite nothing comes between its statements.
PapReviewBegins(m, id, decision) ==
  /\ papReview[m] = None /\ papRow[id] # None
  /\ \/ /\ papBackend = "sqlite"
        /\ papRow' = [papRow EXCEPT ![id] = decision]
        /\ papShown' = [papShown EXCEPT ![id] = PapAnswer(papRow[id], decision)]
        /\ UNCHANGED papReview
     \/ /\ papBackend = "postgres"
        /\ papReview' = [papReview EXCEPT ![m] =
             [id |-> id, decision |-> decision, at |-> "update", read |-> papRow[id]]]
        /\ UNCHANGED <<papRow, papShown>>
  /\ UNCHANGED <<papBackend, papDrafter, papEvent>>

PapAt(m, stage) == papReview[m] # None /\ papReview[m].at = stage

PapUpdates(m) ==
  /\ PapAt(m, "update")
  /\ papRow' = [papRow EXCEPT ![papReview[m].id] = papReview[m].decision]
  /\ papReview' = [papReview EXCEPT ![m].at = "get"]
  /\ UNCHANGED <<papBackend, papDrafter, papEvent, papShown>>

PapGets(m) ==
  /\ PapAt(m, "get")
  /\ papReview' = [papReview EXCEPT ![m].at = "publish",
                     ![m].read = PapAnswer(@, papRow[papReview[m].id])]
  /\ UNCHANGED <<papBackend, papDrafter, papEvent, papRow, papShown>>

PapPublishes(m) ==
  /\ PapAt(m, "publish")
  /\ papShown' = [papShown EXCEPT ![papReview[m].id] = papReview[m].read]
  /\ papReview' = [papReview EXCEPT ![m] = None]
  /\ UNCHANGED <<papBackend, papDrafter, papEvent, papRow>>

PapProgress == PapDrafts \/ PapDraftFails \/ PapRequest \/ PapSaves \/ PapFiled

PapNext ==
  \/ PapProgress \/ PapSaveFails
  \/ \E m \in PapReviewers :
       \/ \E id \in PapIds : \E decision \in PapDecisions(id) : PapReviewBegins(m, id, decision)
       \/ PapUpdates(m) \/ PapGets(m) \/ PapPublishes(m)

PapSpec == PapInit /\ [][PapNext]_papVars

-----------------------------------------------------------------------------
(* "Never drop the deviation": once one is drafted, every RFI and          *)
(* inspection the rules ask for is filed in the end, with or without the   *)
(* index and the model, unless the database refused a row of that event.   *)
PapAllFiled == papDraft # None ~> papFailed \/ \A id \in PapIds : papRow[id] # None

(* On SQLite, dashboards were sent every paper as it is in the table,      *)
(* whichever managers have decided on it.  On Postgres two          *)
(* decisions, or the filing and the first decision, can be published in    *)
(* the other order than they were written.                                 *)
PapDashboardsAgree ==
  papBackend = "sqlite" =>
    \A id \in PapIds : papShown[id] = papRow[id]

(* Every paper is filed, and shown as it is filed.                         *)
PapTrailIsKept ==
  /\ []PapDashboardsAgree
  /\ PapAllFiled
=============================================================================
