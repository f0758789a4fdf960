-------------------------------- MODULE MCTalk --------------------------------
(***************************************************************************)
(* The services in which something must eventually happen, for TLC: a      *)
(* question is answered, a notification tried on every channel, an alert   *)
(* heard by the worker at risk, a learning run finished, the end of the    *)
(* video noticed, an RFI filed, a request to the assistant answered.  They *)
(* share no state: each behaviour exercises one of them, chosen at the     *)
(* start.                                                                  *)
(***************************************************************************)
EXTENDS Conversations, Notifications, Broadcast, Learning, VideoSource, Papers, Assistant

CONSTANTS t1, t2, Services

VARIABLE service

peopleVars == <<convVars, notifVars, bcVars, lrnVars>>
workVars == <<vidVars, papVars, asVars>>
vars == <<service, peopleVars, workVars>>

Tasks == {t1, t2}
Channels == <<"dashboard", "push", "email">>   \* of "high"
Actions == <<[kind |-> "rfi", id |-> 1], [kind |-> "inspection", id |-> 2]>>

Init ==
  /\ service \in Services
  /\ ConvInit /\ NotifInit /\ BcInit /\ LrnInit /\ VidInit /\ PapInit /\ AsInit
  \* the others stay as they start: one start of each is enough
  /\ service # "questions" => convLlm
  /\ service # "notifications" => notifCache = "memory"
  /\ service # "learning" => lrnBackend = "sqlite" /\ lrnValSet
  /\ service # "papers" => papBackend = "sqlite" /\ papDrafter
  /\ service # "assistant" => asEnabled /\ asIndexed

Next ==
  /\ UNCHANGED service
  /\ \/ service = "questions" /\ ConvQuestionStep /\ UNCHANGED <<notifVars, bcVars, lrnVars, workVars>>
     \/ service = "messages" /\ ConvMessageStep /\ UNCHANGED <<notifVars, bcVars, lrnVars, workVars>>
     \/ service = "notifications" /\ NotifNext /\ UNCHANGED <<convVars, bcVars, lrnVars, workVars>>
     \/ service = "broadcast" /\ BcNext /\ UNCHANGED <<convVars, notifVars, lrnVars, workVars>>
     \/ service = "learning" /\ LrnNext /\ UNCHANGED <<convVars, notifVars, bcVars, workVars>>
     \/ service = "video" /\ VidNext /\ UNCHANGED <<papVars, asVars, peopleVars>>
     \/ service = "papers" /\ PapNext /\ UNCHANGED <<vidVars, asVars, peopleVars>>
     \/ service = "assistant" /\ AsNext /\ UNCHANGED <<vidVars, papVars, peopleVars>>

\* What the event loop and the threads get done
Progress ==
  /\ UNCHANGED service
  /\ \/ /\ service \in {"questions", "messages"} /\ (\E q \in ConvQuestions : ConvProgress(q))
        /\ UNCHANGED <<notifVars, bcVars, lrnVars, workVars>>
     \/ /\ service = "notifications" /\ (\E t \in Tasks : NotifWork(t))
        /\ UNCHANGED <<convVars, bcVars, lrnVars, workVars>>
     \/ service = "broadcast" /\ BcProgress /\ UNCHANGED <<convVars, notifVars, lrnVars, workVars>>
     \/ service = "learning" /\ LrnProgress /\ UNCHANGED <<convVars, notifVars, bcVars, workVars>>
     \/ service = "video" /\ VidProgress /\ UNCHANGED <<papVars, asVars, peopleVars>>
     \/ service = "papers" /\ PapProgress /\ UNCHANGED <<vidVars, asVars, peopleVars>>
     \/ /\ service = "assistant" /\ (\E w \in Tasks : AsProgress(w))
        /\ UNCHANGED <<vidVars, papVars, peopleVars>>

Spec == Init /\ [][Next]_vars /\ WF_vars(Progress)
=============================================================================
