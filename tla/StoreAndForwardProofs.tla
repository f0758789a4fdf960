------------------------- MODULE StoreAndForwardProofs -------------------------
(***************************************************************************)
(* Theorems about StoreAndForward, for any number of events, passes,       *)
(* failures and crashes: it is type correct, marks nothing sent that the   *)
(* backend did not accept, and delivers in order.                          *)
(***************************************************************************)
EXTENDS StoreAndForward, FiniteSetTheorems, TLAPS

LEMMA EventsNat == Events \subseteq Nat /\ IsFiniteSet(Events)
BY FS_Interval, ForwardAssumption DEF Events

LEMMA PendingEvents == Pending \subseteq Events
BY DEF Pending

LEMMA OfferType ==
  ASSUME NEW q \in Seq(Message), Len(q) <= QueueCap, NEW m \in Message
  PROVE  Offer(q, m) \in Seq(Message) /\ Len(Offer(q, m)) <= QueueCap
BY ForwardAssumption DEF Offer

LEMMA NextForwardType == ForwardTypeOK /\ [ForwardNext]_forwardVars => ForwardTypeOK'
<1>. SUFFICES ASSUME ForwardTypeOK, [ForwardNext]_forwardVars
              PROVE  ForwardTypeOK'
  OBVIOUS
<1>. USE DEF ForwardTypeOK, edgeVars, backendVars
<1>1. ASSUME NEW e \in Events, Submit(e)
      PROVE  ForwardTypeOK'
  BY <1>1 DEF Submit
<1>2. ASSUME NEW f \in Flushers, StartPass(f)
      PROVE  ForwardTypeOK'
  BY <1>2, PendingEvents DEF StartPass
<1>3. ASSUME NEW f \in Flushers, Failed(f)
      PROVE  ForwardTypeOK'
  <2>1. failures' \in 0..MaxFailures
    BY <1>3, ForwardAssumption DEF Failed, Lossy
  <2>. QED  BY <1>3, <2>1 DEF Failed
<1>4. ASSUME NEW f \in Flushers, NEW e \in Events, Acknowledged(f, e)
      PROVE  ForwardTypeOK'
  BY <1>4 DEF Acknowledged
<1>5. ASSUME NEW f \in Flushers, NEW e \in Events, Ingest(f, e)
      PROVE  ForwardTypeOK'
  <2>1. /\ [event |-> e, topic |-> "family"] \in Message
        /\ [event |-> e, topic |-> "all"] \in Message
    BY DEF Message
  <2>2. queue' \in Seq(Message) /\ Len(queue') <= QueueCap
    BY <1>5, <2>1, OfferType DEF Ingest
  <2>. QED  BY <1>5, <2>2 DEF Ingest
<1>6. CASE Dispatch
  <2>1. /\ Head(queue) \in Message
        /\ queue' \in Seq(Message) /\ Len(queue') <= QueueCap
    BY <1>6, ForwardAssumption DEF Dispatch
  <2>2. log' \in SUBSET Events /\ unsaved' \in SUBSET Events /\ shed' = shed
    BY <1>6, <2>1 DEF Dispatch, Message
  <2>. QED  BY <1>6, <2>1, <2>2 DEF Dispatch
<1>7. CASE EdgeCrash
  <2>1. edgeCrashes' \in 0..MaxEdgeCrashes
    BY <1>7, ForwardAssumption DEF EdgeCrash
  <2>. QED  BY <1>7, <2>1 DEF EdgeCrash
<1>8. CASE EdgeRestart
  BY <1>8 DEF EdgeRestart
<1>9. CASE BackendCrash
  <2>1. backendCrashes' \in 0..MaxBackendCrashes
    BY <1>9, ForwardAssumption DEF BackendCrash
  <2>2. queue' \in Seq(Message) /\ Len(queue') <= QueueCap
    BY <1>9, ForwardAssumption DEF BackendCrash
  <2>. QED  BY <1>9, <2>1, <2>2 DEF BackendCrash
<1>10. CASE BackendRestart
  BY <1>10 DEF BackendRestart
<1>11. CASE UNCHANGED forwardVars
  BY <1>11 DEF forwardVars
<1>. QED  BY <1>1, <1>2, <1>3, <1>4, <1>5, <1>6, <1>7, <1>8, <1>9, <1>10, <1>11
          DEF ForwardNext

\* Every variable keeps its type; in particular the bus never holds more than QueueCap
\* messages.
THEOREM ForwardTypeCorrect == ForwardSpec => []ForwardTypeOK
<1>1. ForwardInit => ForwardTypeOK
  BY ForwardAssumption DEF ForwardInit, ForwardTypeOK
<1>. QED  BY <1>1, NextForwardType, PTL DEF ForwardSpec

-----------------------------------------------------------------------------
(* The invariant of the passes.                                            *)

\* Rows are submitted in order; what is sent or waits for its mark was accepted; and
\* a pass leaves out no older row that the backend has not accepted yet.
PassInv ==
  /\ \A e \in Events : outbox[e] # "none" => \A d \in Events : d < e => outbox[d] # "none"
  /\ \A e \in Events : outbox[e] = "sent" => e \in accepted
  /\ \A e \in accepted : outbox[e] # "none"
  /\ \A f \in Flushers : \A e \in batch[f] : outbox[e] # "none"
  /\ \A f \in Flushers, e \in Events : flight[f] = "accepted" /\ Out(f, e) => e \in accepted
  /\ \A f \in Flushers : \A e \in batch[f] : \A d \in Events \ batch[f] :
       d < e => d \in accepted

\* A pass starts with an initial segment of the pending rows.
LEMMA PendingIsOldest ==
  ASSUME ForwardTypeOK, NEW e \in Pending, NEW d \in Events, outbox[d] = "pending", d < e
  PROVE  d \in Pending
<1>. DEFINE rows == {x \in Events : outbox[x] = "pending"}
            upTo(y) == {x \in rows : x <= y}
<1>1. e \in Nat /\ d \in Nat
  BY EventsNat, PendingEvents
<1>2. upTo(d) \subseteq upTo(e) /\ upTo(e) \subseteq Events
  <2>1. ASSUME NEW x \in upTo(d)
        PROVE  x \in upTo(e)
    <3>1. x \in Nat /\ x <= d
      BY EventsNat
    <3>. QED  BY <1>1, <3>1
  <2>. QED  BY <2>1
<1>3. IsFiniteSet(upTo(e))
  BY <1>2, EventsNat, FS_Subset
<1>4. /\ IsFiniteSet(upTo(d)) /\ Cardinality(upTo(d)) <= Cardinality(upTo(e))
      /\ Cardinality(upTo(d)) \in Nat /\ Cardinality(upTo(e)) \in Nat
  <2>. HIDE DEF upTo
  <2>. QED  BY <1>2, <1>3, FS_Subset, FS_CardinalityType
<1>5. Cardinality(upTo(e)) <= BatchSize
  BY DEF Pending
<1>6. Cardinality(upTo(d)) <= BatchSize
  <2>. HIDE DEF upTo
  <2>. QED  BY <1>4, <1>5, ForwardAssumption
<1>. QED  BY <1>6 DEF Pending

LEMMA PassInvInit == ForwardInit => PassInv
BY DEF ForwardInit, PassInv

\* One step; a conjunct of the invariant that an action can disturb has its own step.
LEMMA PassInvNext ==
  ForwardTypeOK /\ PassInv /\ [ForwardNext]_forwardVars => PassInv'
<1>. SUFFICES ASSUME ForwardTypeOK, PassInv, [ForwardNext]_forwardVars
              PROVE  PassInv'
  OBVIOUS
<1>. USE DEF edgeVars, backendVars
<1>0. Events \subseteq Nat
  BY EventsNat
<1>1. ASSUME NEW e \in Events, Submit(e)
      PROVE  PassInv'
  <2>1. \A x \in Events : outbox'[x] = IF x = e THEN "pending" ELSE outbox[x]
    BY <1>1 DEF Submit, ForwardTypeOK
  <2>2. \A d \in Events : d < e => outbox[d] # "none"
    BY <1>0, <1>1 DEF Submit, Events
  <2>3. /\ batch' = batch /\ flight' = flight /\ accepted' = accepted
        /\ \A f \in Flushers : batch[f] \subseteq Events
        /\ accepted \subseteq Events
    BY <1>1 DEF Submit, ForwardTypeOK
  <2>. QED  BY <2>1, <2>2, <2>3 DEF PassInv, Out
<1>2. ASSUME NEW f \in Flushers, StartPass(f)
      PROVE  PassInv'
  <2>1. /\ outbox' = outbox /\ accepted' = accepted
        /\ \A g \in Flushers : batch'[g] = IF g = f THEN Pending ELSE batch[g]
        /\ \A g \in Flushers : flight'[g] = IF g = f THEN "out" ELSE flight[g]
    BY <1>2 DEF StartPass, ForwardTypeOK
  <2>2. \A e \in Pending : outbox[e] = "pending"
    BY DEF Pending
  <2>3. ASSUME NEW e \in Pending, NEW d \in Events \ Pending, d < e
        PROVE  d \in accepted
    <3>1. outbox[d] # "none"
      BY <2>2, <2>3, PendingEvents DEF PassInv
    <3>2. outbox[d] # "pending"
      BY <2>3, PendingIsOldest
    <3>. QED  BY <3>1, <3>2 DEF PassInv, ForwardTypeOK
  <2>. QED  BY <2>1, <2>2, <2>3 DEF PassInv, Out
<1>3. ASSUME NEW f \in Flushers, Failed(f)
      PROVE  PassInv'
  <2>1. /\ outbox' = outbox /\ accepted' = accepted
        /\ \A g \in Flushers : batch'[g] = IF g = f THEN {} ELSE batch[g]
        /\ \A g \in Flushers : flight'[g] = IF g = f THEN "none" ELSE flight[g]
    BY <1>3 DEF Failed, ForwardTypeOK
  <2>. QED  BY <2>1 DEF PassInv, Out
<1>4. ASSUME NEW f \in Flushers, NEW e \in Events, Acknowledged(f, e)
      PROVE  PassInv'
  <2>1. /\ accepted' = accepted
        /\ \A x \in Events : outbox'[x] = IF x = e THEN "sent" ELSE outbox[x]
        /\ \A g \in Flushers : batch'[g] = IF g = f THEN batch[f] \ {e} ELSE batch[g]
        /\ \A g \in Flushers : g # f => flight'[g] = flight[g]
        /\ flight'[f] # "accepted"
    BY <1>4 DEF Acknowledged, ForwardTypeOK
  <2>2. e \in accepted /\ e \in batch[f] /\ outbox[e] # "none"
    BY <1>4 DEF Acknowledged, PassInv, Out
  <2>3. /\ \A g \in Flushers : batch[g] \subseteq Events
        /\ accepted \subseteq Events
    BY DEF ForwardTypeOK
  <2>. QED  BY <2>1, <2>2, <2>3 DEF PassInv, Out
<1>5. ASSUME NEW f \in Flushers, NEW e \in Events, Ingest(f, e)
      PROVE  PassInv'
  <2>1. /\ outbox' = outbox /\ batch' = batch /\ accepted' = accepted \cup {e}
        /\ \A g \in Flushers : g # f => flight'[g] = flight[g]
    BY <1>5 DEF Ingest, ForwardTypeOK
  <2>2. e \in batch[f] /\ \A d \in batch[f] : e <= d
    BY <1>5 DEF Ingest, Out
  <2>3. ASSUME NEW x \in Events, Out(f, x)
        PROVE  x = e
    <3>1. x <= e /\ e <= x
      BY <2>2, <2>3 DEF Out
    <3>2. x \in Nat /\ e \in Nat
      BY EventsNat
    <3>. QED  BY <3>1, <3>2
  <2>. QED  BY <2>1, <2>2, <2>3 DEF PassInv, Out
<1>6. CASE EdgeCrash
  <2>1. /\ outbox' = outbox /\ accepted' = accepted
        /\ \A g \in Flushers : batch'[g] = {} /\ flight'[g] = "none"
    BY <1>6 DEF EdgeCrash
  <2>. QED  BY <2>1 DEF PassInv, Out
<1>7. CASE EdgeRestart \/ Dispatch \/ BackendCrash \/ BackendRestart
           \/ UNCHANGED forwardVars
  <2>1. /\ outbox' = outbox /\ accepted' = accepted
        /\ batch' = batch /\ flight' = flight
    BY <1>7 DEF EdgeRestart, Dispatch, BackendCrash, BackendRestart, forwardVars
  <2>. QED  BY <2>1 DEF PassInv, Out
<1>. QED  BY <1>1, <1>2, <1>3, <1>4, <1>5, <1>6, <1>7 DEF ForwardNext

LEMMA PassesInvariant == ForwardSpec => [](ForwardTypeOK /\ PassInv)
<1>1. ForwardInit => ForwardTypeOK /\ PassInv
  BY PassInvInit, ForwardAssumption DEF ForwardInit, ForwardTypeOK
<1>2. ForwardTypeOK /\ PassInv /\ [ForwardNext]_forwardVars => (ForwardTypeOK /\ PassInv)'
  BY NextForwardType, PassInvNext
<1>. QED  BY <1>1, <1>2, PTL DEF ForwardSpec

-----------------------------------------------------------------------------
(* The theorems.                                                           *)

\* mark_sent is called for accepted events only, whichever pass calls it and
\* whatever was lost or restarted before.
THEOREM SentWereAccepted == ForwardSpec => []SentWasAccepted
<1>1. PassInv => SentWasAccepted
  BY DEF PassInv, SentWasAccepted
<1>. QED  BY <1>1, PassesInvariant, PTL

\* A step of the edge or the backend records or delivers the next event, or is
\* invisible to the receiver.
LEMMA DeliveryStep ==
  ForwardTypeOK /\ PassInv /\ [ForwardNext]_forwardVars
    => [\E i \in Events : Delivery!Record(i) \/ Delivery!Arrive(i)]_<<recorded, accepted>>
<1>. SUFFICES ASSUME ForwardTypeOK, PassInv, [ForwardNext]_forwardVars
              PROVE  \/ \E i \in Events : Delivery!Record(i) \/ Delivery!Arrive(i)
                     \/ recorded' = recorded /\ accepted' = accepted
  OBVIOUS
<1>. USE DEF edgeVars, backendVars
<1>0. Events \subseteq Nat
  BY EventsNat
<1>1. ASSUME NEW e \in Events, Submit(e)
      PROVE  Delivery!Record(e)
  <2>1. \A x \in Events : outbox'[x] = IF x = e THEN "pending" ELSE outbox[x]
    BY <1>1 DEF Submit, ForwardTypeOK
  <2>2. recorded' = recorded \cup {e}
    BY <2>1 DEF recorded
  <2>3. ASSUME NEW j \in recorded
        PROVE  j < e
    <3>1. j \in Events /\ outbox[j] # "none" /\ outbox[e] = "none"
      BY <1>1 DEF recorded, Submit
    <3>2. ~(e < j) /\ e # j
      BY <3>1 DEF PassInv
    <3>. QED  BY <1>0, <3>1, <3>2
  <2>. QED  BY <1>1, <2>2, <2>3 DEF Delivery!Record, Submit
<1>2. ASSUME NEW f \in Flushers, NEW e \in Events, Ingest(f, e)
      PROVE  Delivery!Arrive(e) \/ (recorded' = recorded /\ accepted' = accepted)
  <2>1. recorded' = recorded /\ accepted' = accepted \cup {e}
    BY <1>2 DEF Ingest, recorded
  <2>2. e \in recorded
    BY <1>2 DEF Ingest, Out, PassInv, recorded
  <2>3. ASSUME NEW j \in recorded \ accepted
        PROVE  e <= j
    <3>1. j \in Events /\ e \in batch[f]
      BY <1>2 DEF recorded, Ingest, Out
    <3>2. CASE j \in batch[f]
      BY <1>2, <3>2 DEF Ingest, Out
    <3>3. CASE j \notin batch[f]
      <4>1. ~(j < e)
        BY <2>3, <3>1, <3>3 DEF PassInv
      <4>. QED  BY <1>0, <3>1, <4>1
    <3>. QED  BY <3>2, <3>3
  <2>4. CASE e \in accepted
    BY <2>1, <2>4
  <2>5. CASE e \notin accepted
    BY <2>1, <2>2, <2>3, <2>5 DEF Delivery!Arrive
  <2>. QED  BY <2>4, <2>5
<1>3. ASSUME NEW f \in Flushers, NEW e \in Events, Acknowledged(f, e)
      PROVE  recorded' = recorded /\ accepted' = accepted
  <2>1. \A x \in Events : outbox'[x] = IF x = e THEN "sent" ELSE outbox[x]
    BY <1>3 DEF Acknowledged, ForwardTypeOK
  <2>2. outbox[e] # "none"
    BY <1>3 DEF Acknowledged, Out, PassInv
  <2>. QED  BY <1>3, <2>1, <2>2 DEF recorded, Acknowledged
<1>4. ASSUME NEW f \in Flushers, StartPass(f) \/ Failed(f)
      PROVE  recorded' = recorded /\ accepted' = accepted
  BY <1>4 DEF StartPass, Failed, recorded
<1>5. CASE EdgeCrash \/ EdgeRestart \/ Dispatch \/ BackendCrash \/ BackendRestart
           \/ UNCHANGED forwardVars
  BY <1>5 DEF EdgeCrash, EdgeRestart, Dispatch, BackendCrash, BackendRestart,
              forwardVars, recorded
<1>. QED  BY <1>1, <1>2, <1>3, <1>4, <1>5 DEF ForwardNext

\* Store-and-forward implements in-order delivery: for every number of events, passes,
\* lost messages and crashes the backend first sees the events in submission order.
THEOREM DeliveryInOrder == ForwardSpec => DeliversInOrder
<1>1. ForwardInit => Delivery!DeliveryInit
  BY DEF ForwardInit, Delivery!DeliveryInit, recorded
<1>2. ForwardTypeOK /\ PassInv /\ [ForwardNext]_forwardVars
        => [\E i \in Events : Delivery!Record(i) \/ Delivery!Arrive(i)]_Delivery!deliveryVars
  BY DeliveryStep DEF Delivery!deliveryVars
<1>. QED  BY <1>1, <1>2, PassesInvariant, PTL
          DEF ForwardSpec, DeliversInOrder, Delivery!DeliverySpec

(* The outbox is well formed and never calls a row sent that the backend   *)
(* did not accept, for any number of events, losses and crashes.           *)
THEOREM OutboxAlwaysHonest == ForwardSpec => []OutboxIsHonest
BY ForwardTypeCorrect, SentWereAccepted, PTL DEF OutboxIsHonest

-----------------------------------------------------------------------------
(* Room on the bus.  A pass posts an event to the backend again only after *)
(* a failure or a crash, so the posts are bounded by what they left behind.*)

\* The posts whose outcome is still visible: pass f was told of event e, or is about
\* to be.
Credits ==
  {p \in Flushers \X Events :
     \/ outbox[p[2]] = "sent" /\ p[2] \notin batch[p[1]]
     \/ flight[p[1]] = "accepted" /\ Out(p[1], p[2])}

\* Every post left a credit, a failure, or was cut off by a crash of the edge.
Posts == Cardinality(Credits) + failures + Cardinality(Flushers) * edgeCrashes

Within ==
  /\ backendUp
  /\ Len(queue) <= Posts + Posts
  /\ shed # {} => Posts + Posts > QueueCap

BusInv == backendCrashes = 0 => Within

\* The pair a pass has out is unique.
LEMMA OutUnique ==
  ASSUME NEW f, NEW d \in Events, NEW e \in Events, Out(f, d), Out(f, e)
  PROVE  d = e
<1>1. d <= e /\ e <= d
  BY DEF Out
<1>. QED  BY <1>1, EventsNat

LEMMA PairsFinite ==
  ASSUME IsFiniteSet(Flushers)
  PROVE  IsFiniteSet(Flushers \X Events)
BY EventsNat, FS_Product

LEMMA CreditsFinite ==
  ASSUME IsFiniteSet(Flushers)
  PROVE  /\ IsFiniteSet(Credits) /\ Cardinality(Credits) \in Nat
         /\ Cardinality(Flushers) \in Nat
<1>1. Credits \subseteq Flushers \X Events
  BY DEF Credits
<1>2. IsFiniteSet(Credits)
  <2>. HIDE DEF Credits
  <2>. QED  BY <1>1, PairsFinite, FS_Subset
<1>. QED  BY <1>2, FS_CardinalityType

\* There are no more credits than passes over accepted events.
LEMMA CreditsBound ==
  ASSUME IsFiniteSet(Flushers), ForwardTypeOK, PassInv
  PROVE  /\ Cardinality(accepted) \in Nat
         /\ Cardinality(Credits) <= Cardinality(Flushers) * Cardinality(accepted)
<1>1. Credits \subseteq Flushers \X accepted
  BY DEF Credits, PassInv
<1>2. IsFiniteSet(accepted)
  BY EventsNat, FS_Subset DEF ForwardTypeOK
<1>3. /\ IsFiniteSet(Flushers \X accepted)
      /\ Cardinality(Flushers \X accepted) = Cardinality(Flushers) * Cardinality(accepted)
  BY <1>2, FS_Product
<1>4. Cardinality(Credits) <= Cardinality(Flushers \X accepted)
  <2>. HIDE DEF Credits
  <2>. QED  BY <1>1, <1>3, FS_Subset
<1>. QED  BY <1>2, <1>3, <1>4, FS_CardinalityType

\* Losing at most the pairs of set L costs at most as many credits.
LEMMA CreditsLost ==
  ASSUME IsFiniteSet(Flushers), NEW L, IsFiniteSet(L), Credits \subseteq Credits' \cup L
  PROVE  Cardinality(Credits) <= Cardinality(Credits') + Cardinality(L)
<1>1. /\ IsFiniteSet(Credits') /\ Cardinality(Credits') \in Nat
  <2>1. Credits' \subseteq Flushers \X Events /\ IsFiniteSet(Flushers \X Events)
    BY PairsFinite DEF Credits
  <2>. QED  BY <2>1, FS_Subset, FS_CardinalityType
<1>2. Cardinality(L) \in Nat
  BY FS_CardinalityType
<1>3. /\ IsFiniteSet(Credits' \cup L)
      /\ Cardinality(Credits' \cup L) <= Cardinality(Credits') + Cardinality(L)
  <2>1. IsFiniteSet(Credits' \cap L)
    BY FS_Subset, <1>1
  <2>2. Cardinality(Credits' \cap L) \in Nat
    BY <2>1, FS_CardinalityType
  <2>3. /\ IsFiniteSet(Credits' \cup L)
        /\ Cardinality(Credits' \cup L) =
             Cardinality(Credits') + Cardinality(L) - Cardinality(Credits' \cap L)
    BY <1>1, FS_Union
  <2>. QED  BY <1>1, <1>2, <2>2, <2>3
<1>4. Cardinality(Credits) <= Cardinality(Credits' \cup L)
  BY <1>3, FS_Subset
<1>. QED
  <2>1. Cardinality(Credits' \cup L) \in Nat /\ Cardinality(Credits) \in Nat
    BY <1>3, FS_CardinalityType, CreditsFinite
  <2>. QED  BY <1>1, <1>2, <1>3, <1>4, <2>1

\* An accepted post is a new credit.
LEMMA IngestCredits ==
  ASSUME IsFiniteSet(Flushers), ForwardTypeOK, NEW f \in Flushers, NEW e \in Events, Ingest(f, e)
  PROVE  Cardinality(Credits') = Cardinality(Credits) + 1
<1>1. /\ outbox' = outbox /\ batch' = batch /\ flight[f] = "out" /\ Out(f, e)
      /\ flight' = [flight EXCEPT ![f] = "accepted"]
  BY DEF Ingest
<1>2. \A g, x : Out(g, x)' <=> Out(g, x)
  BY <1>1 DEF Out
<1>3. Credits' = Credits \cup {<<f, e>>}
  <2>1. ASSUME NEW g \in Flushers, NEW x \in Events
        PROVE  <<g, x>> \in Credits' <=> <<g, x>> \in Credits \/ <<g, x>> = <<f, e>>
    <3>1. /\ <<g, x>> \in Credits' <=> \/ outbox[x] = "sent" /\ x \notin batch[g]
                                       \/ flight'[g] = "accepted" /\ Out(g, x)
          /\ <<g, x>> \in Credits <=> \/ outbox[x] = "sent" /\ x \notin batch[g]
                                      \/ flight[g] = "accepted" /\ Out(g, x)
      BY <1>1, <1>2 DEF Credits
    <3>2. CASE g # f
      BY <1>1, <3>1, <3>2 DEF ForwardTypeOK
    <3>3. CASE g = f
      <4>1. flight'[g] = "accepted" /\ flight[g] = "out"
        BY <1>1, <3>3 DEF ForwardTypeOK
      <4>2. Out(g, x) <=> x = e
        BY <1>1, <3>3, OutUnique
      <4>. QED  BY <3>1, <3>3, <4>1, <4>2
    <3>. QED  BY <3>2, <3>3
  <2>2. Credits \subseteq Flushers \X Events /\ Credits' \subseteq Flushers \X Events
    BY DEF Credits
  <2>. QED  BY <2>1, <2>2
<1>4. <<f, e>> \notin Credits
  BY <1>1 DEF Credits, Out
<1>. QED  BY <1>3, <1>4, FS_AddElement, CreditsFinite

LEMMA CreditsNextNat ==
  ASSUME IsFiniteSet(Flushers)
  PROVE  Cardinality(Credits') \in Nat
<1>1. Credits' \subseteq Flushers \X Events
  BY DEF Credits
<1>. QED  BY <1>1, PairsFinite, FS_Subset, FS_CardinalityType

\* What the other steps of the edge do to the credits.
LEMMA AcknowledgedCredits ==
  ASSUME IsFiniteSet(Flushers), ForwardTypeOK,
         NEW f \in Flushers, NEW e \in Events, Acknowledged(f, e)
  PROVE  Cardinality(Credits) <= Cardinality(Credits')
<1>1. /\ outbox' = [outbox EXCEPT ![e] = "sent"]
      /\ batch' = [batch EXCEPT ![f] = @ \ {e}]
      /\ \A g \in Flushers : g # f => flight'[g] = flight[g]
      /\ Out(f, e)
  BY DEF Acknowledged, ForwardTypeOK
<1>2. ASSUME NEW g \in Flushers, NEW x \in Events, <<g, x>> \in Credits
      PROVE  <<g, x>> \in Credits'
  <2>1. \/ outbox[x] = "sent" /\ x \notin batch[g]
        \/ flight[g] = "accepted" /\ Out(g, x)
    BY <1>2 DEF Credits
  <2>2. batch'[g] \subseteq batch[g] /\ (outbox[x] = "sent" => outbox'[x] = "sent")
    BY <1>1 DEF ForwardTypeOK
  <2>3. CASE outbox[x] = "sent" /\ x \notin batch[g]
    BY <2>2, <2>3 DEF Credits
  <2>4. CASE flight[g] = "accepted" /\ Out(g, x) /\ g # f
    <3>1. batch'[g] = batch[g] /\ flight'[g] = "accepted"
      BY <1>1, <2>4 DEF ForwardTypeOK
    <3>. QED  BY <2>4, <3>1 DEF Credits, Out
  <2>5. CASE Out(g, x) /\ g = f
    <3>1. x = e
      BY <1>1, <2>5, OutUnique
    <3>2. outbox'[x] = "sent" /\ x \notin batch'[g]
      BY <1>1, <2>5, <3>1 DEF ForwardTypeOK
    <3>. QED  BY <3>2 DEF Credits
  <2>. QED  BY <2>1, <2>3, <2>4, <2>5
<1>3. Credits \subseteq Credits' \cup {}
  BY <1>2 DEF Credits
<1>4. Cardinality(Credits) <= Cardinality(Credits') + Cardinality({})
  BY <1>3, CreditsLost, FS_EmptySet
<1>. QED  BY <1>4, CreditsNextNat, FS_EmptySet

LEMMA FailedCredits ==
  ASSUME IsFiniteSet(Flushers), ForwardTypeOK, NEW f \in Flushers, Failed(f)
  PROVE  Cardinality(Credits) <= Cardinality(Credits') + 1
<1>1. /\ outbox' = outbox
      /\ \A g \in Flushers : batch'[g] = IF g = f THEN {} ELSE batch[g]
      /\ \A g \in Flushers : g # f => flight'[g] = flight[g]
  BY DEF Failed, ForwardTypeOK
<1>2. ASSUME NEW g \in Flushers, NEW x \in Events, <<g, x>> \in Credits
      PROVE  <<g, x>> \in Credits' \/ (g = f /\ Out(f, x))
  BY <1>1, <1>2 DEF Credits, Out
<1>3. PICK L : IsFiniteSet(L) /\ Cardinality(L) <= 1 /\ Cardinality(L) \in Nat
               /\ Credits \subseteq Credits' \cup L
  <2>1. CASE \E e \in Events : Out(f, e)
    <3>1. PICK e \in Events : Out(f, e)
      BY <2>1
    <3>2. Credits \subseteq Credits' \cup {<<f, e>>}
      BY <1>2, <3>1, OutUnique DEF Credits
    <3>3. IsFiniteSet({<<f, e>>}) /\ Cardinality({<<f, e>>}) = 1
      BY FS_Singleton
    <3>. QED  BY <3>2, <3>3
  <2>2. CASE ~ \E e \in Events : Out(f, e)
    <3>1. Credits \subseteq Credits' \cup {}
      BY <1>2, <2>2 DEF Credits
    <3>. QED  BY <3>1, FS_EmptySet
  <2>. QED  BY <2>1, <2>2
<1>4. Cardinality(Credits) <= Cardinality(Credits') + Cardinality(L)
  BY <1>3, CreditsLost
<1>. QED  BY <1>3, <1>4, CreditsNextNat, CreditsFinite

\* A crash of the edge costs every pass at most the post it has out.
LEMMA EdgeCrashCredits ==
  ASSUME IsFiniteSet(Flushers), ForwardTypeOK, EdgeCrash
  PROVE  Cardinality(Credits) <= Cardinality(Credits') + Cardinality(Flushers)
<1>. DEFINE L == {p \in Flushers \X Events : Out(p[1], p[2])}
            g == [p \in L |-> p[1]]
<1>1. outbox' = outbox /\ \A f \in Flushers : batch'[f] = {}
  BY DEF EdgeCrash
<1>2. Credits \subseteq Credits' \cup L
  BY <1>1 DEF Credits
<1>3. g \in [L -> Flushers]
  OBVIOUS
<1>4. ASSUME NEW p \in L, NEW q \in L, g[p] = g[q]
      PROVE  p = q
  <2>1. p = <<p[1], p[2]>> /\ q = <<q[1], q[2]>> /\ p[1] = q[1]
    BY <1>4
  <2>2. p[2] = q[2]
    BY <2>1, OutUnique
  <2>. QED  BY <2>1, <2>2
<1>5. g \in Injection(L, Flushers)
  <2>. HIDE DEF L
  <2>1. DOMAIN g = L
    OBVIOUS
  <2>. QED  BY <1>3, <1>4, <2>1 DEF Injection, IsInjective
<1>6. IsFiniteSet(L) /\ Cardinality(L) <= Cardinality(Flushers)
  <2>. HIDE DEF L, g
  <2>. QED  BY <1>5, FS_Injection
<1>7. Cardinality(L) \in Nat
  <2>. HIDE DEF L, g
  <2>. QED  BY <1>6, FS_CardinalityType
<1>8. Cardinality(Credits) <= Cardinality(Credits') + Cardinality(L)
  <2>. HIDE DEF L, g
  <2>. QED  BY <1>2, <1>6, CreditsLost
<1>. HIDE DEF L, g
<1>. QED  BY <1>6, <1>7, <1>8, CreditsNextNat, CreditsFinite

LEMMA OtherCredits ==
  ASSUME ForwardTypeOK,
         \/ \E e \in Events : Submit(e)
         \/ \E f \in Flushers : StartPass(f)
         \/ EdgeRestart \/ Dispatch \/ BackendCrash \/ BackendRestart
         \/ UNCHANGED forwardVars
  PROVE  Credits' = Credits
<1>. USE DEF edgeVars, backendVars
<1>1. ASSUME NEW e \in Events, Submit(e)
      PROVE  Credits' = Credits
  <2>1. /\ \A x \in Events : outbox'[x] = "sent" <=> outbox[x] = "sent"
        /\ batch' = batch /\ flight' = flight
    BY <1>1 DEF Submit, ForwardTypeOK
  <2>. QED  BY <2>1 DEF Credits, Out
<1>2. ASSUME NEW f \in Flushers, StartPass(f)
      PROVE  Credits' = Credits
  <2>1. /\ outbox' = outbox /\ batch[f] = {}
        /\ \A g \in Flushers : batch'[g] = IF g = f THEN Pending ELSE batch[g]
        /\ \A g \in Flushers : flight'[g] = IF g = f THEN "out" ELSE flight[g]
    BY <1>2 DEF StartPass, ForwardTypeOK
  <2>2. \A e \in Pending : outbox[e] # "sent"
    BY DEF Pending
  <2>3. ASSUME NEW g \in Flushers, NEW x \in Events
        PROVE  <<g, x>> \in Credits' <=> <<g, x>> \in Credits
    <3>1. CASE g = f
      BY <2>1, <2>2, <3>1 DEF Credits, Out
    <3>2. CASE g # f
      BY <2>1, <3>2 DEF Credits, Out
    <3>. QED  BY <3>1, <3>2
  <2>4. Credits \subseteq Flushers \X Events /\ Credits' \subseteq Flushers \X Events
    BY DEF Credits
  <2>. QED  BY <2>3, <2>4
<1>3. CASE EdgeRestart \/ Dispatch \/ BackendCrash \/ BackendRestart \/ UNCHANGED forwardVars
  <2>1. outbox' = outbox /\ batch' = batch /\ flight' = flight
    BY <1>3 DEF EdgeRestart, Dispatch, BackendCrash, BackendRestart, forwardVars
  <2>. QED  BY <2>1 DEF Credits, Out
<1>. QED  BY <1>1, <1>2, <1>3

LEMMA OfferAdds ==
  ASSUME NEW q \in Seq(Message), NEW m \in Message
  PROVE  /\ Offer(q, m) \in Seq(Message) /\ Len(Offer(q, m)) <= Len(q) + 1
         /\ \A i \in DOMAIN q : i \in DOMAIN Offer(q, m) /\ Offer(q, m)[i] = q[i]
         /\ Len(q) < QueueCap => /\ Len(q) + 1 \in DOMAIN Offer(q, m)
                                 /\ Offer(q, m)[Len(q) + 1] = m
BY DEF Offer

\* What a bound on the queue is worth once there are more posts.
LEMMA MorePosts ==
  ASSUME NEW p \in Int, NEW q \in Int, p <= q
  PROVE  \A c \in Int : (p + p > c => q + q > c) /\ (c <= p + p => c <= q + q)
OBVIOUS

LEMMA NextBusInv ==
  ASSUME IsFiniteSet(Flushers), ForwardTypeOK, BusInv, [ForwardNext]_forwardVars
  PROVE  BusInv'
<1>. SUFFICES ASSUME backendCrashes' = 0
              PROVE  Within'
  BY DEF BusInv, Within
<1>. USE DEF edgeVars, backendVars
<1>. DEFINE cut == Cardinality(Flushers) * edgeCrashes
<1>0. /\ Cardinality(Credits) \in Nat /\ Cardinality(Credits') \in Nat
      /\ Cardinality(Flushers) \in Nat /\ failures \in Nat /\ edgeCrashes \in Nat
      /\ Len(queue) \in Nat /\ backendCrashes \in Nat
      /\ cut \in Int
      /\ edgeCrashes' = edgeCrashes => cut' = cut
      /\ edgeCrashes' = edgeCrashes + 1 => cut' = cut + Cardinality(Flushers)
      /\ Posts = Cardinality(Credits) + failures + cut
      /\ Posts' = Cardinality(Credits') + failures' + cut'
      /\ QueueCap \in Nat
      /\ backendCrashes = 0 => backendUp /\ Len(queue) <= Posts + Posts
  <2>1. failures \in Nat /\ edgeCrashes \in Nat /\ backendCrashes \in Nat /\ Len(queue) \in Nat
        /\ QueueCap \in Nat
    BY ForwardAssumption DEF ForwardTypeOK
  <2>2. Cardinality(Credits) \in Nat /\ Cardinality(Credits') \in Nat
        /\ Cardinality(Flushers) \in Nat
    BY CreditsFinite, CreditsNextNat
  <2>3. \A n \in Nat, c \in Nat : n * c \in Int /\ n * (c + 1) = n * c + n
    OBVIOUS
  <2>. QED  BY <2>1, <2>2, <2>3 DEF BusInv, Within, Posts
<1>. HIDE DEF cut
<1>9. Posts \in Int /\ Posts' \in Int /\ QueueCap \in Nat
  <2>. failures' \in Int
    BY NextForwardType, ForwardAssumption DEF ForwardTypeOK
  <2>. QED  BY <1>0
<1>10. Posts <= Posts' => /\ Posts + Posts > QueueCap => Posts' + Posts' > QueueCap
                          /\ Len(queue) <= Posts + Posts => Len(queue) <= Posts' + Posts'
  <2>1. Len(queue) \in Int /\ QueueCap \in Int
    BY <1>0, <1>9
  <2>. QED  BY <1>9, <2>1, MorePosts
<1>11. ASSUME backendCrashes = 0, shed' = shed, Posts <= Posts'
       PROVE  shed' # {} => Posts' + Posts' > QueueCap
  BY <1>10, <1>11 DEF BusInv, Within
<1>1. ASSUME NEW f \in Flushers, NEW e \in Events, Ingest(f, e)
      PROVE  Within'
  <2>1. Cardinality(Credits') = Cardinality(Credits) + 1
    BY <1>1, IngestCredits
  <2>2. /\ backendCrashes = 0 /\ backendUp'
        /\ failures' = failures /\ edgeCrashes' = edgeCrashes
    BY <1>1 DEF Ingest
  <2>3. Len(queue') <= Len(queue) + 2 /\ Len(queue') \in Nat
    <3>. DEFINE m == [event |-> e, topic |-> "family"]
                n == [event |-> e, topic |-> "all"]
    <3>1. m \in Message /\ n \in Message /\ queue \in Seq(Message)
      BY DEF Message, ForwardTypeOK
    <3>2. queue' = Offer(Offer(queue, m), n)
      BY <1>1 DEF Ingest
    <3>. HIDE DEF m, n
    <3>3. Offer(queue, m) \in Seq(Message) /\ Len(Offer(queue, m)) <= Len(queue) + 1
      BY <3>1, OfferAdds
    <3>4. queue' \in Seq(Message) /\ Len(queue') <= Len(Offer(queue, m)) + 1
      BY <3>1, <3>2, <3>3, OfferAdds
    <3>5. Len(Offer(queue, m)) \in Nat /\ Len(queue') \in Nat
      BY <3>3, <3>4
    <3>. QED  BY <3>3, <3>4, <3>5, <1>0
  <2>4. Posts' = Posts + 1 /\ Posts \in Int
    BY <1>0, <2>1, <2>2
  <2>5. Len(queue) <= Posts + Posts
    BY <1>0, <2>2
  <2>6. Len(queue') <= (Posts + 1) + (Posts + 1)
    BY <1>0, <2>3, <2>4, <2>5
  <2>7. CASE Len(queue) < QueueCap
    <3>1. shed' = shed /\ Posts <= Posts'
      BY <1>1, <2>4, <2>7 DEF Ingest
    <3>. QED  BY <1>11, <2>2, <2>4, <2>6, <3>1 DEF Within
  <2>8. CASE ~(Len(queue) < QueueCap)
    <3>1. Posts' + Posts' > QueueCap
      BY <1>0, <2>4, <2>5, <2>8
    <3>. QED  BY <2>2, <2>4, <2>6, <3>1 DEF Within
  <2>. QED  BY <2>7, <2>8
<1>2. ASSUME NEW f \in Flushers, NEW e \in Events, Acknowledged(f, e)
      PROVE  Within'
  <2>1. Cardinality(Credits) <= Cardinality(Credits')
    BY <1>2, AcknowledgedCredits
  <2>2. UNCHANGED <<backendUp, queue, shed, backendCrashes, failures, edgeCrashes>>
    BY <1>2 DEF Acknowledged
  <2>3. Posts <= Posts'
    BY <1>0, <2>1, <2>2
  <2>4. /\ backendCrashes = 0 /\ backendUp'
        /\ Len(queue') <= Posts' + Posts'
    BY <1>0, <1>10, <2>2, <2>3
  <2>. QED  BY <1>11, <2>2, <2>3, <2>4 DEF Within
<1>3. ASSUME NEW f \in Flushers, Failed(f)
      PROVE  Within'
  <2>1. Cardinality(Credits) <= Cardinality(Credits') + 1
    BY <1>3, FailedCredits
  <2>2. UNCHANGED <<backendUp, queue, shed, backendCrashes, edgeCrashes>> /\ failures' = failures + 1
    BY <1>0, <1>3 DEF Failed, Lossy
  <2>3. Posts <= Posts'
    BY <1>0, <2>1, <2>2
  <2>4. /\ backendCrashes = 0 /\ backendUp'
        /\ Len(queue') <= Posts' + Posts'
    BY <1>0, <1>10, <2>2, <2>3
  <2>. QED  BY <1>11, <2>2, <2>3, <2>4 DEF Within
<1>4. CASE EdgeCrash
  <2>1. Cardinality(Credits) <= Cardinality(Credits') + Cardinality(Flushers)
    BY <1>4, EdgeCrashCredits
  <2>2. /\ UNCHANGED <<backendUp, queue, shed, backendCrashes, failures>>
        /\ edgeCrashes' = edgeCrashes + 1
    BY <1>4 DEF EdgeCrash
  <2>3. Posts <= Posts'
    BY <1>0, <2>1, <2>2
  <2>4. /\ backendCrashes = 0 /\ backendUp'
        /\ Len(queue') <= Posts' + Posts'
    BY <1>0, <1>10, <2>2, <2>3
  <2>. QED  BY <1>11, <2>2, <2>3, <2>4 DEF Within
<1>5. CASE Dispatch
  <2>1. Credits' = Credits
    BY <1>5, OtherCredits
  <2>2. /\ UNCHANGED <<backendUp, shed, backendCrashes, failures, edgeCrashes>>
        /\ queue # <<>> /\ queue' = Tail(queue)
    BY <1>5 DEF Dispatch
  <2>3. Len(queue') = Len(queue) - 1
    BY <2>2 DEF ForwardTypeOK
  <2>4. /\ backendCrashes = 0 /\ backendUp'
        /\ Posts <= Posts' /\ Len(queue') <= Posts' + Posts'
    BY <1>0, <2>1, <2>2, <2>3
  <2>. QED  BY <1>11, <2>2, <2>4 DEF Within
<1>6. ~ BackendCrash
  BY <1>0 DEF BackendCrash
<1>7. ASSUME \/ \E e \in Events : Submit(e)
             \/ \E f \in Flushers : StartPass(f)
             \/ EdgeRestart \/ BackendRestart \/ UNCHANGED forwardVars
      PROVE  Within'
  <2>1. Credits' = Credits
    BY <1>7, OtherCredits
  <2>2. UNCHANGED <<queue, shed, backendCrashes, failures, edgeCrashes>> /\ (backendUp => backendUp')
    BY <1>7 DEF Submit, StartPass, EdgeRestart, BackendRestart, forwardVars
  <2>3. /\ backendCrashes = 0 /\ backendUp'
        /\ Posts <= Posts' /\ Len(queue') <= Posts' + Posts'
    BY <1>0, <2>1, <2>2
  <2>. QED  BY <1>11, <2>2, <2>3 DEF Within
<1>. QED  BY <1>1, <1>2, <1>3, <1>4, <1>5, <1>6, <1>7 DEF ForwardNext

Kept(e) ==
  \/ e \in log \cup shed \cup unsaved
  \/ \E i \in DOMAIN queue : queue[i] = [event |-> e, topic |-> "family"]

\* An accepted event keeps its copy in the queue until the orchestrator has it, or a
\* loss is on record.
LEMMA NextKept ==
  ASSUME ForwardTypeOK, backendCrashes = 0 => MissingIsReported, [ForwardNext]_forwardVars,
         backendCrashes' = 0
  PROVE  MissingIsReported'
<1>. SUFFICES ASSUME NEW x \in accepted'
              PROVE  Kept(x)'
  BY DEF MissingIsReported, Kept
<1>. USE DEF edgeVars, backendVars
<1>0. backendCrashes = 0
  <2>1. backendCrashes' = backendCrashes \/ backendCrashes' = backendCrashes + 1
    BY DEF ForwardNext, Submit, StartPass, Failed, Acknowledged, Ingest, EdgeCrash, EdgeRestart,
           Dispatch, BackendCrash, BackendRestart, forwardVars
  <2>. QED  BY <2>1, ForwardAssumption DEF ForwardTypeOK
<1>1. \A e \in accepted : Kept(e)
  BY <1>0 DEF MissingIsReported, Kept
<1>2. ASSUME NEW f \in Flushers, NEW e \in Events, Ingest(f, e)
      PROVE  Kept(x)'
  <2>1. PICK m, n : /\ m \in Message /\ n \in Message
                    /\ m = [event |-> e, topic |-> "family"]
                    /\ queue' = Offer(Offer(queue, m), n)
    BY <1>2 DEF Ingest, Message
  <2>2. /\ log' = log /\ unsaved' = unsaved /\ accepted' = accepted \cup {e}
        /\ shed' = IF Len(queue) < QueueCap THEN shed ELSE shed \cup {e}
    BY <1>2 DEF Ingest
  <2>3. /\ queue \in Seq(Message) /\ Len(queue) \in Nat
        /\ Offer(queue, m) \in Seq(Message) /\ queue' \in Seq(Message)
        /\ \A i \in DOMAIN queue : i \in DOMAIN Offer(queue, m) /\ Offer(queue, m)[i] = queue[i]
        /\ \A i \in DOMAIN Offer(queue, m) : i \in DOMAIN queue' /\ queue'[i] = Offer(queue, m)[i]
        /\ Len(queue) < QueueCap => /\ Len(queue) + 1 \in DOMAIN Offer(queue, m)
                                    /\ Offer(queue, m)[Len(queue) + 1] = m
    <3>1. queue \in Seq(Message)
      BY DEF ForwardTypeOK
    <3>2. \A q \in Seq(Message), c \in Message :
            /\ Offer(q, c) \in Seq(Message)
            /\ \A i \in DOMAIN q : i \in DOMAIN Offer(q, c) /\ Offer(q, c)[i] = q[i]
            /\ Len(q) < QueueCap => /\ Len(q) + 1 \in DOMAIN Offer(q, c)
                                    /\ Offer(q, c)[Len(q) + 1] = c
      BY OfferAdds
    <3>3. Offer(queue, m) \in Seq(Message)
      BY <2>1, <3>1, <3>2
    <3>4. Len(queue) \in Nat
      BY <3>1
    <3>. QED  BY <2>1, <3>1, <3>2, <3>3, <3>4
  <2>4. CASE x \in accepted
    BY <1>1, <2>2, <2>3, <2>4 DEF Kept
  <2>5. CASE x = e
    BY <2>1, <2>2, <2>3, <2>5 DEF Kept
  <2>. QED  BY <2>2, <2>4, <2>5
<1>3. CASE Dispatch
  <2>1. /\ queue # <<>> /\ queue' = Tail(queue) /\ accepted' = accepted
        /\ log \subseteq log' /\ unsaved \subseteq unsaved' /\ shed' = shed
        /\ Head(queue).topic # "all" => Head(queue).event \in log' \cup unsaved'
    BY <1>3 DEF Dispatch
  <2>2. CASE x \in log \cup shed \cup unsaved
    BY <2>1, <2>2 DEF Kept
  <2>3. ASSUME NEW i \in DOMAIN queue, queue[i] = [event |-> x, topic |-> "family"]
        PROVE  Kept(x)'
    <3>1. /\ queue \in Seq(Message) /\ i \in 1..Len(queue) /\ Len(queue) \in Nat
          /\ DOMAIN queue' = 1..(Len(queue) - 1)
          /\ \A j \in 1..(Len(queue) - 1) : queue'[j] = queue[j + 1]
          /\ Head(queue) = queue[1]
      BY <2>1, <2>3 DEF ForwardTypeOK
    <3>2. CASE i = 1
      <4>1. Head(queue).topic = "family" /\ Head(queue).event = x
        BY <2>3, <3>1, <3>2
      <4>. QED  BY <2>1, <4>1 DEF Kept
    <3>3. CASE i # 1
      <4>1. i - 1 \in 1..(Len(queue) - 1) /\ (i - 1) + 1 = i
        BY <3>1, <3>3
      <4>2. queue'[i - 1] = queue[i]
        BY <3>1, <4>1
      <4>. QED  BY <2>3, <3>1, <4>1, <4>2 DEF Kept
    <3>. QED  BY <3>2, <3>3
  <2>. QED  BY <1>1, <2>1, <2>2, <2>3 DEF Kept
<1>4. CASE BackendCrash
  BY <1>0, <1>4 DEF BackendCrash
<1>5. ASSUME \/ \E e \in Events : Submit(e)
             \/ \E f \in Flushers :
                  StartPass(f) \/ Failed(f) \/ \E e \in Events : Acknowledged(f, e)
             \/ EdgeCrash \/ EdgeRestart \/ BackendRestart \/ UNCHANGED forwardVars
      PROVE  Kept(x)'
  <2>1. UNCHANGED <<queue, log, shed, unsaved, accepted>>
    BY <1>5 DEF Submit, StartPass, Failed, Acknowledged, EdgeCrash, EdgeRestart, BackendRestart,
                forwardVars
  <2>. QED  BY <1>1, <2>1 DEF Kept
<1>. QED  BY <1>2, <1>3, <1>4, <1>5 DEF ForwardNext

\* The bus overflows only once the posts fill it, and the posts are bounded.
LEMMA ShedUnderLoad ==
  ASSUME IsFiniteSet(Flushers), ForwardTypeOK, PassInv, BusInv, backendCrashes = 0
  PROVE  ShedOnlyUnderLoad
<1>. SUFFICES ASSUME shed # {}
     PROVE 2 * (Cardinality(Flushers) * (Cardinality(accepted) + edgeCrashes) + failures) > QueueCap
  BY DEF ShedOnlyUnderLoad
<1>. DEFINE N == Cardinality(Flushers)
            C == Cardinality(Credits)
            A == Cardinality(accepted)
<1>1. N \in Nat /\ C \in Nat /\ A \in Nat /\ C <= N * A
  BY CreditsFinite, CreditsBound
<1>2. failures \in Nat /\ edgeCrashes \in Nat /\ QueueCap \in Nat
  BY ForwardAssumption DEF ForwardTypeOK
<1>3. (C + failures + N * edgeCrashes) + (C + failures + N * edgeCrashes) > QueueCap
  BY DEF BusInv, Within, Posts
<1>. HIDE DEF N, C, A
<1>4. N * (A + edgeCrashes) = N * A + N * edgeCrashes
  BY <1>1, <1>2
<1>5. N * A \in Nat /\ N * edgeCrashes \in Nat
  BY <1>1, <1>2
<1>6. 2 * (N * (A + edgeCrashes) + failures) > QueueCap
  BY <1>1, <1>2, <1>3, <1>4, <1>5
<1>. QED  BY <1>6 DEF N, A

(* As long as the backend lives, an accepted event is logged, on its way,  *)
(* or a loss it reported, and retries alone never overflow the bus: for    *)
(* any finite number of passes, any capacity, and any number of events,    *)
(* lost messages, failed saves and crashes of the edge.                    *)
THEOREM LossesAlwaysExplained ==
  ASSUME IsFiniteSet(Flushers)
  PROVE  ForwardSpec => []LossesAreExplained
<1>1. ForwardInit => BusInv /\ MissingIsReported
  <2>. SUFFICES ASSUME ForwardInit
                PROVE  BusInv /\ MissingIsReported
    OBVIOUS
  <2>1. Cardinality(Credits) \in Nat /\ Cardinality(Flushers) \in Nat
    BY CreditsFinite
  <2>2. Posts \in Nat
    BY <2>1 DEF ForwardInit, Posts
  <2>. QED  BY <2>2 DEF ForwardInit, BusInv, Within, MissingIsReported
<1>. DEFINE Inv == BusInv /\ (backendCrashes = 0 => MissingIsReported)
<1>2. ForwardTypeOK /\ Inv /\ [ForwardNext]_forwardVars => Inv'
  BY NextBusInv, NextKept
<1>3. ForwardTypeOK /\ PassInv /\ Inv => LossesAreExplained
  BY ShedUnderLoad DEF LossesAreExplained
<1>4. ForwardInit => Inv
  BY <1>1
<1>. HIDE DEF Inv
<1>. QED  BY <1>2, <1>3, <1>4, ForwardTypeCorrect, PassesInvariant, PTL DEF ForwardSpec
=============================================================================
