--------------------------- MODULE EventPublisherProofs ---------------------------
(***************************************************************************)
(* Theorems about EventPublisher, for any outbox and any pool of channels. *)
(***************************************************************************)
EXTENDS EventPublisher, TLAPS

\* The ways a step can go, action by action.
LEMMA PublisherSteps ==
    ASSUME Next
    PROVE  \/ \E e \in Event, h \in Channel : Acquire(e, h)
           \/ \E e \in Event : Declare(e) \/ Return(e) \/ Raise(e)
           \/ \E e \in Event : Submit(e) \/ MarkSent(e) \/ Retry(e)
           \/ \E e \in Event : TakeMessage(e) \/ WriteToDisk(e) \/ Handle(e)
           \/ WorkerCrash
           \/ BrokerRestart
BY DEF Next, Publish, Work, Broker

-----------------------------------------------------------------------------
(* Types *)

\* The variables keep their types through failures, crashes and restarts.
THEOREM PublisherTyping == Spec => []PublisherTypeOK
<1> USE DEF InPublish, Holding
<1>1. Init => PublisherTypeOK
  BY DEF Init, PublisherTypeOK
<1>2. ASSUME PublisherTypeOK, Next PROVE PublisherTypeOK'
  <2> USE <1>2 DEF PublisherTypeOK, At
  <2>1. ASSUME NEW e \in Event, NEW h \in Channel, Acquire(e, h) PROVE PublisherTypeOK'
    BY <2>1 DEF Acquire, brokerVars
  <2>2. ASSUME NEW e \in Event, Declare(e) PROVE PublisherTypeOK'
    BY <2>2 DEF Declare, brokerVars
  <2>3. ASSUME NEW e \in Event, Return(e) PROVE PublisherTypeOK'
    BY <2>3 DEF Return, Release, brokerVars
  <2>4. ASSUME NEW e \in Event, Raise(e) PROVE PublisherTypeOK'
    BY <2>4 DEF Raise, Release, brokerVars
  <2>5. ASSUME NEW e \in Event, Submit(e) \/ MarkSent(e) \/ Retry(e) PROVE PublisherTypeOK'
    BY <2>5 DEF Submit, MarkSent, Retry, brokerVars
  <2>6. ASSUME NEW e \in Event, TakeMessage(e) \/ WriteToDisk(e) \/ Handle(e)
        PROVE  PublisherTypeOK'
    BY <2>6 DEF TakeMessage, WriteToDisk, Handle
  <2>7. CASE WorkerCrash
    BY <2>7 DEF WorkerCrash, brokerVars
  <2>8. CASE BrokerRestart
    BY <2>8 DEF BrokerRestart
  <2> QED  BY PublisherSteps, <2>1, <2>2, <2>3, <2>4, <2>5, <2>6, <2>7, <2>8
<1>3. ASSUME PublisherTypeOK, UNCHANGED vars PROVE PublisherTypeOK'
  BY <1>3 DEF PublisherTypeOK, vars, brokerVars
<1> QED  BY <1>1, <1>2, <1>3, PTL DEF Spec

-----------------------------------------------------------------------------
(* The pool *)

\* No failure, cancellation, crash or restart leaks a channel of the pool or
\* gives one to two publishes (`async with self.channel_pool.acquire()`).
THEOREM PoolBalances == Spec => []PoolIsAccounted
<1> USE PublisherAssumption DEF Holding, InPublish
<1>1. Init => PoolIsAccounted
  BY DEF Init, PoolIsAccounted
<1>2. ASSUME PublisherTypeOK, PoolIsAccounted, Next PROVE PoolIsAccounted'
  <2> USE <1>2 DEF PublisherTypeOK, PoolIsAccounted, At
  <2>1. ASSUME NEW e \in Event, NEW h \in Channel, Acquire(e, h) PROVE PoolIsAccounted'
    BY <2>1 DEF Acquire
  <2>2. ASSUME NEW e \in Event, Declare(e) PROVE PoolIsAccounted'
    BY <2>2 DEF Declare
  <2>3. ASSUME NEW e \in Event, Return(e) PROVE PoolIsAccounted'
    BY <2>3 DEF Return, Release
  <2>4. ASSUME NEW e \in Event, Raise(e) PROVE PoolIsAccounted'
    BY <2>4 DEF Raise, Release
  <2>5. ASSUME NEW e \in Event, Submit(e) \/ MarkSent(e) \/ Retry(e) PROVE PoolIsAccounted'
    BY <2>5 DEF Submit, MarkSent, Retry
  <2>6. ASSUME NEW e \in Event, TakeMessage(e) \/ WriteToDisk(e) \/ Handle(e)
        PROVE  PoolIsAccounted'
    BY <2>6 DEF TakeMessage, WriteToDisk, Handle
  <2>7. CASE WorkerCrash
    BY <2>7 DEF WorkerCrash
  <2>8. CASE BrokerRestart
    BY <2>8 DEF BrokerRestart
  <2> QED  BY PublisherSteps, <2>1, <2>2, <2>3, <2>4, <2>5, <2>6, <2>7, <2>8
<1>3. ASSUME PoolIsAccounted, UNCHANGED vars PROVE PoolIsAccounted'
  BY <1>3 DEF PoolIsAccounted, vars
<1> QED  BY <1>1, <1>2, <1>3, PublisherTyping, PTL DEF Spec

-----------------------------------------------------------------------------
(* Delivery *)

\* A publish that has returned, and whose row the worker has not marked yet,
\* has delivered its event.
ReturnedIsDelivered == \A e \in Event : pc[e] = "returned" => e \in Delivered

DeliveryInv == PublisherTypeOK /\ SentMeansDelivered /\ ReturnedIsDelivered

\* A confirmation of a persistent message is a delivery.
LEMMA ConfirmedIsDelivered ==
    ASSUME NEW e, Confirmed(e)
    PROVE  e \in Delivered
BY DEF Confirmed, Delivered, delivery_mode

\* Nothing takes a delivery back: the disk survives, and what leaves it has
\* reached the consumer.
LEMMA DeliveredStays ==
    ASSUME Next
    PROVE  Delivered \subseteq Delivered'
<1> USE DEF Delivered, brokerVars
<1>1. ASSUME NEW e \in Event, NEW h \in Channel, Acquire(e, h) PROVE Delivered \subseteq Delivered'
  BY <1>1 DEF Acquire
<1>2. ASSUME NEW e \in Event, Declare(e) \/ Return(e) \/ Raise(e)
      PROVE  Delivered \subseteq Delivered'
  BY <1>2 DEF Declare, Return, Raise
<1>3. ASSUME NEW e \in Event, Submit(e) \/ MarkSent(e) \/ Retry(e)
      PROVE  Delivered \subseteq Delivered'
  BY <1>3 DEF Submit, MarkSent, Retry
<1>4. ASSUME NEW e \in Event, TakeMessage(e) \/ WriteToDisk(e) \/ Handle(e)
      PROVE  Delivered \subseteq Delivered'
  BY <1>4 DEF TakeMessage, WriteToDisk, Handle
<1>5. WorkerCrash \/ BrokerRestart => Delivered \subseteq Delivered'
  BY DEF WorkerCrash, BrokerRestart
<1> QED  BY PublisherSteps, <1>1, <1>2, <1>3, <1>4, <1>5

\* Which step writes the log, marks a row, or lets a publish return.
LEMMA PromisesAreKept ==
    ASSUME DeliveryInv, Next
    PROVE  /\ echoed' \cup sent' \subseteq Delivered
           /\ \A e \in Event : pc'[e] = "returned" => e \in Delivered
<1> USE DEF DeliveryInv, PublisherTypeOK, SentMeansDelivered, ReturnedIsDelivered, At
<1>1. ASSUME NEW e \in Event, NEW h \in Channel, Acquire(e, h)
      PROVE  /\ echoed' \cup sent' \subseteq Delivered
             /\ \A d \in Event : pc'[d] = "returned" => d \in Delivered
  BY <1>1 DEF Acquire
<1>2. ASSUME NEW e \in Event, Declare(e) \/ Raise(e)
      PROVE  /\ echoed' \cup sent' \subseteq Delivered
             /\ \A d \in Event : pc'[d] = "returned" => d \in Delivered
  BY <1>2 DEF Declare, Raise
<1>3. ASSUME NEW e \in Event, Return(e)
      PROVE  /\ echoed' \cup sent' \subseteq Delivered
             /\ \A d \in Event : pc'[d] = "returned" => d \in Delivered
  BY <1>3, ConfirmedIsDelivered DEF Return
<1>4. ASSUME NEW e \in Event, Submit(e) \/ MarkSent(e) \/ Retry(e)
      PROVE  /\ echoed' \cup sent' \subseteq Delivered
             /\ \A d \in Event : pc'[d] = "returned" => d \in Delivered
  BY <1>4 DEF Submit, MarkSent, Retry
<1>5. ASSUME NEW e \in Event, TakeMessage(e) \/ WriteToDisk(e) \/ Handle(e)
      PROVE  /\ echoed' \cup sent' \subseteq Delivered
             /\ \A d \in Event : pc'[d] = "returned" => d \in Delivered
  BY <1>5 DEF TakeMessage, WriteToDisk, Handle
<1>6. ASSUME WorkerCrash \/ BrokerRestart
      PROVE  /\ echoed' \cup sent' \subseteq Delivered
             /\ \A d \in Event : pc'[d] = "returned" => d \in Delivered
  BY <1>6 DEF WorkerCrash, BrokerRestart
<1> QED  BY PublisherSteps, <1>1, <1>2, <1>3, <1>4, <1>5, <1>6

\* The inductive invariant behind the promise.
THEOREM DeliveryInductive == Spec => []DeliveryInv
<1>1. Init => SentMeansDelivered /\ ReturnedIsDelivered
  BY DEF Init, SentMeansDelivered, ReturnedIsDelivered
<1>2. ASSUME DeliveryInv, [Next]_vars
      PROVE  SentMeansDelivered' /\ ReturnedIsDelivered'
  <2>1. CASE Next
    BY <2>1, <1>2, PromisesAreKept, DeliveredStays DEF SentMeansDelivered, ReturnedIsDelivered
  <2>2. CASE UNCHANGED vars
    BY <2>2, <1>2 DEF DeliveryInv, SentMeansDelivered, ReturnedIsDelivered, Delivered, vars
  <2> QED  BY <1>2, <2>1, <2>2
<1> QED  BY <1>1, <1>2, PublisherTyping, PTL DEF Spec, DeliveryInv

\* A line in the log and a row marked as sent are never about an event that
\* the broker can still lose.
THEOREM SentIsDelivered == Spec => []SentMeansDelivered
BY DeliveryInductive, PTL DEF DeliveryInv

\* RabbitEventPublisher, alone or echoing, implements EventDelivery.
THEOREM PublisherProvidesDelivery == Spec => ProvidesDelivery
<1>1. Init => Delivery!Init
  BY DEF Init, Delivery!Init, Delivered
<1>2. ASSUME DeliveryInv, [Next]_vars PROVE [Delivery!Next]_(Delivery!vars)
  <2> DEFINE Step == [Delivery!Next]_(Delivery!vars)
  <2> USE <1>2 DEF DeliveryInv, PublisherTypeOK, Delivered, brokerVars, Delivery!vars
  <2>1. ASSUME NEW e \in Event, NEW h \in Channel, Acquire(e, h) PROVE Step
    BY <2>1 DEF Acquire
  <2>2. ASSUME NEW e \in Event, Declare(e) \/ Raise(e) \/ Submit(e) \/ Retry(e) PROVE Step
    BY <2>2 DEF Declare, Raise, Submit, Retry
  <2>3. ASSUME NEW e \in Event, Return(e) PROVE Step
    BY <2>3, ConfirmedIsDelivered DEF Return, Delivery!Next, Delivery!Announce
  <2>4. ASSUME NEW e \in Event, MarkSent(e) PROVE Step
    BY <2>4 DEF MarkSent, ReturnedIsDelivered, Delivery!Next, Delivery!Record
  <2>5. ASSUME NEW e \in Event, TakeMessage(e) PROVE Step
    BY <2>5 DEF TakeMessage
  <2>6. ASSUME NEW e \in Event, WriteToDisk(e) \/ Handle(e) PROVE Step
    BY <2>6 DEF WriteToDisk, Handle, Delivery!Next, Delivery!Deliver
  <2>7. CASE WorkerCrash \/ BrokerRestart
    BY <2>7 DEF WorkerCrash, BrokerRestart
  <2>8. CASE UNCHANGED vars
    BY <2>8 DEF vars
  <2> QED  BY PublisherSteps, <2>1, <2>2, <2>3, <2>4, <2>5, <2>6, <2>7, <2>8
<1> QED  BY <1>1, <1>2, DeliveryInductive, PTL DEF Spec, ProvidesDelivery, Delivery!Spec

-----------------------------------------------------------------------------
(* Waiting *)

\* A publish that waits, waits for what can come: for a channel that is in the
\* pool or in the hands of a publish that does not wait for one, or for the
\* confirmation of a message that the broker still has or has delivered.
WaitsForWhatCanCome ==
    \A e \in Event :
        /\ pc[e] = "acquiring" /\ Channel # {} =>
               free # {} \/ \E d \in Event : pc[d] \in Holding
        /\ pc[e] = "confirming" => e \in inMemory \cup Delivered

\* The confirmation a publish waits for is still due: the broker does not lose a
\* message and leave its publish waiting.
ConfirmationIsDue == \A e \in Event : pc[e] = "confirming" => e \in inMemory \cup Delivered

LEMMA NextConfirmation ==
    ASSUME PublisherTypeOK, ConfirmationIsDue, Next
    PROVE  ConfirmationIsDue'
<1> USE DEF PublisherTypeOK, ConfirmationIsDue, Delivered, At, brokerVars
<1>1. ASSUME NEW e \in Event, NEW h \in Channel, Acquire(e, h) PROVE ConfirmationIsDue'
  BY <1>1 DEF Acquire
<1>2. ASSUME NEW e \in Event, Declare(e) \/ Return(e) \/ Raise(e) PROVE ConfirmationIsDue'
  BY <1>2 DEF Declare, Return, Raise
<1>3. ASSUME NEW e \in Event, Submit(e) \/ MarkSent(e) \/ Retry(e) PROVE ConfirmationIsDue'
  BY <1>3 DEF Submit, MarkSent, Retry
<1>4. ASSUME NEW e \in Event, TakeMessage(e) \/ WriteToDisk(e) \/ Handle(e)
      PROVE  ConfirmationIsDue'
  BY <1>4 DEF TakeMessage, WriteToDisk, Handle
<1>5. CASE WorkerCrash
  BY <1>5 DEF WorkerCrash
<1>6. CASE BrokerRestart
  BY <1>6 DEF BrokerRestart, Holding
<1> QED  BY PublisherSteps, <1>1, <1>2, <1>3, <1>4, <1>5, <1>6

\* No publish waits for nothing, whatever failed, crashed or restarted: the
\* safety half of "every event arrives", for any pool and any outbox.
THEOREM PublishesAreNotStuck == Spec => []WaitsForWhatCanCome
<1>1. Init => ConfirmationIsDue
  BY DEF Init, ConfirmationIsDue
<1>2. PublisherTypeOK /\ ConfirmationIsDue /\ [Next]_vars => ConfirmationIsDue'
  <2>1. UNCHANGED vars /\ ConfirmationIsDue => ConfirmationIsDue'
    BY DEF vars, brokerVars, ConfirmationIsDue, Delivered
  <2> QED  BY <2>1, NextConfirmation
<1>3. PoolIsAccounted /\ ConfirmationIsDue => WaitsForWhatCanCome
  BY PublisherAssumption DEF PoolIsAccounted, ConfirmationIsDue, WaitsForWhatCanCome
<1> QED  BY <1>1, <1>2, <1>3, PublisherTyping, PoolBalances, PTL DEF Spec

=============================================================================
