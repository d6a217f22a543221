--------------------------- MODULE EventConsumerProofs ---------------------------
(***************************************************************************)
(* Theorems about EventContract and EventConsumer, for any events, any     *)
(* foreign messages, workers and number of copies.                         *)
(***************************************************************************)
EXTENDS EventConsumer, TLAPS

-----------------------------------------------------------------------------
(* The contract *)

\* No two classes have one key (the ClassVars routing_key), and no two members
\* of RoutingKey one value.
LEMMA KeysDiffer ==
    /\ \A type \in DOMAIN Schema : routing_key(type) \in DOMAIN RoutingKey
    /\ \A s, t \in DOMAIN Schema : routing_key(s) = routing_key(t) => s = t
    /\ \A k, l \in DOMAIN RoutingKey : RoutingKey[k] = RoutingKey[l] => k = l
<1>1. /\ \A type \in DOMAIN Schema : routing_key(type) \in DOMAIN RoutingKey
      /\ \A s, t \in DOMAIN Schema : routing_key(s) = routing_key(t) => s = t
  BY DEF Schema, routing_key, Class, RoutingKey
<1>2. \A k, l \in DOMAIN RoutingKey : RoutingKey[k] = RoutingKey[l] => k = l
  BY DEF RoutingKey
<1> QED  BY <1>1, <1>2

\* The walk over the class tree yields every class, and only classes.
LEMMA WalkIsComplete ==
    /\ \A i \in DOMAIN all_event_types : all_event_types[i] \in DOMAIN Schema
    /\ \A type \in DOMAIN Schema : \E i \in DOMAIN all_event_types : all_event_types[i] = type
    /\ DOMAIN all_event_types = 1 .. 14
    /\ \A i, j \in DOMAIN all_event_types : all_event_types[i] = all_event_types[j] => i = j
BY DEF all_event_types, Schema

\* The map gives back the class whose key it is asked for.
LEMMA MapInvertsKeys ==
    ASSUME NEW type \in DOMAIN Schema
    PROVE  /\ routing_key(type) \in DOMAIN EVENTS_BY_ROUTING_KEY
           /\ EVENTS_BY_ROUTING_KEY[routing_key(type)] = type
<1>1. PICK i \in DOMAIN all_event_types : all_event_types[i] = type
  BY WalkIsComplete
<1>2. \A j \in DOMAIN all_event_types :
          routing_key(all_event_types[j]) = routing_key(type) => j = i
  BY <1>1, WalkIsComplete, KeysDiffer
<1>3. LastWith(routing_key(type)) = i
  <2>1. i <= i
    BY WalkIsComplete
  <2> QED  BY <1>1, <1>2, <2>1 DEF LastWith
<1>4. routing_key(type) \in DOMAIN EVENTS_BY_ROUTING_KEY
  BY <1>1 DEF EVENTS_BY_ROUTING_KEY
<1> QED  BY <1>1, <1>3, <1>4 DEF EVENTS_BY_ROUTING_KEY

\* Every key of the map is that of a class.
LEMMA MapHasClassesOnly ==
    ASSUME NEW key \in DOMAIN EVENTS_BY_ROUTING_KEY
    PROVE  \E type \in DOMAIN Schema :
               key = routing_key(type) /\ EVENTS_BY_ROUTING_KEY[key] = type
<1>1. PICK i \in DOMAIN all_event_types : key = routing_key(all_event_types[i])
  BY DEF EVENTS_BY_ROUTING_KEY
<1> QED  BY <1>1, WalkIsComplete, MapInvertsKeys

\* What a message can be read as, class by class.
LEMMA ReadingsOf ==
    ASSUME NEW m, NEW e
    PROVE  e \in Readings(m) <=>
               \E type \in DOMAIN Schema :
                   /\ RoutingKey[routing_key(type)] = m.routing_key
                   /\ e \in Validate(type, m.body)
<1>1. ASSUME e \in Readings(m)
      PROVE  \E type \in DOMAIN Schema :
                 /\ RoutingKey[routing_key(type)] = m.routing_key
                 /\ e \in Validate(type, m.body)
  BY <1>1, MapHasClassesOnly DEF Readings
<1>2. ASSUME NEW type \in DOMAIN Schema,
             RoutingKey[routing_key(type)] = m.routing_key, e \in Validate(type, m.body)
      PROVE  e \in Readings(m)
  BY <1>2, MapInvertsKeys DEF Readings
<1> QED  BY <1>1, <1>2

\* An event is read as itself and as nothing else, whatever fields a later
\* release adds to its class: the key names the class, the body has every
\* field it requires, and the event_id is the publisher's.
THEOREM RoundTrip ==
    ASSUME NEW e \in Event, NEW added,
           NEW m, m = [MessageOf(e) EXCEPT !.body.fields = @ \cup added]
    PROVE  Readings(m) = {e}
<1>1. /\ m.routing_key = RoutingKey[routing_key(e.type)]
      /\ m.body.fields = Schema[e.type].fields \cup added
      /\ m.body.event_id = e.event_id
      /\ m.body.data = e.data
  BY DEF MessageOf, Dump
<1>2. e.type \in DOMAIN Schema /\ e = [type |-> e.type, event_id |-> e.event_id, data |-> e.data]
  BY DEF Event
<1>3. \A type \in DOMAIN Schema : RoutingKey[routing_key(type)] = m.routing_key => type = e.type
  BY <1>1, <1>2, KeysDiffer
<1>4. required(e.type) \subseteq m.body.fields /\ "event_id" \in m.body.fields
  <2>1. \A type \in DOMAIN Schema : base_fields \subseteq Schema[type].fields
    BY DEF Schema, Class
  <2>2. "event_id" \in base_fields
    BY DEF base_fields
  <2> QED  BY <1>1, <1>2, <2>1, <2>2 DEF required
<1>5. Validate(e.type, m.body) = {e}
  <2>1. Validate(e.type, m.body) =
            [type : {e.type}, event_id : {e.event_id}, data : {e.data}]
    <3>1. {t \in {e.type} : required(t) \subseteq m.body.fields} = {e.type}
      BY <1>4
    <3> QED  BY <1>1, <1>4, <3>1 DEF Validate
  <2>2. \A r \in [type : {e.type}, event_id : {e.event_id}, data : {e.data}] :
            r = [type |-> e.type, event_id |-> e.event_id, data |-> e.data]
    OBVIOUS
  <2>3. [type |-> e.type, event_id |-> e.event_id, data |-> e.data]
            \in [type : {e.type}, event_id : {e.event_id}, data : {e.data}]
    OBVIOUS
  <2> QED  BY <1>2, <2>1, <2>2, <2>3
<1> QED  BY <1>1, <1>2, <1>3, <1>5, ReadingsOf

\* A foreign message is read as nothing.
LEMMA ForeignIsUnreadable ==
    ASSUME NEW m \in Foreign
    PROVE  Readings(m) = {}
<1>1. ASSUME NEW e \in Readings(m) PROVE FALSE
  <2>1. PICK type \in DOMAIN Schema :
            RoutingKey[routing_key(type)] = m.routing_key /\ e \in Validate(type, m.body)
    BY ReadingsOf
  <2>2. required(type) \subseteq m.body.fields
    BY <2>1 DEF Validate
  <2> QED  BY <2>1, <2>2, ConsumerAssumption
<1> QED  BY <1>1

\* The message of an event can be read, as that event, and tells it from others.
LEMMA OwnMessage ==
    ASSUME NEW e \in OwnEvent
    PROVE  /\ MessageOf(e) \in Message /\ MessageOf(e) # NoMessage
           /\ Readings(MessageOf(e)) = {e}
           /\ \A d \in OwnEvent : MessageOf(d) = MessageOf(e) => d = e
<1>1. MessageOf(e) \in Message /\ MessageOf(e) # NoMessage
  BY ConsumerAssumption DEF Message
<1>2. e \in Event
  BY ConsumerAssumption
<1>3. MessageOf(e) = [MessageOf(e) EXCEPT !.body.fields = @ \cup {}]
  BY DEF MessageOf, Dump
<1>4. Readings(MessageOf(e)) = {e}
  BY <1>2, <1>3, RoundTrip
<1>5. ASSUME NEW d \in OwnEvent, MessageOf(d) = MessageOf(e) PROVE d = e
  <2>1. d.event_id = e.event_id
    BY <1>5 DEF MessageOf, Dump
  <2> QED  BY <2>1, ConsumerAssumption
<1> QED  BY <1>1, <1>4, <1>5

\* What a worker makes of a message is the event it was sent for.
LEMMA ReadingIsOwn ==
    ASSUME NEW m \in Message, NEW e \in Readings(m)
    PROVE  e \in OwnEvent /\ m = MessageOf(e)
<1>1. PICK d \in OwnEvent : m = MessageOf(d)
  BY ForeignIsUnreadable DEF Message
<1> QED  BY <1>1, OwnMessage

-----------------------------------------------------------------------------
(* The consumer *)

\* What waits or is held has been sent, and what took effect is an event of
\* this release that has been sent.
NothingFromNowhere ==
    /\ \A m \in Message : queue[m] > 0 => sent[m] > 0
    /\ \A w \in Worker : hand[w] # NoMessage => sent[hand[w]] > 0
    /\ \A e \in applied : e \in OwnEvent /\ sent[MessageOf(e)] > 0

ConsumerInv == ConsumerTypeOK /\ NothingFromNowhere

LEMMA ConsumerInit == Init => ConsumerInv
<1> SUFFICES ASSUME Init PROVE ConsumerInv
  OBVIOUS
<1>1. 0 \in 0 .. MaxCopies
  BY ConsumerAssumption
<1> QED  BY <1>1 DEF Init, ConsumerInv, ConsumerTypeOK, NothingFromNowhere

LEMMA ArriveKeeps ==
    ASSUME ConsumerInv, NEW m \in Message, Arrive(m)
    PROVE  ConsumerInv'
<1> USE DEF ConsumerInv, ConsumerTypeOK, NothingFromNowhere, Arrive
<1>1. sent[m] + 1 \in 0 .. MaxCopies /\ queue[m] + 1 \in Nat
  BY ConsumerAssumption
<1>2. ConsumerTypeOK'
  BY <1>1
<1>3. \A n \in Message : sent'[n] >= sent[n] /\ sent[n] \in Nat /\ sent'[n] \in Nat
  BY <1>1
<1>4. sent'[m] > 0
  BY <1>1
<1>5. \A e \in OwnEvent : MessageOf(e) \in Message
  BY DEF Message
<1>6. NothingFromNowhere'
  <2>1. \A n \in Message : queue'[n] > 0 => sent'[n] > 0
    BY <1>3, <1>4
  <2>2. \A w \in Worker : hand'[w] # NoMessage => sent'[hand'[w]] > 0
    BY <1>3
  <2>3. \A e \in applied' : e \in OwnEvent /\ sent'[MessageOf(e)] > 0
    BY <1>3, <1>5
  <2> QED  BY <2>1, <2>2, <2>3
<1> QED  BY <1>2, <1>6

LEMMA TakeKeeps ==
    ASSUME ConsumerInv, NEW w \in Worker, NEW m \in Message, Take(w, m)
    PROVE  ConsumerInv'
<1> USE DEF ConsumerInv, ConsumerTypeOK, NothingFromNowhere, Take
<1>1. queue[m] - 1 \in Nat
  OBVIOUS
<1>2. ConsumerTypeOK'
  BY <1>1, ConsumerAssumption
<1>3. \A n \in Message : queue'[n] > 0 => queue[n] > 0
  BY <1>1
<1>4. NothingFromNowhere'
  BY <1>3
<1> QED  BY <1>2, <1>4

LEMMA ApplyKeeps ==
    ASSUME ConsumerInv, NEW w \in Worker, Apply(w)
    PROVE  /\ ConsumerInv'
           /\ \E e \in OwnEvent : /\ sent[MessageOf(e)] > 0 /\ e \notin applied
                                  /\ applied' = applied \cup {e} /\ sent' = sent
<1> USE DEF ConsumerInv, ConsumerTypeOK, NothingFromNowhere, Apply, Holds
<1>1. PICK e \in Readings(hand[w]) : ~Seen(e.event_id) /\ applied' = applied \cup {e}
  OBVIOUS
<1>2. hand[w] \in Message
  OBVIOUS
<1>3. e \in OwnEvent /\ hand[w] = MessageOf(e)
  BY <1>2, ReadingIsOwn
<1>4. e \in Event /\ sent[MessageOf(e)] > 0
  BY <1>3, ConsumerAssumption
<1>5. e \notin applied
  BY <1>1 DEF Seen
<1>6. ConsumerTypeOK'
  BY <1>1, <1>4
<1>7. NothingFromNowhere'
  BY <1>1, <1>3, <1>4
<1> QED  BY <1>1, <1>3, <1>4, <1>5, <1>6, <1>7

LEMMA LeaveHandKeeps ==
    ASSUME ConsumerInv, NEW w \in Worker, Skip(w) \/ Ack(w) \/ Reject(w) \/ Fail(w)
    PROVE  ConsumerInv'
<1> USE DEF ConsumerInv, ConsumerTypeOK, NothingFromNowhere, Holds
<1>1. CASE Skip(w)
  BY <1>1 DEF Skip
<1>2. CASE Ack(w)
  BY <1>2 DEF Ack
<1>3. CASE Reject(w)
  BY <1>3 DEF Reject
<1>4. CASE Fail(w)
  BY <1>4 DEF Fail
<1> QED  BY <1>1, <1>2, <1>3, <1>4

LEMMA CrashKeeps ==
    ASSUME ConsumerInv, NEW w \in Worker, Crash(w)
    PROVE  ConsumerInv'
<1> USE DEF ConsumerInv, ConsumerTypeOK, NothingFromNowhere, Crash
<1>1. hand[w] \in Message /\ queue[hand[w]] + 1 \in Nat
  OBVIOUS
<1>2. ConsumerTypeOK'
  BY <1>1
<1>3. \A n \in Message : queue'[n] > 0 => queue[n] > 0 \/ n = hand[w]
  BY <1>1
<1>4. NothingFromNowhere'
  BY <1>1, <1>3
<1> QED  BY <1>2, <1>4

\* The inductive invariant holds in every reachable state.
THEOREM ConsumerInductive == Spec => []ConsumerInv
<1>1. ConsumerInv /\ [Next]_vars => ConsumerInv'
  <2> SUFFICES ASSUME ConsumerInv, [Next]_vars PROVE ConsumerInv'
    OBVIOUS
  <2>1. CASE Next
    BY <2>1, ArriveKeeps, TakeKeeps, ApplyKeeps, LeaveHandKeeps, CrashKeeps DEF Next
  <2>2. CASE UNCHANGED vars
    BY <2>2 DEF vars, ConsumerInv, ConsumerTypeOK, NothingFromNowhere
  <2> QED  BY <2>1, <2>2
<1> QED  BY <1>1, ConsumerInit, PTL DEF Spec

\* The variables keep their types: only what validates as a class takes effect.
THEOREM ConsumerTyping == Spec => []ConsumerTypeOK
BY ConsumerInductive, PTL DEF ConsumerInv

\* A consumer that deduplicates by event_id implements EventEffects, for any
\* number of workers, copies, crashes and foreign messages.
THEOREM ConsumerProvidesEffects == Spec => ProvidesEffects
<1> DEFINE Published == {e \in OwnEvent : sent[MessageOf(e)] > 0}
           Step == [Effects!Next]_(Effects!vars)
<1>1. Init => Effects!Init
  <2> SUFFICES ASSUME Init PROVE Effects!Init
    OBVIOUS
  <2>1. \A e \in OwnEvent : sent[MessageOf(e)] = 0
    BY DEF Init, Message
  <2> QED  BY <2>1 DEF Init, Effects!Init
<1>2. ASSUME ConsumerInv, [Next]_vars PROVE Step
  <2> USE <1>2
  <2>1. ASSUME Published' = Published, applied' = applied PROVE Step
    BY <2>1 DEF Effects!vars
  <2>2. ASSUME NEW m \in Message, Arrive(m) PROVE Step
    <3>1. applied' = applied /\ \A n \in Message : n # m => sent'[n] = sent[n]
      BY <2>2 DEF Arrive, ConsumerInv, ConsumerTypeOK
    <3>2. sent'[m] > 0
      BY <2>2, ConsumerAssumption DEF Arrive, ConsumerInv, ConsumerTypeOK
    <3>3. \A e \in OwnEvent : MessageOf(e) \in Message
      BY DEF Message
    <3>4. CASE \E e \in OwnEvent : m = MessageOf(e)
      <4>1. PICK e \in OwnEvent : m = MessageOf(e)
        BY <3>4
      <4>2. \A d \in OwnEvent : MessageOf(d) = m => d = e
        BY <4>1, OwnMessage
      <4>3. Published' = Published \cup {e}
        BY <3>1, <3>2, <3>3, <4>1, <4>2
      <4> QED  BY <3>1, <4>1, <4>3 DEF Effects!Next, Effects!Publish
    <3>5. CASE \A e \in OwnEvent : m # MessageOf(e)
      BY <2>1, <3>1, <3>3, <3>5
    <3> QED  BY <3>4, <3>5
  <2>3. ASSUME NEW w \in Worker, Apply(w) PROVE Step
    <3>1. PICK e \in OwnEvent : /\ sent[MessageOf(e)] > 0 /\ e \notin applied
                                /\ applied' = applied \cup {e} /\ sent' = sent
      BY <2>3, ApplyKeeps
    <3>2. e \in Published \ applied /\ Published' = Published
      BY <3>1
    <3> QED  BY <3>1, <3>2 DEF Effects!Next, Effects!TakeEffect
  <2>4. ASSUME NEW w \in Worker, NEW m \in Message, Take(w, m) PROVE Step
    BY <2>1, <2>4 DEF Take
  <2>5. ASSUME NEW w \in Worker, Skip(w) \/ Ack(w) \/ Reject(w) \/ Fail(w) \/ Crash(w)
        PROVE  Step
    BY <2>1, <2>5 DEF Skip, Ack, Reject, Fail, Crash
  <2>6. CASE UNCHANGED vars
    BY <2>1, <2>6 DEF vars
  <2> QED  BY <2>2, <2>3, <2>4, <2>5, <2>6 DEF Next
<1> QED  BY <1>1, <1>2, ConsumerInductive, PTL DEF Spec, ProvidesEffects, Effects!Spec

-----------------------------------------------------------------------------
(* No event is lost *)

\* What a worker is done with has taken effect.
DoneIsApplied ==
    \A w \in done, e \in OwnEvent : hand[w] = MessageOf(e) => e \in applied

CareInv == DoneIsApplied /\ NoEventIsLost

\* Where an event may be that has arrived and not been lost.
Kept(e) ==
    \/ queue[MessageOf(e)] > 0
    \/ \E w \in Worker : hand[w] = MessageOf(e)
    \/ e \in applied
    \/ MessageOf(e) \in failed

\* An event with the id of one of ours that took effect is that one.
LEMMA SeenIsApplied ==
    ASSUME ConsumerInv, NEW e \in OwnEvent, Seen(e.event_id)
    PROVE  e \in applied
<1>1. PICK d \in applied : d.event_id = e.event_id
  BY DEF Seen
<1>2. d \in OwnEvent
  BY DEF ConsumerInv, NothingFromNowhere
<1> QED  BY <1>1, <1>2, ConsumerAssumption

LEMMA ArriveCares ==
    ASSUME ConsumerInv, CareInv, NEW m \in Message, Arrive(m)
    PROVE  CareInv'
<1> USE DEF ConsumerInv, ConsumerTypeOK, CareInv, Arrive
<1>1. DoneIsApplied'
  BY DEF DoneIsApplied
<1>2. ASSUME NEW e \in OwnEvent, sent'[MessageOf(e)] > 0 PROVE Kept(e)'
  <2>1. MessageOf(e) \in Message
    BY OwnMessage
  <2>2. CASE m = MessageOf(e)
    <3>1. queue'[m] = queue[m] + 1 /\ queue[m] \in Nat
      OBVIOUS
    <3> QED  BY <2>2, <3>1 DEF Kept
  <2>3. CASE m # MessageOf(e)
    <3>1. sent[MessageOf(e)] > 0 /\ queue'[MessageOf(e)] = queue[MessageOf(e)]
      BY <1>2, <2>1, <2>3
    <3>2. Kept(e)
      BY <3>1 DEF NoEventIsLost, Kept
    <3> QED  BY <3>1, <3>2 DEF Kept
  <2> QED  BY <2>2, <2>3
<1> QED  BY <1>1, <1>2 DEF NoEventIsLost, Kept

LEMMA TakeCares ==
    ASSUME ConsumerInv, CareInv, NEW w \in Worker, NEW m \in Message, Take(w, m)
    PROVE  CareInv'
<1> USE DEF ConsumerInv, ConsumerTypeOK, CareInv, Take
<1>1. w \notin done
  OBVIOUS
<1>2. DoneIsApplied'
  BY <1>1 DEF DoneIsApplied
<1>3. ASSUME NEW e \in OwnEvent, sent'[MessageOf(e)] > 0 PROVE Kept(e)'
  <2>1. MessageOf(e) # NoMessage /\ MessageOf(e) \in Message
    BY OwnMessage
  <2>2. Kept(e)
    BY <1>3 DEF NoEventIsLost, Kept
  <2>3. CASE m = MessageOf(e)
    <3>1. hand'[w] = MessageOf(e)
      BY <2>3
    <3> QED  BY <3>1 DEF Kept
  <2>4. CASE m # MessageOf(e)
    <3>1. queue'[MessageOf(e)] = queue[MessageOf(e)]
      BY <2>1, <2>4
    <3>2. \A v \in Worker : hand[v] = MessageOf(e) => hand'[v] = MessageOf(e)
      BY <2>1
    <3> QED  BY <2>2, <3>1, <3>2 DEF Kept
  <2> QED  BY <2>3, <2>4
<1> QED  BY <1>2, <1>3 DEF NoEventIsLost, Kept

\* Both ways to be done with a message: it takes effect, or had taken it.
LEMMA HandleCares ==
    ASSUME ConsumerInv, CareInv, NEW w \in Worker, Apply(w) \/ Skip(w)
    PROVE  CareInv'
<1> USE DEF ConsumerInv, ConsumerTypeOK, CareInv
<1>1. /\ UNCHANGED <<sent, queue, hand, failed>>
      /\ done' = done \cup {w} /\ applied \subseteq applied'
  BY DEF Apply, Skip
<1>2. ASSUME NEW e \in OwnEvent, hand[w] = MessageOf(e) PROVE e \in applied'
  <2>1. Readings(hand[w]) = {e}
    BY <1>2, OwnMessage
  <2>2. CASE Apply(w)
    BY <2>1, <2>2 DEF Apply
  <2>3. CASE Skip(w)
    <3>1. Seen(e.event_id)
      BY <2>1, <2>3 DEF Skip
    <3> QED  BY <1>1, <3>1, SeenIsApplied
  <2> QED  BY <2>2, <2>3
<1>3. DoneIsApplied'
  BY <1>1, <1>2 DEF DoneIsApplied
<1>4. NoEventIsLost'
  BY <1>1 DEF NoEventIsLost
<1> QED  BY <1>3, <1>4

\* Three ways to leave the hand: acknowledged after the effect, refused
\* because it is nobody's, or failed.
LEMMA LeaveHandCares ==
    ASSUME ConsumerInv, CareInv, NEW w \in Worker, Ack(w) \/ Reject(w) \/ Fail(w)
    PROVE  CareInv'
<1> USE DEF ConsumerInv, ConsumerTypeOK, CareInv, Holds
<1>1. /\ UNCHANGED <<sent, queue, applied>>
      /\ hand' = [hand EXCEPT ![w] = NoMessage]
      /\ done' \subseteq done /\ w \notin done' /\ failed \subseteq failed'
  BY DEF Ack, Reject, Fail
<1>2. ASSUME NEW e \in OwnEvent, hand[w] = MessageOf(e)
      PROVE  e \in applied' \/ MessageOf(e) \in failed'
  <2>1. CASE Ack(w)
    BY <1>1, <1>2, <2>1 DEF Ack, DoneIsApplied
  <2>2. CASE Reject(w)
    BY <1>2, <2>2, OwnMessage DEF Reject
  <2>3. CASE Fail(w)
    BY <1>2, <2>3 DEF Fail
  <2> QED  BY <2>1, <2>2, <2>3
<1>3. DoneIsApplied'
  BY <1>1 DEF DoneIsApplied
<1>4. ASSUME NEW e \in OwnEvent, sent'[MessageOf(e)] > 0 PROVE Kept(e)'
  <2>1. Kept(e)
    BY <1>1, <1>4 DEF NoEventIsLost, Kept
  <2>2. CASE hand[w] = MessageOf(e)
    BY <1>2, <2>2 DEF Kept
  <2>3. CASE hand[w] # MessageOf(e)
    <3>1. \A v \in Worker : hand[v] = MessageOf(e) => hand'[v] = MessageOf(e)
      BY <1>1, <2>3
    <3> QED  BY <1>1, <2>1, <3>1 DEF Kept
  <2> QED  BY <2>2, <2>3
<1> QED  BY <1>3, <1>4 DEF NoEventIsLost, Kept

\* What a dead worker held is back in the queue, handled or not.
LEMMA CrashCares ==
    ASSUME ConsumerInv, CareInv, NEW w \in Worker, Crash(w)
    PROVE  CareInv'
<1> USE DEF ConsumerInv, ConsumerTypeOK, CareInv, Crash
<1>1. hand[w] \in Message /\ queue[hand[w]] + 1 > 0
  OBVIOUS
<1>2. DoneIsApplied'
  BY DEF DoneIsApplied
<1>3. ASSUME NEW e \in OwnEvent, sent'[MessageOf(e)] > 0 PROVE Kept(e)'
  <2>1. Kept(e)
    BY <1>3 DEF NoEventIsLost, Kept
  <2>2. CASE hand[w] = MessageOf(e)
    BY <1>1, <2>2 DEF Kept
  <2>3. CASE hand[w] # MessageOf(e)
    <3>1. queue'[MessageOf(e)] = queue[MessageOf(e)]
      BY <2>3, OwnMessage
    <3>2. \A v \in Worker : hand[v] = MessageOf(e) => hand'[v] = MessageOf(e)
      BY <2>3
    <3> QED  BY <2>1, <3>1, <3>2 DEF Kept
  <2> QED  BY <2>2, <2>3
<1> QED  BY <1>2, <1>3 DEF NoEventIsLost, Kept

\* An event that has arrived is not lost, whatever the workers do, fail at or
\* die of: only what has taken effect is acknowledged.
THEOREM ConsumerLosesNothing == Spec => []NoEventIsLost
<1>1. Init => CareInv
  BY OwnMessage DEF Init, CareInv, DoneIsApplied, NoEventIsLost
<1>2. ConsumerInv /\ CareInv /\ [Next]_vars => CareInv'
  <2> SUFFICES ASSUME ConsumerInv, CareInv, [Next]_vars PROVE CareInv'
    OBVIOUS
  <2>1. CASE Next
    BY <2>1, ArriveCares, TakeCares, HandleCares, LeaveHandCares, CrashCares DEF Next
  <2>2. CASE UNCHANGED vars
    BY <2>2 DEF vars, CareInv, DoneIsApplied, NoEventIsLost
  <2> QED  BY <2>1, <2>2
<1>3. CareInv => NoEventIsLost
  BY DEF CareInv
<1> QED  BY <1>1, <1>2, <1>3, ConsumerInductive, PTL DEF Spec

=============================================================================
