------------------------- MODULE SubscriptionsProofs -------------------------
(***************************************************************************)
(* The safety properties of Subscriptions for any number of clients and    *)
(* events, and the refinement of EventStream.                              *)
(*                                                                         *)
(* GapFree relates a client's stream and queue to the log.  It is carried  *)
(* through a broadcast by BroadcastConsistent (the event being offered is  *)
(* the last of the log, and it is offered to registered clients only), and *)
(* needs to know that a listener is registered until it leaves by itself:  *)
(* ListenersRegistered, which in turn needs the ids to be distinct.        *)
(***************************************************************************)
EXTENDS Subscriptions, SequenceTheorems, TLAPS

\* The rest of what an induction on the steps needs.  A broadcast has its
\* event at the end of the log, and visits registered subscribers only;
BroadcastConsistent ==
    /\ todo \subseteq subscribers
    /\ mutex = None => todo = {}
    /\ mutex # None => /\ inhand[mutex] # None
                       /\ log # <<>>
                       /\ log[Len(log)] = inhand[mutex]

\* the ids that are in use were drawn from the counter, each once;
HoldsId(c) == pc[c] \in {"allocated", "listening", "leaving"}
IdsDistinct ==
    /\ \A c \in Client : HoldsId(c) => id[c] < nextId
    /\ \A c, d \in Client :
         HoldsId(c) /\ HoldsId(d) /\ id[c] = id[d] => c = d

\* nothing reaches a worker before it registers, and one leaves the loop only
\* because its client has gone.
QuietOutsideLoop ==
    \A c \in Client :
        /\ pc[c] = "new" => stream[c] = <<>> /\ queue[c] = <<>>
        /\ pc[c] \in {"started", "allocated"} =>
             stream[c] = <<Started>> /\ queue[c] = <<>>
        /\ pc[c] \in {"leaving", "unsubscribed"} => ~connected[c]

----------------------------------------------------------------------------
(* Type correctness                                                        *)

StreamEvent == [kind : {"subscription_started", "connected_displays_changed",
                        "vcp_changed", "stream_closed"},
                data : Event \cup {"{}"}]

\* Every message a client can be sent has the type of the varlink Event.
LEMMA MessageTypes ==
    /\ Started \in StreamEvent
    /\ Closed \in StreamEvent
    /\ \A e \in Event : ConvertInternalEvent(e) \in StreamEvent
BY DEF Started, Closed, ConvertInternalEvent, StreamEvent

\* A broadcaster inside the mutex has an event in hand: without it the type of
\* the queues would not be inductive.
CarriesEvent == mutex # None => inhand[mutex] # None

\* The types, and that a broadcast under way has its event in hand.
LEMMA TypesAndHand == Spec => [](TypeOK /\ CarriesEvent)
<1>1. Init => TypeOK /\ CarriesEvent
  <2>1. /\ <<>> \in Seq(HwEvent)
        /\ <<>> \in Seq(Event)
        /\ <<>> \in Seq(StreamEvent)
        /\ 0 \in Nat
    OBVIOUS
  <2>2. QED
    BY <2>1, Zenon DEF Init, TypeOK, StreamEvent, CarriesEvent
<1>2. TypeOK /\ CarriesEvent /\ [Next]_vars => TypeOK' /\ CarriesEvent'
  <2>. SUFFICES ASSUME TypeOK, CarriesEvent, [Next]_vars
                PROVE TypeOK' /\ CarriesEvent'
    OBVIOUS
  <2>. USE EventAssumption DEF bcastVars, workerVars, CarriesEvent
  <2>1. ASSUME NEW e \in HwEvent, Emit(e) PROVE TypeOK' /\ CarriesEvent'
    <3>1. /\ Append(channel, e) \in Seq(HwEvent)
          /\ Append(sent, e) \in Seq(HwEvent)
      BY AppendProperties DEF TypeOK
    <3>2. QED
      BY <2>1, <3>1 DEF Emit, TypeOK, Event
  <2>2. ASSUME NEW e \in VcpEvent, SetVcp(e) PROVE TypeOK' /\ CarriesEvent'
    BY <2>2 DEF SetVcp, TypeOK, Event, Broadcaster
  <2>3. CASE FwdReceive
    <3>1. /\ Head(channel) \in HwEvent
          /\ Tail(channel) \in Seq(HwEvent)
      BY <2>3, HeadTailProperties DEF FwdReceive, TypeOK
    <3>2. QED
      BY <2>3, <3>1 DEF FwdReceive, TypeOK, Event, Broadcaster
  <2>4. ASSUME NEW b \in Broadcaster, BeginBroadcast(b)
        PROVE TypeOK' /\ CarriesEvent'
    <3>1. Append(log, inhand[b]) \in Seq(Event)
      <4>1. inhand[b] \in Event
        BY <2>4 DEF BeginBroadcast, TypeOK
      <4>2. QED
        BY <4>1, AppendProperties DEF TypeOK
    <3>2. QED
      BY <2>4, <3>1 DEF BeginBroadcast, TypeOK, Broadcaster
  <2>5. ASSUME NEW b \in Broadcaster, Offer(b) PROVE TypeOK' /\ CarriesEvent'
    <3>1. inhand[b] \in Event
      BY <2>5 DEF Offer, TypeOK, Broadcaster
    <3>2. PICK s \in todo :
            /\ todo' = todo \ {s}
            /\ \/ /\ queue' = [queue EXCEPT ![s.client] =
                                             Append(@, inhand[b])]
                  /\ UNCHANGED subscribers
               \/ /\ subscribers' = subscribers \ {s}
                  /\ UNCHANGED queue
      BY <2>5, Zenon DEF Offer
    <3>3. s.client \in Client
      BY DEF TypeOK
    <3>4. Append(queue[s.client], inhand[b]) \in Seq(Event)
      BY <3>1, <3>3, AppendProperties DEF TypeOK
    <3>5. queue' \in [Client -> Seq(Event)]
      BY <3>2, <3>3, <3>4 DEF TypeOK
    <3>6. /\ subscribers' \subseteq [id : Nat, client : Client]
          /\ todo' \subseteq [id : Nat, client : Client]
      BY <3>2 DEF TypeOK
    <3>7. QED
      BY <2>5, <3>5, <3>6 DEF Offer, TypeOK
  <2>6. ASSUME NEW b \in Broadcaster, EndBroadcast(b)
        PROVE TypeOK' /\ CarriesEvent'
    BY <2>6 DEF EndBroadcast, TypeOK
  <2>7. ASSUME NEW c \in Client, StartSubscription(c)
        PROVE TypeOK' /\ CarriesEvent'
    <3>1. <<Started>> \in Seq(StreamEvent)
      BY MessageTypes
    <3>2. stream' \in [Client -> Seq(StreamEvent)]
      BY <2>7, <3>1 DEF StartSubscription, TypeOK, StreamEvent
    <3>3. \/ pc' = [pc EXCEPT ![c] = "started"]
          \/ pc' = [pc EXCEPT ![c] = "returned"]
      BY <2>7 DEF StartSubscription
    <3>4. pc' \in [Client -> {"new", "started", "allocated", "listening",
                              "leaving", "unsubscribed", "returned"}]
      BY <3>3 DEF TypeOK
    <3>5. UNCHANGED <<channel, mutex, subscribers, todo, inhand, nextId, id,
                      queue, connected, raised, sent, log, joined>>
      BY <2>7 DEF StartSubscription
    <3>6. QED
      BY <3>2, <3>4, <3>5 DEF TypeOK, StreamEvent
  <2>8. ASSUME NEW c \in Client, AllocateId(c) \/ Register(c)
        PROVE TypeOK' /\ CarriesEvent'
    <3>1. CASE AllocateId(c)
      <4>1. nextId \in Nat /\ id \in [Client -> Nat]
        BY DEF TypeOK
      <4>2. nextId' \in Nat /\ id' \in [Client -> Nat]
        BY <3>1, <4>1 DEF AllocateId, Increment
      <4>3. QED
        BY <3>1, <4>2 DEF AllocateId, TypeOK
    <3>2. CASE Register(c)
      <4>1. Len(log) \in Nat
        BY LenProperties DEF TypeOK
      <4>2. [id |-> id[c], client |-> c] \in [id : Nat, client : Client]
        BY DEF TypeOK
      <4>3. subscribers' \subseteq [id : Nat, client : Client]
        BY <3>2, <4>2 DEF Register, TypeOK
      <4>4. QED
        BY <3>2, <4>1, <4>3 DEF Register, TypeOK
    <3>3. QED
      BY <2>8, <3>1, <3>2
  <2>9. ASSUME NEW c \in Client, Forward(c) PROVE TypeOK' /\ CarriesEvent'
    <3>1. /\ Head(queue[c]) \in Event
          /\ Tail(queue[c]) \in Seq(Event)
      BY <2>9, HeadTailProperties DEF Forward, TypeOK
    <3>2. Append(stream[c], ConvertInternalEvent(Head(queue[c])))
            \in Seq(StreamEvent)
      BY <3>1, MessageTypes, AppendProperties DEF TypeOK, StreamEvent
    <3>3. /\ pc' = pc \/ pc' = [pc EXCEPT ![c] = "leaving"]
          /\ queue' = [queue EXCEPT ![c] = Tail(@)]
          /\ \/ stream' = stream
             \/ stream' = [stream EXCEPT ![c] = Append(@,
                             ConvertInternalEvent(Head(queue[c])))]
          /\ UNCHANGED <<channel, mutex, subscribers, todo, inhand, nextId,
                         id, connected, raised, sent, log, joined>>
      BY <2>9 DEF Forward
    <3>4. pc' \in [Client -> {"new", "started", "allocated", "listening",
                              "leaving", "unsubscribed", "returned"}]
      BY <3>3 DEF TypeOK
    <3>5. queue' \in [Client -> Seq(Event)]
      BY <3>1, <3>3 DEF TypeOK
    <3>6. stream' \in [Client -> Seq(StreamEvent)]
      <4>1. stream \in [Client -> Seq(StreamEvent)]
        BY DEF TypeOK, StreamEvent
      <4>2. QED
        BY <3>2, <3>3, <4>1
    <3>7. QED
      BY <3>3, <3>4, <3>5, <3>6 DEF TypeOK, StreamEvent
  <2>10. ASSUME NEW c \in Client, Unsubscribe(c)
         PROVE TypeOK' /\ CarriesEvent'
    BY <2>10 DEF Unsubscribe, TypeOK
  <2>11. ASSUME NEW c \in Client, CloseStream(c)
         PROVE TypeOK' /\ CarriesEvent'
    <3>1. Append(stream[c], Closed) \in Seq(StreamEvent)
      BY MessageTypes, AppendProperties DEF TypeOK, StreamEvent
    <3>2. stream' \in [Client -> Seq(StreamEvent)]
      BY <2>11, <3>1 DEF CloseStream, TypeOK, StreamEvent
    <3>3. queue' \in [Client -> Seq(Event)]
      <4>1. <<>> \in Seq(Event)
        OBVIOUS
      <4>2. QED
        BY <2>11, <4>1 DEF CloseStream, TypeOK
    <3>4. QED
      BY <2>11, <3>2, <3>3 DEF CloseStream, TypeOK, StreamEvent
  <2>12. ASSUME NEW c \in Client, Disconnect(c)
         PROVE TypeOK' /\ CarriesEvent'
    BY <2>12 DEF Disconnect, TypeOK
  <2>13. CASE UNCHANGED vars
    BY <2>13 DEF vars, TypeOK
  <2>14. QED
    BY <2>1, <2>2, <2>3, <2>4, <2>5, <2>6, <2>7, <2>8, <2>9, <2>10, <2>11,
       <2>12, <2>13 DEF Next, Broadcast, Worker
<1>3. QED
  BY <1>1, <1>2, PTL DEF Spec

\* The type invariant.
THEOREM Typing == Spec => []TypeOK
BY TypesAndHand, PTL

----------------------------------------------------------------------------
(* The subscriber list                                                     *)

\* Ids are drawn from a counter that only grows, so no two workers hold the
\* same one.
LEMMA Ids == Spec => []IdsDistinct
<1>1. Init => IdsDistinct
  BY DEF Init, IdsDistinct, HoldsId
<1>2. TypeOK /\ IdsDistinct /\ [Next]_vars => IdsDistinct'
  <2>. SUFFICES ASSUME TypeOK, IdsDistinct, [Next]_vars PROVE IdsDistinct'
    OBVIOUS
  <2>. /\ nextId \in Nat
       /\ id \in [Client -> Nat]
       /\ DOMAIN pc = Client
    BY DEF TypeOK
  <2>. USE DEF IdsDistinct, HoldsId
  <2>1. ASSUME NEW c \in Client, AllocateId(c) PROVE IdsDistinct'
    <3>1. \A d \in Client : /\ d # c => id'[d] = id[d] /\ pc'[d] = pc[d]
                            /\ id'[c] = nextId
      BY <2>1 DEF AllocateId
    <3>2. nextId' = nextId + 1
      BY <2>1 DEF AllocateId, Increment
    <3>3. QED
      BY <3>1, <3>2
  <2>2. ASSUME NEW c \in Client,
               \/ StartSubscription(c) \/ Register(c) \/ Forward(c)
               \/ Unsubscribe(c) \/ CloseStream(c)
        PROVE IdsDistinct'
    <3>1. UNCHANGED <<id, nextId>>
      BY <2>2 DEF StartSubscription, Register, Forward, Unsubscribe,
                  CloseStream
    <3>2. \A d \in Client : HoldsId(d)' => HoldsId(d)
      BY <2>2 DEF StartSubscription, Register, Forward, Unsubscribe,
                  CloseStream
    <3>3. QED
      BY <3>1, <3>2
  <2>3. CASE UNCHANGED <<pc, id, nextId>>
    BY <2>3
  <2>4. QED
    BY <2>1, <2>2, <2>3 DEF Next, Worker, Emit, SetVcp, FwdReceive, Broadcast,
       BeginBroadcast, Offer, EndBroadcast, Disconnect, bcastVars, workerVars,
       vars
<1>3. QED
  BY <1>1, <1>2, Typing, PTL DEF Spec

Listed(c) == pc[c] \in {"listening", "leaving"}

\* The list in the form the steps use.
ListMatches ==
    /\ \A s \in subscribers :
         /\ s.client \in Client
         /\ Listed(s.client)
         /\ s = Registered(s.client)
    /\ \A c \in Client : Listed(c) => Registered(c) \in subscribers

ListInv == ListMatches /\ BroadcastConsistent

\* The list is in step with the workers, and a broadcast with the list.
LEMMA ListStep ==
    TypeOK /\ IdsDistinct /\ ListInv /\ [Next]_vars => ListInv'
<1>. SUFFICES ASSUME TypeOK, IdsDistinct, ListInv, [Next]_vars
              PROVE ListInv'
  OBVIOUS
<1>. USE EventAssumption
     DEF ListInv, ListMatches, BroadcastConsistent, Listed, Registered
<1>1. ASSUME NEW b \in Broadcaster, BeginBroadcast(b) PROVE ListInv'
  <2>1. UNCHANGED <<subscribers, pc, id, inhand>>
    BY <1>1 DEF BeginBroadcast, workerVars
  <2>2. ListMatches'
    BY <2>1
  <2>3. /\ inhand[b] \in Event
        /\ log \in Seq(Event)
    BY <1>1 DEF BeginBroadcast, TypeOK
  <2>4. /\ log' # <<>>
        /\ log'[Len(log')] = inhand[b]
    BY <1>1, <2>3, AppendProperties DEF BeginBroadcast
  <2>5. QED
    BY <1>1, <2>1, <2>2, <2>4 DEF BeginBroadcast
<1>2. ASSUME NEW b \in Broadcaster, Offer(b) PROVE ListInv'
  <2>1. UNCHANGED <<mutex, inhand, log, pc, id>>
    BY <1>2 DEF Offer, workerVars
  <2>2. PICK s \in todo :
          /\ todo' = todo \ {s}
          /\ ChannelOpen(s.client) => UNCHANGED subscribers
    BY <1>2, Zenon DEF Offer
  <2>3. UNCHANGED subscribers
    BY <2>2 DEF ChannelOpen
  <2>4. mutex = b
    BY <1>2 DEF Offer
  <2>5. QED
    BY <2>1, <2>2, <2>3, <2>4 DEF Broadcaster
<1>3. ASSUME NEW b \in Broadcaster, EndBroadcast(b) PROVE ListInv'
  BY <1>3 DEF EndBroadcast, workerVars
<1>4. ASSUME NEW c \in Client, Register(c) PROVE ListInv'
  <2>1. /\ subscribers' = subscribers \cup {Registered(c)}
        /\ UNCHANGED <<mutex, todo, inhand, log, id>>
        /\ pc' = [pc EXCEPT ![c] = "listening"]
        /\ mutex = None
    BY <1>4 DEF Register, bcastVars
  <2>2. \A d \in Client : pc'[d] = IF d = c THEN "listening" ELSE pc[d]
    BY <2>1 DEF TypeOK
  <2>3. ASSUME NEW s \in subscribers'
        PROVE /\ s.client \in Client
              /\ Listed(s.client)'
              /\ s = Registered(s.client)'
    <3>1. CASE s \in subscribers
      BY <2>1, <2>2, <3>1
    <3>2. CASE s = Registered(c)
      <4>1. s.client = c
        BY <3>2
      <4>2. QED
        BY <2>1, <2>2, <3>2, <4>1
    <3>3. QED
      BY <2>1, <3>1, <3>2
  <2>4. ASSUME NEW d \in Client, Listed(d)'
        PROVE Registered(d)' \in subscribers'
    BY <2>1, <2>2, <2>4
  <2>5. QED
    BY <2>1, <2>3, <2>4
<1>5. ASSUME NEW c \in Client, Unsubscribe(c) PROVE ListInv'
  <2>1. /\ pc[c] = "leaving"
        /\ subscribers' = {s \in subscribers : s.id # id[c]}
        /\ UNCHANGED <<mutex, todo, inhand, log, id>>
        /\ pc' = [pc EXCEPT ![c] = "unsubscribed"]
        /\ mutex = None
    BY <1>5 DEF Unsubscribe, bcastVars
  <2>2. \A d \in Client : d # c /\ Listed(d) => id[d] # id[c]
    BY <2>1 DEF IdsDistinct, HoldsId
  <2>3. \A d \in Client : pc'[d] = IF d = c THEN "unsubscribed" ELSE pc[d]
    BY <2>1 DEF TypeOK
  <2>4. ASSUME NEW s \in subscribers'
        PROVE /\ s.client \in Client
              /\ Listed(s.client)'
              /\ s = Registered(s.client)'
    <3>1. s \in subscribers /\ s.id # id[c]
      BY <2>1
    <3>2. s.client # c
      BY <3>1
    <3>3. QED
      BY <2>1, <2>3, <3>1, <3>2
  <2>5. ASSUME NEW d \in Client, Listed(d)'
        PROVE Registered(d)' \in subscribers'
    <3>1. d # c /\ Listed(d)
      BY <2>3, <2>5
    <3>2. Registered(d).id # id[c]
      BY <2>2, <3>1
    <3>3. QED
      BY <2>1, <3>1, <3>2
  <2>6. QED
    BY <2>1, <2>4, <2>5
<1>6. ASSUME NEW c \in Client,
             \/ StartSubscription(c) \/ AllocateId(c) \/ Forward(c)
             \/ CloseStream(c)
      PROVE ListInv'
  <2>1. UNCHANGED <<subscribers, mutex, todo, inhand, log>>
    BY <1>6 DEF StartSubscription, AllocateId, Forward, CloseStream, bcastVars
  <2>2. \/ /\ pc[c] = "new"
           /\ id' = id
           /\ \/ pc' = [pc EXCEPT ![c] = "started"]
              \/ pc' = [pc EXCEPT ![c] = "returned"]
        \/ /\ pc[c] = "started"
           /\ id' = [id EXCEPT ![c] = nextId]
           /\ pc' = [pc EXCEPT ![c] = "allocated"]
        \/ /\ pc[c] = "listening"
           /\ id' = id
           /\ pc' = pc \/ pc' = [pc EXCEPT ![c] = "leaving"]
        \/ /\ pc[c] = "unsubscribed"
           /\ id' = id
           /\ pc' = [pc EXCEPT ![c] = "returned"]
    BY <1>6 DEF StartSubscription, AllocateId, Forward, CloseStream
  <2>3. ASSUME NEW d \in Client
        PROVE /\ Listed(d)' <=> Listed(d)
              /\ Listed(d) => id'[d] = id[d]
    <3>1. DOMAIN pc = Client /\ DOMAIN id = Client
      BY DEF TypeOK
    <3>2. CASE d = c
      BY <2>2, <3>1, <3>2
    <3>3. CASE d # c
      BY <2>2, <3>1, <3>3
    <3>4. QED
      BY <3>2, <3>3
  <2>4. QED
    BY <2>1, <2>3
<1>7. CASE FwdReceive \/ \E e \in VcpEvent : SetVcp(e)
  <2>1. UNCHANGED <<mutex, todo, log, subscribers, pc, id>>
    BY <1>7 DEF FwdReceive, SetVcp, workerVars
  <2>2. mutex # None => inhand'[mutex] = inhand[mutex]
    BY <1>7 DEF FwdReceive, SetVcp, TypeOK
  <2>3. QED
    BY <2>1, <2>2
<1>8. CASE UNCHANGED <<mutex, todo, inhand, log, subscribers, pc, id>>
  BY <1>8
<1>9. QED
  BY <1>1, <1>2, <1>3, <1>4, <1>5, <1>6, <1>7, <1>8
     DEF Next, Worker, Broadcast, Emit, Disconnect, bcastVars, workerVars, vars

\* The list agrees with what the workers have done to it.
LEMMA Lists == Spec => []ListInv
<1>1. Init => ListInv
  BY DEF Init, ListInv, ListMatches, Listed, BroadcastConsistent
<1>2. QED
  BY <1>1, ListStep, Typing, Ids, PTL DEF Spec

\* The subscriber list holds the workers that are in, or just out of, the
\* receive loop, and every id on it is its owner's alone.
THEOREM Registration == Spec => []ListenersRegistered
<1>1. ListInv /\ IdsDistinct => ListenersRegistered
  <2>. SUFFICES ASSUME ListInv, IdsDistinct PROVE ListenersRegistered
    OBVIOUS
  <2>1. subscribers = {Registered(c) : c \in {d \in Client : Listed(d)}}
    BY DEF ListInv, ListMatches
  <2>2. ASSUME NEW s \in subscribers, NEW t \in subscribers, s.id = t.id
        PROVE s = t
    BY <2>2 DEF ListInv, ListMatches, Listed, Registered, IdsDistinct, HoldsId
  <2>3. QED
    BY <2>1, <2>2 DEF ListenersRegistered, Listed
<1>2. QED
  BY <1>1, Lists, Ids, PTL

----------------------------------------------------------------------------
(* The streams                                                             *)

\* A send of a broadcast never fails: every listed worker still has its
\* receiving end, so retain() drops nobody.
LEMMA OfferReaches ==
    ASSUME TypeOK, ListInv, NEW b \in Broadcaster, Offer(b)
    PROVE  \E d \in Client :
             /\ Listed(d)
             /\ Registered(d) \in todo
             /\ todo' = todo \ {Registered(d)}
             /\ queue' = [queue EXCEPT ![d] = Append(@, log[Len(log)])]
             /\ log # <<>>
             /\ UNCHANGED <<subscribers, log, pc, id, joined, stream, connected>>
<1>1. PICK s \in todo :
        /\ todo' = todo \ {s}
        /\ IF ChannelOpen(s.client)
             THEN /\ queue' = [queue EXCEPT ![s.client] = Append(@, inhand[b])]
                  /\ UNCHANGED subscribers
             ELSE /\ subscribers' = subscribers \ {s}
                  /\ UNCHANGED queue
  BY Zenon DEF Offer
<1>2. /\ s.client \in Client
      /\ Listed(s.client)
      /\ s = Registered(s.client)
  BY DEF ListInv, ListMatches, BroadcastConsistent
<1>3. ChannelOpen(s.client)
  BY <1>2 DEF Listed, ChannelOpen
<1>4. inhand[b] = log[Len(log)] /\ log # <<>>
  BY EventAssumption DEF Offer, ListInv, BroadcastConsistent
<1>5. UNCHANGED <<log, pc, id, joined, stream, connected>>
  BY DEF Offer, workerVars
<1>6. QED
  BY <1>1, <1>2, <1>3, <1>4, <1>5, Zenon

\* Workers outside the loop have empty queues, and leave because the client has.
LEMMA Quiet == Spec => []QuietOutsideLoop
<1>1. Init => QuietOutsideLoop
  BY DEF Init, QuietOutsideLoop
<1>2. TypeOK /\ ListInv /\ QuietOutsideLoop /\ [Next]_vars
        => QuietOutsideLoop'
  <2>. SUFFICES ASSUME TypeOK, ListInv, QuietOutsideLoop, [Next]_vars
                PROVE QuietOutsideLoop'
    OBVIOUS
  <2>. /\ DOMAIN pc = Client
       /\ DOMAIN stream = Client
       /\ DOMAIN queue = Client
       /\ DOMAIN connected = Client
    BY DEF TypeOK
  <2>. USE DEF QuietOutsideLoop
  <2>1. ASSUME NEW b \in Broadcaster, Offer(b) PROVE QuietOutsideLoop'
    <3>1. PICK d \in Client :
            /\ Listed(d)
            /\ queue' = [queue EXCEPT ![d] = Append(@, log[Len(log)])]
            /\ UNCHANGED <<pc, stream, connected>>
      BY <2>1, OfferReaches, Zenon
    <3>2. QED
      BY <3>1 DEF Listed
  <2>2. ASSUME NEW c \in Client, Worker(c) PROVE QuietOutsideLoop'
    <3>1. UNCHANGED connected
      BY <2>2 DEF Worker, StartSubscription, AllocateId, Register, Forward,
                  Unsubscribe, CloseStream
    <3>2. ASSUME NEW d \in Client, d # c
          PROVE UNCHANGED <<pc[d], stream[d], queue[d]>>
      BY <2>2, <3>2 DEF Worker, StartSubscription, AllocateId, Register,
                        Forward, Unsubscribe, CloseStream
    <3>3. /\ pc'[c] = "new" => FALSE
          /\ pc'[c] \in {"started", "allocated"} =>
               stream'[c] = <<Started>> /\ queue'[c] = <<>>
          /\ pc'[c] \in {"leaving", "unsubscribed"} => ~connected[c]
      BY <2>2 DEF Worker, StartSubscription, AllocateId, Register, Forward,
                  Unsubscribe, CloseStream
    <3>4. QED
      BY <3>1, <3>2, <3>3
  <2>3. ASSUME NEW c \in Client, Disconnect(c) PROVE QuietOutsideLoop'
    BY <2>3 DEF Disconnect, workerVars
  <2>4. CASE UNCHANGED <<pc, stream, queue, connected>>
    BY <2>4
  <2>5. QED
    BY <2>1, <2>2, <2>3, <2>4 DEF Next, Emit, SetVcp, FwdReceive, Broadcast,
       BeginBroadcast, EndBroadcast, workerVars, vars
<1>3. QED
  BY <1>1, <1>2, Typing, Lists, PTL DEF Spec

\* No client is ever sent stream_closed.
THEOREM CloseUnseen == Spec => []NeverSeesClose
<1>1. Init => NeverSeesClose
  BY DEF Init, NeverSeesClose
<1>2. /\ Started # Closed
      /\ \A e \in Event : ConvertInternalEvent(e) # Closed
  BY DEF ConvertInternalEvent, Started, Closed
<1>3. TypeOK /\ QuietOutsideLoop /\ NeverSeesClose /\ [Next]_vars
        => NeverSeesClose'
  <2>. SUFFICES ASSUME TypeOK, QuietOutsideLoop, NeverSeesClose, [Next]_vars
                PROVE NeverSeesClose'
    OBVIOUS
  <2>. stream \in [Client -> Seq(StreamEvent)]
    BY DEF TypeOK, StreamEvent
  <2>. USE DEF NeverSeesClose
  <2>1. ASSUME NEW c \in Client, StartSubscription(c) PROVE NeverSeesClose'
    <3>1. \A i \in 1..Len(<<Started>>) : <<Started>>[i] # Closed
      BY <1>2
    <3>2. \/ stream' = [stream EXCEPT ![c] = <<Started>>]
          \/ UNCHANGED stream
      BY <2>1 DEF StartSubscription
    <3>3. QED
      <4>. DEFINE opening == <<Started>>
      <4>1. \A i \in 1..Len(opening) : opening[i] # Closed
        BY <3>1
      <4>. HIDE DEF opening
      <4>2. QED
        BY <3>2, <4>1 DEF opening
  <2>2. ASSUME NEW c \in Client, Forward(c) PROVE NeverSeesClose'
    <3>1. Head(queue[c]) \in Event
      BY <2>2, HeadTailProperties DEF Forward, TypeOK
    <3>. DEFINE m == ConvertInternalEvent(Head(queue[c]))
    <3>2. m \in StreamEvent /\ m # Closed
      BY <3>1, <1>2, MessageTypes
    <3>. HIDE DEF m
    <3>3. /\ Len(Append(stream[c], m)) = Len(stream[c]) + 1
          /\ \A i \in 1..Len(stream[c]) :
               Append(stream[c], m)[i] = stream[c][i]
          /\ Append(stream[c], m)[Len(stream[c]) + 1] = m
      BY <3>2, AppendProperties
    <3>4. \A i \in 1..Len(Append(stream[c], m)) :
            Append(stream[c], m)[i] # Closed
      BY <3>2, <3>3, LenProperties
    <3>5. \/ stream' = [stream EXCEPT ![c] = Append(stream[c], m)]
          \/ UNCHANGED stream
      BY <2>2 DEF Forward, m
    <3>6. QED
      BY <3>4, <3>5
  <2>3. ASSUME NEW c \in Client, CloseStream(c) PROVE NeverSeesClose'
    BY <2>3 DEF CloseStream, QuietOutsideLoop
  <2>4. CASE UNCHANGED stream
    BY <2>4
  <2>5. QED
    BY <2>1, <2>2, <2>3, <2>4 DEF Next, Worker, AllocateId, Register,
       Unsubscribe, Emit, SetVcp, FwdReceive, Broadcast, BeginBroadcast,
       Offer, EndBroadcast, Disconnect, workerVars, vars
<1>4. QED
  BY <1>1, <1>3, Typing, Quiet, PTL DEF Spec

\* A step that changes nothing of a listener's segment preserves it.
LEMMA SegmentKept ==
    ASSUME NEW c \in Client, Segment(c),
           UNCHANGED <<stream[c], queue[c], joined[c], id[c], log, todo>>
    PROVE  Segment(c)'
BY DEF Segment, Reach, Registered, Delivered

\* A listener's segment of the log is extended by a broadcast that begins
\* (what it has still to be offered is the last event of the log only), is
\* kept by an offer to it, and moves from its queue to its stream when it
\* forwards.
LEMMA SegmentStep ==
    TypeOK /\ ListInv /\ QuietOutsideLoop /\ GapFree /\ [Next]_vars
      => GapFree'
<1>. SUFFICES ASSUME TypeOK, ListInv, QuietOutsideLoop, GapFree, [Next]_vars,
                     NEW c \in Client, pc'[c] = "listening"
              PROVE  Segment(c)'
  BY DEF GapFree
<1>. /\ log \in Seq(Event)
     /\ queue[c] \in Seq(Event)
     /\ stream[c] \in Seq(StreamEvent)
     /\ joined[c] \in Nat
     /\ DOMAIN pc = Client
     /\ DOMAIN stream = Client
     /\ DOMAIN queue = Client
     /\ DOMAIN joined = Client
     /\ DOMAIN id = Client
  BY DEF TypeOK, StreamEvent
<1>. /\ Len(log) \in Nat
     /\ Len(queue[c]) \in Nat
     /\ Len(stream[c]) \in Nat
  BY LenProperties
<1>1. ASSUME NEW b \in Broadcaster, BeginBroadcast(b) PROVE Segment(c)'
  <2>1. /\ log' = Append(log, inhand[b])
        /\ todo' = subscribers
        /\ mutex = None
        /\ inhand[b] \in Event
        /\ UNCHANGED <<queue, stream, joined, id, pc>>
    BY <1>1 DEF BeginBroadcast, workerVars, TypeOK
  <2>2. Segment(c)
    BY <2>1 DEF GapFree
  <2>3. /\ Reach(c) = Len(log)
        /\ Registered(c) \in todo'
    BY <2>1 DEF Reach, ListInv, ListMatches, Listed, BroadcastConsistent
  <2>4. /\ Len(log') = Len(log) + 1
        /\ \A i \in 1..Len(log) : log'[i] = log[i]
    BY <2>1, AppendProperties
  <2>5. Reach(c)' = Len(log)
    BY <2>1, <2>3, <2>4 DEF Reach, Registered
  <2>6. /\ Delivered(c) \in Nat
        /\ joined[c] + Delivered(c) + Len(queue[c]) = Len(log)
    BY <2>2, <2>3, EmptySeq DEF Segment, Delivered
  <2>7. UNCHANGED <<Delivered(c), joined[c], queue[c], stream[c]>>
    BY <2>1 DEF Delivered
  <2>8. ASSUME NEW i \in 1..Delivered(c)
        PROVE stream[c][i + 1] = ConvertInternalEvent(log'[joined[c] + i])
    <3>1. joined[c] + i \in 1..Len(log)
      BY <2>6
    <3>2. QED
      BY <2>2, <2>4, <3>1 DEF Segment
  <2>9. ASSUME NEW i \in 1..Len(queue[c])
        PROVE queue[c][i] = log'[joined[c] + Delivered(c) + i]
    <3>1. joined[c] + Delivered(c) + i \in 1..Len(log)
      BY <2>6
    <3>2. QED
      BY <2>2, <2>4, <3>1 DEF Segment
  <2>10. QED
    BY <2>2, <2>5, <2>6, <2>7, <2>8, <2>9 DEF Segment
<1>2. ASSUME NEW b \in Broadcaster, Offer(b) PROVE Segment(c)'
  <2>1. PICK d \in Client :
          /\ Registered(d) \in todo
          /\ todo' = todo \ {Registered(d)}
          /\ queue' = [queue EXCEPT ![d] = Append(@, log[Len(log)])]
          /\ log # <<>>
          /\ UNCHANGED <<subscribers, log, pc, id, joined, stream>>
    BY <1>2, OfferReaches, Zenon
  <2>2. Segment(c)
    BY <2>1 DEF GapFree
  <2>3. CASE c = d
    <3>1. log[Len(log)] \in Event
      BY <2>1, ElementOfSeq, EmptySeq
    <3>2. /\ Len(queue'[c]) = Len(queue[c]) + 1
          /\ \A i \in 1..Len(queue[c]) : queue'[c][i] = queue[c][i]
          /\ queue'[c][Len(queue[c]) + 1] = log[Len(log)]
      <4>1. queue'[c] = Append(queue[c], log[Len(log)])
        BY <2>1, <2>3
      <4>2. QED
        BY <3>1, <4>1, AppendProperties
    <3>3. /\ Reach(c) = Len(log) - 1
          /\ Reach(c)' = Len(log)
      BY <2>1, <2>3 DEF Reach, Registered
    <3>4. /\ Delivered(c) \in Nat
          /\ joined[c] + Delivered(c) + Len(queue[c]) = Len(log) - 1
      BY <2>2, <3>3, EmptySeq DEF Segment, Delivered
    <3>5. UNCHANGED <<Delivered(c), joined[c], stream[c], log>>
      BY <2>1 DEF Delivered
    <3>6. ASSUME NEW i \in 1..Len(queue'[c])
          PROVE queue'[c][i] = log[joined[c] + Delivered(c) + i]
      <4>1. CASE i = Len(queue[c]) + 1
        BY <3>2, <3>4, <4>1
      <4>2. CASE i \in 1..Len(queue[c])
        BY <2>2, <3>2, <4>2 DEF Segment
      <4>3. QED
        BY <3>2, <4>1, <4>2
    <3>7. joined'[c] + Delivered(c)' + Len(queue'[c]) = Reach(c)'
      BY <3>2, <3>3, <3>4, <3>5
    <3>8. QED
      BY <2>2, <3>5, <3>6, <3>7 DEF Segment
  <2>4. CASE c # d
    <3>1. Registered(c) # Registered(d)
      BY <2>4 DEF Registered
    <3>2. Reach(c)' = Reach(c)
      BY <2>1, <3>1 DEF Reach, Registered
    <3>3. queue'[c] = queue[c]
      BY <2>1, <2>4
    <3>4. QED
      BY <2>1, <2>2, <3>2, <3>3 DEF Segment, Delivered
  <2>5. QED
    BY <2>3, <2>4
<1>3. CASE Register(c)
  <2>1. /\ pc[c] = "allocated"
        /\ mutex = None
        /\ joined'[c] = Len(log)
        /\ UNCHANGED <<stream, queue, log, todo, id>>
    BY <1>3 DEF Register, bcastVars
  <2>2. /\ stream[c] = <<Started>>
        /\ queue[c] = <<>>
        /\ todo = {}
    BY <2>1 DEF QuietOutsideLoop, ListInv, BroadcastConsistent
  <2>3. Reach(c)' = Len(log)
    BY <2>1, <2>2 DEF Reach
  <2>4. QED
    BY <2>1, <2>2, <2>3 DEF Segment, Delivered
<1>4. CASE Forward(c)
  <2>. DEFINE m == ConvertInternalEvent(Head(queue[c]))
  <2>1. /\ pc[c] = "listening"
        /\ queue[c] # <<>>
        /\ queue'[c] = Tail(queue[c])
        /\ stream'[c] = Append(stream[c], m)
        /\ UNCHANGED <<log, todo, id, joined>>
    BY <1>4 DEF Forward, bcastVars
  <2>2. Segment(c)
    BY <2>1 DEF GapFree
  <2>3. /\ Head(queue[c]) = queue[c][1]
        /\ Head(queue[c]) \in Event
        /\ Len(Tail(queue[c])) = Len(queue[c]) - 1
        /\ \A i \in 1..Len(Tail(queue[c])) :
             Tail(queue[c])[i] = queue[c][i + 1]
    BY <2>1, HeadTailProperties
  <2>4. m = ConvertInternalEvent(log[joined[c] + Delivered(c) + 1])
    BY <2>1, <2>2, <2>3 DEF Segment
  <2>5. m \in StreamEvent
    BY <2>3, MessageTypes
  <2>. HIDE DEF m
  <2>6. /\ stream'[c] # <<>>
        /\ Len(stream'[c]) = Len(stream[c]) + 1
        /\ \A i \in 1..Len(stream[c]) : stream'[c][i] = stream[c][i]
        /\ stream'[c][Len(stream[c]) + 1] = m
    BY <2>1, <2>5, AppendProperties
  <2>7. Reach(c)' = Reach(c)
    BY <2>1 DEF Reach, Registered
  <2>8. /\ Delivered(c) \in Nat
        /\ Delivered(c)' = Delivered(c) + 1
        /\ Len(stream[c]) = Delivered(c) + 1
    BY <2>2, <2>6, EmptySeq DEF Segment, Delivered
  <2>9. joined'[c] = joined[c] /\ log' = log
    BY <2>1
  <2>10. stream'[c][1] = Started
    BY <2>2, <2>6, <2>8 DEF Segment
  <2>11. joined'[c] + Delivered(c)' + Len(queue'[c]) = Reach(c)'
    <3>1. Len(queue'[c]) = Len(queue[c]) - 1
      BY <2>1, <2>3
    <3>2. joined[c] + Delivered(c) + Len(queue[c]) = Reach(c)
      BY <2>2 DEF Segment
    <3>3. QED
      BY <2>7, <2>8, <2>9, <3>1, <3>2
  <2>12. ASSUME NEW i \in 1..Delivered(c)'
         PROVE stream'[c][i + 1] = ConvertInternalEvent(log'[joined'[c] + i])
    <3>1. CASE i = Delivered(c) + 1
      <4>1. stream'[c][i + 1] = m
        BY <2>6, <2>8, <3>1
      <4>2. joined[c] + i = joined[c] + Delivered(c) + 1
        BY <2>8, <3>1
      <4>3. QED
        BY <2>4, <2>9, <4>1, <4>2
    <3>2. CASE i \in 1..Delivered(c)
      <4>1. stream'[c][i + 1] = stream[c][i + 1]
        BY <2>6, <2>8, <3>2
      <4>2. QED
        BY <2>2, <2>9, <3>2, <4>1 DEF Segment
    <3>3. QED
      BY <2>8, <3>1, <3>2
  <2>13. ASSUME NEW i \in 1..Len(queue'[c])
         PROVE queue'[c][i] = log'[joined'[c] + Delivered(c)' + i]
    <3>1. queue'[c][i] = queue[c][i + 1] /\ i + 1 \in 1..Len(queue[c])
      BY <2>1, <2>3
    <3>2. queue[c][i + 1] = log[joined[c] + Delivered(c) + (i + 1)]
      <4>. DEFINE j == i + 1
      <4>1. j \in 1..Len(queue[c])
        BY <3>1
      <4>. HIDE DEF j
      <4>2. queue[c][j] = log[joined[c] + Delivered(c) + j]
        BY <2>2, <4>1 DEF Segment
      <4>3. QED
        BY <4>2 DEF j
    <3>3. joined[c] + Delivered(c) + (i + 1) = joined[c] + Delivered(c)' + i
      BY <2>8
    <3>4. QED
      BY <2>9, <3>1, <3>2, <3>3
  <2>14. QED
    BY <2>6, <2>10, <2>11, <2>12, <2>13 DEF Segment
<1>5. ASSUME NEW d \in Client, Worker(d), ~Register(c), ~Forward(c)
      PROVE Segment(c)'
  <2>1. pc[c] = "listening"
    BY <1>5 DEF Worker, StartSubscription, AllocateId, Register, Forward,
                Unsubscribe, CloseStream
  <2>2. UNCHANGED <<stream[c], queue[c], joined[c], id[c], log, todo>>
    BY <1>5, <2>1 DEF Worker, StartSubscription, AllocateId, Register, Forward,
                      Unsubscribe, CloseStream, bcastVars
  <2>3. QED
    BY <2>1, <2>2, SegmentKept DEF GapFree
<1>6. CASE UNCHANGED <<stream, queue, joined, id, log, todo, pc>>
  BY <1>6, SegmentKept DEF GapFree
<1>7. QED
  BY <1>1, <1>2, <1>3, <1>4, <1>5, <1>6 DEF Next, Emit, SetVcp, FwdReceive,
     Broadcast, EndBroadcast, Disconnect, bcastVars, workerVars, vars

\* What a listener has been sent and has queued is the broadcast order from
\* its registration on, without a gap, a duplicate or a swap.
THEOREM NoGaps == Spec => []GapFree
<1>1. Init => GapFree
  BY DEF Init, GapFree
<1>2. QED
  BY <1>1, SegmentStep, Typing, Lists, Quiet, PTL DEF Spec

----------------------------------------------------------------------------
(* The events of SetVcp                                                    *)

\* An event of SetVcp is in its handler's hand until it is in the log; what the
\* forwarder and SetVcp have in hand is of the one kind and of the other.
VcpKept ==
    /\ inhand["forwarder"] \in HwEvent \cup {None}
    /\ inhand["set_vcp"] \in VcpEvent \cup {None}
    /\ \A e \in VcpEvent \cap raised :
         inhand["set_vcp"] = e \/ \E i \in 1..Len(log) : log[i] = e

\* An event of SetVcp stays in hand until it is in the log.
LEMMA VcpStep ==
    TypeOK /\ ListInv /\ VcpKept /\ [Next]_vars => VcpKept'
<1>. SUFFICES ASSUME TypeOK, ListInv, VcpKept, [Next]_vars PROVE VcpKept'
  OBVIOUS
<1>. /\ inhand \in [Broadcaster -> Event \cup {None}]
     /\ "forwarder" \in Broadcaster /\ "set_vcp" \in Broadcaster
     /\ log \in Seq(Event)
     /\ channel \in Seq(HwEvent)
  BY DEF TypeOK, Broadcaster
<1>1. CASE FwdReceive
  <2>1. Head(channel) \in HwEvent
    BY <1>1, HeadTailProperties DEF FwdReceive
  <2>2. QED
    BY <1>1, <2>1 DEF FwdReceive, VcpKept
<1>2. ASSUME NEW e \in VcpEvent, SetVcp(e) PROVE VcpKept'
  BY <1>2, EventAssumption DEF SetVcp, VcpKept, Event
<1>3. ASSUME NEW b \in Broadcaster, BeginBroadcast(b) PROVE VcpKept'
  <2>1. /\ log' = Append(log, inhand[b]) /\ inhand[b] \in Event
        /\ UNCHANGED <<inhand, raised>>
    BY <1>3 DEF BeginBroadcast
  <2>2. /\ Len(log') = Len(log) + 1
        /\ \A i \in 1..Len(log) : log'[i] = log[i]
    BY <2>1, AppendProperties
  <2>3. \A i \in 1..Len(log) : i \in 1..Len(log')
    BY <2>2, LenProperties
  <2>4. QED
    BY <2>1, <2>2, <2>3 DEF VcpKept
<1>4. ASSUME NEW b \in Broadcaster, EndBroadcast(b) PROVE VcpKept'
  <2>1. /\ mutex = b /\ UNCHANGED <<log, raised>>
        /\ inhand' = [inhand EXCEPT ![b] = None]
    BY <1>4 DEF EndBroadcast
  <2>2. log # <<>> /\ log[Len(log)] = inhand[b]
    BY <2>1, EventAssumption DEF ListInv, BroadcastConsistent
  <2>3. Len(log) \in 1..Len(log)
    BY <2>2, EmptySeq, LenProperties
  <2>4. QED
    BY <2>1, <2>2, <2>3 DEF VcpKept
<1>5. ASSUME NEW e \in HwEvent, Emit(e) PROVE VcpKept'
  BY <1>5, EventAssumption DEF Emit, bcastVars, VcpKept
<1>6. CASE UNCHANGED <<inhand, raised, log>>
  BY <1>6 DEF VcpKept
<1>7. QED
  BY <1>1, <1>2, <1>3, <1>4, <1>5, <1>6 DEF Next, Broadcast, Offer, Worker,
     StartSubscription, AllocateId, Register, Forward, Unsubscribe,
     CloseStream, Disconnect, bcastVars, vars

\* Once its broadcast is over, an event of SetVcp is in the log, and every
\* listener that was registered before it holds it.
AnnouncedToAll ==
    \A e \in VcpEvent \cap raised :
        inhand["set_vcp"] # e =>
            \E i \in 1..Len(log) :
                /\ log[i] = e
                /\ \A c \in Client :
                     pc[c] = "listening" /\ joined[c] < i => Holds(c, e)

\* From it, and from NoGaps: an event of SetVcp that is no longer in hand has
\* been broadcast to everyone who was listening.
LEMMA Announced == Spec => []AnnouncedToAll
<1>1. Init => VcpKept
  BY DEF Init, VcpKept, Broadcaster
<1>2. TypeOK /\ ListInv /\ GapFree /\ VcpKept => AnnouncedToAll
  <2>. SUFFICES ASSUME TypeOK, ListInv, GapFree, VcpKept,
                       NEW e \in VcpEvent \cap raised, inhand["set_vcp"] # e
                PROVE  \E i \in 1..Len(log) :
                         /\ log[i] = e
                         /\ \A c \in Client :
                              pc[c] = "listening" /\ joined[c] < i =>
                                Holds(c, e)
    BY DEF AnnouncedToAll
  <2>1. PICK i \in 1..Len(log) : log[i] = e
    BY DEF VcpKept
  <2>. SUFFICES ASSUME NEW c \in Client, pc[c] = "listening", joined[c] < i
                PROVE Holds(c, e)
    BY <2>1
  <2>2. /\ Len(log) \in Nat /\ Len(queue[c]) \in Nat /\ Len(stream[c]) \in Nat
        /\ joined[c] \in Nat /\ stream[c] # <<>> /\ Len(stream[c]) >= 1
    <3>1. /\ log \in Seq(Event) /\ queue[c] \in Seq(Event)
          /\ stream[c] \in Seq(StreamEvent) /\ joined[c] \in Nat
      BY DEF TypeOK, StreamEvent
    <3>2. stream[c] # <<>>
      BY DEF GapFree, Segment
    <3>3. QED
      BY <3>1, <3>2, LenProperties, EmptySeq
  <2>3. i <= Reach(c)
    <3>1. CASE Registered(c) \notin todo
      BY <2>2, <3>1 DEF Reach
    <3>2. CASE Registered(c) \in todo
      <4>1. /\ mutex \in Broadcaster
            /\ log[Len(log)] = inhand[mutex]
        BY <3>2 DEF ListInv, BroadcastConsistent, TypeOK
      <4>2. inhand["forwarder"] # e
        BY EventAssumption DEF VcpKept, Event
      <4>3. inhand[mutex] # e
        BY <4>1, <4>2 DEF Broadcaster
      <4>4. i # Len(log)
        BY <2>1, <4>1, <4>3
      <4>5. QED
        BY <2>2, <3>2, <4>4 DEF Reach
    <3>3. QED
      BY <3>1, <3>2
  <2>4. joined[c] + Delivered(c) + Len(queue[c]) = Reach(c)
    BY DEF GapFree, Segment
  <2>. DEFINE j == i - joined[c]
  <2>5. j \in Nat /\ j >= 1 /\ joined[c] + j = i /\ Delivered(c) \in Nat
        /\ Delivered(c) = Len(stream[c]) - 1
    BY <2>2 DEF Delivered
  <2>6. CASE j <= Delivered(c)
    <3>1. stream[c][j + 1] = ConvertInternalEvent(log[joined[c] + j])
      BY <2>5, <2>6 DEF GapFree, Segment
    <3>2. j + 1 \in 1..Len(stream[c])
      BY <2>2, <2>5, <2>6
    <3>. HIDE DEF j
    <3>3. QED
      BY <2>1, <2>5, <3>1, <3>2 DEF Holds
  <2>7. CASE j > Delivered(c)
    <3>. DEFINE k == j - Delivered(c)
    <3>1. k \in 1..Len(queue[c])
      <4>. DEFINE d == Delivered(c)
                  r == Reach(c)
                  q == Len(queue[c])
      <4>1. /\ d \in Nat /\ q \in Nat /\ joined[c] \in Nat /\ j \in Nat
            /\ joined[c] + j = i /\ i <= r /\ joined[c] + d + q = r /\ j > d
        BY <2>2, <2>3, <2>4, <2>5, <2>7
      <4>2. k = j - d
        OBVIOUS
      <4>. HIDE DEF d, r, q, j, k
      <4>3. k \in Nat /\ k >= 1 /\ k <= q
        BY <4>1, <4>2
      <4>4. QED
        BY <4>1, <4>3 DEF q
    <3>2. queue[c][k] = log[joined[c] + Delivered(c) + k]
      BY <3>1 DEF GapFree, Segment
    <3>3. joined[c] + Delivered(c) + k = i
      BY <2>2, <2>5
    <3>. HIDE DEF k
    <3>4. QED
      BY <2>1, <3>1, <3>2, <3>3 DEF Holds
  <2>8. QED
    BY <2>2, <2>5, <2>6, <2>7
<1>3. QED
  BY <1>1, <1>2, VcpStep, Typing, Lists, NoGaps, PTL DEF Spec

----------------------------------------------------------------------------
(* The order of the hardware events                                        *)

\* An event is raised once, so its place in "sent" is the only one.
SentOnce ==
    /\ \A i \in 1..Len(sent) : sent[i] \in raised
    /\ \A i, j \in 1..Len(sent) : sent[i] = sent[j] => i = j

\* A hardware event is sent to the channel once.
LEMMA SentStep == TypeOK /\ SentOnce /\ [Next]_vars => SentOnce'
<1>. SUFFICES ASSUME TypeOK, SentOnce, [Next]_vars PROVE SentOnce'
  OBVIOUS
<1>1. sent \in Seq(HwEvent) /\ Len(sent) \in Nat
  BY LenProperties DEF TypeOK
<1>2. ASSUME NEW e \in HwEvent, Emit(e) PROVE SentOnce'
  <2>1. /\ e \notin raised /\ raised' = raised \cup {e}
        /\ sent' = Append(sent, e)
    BY <1>2 DEF Emit
  <2>2. /\ Len(sent') = Len(sent) + 1
        /\ \A i \in 1..Len(sent) : sent'[i] = sent[i]
        /\ sent'[Len(sent) + 1] = e
    BY <1>1, <2>1, AppendProperties
  <2>3. \A i \in 1..Len(sent') : i \in 1..Len(sent) \/ i = Len(sent) + 1
    BY <1>1, <2>2
  <2>4. QED
    BY <2>1, <2>2, <2>3 DEF SentOnce
<1>3. CASE sent' = sent /\ raised \subseteq raised'
  BY <1>3 DEF SentOnce
<1>4. QED
  BY <1>2, <1>3 DEF Next, SetVcp, FwdReceive, Broadcast, BeginBroadcast,
     Offer, EndBroadcast, Worker, StartSubscription, AllocateId, Register,
     Forward, Unsubscribe, CloseStream, Disconnect, vars

\* The log that gains an event of SetVcp, and the one that gains the next
\* hardware event.
LEMMA LoggedVcp ==
    ASSUME log \in Seq(Event), sent \in Seq(HwEvent), NEW k \in 0..Len(sent),
           NEW e \in VcpEvent, log' = Append(log, e), sent' = sent, Logged(k)
    PROVE  Logged(k)'
<1>1. Len(log) \in Nat /\ Len(sent) \in Nat /\ e \in Event
  BY LenProperties DEF Event
<1>2. /\ Len(log') = Len(log) + 1
      /\ \A p \in 1..Len(log) : log'[p] = log[p]
      /\ log'[Len(log) + 1] = e
  BY <1>1, AppendProperties
<1>3. \A p \in 1..Len(log') : p \in 1..Len(log) \/ p = Len(log) + 1
  BY <1>1, <1>2
<1>4. \A p \in 1..Len(log) : p \in 1..Len(log')
  BY <1>1, <1>2
<1>5. e \notin HwEvent
  BY EventAssumption
<1>6. \A i \in 1..k : sent[i] \in HwEvent
  <2>1. \A i \in 1..k : i \in 1..Len(sent)
    BY <1>1
  <2>2. QED
    BY <2>1, ElementOfSeq
<1>7. \A i \in 1..k : \E p \in 1..Len(log') : log'[p] = sent'[i]
  BY <1>2, <1>4 DEF Logged
<1>8. \A p \in 1..Len(log') :
        log'[p] \in HwEvent => \E i \in 1..k : sent'[i] = log'[p]
  BY <1>2, <1>3, <1>5 DEF Logged
<1>9. ASSUME NEW p \in 1..Len(log'), NEW q \in 1..Len(log'),
             NEW i \in 1..k, NEW j \in 1..k,
             log'[p] = sent'[i], log'[q] = sent'[j]
      PROVE  p < q <=> i < j
  <2>1. p \in 1..Len(log) /\ q \in 1..Len(log)
    BY <1>2, <1>3, <1>5, <1>6, <1>9
  <2>2. log[p] = sent[i] /\ log[q] = sent[j]
    BY <1>2, <1>9, <2>1
  <2>3. QED
    BY <2>1, <2>2 DEF Logged
<1>10. \A p, q \in 1..Len(log'), i, j \in 1..k :
         log'[p] = sent'[i] /\ log'[q] = sent'[j] => (p < q <=> i < j)
  BY <1>9
<1>11. QED
  BY <1>7, <1>8, <1>10, Zenon DEF Logged

\* One more event of the channel in the log: the log has one more of them.
LEMMA LoggedHw ==
    ASSUME log \in Seq(Event), sent \in Seq(HwEvent), SentOnce,
           NEW k \in Nat, k + 1 <= Len(sent),
           log' = Append(log, sent[k + 1]), sent' = sent, Logged(k)
    PROVE  Logged(k + 1)'
<1>. DEFINE e == sent[k + 1]
<1>1. Len(log) \in Nat /\ Len(sent) \in Nat
  BY LenProperties
<1>2. k + 1 \in 1..Len(sent) /\ \A i \in 1..k : i \in 1..Len(sent) /\ i # k + 1
  BY <1>1
<1>3. e \in HwEvent /\ e \in Event
  BY <1>2, ElementOfSeq DEF Event
<1>4. \A i \in 1..k : sent[i] # e
  BY <1>2 DEF SentOnce
<1>. HIDE DEF e
<1>5. /\ Len(log') = Len(log) + 1
      /\ \A p \in 1..Len(log) : log'[p] = log[p]
      /\ log'[Len(log) + 1] = e
  BY <1>1, <1>3, AppendProperties DEF e
<1>6. \A p \in 1..Len(log') : p \in 1..Len(log) \/ p = Len(log) + 1
  BY <1>1, <1>5
<1>7. /\ \A p \in 1..Len(log) : p \in 1..Len(log')
      /\ Len(log) + 1 \in 1..Len(log')
  BY <1>1, <1>5
<1>8. /\ \A i \in 1..(k + 1) : i \in 1..k \/ i = k + 1
      /\ \A i \in 1..k : i \in 1..(k + 1)
      /\ k + 1 \in 1..(k + 1)
  OBVIOUS
<1>9. sent'[k + 1] = e
  BY DEF e
<1>10. \A i \in 1..(k + 1) : \E p \in 1..Len(log') : log'[p] = sent'[i]
  BY <1>5, <1>7, <1>8, <1>9 DEF Logged
<1>11. \A p \in 1..Len(log') :
         log'[p] \in HwEvent => \E i \in 1..(k + 1) : sent'[i] = log'[p]
  BY <1>5, <1>6, <1>8, <1>9 DEF Logged
<1>12. \A p \in 1..Len(log) : log[p] # e
  BY <1>3, <1>4 DEF Logged
<1>13. ASSUME NEW p \in 1..Len(log'), NEW i \in 1..(k + 1), log'[p] = sent'[i]
       PROVE  \/ p \in 1..Len(log) /\ i \in 1..k /\ log[p] = sent[i]
              \/ p = Len(log) + 1 /\ i = k + 1
  BY <1>4, <1>5, <1>6, <1>8, <1>9, <1>12, <1>13
<1>14. ASSUME NEW p \in 1..Len(log'), NEW q \in 1..Len(log'),
              NEW i \in 1..(k + 1), NEW j \in 1..(k + 1),
              log'[p] = sent'[i], log'[q] = sent'[j]
       PROVE  p < q <=> i < j
  <2>1. CASE /\ p \in 1..Len(log) /\ i \in 1..k /\ log[p] = sent[i]
             /\ q \in 1..Len(log) /\ j \in 1..k /\ log[q] = sent[j]
    BY <2>1 DEF Logged
  <2>2. CASE \/ p = Len(log) + 1 /\ i = k + 1
             \/ q = Len(log) + 1 /\ j = k + 1
    <3>1. \/ p \in 1..Len(log) /\ i \in 1..k
          \/ p = Len(log) + 1 /\ i = k + 1
      BY <1>13, <1>14
    <3>2. \/ q \in 1..Len(log) /\ j \in 1..k
          \/ q = Len(log) + 1 /\ j = k + 1
      BY <1>13, <1>14
    <3>3. QED
      BY <1>1, <2>2, <3>1, <3>2
  <2>3. QED
    BY <1>13, <1>14, <2>1, <2>2
<1>15. \A p, q \in 1..Len(log'), i, j \in 1..(k + 1) :
         log'[p] = sent'[i] /\ log'[q] = sent'[j] => (p < q <=> i < j)
  BY <1>14
<1>16. QED
  BY <1>10, <1>11, <1>15, Zenon DEF Logged

\* The forwarder holds an event while it is in the mutex, and Passed counts.
LEMMA Counts ==
    ASSUME TypeOK
    PROVE  /\ Len(sent) \in Nat /\ Len(channel) \in Nat /\ Passed \in Int
           /\ Carried => Passed = Len(sent) - Len(channel) - 1
           /\ ~Carried => Passed = Len(sent) - Len(channel)
<1>1. Len(sent) \in Nat /\ Len(channel) \in Nat
  BY LenProperties DEF TypeOK
<1>2. QED
  BY <1>1 DEF Passed

\* Logged speaks of the log, and of as many events as have passed.
LEMMA LoggedKept ==
    \A m : /\ log' = log
           /\ \A i \in 1..m : sent'[i] = sent[i]
           /\ Logged(m)
           /\ Passed' = m
          => Logged(Passed)'
<1>1. ASSUME NEW m, log' = log, \A i \in 1..m : sent'[i] = sent[i], Logged(m)
      PROVE  Logged(m)'
  <2>1. \A i \in 1..m : \E p \in 1..Len(log') : log'[p] = sent'[i]
    BY <1>1, Zenon DEF Logged
  <2>2. \A p \in 1..Len(log') :
          log'[p] \in HwEvent => \E i \in 1..m : sent'[i] = log'[p]
    BY <1>1, Zenon DEF Logged
  <2>3. \A p, q \in 1..Len(log'), i, j \in 1..m :
          log'[p] = sent'[i] /\ log'[q] = sent'[j] => (p < q <=> i < j)
    <3>. SUFFICES ASSUME NEW p \in 1..Len(log'), NEW q \in 1..Len(log'),
                         NEW i \in 1..m, NEW j \in 1..m,
                         log'[p] = sent'[i], log'[q] = sent'[j]
                  PROVE  p < q <=> i < j
      OBVIOUS
    <3>1. /\ p \in 1..Len(log) /\ q \in 1..Len(log)
          /\ log[p] = sent[i] /\ log[q] = sent[j]
      BY <1>1
    <3>2. QED
      BY <1>1, <3>1 DEF Logged
  <2>4. QED
    BY <2>1, <2>2, <2>3, Zenon DEF Logged
<1>2. \A m : Passed' = m /\ Logged(m)' => Logged(Passed)'
  BY Zenon DEF Logged
<1>3. QED
  BY <1>1, <1>2

HwInv == HwInOrder /\ Passed >= 0

\* Channel, forwarder and log stay consecutive parts of what was sent.
LEMMA HwStep ==
    TypeOK /\ ListInv /\ VcpKept /\ SentOnce /\ HwInv /\ [Next]_vars => HwInv'
<1>. SUFFICES ASSUME TypeOK, ListInv, VcpKept, SentOnce, HwInv, [Next]_vars
              PROVE  HwInv'
  OBVIOUS
<1>. /\ sent \in Seq(HwEvent) /\ channel \in Seq(HwEvent)
     /\ log \in Seq(Event)
     /\ inhand \in [Broadcaster -> Event \cup {None}]
     /\ "forwarder" \in Broadcaster /\ "set_vcp" \in Broadcaster
  BY DEF TypeOK, Broadcaster
<1>. /\ Len(sent) \in Nat /\ Len(channel) \in Nat /\ Passed \in Nat
  BY Counts DEF HwInv
<1>1. ASSUME NEW e \in HwEvent, Emit(e) PROVE HwInv'
  <2>1. /\ sent' = Append(sent, e) /\ channel' = Append(channel, e)
        /\ log' = log /\ inhand' = inhand /\ mutex' = mutex
    BY <1>1 DEF Emit, bcastVars
  <2>2. /\ Len(sent') = Len(sent) + 1
        /\ \A i \in 1..Len(sent) : sent'[i] = sent[i]
        /\ sent'[Len(sent) + 1] = e
        /\ Len(channel') = Len(channel) + 1
        /\ \A i \in 1..Len(channel) : channel'[i] = channel[i]
        /\ channel'[Len(channel) + 1] = e
    BY <2>1, AppendProperties
  <2>3. Carried' = Carried /\ Passed' = Passed
    BY <2>1, <2>2 DEF Carried, Passed
  <2>4. Passed <= Len(sent) /\ (Carried => Passed + 1 <= Len(sent))
        /\ Len(channel) <= Len(sent)
    BY Counts
  <2>5. Logged(Passed)'
    <3>. DEFINE k == Passed
    <3>1. \A i \in 1..k : sent'[i] = sent[i]
      BY <2>2, <2>4
    <3>2. Logged(k) /\ log' = log /\ Passed' = k
      BY <2>1, <2>3 DEF HwInv, HwInOrder
    <3>. HIDE DEF k
    <3>3. QED
      BY <3>1, <3>2, LoggedKept
  <2>6. Carried' => sent'[Passed' + 1] = inhand'["forwarder"]
    BY <2>1, <2>2, <2>3, <2>4 DEF HwInv, HwInOrder
  <2>7. ASSUME NEW i \in 1..Len(channel')
        PROVE  sent'[Len(sent') - Len(channel') + i] = channel'[i]
    <3>1. CASE i = Len(channel) + 1
      BY <2>2, <3>1
    <3>2. CASE i \in 1..Len(channel)
      <4>1. Len(sent) - Len(channel) + i \in 1..Len(sent)
        BY <2>4, <3>2
      <4>2. Len(sent') - Len(channel') + i = Len(sent) - Len(channel) + i
        BY <2>2
      <4>3. QED
        BY <2>2, <3>2, <4>1, <4>2 DEF HwInv, HwInOrder
    <3>3. QED
      BY <2>2, <3>1, <3>2
  <2>8. QED
    BY <2>3, <2>5, <2>6, <2>7 DEF HwInv, HwInOrder
<1>2. CASE FwdReceive
  <2>1. /\ inhand["forwarder"] = None /\ channel # <<>>
        /\ inhand' = [inhand EXCEPT !["forwarder"] = Head(channel)]
        /\ channel' = Tail(channel)
        /\ sent' = sent /\ log' = log /\ mutex' = mutex
    BY <1>2 DEF FwdReceive
  <2>2. /\ Head(channel) = channel[1] /\ Head(channel) \in HwEvent
        /\ Len(channel') = Len(channel) - 1
        /\ \A i \in 1..Len(channel') : channel'[i] = channel[i + 1]
        /\ Len(channel) >= 1
    BY <2>1, HeadTailProperties, EmptySeq
  <2>3. /\ ~Carried /\ Carried' /\ inhand'["forwarder"] = channel[1]
    BY <2>1, <2>2, EventAssumption
       DEF Carried, ListInv, BroadcastConsistent, Event
  <2>4. Passed = Len(sent) - Len(channel) /\ Passed' = Passed
    BY <2>1, <2>2, <2>3 DEF Passed
  <2>5. Logged(Passed)'
    <3>1. Logged(Passed) /\ log' = log /\ sent' = sent /\ Passed' = Passed
      BY <2>1, <2>4 DEF HwInv, HwInOrder
    <3>2. QED
      BY <3>1, LoggedKept
  <2>6. sent'[Passed' + 1] = inhand'["forwarder"]
    <3>1. sent[Len(sent) - Len(channel) + 1] = channel[1]
      BY <2>2 DEF HwInv, HwInOrder
    <3>2. QED
      BY <2>1, <2>3, <2>4, <3>1
  <2>7. ASSUME NEW i \in 1..Len(channel')
        PROVE  sent'[Len(sent') - Len(channel') + i] = channel'[i]
    <3>1. i + 1 \in 1..Len(channel)
      BY <2>2
    <3>2. Len(sent') - Len(channel') + i = Len(sent) - Len(channel) + (i + 1)
      BY <2>1, <2>2
    <3>3. QED
      BY <2>1, <2>2, <3>1, <3>2 DEF HwInv, HwInOrder
  <2>8. QED
    BY <2>4, <2>5, <2>6, <2>7 DEF HwInv, HwInOrder
<1>3. CASE BeginBroadcast("forwarder")
  <2>1. /\ inhand["forwarder"] # None /\ mutex = None /\ mutex' = "forwarder"
        /\ log' = Append(log, inhand["forwarder"])
        /\ sent' = sent /\ channel' = channel /\ inhand' = inhand
    BY <1>3 DEF BeginBroadcast
  <2>2. Carried /\ ~Carried'
    BY <2>1, EventAssumption DEF Carried, Broadcaster
  <2>3. Passed = Len(sent) - Len(channel) - 1 /\ Passed' = Passed + 1
    BY <2>1, <2>2 DEF Passed
  <2>4. inhand["forwarder"] = sent[Passed + 1] /\ Logged(Passed)
    BY <2>2 DEF HwInv, HwInOrder
  <2>5. Logged(Passed)'
    <3>. DEFINE k == Passed
    <3>1. /\ k \in Nat /\ k + 1 <= Len(sent) /\ Logged(k)
          /\ log' = Append(log, sent[k + 1]) /\ sent' = sent
          /\ Passed' = k + 1
      BY <2>1, <2>3, <2>4
    <3>2. \A m \in Nat :
            m + 1 <= Len(sent) /\ log' = Append(log, sent[m + 1]) /\ Logged(m)
              => Logged(m + 1)'
      BY <2>1, LoggedHw
    <3>. HIDE DEF k
    <3>3. \A m \in Nat : Passed' = m /\ Logged(m)' => Logged(Passed)'
      BY Zenon DEF Logged
    <3>4. QED
      BY <3>1, <3>2, <3>3
  <2>6. QED
    BY <2>1, <2>2, <2>3, <2>5 DEF HwInv, HwInOrder
<1>4. CASE BeginBroadcast("set_vcp")
  <2>1. /\ inhand["set_vcp"] \in VcpEvent
        /\ mutex = None /\ mutex' = "set_vcp"
        /\ log' = Append(log, inhand["set_vcp"])
        /\ sent' = sent /\ channel' = channel /\ inhand' = inhand
    BY <1>4 DEF BeginBroadcast, VcpKept
  <2>2. Carried' = Carried /\ Passed' = Passed /\ Passed \in 0..Len(sent)
    <3>1. mutex # "forwarder" /\ mutex' # "forwarder"
      BY <2>1, EventAssumption DEF Broadcaster
    <3>2. Carried' = Carried
      BY <2>1, <3>1 DEF Carried
    <3>3. QED
      BY <2>1, <3>2, Counts DEF Passed
  <2>3. Logged(Passed)'
    <3>1. \A m \in 0..Len(sent) : Logged(m) => Logged(m)'
      BY <2>1, LoggedVcp
    <3>2. Logged(Passed)
      BY DEF HwInv, HwInOrder
    <3>3. \A m \in 0..Len(sent) : Passed' = m /\ Logged(m)' => Logged(Passed)'
      BY Zenon DEF Logged
    <3>4. QED
      BY <2>2, <3>1, <3>2, <3>3
  <2>4. QED
    BY <2>1, <2>2, <2>3 DEF HwInv, HwInOrder
<1>5. CASE /\ UNCHANGED <<sent, channel, log>>
           /\ Carried' = Carried
           /\ inhand'["forwarder"] = inhand["forwarder"] \/ ~Carried
  <2>1. Passed' = Passed
    BY <1>5 DEF Passed
  <2>2. Logged(Passed)'
    BY <1>5, <2>1, LoggedKept DEF HwInv, HwInOrder
  <2>3. QED
    BY <1>5, <2>1, <2>2 DEF HwInv, HwInOrder
<1>6. ASSUME NEW b \in Broadcaster, EndBroadcast(b) PROVE HwInv'
  <2>1. /\ mutex = b /\ mutex' = None /\ UNCHANGED <<sent, channel, log>>
        /\ inhand' = [inhand EXCEPT ![b] = None]
    BY <1>6 DEF EndBroadcast
  <2>2. CASE b = "forwarder"
    BY <1>5, <2>1, <2>2 DEF Carried
  <2>3. CASE b = "set_vcp"
    <3>1. None # "forwarder"
      BY EventAssumption DEF Broadcaster
    <3>2. QED
      BY <1>5, <2>1, <2>3, <3>1 DEF Carried
  <2>4. QED
    BY <2>2, <2>3 DEF Broadcaster
<1>7. ASSUME NEW e \in VcpEvent, SetVcp(e) PROVE HwInv'
  <2>1. /\ UNCHANGED <<sent, channel, log, mutex>>
        /\ inhand'["forwarder"] = inhand["forwarder"]
    BY <1>7 DEF SetVcp
  <2>2. QED
    BY <1>5, <2>1 DEF Carried
<1>8. CASE UNCHANGED <<sent, channel, log, mutex, inhand>>
  BY <1>5, <1>8 DEF Carried
<1>9. QED
  BY <1>1, <1>2, <1>3, <1>4, <1>6, <1>7, <1>8 DEF Next, Broadcast, Offer,
     Broadcaster, Worker, StartSubscription, AllocateId, Register, Forward,
     Unsubscribe, CloseStream, Disconnect, bcastVars, vars

\* Hardware events are broadcast in the order in which they were raised.
THEOREM HardwareOrder == Spec => []HwInOrder
<1>1. Init => VcpKept /\ SentOnce /\ HwInv
  BY DEF Init, VcpKept, Broadcaster, SentOnce, HwInv, HwInOrder, Logged,
     Passed, Carried
<1>2. HwInv => HwInOrder
  BY DEF HwInv
<1>3. QED
  BY <1>1, <1>2, VcpStep, SentStep, HwStep, Typing, Lists, PTL DEF Spec

----------------------------------------------------------------------------
(* What two subscribers are told of the same events                        *)

\* An event of SetVcp is in the log once at most, and not yet while it waits
\* for its broadcast.
VcpOnce ==
    /\ \A p, q \in 1..Len(log) :
         log[p] = log[q] /\ log[p] \in VcpEvent => p = q
    /\ \A p \in 1..Len(log) : log[p] \in VcpEvent => log[p] \in raised
    /\ inhand["set_vcp"] # None => inhand["set_vcp"] \in raised
    /\ mutex # "set_vcp" /\ inhand["set_vcp"] # None =>
         \A p \in 1..Len(log) : log[p] # inhand["set_vcp"]

\* An event of SetVcp is in hand or in the log, and there once.
LEMMA VcpOnceStep == TypeOK /\ VcpKept /\ VcpOnce /\ [Next]_vars => VcpOnce'
<1>. SUFFICES ASSUME TypeOK, VcpKept, VcpOnce, [Next]_vars PROVE VcpOnce'
  OBVIOUS
<1>0. /\ inhand \in [Broadcaster -> Event \cup {None}]
      /\ "forwarder" \in Broadcaster /\ "set_vcp" \in Broadcaster
      /\ None \notin Broadcaster
      /\ log \in Seq(Event) /\ Len(log) \in Nat
  BY EventAssumption, LenProperties DEF TypeOK, Broadcaster
<1>1. CASE FwdReceive
  BY <1>0, <1>1 DEF FwdReceive, VcpOnce
<1>2. ASSUME NEW e \in VcpEvent, SetVcp(e) PROVE VcpOnce'
  <2>1. /\ e \notin raised /\ raised' = raised \cup {e}
        /\ inhand'["set_vcp"] = e /\ UNCHANGED <<log, mutex>>
    BY <1>0, <1>2 DEF SetVcp
  <2>2. \A p \in 1..Len(log) : log[p] # e
    BY <2>1 DEF VcpOnce
  <2>3. QED
    BY <2>1, <2>2 DEF VcpOnce
<1>3. ASSUME NEW b \in Broadcaster, BeginBroadcast(b) PROVE VcpOnce'
  <2>1. /\ log' = Append(log, inhand[b]) /\ inhand[b] \in Event
        /\ mutex = None /\ mutex' = b /\ UNCHANGED <<inhand, raised>>
    BY <1>0, <1>3 DEF BeginBroadcast
  <2>2. /\ Len(log') = Len(log) + 1
        /\ \A i \in 1..Len(log) : log'[i] = log[i]
        /\ log'[Len(log) + 1] = inhand[b]
    BY <1>0, <2>1, AppendProperties
  <2>3. \A p \in 1..Len(log') : p \in 1..Len(log) \/ p = Len(log) + 1
    BY <1>0, <2>2
  <2>4. CASE b = "set_vcp"
    <3>1. inhand[b] # None /\ inhand[b] \in raised
          /\ \A p \in 1..Len(log) : log[p] # inhand[b]
      BY <1>0, <2>1, <2>4, EventAssumption DEF VcpOnce
    <3>2. QED
      BY <2>1, <2>2, <2>3, <2>4, <3>1 DEF VcpOnce
  <2>5. CASE b = "forwarder"
    <3>1. inhand[b] \notin VcpEvent
      BY <2>1, <2>5, EventAssumption DEF VcpKept, Event
    <3>2. inhand["set_vcp"] \in VcpEvent \cup {None}
      BY DEF VcpKept
    <3>3. inhand["set_vcp"] # None =>
            \A p \in 1..Len(log') : log'[p] # inhand["set_vcp"]
      BY <1>0, <2>1, <2>2, <2>3, <3>1, <3>2 DEF VcpOnce
    <3>4. QED
      BY <2>1, <2>2, <2>3, <3>1, <3>3 DEF VcpOnce
  <2>6. QED
    BY <2>4, <2>5 DEF Broadcaster
<1>4. ASSUME NEW b \in Broadcaster, EndBroadcast(b) PROVE VcpOnce'
  <2>1. /\ mutex = b /\ UNCHANGED <<log, raised>>
        /\ inhand' = [inhand EXCEPT ![b] = None]
    BY <1>4 DEF EndBroadcast
  <2>2. CASE b = "set_vcp"
    BY <1>0, <2>1, <2>2 DEF VcpOnce
  <2>3. CASE b = "forwarder"
    <3>1. inhand'["set_vcp"] = inhand["set_vcp"] /\ mutex # "set_vcp"
      BY <1>0, <2>1, <2>3
    <3>2. QED
      BY <2>1, <3>1 DEF VcpOnce
  <2>4. QED
    BY <2>2, <2>3 DEF Broadcaster
<1>5. CASE UNCHANGED <<inhand, log, mutex>> /\ raised \subseteq raised'
  BY <1>5 DEF VcpOnce
<1>6. QED
  BY <1>1, <1>2, <1>3, <1>4, <1>5 DEF Next, Broadcast, Emit, Offer, Worker,
     StartSubscription, AllocateId, Register, Forward, Unsubscribe,
     CloseStream, Disconnect, bcastVars, vars

\* No event is broadcast twice.
LogOnce == \A p, q \in 1..Len(log) : log[p] = log[q] => p = q

\* No event is in the log twice, be it a hardware event or one of SetVcp.
LEMMA Once == Spec => []LogOnce
<1>1. Init => VcpKept /\ VcpOnce
  BY DEF Init, VcpKept, VcpOnce, Broadcaster
<1>2. TypeOK /\ VcpOnce /\ HwInOrder => LogOnce
  <2>. SUFFICES ASSUME TypeOK, VcpOnce, HwInOrder,
                       NEW p \in 1..Len(log), NEW q \in 1..Len(log),
                       log[p] = log[q]
                PROVE  p = q
    BY DEF LogOnce
  <2>1. log[p] \in Event /\ Len(log) \in Nat
    BY ElementOfSeq, LenProperties DEF TypeOK
  <2>2. CASE log[p] \in VcpEvent
    BY <2>2 DEF VcpOnce
  <2>3. CASE log[p] \in HwEvent
    <3>1. PICK i \in 1..Passed : sent[i] = log[p]
      BY <2>3 DEF HwInOrder, Logged
    <3>2. (p < q <=> i < i) /\ (q < p <=> i < i)
      BY <3>1 DEF HwInOrder, Logged
    <3>3. ~(i < i)
      <4>1. Len(sent) \in Nat /\ Len(channel) \in Nat
        BY LenProperties DEF TypeOK
      <4>2. Passed \in Int
        BY <4>1 DEF Passed
      <4>3. QED
        BY <4>2
    <3>4. QED
      BY <2>1, <3>2, <3>3
  <2>4. QED
    BY <2>1, <2>2, <2>3 DEF Event
<1>3. QED
  BY <1>1, <1>2, VcpStep, VcpOnceStep, HardwareOrder, Typing, Lists, PTL
  DEF Spec

\* What a client has been sent, while it listens and ever after, is the opening
\* message and a stretch of the log.
Followed(c) ==
    stream[c] # <<>> =>
      /\ stream[c][1] = Started
      /\ \A i \in 1..Delivered(c) :
           /\ joined[c] + i \in 1..Len(log)
           /\ stream[c][i + 1] = ConvertInternalEvent(log[joined[c] + i])

FollowInv == \A c \in Client : Followed(c)

\* Each step keeps a subscriber's stream at what the log has from where the
\* subscriber joined.
LEMMA FollowStep ==
    TypeOK /\ QuietOutsideLoop /\ GapFree /\ FollowInv /\ [Next]_vars
      => FollowInv'
<1>. SUFFICES ASSUME TypeOK, QuietOutsideLoop, GapFree, FollowInv,
                     [Next]_vars, NEW d \in Client
              PROVE  Followed(d)'
  BY DEF FollowInv
<1>0. /\ DOMAIN stream = Client /\ DOMAIN joined = Client
      /\ Followed(d)
      /\ log \in Seq(Event) /\ Len(log) \in Nat
      /\ stream[d] \in Seq(StreamEvent) /\ Len(stream[d]) \in Nat
      /\ joined[d] \in Nat
      /\ queue[d] \in Seq(Event) /\ Len(queue[d]) \in Nat
  BY LenProperties DEF TypeOK, FollowInv, StreamEvent
<1>1. ASSUME NEW b \in Broadcaster, BeginBroadcast(b) PROVE Followed(d)'
  <2>1. /\ log' = Append(log, inhand[b]) /\ inhand[b] \in Event
        /\ UNCHANGED <<stream, joined>>
    BY <1>1 DEF BeginBroadcast, TypeOK, workerVars
  <2>2. /\ Len(log') = Len(log) + 1
        /\ \A i \in 1..Len(log) : log'[i] = log[i]
    BY <1>0, <2>1, AppendProperties
  <2>3. \A i \in 1..Len(log) : i \in 1..Len(log')
    BY <1>0, <2>2
  <2>4. QED
    BY <1>0, <2>1, <2>2, <2>3 DEF Followed, Delivered
<1>2. ASSUME NEW c \in Client, StartSubscription(c) PROVE Followed(d)'
  <2>1. UNCHANGED <<log, joined>>
        /\ (stream' = stream \/ stream' = [stream EXCEPT ![c] = <<Started>>])
    BY <1>2 DEF StartSubscription, bcastVars
  <2>2. CASE stream'[d] = stream[d]
    BY <1>0, <2>1, <2>2 DEF Followed, Delivered
  <2>3. CASE stream'[d] = <<Started>>
    <3>1. Len(stream'[d]) = 1 /\ stream'[d][1] = Started
      BY <2>3
    <3>2. QED
      BY <3>1 DEF Followed, Delivered
  <2>4. QED
    BY <1>0, <2>1, <2>2, <2>3
<1>3. ASSUME NEW c \in Client, Register(c) PROVE Followed(d)'
  <2>1. /\ UNCHANGED <<log, stream>> /\ pc[c] = "allocated"
        /\ joined' = [joined EXCEPT ![c] = Len(log)]
    BY <1>3 DEF Register, bcastVars
  <2>2. CASE d = c
    <3>1. stream[d] = <<Started>>
      BY <2>1, <2>2 DEF QuietOutsideLoop
    <3>2. Len(stream'[d]) = 1 /\ stream'[d][1] = Started
      BY <2>1, <3>1
    <3>3. QED
      BY <3>2 DEF Followed, Delivered
  <2>3. CASE d # c
    <3>1. joined'[d] = joined[d]
      BY <1>0, <2>1, <2>3
    <3>2. QED
      BY <1>0, <2>1, <3>1 DEF Followed, Delivered
  <2>4. QED
    BY <2>2, <2>3
<1>4. ASSUME NEW c \in Client, Forward(c) PROVE Followed(d)'
  <2>1. /\ UNCHANGED <<log, joined>> /\ pc[c] = "listening" /\ queue[c] # <<>>
        /\ \/ stream' = stream
           \/ stream' = [stream EXCEPT ![c] =
                           Append(@, ConvertInternalEvent(Head(queue[c])))]
    BY <1>4 DEF Forward, bcastVars
  <2>2. CASE stream'[d] = stream[d]
    BY <1>0, <2>1, <2>2 DEF Followed, Delivered
  <2>3. CASE d = c /\ stream'[d] =
                        Append(stream[d], ConvertInternalEvent(Head(queue[d])))
    <3>. DEFINE e == Head(queue[d])
                n == Len(stream[d])
    <3>1. e = queue[d][1] /\ e \in Event /\ 1 \in 1..Len(queue[d])
      BY <1>0, <2>1, <2>3, HeadTailProperties, EmptySeq
    <3>2. Segment(d)
      BY <2>1, <2>3 DEF GapFree
    <3>3. stream[d] # <<>> /\ n >= 1 /\ n \in Nat /\ Delivered(d) = n - 1
      BY <1>0, <3>2, EmptySeq DEF Segment, Delivered
    <3>4. e = log[joined[d] + n] /\ joined[d] + n \in 1..Len(log)
      <4>1. /\ queue[d][1] = log[joined[d] + Delivered(d) + 1]
            /\ joined[d] + Delivered(d) + Len(queue[d]) = Reach(d)
        BY <3>1, <3>2 DEF Segment
      <4>2. Reach(d) <= Len(log) /\ Reach(d) \in Int
        BY <1>0 DEF Reach
      <4>3. joined[d] + Delivered(d) + 1 = joined[d] + n
        BY <1>0, <3>3
      <4>. HIDE DEF e, n
      <4>4. joined[d] + n <= Len(log) /\ joined[d] + n \in Nat
            /\ joined[d] + n >= 1
        <5>1. Len(queue[d]) >= 1
          BY <1>0, <3>1
        <5>2. QED
          BY <1>0, <3>3, <4>1, <4>2, <5>1
      <4>5. QED
        BY <1>0, <3>1, <4>1, <4>3, <4>4
    <3>5. ConvertInternalEvent(e) \in StreamEvent
      BY <3>1, MessageTypes
    <3>. HIDE DEF e
    <3>6. /\ Len(stream'[d]) = n + 1
          /\ \A i \in 1..n : stream'[d][i] = stream[d][i]
          /\ stream'[d][n + 1] = ConvertInternalEvent(e)
      BY <1>0, <2>3, <3>5, AppendProperties DEF e
    <3>. HIDE DEF n
    <3>7. ASSUME NEW i \in 1..n
          PROVE  /\ joined[d] + i \in 1..Len(log)
                 /\ stream'[d][i + 1] =
                      ConvertInternalEvent(log[joined[d] + i])
      <4>1. CASE i = n
        BY <3>4, <3>6, <4>1
      <4>2. CASE i # n
        <5>1. i \in 1..Delivered(d) /\ i + 1 \in 1..n
          BY <3>3, <4>2
        <5>2. QED
          BY <1>0, <3>3, <3>6, <5>1 DEF Followed
      <4>3. QED
        BY <4>1, <4>2
    <3>8. stream'[d][1] = Started
      BY <1>0, <3>3, <3>6 DEF Followed
    <3>9. Delivered(d)' = n
      BY <3>3, <3>6 DEF Delivered
    <3>10. QED
      BY <2>1, <3>7, <3>8, <3>9 DEF Followed
  <2>4. QED
    BY <1>0, <2>1, <2>2, <2>3
<1>5. ASSUME NEW c \in Client, CloseStream(c) PROVE Followed(d)'
  <2>1. ~connected[c]
    BY <1>5 DEF CloseStream, QuietOutsideLoop
  <2>2. UNCHANGED <<log, joined>> /\ stream'[d] = stream[d]
    BY <1>0, <1>5, <2>1 DEF CloseStream, bcastVars
  <2>3. QED
    BY <1>0, <2>2 DEF Followed, Delivered
<1>6. CASE UNCHANGED <<log, stream, joined>>
  BY <1>0, <1>6 DEF Followed, Delivered
<1>7. QED
  BY <1>1, <1>2, <1>3, <1>4, <1>5, <1>6 DEF Next, Broadcast, Emit, SetVcp,
     FwdReceive, Offer, EndBroadcast, Worker, AllocateId, Unsubscribe,
     Disconnect, bcastVars, workerVars, vars

\* Where in the log a message of a client's stream is from: the opening message
\* from before it.
Origin(c, i) == IF i = 1 THEN 0 ELSE joined[c] + (i - 1)

\* What two subscribers were both told has one place in the log.
LEMMA OriginOf ==
    ASSUME TypeOK, LogOnce, FollowInv, NEW c \in Client, NEW d \in Client,
           NEW i \in 1..Len(stream[c]), NEW k \in 1..Len(stream[d]),
           stream[c][i] = stream[d][k]
    PROVE  Origin(c, i) = Origin(d, k)
<1>1. ASSUME NEW a \in Client, NEW n \in 1..Len(stream[a])
      PROVE  IF n = 1 THEN stream[a][n] = Started
             ELSE /\ Origin(a, n) \in 1..Len(log)
                  /\ stream[a][n] = ConvertInternalEvent(log[Origin(a, n)])
  <2>1. stream[a] \in Seq(StreamEvent) /\ Len(stream[a]) \in Nat
    BY LenProperties DEF TypeOK, StreamEvent
  <2>2. stream[a] # <<>>
    BY <2>1, EmptySeq
  <2>3. CASE n = 1
    BY <2>2, <2>3 DEF FollowInv, Followed
  <2>4. CASE n # 1
    <3>1. n - 1 \in 1..Delivered(a) /\ (n - 1) + 1 = n
      BY <2>1, <2>4 DEF Delivered
    <3>2. QED
      BY <2>2, <2>4, <3>1 DEF FollowInv, Followed, Origin
  <2>5. QED
    BY <2>3, <2>4
<1>2. \A e : /\ Started # ConvertInternalEvent(e)
             /\ \A f : ConvertInternalEvent(e) = ConvertInternalEvent(f) => e = f
  BY DEF Started, ConvertInternalEvent
<1>3. CASE i = 1 \/ k = 1
  BY <1>1, <1>2, <1>3 DEF Origin
<1>4. CASE i # 1 /\ k # 1
  BY <1>1, <1>2, <1>4 DEF LogOnce
<1>5. QED
  BY <1>3, <1>4

\* Two subscribers are told of any two events in the same order, whenever they
\* came and whether or not they have left; and nobody is told of an event
\* twice, which is the case of one subscriber.
SameOrder ==
    \A c, d \in Client :
      \A i, j \in 1..Len(stream[c]), k, l \in 1..Len(stream[d]) :
        stream[c][i] = stream[d][k] /\ stream[c][j] = stream[d][l]
          => (i < j <=> k < l)

\* Events reach all subscribers in the one order in which they were broadcast.
THEOREM OneOrder == Spec => []SameOrder
<1>1. Init => FollowInv
  BY DEF Init, FollowInv, Followed
<1>2. TypeOK /\ LogOnce /\ FollowInv => SameOrder
  <2>. SUFFICES ASSUME TypeOK, LogOnce, FollowInv,
                       NEW c \in Client, NEW d \in Client,
                       NEW i \in 1..Len(stream[c]), NEW j \in 1..Len(stream[c]),
                       NEW k \in 1..Len(stream[d]), NEW l \in 1..Len(stream[d]),
                       stream[c][i] = stream[d][k], stream[c][j] = stream[d][l]
                PROVE  i < j <=> k < l
    BY DEF SameOrder
  <2>1. Origin(c, i) = Origin(d, k) /\ Origin(c, j) = Origin(d, l)
    BY OriginOf
  <2>2. ASSUME NEW a \in Client, NEW m \in 1..Len(stream[a]),
               NEW n \in 1..Len(stream[a])
        PROVE  m < n <=> Origin(a, m) < Origin(a, n)
    <3>1. joined[a] \in Nat /\ Len(stream[a]) \in Nat
      BY LenProperties DEF TypeOK
    <3>2. QED
      BY <3>1 DEF Origin
  <2>3. QED
    BY <2>1, <2>2
<1>3. QED
  BY <1>1, <1>2, FollowStep, Once, Typing, Quiet, NoGaps, PTL DEF Spec

----------------------------------------------------------------------------
(* The refinement                                                          *)

Published == [i \in 1..Len(log) |-> ConvertInternalEvent(log[i])]

\* Broadcasting an event publishes its converted form.
LEMMA PublishedGrows ==
    ASSUME log \in Seq(Event), NEW e \in Event, log' = Append(log, e)
    PROVE  Published' = Append(Published, ConvertInternalEvent(e))
<1>. DEFINE m == ConvertInternalEvent(e)
<1>1. m \in StreamEvent
  BY MessageTypes
<1>2. /\ Len(log) \in Nat
      /\ log' \in Seq(Event)
      /\ Len(log') = Len(log) + 1
      /\ \A i \in 1..Len(log) : log'[i] = log[i]
      /\ log'[Len(log) + 1] = e
  BY AppendProperties, LenProperties
<1>3. Published \in Seq(StreamEvent) /\ Len(Published) = Len(log)
  <2>1. \A i \in 1..Len(log) : ConvertInternalEvent(log[i]) \in StreamEvent
    BY ElementOfSeq, MessageTypes
  <2>2. QED
    BY <1>2, <2>1 DEF Published
<1>4. Published' \in Seq(StreamEvent) /\ Len(Published') = Len(log')
  <2>1. \A i \in 1..Len(log') : ConvertInternalEvent(log'[i]) \in StreamEvent
    BY <1>2, ElementOfSeq, MessageTypes
  <2>2. QED
    BY <1>2, <2>1 DEF Published
<1>. HIDE DEF m
<1>5. /\ Append(Published, m) \in Seq(StreamEvent)
      /\ Len(Append(Published, m)) = Len(log) + 1
      /\ \A i \in 1..Len(log) : Append(Published, m)[i] = Published[i]
      /\ Append(Published, m)[Len(log) + 1] = m
  BY <1>1, <1>3, AppendProperties
<1>6. ASSUME NEW i \in 1..Len(log') PROVE Published'[i] = Append(Published, m)[i]
  <2>1. CASE i \in 1..Len(log)
    BY <1>2, <1>5, <2>1 DEF Published
  <2>2. CASE i = Len(log) + 1
    BY <1>2, <1>5, <2>2 DEF Published, m
  <2>3. i \in 1..Len(log) \/ i = Len(log) + 1
    BY <1>2
  <2>4. QED
    BY <2>1, <2>2, <2>3, Zenon
<1>7. Published' = Append(Published, m)
  BY <1>2, <1>4, <1>5, <1>6, SeqEqual
<1>8. QED
  BY <1>7 DEF m

\* Every step of the service is a step of EventStream, or changes nothing that
\* EventStream speaks of: a broadcast publishes as it takes the mutex, and an
\* event counts as delivered when its reply is written.
LEMMA RefinementStep ==
    TypeOK /\ ListInv /\ QuietOutsideLoop /\ GapFree /\ [Next]_vars
      => [Abstract!Next]_(Abstract!vars)
<1>. SUFFICES ASSUME TypeOK, ListInv, QuietOutsideLoop, GapFree, Next
              PROVE Abstract!Next \/ UNCHANGED Abstract!vars
  BY DEF vars, Abstract!vars, Phase
<1>. /\ log \in Seq(Event)
     /\ pc \in [Client -> {"new", "started", "allocated", "listening",
                            "leaving", "unsubscribed", "returned"}]
     /\ stream \in [Client -> Seq(StreamEvent)]
     /\ joined \in [Client -> Nat]
  BY DEF TypeOK, StreamEvent
<1>1. ASSUME NEW b \in Broadcaster, BeginBroadcast(b) PROVE Abstract!Next
  <2>1. /\ inhand[b] \in Event
        /\ log' = Append(log, inhand[b])
        /\ UNCHANGED <<pc, joined, stream>>
    BY <1>1 DEF BeginBroadcast, workerVars, TypeOK
  <2>. DEFINE m == ConvertInternalEvent(inhand[b])
  <2>2. Published' = Append(Published, m)
    BY <2>1, PublishedGrows
  <2>3. Abstract!Publish(m)
    BY <2>1, <2>2 DEF Abstract!Publish, Published, Phase
  <2>4. m \in {ConvertInternalEvent(e) : e \in Event}
    BY <2>1
  <2>5. QED
    BY <2>3, <2>4 DEF Abstract!Next
<1>2. ASSUME NEW c \in Client, StartSubscription(c) PROVE Abstract!Next
  <2>1. CASE connected[c]
    <3>1. Abstract!Open(c)
      BY <1>2, <2>1 DEF StartSubscription, Abstract!Open, Phase, bcastVars
    <3>2. QED
      BY <3>1 DEF Abstract!Next
  <2>2. CASE ~connected[c]
    <3>1. Abstract!Leave(c)
      BY <1>2, <2>2 DEF StartSubscription, Abstract!Leave, Phase, bcastVars
    <3>2. QED
      BY <3>1 DEF Abstract!Next
  <2>3. QED
    BY <2>1, <2>2
<1>3. ASSUME NEW c \in Client, Register(c) PROVE Abstract!Next
  <2>1. Len(Published) = Len(log)
    BY DEF Published
  <2>2. Abstract!Join(c)
    BY <1>3, <2>1 DEF Register, Abstract!Join, Phase, bcastVars, Published
  <2>3. QED
    BY <2>2 DEF Abstract!Next
<1>4. ASSUME NEW c \in Client, Forward(c), connected[c] PROVE Abstract!Next
  <2>. DEFINE next == joined[c] + Len(stream[c])
  <2>1. /\ pc[c] = "listening"
        /\ queue[c] # <<>>
        /\ stream' = [stream EXCEPT ![c] =
                        Append(@, ConvertInternalEvent(Head(queue[c])))]
        /\ UNCHANGED <<pc, joined, log>>
    BY <1>4 DEF Forward, bcastVars
  <2>2. Segment(c)
    BY <2>1 DEF GapFree
  <2>3. /\ Len(queue[c]) \in Nat \ {0}
        /\ Head(queue[c]) = queue[c][1]
        /\ Len(stream[c]) \in Nat \ {0}
        /\ Len(log) \in Nat
    <3>1. queue[c] \in Seq(Event) /\ queue[c] # <<>>
      BY <2>1 DEF TypeOK
    <3>2. stream[c] \in Seq(StreamEvent) /\ stream[c] # <<>>
      BY <2>2 DEF Segment
    <3>3. QED
      BY <3>1, <3>2, EmptySeq, LenProperties
  <2>4. next = joined[c] + Delivered(c) + 1
    BY <2>3 DEF Delivered
  <2>5. queue[c][1] = log[next]
    BY <2>2, <2>3, <2>4 DEF Segment
  <2>6. next \in 1..Len(log)
    <3>1. joined[c] + Delivered(c) + Len(queue[c]) = Reach(c)
      BY <2>2 DEF Segment
    <3>2. Reach(c) <= Len(log)
      BY <2>3 DEF Reach
    <3>3. QED
      BY <2>3, <2>4, <3>1, <3>2 DEF Delivered, Reach
  <2>7. /\ Published[next] = ConvertInternalEvent(Head(queue[c]))
        /\ Len(Published) = Len(log)
    BY <2>3, <2>5, <2>6 DEF Published
  <2>8. Abstract!Deliver(c)
    <3>1. Phase(c) = "joined"
      BY <2>1 DEF Phase
    <3>2. stream' = [stream EXCEPT ![c] = Append(@, Published[next])]
      BY <2>1, <2>7
    <3>3. next <= Len(Published)
      BY <2>6, <2>7
    <3>4. QED
      BY <2>1, <3>1, <3>2, <3>3 DEF Abstract!Deliver, Published, Phase
  <2>9. QED
    BY <2>8 DEF Abstract!Next
<1>5. ASSUME NEW c \in Client, Forward(c), ~connected[c] PROVE Abstract!Next
  <2>1. Abstract!Leave(c)
    BY <1>5 DEF Forward, Abstract!Leave, Phase, bcastVars
  <2>2. QED
    BY <2>1 DEF Abstract!Next
<1>6. ASSUME NEW c \in Client,
             AllocateId(c) \/ Unsubscribe(c) \/ CloseStream(c)
      PROVE UNCHANGED Abstract!vars
  <2>1. UNCHANGED <<log, joined, stream>>
    BY <1>6 DEF AllocateId, Unsubscribe, CloseStream, QuietOutsideLoop,
                bcastVars
  <2>2. \A d \in Client : Phase(d)' = Phase(d)
    BY <1>6 DEF AllocateId, Unsubscribe, CloseStream, Phase
  <2>3. QED
    BY <2>1, <2>2 DEF Abstract!vars
<1>7. CASE UNCHANGED <<log, pc, joined, stream>>
  BY <1>7 DEF Abstract!vars, Phase
<1>8. QED
  BY <1>1, <1>2, <1>3, <1>4, <1>5, <1>6, <1>7 DEF Next, Worker, Emit, SetVcp,
     FwdReceive, Broadcast, Offer, EndBroadcast, Disconnect, bcastVars,
     workerVars, vars

\* The event path implements EventStream: one global order of events, of which
\* each subscriber receives the part after its registration, until it leaves.
THEOREM Refinement == Spec => ImplementsEventStream
<1>1. Init => Abstract!Init
  BY DEF Init, Abstract!Init, Phase
<1>2. QED
  BY <1>1, RefinementStep, Typing, Lists, Quiet, NoGaps, PTL
     DEF Spec, ImplementsEventStream, Abstract!Spec
==============================================================================
