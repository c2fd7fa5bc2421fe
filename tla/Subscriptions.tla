---------------------------- MODULE Subscriptions ----------------------------
(***************************************************************************)
(* The event path of the varlink service, from the producers of events to  *)
(* what each client of Subscribe is sent:                                  *)
(*                                                                         *)
(*   polling thread,  --> channel --> forwarder --+                        *)
(*   native callback                              +-> broadcast to the     *)
(*   SetVcp handler ------------------------------+   subscriber list      *)
(*                                                      |                  *)
(*            one queue per subscriber, one worker per client <-+          *)
(*                                                                         *)
(* Threads: the forwarder (main.rs), the one SetVcp handler that can be    *)
(* broadcasting (its callers hold the state mutex), and one worker per     *)
(* client that runs subscribe().  They share the SUBSCRIBERS mutex, which  *)
(* a broadcast holds from its first send to its last, and the counter      *)
(* SUBSCRIBER_NEXT_ID, which is read before the mutex is taken.            *)
(***************************************************************************)
EXTENDS Naturals, Sequences, FiniteSets

CONSTANTS Client,      \* calls of Subscribe, each on a connection of its own
          Responsive,  \* those whose peer keeps reading from its socket
          HwEvent,     \* events of the poller and of the native callback
          VcpEvent,    \* events of SetVcp; a member is one occurrence
          None

Broadcaster == {"forwarder", "set_vcp"}
Event == HwEvent \cup VcpEvent

ASSUME EventAssumption ==
    /\ Responsive \subseteq Client
    /\ HwEvent \cap VcpEvent = {}
    /\ None \notin Event \cup Broadcaster

Started == [kind |-> "subscription_started", data |-> "{}"]
Closed  == [kind |-> "stream_closed", data |-> "{}"]

ConvertInternalEvent(e) ==
    [kind |-> IF e \in HwEvent THEN "connected_displays_changed"
                               ELSE "vcp_changed",
     data |-> e]

VARIABLES
    channel,      \* the internal event channel
    mutex,        \* the broadcaster inside the SUBSCRIBERS mutex, or None
    subscribers,  \* SUBSCRIBERS: records [id, client]
    todo,         \* the subscribers the current broadcast has not reached
    inhand,       \* the event each broadcaster is carrying, or None
    nextId,       \* SUBSCRIBER_NEXT_ID
    pc,           \* where each client's worker is in subscribe()
    id,           \* subscriber_id of each worker
    queue,        \* each worker's subscriber_internal_receiver
    connected,    \* whether the client's end of the socket is open
    stream,       \* what each client has been sent
    \* History variables:
    raised,       \* the events that have occurred
    sent,         \* what was put on the channel, in order
    log,          \* what was broadcast, in order
    joined        \* Len(log) when each client was registered

bcastVars  == <<mutex, todo, inhand, log>>
workerVars == <<nextId, pc, id, stream, joined>>
vars == <<channel, mutex, subscribers, todo, inhand, nextId, pc, id, queue,
          connected, stream, raised, sent, log, joined>>

Init ==
    /\ channel = <<>>
    /\ mutex = None
    /\ subscribers = {}
    /\ todo = {}
    /\ inhand = [b \in Broadcaster |-> None]
    /\ nextId = 0
    /\ pc = [c \in Client |-> "new"]
    /\ id = [c \in Client |-> 0]
    /\ queue = [c \in Client |-> <<>>]
    /\ connected = [c \in Client |-> TRUE]
    /\ stream = [c \in Client |-> <<>>]
    /\ raised = {}
    /\ sent = <<>>
    /\ log = <<>>
    /\ joined = [c \in Client |-> 0]

----------------------------------------------------------------------------
(* Slips.  Each operator here stands in for one definition below when the  *)
(* properties are tried out on it; the specification uses none of them.    *)

\* fetch_add replaced by a load, and by fetch_sub.
IncrementForgotten(n) == n
Decrement(n) == n - 1

\* A LIFO instead of a queue.
FwdReceiveNewest ==
    /\ inhand["forwarder"] = None
    /\ channel # <<>>
    /\ inhand' = [inhand EXCEPT !["forwarder"] = channel[Len(channel)]]
    /\ channel' = SubSeq(channel, 1, Len(channel) - 1)
    /\ UNCHANGED <<mutex, todo, log, workerVars, subscribers, queue,
                   connected, raised, sent>>

\* any() in place of retain(): a broadcast that ends at the first success.
EndBroadcastEarly(b) ==
    /\ mutex = b
    /\ mutex' = None
    /\ todo' = {}
    /\ inhand' = [inhand EXCEPT ![b] = None]
    /\ UNCHANGED <<log, workerVars, channel, subscribers, queue, connected,
                   raised, sent>>

\* try_recv in place of recv: an empty queue ends the loop.
ForwardTrying(c) ==
    /\ pc[c] = "listening"
    /\ IF queue[c] # <<>> /\ connected[c]
         THEN /\ stream' = [stream EXCEPT ![c] =
                              Append(@, ConvertInternalEvent(Head(queue[c])))]
              /\ queue' = [queue EXCEPT ![c] = Tail(@)]
              /\ UNCHANGED pc
         ELSE /\ pc' = [pc EXCEPT ![c] = "leaving"]
              /\ UNCHANGED <<stream, queue>>
    /\ UNCHANGED <<bcastVars, nextId, id, joined, channel, subscribers,
                   connected, raised, sent>>

\* A failed reply that is ignored, like the one of the final message.
ForwardRegardless(c) ==
    /\ pc[c] = "listening"
    /\ queue[c] # <<>>
    /\ queue' = [queue EXCEPT ![c] = Tail(@)]
    /\ stream' = [stream EXCEPT ![c] =
         IF connected[c] THEN Append(@, ConvertInternalEvent(Head(queue[c])))
                         ELSE @]
    /\ UNCHANGED <<bcastVars, nextId, pc, id, joined, channel, subscribers,
                   connected, raised, sent>>

----------------------------------------------------------------------------
(* Producers of events                                                     *)

\* The polling thread or the native callback puts an event on the channel.
Emit(e) ==
    /\ e \notin raised
    /\ raised' = raised \cup {e}
    /\ channel' = Append(channel, e)
    /\ sent' = Append(sent, e)
    /\ UNCHANGED <<bcastVars, workerVars, subscribers, queue, connected>>

\* One turn of the forwarder's loop: take the oldest event off the channel.
FwdReceive ==
    /\ inhand["forwarder"] = None
    /\ channel # <<>>
    /\ inhand' = [inhand EXCEPT !["forwarder"] = Head(channel)]
    /\ channel' = Tail(channel)
    /\ UNCHANGED <<mutex, todo, log, workerVars, subscribers, queue,
                   connected, raised, sent>>

\* A SetVcp handler whose write to the display succeeded.
SetVcp(e) ==
    /\ inhand["set_vcp"] = None
    /\ e \notin raised
    /\ raised' = raised \cup {e}
    /\ inhand' = [inhand EXCEPT !["set_vcp"] = e]
    /\ UNCHANGED <<mutex, todo, log, workerVars, channel, subscribers, queue,
                   connected, sent>>

----------------------------------------------------------------------------
(* broadcast_to_subscribers: lock, send to each, drop the unreachable      *)

BeginBroadcast(b) ==
    /\ inhand[b] # None
    /\ mutex = None
    /\ mutex' = b
    /\ todo' = subscribers
    /\ log' = Append(log, inhand[b])
    /\ UNCHANGED <<inhand, workerVars, channel, subscribers, queue,
                   connected, raised, sent>>

\* send() fails only when the receiving end has been dropped, on return from
\* subscribe().
ChannelOpen(c) == pc[c] \in {"listening", "leaving", "unsubscribed"}

\* The list is a Vec: its order is abstracted, an offer touches one queue.
Offer(b) ==
    /\ mutex = b
    /\ \E s \in todo :
         /\ todo' = todo \ {s}
         /\ IF ChannelOpen(s.client)
              THEN /\ queue' = [queue EXCEPT ![s.client] =
                                               Append(@, inhand[b])]
                   /\ UNCHANGED subscribers
              ELSE /\ subscribers' = subscribers \ {s}
                   /\ UNCHANGED queue
    /\ UNCHANGED <<mutex, inhand, log, workerVars, channel, connected,
                   raised, sent>>

EndBroadcast(b) ==
    /\ mutex = b
    /\ todo = {}
    /\ mutex' = None
    /\ inhand' = [inhand EXCEPT ![b] = None]
    /\ UNCHANGED <<todo, log, workerVars, channel, subscribers, queue,
                   connected, raised, sent>>

----------------------------------------------------------------------------
(* subscribe(): one worker per client                                      *)

\* The initial reply; a failed one ends the call with Ok(()).
StartSubscription(c) ==
    /\ pc[c] = "new"
    /\ IF connected[c]
         THEN /\ pc' = [pc EXCEPT ![c] = "started"]
              /\ stream' = [stream EXCEPT ![c] = <<Started>>]
         ELSE /\ pc' = [pc EXCEPT ![c] = "returned"]
              /\ UNCHANGED stream
    /\ UNCHANGED <<bcastVars, nextId, id, joined, channel, subscribers,
                   queue, connected, raised, sent>>

\* fetch_add, outside the mutex.
Increment(n) == n + 1

AllocateId(c) ==
    /\ pc[c] = "started"
    /\ pc' = [pc EXCEPT ![c] = "allocated"]
    /\ id' = [id EXCEPT ![c] = nextId]
    /\ nextId' = Increment(nextId)
    /\ UNCHANGED <<bcastVars, stream, joined, channel, subscribers, queue,
                   connected, raised, sent>>

\* push, inside the mutex.
Register(c) ==
    /\ pc[c] = "allocated"
    /\ mutex = None
    /\ subscribers' = subscribers \cup {[id |-> id[c], client |-> c]}
    /\ pc' = [pc EXCEPT ![c] = "listening"]
    /\ joined' = [joined EXCEPT ![c] = Len(log)]
    /\ UNCHANGED <<bcastVars, nextId, id, stream, channel, queue, connected,
                   raised, sent>>

\* One turn of the loop: recv, convert, reply.  A reply to a client that has
\* gone fails, and the event that was received is lost with it.
Forward(c) ==
    /\ pc[c] = "listening"
    /\ queue[c] # <<>>
    /\ queue' = [queue EXCEPT ![c] = Tail(@)]
    /\ IF connected[c]
         THEN /\ stream' = [stream EXCEPT ![c] =
                              Append(@, ConvertInternalEvent(Head(queue[c])))]
              /\ UNCHANGED pc
         ELSE /\ pc' = [pc EXCEPT ![c] = "leaving"]
              /\ UNCHANGED stream
    /\ UNCHANGED <<bcastVars, nextId, id, joined, channel, subscribers,
                   connected, raised, sent>>

Unsubscribe(c) ==
    /\ pc[c] = "leaving"
    /\ mutex = None
    /\ subscribers' = {s \in subscribers : s.id # id[c]}
    /\ pc' = [pc EXCEPT ![c] = "unsubscribed"]
    /\ UNCHANGED <<bcastVars, nextId, id, stream, joined, channel, queue,
                   connected, raised, sent>>

\* The final reply, whose failure is ignored, and the end of the call.
CloseStream(c) ==
    /\ pc[c] = "unsubscribed"
    /\ stream' = [stream EXCEPT ![c] =
                    IF connected[c] THEN Append(@, Closed) ELSE @]
    /\ queue' = [queue EXCEPT ![c] = <<>>]
    /\ pc' = [pc EXCEPT ![c] = "returned"]
    /\ UNCHANGED <<bcastVars, nextId, id, joined, channel, subscribers,
                   connected, raised, sent>>

\* The environment: a client closes its connection, or dies.
Disconnect(c) ==
    /\ connected[c]
    /\ connected' = [connected EXCEPT ![c] = FALSE]
    /\ UNCHANGED <<bcastVars, workerVars, channel, subscribers, queue,
                   raised, sent>>

----------------------------------------------------------------------------
Worker(c) ==
    \/ StartSubscription(c)
    \/ AllocateId(c)
    \/ Register(c)
    \/ Forward(c)
    \/ Unsubscribe(c)
    \/ CloseStream(c)

Broadcast(b) == BeginBroadcast(b) \/ Offer(b) \/ EndBroadcast(b)

Next ==
    \/ \E e \in HwEvent : Emit(e)
    \/ \E e \in VcpEvent : SetVcp(e)
    \/ FwdReceive
    \/ \E b \in Broadcaster : Broadcast(b)
    \/ \E c \in Client : Worker(c) \/ Disconnect(c)

Spec == Init /\ [][Next]_vars

\* A reply blocks while the client's socket buffer is full: it completes for
\* a client that reads, and fails at once for one that has gone.
ReplyCompletes(c) == c \in Responsive \/ ~connected[c]

\* Threads are scheduled; nothing obliges events to occur or clients to leave.
Fairness ==
    /\ WF_vars(FwdReceive)
    /\ \A b \in Broadcaster : WF_vars(Broadcast(b))
    /\ \A c \in Client : WF_vars(ReplyCompletes(c) /\ Worker(c))

FairSpec == Spec /\ Fairness

----------------------------------------------------------------------------
(* Properties                                                              *)

\* Type invariant of the subscriber list, the queues and the workers.
TypeOK ==
    /\ channel \in Seq(HwEvent)
    /\ mutex \in Broadcaster \cup {None}
    /\ subscribers \subseteq [id : Nat, client : Client]
    /\ todo \subseteq [id : Nat, client : Client]
    /\ inhand \in [Broadcaster -> Event \cup {None}]
    /\ nextId \in Nat
    /\ pc \in [Client -> {"new", "started", "allocated", "listening",
                          "leaving", "unsubscribed", "returned"}]
    /\ id \in [Client -> Nat]
    /\ queue \in [Client -> Seq(Event)]
    /\ connected \in [Client -> BOOLEAN]
    /\ stream \in [Client -> Seq([kind : {"subscription_started",
                                          "connected_displays_changed",
                                          "vcp_changed", "stream_closed"},
                                  data : Event \cup {"{}"}])]
    /\ raised \subseteq Event
    /\ sent \in Seq(HwEvent)
    /\ log \in Seq(Event)
    /\ joined \in [Client -> Nat]

\* The list holds exactly the workers in or just out of the receive loop, each
\* once and under its own id: a broadcast never drops a live listener through
\* retain(), and an unsubscribe by id removes the caller and nobody else,
\* although ids are drawn outside the mutex (subscribers.rs).
Registered(c) == [id |-> id[c], client |-> c]
ListenersRegistered ==
    /\ subscribers = {Registered(c) :
                        c \in {d \in Client : pc[d] \in {"listening", "leaving"}}}
    /\ \A s, t \in subscribers : s.id = t.id => s = t

\* How much of the broadcast order has been queued for a registered client.
Reach(c) == IF Registered(c) \in todo THEN Len(log) - 1 ELSE Len(log)

\* The events a listener has been sent, not counting the opening message.
Delivered(c) == Len(stream[c]) - 1

Segment(c) ==
    /\ stream[c] # <<>>
    /\ stream[c][1] = Started
    /\ joined[c] + Delivered(c) + Len(queue[c]) = Reach(c)
    /\ \A i \in 1..Delivered(c) :
         stream[c][i + 1] = ConvertInternalEvent(log[joined[c] + i])
    /\ \A i \in 1..Len(queue[c]) :
         queue[c][i] = log[joined[c] + Delivered(c) + i]

\* What a listener was sent, followed by what its queue holds, is exactly the
\* broadcast order from its registration on: no event is lost, duplicated or
\* reordered between broadcast_to_subscribers and the socket, and two
\* listeners never see the same events in a different order.
GapFree == \A c \in Client : pc[c] = "listening" => Segment(c)

\* An event has been sent to a client, or waits in its queue.
Holds(c, e) ==
    \/ \E i \in 1..Len(queue[c]) : queue[c][i] = e
    \/ \E i \in 1..Len(stream[c]) : stream[c][i] = ConvertInternalEvent(e)

\* Hardware events are broadcast in the order in which they were raised, each
\* once, with none lost in the channel or in the forwarder's hands: the log has
\* the oldest ones, the forwarder the next, the channel the rest.
Carried == inhand["forwarder"] # None /\ mutex # "forwarder"

Passed == Len(sent) - Len(channel) - (IF Carried THEN 1 ELSE 0)

Logged(k) ==
    /\ \A i \in 1..k : \E p \in 1..Len(log) : log[p] = sent[i]
    /\ \A p \in 1..Len(log) :
         log[p] \in HwEvent => \E i \in 1..k : sent[i] = log[p]
    /\ \A p, q \in 1..Len(log), i, j \in 1..k :
         log[p] = sent[i] /\ log[q] = sent[j] => (p < q <=> i < j)

HwInOrder ==
    /\ Logged(Passed)
    /\ Carried => sent[Passed + 1] = inhand["forwarder"]
    /\ \A i \in 1..Len(channel) :
         sent[Len(sent) - Len(channel) + i] = channel[i]

\* A client that is still connected when its call returns would receive
\* stream_closed; the code says "client will never receive this".
NeverSeesClose ==
    \A c \in Client : \A i \in 1..Len(stream[c]) : stream[c][i] # Closed

\* A hardware event that is on the channel when a reading client is registered
\* reaches that client, even while other clients have stopped reading.
EventsReachListeners ==
    \A c \in Responsive, e \in HwEvent :
        (pc[c] = "listening" /\ \E i \in 1..Len(channel) : channel[i] = e)
          ~> (\/ ~connected[c]
              \/ \E i \in 1..Len(stream[c]) :
                   stream[c][i] = ConvertInternalEvent(e))

\* A listener whose client is gone is removed from the list and its call
\* returns once there is an event to tell it so, even for a client that had
\* stopped reading before it went.
GoneListenerReleased ==
    \A c \in Client :
        (pc[c] = "listening" /\ ~connected[c] /\ queue[c] # <<>>)
          ~> (pc[c] = "returned" /\ Registered(c) \notin subscribers)

\* The service keeps the promise of EventStream.
Phase(c) == CASE pc[c] = "new" -> "new"
              [] pc[c] \in {"started", "allocated"} -> "opened"
              [] pc[c] = "listening" -> "joined"
              [] OTHER -> "left"

Abstract == INSTANCE EventStream WITH
    Message   <- {ConvertInternalEvent(e) : e \in Event},
    published <- [i \in 1..Len(log) |-> ConvertInternalEvent(log[i])],
    phase     <- [c \in Client |-> Phase(c)],
    base      <- joined

ImplementsEventStream == Abstract!Spec
==============================================================================
