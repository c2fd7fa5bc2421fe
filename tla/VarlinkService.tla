---------------------------- MODULE VarlinkService ----------------------------
(***************************************************************************)
(* The varlink service as a whole: the threads of ServiceState around the  *)
(* state mutex and the event path of Subscriptions, which the same threads *)
(* walk.  A client is a connection; its worker answers one call after the  *)
(* other and is in Subscriptions while it streams.                         *)
(*                                                                         *)
(* Where the two meet:                                                     *)
(*   - SetVcp broadcasts its event before it replies, with the state mutex *)
(*     held, and waits there for the mutex of the subscriber list;         *)
(*   - Subscribe streams only after it has started polling and events;     *)
(*   - the polling thread sends events after a scan, without the mutex;    *)
(*   - a reply, too, is written with the mutex held, to a client that need *)
(*     not read it.                                                        *)
(***************************************************************************)
EXTENDS Integers, Sequences, FiniteSets

CONSTANTS Client, Responsive, Poller, Seconds, Wrap, Callback, HwEvent,
          VcpEvent, None

VARIABLES lock, pollInterval, eventsEnabled, pollThread, ppc, watching, inLib,
          cpc, arg,
          channel, mutex, subscribers, todo, inhand, nextId, pc, id, queue,
          connected, stream, raised, sent, log, joined,
          writing  \* the client whose SetVcp is broadcasting, or None

Service == INSTANCE ServiceState
Events == INSTANCE Subscriptions

\* What the two assume, of constants that are now the same.
ASSUME VarlinkAssumption ==
    /\ Responsive \subseteq Client
    /\ Seconds \subseteq Int
    /\ Wrap \in Nat /\ Wrap > Service!DefaultInterval
    /\ Client \cap Poller = {}
    /\ Callback \notin Client \cup Poller
    /\ HwEvent \cap VcpEvent = {}
    /\ None \notin Client \cup Poller \cup {Callback}
    /\ None \notin Events!Event \cup Events!Broadcaster

serviceVars == <<lock, pollInterval, eventsEnabled, pollThread, ppc, watching,
                 inLib, cpc, arg>>
eventVars == <<channel, mutex, subscribers, todo, inhand, nextId, pc, id,
               queue, connected, stream, raised, sent, log, joined>>
vars == <<serviceVars, eventVars, writing>>

Init ==
    /\ Service!Init
    /\ Events!Init
    /\ writing = None

----------------------------------------------------------------------------
(* Slips.  Each operator here stands in for one definition below when the  *)
(* properties are tried out on it; the specification uses none of them.    *)

\* The reply written before the broadcast.
ReplyEarly(c) ==
    /\ Service!Reply(c)
    /\ UNCHANGED <<eventVars, writing>>

\* The opening reply of Subscribe written before polling and events are on.
OpenEarly(c) ==
    /\ cpc[c] \in {"start_polling", "set_events", "streaming"}
    /\ Events!StartSubscription(c)
    /\ UNCHANGED <<serviceVars, writing>>

----------------------------------------------------------------------------
(* The worker of a connection                                              *)

\* The client's next call; a connection subscribes once here.
Ask(c) ==
    /\ connected[c]
    /\ \/ Service!CallDdc(c)
       \/ Service!CallRead(c)
       \/ \E s \in Seconds : Service!CallSetInterval(c, s)
       \/ pc[c] = "new" /\ Service!CallSubscribe(c)
    /\ UNCHANGED <<eventVars, writing>>

Acquire(c) ==
    /\ Service!Acquire(c)
    /\ UNCHANGED <<eventVars, writing>>

\* Any method but a SetVcp that has written its value.
LeaveLib(c) ==
    /\ Service!LeaveLib(c)
    /\ UNCHANGED <<eventVars, writing>>

\* A SetVcp that has; its broadcast begins.
Written(c) ==
    /\ Service!LeaveLib(c)
    /\ \E e \in VcpEvent : Events!SetVcp(e)
    /\ writing' = c

Announce(c) ==
    /\ writing = c
    /\ Events!Broadcast("set_vcp")
    /\ writing' = IF inhand'["set_vcp"] = None THEN None ELSE c
    /\ UNCHANGED serviceVars

Reply(c) ==
    /\ writing # c
    /\ Service!Reply(c)
    /\ UNCHANGED <<eventVars, writing>>

StartWatch(c) ==
    /\ Service!StartWatch(c)
    /\ UNCHANGED <<eventVars, writing>>

\* The opening reply comes when polling and events have been seen to.
OpenStream(c) ==
    /\ cpc[c] = "streaming"
    /\ Events!StartSubscription(c)
    /\ UNCHANGED <<serviceVars, writing>>

Stream(c) ==
    /\ \/ Events!AllocateId(c)
       \/ Events!Register(c)
       \/ Events!Forward(c)
       \/ Events!Unsubscribe(c)
       \/ Events!CloseStream(c)
    /\ UNCHANGED <<serviceVars, writing>>

EndStream(c) ==
    /\ pc[c] = "returned"
    /\ Service!EndStream(c)
    /\ UNCHANGED <<eventVars, writing>>

Disconnect(c) ==
    /\ Events!Disconnect(c)
    /\ UNCHANGED <<serviceVars, writing>>

----------------------------------------------------------------------------
(* The other threads                                                       *)

PollStep(p) ==
    /\ Service!PollConfig(p) \/ Service!PollScanned(p) \/ Service!PollWake(p)
    /\ UNCHANGED <<eventVars, writing>>

\* A difference between two scans, sent before the polling thread sleeps.  The
\* place "sleeping" stands for both.
PollSend(p) ==
    /\ ppc[p] = "sleeping"
    /\ eventsEnabled
    /\ \E e \in HwEvent : Events!Emit(e)
    /\ UNCHANGED <<serviceVars, writing>>

NativeEvent ==
    /\ Service!NativeEvent
    /\ UNCHANGED <<eventVars, writing>>

\* The callback puts its event on the channel, if there is one to build.
NativeDone ==
    /\ Service!NativeDone
    /\ \/ \E e \in HwEvent : Events!Emit(e)
       \/ UNCHANGED eventVars
    /\ UNCHANGED writing

Forwarder ==
    /\ Events!FwdReceive \/ Events!Broadcast("forwarder")
    /\ UNCHANGED <<serviceVars, writing>>

----------------------------------------------------------------------------
\* What the worker does by itself; a reply has to wait for the client.
Worker(c) ==
    \/ Acquire(c)
    \/ LeaveLib(c)
    \/ Written(c)
    \/ Announce(c)
    \/ StartWatch(c)
    \/ Events!ReplyCompletes(c) /\ (Reply(c) \/ OpenStream(c) \/ Stream(c))
    \/ EndStream(c)

Next ==
    \/ \E c \in Client : \/ Ask(c)
                         \/ Worker(c)
                         \/ Reply(c)
                         \/ OpenStream(c)
                         \/ Stream(c)
                         \/ Disconnect(c)
    \/ \E p \in Poller : PollStep(p) \/ PollSend(p)
    \/ NativeEvent
    \/ NativeDone
    \/ Forwarder

Spec == Init /\ [][Next]_vars

\* Every thread is scheduled, and no mutex is withheld for ever from a thread
\* that finds it free again and again.  Clients owe nothing, except that those
\* in Responsive read.
Fairness ==
    /\ \A c \in Client : SF_vars(Worker(c))
    /\ \A p \in Poller : SF_vars(PollStep(p))
    /\ WF_vars(Forwarder)
    /\ WF_vars(NativeDone)

FairSpec == Spec /\ Fairness

----------------------------------------------------------------------------
(* Properties                                                              *)

\* Type invariant of the composition.
TypeOK ==
    /\ Service!TypeOK
    /\ Events!TypeOK
    /\ writing \in Client \cup {None}

\* At most one SetVcp is broadcasting at a time, and its worker is then inside
\* the state mutex, on its way to its reply: what Subscriptions assumes of the
\* callers of broadcast_set_vcp, the service sees to.
OneAnnouncer ==
    inhand["set_vcp"] # None =>
        /\ writing # None
        /\ lock = writing
        /\ cpc[writing] = "replying"

\* When the reply of a SetVcp can be read, its event has been broadcast, and
\* whoever was listening by then has been sent it or has it in its queue.
Unanswered(e) ==
    inhand["set_vcp"] = e /\ writing # None /\ cpc[writing] = "replying"

AnnouncedBeforeReply ==
    \A e \in VcpEvent \cap raised :
        ~Unanswered(e) =>
            \E i \in 1..Len(log) :
                /\ log[i] = e
                /\ \A c \in Client :
                     pc[c] = "listening" /\ joined[c] < i => Events!Holds(c, e)

\* Whoever is being sent events is in a call of Subscribe that has seen polling
\* and events switched on: nobody listens to a service that has yet to produce
\* an event.
ListenersAreServed ==
    \A c \in Client :
        pc[c] \notin {"new", "returned"} =>
            cpc[c] = "streaming" /\ eventsEnabled /\ pollThread # None

\* A reply that waits for a client that does not read it, inside the mutex.
Stalled(c) ==
    cpc[c] = "replying" /\ c \notin Responsive /\ connected[c]

Settled(c) == cpc[c] \in {"idle", "streaming"}

\* Unless polling is stopped by an interval of 0, the one thing that keeps a
\* call of another client from its end is an unread reply: not a subscriber
\* that stops reading its stream, not a broadcast, not the forwarder.
OnlyRepliesStall ==
    Service!NeverZero =>
      \A c \in Client : ~Settled(c) ~> (Settled(c) \/ \E d \in Client : Stalled(d))
===============================================================================
