------------------------- MODULE VarlinkServiceProofs -------------------------
(***************************************************************************)
(* The service as a whole is, seen from the state mutex, a behaviour of    *)
(* ServiceState and, seen from the event path, one of Subscriptions, so    *)
(* what is proved of the two holds in it.  What relates the two is proved  *)
(* here.                                                                   *)
(*                                                                         *)
(* A theorem of a module that is instantiated speaks of that instance's    *)
(* own definitions: State and Stream below are instances of the modules of *)
(* proofs, and their definitions the same, word by word, as the ones that  *)
(* VarlinkService uses.                                                    *)
(***************************************************************************)
EXTENDS VarlinkService, TLAPS

StateP == INSTANCE ServiceStateProofs
StreamP == INSTANCE SubscriptionsProofs

\* The assumptions of ServiceState hold of the constants of the whole.
LEMMA StateAssumed ==
    /\ Seconds \subseteq Int
    /\ Wrap \in Nat /\ Wrap > StateP!DefaultInterval
    /\ Client \cap Poller = {}
    /\ Callback \notin Client \cup Poller
    /\ None \notin Client \cup Poller \cup {Callback}
BY VarlinkAssumption DEF Service!DefaultInterval, StateP!DefaultInterval

\* So do those of Subscriptions.
LEMMA StreamAssumed ==
    /\ Responsive \subseteq Client
    /\ HwEvent \cap VcpEvent = {}
    /\ None \notin StreamP!Event \cup StreamP!Broadcaster
BY VarlinkAssumption DEF Events!Event, Events!Broadcaster, StreamP!Event,
   StreamP!Broadcaster

----------------------------------------------------------------------------
(* The two instances of each module                                        *)

\* The instance of ServiceState in VarlinkService and the one of its proofs are
\* one specification.
LEMMA SameState == Service!Spec => StateP!Spec
<1>1. Service!Init => StateP!Init
  BY DEF Service!Init, StateP!Init, Service!DefaultInterval,
     StateP!DefaultInterval
<1>2. [Service!Next]_(Service!vars) => [StateP!Next]_(StateP!vars)
  BY DEF Service!Next, StateP!Next, Service!vars, StateP!vars,
     Service!Goto, StateP!Goto, Service!Lock, StateP!Lock,
     Service!Unlock, StateP!Unlock, Service!Request, StateP!Request,
     Service!Acquire, StateP!Acquire, Service!Finish, StateP!Finish,
     Service!CallDdc, StateP!CallDdc, Service!EnterLib, StateP!EnterLib,
     Service!LeaveLib, StateP!LeaveLib, Service!CallRead, StateP!CallRead,
     Service!ReadSetting, StateP!ReadSetting, Service!Reply, StateP!Reply,
     Service!ValidInterval, StateP!ValidInterval,
     Service!CallSetInterval, StateP!CallSetInterval,
     Service!AsU32, StateP!AsU32, Service!StoreInterval, StateP!StoreInterval,
     Service!CallSubscribe, StateP!CallSubscribe,
     Service!StartPolling, StateP!StartPolling,
     Service!SetEventsEnabled, StateP!SetEventsEnabled,
     Service!StartWatch, StateP!StartWatch,
     Service!EndStream, StateP!EndStream,
     Service!PollConfig, StateP!PollConfig,
     Service!PollScanned, StateP!PollScanned,
     Service!PollWake, StateP!PollWake,
     Service!NativeEvent, StateP!NativeEvent,
     Service!NativeDone, StateP!NativeDone
<1>3. QED
  BY <1>1, <1>2, PTL DEF Service!Spec, StateP!Spec

\* So are those of Subscriptions.
LEMMA SameStream == Events!Spec => StreamP!Spec
<1>1. Events!Init => StreamP!Init
  BY DEF Events!Init, StreamP!Init, Events!Broadcaster, StreamP!Broadcaster
<1>2. [Events!Next]_(Events!vars) => [StreamP!Next]_(StreamP!vars)
  BY DEF Events!Next, StreamP!Next, Events!vars, StreamP!vars,
     Events!bcastVars, StreamP!bcastVars, Events!workerVars,
     StreamP!workerVars, Events!Broadcaster, StreamP!Broadcaster,
     Events!Emit, StreamP!Emit, Events!SetVcp, StreamP!SetVcp,
     Events!FwdReceive, StreamP!FwdReceive,
     Events!Broadcast, StreamP!Broadcast,
     Events!BeginBroadcast, StreamP!BeginBroadcast,
     Events!ChannelOpen, StreamP!ChannelOpen, Events!Offer, StreamP!Offer,
     Events!EndBroadcast, StreamP!EndBroadcast,
     Events!Worker, StreamP!Worker, Events!Started, StreamP!Started,
     Events!Closed, StreamP!Closed,
     Events!ConvertInternalEvent, StreamP!ConvertInternalEvent,
     Events!StartSubscription, StreamP!StartSubscription,
     Events!Increment, StreamP!Increment,
     Events!AllocateId, StreamP!AllocateId, Events!Register, StreamP!Register,
     Events!Forward, StreamP!Forward, Events!Unsubscribe, StreamP!Unsubscribe,
     Events!CloseStream, StreamP!CloseStream,
     Events!Disconnect, StreamP!Disconnect
<1>3. QED
  BY <1>1, <1>2, PTL DEF Events!Spec, StreamP!Spec

----------------------------------------------------------------------------
(* Each step of the whole is a step, or none, of either part               *)

\* A step of the whole is one of ServiceState, or leaves its variables alone.
LEMMA StateStep == [Next]_vars => [Service!Next]_(Service!vars)
<1>. SUFFICES ASSUME [Next]_vars PROVE Service!Next \/ UNCHANGED Service!vars
  OBVIOUS
<1>1. UNCHANGED serviceVars => UNCHANGED Service!vars
  BY DEF serviceVars, Service!vars
<1>2. ASSUME NEW c \in Client,
             \/ Ask(c) \/ Worker(c) \/ Reply(c) \/ OpenStream(c) \/ Stream(c)
             \/ Disconnect(c)
      PROVE Service!Next \/ UNCHANGED serviceVars
  <2>1. CASE Ask(c)
    BY <2>1 DEF Ask, Service!Request, Service!Next
  <2>2. CASE Acquire(c) \/ LeaveLib(c) \/ Written(c) \/ StartWatch(c)
             \/ Reply(c) \/ EndStream(c)
    BY <2>2 DEF Acquire, LeaveLib, Written, StartWatch, Reply, EndStream,
       Service!Finish, Service!Next
  <2>3. CASE Announce(c) \/ OpenStream(c) \/ Stream(c) \/ Disconnect(c)
    BY <2>3 DEF Announce, OpenStream, Stream, Disconnect
  <2>4. QED
    BY <1>2, <2>1, <2>2, <2>3 DEF Worker
<1>3. ASSUME NEW p \in Poller, PollStep(p) \/ PollSend(p)
      PROVE Service!Next \/ UNCHANGED serviceVars
  BY <1>3 DEF PollStep, PollSend, Service!Next
<1>4. CASE NativeEvent \/ NativeDone \/ Forwarder
  BY <1>1, <1>4 DEF NativeEvent, NativeDone, Forwarder, Service!Next
<1>5. CASE UNCHANGED vars
  BY <1>1, <1>5 DEF vars
<1>6. QED
  BY <1>1, <1>2, <1>3, <1>4, <1>5 DEF Next

\* A step of the whole is one of Subscriptions, or leaves its variables alone.
LEMMA StreamStep == [Next]_vars => [Events!Next]_(Events!vars)
<1>. SUFFICES ASSUME [Next]_vars PROVE Events!Next \/ UNCHANGED Events!vars
  OBVIOUS
<1>1. UNCHANGED eventVars => UNCHANGED Events!vars
  BY DEF eventVars, Events!vars
<1>2. "forwarder" \in Events!Broadcaster /\ "set_vcp" \in Events!Broadcaster
  BY DEF Events!Broadcaster
<1>3. ASSUME NEW c \in Client,
             \/ Ask(c) \/ Worker(c) \/ Reply(c) \/ OpenStream(c) \/ Stream(c)
             \/ Disconnect(c)
      PROVE Events!Next \/ UNCHANGED eventVars
  <2>1. CASE \/ Ask(c) \/ Acquire(c) \/ LeaveLib(c) \/ StartWatch(c)
             \/ Reply(c) \/ EndStream(c)
    BY <2>1 DEF Ask, Acquire, LeaveLib, StartWatch, Reply, EndStream
  <2>2. CASE Written(c) \/ Announce(c)
    BY <1>2, <2>2 DEF Written, Announce, Events!Next
  <2>3. CASE OpenStream(c) \/ Stream(c) \/ Disconnect(c)
    BY <2>3 DEF OpenStream, Stream, Disconnect, Events!Worker, Events!Next
  <2>4. QED
    BY <1>3, <2>1, <2>2, <2>3 DEF Worker
<1>4. ASSUME NEW p \in Poller, PollStep(p) \/ PollSend(p)
      PROVE Events!Next \/ UNCHANGED eventVars
  BY <1>4 DEF PollStep, PollSend, Events!Next
<1>5. CASE NativeEvent \/ NativeDone \/ Forwarder
  BY <1>1, <1>2, <1>5 DEF NativeEvent, NativeDone, Forwarder, Events!Next
<1>6. CASE UNCHANGED vars
  BY <1>1, <1>6 DEF vars
<1>7. QED
  BY <1>1, <1>3, <1>4, <1>5, <1>6 DEF Next

\* The whole implements both of its parts.
THEOREM Parts == Spec => Service!Spec /\ Events!Spec
<1>1. Init => Service!Init /\ Events!Init
  BY DEF Init
<1>2. QED
  BY <1>1, StateStep, StreamStep, PTL DEF Spec, Service!Spec, Events!Spec

----------------------------------------------------------------------------
(* What the parts contribute                                               *)

\* The facts about the parts that the rest needs.
LEMMA FromParts ==
    Spec => [](Service!TypeOK /\ Service!GuardMatchesSection /\ Events!TypeOK)
<1>1. StateP!TypeOK => Service!TypeOK
  BY DEF StateP!TypeOK, Service!TypeOK, StateP!Thread, Service!Thread
<1>2. StateP!GuardMatchesSection => Service!GuardMatchesSection
  BY DEF StateP!GuardMatchesSection, Service!GuardMatchesSection,
     StateP!InCritical, Service!InCritical
<1>3. StreamP!TypeOK => Events!TypeOK
  BY DEF StreamP!TypeOK, Events!TypeOK, StreamP!Event, Events!Event,
     StreamP!Broadcaster, Events!Broadcaster
<1>4. StateP!Spec => []StateP!TypeOK
  BY StateAssumed, StateP!Typing
<1>5. StateP!Spec => []StateP!GuardMatchesSection
  BY StateAssumed, StateP!Guarded
<1>6. StreamP!Spec => []StreamP!TypeOK
  BY StreamAssumed, StreamP!Typing
<1>7. QED
  BY <1>1, <1>2, <1>3, <1>4, <1>5, <1>6, Parts, SameState, SameStream, PTL

\* A worker that broadcasts is inside the mutex and about to reply.
AnnouncerInv ==
    /\ writing \in Client \cup {None}
    /\ inhand["set_vcp"] # None <=> writing # None
    /\ writing # None => lock = writing /\ cpc[writing] = "replying"

\* What Subscribe has seen to, by the place of its worker: polling first, then
\* events, and neither is ever undone.
StartedInv ==
    \A c \in Client :
        /\ cpc[c] \in {"set_events", "start_watch", "streaming"} =>
             pollThread # None
        /\ cpc[c] \in {"start_watch", "streaming"} => eventsEnabled

\* A worker that streams is in Subscribe.
StreamingInv ==
    \A c \in Client : pc[c] \notin {"new", "returned"} => cpc[c] = "streaming"

----------------------------------------------------------------------------
\* Only SetVcp's broadcast touches what SetVcp has in hand.
LEMMA HandKept ==
    ASSUME Events!TypeOK,
           \/ \E e \in HwEvent : Events!Emit(e)
           \/ Events!FwdReceive
           \/ Events!Broadcast("forwarder")
           \/ \E c \in Client : Events!Worker(c) \/ Events!Disconnect(c)
    PROVE  inhand'["set_vcp"] = inhand["set_vcp"]
<1>1. "set_vcp" \in Events!Broadcaster /\ "forwarder" # "set_vcp"
  BY DEF Events!Broadcaster
<1>2. inhand' = inhand \/ \E v : inhand' = [inhand EXCEPT !["forwarder"] = v]
  BY DEF Events!Emit, Events!FwdReceive, Events!Broadcast,
     Events!BeginBroadcast, Events!Offer, Events!EndBroadcast, Events!Worker,
     Events!StartSubscription, Events!AllocateId, Events!Register,
     Events!Forward, Events!Unsubscribe, Events!CloseStream,
     Events!Disconnect, Events!bcastVars
<1>3. inhand \in [Events!Broadcaster -> Events!Event \cup {None}]
  BY DEF Events!TypeOK
<1>4. QED
  BY <1>1, <1>2, <1>3

\* A step that is not the broadcasting worker's own leaves it where it is.
LEMMA AnnouncerKept ==
    ASSUME Service!TypeOK, Service!GuardMatchesSection, AnnouncerInv,
           inhand'["set_vcp"] = inhand["set_vcp"], writing' = writing,
           \/ UNCHANGED serviceVars
           \/ \E c \in Client : \/ Service!Request(c) \/ Service!Acquire(c)
                                \/ Service!Finish(c) /\ writing # c
                                \/ Service!EndStream(c)
           \/ \E p \in Poller : \/ Service!PollConfig(p)
                                \/ Service!PollScanned(p)
                                \/ Service!PollWake(p)
           \/ Service!NativeEvent
           \/ Service!NativeDone
    PROVE  AnnouncerInv'
<1>. SUFFICES ASSUME writing # None
              PROVE lock' = writing /\ cpc'[writing] = "replying"
  BY DEF AnnouncerInv
<1>1. lock = writing /\ writing \in Client /\ cpc[writing] = "replying"
  BY DEF AnnouncerInv
<1>2. cpc \in [Client ->
            {"idle", "ddc_lock", "ddc", "replying", "read_lock",
             "interval_lock", "stop_polling", "start_polling", "set_events",
             "start_watch", "streaming"}]
  BY DEF Service!TypeOK
<1>3. lock # None /\ \A p \in Poller : lock # p
  BY <1>1, VarlinkAssumption
<1>4. CASE UNCHANGED serviceVars
  BY <1>1, <1>4 DEF serviceVars
<1>5. ASSUME NEW c \in Client, Service!Request(c) \/ Service!EndStream(c)
      PROVE lock' = writing /\ cpc'[writing] = "replying"
  BY <1>1, <1>2, <1>5 DEF Service!Request, Service!CallDdc, Service!CallRead,
     Service!CallSetInterval, Service!CallSubscribe, Service!EndStream,
     Service!Goto
<1>6. ASSUME NEW c \in Client, Service!Acquire(c) PROVE FALSE
  BY <1>3, <1>6 DEF Service!Acquire, Service!EnterLib, Service!ReadSetting,
     Service!StoreInterval, Service!StartPolling, Service!SetEventsEnabled,
     Service!Lock
<1>7. ASSUME NEW c \in Client, Service!Finish(c), writing # c
      PROVE lock' = writing /\ cpc'[writing] = "replying"
  <2>1. CASE Service!LeaveLib(c)
    BY <1>1, <1>2, <1>7, <2>1 DEF Service!LeaveLib, Service!Goto
  <2>2. CASE Service!Reply(c) \/ Service!StartWatch(c)
    BY <1>1, <1>7, <2>2 DEF Service!Reply, Service!StartWatch, Service!Unlock
  <2>3. QED
    BY <1>7, <2>1, <2>2 DEF Service!Finish
<1>8. ASSUME NEW p \in Poller,
             \/ Service!PollConfig(p) \/ Service!PollScanned(p)
             \/ Service!PollWake(p)
      PROVE lock' = writing /\ cpc'[writing] = "replying"
  BY <1>1, <1>3, <1>8 DEF Service!PollConfig, Service!PollScanned,
     Service!PollWake, Service!Unlock
<1>9. CASE Service!NativeEvent \/ Service!NativeDone
  BY <1>1, <1>9 DEF Service!NativeEvent, Service!NativeDone
<1>10. QED
  BY <1>4, <1>5, <1>6, <1>7, <1>8, <1>9

\* A SetVcp that broadcasts has the state mutex before, during and after.
LEMMA AnnouncerStep ==
    Service!TypeOK /\ Service!GuardMatchesSection /\ Events!TypeOK
      /\ AnnouncerInv /\ [Next]_vars => AnnouncerInv'
<1>. SUFFICES ASSUME Service!TypeOK, Service!GuardMatchesSection,
                     Events!TypeOK, AnnouncerInv, [Next]_vars
              PROVE AnnouncerInv'
  OBVIOUS
<1>1. UNCHANGED eventVars => inhand' = inhand
  BY DEF eventVars
<1>2. ASSUME NEW c \in Client, Written(c) PROVE AnnouncerInv'
  <2>1. PICK e \in VcpEvent : Events!SetVcp(e)
    BY <1>2 DEF Written
  <2>2. inhand'["set_vcp"] = e /\ e # None
    BY <2>1, VarlinkAssumption DEF Events!SetVcp, Events!TypeOK,
       Events!Broadcaster, Events!Event
  <2>3. cpc[c] = "ddc" /\ cpc'[c] = "replying" /\ lock' = lock
    BY <1>2 DEF Written, Service!LeaveLib, Service!Goto, Service!TypeOK
  <2>4. lock = c
    BY <2>3 DEF Service!GuardMatchesSection, Service!InCritical
  <2>5. QED
    BY <1>2, <2>2, <2>3, <2>4, VarlinkAssumption DEF Written, AnnouncerInv
<1>3. ASSUME NEW c \in Client, Announce(c) PROVE AnnouncerInv'
  <2>1. writing = c /\ c # None /\ lock = c /\ cpc[c] = "replying"
    BY <1>3, VarlinkAssumption DEF Announce, AnnouncerInv
  <2>2. lock' = lock /\ cpc' = cpc
    BY <1>3 DEF Announce, serviceVars
  <2>3. writing' = IF inhand'["set_vcp"] = None THEN None ELSE c
    BY <1>3 DEF Announce
  <2>4. QED
    BY <2>1, <2>2, <2>3 DEF AnnouncerInv
<1>4. ASSUME NEW c \in Client, OpenStream(c) \/ Stream(c) \/ Disconnect(c)
      PROVE AnnouncerInv'
  <2>1. Events!Worker(c) \/ Events!Disconnect(c)
    BY <1>4 DEF OpenStream, Stream, Disconnect, Events!Worker
  <2>2. inhand'["set_vcp"] = inhand["set_vcp"]
    BY <2>1, HandKept
  <2>3. QED
    BY <1>4, <2>2, AnnouncerKept DEF OpenStream, Stream, Disconnect
<1>5. ASSUME NEW c \in Client,
             \/ Ask(c) \/ Acquire(c) \/ StartWatch(c) \/ EndStream(c)
      PROVE AnnouncerInv'
  <2>1. writing = c => cpc[c] = "replying"
    BY VarlinkAssumption DEF AnnouncerInv
  <2>2. StartWatch(c) => writing # c
    BY <2>1 DEF StartWatch, Service!StartWatch
  <2>3. QED
    BY <1>1, <1>5, <2>2, AnnouncerKept DEF Ask, Acquire, StartWatch, EndStream,
       Service!Request, Service!Finish
<1>6. ASSUME NEW c \in Client, LeaveLib(c) \/ Reply(c) PROVE AnnouncerInv'
  <2>1. writing = c => cpc[c] = "replying"
    BY VarlinkAssumption DEF AnnouncerInv
  <2>2. writing # c
    BY <1>6, <2>1 DEF LeaveLib, Reply, Service!LeaveLib
  <2>3. QED
    BY <1>1, <1>6, <2>2, AnnouncerKept DEF LeaveLib, Reply, Service!Finish
<1>7. ASSUME NEW p \in Poller, PollStep(p) \/ PollSend(p) PROVE AnnouncerInv'
  BY <1>1, <1>7, AnnouncerKept, HandKept DEF PollStep, PollSend
<1>8. CASE NativeEvent \/ NativeDone \/ Forwarder
  BY <1>1, <1>8, AnnouncerKept, HandKept DEF NativeEvent, NativeDone, Forwarder
<1>9. CASE UNCHANGED vars
  BY <1>1, <1>9, AnnouncerKept DEF vars
<1>10. QED
  BY <1>2, <1>3, <1>4, <1>5, <1>6, <1>7, <1>8, <1>9 DEF Next, Worker

\* Who broadcasts a SetVcp is inside the state mutex.
LEMMA Announcer == Spec => []AnnouncerInv
<1>1. Init => AnnouncerInv
  BY DEF Init, Events!Init, Events!Broadcaster, AnnouncerInv
<1>2. QED
  BY <1>1, AnnouncerStep, FromParts, PTL DEF Spec

\* The type invariant of the whole.
THEOREM Typing == Spec => []TypeOK
<1>1. Service!TypeOK /\ Events!TypeOK /\ AnnouncerInv => TypeOK
  BY DEF TypeOK, AnnouncerInv
<1>2. QED
  BY <1>1, FromParts, Announcer, PTL

\* At most one SetVcp broadcasts, and it holds the state mutex.
THEOREM SoleAnnouncer == Spec => []OneAnnouncer
<1>1. AnnouncerInv => OneAnnouncer
  BY DEF OneAnnouncer, AnnouncerInv
<1>2. QED
  BY <1>1, Announcer, PTL

----------------------------------------------------------------------------
\* A worker that streams has started polling and switched events on before.
LEMMA StartedStep ==
    Service!TypeOK /\ StartedInv /\ [Service!Next]_(Service!vars)
      => StartedInv'
<1>. SUFFICES ASSUME Service!TypeOK, StartedInv,
                     Service!Next \/ UNCHANGED Service!vars
              PROVE  StartedInv'
  OBVIOUS
<1>1. DOMAIN cpc = Client
  BY DEF Service!TypeOK
<1>2. ASSUME NEW c \in Client,
             \/ Service!Request(c) \/ Service!Finish(c) \/ Service!EndStream(c)
             \/ Service!EnterLib(c) \/ Service!ReadSetting(c)
             \/ Service!StoreInterval(c)
      PROVE  StartedInv'
  <2>1. /\ UNCHANGED <<pollThread, eventsEnabled>>
        /\ \/ \E v \in {"idle", "ddc_lock", "ddc", "replying", "read_lock",
                        "interval_lock", "stop_polling", "start_polling"} :
                cpc' = [cpc EXCEPT ![c] = v]
           \/ cpc[c] = "start_watch" /\ cpc' = [cpc EXCEPT ![c] = "streaming"]
    BY <1>2 DEF Service!Request, Service!CallDdc, Service!CallRead,
       Service!CallSetInterval, Service!CallSubscribe, Service!EnterLib,
       Service!ReadSetting, Service!StoreInterval, Service!Finish,
       Service!LeaveLib, Service!Reply, Service!StartWatch,
       Service!EndStream, Service!Goto
  <2>2. QED
    BY <1>1, <2>1 DEF StartedInv
<1>3. ASSUME NEW c \in Client, Service!StartPolling(c) PROVE StartedInv'
  <2>1. /\ eventsEnabled' = eventsEnabled
        /\ pollThread' # None
        /\ cpc' = [cpc EXCEPT ![c] = "set_events"]
    BY <1>3, VarlinkAssumption DEF Service!StartPolling, Service!Goto
  <2>2. QED
    BY <1>1, <2>1 DEF StartedInv
<1>4. ASSUME NEW c \in Client, Service!SetEventsEnabled(c) PROVE StartedInv'
  <2>1. /\ eventsEnabled'
        /\ pollThread' = pollThread
        /\ cpc[c] = "set_events"
        /\ \E v : cpc' = [cpc EXCEPT ![c] = v]
    BY <1>4 DEF Service!SetEventsEnabled, Service!Goto
  <2>2. QED
    BY <1>1, <2>1 DEF StartedInv
<1>5. ASSUME NEW p \in Poller,
             \/ Service!PollConfig(p) \/ Service!PollScanned(p)
             \/ Service!PollWake(p)
      PROVE  StartedInv'
  BY <1>5 DEF StartedInv, Service!PollConfig, Service!PollScanned,
     Service!PollWake
<1>6. CASE Service!NativeEvent \/ Service!NativeDone
  BY <1>6 DEF StartedInv, Service!NativeEvent, Service!NativeDone
<1>7. CASE UNCHANGED Service!vars
  BY <1>7 DEF StartedInv, Service!vars
<1>8. QED
  BY <1>2, <1>3, <1>4, <1>5, <1>6, <1>7 DEF Service!Next, Service!Acquire

\* A worker leaves "streaming" by EndStream only, and enters it from Subscribe.
LEMMA StreamingStep ==
    Service!TypeOK /\ Events!TypeOK /\ StreamingInv /\ [Next]_vars
      => StreamingInv'
<1>. SUFFICES ASSUME Service!TypeOK, Events!TypeOK, StreamingInv, [Next]_vars,
                     NEW d \in Client, pc'[d] \notin {"new", "returned"}
              PROVE  cpc'[d] = "streaming"
  BY DEF StreamingInv
<1>1. DOMAIN cpc = Client /\ DOMAIN pc = Client
  BY DEF Service!TypeOK, Events!TypeOK
<1>2. ASSUME NEW c \in Client,
             \/ Ask(c) \/ Acquire(c) \/ LeaveLib(c) \/ StartWatch(c)
             \/ Reply(c) \/ EndStream(c) \/ Written(c)
      PROVE  cpc'[d] = "streaming"
  <2>1. pc' = pc
    BY <1>2 DEF Ask, Acquire, LeaveLib, StartWatch, Reply, EndStream, Written,
       eventVars, Events!SetVcp, Events!workerVars
  <2>2. cpc[d] = "streaming" /\ pc[d] # "returned"
    BY <2>1 DEF StreamingInv
  <2>3. \/ cpc' = cpc
        \/ /\ cpc[c] # "streaming" \/ pc[c] = "returned"
           /\ \E v : cpc' = [cpc EXCEPT ![c] = v]
    BY <1>2 DEF Ask, Acquire, LeaveLib, StartWatch, Reply, EndStream, Written,
       Service!CallDdc, Service!CallRead, Service!CallSetInterval,
       Service!CallSubscribe, Service!Acquire, Service!EnterLib,
       Service!ReadSetting, Service!StoreInterval, Service!StartPolling,
       Service!SetEventsEnabled, Service!LeaveLib, Service!Reply,
       Service!StartWatch, Service!EndStream, Service!Goto
  <2>4. QED
    BY <1>1, <2>2, <2>3
<1>3. ASSUME NEW c \in Client, OpenStream(c) PROVE cpc'[d] = "streaming"
  <2>1. /\ cpc' = cpc /\ cpc[c] = "streaming"
        /\ \E v : pc' = [pc EXCEPT ![c] = v]
    BY <1>3 DEF OpenStream, serviceVars, Events!StartSubscription
  <2>2. QED
    BY <1>1, <2>1 DEF StreamingInv
<1>4. ASSUME NEW c \in Client, Stream(c) PROVE cpc'[d] = "streaming"
  <2>1. /\ cpc' = cpc
        /\ \/ pc' = pc
           \/ /\ pc[c] \notin {"new", "returned"}
              /\ \E v : pc' = [pc EXCEPT ![c] = v]
    BY <1>4 DEF Stream, serviceVars, Events!AllocateId, Events!Register,
       Events!Forward, Events!Unsubscribe, Events!CloseStream
  <2>2. QED
    BY <1>1, <2>1 DEF StreamingInv
<1>5. CASE \/ \E c \in Client : Announce(c) \/ Disconnect(c)
           \/ \E p \in Poller : PollStep(p) \/ PollSend(p)
           \/ NativeEvent \/ NativeDone \/ Forwarder \/ UNCHANGED vars
  <2>1. pc' = pc
    BY <1>5 DEF Announce, Disconnect, PollStep, PollSend, NativeEvent,
       NativeDone, Forwarder, Events!Broadcast, Events!BeginBroadcast,
       Events!Offer, Events!EndBroadcast, Events!Disconnect, Events!Emit,
       Events!FwdReceive, Events!workerVars, eventVars, vars
  <2>2. cpc' = cpc
    BY <1>5 DEF Announce, Disconnect, PollStep, PollSend, NativeEvent,
       NativeDone, Forwarder, Service!PollConfig, Service!PollScanned,
       Service!PollWake, Service!NativeEvent, Service!NativeDone, serviceVars,
       vars
  <2>3. QED
    BY <2>1, <2>2 DEF StreamingInv
<1>6. QED
  BY <1>2, <1>3, <1>4, <1>5 DEF Next, Worker

\* Nobody listens before polling and events have been switched on.
THEOREM ServedListeners == Spec => []ListenersAreServed
<1>1. Init => StartedInv /\ StreamingInv
  BY DEF Init, Service!Init, Events!Init, StartedInv, StreamingInv
<1>2. StartedInv /\ StreamingInv => ListenersAreServed
  BY DEF StartedInv, StreamingInv, ListenersAreServed
<1>3. QED
  BY <1>1, <1>2, StartedStep, StateStep, StreamingStep, FromParts, PTL
  DEF Spec

\* An event that SetVcp no longer has in hand is in the log, and in the queue
\* or on the stream of everyone who listened by then.
THEOREM RepliesFollowEvents == Spec => []AnnouncedBeforeReply
<1>1. AnnouncerInv /\ StreamP!AnnouncedToAll => AnnouncedBeforeReply
  <2>. SUFFICES ASSUME AnnouncerInv, StreamP!AnnouncedToAll,
                       NEW e \in VcpEvent \cap raised, ~Unanswered(e)
                PROVE  \E i \in 1..Len(log) :
                         /\ log[i] = e
                         /\ \A c \in Client :
                              pc[c] = "listening" /\ joined[c] < i =>
                                Events!Holds(c, e)
    BY DEF AnnouncedBeforeReply
  <2>1. e # None
    BY VarlinkAssumption DEF Events!Event
  <2>2. inhand["set_vcp"] # e
    BY <2>1 DEF AnnouncerInv, Unanswered
  <2>3. \A c \in Client : StreamP!Holds(c, e) => Events!Holds(c, e)
    BY DEF StreamP!Holds, Events!Holds, StreamP!ConvertInternalEvent,
       Events!ConvertInternalEvent
  <2>4. PICK i \in 1..Len(log) :
          /\ log[i] = e
          /\ \A c \in Client :
               pc[c] = "listening" /\ joined[c] < i => StreamP!Holds(c, e)
    BY <2>2 DEF StreamP!AnnouncedToAll
  <2>5. QED
    BY <2>3, <2>4
<1>2. StreamP!Spec => []StreamP!AnnouncedToAll
  BY StreamAssumed, StreamP!Announced
<1>3. QED
  BY <1>1, <1>2, Announcer, Parts, SameStream, PTL

----------------------------------------------------------------------------
(* What is proved of the parts, of the whole                               *)

\* Beside subscribers that stream, broadcasts and the forwarder, too, there is
\* at most one polling thread, libddcutil is entered under the mutex only, and
\* a worker caught in stop_polling keeps the mutex.
THEOREM StateInWhole ==
    Spec => /\ [](Service!AtMostOnePoller /\ Service!LockedLibraryAccess)
            /\ [][\A c \in Client : cpc[c] = "stop_polling" => lock' = c]_vars
<1>1. StateP!AtMostOnePoller => Service!AtMostOnePoller
  BY DEF StateP!AtMostOnePoller, Service!AtMostOnePoller
<1>2. StateP!LockedLibraryAccess => Service!LockedLibraryAccess
  BY DEF StateP!LockedLibraryAccess, Service!LockedLibraryAccess
<1>3. StateP!Spec => []StateP!AtMostOnePoller /\ []StateP!LockedLibraryAccess
  BY StateAssumed, StateP!OnePoller, StateP!LibraryLocked
<1>. DEFINE Stuck == \A c \in Client : cpc[c] = "stop_polling" => lock' = c
<1>4. Service!GuardMatchesSection /\ [Next]_vars => [Stuck]_vars
  <2>. SUFFICES ASSUME Service!GuardMatchesSection, Next,
                       NEW d \in Client, cpc[d] = "stop_polling"
                PROVE  lock' = d
    OBVIOUS
  <2>1. lock = d /\ lock # None /\ d \notin Poller
        /\ \A t \in Client \cup Poller : Service!InCritical(t) => t = d
    BY VarlinkAssumption DEF Service!GuardMatchesSection, Service!InCritical
  <2>2. Service!Next \/ UNCHANGED Service!vars
    BY StateStep
  <2>3. ASSUME NEW c \in Client, Service!Request(c) \/ Service!EndStream(c)
        PROVE  lock' = d
    BY <2>1, <2>3 DEF Service!Request, Service!CallDdc, Service!CallRead,
       Service!CallSetInterval, Service!CallSubscribe, Service!EndStream
  <2>4. ASSUME NEW c \in Client, Service!Acquire(c) PROVE FALSE
    BY <2>1, <2>4 DEF Service!Acquire, Service!EnterLib, Service!ReadSetting,
       Service!StoreInterval, Service!StartPolling, Service!SetEventsEnabled,
       Service!Lock
  <2>5. ASSUME NEW c \in Client, Service!Finish(c) PROVE FALSE
    BY <2>1, <2>5 DEF Service!Finish, Service!LeaveLib, Service!Reply,
       Service!StartWatch, Service!InCritical
  <2>6. ASSUME NEW p \in Poller, Service!PollConfig(p) \/ Service!PollScanned(p)
        PROVE  FALSE
    BY <2>1, <2>6, VarlinkAssumption
    DEF Service!PollConfig, Service!PollScanned, Service!Unlock
  <2>7. CASE \/ \E p \in Poller : Service!PollWake(p)
             \/ Service!NativeEvent \/ Service!NativeDone
             \/ UNCHANGED Service!vars
    BY <2>1, <2>7 DEF Service!PollWake, Service!NativeEvent,
       Service!NativeDone, Service!vars
  <2>8. QED
    BY <2>2, <2>3, <2>4, <2>5, <2>6, <2>7 DEF Service!Next
<1>. HIDE DEF Stuck
<1>5. Spec => [][Stuck]_vars
  BY <1>4, FromParts, PTL DEF Spec
<1>6. Spec => [](Service!AtMostOnePoller /\ Service!LockedLibraryAccess)
  BY <1>1, <1>2, <1>3, Parts, SameState, PTL
<1>7. QED
  BY <1>5, <1>6 DEF Stuck

\* Whatever the state mutex and the callers of SetVcp do to it, the event path
\* keeps its promise to subscribers: no gap, duplicate or reordering, hardware
\* events in the order of their occurrence, one order of events for all
\* subscribers, and EventStream behind it.
THEOREM StreamInWhole ==
    Spec => /\ [](Events!GapFree /\ Events!HwInOrder /\ Events!NeverSeesClose)
            /\ []StreamP!SameOrder
            /\ StreamP!ImplementsEventStream
<1>1. StreamP!GapFree => Events!GapFree
  BY DEF StreamP!GapFree, Events!GapFree, StreamP!Segment, Events!Segment,
     StreamP!Reach, Events!Reach, StreamP!Registered, Events!Registered,
     StreamP!Delivered, Events!Delivered, StreamP!Started, Events!Started,
     StreamP!ConvertInternalEvent, Events!ConvertInternalEvent
<1>2. StreamP!HwInOrder => Events!HwInOrder
  BY DEF StreamP!HwInOrder, Events!HwInOrder, StreamP!Logged, Events!Logged,
     StreamP!Passed, Events!Passed, StreamP!Carried, Events!Carried
<1>3. StreamP!NeverSeesClose => Events!NeverSeesClose
  BY DEF StreamP!NeverSeesClose, Events!NeverSeesClose, StreamP!Closed,
     Events!Closed
<1>4. StreamP!Spec => []StreamP!GapFree
  BY StreamAssumed, StreamP!NoGaps
<1>5. StreamP!Spec => []StreamP!HwInOrder
  BY StreamAssumed, StreamP!HardwareOrder
<1>6. StreamP!Spec => []StreamP!NeverSeesClose
  BY StreamAssumed, StreamP!CloseUnseen
<1>7. StreamP!Spec => StreamP!ImplementsEventStream
  BY StreamAssumed, StreamP!Refinement
<1>8. StreamP!Spec => []StreamP!SameOrder
  BY StreamAssumed, StreamP!OneOrder
<1>9. QED
  BY <1>1, <1>2, <1>3, <1>4, <1>5, <1>6, <1>7, <1>8, Parts, SameStream, PTL

----------------------------------------------------------------------------
(* Two mutexes and two orders                                              *)

\* Subscriptions lets a SetVcp begin its broadcast only when none is under way.
\* That is no restriction: a SetVcp that is about to is inside the state mutex,
\* and so is the one that is broadcasting.
THEOREM HandIsFree ==
    Spec => [](\A c \in Client : cpc[c] = "ddc" => inhand["set_vcp"] = None)
<1>1. Service!GuardMatchesSection /\ AnnouncerInv
        => \A c \in Client : cpc[c] = "ddc" => inhand["set_vcp"] = None
  BY DEF Service!GuardMatchesSection, Service!InCritical, AnnouncerInv
<1>2. QED
  BY <1>1, FromParts, Announcer, PTL

\* The order of the writes is the order of their events: when a SetVcp has
\* written, every event of an earlier one has been broadcast.
THEOREM WrittenInOrder ==
    Spec => [][\A e \in VcpEvent : e \in raised' \ raised =>
                 \A d \in VcpEvent \cap raised :
                   \E i \in 1..Len(log) : log[i] = d]_vars
<1>. DEFINE Ordered == \A e \in VcpEvent : e \in raised' \ raised =>
                         \A d \in VcpEvent \cap raised :
                           \E i \in 1..Len(log) : log[i] = d
<1>1. StreamP!AnnouncedToAll /\ [Next]_vars => [Ordered]_vars
  <2>. SUFFICES ASSUME StreamP!AnnouncedToAll, Next,
                       NEW e \in VcpEvent, e \in raised' \ raised,
                       NEW d \in VcpEvent \cap raised
                PROVE  \E i \in 1..Len(log) : log[i] = d
    OBVIOUS
  <2>1. Events!Next \/ UNCHANGED Events!vars
    BY StreamStep
  <2>2. inhand["set_vcp"] = None
    <3>1. ASSUME NEW h \in HwEvent, Events!Emit(h) PROVE FALSE
      BY <3>1, VarlinkAssumption DEF Events!Emit
    <3>2. ASSUME NEW b \in Events!Broadcaster, Events!Broadcast(b) PROVE FALSE
      BY <3>2 DEF Events!Broadcast, Events!BeginBroadcast, Events!Offer,
         Events!EndBroadcast
    <3>3. ASSUME NEW c \in Client, Events!Worker(c) \/ Events!Disconnect(c)
          PROVE  FALSE
      BY <3>3 DEF Events!Worker, Events!StartSubscription, Events!AllocateId,
         Events!Register, Events!Forward, Events!Unsubscribe,
         Events!CloseStream, Events!Disconnect
    <3>4. CASE Events!FwdReceive \/ UNCHANGED Events!vars
      BY <3>4 DEF Events!FwdReceive, Events!vars
    <3>5. CASE \E v \in VcpEvent : Events!SetVcp(v)
      BY <3>5 DEF Events!SetVcp
    <3>6. QED
      BY <2>1, <3>1, <3>2, <3>3, <3>4, <3>5 DEF Events!Next
  <2>3. d # None
    BY VarlinkAssumption DEF Events!Event
  <2>4. QED
    BY <2>2, <2>3 DEF StreamP!AnnouncedToAll
<1>. HIDE DEF Ordered
<1>2. StreamP!Spec => []StreamP!AnnouncedToAll
  BY StreamAssumed, StreamP!Announced
<1>3. Spec => [][Ordered]_vars
  BY <1>1, <1>2, Parts, SameStream, PTL DEF Spec
<1>4. QED
  BY <1>3 DEF Ordered

\* The order of the two mutexes: whoever holds the mutex of the subscriber list
\* for SetVcp came with the state mutex, nobody who waits for the list as a
\* subscriber has the state mutex, and the forwarder, which has the list
\* without it, has an event to offer and nothing to wait for.  No wait for the
\* one closes a circle through the other.
THEOREM MutexOrder ==
    Spec => [](/\ \A c \in Client : pc[c] \notin {"new", "returned"} => lock # c
               /\ mutex = "set_vcp" => writing # None /\ lock = writing
               /\ mutex # None => inhand[mutex] # None)
<1>. DEFINE InOrder ==
              /\ \A c \in Client : pc[c] \notin {"new", "returned"} => lock # c
              /\ mutex = "set_vcp" => writing # None /\ lock = writing
              /\ mutex # None => inhand[mutex] # None
<1>1. Service!GuardMatchesSection /\ StreamingInv /\ AnnouncerInv
        /\ StreamP!CarriesEvent => InOrder
  <2>. SUFFICES ASSUME Service!GuardMatchesSection, StreamingInv, AnnouncerInv,
                       StreamP!CarriesEvent
                PROVE  InOrder
    OBVIOUS
  <2>1. "set_vcp" # None
    BY VarlinkAssumption DEF Events!Broadcaster
  <2>2. \A c \in Client : pc[c] \notin {"new", "returned"} => lock # c
    BY DEF StreamingInv, Service!GuardMatchesSection, Service!InCritical
  <2>3. mutex # None => inhand[mutex] # None
    BY DEF StreamP!CarriesEvent
  <2>4. mutex = "set_vcp" => writing # None /\ lock = writing
    BY <2>1, <2>3 DEF AnnouncerInv
  <2>5. QED
    BY <2>2, <2>3, <2>4
<1>2. StreamP!Spec => [](StreamP!TypeOK /\ StreamP!CarriesEvent)
  BY StreamAssumed, StreamP!TypesAndHand
<1>. HIDE DEF InOrder
<1>3. Init => StreamingInv
  BY DEF Init, Events!Init, StreamingInv
<1>4. Spec => []InOrder
  BY <1>1, <1>2, <1>3, StreamingStep, FromParts, Announcer, Parts, SameStream,
     PTL DEF Spec
<1>5. QED
  BY <1>4 DEF InOrder

\* The guards of the steps with which the holder t of the state mutex gets on:
\* a scan ends, libddcutil returns, a reply is written to a client that reads
\* it or has gone, and an event is broadcast, for which t needs the list.
GoesOn(t) ==
    \/ t \in Poller /\ ppc[t] = "scanning"
    \/ t \in Client /\ cpc[t] \in {"ddc", "start_watch"}
    \/ /\ t \in Client /\ cpc[t] = "replying"
       /\ writing # t
       /\ Events!ReplyCompletes(t)
    \/ /\ t \in Client /\ cpc[t] = "replying"
       /\ writing = t /\ inhand["set_vcp"] # None
       /\ mutex \in {None, "set_vcp"}

\* The same of the forwarder, when it has the list: it offers its event, or is
\* through with it.
ForwarderGoesOn == mutex = "forwarder" /\ inhand["forwarder"] # None

\* Threads that wait for the state mutex wait for somebody who goes on, or for
\* the forwarder that does: with two exceptions, a worker that has locked the
\* mutex against itself in stop_polling, and a reply that its client leaves
\* unread.  As long as libddcutil returns, there is no third way to keep the
\* mutex for good, and the two mutexes never close a circle.
THEOREM TwoHalts ==
    Spec => [](lock # None =>
                 \/ GoesOn(lock)
                 \/ ForwarderGoesOn
                 \/ lock \in Client /\ cpc[lock] = "stop_polling"
                 \/ lock \in Client /\ Stalled(lock))
<1>. DEFINE Halts == lock # None =>
              \/ GoesOn(lock)
              \/ ForwarderGoesOn
              \/ lock \in Client /\ cpc[lock] = "stop_polling"
              \/ lock \in Client /\ Stalled(lock)
<1>1. Service!TypeOK /\ Service!GuardMatchesSection /\ Events!TypeOK
        /\ AnnouncerInv /\ StreamP!CarriesEvent => Halts
  <2>. SUFFICES ASSUME Service!TypeOK, Service!GuardMatchesSection,
                       Events!TypeOK, AnnouncerInv, StreamP!CarriesEvent,
                       lock # None
                PROVE  \/ GoesOn(lock)
                       \/ ForwarderGoesOn
                       \/ lock \in Client /\ cpc[lock] = "stop_polling"
                       \/ lock \in Client /\ Stalled(lock)
    OBVIOUS
  <2>1. lock \in Client \cup Poller /\ Service!InCritical(lock)
    BY DEF Service!TypeOK, Service!GuardMatchesSection
  <2>2. CASE lock \notin Client
    BY <2>1, <2>2 DEF Service!InCritical, GoesOn
  <2>3. CASE lock \in Client /\ cpc[lock] # "replying"
    BY <2>1, <2>3 DEF Service!InCritical, GoesOn
  <2>4. CASE lock \in Client /\ cpc[lock] = "replying" /\ writing # lock
    BY <2>4 DEF GoesOn, Stalled, Events!ReplyCompletes
  <2>5. CASE lock \in Client /\ cpc[lock] = "replying" /\ writing = lock
    <3>1. inhand["set_vcp"] # None
      BY <2>5 DEF AnnouncerInv
    <3>2. mutex \in {None, "set_vcp", "forwarder"}
      BY DEF Events!TypeOK, Events!Broadcaster
    <3>3. mutex # None => inhand[mutex] # None
      BY DEF StreamP!CarriesEvent
    <3>4. mutex = "forwarder" => ForwarderGoesOn
      <4>1. "forwarder" # None
        BY VarlinkAssumption DEF Events!Broadcaster
      <4>2. QED
        BY <3>3, <4>1 DEF ForwarderGoesOn
    <3>5. QED
      BY <2>5, <3>1, <3>2, <3>4 DEF GoesOn
  <2>6. QED
    BY <2>2, <2>3, <2>4, <2>5
<1>2. StreamP!Spec => [](StreamP!TypeOK /\ StreamP!CarriesEvent)
  BY StreamAssumed, StreamP!TypesAndHand
<1>. HIDE DEF Halts
<1>3. Spec => []Halts
  BY <1>1, <1>2, FromParts, Announcer, Parts, SameStream, PTL
<1>4. QED
  BY <1>3 DEF Halts
===============================================================================
