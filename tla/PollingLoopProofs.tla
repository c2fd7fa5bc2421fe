-------------------------- MODULE PollingLoopProofs --------------------------
(***************************************************************************)
(* The safety properties of PollingLoop for any displays and EDIDs, any    *)
(* number of changes and any number of failures.                           *)
(*                                                                         *)
(* MirrorsLastScan speaks of the moments between two rounds of sending.    *)
(* The induction needs the moments in between as well: while events are    *)
(* being sent, a client agrees with the new map on the EDIDs whose event   *)
(* has been sent (or that have none), and with the old map on the others.  *)
(* EventsAreNews follows from the same invariant.                          *)
(***************************************************************************)
EXTENDS PollingLoop, TLAPS

Pending(e) == \E ev \in outbox : ev.edid = e

SendingInv ==
    /\ ppc # "sending" => outbox = {}
    /\ ppc = "sending" =>
         /\ outbox \subseteq Differences
         /\ initializing => outbox = {}
         /\ \A e \in Edid :
              IF Pending(e) THEN Agrees(mirror, previous, e)
                            ELSE Agrees(mirror, current, e)

MirrorInv == MirrorsLastScan /\ SendingInv

\* A callback comes only with the watch that enabling events has started, and
\* from a listing on to the end of the sleep its wake-up is on record.
WakeUpInv ==
    /\ ~eventsEnabled => ~callbackDue /\ ~announced
    /\ ppc # "top" /\ announced => needPoll \/ failed

----------------------------------------------------------------------------
\* The differences are events with the type of an InternalEvent.
LEMMA DifferencesType ==
    ASSUME current \in [Edid -> Seen], previous \in [Edid -> Seen]
    PROVE  Differences \subseteq InternalEvent
BY DEF Differences, InternalEvent, Lost, NewlyDetected, DpmsChanged, Keys,
       Hotplug, Dpms

\* The type invariant.
THEOREM Typing == Spec => []TypeOK
<1>1. Init => TypeOK
  <2>1. NoStates \in [Edid -> Seen] /\ NoStates \in [Edid -> Seen \cup {"unknown"}]
    BY DEF NoStates, Seen
  <2>2. Present \subseteq Display
    BY DEF Present
  <2>3. 0 \in Nat
    OBVIOUS
  <2>4. QED
    BY <2>1, <2>2, <2>3, Zenon DEF Init, TypeOK
<1>2. TypeOK /\ [Next]_vars => TypeOK'
  <2>. SUFFICES ASSUME TypeOK, [Next]_vars PROVE TypeOK'
    OBVIOUS
  <2>. USE PollingAssumption DEF TypeOK, env, history
  <2>1. ASSUME NEW d \in Display, NEW w \in Power, ChangePower(d, w)
        PROVE TypeOK'
    BY <2>1 DEF ChangePower
  <2>2. CASE WatchUpdate \/ ClientDetect
    BY <2>2 DEF WatchUpdate, ClientDetect, Present
  <2>3. CASE NativeCallback \/ EnableEvents
    BY <2>3 DEF NativeCallback, EnableEvents
  <2>4. CASE SkipDisabled
    BY <2>4 DEF SkipDisabled
  <2>5. Redetected \subseteq Display
    BY DEF Redetected, Present
  <2>6. CASE ListDisplays
    <3>1. NoStates \in [Edid -> Seen]
      BY DEF NoStates, Seen
    <3>2. QED
      BY <2>5, <2>6, <3>1 DEF ListDisplays
  <2>7. CASE ListFails
    BY <2>5, <2>7 DEF ListFails
  <2>8. CASE Probe
    <3>1. PICK d \in todo :
            /\ todo' = todo \ {d}
            /\ \/ /\ current' = [current EXCEPT ![EdidOf[d]] =
                        IF Answers(d) /\ IsDpmsAwake(d) THEN "awake"
                                                        ELSE "asleep"]
                  /\ UNCHANGED faults
               \/ /\ faults' = faults + 1
                  /\ current' = [current EXCEPT ![EdidOf[d]] = "asleep"]
      BY <2>8, Zenon DEF Probe
    <3>2. current' \in [Edid -> Seen]
      BY <3>1 DEF Seen
    <3>3. faults' \in Nat /\ todo' \subseteq Display
      BY <3>1
    <3>4. QED
      BY <2>8, <3>2, <3>3 DEF Probe
  <2>9. CASE CompareStates
    <3>1. outbox' \subseteq InternalEvent
      BY <2>9, DifferencesType DEF CompareStates
    <3>2. mirror' \in [Edid -> Seen \cup {"unknown"}]
      BY <2>9 DEF CompareStates
    <3>3. QED
      BY <2>9, <3>1, <3>2 DEF CompareStates
  <2>10. ASSUME NEW ev \in outbox, SendEvent(ev) PROVE TypeOK'
    <3>1. mirror' \in [Edid -> Seen \cup {"unknown"}]
      BY <2>10 DEF SendEvent, Applied, InternalEvent, Seen
    <3>2. QED
      BY <2>10, <3>1 DEF SendEvent
  <2>11. CASE KeepStates \/ Wake
    BY <2>11 DEF KeepStates, Wake
  <2>12. CASE UNCHANGED vars
    BY <2>12 DEF vars
  <2>13. QED
    BY <2>1, <2>2, <2>3, <2>4, <2>6, <2>7, <2>8, <2>9, <2>10, <2>11, <2>12
       DEF Next, Poll
<1>3. QED
  BY <1>1, <1>2, PTL DEF Spec

----------------------------------------------------------------------------
(* What the clients know                                                   *)

\* What the differences say of an EDID: at most one event, and none means that
\* both maps hold the same.
LEMMA DifferenceOf ==
    ASSUME TypeOK, NEW e \in Edid
    PROVE  /\ \A ev \in Differences : ev.edid = e =>
                /\ ev.type = "DisplayDisconnected" =>
                     previous[e] # "none" /\ current[e] = "none"
                /\ ev.type = "DisplayConnected" =>
                     previous[e] = "none" /\ current[e] # "none"
                /\ ev.type \notin Hotplug =>
                     /\ previous[e] # "none"
                     /\ previous[e] # current[e]
                     /\ current[e] \in {"awake", "asleep"}
                     /\ Applied(ev) = current[e]
           /\ \A ev, other \in Differences :
                ev.edid = e /\ other.edid = e => ev = other
           /\ (\A ev \in Differences : ev.edid # e) => previous[e] = current[e]
<1>. /\ previous[e] \in Seen
     /\ current[e] \in Seen
  BY DEF TypeOK
<1>. USE DEF Lost, NewlyDetected, DpmsChanged, Keys, Seen
<1>1. ASSUME NEW ev \in Differences, ev.edid = e
      PROVE \/ /\ ev = [type |-> "DisplayDisconnected", edid |-> e]
               /\ previous[e] # "none" /\ current[e] = "none"
            \/ /\ ev = [type |-> "DisplayConnected", edid |-> e]
               /\ previous[e] = "none" /\ current[e] # "none"
            \/ /\ ev = [type |-> IF current[e] = "awake" THEN "DpmsAwake"
                                                         ELSE "DpmsAsleep",
                        edid |-> e]
               /\ previous[e] # "none" /\ current[e] # "none"
               /\ previous[e] # current[e]
  BY <1>1 DEF Differences
<1>2. \A ev \in Differences : ev.edid = e =>
        /\ ev.type = "DisplayDisconnected" =>
             previous[e] # "none" /\ current[e] = "none"
        /\ ev.type = "DisplayConnected" =>
             previous[e] = "none" /\ current[e] # "none"
        /\ ev.type \notin Hotplug =>
             /\ previous[e] # "none"
             /\ previous[e] # current[e]
             /\ current[e] \in {"awake", "asleep"}
             /\ Applied(ev) = current[e]
  BY <1>1 DEF Hotplug, Applied
<1>3. \A ev, other \in Differences :
        ev.edid = e /\ other.edid = e => ev = other
  BY <1>1
<1>4. (\A ev \in Differences : ev.edid # e) => previous[e] = current[e]
  <2>1. /\ e \in Lost => [type |-> "DisplayDisconnected", edid |-> e]
                           \in Differences
        /\ e \in NewlyDetected => [type |-> "DisplayConnected", edid |-> e]
                                    \in Differences
        /\ e \in DpmsChanged =>
             [type |-> IF current[e] = "awake" THEN "DpmsAwake"
                                               ELSE "DpmsAsleep",
              edid |-> e] \in Differences
    BY DEF Differences
  <2>2. previous[e] # current[e] =>
          e \in Lost \/ e \in NewlyDetected \/ e \in DpmsChanged
    OBVIOUS
  <2>3. QED
    BY <2>1, <2>2
<1>5. QED
  BY <1>2, <1>3, <1>4

\* One event sent moves a client from the old map to the new one on its EDID.
LEMMA SendStep ==
    ASSUME TypeOK, MirrorInv, NEW ev \in outbox, SendEvent(ev)
    PROVE  MirrorInv'
<1>1. /\ ppc = "sending"
      /\ ppc' = "sending"
      /\ outbox' = outbox \ {ev}
      /\ mirror' = [mirror EXCEPT ![ev.edid] = Applied(ev)]
      /\ UNCHANGED <<current, previous, initializing>>
  BY DEF SendEvent
<1>2. /\ outbox \subseteq Differences
      /\ ~initializing
      /\ ev.edid \in Edid
      /\ DOMAIN mirror = Edid
  BY <1>1 DEF MirrorInv, SendingInv, TypeOK, InternalEvent
<1>3. Differences' = Differences
  BY <1>1 DEF Differences, Lost, NewlyDetected, DpmsChanged, Keys
<1>4. ASSUME NEW e \in Edid
      PROVE IF Pending(e)' THEN Agrees(mirror, previous, e)'
                           ELSE Agrees(mirror, current, e)'
  <2>1. CASE e = ev.edid
    <3>1. ~Pending(e)'
      BY <1>1, <1>2, <2>1, DifferenceOf DEF Pending
    <3>2. Agrees(mirror, current, e)'
      <4>1. mirror'[e] = Applied(ev)
        BY <1>1, <1>2, <2>1
      <4>2. CASE ev.type = "DisplayDisconnected"
        BY <1>1, <1>2, <2>1, <4>1, <4>2, DifferenceOf DEF Agrees, Applied
      <4>3. CASE ev.type = "DisplayConnected"
        BY <1>1, <1>2, <2>1, <4>1, <4>3, DifferenceOf DEF Agrees, Applied
      <4>4. CASE ev.type \notin Hotplug
        BY <1>1, <1>2, <2>1, <4>1, <4>4, DifferenceOf DEF Agrees
      <4>5. QED
        BY <4>2, <4>3, <4>4 DEF Hotplug
    <3>3. QED
      BY <3>1, <3>2
  <2>2. CASE e # ev.edid
    <3>1. mirror'[e] = mirror[e]
      BY <1>1, <2>2, <1>2
    <3>2. Pending(e)' <=> Pending(e)
      BY <1>1, <2>2 DEF Pending
    <3>3. QED
      BY <1>1, <3>1, <3>2 DEF MirrorInv, SendingInv, Agrees
  <2>3. QED
    BY <2>1, <2>2
<1>5. QED
  BY <1>1, <1>2, <1>3, <1>4 DEF MirrorInv, SendingInv, MirrorsLastScan

\* The comparison leaves exactly the EDIDs with an event to be caught up with.
LEMMA CompareStep ==
    ASSUME TypeOK, MirrorInv, CompareStates
    PROVE  MirrorInv'
<1>1. /\ ppc = "probing"
      /\ ppc' = "sending"
      /\ outbox' = IF initializing THEN {} ELSE Differences
      /\ mirror' = IF initializing THEN current ELSE mirror
      /\ UNCHANGED <<current, previous, initializing>>
  BY DEF CompareStates
<1>2. Differences' = Differences
  BY <1>1 DEF Differences, Lost, NewlyDetected, DpmsChanged, Keys
<1>3. CASE initializing
  BY <1>1, <1>2, <1>3 DEF MirrorInv, SendingInv, MirrorsLastScan, Pending,
                          Agrees
<1>4. CASE ~initializing
  <2>1. \A e \in Edid : Agrees(mirror, previous, e)
    BY <1>1, <1>4 DEF MirrorInv, MirrorsLastScan
  <2>2. ASSUME NEW e \in Edid
        PROVE IF Pending(e)' THEN Agrees(mirror, previous, e)'
                             ELSE Agrees(mirror, current, e)'
    <3>1. CASE Pending(e)'
      BY <1>1, <1>4, <2>1, <3>1 DEF Agrees
    <3>2. CASE ~Pending(e)'
      <4>1. previous[e] = current[e]
        BY <1>1, <1>4, <3>2, DifferenceOf DEF Pending
      <4>2. QED
        BY <1>1, <1>4, <2>1, <3>2, <4>1 DEF Agrees
    <3>3. QED
      BY <3>1, <3>2
  <2>3. QED
    BY <1>1, <1>2, <1>4, <2>2 DEF MirrorInv, SendingInv, MirrorsLastScan
<1>5. QED
  BY <1>3, <1>4

\* What holds of a client's map while events are sent is invariant.
LEMMA Mirrors == Spec => []MirrorInv
<1>1. Init => MirrorInv
  BY DEF Init, MirrorInv, MirrorsLastScan, SendingInv
<1>2. TypeOK /\ MirrorInv /\ [Next]_vars => MirrorInv'
  <2>. SUFFICES ASSUME TypeOK, MirrorInv, [Next]_vars PROVE MirrorInv'
    OBVIOUS
  <2>1. CASE KeepStates
    <3>1. \A e \in Edid : Agrees(mirror, current, e)
      BY <2>1 DEF KeepStates, MirrorInv, SendingInv, Pending
    <3>2. QED
      BY <2>1, <3>1 DEF KeepStates, MirrorInv, SendingInv, MirrorsLastScan,
                        Agrees, history
  <2>2. CASE SkipDisabled \/ ListDisplays \/ ListFails \/ Probe \/ Wake
    <3>1. /\ ppc # "sending"
          /\ ppc' # "sending"
          /\ UNCHANGED <<outbox, mirror, previous, initializing>>
      BY <2>2 DEF SkipDisabled, ListDisplays, ListFails, Probe, Wake, history
    <3>2. QED
      BY <3>1 DEF MirrorInv, SendingInv, MirrorsLastScan, Agrees
  <2>3. CASE UNCHANGED <<ppc, outbox, mirror, previous, current, initializing>>
    BY <2>3 DEF MirrorInv, SendingInv, MirrorsLastScan, Agrees, Pending,
       Differences, Lost, NewlyDetected, DpmsChanged, Keys
  <2>4. QED
    BY <2>1, <2>2, <2>3, SendStep, CompareStep DEF Next, Poll, ChangePower,
       WatchUpdate, NativeCallback, ClientDetect, EnableEvents, history, vars
<1>3. QED
  BY <1>1, <1>2, Typing, PTL DEF Spec

\* Between two rounds of sending, a client that applied every event knows what
\* the loop found in its last scan.
THEOREM MirrorCorrect == Spec => []MirrorsLastScan
BY Mirrors, PTL DEF MirrorInv

\* No event tells a client what it knows already.
THEOREM NoStaleEvent == Spec => EventsAreNews
<1>. DEFINE News(ev) ==
       CASE ev.type = "DisplayConnected" -> mirror[ev.edid] = "none"
         [] ev.type = "DisplayDisconnected" -> mirror[ev.edid] # "none"
         [] OTHER -> /\ mirror[ev.edid] # "none"
                     /\ mirror[ev.edid] # Applied(ev)
<1>1. TypeOK /\ MirrorInv => \A ev \in outbox : SendEvent(ev) => News(ev)
  <2>. SUFFICES ASSUME TypeOK, MirrorInv, NEW ev \in outbox, SendEvent(ev)
                PROVE News(ev)
    OBVIOUS
  <2>1. /\ ev \in Differences
        /\ ev.edid \in Edid
        /\ Agrees(mirror, previous, ev.edid)
    BY DEF SendEvent, MirrorInv, SendingInv, Pending, TypeOK, InternalEvent
  <2>2. QED
    BY <2>1, DifferenceOf DEF Agrees, Hotplug
<1>2. QED
  BY <1>1, Typing, Mirrors, PTL DEF Spec, EventsAreNews

----------------------------------------------------------------------------
\* A wake-up from the native callback survives until a scan has answered it.
THEOREM WakeUpKept == Spec => []WakeUpIsKept
<1>1. Init => WakeUpInv
  BY DEF Init, WakeUpInv
<1>2. WakeUpInv /\ [Next]_vars => WakeUpInv'
  BY DEF WakeUpInv, Next, Poll, ChangePower, WatchUpdate, NativeCallback,
     ClientDetect, EnableEvents, SkipDisabled, ListDisplays, ListFails, Probe,
     CompareStates, SendEvent, KeepStates, Wake, env, history, vars
<1>3. WakeUpInv => WakeUpIsKept
  BY DEF WakeUpInv, WakeUpIsKept
<1>4. QED
  BY <1>1, <1>2, <1>3, PTL DEF Spec
==============================================================================
