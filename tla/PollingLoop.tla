----------------------------- MODULE PollingLoop -----------------------------
(***************************************************************************)
(* polling_loop: the thread that lists the displays, asks each one whether *)
(* it is awake, compares what it found with what it found the time before, *)
(* and sends an event for every difference.  Displays come, go, sleep and  *)
(* wake at any moment, also in the middle of a scan.  libddcutil learns of *)
(* a connection change through its own watch, or when it is asked to       *)
(* detect again, which the loop does on every round if                     *)
(* DDCUTIL_POLL_DO_REDETECT is set.  The two maps of the loop are keyed by *)
(* EDID, which two displays may share.                                     *)
(*                                                                         *)
(* The mutex that covers a scan is in module ServiceState; here it shows   *)
(* as ClientDetect being excluded while a scan is under way.               *)
(***************************************************************************)
EXTENDS Naturals, FiniteSets

CONSTANTS Display,     \* display numbers; libddcutil lists in this order
          Edid,
          EdidOf,      \* the EDID of each display
          Modes,       \* ways to learn of hotplugging: records [redetect, watch]
          MaxChanges,  \* bound on what happens to the displays
          MaxFaults    \* bound on failures of calls of libddcutil

ASSUME PollingAssumption ==
    /\ Display \subseteq Nat
    /\ EdidOf \in [Display -> Edid]
    /\ Modes \subseteq [redetect : BOOLEAN, watch : BOOLEAN]
    /\ MaxChanges \in Nat
    /\ MaxFaults \in Nat

\* A display in standby still answers DDC queries; a silent one does not.
Power == {"absent", "on", "standby", "silent"}

\* What a map of the loop holds for an EDID ("none": the EDID is no key of it).
Seen == {"none", "awake", "asleep"}

Hotplug == {"DisplayConnected", "DisplayDisconnected"}
Dpms == {"DpmsAwake", "DpmsAsleep"}
InternalEvent == [type : Hotplug \cup Dpms, edid : Edid]

VARIABLES
    mode,          \* redetect: poll_do_redetect, from the environment
                   \* variable; watch: libddcutil's own watch works here
    power,         \* the displays themselves
    detected,      \* the displays on libddcutil's list
    callbackDue,   \* libddcutil has a change to report through the callback
    needPoll,      \* NEED_POLL
    eventsEnabled, \* events_enabled
    ppc,           \* where the polling thread is
    todo,          \* the listed displays that are still to be asked
    current,       \* current_states
    previous,      \* previous_states
    initializing,  \* TRUE until the first scan has been kept
    outbox,        \* the events this comparison has still to send
    \* Bounds:
    changes, faults,
    \* History variables:
    mirror,        \* what a client knows that applies each event it gets
    announced,     \* the callback has asked for a poll since the last listing
    failed         \* the last listing failed

env == <<mode, power, detected, callbackDue, changes>>
history == <<mirror, announced, failed>>
vars == <<mode, power, detected, callbackDue, needPoll, eventsEnabled, ppc, todo,
          current, previous, initializing, outbox, changes, faults,
          mirror, announced, failed>>

Present == {d \in Display : power[d] # "absent"}
NoStates == [e \in Edid |-> "none"]
Keys(states) == {e \in Edid : states[e] # "none"}

Init ==
    /\ mode \in Modes
    /\ power \in [Display -> Power]
    /\ detected = Present
    /\ callbackDue = FALSE
    /\ needPoll = FALSE
    /\ eventsEnabled = FALSE
    /\ ppc = "top"
    /\ todo = {}
    /\ current = NoStates
    /\ previous = NoStates
    /\ initializing = TRUE
    /\ outbox = {}
    /\ changes = 0
    /\ faults = 0
    /\ mirror = NoStates
    /\ announced = FALSE
    /\ failed = FALSE

----------------------------------------------------------------------------
(* Slips.  Each operator here stands in for one definition below when the  *)
(* properties are tried out on it; the specification uses none of them.    *)

\* The listing reduced to EDIDs, as the maps are; the listing never refreshed.
ListedEdids == {EdidOf[d] : d \in detected}
NeverRedetected == detected

\* Disconnections not compared; DPMS changes reported in one direction only.
NothingLost == {}
FallenAsleep == {e \in Keys(previous) \cap Keys(current) :
                   previous[e] = "awake" /\ current[e] = "asleep"}

\* The states of the first scan kept for good.
KeepStatesOnce ==
    /\ ppc = "sending"
    /\ outbox = {}
    /\ previous' = IF initializing THEN current ELSE previous
    /\ initializing' = FALSE
    /\ ppc' = "sleeping"
    /\ UNCHANGED <<env, needPoll, eventsEnabled, todo, current, outbox,
                   faults, history>>

\* NEED_POLL cleared when the sleep begins, not when it ends.
KeepStatesClearing ==
    /\ ppc = "sending"
    /\ outbox = {}
    /\ previous' = current
    /\ initializing' = FALSE
    /\ needPoll' = FALSE
    /\ ppc' = "sleeping"
    /\ UNCHANGED <<env, eventsEnabled, todo, current, outbox, faults, history>>

----------------------------------------------------------------------------
(* Displays, libddcutil and the other threads                              *)

ChangePower(d, w) ==
    /\ changes < MaxChanges
    /\ power[d] # w
    /\ power' = [power EXCEPT ![d] = w]
    /\ changes' = changes + 1
    /\ UNCHANGED <<mode, detected, callbackDue, needPoll, eventsEnabled, ppc, todo,
                   current, previous, initializing, outbox, faults, history>>

\* libddcutil's watch thread brings its list up to date.
WatchUpdate ==
    /\ mode.watch
    /\ eventsEnabled
    /\ detected # Present
    /\ detected' = Present
    /\ callbackDue' = TRUE
    /\ UNCHANGED <<mode, power, needPoll, eventsEnabled, ppc, todo, current,
                   previous, initializing, outbox, changes, faults, history>>

\* build_event_from_ddca_event, for the connection and DPMS event types.
NativeCallback ==
    /\ callbackDue
    /\ callbackDue' = FALSE
    /\ needPoll' = TRUE
    /\ announced' = TRUE
    /\ UNCHANGED <<mode, power, detected, eventsEnabled, ppc, todo, current,
                   previous, initializing, outbox, changes, faults, mirror,
                   failed>>

\* A client calls Detect: ddca_redetect_displays, under the state mutex.
ClientDetect ==
    /\ ppc # "probing"
    /\ detected # Present
    /\ detected' = Present
    /\ UNCHANGED <<mode, power, callbackDue, needPoll, eventsEnabled, ppc, todo,
                   current, previous, initializing, outbox, changes, faults,
                   history>>

\* Subscribe starts the thread first and enables events afterwards.
EnableEvents ==
    /\ ~eventsEnabled
    /\ eventsEnabled' = TRUE
    /\ UNCHANGED <<env, needPoll, ppc, todo, current, previous, initializing,
                   outbox, faults, history>>

----------------------------------------------------------------------------
(* The loop                                                                *)

SkipDisabled ==
    /\ ppc = "top"
    /\ ~eventsEnabled
    /\ ppc' = "sleeping"
    /\ UNCHANGED <<env, needPoll, eventsEnabled, todo, current, previous,
                   initializing, outbox, faults, history>>

Redetected == IF mode.redetect THEN Present ELSE detected

ListDisplays ==
    /\ ppc = "top"
    /\ eventsEnabled
    /\ detected' = Redetected
    /\ todo' = Redetected
    /\ current' = NoStates
    /\ ppc' = "probing"
    /\ announced' = FALSE
    /\ failed' = FALSE
    /\ UNCHANGED <<mode, power, callbackDue, changes, needPoll, eventsEnabled,
                   previous, initializing, outbox, faults, mirror>>

\* redetect or get_display_info_list fails: give up until the next round.
ListFails ==
    /\ ppc = "top"
    /\ eventsEnabled
    /\ faults < MaxFaults
    /\ faults' = faults + 1
    /\ detected' \in {detected, Redetected}
    /\ failed' = TRUE
    /\ ppc' = "sleeping"
    /\ UNCHANGED <<mode, power, callbackDue, changes, needPoll, eventsEnabled, todo,
                   current, previous, initializing, outbox, mirror, announced>>

\* is_dpms_awake reads VCP feature D6 and takes any value but 0 for awake: a
\* display in standby answers 4 (off), one that does not answer is an error.
Answers(d) == power[d] \in {"on", "standby"}
DpmsValue(d) == IF power[d] = "on" THEN 1 ELSE 4
IsDpmsAwake(d) == DpmsValue(d) # 0

\* Ask the next display on the list; a failed query counts as asleep, and the
\* last display with an EDID is the one the map keeps.
Probe ==
    /\ ppc = "probing"
    /\ \E d \in todo :
         /\ \A other \in todo : d <= other
         /\ todo' = todo \ {d}
         /\ \/ /\ current' = [current EXCEPT ![EdidOf[d]] =
                     IF Answers(d) /\ IsDpmsAwake(d) THEN "awake" ELSE "asleep"]
               /\ UNCHANGED faults
            \/ /\ faults < MaxFaults
               /\ faults' = faults + 1
               /\ current' = [current EXCEPT ![EdidOf[d]] = "asleep"]
    /\ UNCHANGED <<env, needPoll, eventsEnabled, ppc, previous, initializing,
                   outbox, history>>

Lost == Keys(previous) \ Keys(current)
NewlyDetected == Keys(current) \ Keys(previous)
DpmsChanged == {e \in Keys(previous) \cap Keys(current) :
                  previous[e] # current[e]}

Differences ==
    {[type |-> "DisplayDisconnected", edid |-> e] : e \in Lost}
      \cup {[type |-> "DisplayConnected", edid |-> e] : e \in NewlyDetected}
      \cup {[type |-> IF current[e] = "awake" THEN "DpmsAwake"
                                               ELSE "DpmsAsleep",
             edid |-> e] : e \in DpmsChanged}

\* The first scan only sets the baseline, which is what a client that lists
\* the displays at that moment knows.
CompareStates ==
    /\ ppc = "probing"
    /\ todo = {}
    /\ ppc' = "sending"
    /\ outbox' = IF initializing THEN {} ELSE Differences
    /\ mirror' = IF initializing THEN current ELSE mirror
    /\ UNCHANGED <<env, needPoll, eventsEnabled, todo, current, previous,
                   initializing, faults, announced, failed>>

Rank(ev) == CASE ev.type = "DisplayDisconnected" -> 1
              [] ev.type = "DisplayConnected" -> 2
              [] OTHER -> 3

\* A client does not learn from DisplayConnected whether the display is awake.
Applied(ev) ==
    CASE ev.type = "DisplayDisconnected" -> "none"
      [] ev.type = "DisplayConnected" -> "unknown"
      [] ev.type = "DpmsAwake" -> "awake"
      [] OTHER -> "asleep"

\* Disconnections first, then connections, then DPMS changes; each kind in
\* the arbitrary order of a hash table.
SendEvent(ev) ==
    /\ ppc = "sending"
    /\ ev \in outbox
    /\ \A other \in outbox : Rank(ev) <= Rank(other)
    /\ outbox' = outbox \ {ev}
    /\ mirror' = [mirror EXCEPT ![ev.edid] = Applied(ev)]
    /\ UNCHANGED <<env, needPoll, eventsEnabled, ppc, todo, current, previous,
                   initializing, faults, announced, failed>>

KeepStates ==
    /\ ppc = "sending"
    /\ outbox = {}
    /\ previous' = current
    /\ initializing' = FALSE
    /\ ppc' = "sleeping"
    /\ UNCHANGED <<env, needPoll, eventsEnabled, todo, current, outbox,
                   faults, history>>

\* sleep_interruptible ends: the time is up or NEED_POLL is set, and either
\* way its last step has swapped the flag for false.
Wake ==
    /\ ppc = "sleeping"
    /\ needPoll' = FALSE
    /\ ppc' = "top"
    /\ UNCHANGED <<env, eventsEnabled, todo, current, previous, initializing,
                   outbox, faults, history>>

----------------------------------------------------------------------------
Poll ==
    \/ SkipDisabled
    \/ ListDisplays
    \/ ListFails
    \/ Probe
    \/ CompareStates
    \/ \E ev \in outbox : SendEvent(ev)
    \/ KeepStates
    \/ Wake

Next ==
    \/ \E d \in Display, w \in Power : ChangePower(d, w)
    \/ WatchUpdate
    \/ NativeCallback
    \/ ClientDetect
    \/ EnableEvents
    \/ Poll

Spec == Init /\ [][Next]_vars

\* The polling thread runs, Subscribe goes on to enable events, and the watch
\* of libddcutil, where it works, reports what it sees.
Fairness ==
    /\ WF_vars(Poll)
    /\ WF_vars(EnableEvents)
    /\ WF_vars(WatchUpdate)
    /\ WF_vars(NativeCallback)

FairSpec == Spec /\ Fairness

----------------------------------------------------------------------------
(* Properties                                                              *)

\* Type invariant of the loop's local state and its surroundings.
TypeOK ==
    /\ mode \in Modes
    /\ power \in [Display -> Power]
    /\ detected \subseteq Display
    /\ callbackDue \in BOOLEAN
    /\ needPoll \in BOOLEAN
    /\ eventsEnabled \in BOOLEAN
    /\ ppc \in {"top", "probing", "sending", "sleeping"}
    /\ todo \subseteq Display
    /\ current \in [Edid -> Seen]
    /\ previous \in [Edid -> Seen]
    /\ initializing \in BOOLEAN
    /\ outbox \subseteq InternalEvent
    /\ changes \in Nat
    /\ faults \in Nat
    /\ mirror \in [Edid -> Seen \cup {"unknown"}]
    /\ announced \in BOOLEAN
    /\ failed \in BOOLEAN

\* m agrees with a map of the loop on which EDIDs are connected, and, where it
\* knows, on whether the display is awake.
Agrees(m, states, e) ==
    /\ m[e] = "none" <=> states[e] = "none"
    /\ m[e] \in {"awake", "asleep"} => m[e] = states[e]

\* Between two rounds of sending, a client that has applied every event knows
\* what the loop knows: however displays change between or during scans, the
\* differences that are sent add up to the difference there is.
MirrorsLastScan ==
    ppc # "sending" /\ ~initializing =>
        \A e \in Edid : Agrees(mirror, previous, e)

\* Every event is news: no display is announced as connected while a client
\* believes it connected, or lost while it believes it gone, and a DPMS event
\* never concerns a display that the client does not know.
EventsAreNews ==
    [][\A ev \in outbox : SendEvent(ev) =>
         CASE ev.type = "DisplayConnected" -> mirror[ev.edid] = "none"
           [] ev.type = "DisplayDisconnected" -> mirror[ev.edid] # "none"
           [] OTHER -> /\ mirror[ev.edid] # "none"
                       /\ mirror[ev.edid] # Applied(ev)]_vars

\* A wake-up asked for by the native callback is never lost: while the thread
\* sleeps after a listing that worked, a callback since that listing means
\* that NEED_POLL is still set, also if it came in the middle of the scan.
WakeUpIsKept ==
    ppc = "sleeping" /\ announced => needPoll \/ failed

\* The clients' view of which EDIDs are connected.
ShowsConnected ==
    \A e \in Edid :
        mirror[e] # "none" <=> \E d \in Present : EdidOf[d] = e

\* Once the displays are left alone and libddcutil's calls work, the clients
\* come to know which EDIDs are connected, and know it from then on.
ConnectionsConverge == <>[](~initializing /\ ShowsConnected)

\* A display that shares its EDID with no other.
Unshared(d) == \A other \in Display : EdidOf[other] = EdidOf[d] => other = d

\* The same for sleeping and waking, for a display with an EDID of its own
\* that either is on or does not answer.
DpmsConverges ==
    \A d \in Display : Unshared(d) =>
        <>[](/\ power[d] = "on" => mirror[EdidOf[d]] # "asleep"
             /\ power[d] = "silent" => mirror[EdidOf[d]] # "awake")

\* "Use polling for connectivity changes including DPMS events" (the varlink
\* interface): clients do not go on believing that a display is awake that has
\* been put into standby.
StandbyReported ==
    \A d \in Display : Unshared(d) =>
        (power[d] = "standby" /\ mirror[EdidOf[d]] = "awake")
          ~> (power[d] # "standby" \/ mirror[EdidOf[d]] # "awake")
==============================================================================
