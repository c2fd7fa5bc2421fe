---------------------------- MODULE ServiceState ----------------------------
(***************************************************************************)
(* The state mutex of the varlink service and everything it orders: the    *)
(* handlers of client calls (one worker thread per connection), the        *)
(* polling thread that Subscribe starts, the native watch and the callback *)
(* thread of libddcutil.  A method is followed from the request to the     *)
(* reply; the ones that call libddcutil differ in what they ask of it,     *)
(* which is abstracted, and share their use of the mutex, which is not.    *)
(*                                                                         *)
(* The mutex is std::sync::Mutex: it is not reentrant and not fair.        *)
(***************************************************************************)
EXTENDS Integers, FiniteSets

CONSTANTS Client,     \* connections, each with a worker that serves its calls
          Poller,     \* identities of polling threads that may be spawned
          Seconds,    \* the arguments clients give SetServicePollInterval
          Wrap,       \* 2^32 in the program: the first value a u32 cannot hold
          Callback,   \* the thread on which libddcutil runs the callback
          None

DefaultInterval == 30

ASSUME ServiceAssumption ==
    /\ Seconds \subseteq Int
    /\ Wrap \in Nat /\ Wrap > DefaultInterval
    /\ Client \cap Poller = {}
    /\ Callback \notin Client \cup Poller
    /\ None \notin Client \cup Poller \cup {Callback}

VARIABLES
    lock,           \* the thread inside the state mutex, or None
    pollInterval,   \* poll_interval_secs
    eventsEnabled,  \* events_enabled
    pollThread,     \* poll_thread: the handle that is kept, or None
    ppc,            \* where each polling thread is
    watching,       \* whether libddcutil is watching displays
    inLib,          \* the threads that are inside libddcutil
    cpc,            \* where each client's worker is
    arg             \* the argument of each SetServicePollInterval

vars == <<lock, pollInterval, eventsEnabled, pollThread, ppc, watching,
          inLib, cpc, arg>>

Init ==
    /\ lock = None
    /\ pollInterval = DefaultInterval
    /\ eventsEnabled = FALSE
    /\ pollThread = None
    /\ ppc = [p \in Poller |-> "unborn"]
    /\ watching = FALSE
    /\ inLib = {}
    /\ cpc = [c \in Client |-> "idle"]
    /\ arg = [c \in Client |-> 0]

Goto(c, place) == cpc' = [cpc EXCEPT ![c] = place]

Lock(t) == lock = None /\ lock' = t
Unlock(t) == lock = t /\ lock' = None

----------------------------------------------------------------------------
(* Slips.  Each operator here stands in for one definition below when the   *)
(* properties are tried out on it; the specification uses none of them.     *)

\* The mutex forgotten around a call of libddcutil.
EnterLibUnlocked(c) ==
    /\ cpc[c] = "ddc_lock"
    /\ inLib' = inLib \cup {c}
    /\ Goto(c, "ddc")
    /\ UNCHANGED <<lock, pollInterval, eventsEnabled, pollThread, ppc,
                   watching, arg>>

\* The guard dropped before the reply is written.
LeaveLibUnlocking(c) ==
    /\ cpc[c] = "ddc"
    /\ Unlock(c)
    /\ inLib' = inLib \ {c}
    /\ Goto(c, "replying")
    /\ UNCHANGED <<pollInterval, eventsEnabled, pollThread, ppc, watching,
                   arg>>

\* A width that holds every argument.
AsI64(s) == s

\* start_polling without its test for a running thread.
StartPollingAlways(c) ==
    /\ cpc[c] = "start_polling"
    /\ lock = None
    /\ \E p \in Poller :
         /\ ppc[p] = "unborn"
         /\ ppc' = [ppc EXCEPT ![p] = "top"]
         /\ pollThread' = p
    /\ Goto(c, "set_events")
    /\ UNCHANGED <<lock, pollInterval, eventsEnabled, watching, inLib, arg>>

\* A guard that lives until the end of the loop body, across the sleep.
PollScannedHolding(p) ==
    /\ ppc[p] = "scanning"
    /\ inLib' = inLib \ {p}
    /\ ppc' = [ppc EXCEPT ![p] = "sleeping"]
    /\ UNCHANGED <<lock, pollInterval, eventsEnabled, pollThread, watching,
                   cpc, arg>>

\* break in place of continue when a call of libddcutil fails.
PollScannedOnce(p) ==
    /\ ppc[p] = "scanning"
    /\ Unlock(p)
    /\ inLib' = inLib \ {p}
    /\ ppc' \in {[ppc EXCEPT ![p] = "sleeping"], [ppc EXCEPT ![p] = "exited"]}
    /\ UNCHANGED <<pollInterval, eventsEnabled, pollThread, watching, cpc, arg>>

----------------------------------------------------------------------------
(* Calls that touch libddcutil or read a setting: lock, work, reply, and    *)
(* only then let go of the guard.                                          *)

\* A call of Detect, ListDetected, GetVcp, SetVcp, ... arrives.
CallDdc(c) ==
    /\ cpc[c] = "idle"
    /\ Goto(c, "ddc_lock")
    /\ UNCHANGED <<lock, pollInterval, eventsEnabled, pollThread, ppc,
                   watching, inLib, arg>>

EnterLib(c) ==
    /\ cpc[c] = "ddc_lock"
    /\ Lock(c)
    /\ inLib' = inLib \cup {c}
    /\ Goto(c, "ddc")
    /\ UNCHANGED <<pollInterval, eventsEnabled, pollThread, ppc, watching, arg>>

LeaveLib(c) ==
    /\ cpc[c] = "ddc"
    /\ inLib' = inLib \ {c}
    /\ Goto(c, "replying")
    /\ UNCHANGED <<lock, pollInterval, eventsEnabled, pollThread, ppc,
                   watching, arg>>

\* GetServicePollInterval, GetServicePollCascadeInterval: the lock is taken
\* and kept for the reply.
CallRead(c) ==
    /\ cpc[c] = "idle"
    /\ Goto(c, "read_lock")
    /\ UNCHANGED <<lock, pollInterval, eventsEnabled, pollThread, ppc,
                   watching, inLib, arg>>

ReadSetting(c) ==
    /\ cpc[c] = "read_lock"
    /\ Lock(c)
    /\ Goto(c, "replying")
    /\ UNCHANGED <<pollInterval, eventsEnabled, pollThread, ppc, watching,
                   inLib, arg>>

Reply(c) ==
    /\ cpc[c] = "replying"
    /\ Unlock(c)
    /\ Goto(c, "idle")
    /\ UNCHANGED <<pollInterval, eventsEnabled, pollThread, ppc, watching,
                   inLib, arg>>

----------------------------------------------------------------------------
(* SetServicePollInterval                                                  *)

ValidInterval(s) == ~(s < 0 \/ (s > 0 /\ s < 10))

\* A call with an invalid interval is answered with an error at once, without
\* the mutex and without a change of state.
CallSetInterval(c, s) ==
    /\ cpc[c] = "idle"
    /\ ValidInterval(s)
    /\ arg' = [arg EXCEPT ![c] = s]
    /\ Goto(c, "interval_lock")
    /\ UNCHANGED <<lock, pollInterval, eventsEnabled, pollThread, ppc,
                   watching, inLib>>

\* "seconds as u32" keeps the low 32 bits.
AsU32(s) == s % Wrap

\* An argument of 0 goes on to stop_polling() with the guard still held: its
\* first step is to lock the same mutex, so the worker stays at "stop_polling"
\* for good, and the rest of stop_polling (shutdown message, join) is never
\* executed.
StoreInterval(c) ==
    /\ cpc[c] = "interval_lock"
    /\ Lock(c)
    /\ pollInterval' = AsU32(arg[c])
    /\ Goto(c, IF arg[c] = 0 THEN "stop_polling" ELSE "replying")
    /\ UNCHANGED <<eventsEnabled, pollThread, ppc, watching, inLib, arg>>

----------------------------------------------------------------------------
(* Subscribe: start_polling, set_events_enabled(true), then the stream     *)

CallSubscribe(c) ==
    /\ cpc[c] = "idle"
    /\ Goto(c, "start_polling")
    /\ UNCHANGED <<lock, pollInterval, eventsEnabled, pollThread, ppc,
                   watching, inLib, arg>>

\* One critical section: test for a thread, spawn one, keep its handle.
StartPolling(c) ==
    /\ cpc[c] = "start_polling"
    /\ lock = None
    /\ IF pollThread # None
         THEN UNCHANGED <<pollThread, ppc>>
         ELSE \E p \in Poller :
                /\ ppc[p] = "unborn"
                /\ ppc' = [ppc EXCEPT ![p] = "top"]
                /\ pollThread' = p
    /\ Goto(c, "set_events")
    /\ UNCHANGED <<lock, pollInterval, eventsEnabled, watching, inLib, arg>>

\* The flag is set before libddcutil is asked to watch.
SetEventsEnabled(c) ==
    /\ cpc[c] = "set_events"
    /\ lock = None
    /\ IF eventsEnabled
         THEN /\ Goto(c, "streaming")
              /\ UNCHANGED <<lock, eventsEnabled, inLib>>
         ELSE /\ eventsEnabled' = TRUE
              /\ lock' = c
              /\ inLib' = inLib \cup {c}
              /\ Goto(c, "start_watch")
    /\ UNCHANGED <<pollInterval, pollThread, ppc, watching, arg>>

\* A failure of ddca_start_watch_displays is returned by set_events_enabled
\* and only logged by subscribe.
StartWatch(c) ==
    /\ cpc[c] = "start_watch"
    /\ watching' \in {watching, TRUE}
    /\ inLib' = inLib \ {c}
    /\ Unlock(c)
    /\ Goto(c, "streaming")
    /\ UNCHANGED <<pollInterval, eventsEnabled, pollThread, ppc, arg>>

\* The stream ends (module Subscriptions); the state mutex is not involved.
EndStream(c) ==
    /\ cpc[c] = "streaming"
    /\ Goto(c, "idle")
    /\ UNCHANGED <<lock, pollInterval, eventsEnabled, pollThread, ppc,
                   watching, inLib, arg>>

----------------------------------------------------------------------------
(* The polling thread, as far as the mutex is concerned (see PollingLoop)   *)

\* The shutdown channel is not modelled: only stop_polling writes to it, and
\* it never gets that far.
PollConfig(p) ==
    /\ ppc[p] = "top"
    /\ lock = None
    /\ \/ /\ pollInterval = 0
          /\ ppc' = [ppc EXCEPT ![p] = "exited"]
          /\ UNCHANGED <<lock, inLib>>
       \/ /\ pollInterval # 0
          /\ ~eventsEnabled
          /\ ppc' = [ppc EXCEPT ![p] = "sleeping"]
          /\ UNCHANGED <<lock, inLib>>
       \/ /\ pollInterval # 0
          /\ eventsEnabled
          /\ ppc' = [ppc EXCEPT ![p] = "scanning"]
          /\ lock' = p
          /\ inLib' = inLib \cup {p}
    /\ UNCHANGED <<pollInterval, eventsEnabled, pollThread, watching, cpc, arg>>

\* The scan is over, or a call of libddcutil in it has failed.
PollScanned(p) ==
    /\ ppc[p] = "scanning"
    /\ Unlock(p)
    /\ inLib' = inLib \ {p}
    /\ ppc' = [ppc EXCEPT ![p] = "sleeping"]
    /\ UNCHANGED <<pollInterval, eventsEnabled, pollThread, watching, cpc, arg>>

PollWake(p) ==
    /\ ppc[p] = "sleeping"
    /\ ppc' = [ppc EXCEPT ![p] = "top"]
    /\ UNCHANGED <<lock, pollInterval, eventsEnabled, pollThread, watching,
                   inLib, cpc, arg>>

----------------------------------------------------------------------------
(* native_ddc_event_callback, on a thread of libddcutil: it calls back into *)
(* libddcutil (ddca_get_display_info) without the state mutex.              *)

NativeEvent ==
    /\ watching
    /\ Callback \notin inLib
    /\ inLib' = inLib \cup {Callback}
    /\ UNCHANGED <<lock, pollInterval, eventsEnabled, pollThread, ppc,
                   watching, cpc, arg>>

NativeDone ==
    /\ Callback \in inLib
    /\ inLib' = inLib \ {Callback}
    /\ UNCHANGED <<lock, pollInterval, eventsEnabled, pollThread, ppc,
                   watching, cpc, arg>>

----------------------------------------------------------------------------
Request(c) ==
    \/ CallDdc(c)
    \/ CallRead(c)
    \/ \E s \in Seconds : CallSetInterval(c, s)
    \/ CallSubscribe(c)

\* Steps of a worker that begin by taking the mutex, and the others.
Acquire(c) ==
    \/ EnterLib(c)
    \/ ReadSetting(c)
    \/ StoreInterval(c)
    \/ StartPolling(c)
    \/ SetEventsEnabled(c)

Finish(c) ==
    \/ LeaveLib(c)
    \/ Reply(c)
    \/ StartWatch(c)

Next ==
    \/ \E c \in Client : Request(c) \/ Acquire(c) \/ Finish(c) \/ EndStream(c)
    \/ \E p \in Poller : PollConfig(p) \/ PollScanned(p) \/ PollWake(p)
    \/ NativeEvent
    \/ NativeDone

Spec == Init /\ [][Next]_vars

\* The mutex is not fair, but every holder lets go of it and the polling
\* thread sleeps for at least a quarter of a second between two scans: a
\* thread that finds the mutex free again and again gets it in the end (SF).
\* Calls of libddcutil return, and a client reads its reply.
Fairness ==
    /\ \A c \in Client : SF_vars(Acquire(c)) /\ WF_vars(Finish(c))
    /\ \A p \in Poller : /\ SF_vars(PollConfig(p))
                         /\ WF_vars(PollScanned(p))
                         /\ WF_vars(PollWake(p))
    /\ WF_vars(NativeDone)

FairSpec == Spec /\ Fairness

----------------------------------------------------------------------------
(* Properties                                                              *)

Thread == Client \cup Poller \cup {Callback}

\* Type invariant of the shared state and the threads' places.
TypeOK ==
    /\ lock \in Client \cup Poller \cup {None}
    /\ pollInterval \in 0..(Wrap - 1)
    /\ eventsEnabled \in BOOLEAN
    /\ pollThread \in Poller \cup {None}
    /\ ppc \in [Poller -> {"unborn", "top", "scanning", "sleeping", "exited"}]
    /\ watching \in BOOLEAN
    /\ inLib \subseteq Thread
    /\ cpc \in [Client -> {"idle", "ddc_lock", "ddc", "replying", "read_lock",
                           "interval_lock", "stop_polling", "start_polling",
                           "set_events", "start_watch", "streaming"}]
    /\ arg \in [Client -> Int]

InCritical(t) ==
    IF t \in Client
      THEN cpc[t] \in {"ddc", "replying", "stop_polling", "start_watch"}
      ELSE ppc[t] = "scanning"

\* A thread holds the mutex exactly while it is in one of the sections that
\* the code runs under a guard: no path leaves one with the guard kept, or
\* works on the shared state after dropping it.
GuardMatchesSection ==
    \A t \in Client \cup Poller : lock = t <=> InCritical(t)

\* The worker threads and the polling thread are inside libddcutil only with
\* the mutex held, so never two of them at once ("Single mutex protecting all
\* shared state and libddcutil access", minus the native callback).
LockedLibraryAccess ==
    \A t \in inLib \ {Callback} : lock = t

\* There is at most one polling thread alive, and it is the one whose handle
\* the service keeps, however many Subscribe calls race through start_polling.
AtMostOnePoller ==
    \A p \in Poller : ppc[p] # "unborn" => pollThread = p

\* No interval stops polling: an interval of 0, asked for or the product of a
\* truncation, is the one way in which the service comes to a halt.
NeverZero == [](pollInterval # 0)

\* Unless polling is stopped, every call that arrives is answered or becomes a
\* stream: no method waits for ever on the mutex that all of them share.
CallsComplete ==
    NeverZero =>
      \A c \in Client :
        cpc[c] \notin {"idle", "streaming"} ~> cpc[c] \in {"idle", "streaming"}

\* Unless polling is stopped, the polling thread scans the displays again and
\* again once it has been started, whatever else contends for the mutex.
PollingGoesOn ==
    NeverZero => \A p \in Poller : (pollThread = p) ~> (ppc[p] = "scanning")

----------------------------------------------------------------------------
(* What the code's comments say, and the code does not do                  *)

\* SetServicePollInterval(0) stops the polling thread ("Stop the polling
\* thread if it's running").
ZeroIntervalStopsPolling ==
    \A c \in Client, p \in Poller :
        (cpc[c] = "stop_polling" /\ pollThread = p) ~> (ppc[p] = "exited")

\* "Enable events (this also starts/stop native watch)": when
\* set_events_enabled(true) has nothing to do because events are enabled
\* already, libddcutil is watching.
AlreadyEnabledIsWatched ==
    [][\A c \in Client :
         SetEventsEnabled(c) /\ eventsEnabled => watching]_vars
==============================================================================
