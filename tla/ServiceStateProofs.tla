-------------------------- MODULE ServiceStateProofs --------------------------
(***************************************************************************)
(* The safety properties of ServiceState for any number of clients and     *)
(* polling threads and for any set of requested intervals.                 *)
(*                                                                         *)
(* GuardMatchesSection ties the mutex to the place of every thread and is  *)
(* inductive with the type invariant.  InLibWhereCalled says where the     *)
(* threads inside libddcutil are; with the former it gives                 *)
(* LockedLibraryAccess, which alone is not inductive: it does not say that *)
(* a worker about to reply has left the library.                           *)
(***************************************************************************)
EXTENDS ServiceState, TLAPS

\* A thread is inside libddcutil only in a section that calls it (what
\* LockedLibraryAccess needs to be inductive).
CallsLibrary(t) ==
    IF t \in Client THEN cpc[t] \in {"ddc", "start_watch"}
                    ELSE ppc[t] = "scanning"
InLibWhereCalled == \A t \in inLib \ {Callback} : CallsLibrary(t)

\* The type invariant: every step keeps the stored interval within a u32 and
\* the threads at places of the code.
THEOREM Typing == Spec => []TypeOK
<1>1. Init => TypeOK
  <2>1. DefaultInterval \in 0..(Wrap - 1)
    BY ServiceAssumption DEF DefaultInterval
  <2>2. 0 \in Int
    OBVIOUS
  <2>3. QED
    BY <2>1, <2>2, Zenon DEF Init, TypeOK
<1>2. TypeOK /\ [Next]_vars => TypeOK'
  <2>. SUFFICES ASSUME TypeOK, [Next]_vars PROVE TypeOK'
    OBVIOUS
  <2>. USE ServiceAssumption DEF TypeOK, Goto, Lock, Unlock, Thread
  <2>1. ASSUME NEW c \in Client, Request(c) PROVE TypeOK'
    BY <2>1 DEF Request, CallDdc, CallRead, CallSetInterval, CallSubscribe
  <2>2. ASSUME NEW c \in Client, EnterLib(c) \/ ReadSetting(c) PROVE TypeOK'
    BY <2>2 DEF EnterLib, ReadSetting
  <2>3. ASSUME NEW c \in Client, StoreInterval(c) PROVE TypeOK'
    <3>1. AsU32(arg[c]) \in 0..(Wrap - 1)
      BY DEF AsU32, DefaultInterval
    <3>2. QED
      BY <2>3, <3>1 DEF StoreInterval
  <2>4. ASSUME NEW c \in Client, StartPolling(c) PROVE TypeOK'
    BY <2>4 DEF StartPolling
  <2>5. ASSUME NEW c \in Client, SetEventsEnabled(c) PROVE TypeOK'
    BY <2>5 DEF SetEventsEnabled
  <2>6. ASSUME NEW c \in Client, Finish(c) PROVE TypeOK'
    BY <2>6 DEF Finish, LeaveLib, Reply, StartWatch
  <2>7. ASSUME NEW c \in Client, EndStream(c) PROVE TypeOK'
    BY <2>7 DEF EndStream
  <2>8. ASSUME NEW p \in Poller, PollConfig(p) PROVE TypeOK'
    BY <2>8 DEF PollConfig
  <2>9. ASSUME NEW p \in Poller, PollScanned(p) \/ PollWake(p) PROVE TypeOK'
    BY <2>9 DEF PollScanned, PollWake
  <2>10. CASE NativeEvent \/ NativeDone
    BY <2>10 DEF NativeEvent, NativeDone
  <2>11. CASE UNCHANGED vars
    BY <2>11 DEF vars
  <2>12. QED
    BY <2>1, <2>2, <2>3, <2>4, <2>5, <2>6, <2>7, <2>8, <2>9, <2>10, <2>11
       DEF Next, Acquire
<1>3. QED
  BY <1>1, <1>2, PTL DEF Spec

\* One polling thread at most has ever been started, and its handle is kept:
\* the test and the spawn of start_polling are one critical section.
THEOREM OnePoller == Spec => []AtMostOnePoller
<1>1. Init => AtMostOnePoller
  BY DEF Init, AtMostOnePoller
<1>2. TypeOK /\ AtMostOnePoller /\ [Next]_vars => AtMostOnePoller'
  <2>. SUFFICES ASSUME TypeOK, AtMostOnePoller, [Next]_vars
                PROVE AtMostOnePoller'
    OBVIOUS
  <2>. USE ServiceAssumption DEF AtMostOnePoller
  <2>1. ASSUME NEW c \in Client, StartPolling(c) PROVE AtMostOnePoller'
    BY <2>1 DEF StartPolling, TypeOK
  <2>2. ASSUME NEW p \in Poller,
               PollConfig(p) \/ PollScanned(p) \/ PollWake(p)
        PROVE AtMostOnePoller'
    BY <2>2 DEF PollConfig, PollScanned, PollWake, TypeOK
  <2>3. CASE UNCHANGED <<ppc, pollThread>>
    BY <2>3
  <2>4. QED
    BY <2>1, <2>2, <2>3 DEF Next, Request, CallDdc, CallRead, CallSetInterval,
       CallSubscribe, Acquire, EnterLib, ReadSetting, StoreInterval,
       SetEventsEnabled, Finish, LeaveLib, Reply, StartWatch, EndStream,
       NativeEvent, NativeDone, vars
<1>3. QED
  BY <1>1, <1>2, Typing, PTL DEF Spec

\* The mutex is held exactly in the sections of the code that run under a
\* guard.
THEOREM Guarded == Spec => []GuardMatchesSection
<1>1. Init => GuardMatchesSection
  BY ServiceAssumption DEF Init, GuardMatchesSection, InCritical
<1>2. TypeOK /\ GuardMatchesSection /\ [Next]_vars => GuardMatchesSection'
  <2>. SUFFICES ASSUME TypeOK, GuardMatchesSection, [Next]_vars
                PROVE GuardMatchesSection'
    OBVIOUS
  <2>. USE ServiceAssumption
       DEF TypeOK, GuardMatchesSection, InCritical, Goto, Lock, Unlock
  <2>1. ASSUME NEW c \in Client, Request(c) PROVE GuardMatchesSection'
    BY <2>1 DEF Request, CallDdc, CallRead, CallSetInterval, CallSubscribe
  <2>2. ASSUME NEW c \in Client, EnterLib(c) \/ ReadSetting(c)
        PROVE GuardMatchesSection'
    BY <2>2 DEF EnterLib, ReadSetting
  <2>3. ASSUME NEW c \in Client, StoreInterval(c) PROVE GuardMatchesSection'
    BY <2>3 DEF StoreInterval
  <2>4. ASSUME NEW c \in Client, StartPolling(c) PROVE GuardMatchesSection'
    BY <2>4 DEF StartPolling
  <2>5. ASSUME NEW c \in Client, SetEventsEnabled(c)
        PROVE GuardMatchesSection'
    BY <2>5 DEF SetEventsEnabled
  <2>6. ASSUME NEW c \in Client, Finish(c) PROVE GuardMatchesSection'
    BY <2>6 DEF Finish, LeaveLib, Reply, StartWatch
  <2>7. ASSUME NEW c \in Client, EndStream(c) PROVE GuardMatchesSection'
    BY <2>7 DEF EndStream
  <2>8. ASSUME NEW p \in Poller, PollConfig(p) PROVE GuardMatchesSection'
    BY <2>8 DEF PollConfig
  <2>9. ASSUME NEW p \in Poller, PollScanned(p) \/ PollWake(p)
        PROVE GuardMatchesSection'
    BY <2>9 DEF PollScanned, PollWake
  <2>10. CASE NativeEvent \/ NativeDone
    BY <2>10 DEF NativeEvent, NativeDone
  <2>11. CASE UNCHANGED vars
    BY <2>11 DEF vars
  <2>12. QED
    BY <2>1, <2>2, <2>3, <2>4, <2>5, <2>6, <2>7, <2>8, <2>9, <2>10, <2>11
       DEF Next, Acquire
<1>3. QED
  BY <1>1, <1>2, Typing, PTL DEF Spec

\* Whoever is inside libddcutil is in a section of the code that calls it.
LEMMA InLibrary == Spec => []InLibWhereCalled
<1>1. Init => InLibWhereCalled
  BY DEF Init, InLibWhereCalled
<1>2. TypeOK /\ InLibWhereCalled /\ [Next]_vars => InLibWhereCalled'
  <2>. SUFFICES ASSUME TypeOK, InLibWhereCalled, [Next]_vars
                PROVE InLibWhereCalled'
    OBVIOUS
  <2>. USE ServiceAssumption
       DEF TypeOK, InLibWhereCalled, CallsLibrary, Goto, Lock, Unlock, Thread
  <2>1. ASSUME NEW c \in Client, Request(c) PROVE InLibWhereCalled'
    BY <2>1 DEF Request, CallDdc, CallRead, CallSetInterval, CallSubscribe
  <2>2. ASSUME NEW c \in Client, Acquire(c) PROVE InLibWhereCalled'
    BY <2>2 DEF Acquire, EnterLib, ReadSetting, StoreInterval, StartPolling,
                SetEventsEnabled
  <2>3. ASSUME NEW c \in Client, Finish(c) PROVE InLibWhereCalled'
    BY <2>3 DEF Finish, LeaveLib, Reply, StartWatch
  <2>4. ASSUME NEW c \in Client, EndStream(c) PROVE InLibWhereCalled'
    BY <2>4 DEF EndStream
  <2>5. ASSUME NEW p \in Poller,
               PollConfig(p) \/ PollScanned(p) \/ PollWake(p)
        PROVE InLibWhereCalled'
    BY <2>5 DEF PollConfig, PollScanned, PollWake
  <2>6. CASE NativeEvent \/ NativeDone
    BY <2>6 DEF NativeEvent, NativeDone
  <2>7. CASE UNCHANGED vars
    BY <2>7 DEF vars
  <2>8. QED
    BY <2>1, <2>2, <2>3, <2>4, <2>5, <2>6, <2>7 DEF Next
<1>3. QED
  BY <1>1, <1>2, Typing, PTL DEF Spec

\* The workers and the polling thread call libddcutil only with the mutex
\* held; the native callback is the one exception.
THEOREM LibraryLocked == Spec => []LockedLibraryAccess
<1>1. TypeOK /\ GuardMatchesSection /\ InLibWhereCalled => LockedLibraryAccess
  BY DEF TypeOK, GuardMatchesSection, InCritical, InLibWhereCalled,
         CallsLibrary, LockedLibraryAccess, Thread
<1>2. QED
  BY <1>1, Typing, Guarded, InLibrary, PTL

----------------------------------------------------------------------------
(* What an interval can do to the service                                  *)

\* A worker that is about to store an interval was asked for it by a client,
\* and one that is stuck in stop_polling was asked for 0.
ArgInv ==
    \A c \in Client :
        /\ cpc[c] = "interval_lock" => arg[c] \in Seconds /\ ValidInterval(arg[c])
        /\ cpc[c] = "stop_polling" => arg[c] = 0 /\ 0 \in Seconds

\* An argument comes from a client and has passed the method's test.
LEMMA Arguments == Spec => []ArgInv
<1>1. Init => ArgInv
  BY DEF Init, ArgInv
<1>2. TypeOK /\ ArgInv /\ [Next]_vars => ArgInv'
  <2>. SUFFICES ASSUME TypeOK, ArgInv, [Next]_vars PROVE ArgInv'
    OBVIOUS
  <2>. USE DEF TypeOK, ArgInv, Goto
  <2>1. ASSUME NEW c \in Client, CallDdc(c) \/ CallRead(c) \/ CallSubscribe(c)
        PROVE  ArgInv'
    BY <2>1 DEF CallDdc, CallRead, CallSubscribe
  <2>2. ASSUME NEW c \in Client, NEW s \in Seconds, CallSetInterval(c, s)
        PROVE  ArgInv'
    BY <2>2 DEF CallSetInterval
  <2>3. ASSUME NEW c \in Client, StoreInterval(c) PROVE ArgInv'
    BY <2>3 DEF StoreInterval
  <2>4. ASSUME NEW c \in Client,
               \/ EnterLib(c) \/ ReadSetting(c) \/ StartPolling(c)
               \/ SetEventsEnabled(c)
        PROVE  ArgInv'
    BY <2>4 DEF EnterLib, ReadSetting, StartPolling, SetEventsEnabled
  <2>5. ASSUME NEW c \in Client, Finish(c) \/ EndStream(c) PROVE ArgInv'
    BY <2>5 DEF Finish, LeaveLib, Reply, StartWatch, EndStream
  <2>6. CASE UNCHANGED <<cpc, arg>>
    BY <2>6
  <2>7. QED
    BY <2>1, <2>2, <2>3, <2>4, <2>5, <2>6 DEF Next, Request, Acquire,
       PollConfig, PollScanned, PollWake, NativeEvent, NativeDone, vars
<1>3. QED
  BY <1>1, <1>2, Typing, PTL DEF Spec

\* The interval that is stored is the default or one that a client asked for,
\* less what a u32 cannot hold of it.
IntervalSource ==
    \/ pollInterval = DefaultInterval
    \/ \E s \in Seconds : ValidInterval(s) /\ pollInterval = AsU32(s)

\* The stored interval is the default or a client's argument, as u32.
LEMMA Intervals == Spec => []IntervalSource
<1>1. Init => IntervalSource
  BY DEF Init, IntervalSource
<1>2. ArgInv /\ IntervalSource /\ [Next]_vars => IntervalSource'
  <2>. SUFFICES ASSUME ArgInv, IntervalSource, [Next]_vars
                PROVE  IntervalSource'
    OBVIOUS
  <2>1. ASSUME NEW c \in Client, StoreInterval(c) PROVE IntervalSource'
    <3>1. arg[c] \in Seconds /\ ValidInterval(arg[c])
          /\ pollInterval' = AsU32(arg[c])
      BY <2>1 DEF StoreInterval, ArgInv
    <3>2. QED
      BY <3>1 DEF IntervalSource
  <2>2. CASE UNCHANGED pollInterval
    BY <2>2 DEF IntervalSource
  <2>3. QED
    BY <2>1, <2>2 DEF Next, Request, CallDdc, CallRead, CallSetInterval,
       CallSubscribe, Acquire, EnterLib, ReadSetting, StartPolling,
       SetEventsEnabled, Finish, LeaveLib, Reply, StartWatch, EndStream,
       PollConfig, PollScanned, PollWake, NativeEvent, NativeDone, vars
<1>3. QED
  BY <1>1, <1>2, Arguments, PTL DEF Spec

\* No thread has come to a halt over an interval of 0.
Running ==
    /\ \A p \in Poller : ppc[p] # "exited"
    /\ \A c \in Client : cpc[c] # "stop_polling"

\* Where nobody asks for 0, nor for a number of seconds that "as u32" makes 0,
\* the interval is never 0: no worker locks the mutex against itself in
\* stop_polling, and the polling thread does not end.  This is the hypothesis
\* of CallsComplete and PollingGoesOn, reduced to what clients send.
THEOREM OrdinaryIntervals ==
    (\A s \in Seconds : ValidInterval(s) => AsU32(s) # 0)
      => (Spec => NeverZero /\ []Running)
<1>. SUFFICES ASSUME \A s \in Seconds : ValidInterval(s) => AsU32(s) # 0
              PROVE  Spec => NeverZero /\ []Running
  OBVIOUS
<1>1. IntervalSource => pollInterval # 0
  BY DEF IntervalSource, DefaultInterval
<1>2. ArgInv => \A c \in Client : cpc[c] # "stop_polling"
  <2>1. 0 \notin Seconds
    <3>1. ValidInterval(0) /\ AsU32(0) = 0
      BY ServiceAssumption DEF ValidInterval, AsU32, DefaultInterval
    <3>2. QED
      BY <3>1
  <2>2. QED
    BY <2>1 DEF ArgInv
<1>. DEFINE Alive == \A p \in Poller : ppc[p] # "exited"
<1>3. Init => Alive
  BY DEF Init
<1>4. TypeOK /\ IntervalSource /\ Alive /\ [Next]_vars => Alive'
  <2>. SUFFICES ASSUME TypeOK, IntervalSource, Alive, [Next]_vars
                PROVE  Alive'
    OBVIOUS
  <2>1. ASSUME NEW p \in Poller,
               PollConfig(p) \/ PollScanned(p) \/ PollWake(p)
        PROVE  Alive'
    BY <1>1, <2>1 DEF PollConfig, PollScanned, PollWake, TypeOK
  <2>2. ASSUME NEW c \in Client, StartPolling(c) PROVE Alive'
    BY <2>2 DEF StartPolling, TypeOK
  <2>3. CASE UNCHANGED ppc
    BY <2>3
  <2>4. QED
    BY <2>1, <2>2, <2>3 DEF Next, Request, CallDdc, CallRead, CallSetInterval,
       CallSubscribe, Acquire, EnterLib, ReadSetting, StoreInterval,
       SetEventsEnabled, Finish, LeaveLib, Reply, StartWatch, EndStream,
       NativeEvent, NativeDone, vars
<1>5. Alive /\ (\A c \in Client : cpc[c] # "stop_polling") => Running
  BY DEF Running
<1>. HIDE DEF Alive
<1>6. QED
  BY <1>1, <1>2, <1>3, <1>4, <1>5, Typing, Arguments, Intervals, PTL
  DEF Spec, NeverZero

\* The test of SetServicePollInterval ("at least 10 seconds, or 0") says
\* something of the interval that is used only where no argument is too large
\* for a u32: then the stored interval is 0 or at least 10.
THEOREM IntervalsAsTested ==
    (\A s \in Seconds : s < Wrap)
      => (Spec => [](pollInterval = 0 \/ pollInterval >= 10))
<1>. SUFFICES ASSUME \A s \in Seconds : s < Wrap
              PROVE  Spec => [](pollInterval = 0 \/ pollInterval >= 10)
  OBVIOUS
<1>1. ASSUME NEW s \in Seconds, ValidInterval(s)
      PROVE  AsU32(s) = 0 \/ AsU32(s) >= 10
  <2>1. s \in Int /\ s < Wrap /\ Wrap \in Nat /\ (s = 0 \/ s >= 10)
    BY <1>1, ServiceAssumption DEF ValidInterval
  <2>2. s % Wrap = s
    BY <2>1
  <2>3. QED
    BY <2>1, <2>2 DEF AsU32
<1>2. IntervalSource => pollInterval = 0 \/ pollInterval >= 10
  BY <1>1 DEF IntervalSource, DefaultInterval
<1>3. QED
  BY <1>2, Intervals, PTL

\* A polling thread that has ended has ended for good: its handle stays in
\* poll_thread, so start_polling finds a thread there and starts no other.
\* Subscribing again, or setting an interval again, does not bring the scans
\* back.
THEOREM ExitIsFinal ==
    Spec => [][(\E p \in Poller : ppc[p] = "exited")
                 => UNCHANGED <<ppc, pollThread>>]_vars
<1>. DEFINE Exited == \E p \in Poller : ppc[p] = "exited"
            Final == Exited => UNCHANGED <<ppc, pollThread>>
<1>1. TypeOK /\ AtMostOnePoller /\ [Next]_vars => [Final]_vars
  <2>. SUFFICES ASSUME TypeOK, AtMostOnePoller, Next,
                       NEW p \in Poller, ppc[p] = "exited"
                PROVE  UNCHANGED <<ppc, pollThread>>
    OBVIOUS
  <2>1. pollThread = p /\ pollThread # None
    BY ServiceAssumption DEF AtMostOnePoller
  <2>2. \A q \in Poller : ppc[q] = "exited" \/ ppc[q] = "unborn"
    BY <2>1 DEF AtMostOnePoller
  <2>3. ASSUME NEW q \in Poller,
               PollConfig(q) \/ PollScanned(q) \/ PollWake(q)
        PROVE  FALSE
    BY <2>2, <2>3 DEF PollConfig, PollScanned, PollWake
  <2>4. ASSUME NEW c \in Client, StartPolling(c)
        PROVE  UNCHANGED <<ppc, pollThread>>
    BY <2>1, <2>4 DEF StartPolling
  <2>5. QED
    BY <2>3, <2>4 DEF Next, Request, CallDdc, CallRead, CallSetInterval,
       CallSubscribe, Acquire, EnterLib, ReadSetting, StoreInterval,
       SetEventsEnabled, Finish, LeaveLib, Reply, StartWatch, EndStream,
       NativeEvent, NativeDone
<1>2. QED
  BY <1>1, Typing, OnePoller, PTL DEF Spec

\* A worker that has got to stop_polling stays there with the mutex in its
\* hands, and nobody gets it from then on: why a poll interval of 0 stops the
\* whole service and not the polling.
THEOREM ZeroHoldsTheMutex ==
    Spec => [][\A c \in Client :
                 cpc[c] = "stop_polling"
                   => cpc'[c] = "stop_polling" /\ lock = c /\ lock' = c]_vars
<1>. DEFINE Stuck == \A c \in Client :
                       cpc[c] = "stop_polling"
                         => cpc'[c] = "stop_polling" /\ lock = c /\ lock' = c
<1>1. TypeOK /\ GuardMatchesSection /\ [Next]_vars => [Stuck]_vars
  <2>. SUFFICES ASSUME TypeOK, GuardMatchesSection, Next,
                       NEW d \in Client, cpc[d] = "stop_polling"
                PROVE  cpc'[d] = "stop_polling" /\ lock = d /\ lock' = d
    OBVIOUS
  <2>1. lock = d /\ lock # None /\ d \notin Poller
        /\ \A t \in Client \cup Poller : InCritical(t) => t = d
    BY ServiceAssumption DEF GuardMatchesSection, InCritical
  <2>2. ASSUME NEW c \in Client, Request(c) \/ EndStream(c)
        PROVE  cpc'[d] = "stop_polling" /\ lock' = d
    BY <2>1, <2>2 DEF Request, CallDdc, CallRead, CallSetInterval,
       CallSubscribe, EndStream, Goto, TypeOK
  <2>3. ASSUME NEW c \in Client, Acquire(c) PROVE FALSE
    BY <2>1, <2>3 DEF Acquire, EnterLib, ReadSetting, StoreInterval,
       StartPolling, SetEventsEnabled, Lock
  <2>4. ASSUME NEW c \in Client, Finish(c) PROVE FALSE
    BY <2>1, <2>4 DEF Finish, LeaveLib, Reply, StartWatch, InCritical
  <2>5. ASSUME NEW p \in Poller, PollConfig(p) \/ PollScanned(p)
        PROVE  FALSE
    BY <2>1, <2>5, ServiceAssumption DEF PollConfig, PollScanned, Unlock
  <2>6. CASE \/ \E p \in Poller : PollWake(p)
             \/ NativeEvent \/ NativeDone
    BY <2>1, <2>6 DEF PollWake, NativeEvent, NativeDone
  <2>7. QED
    BY <2>1, <2>2, <2>3, <2>4, <2>5, <2>6 DEF Next
<1>2. QED
  BY <1>1, Typing, Guarded, PTL DEF Spec
==============================================================================
