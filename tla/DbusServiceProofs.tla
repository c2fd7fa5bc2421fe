-------------------------- MODULE DbusServiceProofs --------------------------
(***************************************************************************)
(* The safety properties of DbusService for any calls, requests and lists  *)
(* of displays.                                                            *)
(*                                                                         *)
(* What the daemon has in place of a mutex is zbus's lock: a call that is  *)
(* past its entry and not yet answered is among the readers or is the      *)
(* writer, as its method was declared, and a writer excludes all others.   *)
(* SetVcp is a writer, so from its lookup to its signal nobody changes the *)
(* list, the verify flag or the order of the writes.                       *)
(***************************************************************************)
EXTENDS DbusService, TLAPS

\* The places of a call that has been let in.
Inside == {"redetect", "list", "set", "find", "inspect", "open", "read",
           "read_all", "write", "transmit", "signal", "close", "reply"}

\* How a call stands to zbus's lock.
LockInv(c) ==
    /\ pc[c] # "idle" => req[c] \in Requests
    /\ c \in readers <=> pc[c] \in Inside /\ ~Exclusive(req[c])
    /\ writer = c <=> pc[c] \in Inside /\ Exclusive(req[c])

\* Which methods reach which places.
PlaceInv(c) ==
    /\ pc[c] = "redetect" => req[c].op = "detect"
    /\ pc[c] = "find" => req[c].op \in {"inspect", "read", "read_all", "write"}
    /\ pc[c] = "open" => req[c].op \in {"read", "read_all", "write"}
    /\ pc[c] \in {"write", "transmit", "signal"} => req[c].op = "write"

\* What SetVcp knows from its lookup to its write.
WriteInv(c) ==
    /\ pc[c] = "open" /\ req[c].op = "write" =>
         target[c] \in FindById(list, req[c])
    /\ pc[c] \in {"write", "transmit"} => handle[c] \in FindById(list, req[c])
    /\ pc[c] = "transmit" => verify = VerifyArgument(req[c])

\* What Detect knows from its arrival to its reply.
DetectInv(c) ==
    /\ pc[c] # "idle" /\ req[c].op = "detect" => attached \in found[c]
    /\ pc[c] = "list" /\ req[c].op = "detect" => list \in found[c]
    /\ pc[c] # "reply" => shown[c] = {}
    /\ pc[c] = "reply" /\ req[c].op = "detect" =>
         \A s \in shown[c] : \E l \in found[c] : s = Shown(l, req[c].all)

CallInv(c) == LockInv(c) /\ PlaceInv(c) /\ WriteInv(c) /\ DetectInv(c)

CallsInv ==
    /\ writer # None => readers = {}
    /\ \A c \in Client : CallInv(c)

Step(c) == Wait(c) \/ Work(c) \/ \E r \in Requests : Call(c, r)

----------------------------------------------------------------------------
\* A lookup yields an entry of the list, and a listing shows entries of it.
LEMMA Lookup ==
    ASSUME NEW l \in Lists
    PROVE  /\ \A r : FindById(l, r) \subseteq Entries
           /\ \A all : Shown(l, all) \subseteq Entries
BY DEF FindById, Listed, Shown, Entries

\* A step of a call touches its own places only, and what all calls share only
\* at the places meant for it.
LEMMA Local ==
    ASSUME TypeOK, NEW c \in Client, NEW o \in Client \ {c}, Step(c)
    PROVE  /\ pc'[o] = pc[o]
           /\ req'[o] = req[o]
           /\ target'[o] = target[o]
           /\ handle'[o] = handle[o]
           /\ shown'[o] = shown[o]
           /\ found'[o] = found[o]
           /\ attached' = attached
           /\ verify' = verify \/ pc[c] = "write"
           /\ list' = list \/ (pc[c] = "redetect" /\ list' = attached)
<1>. USE DEF TypeOK, Goto, world, zlock, lib, history
<1>1. CASE \E r \in Requests : Call(c, r)
  BY <1>1 DEF Call
<1>2. CASE EnterShared(c) \/ EnterExclusive(c) \/ OpenDisplay(c)
  BY <1>2 DEF EnterShared, EnterExclusive, OpenDisplay
<1>3. CASE Redetect(c)
  BY <1>3 DEF Redetect
<1>4. CASE ListDisplays(c) \/ SetProperty(c) \/ FindDisplay(c) \/ Inspect(c)
  BY <1>4 DEF ListDisplays, SetProperty, FindDisplay, Inspect
<1>5. CASE ReadDisplay(c) \/ ReadAll(c) \/ EnableVerify(c)
  BY <1>5 DEF ReadDisplay, ReadAll, EnableVerify
<1>6. CASE WriteVcp(c) \/ SignalChange(c) \/ CloseDisplay(c) \/ Reply(c)
  BY <1>6 DEF WriteVcp, SignalChange, CloseDisplay, Reply
<1>7. QED
  BY <1>1, <1>2, <1>3, <1>4, <1>5, <1>6 DEF Step, Wait, Work

\* The lock changes hands only on entry and with the reply.
LEMMA LockStep ==
    ASSUME TypeOK, NEW c \in Client, Step(c)
    PROVE  \/ UNCHANGED <<readers, writer>>
           \/ EnterShared(c)
           \/ EnterExclusive(c)
           \/ Reply(c)
BY DEF Step, Wait, Work, Call, OpenDisplay, Redetect, ListDisplays,
       SetProperty, FindDisplay, Inspect, ReadDisplay, ReadAll, EnableVerify,
       WriteVcp, SignalChange, CloseDisplay, zlock

----------------------------------------------------------------------------
(* Types                                                                   *)

\* The signal that a call of SetVcp sends.
Signal(c) == [ask |-> req[c], at |-> Len(writes)]

\* What a write appends, and a signal, are of their types.
LEMMA WriteTypes ==
    ASSUME TypeOK, NEW c \in Client, req[c] \in Requests,
           WriteVcp(c) \/ SignalChange(c)
    PROVE  writes' \in Seq(Requests) /\ signals' \in Seq([ask : Requests, at : Nat])
<1>1. writes \in Seq(Requests) /\ signals \in Seq([ask : Requests, at : Nat])
  BY DEF TypeOK
<1>2. writes' = writes \/ writes' = Append(writes, req[c])
  BY DEF WriteVcp, SignalChange
<1>3. signals' = signals \/ signals' = Append(signals, Signal(c))
  BY DEF WriteVcp, SignalChange, Signal
<1>4. Signal(c) \in [ask : Requests, at : Nat]
  BY <1>1 DEF Signal
<1>5. writes' \in Seq(Requests)
  BY <1>1, <1>2
<1>6. Append(signals, Signal(c)) \in Seq([ask : Requests, at : Nat])
  BY <1>1, <1>4
<1>7. QED
  BY <1>1, <1>3, <1>5, <1>6

\* A step of a call changes its own place only, to another of the places.
LEMMA PlaceTypes ==
    ASSUME TypeOK, CallsInv, NEW c \in Client, Step(c)
    PROVE  \E place \in Place : pc' = [pc EXCEPT ![c] = place]
<1>. USE DEF Goto, Place
<1>1. CASE EnterShared(c) \/ EnterExclusive(c)
  BY <1>1 DEF EnterShared, EnterExclusive, FirstStep
<1>2. CASE OpenDisplay(c)
  <2>1. req[c].op \in {"read", "read_all", "write"}
    BY <1>2 DEF OpenDisplay, CallsInv, CallInv, PlaceInv
  <2>2. QED
    BY <1>2, <2>1 DEF OpenDisplay
<1>3. CASE \E r \in Requests : Call(c, r)
  BY <1>3 DEF Call
<1>4. CASE Redetect(c) \/ ListDisplays(c) \/ SetProperty(c)
  BY <1>4 DEF Redetect, ListDisplays, SetProperty
<1>5. CASE FindDisplay(c) \/ Inspect(c) \/ ReadDisplay(c)
  BY <1>5 DEF FindDisplay, Inspect, ReadDisplay
<1>6. CASE ReadAll(c)
  <2>1. pc' = pc \/ pc' = [pc EXCEPT ![c] = "close"]
    BY <1>6 DEF ReadAll
  <2>2. pc = [pc EXCEPT ![c] = pc[c]] /\ pc[c] \in Place
    BY Zenon DEF TypeOK
  <2>3. QED
    BY <2>1, <2>2
<1>7. CASE EnableVerify(c) \/ WriteVcp(c) \/ SignalChange(c)
  BY <1>7 DEF EnableVerify, WriteVcp, SignalChange
<1>8. CASE CloseDisplay(c) \/ Reply(c)
  BY <1>8 DEF CloseDisplay, Reply
<1>9. QED
  BY <1>1, <1>2, <1>3, <1>4, <1>5, <1>6, <1>7, <1>8 DEF Step, Wait, Work

\* The list, the lock and the flags keep their types.
LEMMA SharedTypes ==
    ASSUME TypeOK, CallsInv, NEW c \in Client, Step(c)
    PROVE  /\ attached' \in Lists
           /\ list' \in Lists
           /\ readers' \subseteq Client
           /\ writer' \in Client \cup {None}
           /\ verify' \in BOOLEAN
           /\ dynamicSleep' \in BOOLEAN
<1>1. attached' = attached /\ list' \in {list, attached}
  BY DEF Step, Wait, Work, Call, EnterShared, EnterExclusive, OpenDisplay,
         Redetect, ListDisplays, SetProperty, FindDisplay, Inspect,
         ReadDisplay, ReadAll, EnableVerify, WriteVcp, SignalChange,
         CloseDisplay, Reply, world
<1>2. readers' \subseteq readers \cup {c} /\ writer' \in {writer, c, None}
  BY LockStep DEF EnterShared, EnterExclusive, Reply
<1>3. verify' \in BOOLEAN /\ dynamicSleep' \in BOOLEAN
  <2>1. pc[c] # "idle" => req[c] \in Requests
    BY DEF CallsInv, CallInv, LockInv
  <2>2. CASE EnableVerify(c)
    BY <2>1, <2>2, DbusAssumption DEF EnableVerify, VerifyArgument, TypeOK
  <2>3. CASE SetProperty(c)
    BY <2>1, <2>3, DbusAssumption DEF SetProperty, TypeOK, lib
  <2>4. CASE ~EnableVerify(c) /\ ~SetProperty(c)
    <3>1. UNCHANGED <<verify, dynamicSleep>>
      BY <2>4 DEF Step, Wait, Work, Call, EnterShared, EnterExclusive,
         OpenDisplay, Redetect, ListDisplays, FindDisplay, Inspect,
         ReadDisplay, ReadAll, WriteVcp, SignalChange, CloseDisplay, Reply, lib
    <3>2. QED
      BY <3>1 DEF TypeOK
  <2>5. QED
    BY <2>2, <2>3, <2>4
<1>4. QED
  BY <1>1, <1>2, <1>3 DEF TypeOK

\* So does what a call carries along.
LEMMA CallTypes ==
    ASSUME TypeOK, CallsInv, NEW c \in Client, Step(c)
    PROVE  /\ req' \in [Client -> Requests \cup {None}]
           /\ target' \in [Client -> Entries \cup {None}]
           /\ handle' \in [Client -> Entries \cup {None}]
           /\ shown' \in [Client -> SUBSET SUBSET Entries]
           /\ found' \in [Client -> SUBSET Lists]
<1>. DEFINE PartsOK ==
       /\ attached \in Lists
       /\ list \in Lists
       /\ req \in [Client -> Requests \cup {None}]
       /\ target \in [Client -> Entries \cup {None}]
       /\ handle \in [Client -> Entries \cup {None}]
       /\ shown \in [Client -> SUBSET SUBSET Entries]
       /\ found \in [Client -> SUBSET Lists]
<1>0. PartsOK
  BY DEF TypeOK
<1>. USE <1>0 DEF lib, history
<1>1. CASE \E r \in Requests : Call(c, r)
  BY <1>1 DEF Call
<1>2. CASE ListDisplays(c)
  <2>1. PICK result \in {{Shown(list, req[c].all)}, {}} :
          shown' = [shown EXCEPT ![c] = result]
    BY <1>2 DEF ListDisplays
  <2>2. result \in SUBSET SUBSET Entries
    BY <2>1, Lookup
  <2>3. QED
    BY <1>2, <2>1, <2>2 DEF ListDisplays
<1>3. CASE FindDisplay(c)
  <2>1. PICK d \in FindById(list, req[c]) \cup {None} :
          target' = [target EXCEPT ![c] = d]
    BY <1>3 DEF FindDisplay
  <2>2. d \in Entries \cup {None}
    BY <2>1, Lookup
  <2>3. QED
    BY <1>3, <2>1, <2>2 DEF FindDisplay
<1>4. CASE OpenDisplay(c) \/ CloseDisplay(c)
  BY <1>4 DEF OpenDisplay, CloseDisplay
<1>5. CASE EnterShared(c) \/ EnterExclusive(c) \/ Redetect(c) \/ SetProperty(c)
  BY <1>5 DEF EnterShared, EnterExclusive, Redetect, SetProperty
<1>6. CASE Inspect(c) \/ ReadDisplay(c) \/ ReadAll(c) \/ EnableVerify(c)
  BY <1>6 DEF Inspect, ReadDisplay, ReadAll, EnableVerify
<1>7. CASE WriteVcp(c) \/ SignalChange(c)
  BY <1>7 DEF WriteVcp, SignalChange
<1>8. CASE Reply(c)
  BY <1>8 DEF Reply
<1>9. QED
  BY <1>1, <1>2, <1>3, <1>4, <1>5, <1>6, <1>7, <1>8 DEF Step, Wait, Work

\* GetMultipleVcp counts down to 0 and no further.
LEMMA CountTypes ==
    ASSUME TypeOK, CallsInv, NEW c \in Client, Step(c)
    PROVE  todo' \in [Client -> Nat]
<1>1. todo \in [Client -> Nat] /\ todo[c] \in Nat
  BY DEF TypeOK
<1>2. CASE OpenDisplay(c)
  <2>1. req[c] \in Requests
    BY <1>2 DEF OpenDisplay, CallsInv, CallInv, LockInv
  <2>2. req[c].codes \in Nat
    BY <2>1, DbusAssumption
  <2>3. QED
    BY <1>1, <1>2, <2>2 DEF OpenDisplay
<1>3. CASE ReadAll(c)
  BY <1>1, <1>3 DEF ReadAll
<1>4. CASE Reply(c)
  BY <1>1, <1>4 DEF Reply
<1>5. CASE ~OpenDisplay(c) /\ ~ReadAll(c) /\ ~Reply(c)
  <2>1. todo' = todo
    BY <1>5 DEF Step, Wait, Work, Call, EnterShared, EnterExclusive, Redetect,
       ListDisplays, SetProperty, FindDisplay, Inspect, ReadDisplay,
       EnableVerify, WriteVcp, SignalChange, CloseDisplay, lib
  <2>2. QED
    BY <1>1, <2>1
<1>6. QED
  BY <1>2, <1>3, <1>4, <1>5

\* A step of a call keeps the type invariant.
LEMMA Types ==
    ASSUME TypeOK, CallsInv, NEW c \in Client, Step(c)
    PROVE  TypeOK'
<1>1. pc' \in [Client -> Place]
  BY PlaceTypes DEF TypeOK
<1>2. writes' \in Seq(Requests) /\ signals' \in Seq([ask : Requests, at : Nat])
  <2>1. CASE WriteVcp(c) \/ SignalChange(c)
    <3>1. req[c] \in Requests
      BY <2>1 DEF WriteVcp, SignalChange, CallsInv, CallInv, LockInv
    <3>2. QED
      BY <2>1, <3>1, WriteTypes
  <2>2. CASE ~WriteVcp(c) /\ ~SignalChange(c)
    <3>1. UNCHANGED <<writes, signals>>
      BY <2>2 DEF Step, Wait, Work, Call, EnterShared, EnterExclusive,
         OpenDisplay, Redetect, ListDisplays, SetProperty, FindDisplay,
         Inspect, ReadDisplay, ReadAll, EnableVerify, CloseDisplay, Reply,
         history
    <3>2. QED
      BY <3>1 DEF TypeOK
  <2>3. QED
    BY <2>1, <2>2
<1>3. QED
  BY <1>1, <1>2, SharedTypes, CallTypes, CountTypes DEF TypeOK

----------------------------------------------------------------------------
(* The invariant of the calls                                              *)

\* zbus's lock is held as the methods are declared.
LEMMA LockKept ==
    ASSUME TypeOK, CallsInv, NEW c \in Client, Step(c)
    PROVE  /\ writer' # None => readers' = {}
           /\ LockInv(c)'
           /\ \A o \in Client \ {c} : LockInv(o)'
<1>0. /\ writer # None => readers = {}
      /\ \A o \in Client : LockInv(o)
      /\ pc \in [Client -> Place] /\ None \notin Client /\ None \notin Requests
  BY DbusAssumption DEF CallsInv, CallInv, TypeOK
<1>1. CASE EnterShared(c)
  <2>1. /\ pc[c] = "lock" /\ ~Exclusive(req[c]) /\ writer = None
        /\ readers' = readers \cup {c} /\ writer' = writer /\ req' = req
        /\ pc' = [pc EXCEPT ![c] = FirstStep(req[c].op)]
    BY <1>1 DEF EnterShared, Goto
  <2>2. FirstStep(req[c].op) \in Inside
    BY DEF FirstStep, Inside
  <2>3. QED
    BY <1>0, <2>1, <2>2 DEF LockInv, Inside
<1>2. CASE EnterExclusive(c)
  <2>1. /\ pc[c] = "lock" /\ Exclusive(req[c]) /\ writer = None
        /\ readers = {} /\ readers' = readers /\ writer' = c /\ req' = req
        /\ pc' = [pc EXCEPT ![c] = FirstStep(req[c].op)]
    BY <1>2 DEF EnterExclusive, Goto
  <2>2. FirstStep(req[c].op) \in Inside
    BY DEF FirstStep, Inside
  <2>3. QED
    BY <1>0, <2>1, <2>2 DEF LockInv, Inside
<1>3. CASE Reply(c)
  <2>1. /\ pc[c] = "reply" /\ pc' = [pc EXCEPT ![c] = "idle"]
        /\ readers' = readers \ {c}
        /\ writer' = IF writer = c THEN None ELSE writer
        /\ req' = [req EXCEPT ![c] = None]
    BY <1>3 DEF Reply, Goto
  <2>2. \A o \in Client \ {c} : pc'[o] = pc[o] /\ req'[o] = req[o]
    BY Local, <1>3 DEF Reply
  <2>3. pc'[c] = "idle"
    BY <1>0, <2>1
  <2>4. QED
    BY <1>0, <2>1, <2>2, <2>3 DEF LockInv, Inside
<1>4. CASE \E r \in Requests : Call(c, r)
  <2>1. PICK r \in Requests : Call(c, r)
    BY <1>4
  <2>2. /\ pc[c] = "idle" /\ pc'[c] = "lock" /\ req'[c] = r
        /\ readers' = readers /\ writer' = writer
    BY <2>1 DEF Call, Goto, TypeOK, zlock
  <2>3. \A o \in Client \ {c} : pc'[o] = pc[o] /\ req'[o] = req[o]
    BY Local
  <2>4. QED
    BY <1>0, <2>2, <2>3 DEF LockInv, Inside
<1>5. CASE /\ ~EnterShared(c) /\ ~EnterExclusive(c) /\ ~Reply(c)
           /\ ~ \E r \in Requests : Call(c, r)
  <2>1. UNCHANGED <<readers, writer>>
    BY <1>5, LockStep
  <2>2. \A o \in Client \ {c} : pc'[o] = pc[o] /\ req'[o] = req[o]
    BY Local
  <2>3. req' = req /\ pc[c] \in Inside /\ pc'[c] \in Inside
    <3>1. OpenDisplay(c) => req[c].op \in Inside
      BY DEF OpenDisplay, CallsInv, CallInv, PlaceInv, Inside
    <3>2. req' = req /\ pc[c] \in Inside
      BY <1>5 DEF Step, Wait, Work, OpenDisplay, Redetect, ListDisplays,
         SetProperty, FindDisplay, Inspect, ReadDisplay, ReadAll, EnableVerify,
         WriteVcp, SignalChange, CloseDisplay, Inside
    <3>3. \/ pc' = pc
          \/ pc' = [pc EXCEPT ![c] = req[c].op] /\ OpenDisplay(c)
          \/ \E place \in Inside : pc' = [pc EXCEPT ![c] = place]
      BY <1>5 DEF Step, Wait, Work, OpenDisplay, Redetect, ListDisplays,
         SetProperty, FindDisplay, Inspect, ReadDisplay, ReadAll, EnableVerify,
         WriteVcp, SignalChange, CloseDisplay, Goto, Inside
    <3>4. pc'[c] \in Inside
      <4>1. \A place : [pc EXCEPT ![c] = place][c] = place
        BY <1>0
      <4>2. CASE pc' = [pc EXCEPT ![c] = req[c].op] /\ OpenDisplay(c)
        BY <3>1, <4>1, <4>2
      <4>3. CASE \E place \in Inside : pc' = [pc EXCEPT ![c] = place]
        BY <4>1, <4>3
      <4>4. QED
        BY <3>2, <3>3, <4>2, <4>3
    <3>5. QED
      BY <3>2, <3>4
  <2>4. pc[c] # "idle"
    BY <2>3 DEF Inside
  <2>5. QED
    BY <1>0, <2>1, <2>2, <2>3, <2>4 DEF LockInv, Exclusive
<1>6. QED
  BY <1>1, <1>2, <1>3, <1>4, <1>5

\* What a step leaves a call with, as far as the calls of others and the lock
\* are not concerned.
LEMMA Own ==
    ASSUME TypeOK, CallsInv, NEW c \in Client, Step(c)
    PROVE  PlaceInv(c)' /\ WriteInv(c)' /\ DetectInv(c)'
<1>0. /\ PlaceInv(c) /\ WriteInv(c) /\ DetectInv(c)
      /\ pc[c] # "idle" => req[c] \in Requests
  BY DEF CallsInv, CallInv, LockInv
<1>. USE <1>0 DEF PlaceInv, WriteInv, DetectInv, Goto, world, zlock, lib, history
<1>1. ASSUME NEW r \in Requests, Call(c, r)
      PROVE PlaceInv(c)' /\ WriteInv(c)' /\ DetectInv(c)'
  <2>1. /\ pc[c] = "idle" /\ pc'[c] = "lock" /\ shown' = shown
        /\ req'[c] = r /\ attached' = attached
        /\ found'[c] = IF r.op = "detect" THEN {attached} ELSE {}
    BY <1>1 DEF Call, TypeOK
  <2>2. QED
    BY <2>1
<1>2. CASE EnterShared(c) \/ EnterExclusive(c)
  <2>1. /\ pc[c] = "lock" /\ pc'[c] = FirstStep(req[c].op)
        /\ req' = req /\ attached' = attached /\ shown' = shown
        /\ found' = found
    BY <1>2 DEF EnterShared, EnterExclusive, TypeOK
  <2>2. req[c].op \in SharedOp \cup ExclusiveOp
    BY <2>1, DbusAssumption
  <2>3. QED
    BY <2>1, <2>2 DEF FirstStep, SharedOp, ExclusiveOp
<1>3. CASE Redetect(c)
  <2>1. /\ pc[c] = "redetect" /\ UNCHANGED <<attached, req, found, shown>>
        /\ \/ list' = attached /\ pc'[c] = "list"
           \/ pc'[c] = "reply"
    BY <1>3 DEF Redetect, TypeOK
  <2>2. QED
    BY <2>1
<1>4. CASE ListDisplays(c)
  <2>1. /\ pc[c] = "list" /\ UNCHANGED <<attached, list, req, found>>
        /\ pc'[c] = "reply" /\ shown'[c] \subseteq {Shown(list, req[c].all)}
    BY <1>4 DEF ListDisplays, TypeOK
  <2>2. QED
    BY <2>1
<1>5. CASE FindDisplay(c)
  <2>1. PICK d \in FindById(list, req[c]) \cup {None} :
          /\ target'[c] = d
          /\ pc'[c] = IF d = None THEN "reply"
                      ELSE IF req[c].op = "inspect" THEN "inspect" ELSE "open"
    BY <1>5 DEF FindDisplay, TypeOK
  <2>2. /\ pc[c] = "find"
        /\ UNCHANGED <<attached, list, req, found, shown, verify, handle>>
    BY <1>5 DEF FindDisplay
  <2>3. QED
    BY <2>1, <2>2
<1>6. CASE OpenDisplay(c)
  <2>1. /\ pc[c] = "open"
        /\ UNCHANGED <<attached, list, req, found, shown, verify, target>>
        /\ \/ handle'[c] = target[c] /\ pc'[c] = req[c].op
           \/ pc'[c] = "reply"
    BY <1>6 DEF OpenDisplay, TypeOK
  <2>2. QED
    BY <2>1
<1>7. CASE EnableVerify(c)
  <2>1. /\ pc[c] = "write" /\ pc'[c] = "transmit"
        /\ UNCHANGED <<attached, list, req, found, shown, handle>>
        /\ verify' = VerifyArgument(req[c])
    BY <1>7 DEF EnableVerify, TypeOK
  <2>2. VerifyArgument(req[c])' = VerifyArgument(req[c])
    BY <2>1 DEF VerifyArgument
  <2>3. QED
    BY <2>1, <2>2
<1>8. CASE WriteVcp(c) \/ SignalChange(c)
  <2>1. /\ pc[c] \in {"transmit", "signal"} /\ pc'[c] \in {"signal", "close"}
        /\ UNCHANGED <<attached, list, req, found, shown>>
        /\ pc'[c] = "signal" => pc[c] = "transmit"
    BY <1>8 DEF WriteVcp, SignalChange, TypeOK
  <2>2. QED
    BY <2>1
<1>9. CASE Inspect(c) \/ ReadDisplay(c) \/ ReadAll(c) \/ CloseDisplay(c)
           \/ SetProperty(c)
  <2>1. /\ pc[c] \in {"inspect", "read", "read_all", "close", "set"}
        /\ pc'[c] \in {"reply", "close", "read_all"}
        /\ UNCHANGED <<attached, list, req, found, shown>>
    BY <1>9 DEF Inspect, ReadDisplay, ReadAll, CloseDisplay, SetProperty,
       TypeOK
  <2>2. QED
    BY <2>1
<1>10. CASE Reply(c)
  <2>1. pc'[c] = "idle" /\ shown'[c] = {}
    BY <1>10 DEF Reply, TypeOK
  <2>2. QED
    BY <2>1
<1>11. QED
  BY <1>1, <1>2, <1>3, <1>4, <1>5, <1>6, <1>7, <1>8, <1>9, <1>10
     DEF Step, Wait, Work

\* The types and zbus's lock are invariant together.
LEMMA Calls == Spec => [](TypeOK /\ CallsInv)
<1>1. Init => TypeOK /\ CallsInv
  <2>. SUFFICES ASSUME Init PROVE TypeOK /\ CallsInv
    OBVIOUS
  <2>1. TypeOK
    <3>1. attached \in Lists /\ list \in Lists /\ "idle" \in Place
      BY DEF Init, Place
    <3>2. writes \in Seq(Requests) /\ signals \in Seq([ask : Requests, at : Nat])
      BY DEF Init
    <3>3. /\ pc \in [Client -> Place]
          /\ req \in [Client -> Requests \cup {None}]
          /\ target \in [Client -> Entries \cup {None}]
          /\ handle \in [Client -> Entries \cup {None}]
          /\ todo \in [Client -> Nat]
      BY <3>1 DEF Init
    <3>4. QED
      BY <3>1, <3>2, <3>3 DEF Init, TypeOK
  <2>2. ASSUME NEW c \in Client PROVE CallInv(c)
    <3>1. pc[c] = "idle" /\ shown[c] = {} /\ readers = {} /\ writer # c
      BY DbusAssumption DEF Init
    <3>2. QED
      BY <3>1 DEF CallInv, LockInv, PlaceInv, WriteInv, DetectInv, Inside
  <2>3. QED
    BY <2>1, <2>2 DEF Init, CallsInv
<1>2. TypeOK /\ CallsInv /\ [Next]_vars => (TypeOK /\ CallsInv)'
  <2>. SUFFICES ASSUME TypeOK, CallsInv, [Next]_vars
                PROVE (TypeOK /\ CallsInv)'
    OBVIOUS
  <2>1. ASSUME NEW c \in Client, Step(c) PROVE (TypeOK /\ CallsInv)'
    <3>1. CallInv(c)'
      BY <2>1, LockKept, Own DEF CallInv
    <3>2. ASSUME NEW o \in Client \ {c} PROVE CallInv(o)'
      <4>1. /\ pc'[o] = pc[o]
            /\ req'[o] = req[o]
            /\ target'[o] = target[o]
            /\ handle'[o] = handle[o]
            /\ shown'[o] = shown[o]
            /\ found'[o] = found[o]
            /\ attached' = attached
            /\ verify' = verify \/ pc[c] = "write"
            /\ list' = list \/ (pc[c] = "redetect" /\ list' = attached)
        BY <2>1, Local
      <4>2. LockInv(o)'
        BY <2>1, LockKept
      <4>3. CallInv(o) /\ CallInv(c)
        BY DEF CallsInv
      <4>4. PlaceInv(o)'
        BY <4>1, <4>3 DEF CallInv, PlaceInv
      <4>5. DetectInv(o)'
        BY <4>1, <4>3 DEF CallInv, DetectInv
      <4>6. ASSUME pc[o] \in {"open", "write", "transmit"}, req[o].op = "write"
            PROVE verify' = verify /\ list' = list
        <5>1. writer = o
          BY <4>3, <4>6 DEF CallInv, LockInv, Inside, Exclusive, ExclusiveOp
        <5>2. writer # c /\ readers = {}
          BY <5>1, DbusAssumption DEF CallsInv
        <5>3. pc[c] \notin {"write", "redetect"}
          BY <4>3, <5>2 DEF CallInv, LockInv, Inside
        <5>4. QED
          BY <4>1, <5>3
      <4>7. WriteInv(o)'
        <5>1. pc[o] \in {"write", "transmit"} => req[o].op = "write"
          BY <4>3 DEF CallInv, PlaceInv
        <5>2. VerifyArgument(req[o])' = VerifyArgument(req[o])
          BY <4>1 DEF VerifyArgument
        <5>3. QED
          BY <4>1, <4>3, <4>6, <5>1, <5>2 DEF CallInv, WriteInv
      <4>8. QED
        BY <4>2, <4>4, <4>5, <4>7 DEF CallInv
    <3>3. writer' # None => readers' = {}
      BY <2>1, LockKept
    <3>4. QED
      BY <2>1, <3>1, <3>2, <3>3, Types DEF CallsInv
  <2>2. CASE Plug
    <3>1. PICK l \in Lists \ {attached} :
            /\ attached' = l
            /\ found' = [c \in Client |->
                           IF found[c] = {} THEN {} ELSE found[c] \cup {l}]
      BY <2>2 DEF Plug
    <3>2. /\ UNCHANGED <<list, readers, writer, pc, req, target, handle, todo>>
          /\ UNCHANGED <<verify, dynamicSleep, shown, writes, signals>>
      BY <2>2 DEF Plug, zlock, lib
    <3>3. TypeOK'
      BY <3>1, <3>2 DEF TypeOK
    <3>4. ASSUME NEW c \in Client PROVE CallInv(c)'
      <4>1. found[c] # {} => l \in found'[c]
        BY <3>1
      <4>2. found[c] \subseteq found'[c]
        BY <3>1
      <4>3. DetectInv(c)'
        BY <3>1, <3>2, <4>1, <4>2 DEF CallsInv, CallInv, DetectInv
      <4>4. LockInv(c)' /\ PlaceInv(c)' /\ WriteInv(c)'
        BY <3>2 DEF CallsInv, CallInv, LockInv, PlaceInv, WriteInv,
           VerifyArgument
      <4>5. QED
        BY <4>3, <4>4 DEF CallInv
    <3>5. QED
      BY <3>2, <3>3, <3>4 DEF CallsInv
  <2>3. CASE UNCHANGED vars
    BY <2>3 DEF vars, TypeOK, CallsInv, CallInv, LockInv, PlaceInv, WriteInv,
       DetectInv, VerifyArgument
  <2>4. QED
    BY <2>1, <2>2, <2>3 DEF Next, Step
<1>3. QED
  BY <1>1, <1>2, PTL DEF Spec

----------------------------------------------------------------------------
(* The theorems                                                            *)

\* The type invariant.
THEOREM Typing == Spec => []TypeOK
BY Calls, PTL

\* A write is verified as its own call's flags say, although the flag it goes
\* by is one for the whole library.
THEOREM OwnFlag == Spec => FlagIsOwn
<1>1. TypeOK /\ CallsInv /\ [Next]_vars =>
        [\A c \in Client : Writes(c) => verify = VerifyArgument(req[c])]_vars
  BY DEF CallsInv, CallInv, WriteInv, Writes, WriteVcp
<1>2. QED
  BY <1>1, Calls, PTL DEF Spec, FlagIsOwn

\* A write reaches what its request would find at that moment: no Detect comes
\* between the lookup and the write of SetVcp.
THEOREM CurrentWrites == Spec => WritesAreCurrent
<1>1. TypeOK /\ CallsInv /\ [Next]_vars =>
        [\A c \in Client :
           Writes(c) => handle[c] \in FindById(list, req[c])]_vars
  BY DEF CallsInv, CallInv, WriteInv, Writes, WriteVcp
<1>2. QED
  BY <1>1, Calls, PTL DEF Spec, WritesAreCurrent

\* Detect answers with what could be found during the call.
THEOREM FreshDetect == Spec => []DetectIsFresh
<1>1. CallsInv => DetectIsFresh
  BY DEF CallsInv, CallInv, DetectInv, DetectIsFresh
<1>2. QED
  BY <1>1, Calls, PTL

----------------------------------------------------------------------------
(* The order of the signals                                                *)

\* A call that is about to send its signal made the last write, and nobody has
\* told of that write yet.
Untold(c) ==
    /\ Len(writes) > 0
    /\ writes[Len(writes)] = req[c]
    /\ \A i \in 1..Len(signals) : signals[i].at < Len(writes)

SignalsInv ==
    /\ SignalsInOrder
    /\ \A c \in Client : pc[c] = "signal" => Untold(c)

\* Only one call at a time is between its write and its signal.
LEMMA OneSignaller ==
    ASSUME CallsInv, NEW c \in Client, NEW o \in Client \ {c},
           pc[c] \in {"transmit", "signal"}
    PROVE  pc[o] # "signal"
<1>1. ASSUME NEW d \in Client, pc[d] \in {"transmit", "signal"}
      PROVE writer = d
  BY <1>1 DEF CallsInv, CallInv, LockInv, PlaceInv, Inside, Exclusive,
     ExclusiveOp
<1>2. QED
  BY <1>1

\* A step of a call keeps the signals in the order of the writes: between a
\* write and its signal the writer is alone.
LEMMA SignalsStep ==
    ASSUME TypeOK, CallsInv, SignalsInv, NEW c \in Client, Step(c)
    PROVE  SignalsInv'
<1>0. /\ writes \in Seq(Requests)
      /\ signals \in Seq([ask : Requests, at : Nat])
      /\ pc \in [Client -> Place]
      /\ \A i \in 1..Len(signals) : signals[i].at \in 1..Len(writes)
  BY DEF TypeOK, SignalsInv, SignalsInOrder
<1>1. \A o \in Client \ {c} : pc'[o] = pc[o] /\ req'[o] = req[o]
  BY Local
<1>2. CASE writes' # writes
  <2>1. /\ pc[c] = "transmit" /\ pc'[c] = "signal" /\ req' = req
        /\ signals' = signals /\ writes' = Append(writes, req[c])
        /\ req[c] \in Requests
    BY <1>2 DEF Step, Wait, Work, Call, EnterShared, EnterExclusive,
       OpenDisplay, Redetect, ListDisplays, SetProperty, FindDisplay, Inspect,
       ReadDisplay, ReadAll, EnableVerify, WriteVcp, SignalChange,
       CloseDisplay, Reply, Goto, TypeOK, history, CallsInv, CallInv, LockInv
  <2>2. /\ Len(writes') = Len(writes) + 1
        /\ writes'[Len(writes')] = req[c]
        /\ \A k \in 1..Len(writes) : writes'[k] = writes[k]
    BY <1>0, <2>1
  <2>3. SignalsInOrder'
    BY <1>0, <2>1, <2>2 DEF SignalsInv, SignalsInOrder
  <2>4. Untold(c)'
    BY <1>0, <2>1, <2>2 DEF Untold
  <2>5. \A o \in Client \ {c} : pc'[o] # "signal"
    BY <1>1, <2>1, OneSignaller
  <2>6. QED
    BY <2>3, <2>4, <2>5 DEF SignalsInv
<1>3. CASE signals' # signals
  <2>1. /\ pc[c] = "signal" /\ pc'[c] = "close" /\ writes' = writes
        /\ signals' = Append(signals, Signal(c))
        /\ req[c] \in Requests
    BY <1>3 DEF Step, Wait, Work, Call, EnterShared, EnterExclusive,
       OpenDisplay, Redetect, ListDisplays, SetProperty, FindDisplay, Inspect,
       ReadDisplay, ReadAll, EnableVerify, WriteVcp, SignalChange,
       CloseDisplay, Reply, Goto, TypeOK, history, CallsInv, CallInv, LockInv,
       Signal
  <2>2. Signal(c) \in [ask : Requests, at : Nat]
    BY <1>0, <2>1 DEF Signal
  <2>3. /\ Len(signals') = Len(signals) + 1
        /\ signals'[Len(signals')] = Signal(c)
        /\ \A k \in 1..Len(signals) : signals'[k] = signals[k]
    BY <1>0, <2>1, <2>2
  <2>4. Signal(c).at = Len(writes) /\ Signal(c).ask = req[c]
    BY DEF Signal
  <2>5. Untold(c)
    BY <2>1 DEF SignalsInv
  <2>6. \A i \in 1..Len(signals') : i \in 1..Len(signals) \/ i = Len(signals')
    BY <1>0, <2>3
  <2>7. \A i \in 1..Len(signals') : /\ signals'[i].at \in 1..Len(writes)
                                    /\ signals'[i].ask = writes[signals'[i].at]
    BY <1>0, <2>3, <2>4, <2>5, <2>6 DEF SignalsInv, SignalsInOrder, Untold
  <2>8. \A i, j \in 1..Len(signals') : i < j => signals'[i].at < signals'[j].at
    <3>1. ASSUME NEW i \in 1..Len(signals'), NEW j \in 1..Len(signals'), i < j
          PROVE signals'[i].at < signals'[j].at
      <4>1. i \in 1..Len(signals)
        BY <1>0, <2>3, <3>1
      <4>2. CASE j \in 1..Len(signals)
        BY <2>3, <3>1, <4>1, <4>2 DEF SignalsInv, SignalsInOrder
      <4>3. CASE j = Len(signals')
        BY <2>3, <2>4, <2>5, <4>1, <4>3 DEF Untold
      <4>4. QED
        BY <2>6, <4>2, <4>3
    <3>2. QED
      BY <3>1
  <2>9. \A o \in Client : pc'[o] # "signal"
    BY <1>1, <2>1, OneSignaller
  <2>10. QED
    BY <2>1, <2>7, <2>8, <2>9 DEF SignalsInv, SignalsInOrder
<1>4. CASE writes' = writes /\ signals' = signals
  <2>1. pc'[c] = "signal" => pc[c] = "signal" /\ req' = req
    BY <1>4, PlaceTypes DEF Step, Wait, Work, Call, EnterShared,
       EnterExclusive, FirstStep, OpenDisplay, Redetect, ListDisplays,
       SetProperty, FindDisplay, Inspect, ReadDisplay, ReadAll, EnableVerify,
       WriteVcp, SignalChange, CloseDisplay, Reply, Goto, TypeOK, Place,
       CallsInv, CallInv, PlaceInv
  <2>2. \A o \in Client : pc'[o] = "signal" => pc[o] = "signal" /\ req'[o] = req[o]
    BY <1>1, <2>1
  <2>3. QED
    BY <1>4, <2>2 DEF SignalsInv, SignalsInOrder, Untold
<1>5. QED
  BY <1>2, <1>3, <1>4

\* Signals tell of writes truly, at most once and in the order of the writes.
THEOREM OrderedSignals == Spec => []SignalsInOrder
<1>1. Init => SignalsInv
  BY DEF Init, SignalsInv, SignalsInOrder
<1>2. TypeOK /\ CallsInv /\ SignalsInv /\ [Next]_vars => SignalsInv'
  <2>. SUFFICES ASSUME TypeOK, CallsInv, SignalsInv, [Next]_vars
                PROVE SignalsInv'
    OBVIOUS
  <2>1. ASSUME NEW c \in Client, Step(c) PROVE SignalsInv'
    BY <2>1, SignalsStep
  <2>2. CASE Plug \/ UNCHANGED vars
    <3>1. UNCHANGED <<pc, req, writes, signals>>
      BY <2>2 DEF Plug, vars
    <3>2. QED
      BY <3>1 DEF SignalsInv, SignalsInOrder, Untold
  <2>3. QED
    BY <2>1, <2>2 DEF Next, Step
<1>3. SignalsInv => SignalsInOrder
  BY DEF SignalsInv
<1>4. QED
  BY <1>1, <1>2, <1>3, Calls, PTL DEF Spec

----------------------------------------------------------------------------
(* Displays that are open, and calls that wait for them                    *)

\* The places of a method that has its display open.
Holding == {"read", "read_all", "write", "transmit", "signal", "close"}

HandleInv(c) ==
    /\ handle[c] # None <=> pc[c] \in Holding
    /\ pc[c] = "open" => target[c] # None

HandlesInv ==
    /\ \A c \in Client : HandleInv(c)
    /\ \A c, o \in Client :
         c # o /\ handle[c] # None /\ handle[o] # None
           => handle[c].dref # handle[o].dref

\* A method has a display open exactly at the places in Holding, and opens only
\* one that nobody has open.
LEMMA HandleStep ==
    ASSUME TypeOK, CallsInv, HandlesInv, NEW c \in Client, Step(c)
    PROVE  /\ HandleInv(c)'
           /\ handle'[c] \in {None, handle[c]} \/ Free(handle'[c])
<1>0. /\ HandleInv(c) /\ PlaceInv(c)
      /\ pc \in [Client -> Place] /\ DOMAIN handle = Client
      /\ DOMAIN target = Client
      /\ \A place : [pc EXCEPT ![c] = place][c] = place
      /\ "idle" \notin Holding /\ "lock" \notin Holding
      /\ "open" \notin Holding /\ "reply" \notin Holding
  BY DEF HandlesInv, CallsInv, CallInv, TypeOK, Holding
<1>. USE DEF Goto, zlock, lib, world, history
<1>1. CASE \E r \in Requests : Call(c, r)
  BY <1>0, <1>1 DEF Call, HandleInv
<1>2. CASE EnterShared(c) \/ EnterExclusive(c)
  <2>1. /\ UNCHANGED <<handle, target>> /\ pc[c] = "lock"
        /\ pc' = [pc EXCEPT ![c] = FirstStep(req[c].op)]
    BY <1>2 DEF EnterShared, EnterExclusive
  <2>2. FirstStep(req[c].op) \in {"redetect", "list", "set", "reply", "find"}
    BY DEF FirstStep
  <2>3. pc'[c] \in {"redetect", "list", "set", "reply", "find"}
    BY <1>0, <2>1, <2>2
  <2>4. QED
    BY <1>0, <2>1, <2>3 DEF HandleInv, Holding
<1>3. CASE OpenDisplay(c)
  <2>1. /\ pc[c] = "open" /\ Free(target[c]) /\ target' = target
        /\ \/ /\ handle' = [handle EXCEPT ![c] = target[c]]
              /\ pc' = [pc EXCEPT ![c] = req[c].op]
           \/ /\ handle' = handle
              /\ pc' = [pc EXCEPT ![c] = "reply"]
    BY <1>3 DEF OpenDisplay
  <2>2. req[c].op \in {"read", "read_all", "write"} /\ target[c] # None
    BY <1>0, <2>1 DEF PlaceInv, HandleInv
  <2>3. CASE /\ handle' = [handle EXCEPT ![c] = target[c]]
             /\ pc' = [pc EXCEPT ![c] = req[c].op]
    <3>1. handle'[c] = target[c] /\ pc'[c] = req[c].op
      BY <1>0, <2>3
    <3>2. QED
      BY <2>1, <2>2, <3>1 DEF HandleInv, Holding
  <2>4. CASE handle' = handle /\ pc' = [pc EXCEPT ![c] = "reply"]
    <3>1. pc'[c] = "reply"
      BY <1>0, <2>4
    <3>2. QED
      BY <1>0, <2>1, <2>4, <3>1 DEF HandleInv
  <2>5. QED
    BY <2>1, <2>3, <2>4
<1>4. CASE Redetect(c) \/ ListDisplays(c) \/ SetProperty(c) \/ Inspect(c)
  <2>1. /\ UNCHANGED <<handle, target>>
        /\ pc[c] \in {"redetect", "list", "set", "inspect"}
        /\ pc' = [pc EXCEPT ![c] = "list"] \/ pc' = [pc EXCEPT ![c] = "reply"]
    BY <1>4 DEF Redetect, ListDisplays, SetProperty, Inspect
  <2>2. pc'[c] \in {"list", "reply"}
    BY <1>0, <2>1
  <2>3. QED
    BY <1>0, <2>1, <2>2 DEF HandleInv, Holding
<1>5. CASE FindDisplay(c)
  <2>1. PICK d : /\ pc[c] = "find" /\ handle' = handle
                 /\ target' = [target EXCEPT ![c] = d]
                 /\ pc' = [pc EXCEPT ![c] =
                       IF d = None THEN "reply"
                       ELSE IF req[c].op = "inspect" THEN "inspect" ELSE "open"]
    BY <1>5 DEF FindDisplay
  <2>2. /\ target'[c] = d
        /\ pc'[c] \in {"reply", "inspect", "open"}
        /\ pc'[c] = "open" => d # None
    BY <1>0, <2>1
  <2>3. QED
    BY <1>0, <2>1, <2>2 DEF HandleInv, Holding
<1>6. CASE ReadDisplay(c) \/ EnableVerify(c) \/ WriteVcp(c) \/ SignalChange(c)
  <2>1. /\ handle' = handle /\ pc[c] \in Holding
        /\ \/ pc' = [pc EXCEPT ![c] = "close"]
           \/ pc' = [pc EXCEPT ![c] = "transmit"]
           \/ pc' = [pc EXCEPT ![c] = "signal"]
    BY <1>6 DEF ReadDisplay, EnableVerify, WriteVcp, SignalChange, Holding
  <2>2. pc'[c] \in Holding /\ pc'[c] # "open"
    BY <1>0, <2>1 DEF Holding
  <2>3. QED
    BY <1>0, <2>1, <2>2 DEF HandleInv
<1>7. CASE ReadAll(c)
  <2>1. /\ handle' = handle /\ pc[c] = "read_all"
        /\ pc' = pc \/ pc' = [pc EXCEPT ![c] = "close"]
    BY <1>7 DEF ReadAll
  <2>2. pc'[c] \in {"read_all", "close"}
    BY <1>0, <2>1
  <2>3. QED
    BY <1>0, <2>1, <2>2 DEF HandleInv, Holding
<1>8. CASE CloseDisplay(c)
  <2>1. handle'[c] = None /\ pc'[c] = "reply"
    BY <1>0, <1>8 DEF CloseDisplay
  <2>2. QED
    BY <1>0, <2>1 DEF HandleInv
<1>9. CASE Reply(c)
  <2>1. handle' = handle /\ pc[c] = "reply" /\ pc'[c] = "idle"
    BY <1>0, <1>9 DEF Reply
  <2>2. QED
    BY <1>0, <2>1 DEF HandleInv
<1>10. QED
  BY <1>1, <1>2, <1>3, <1>4, <1>5, <1>6, <1>7, <1>8, <1>9 DEF Step, Wait, Work

\* A display is open for one call at a time, and only from the moment its
\* method opened it to the drop of its DisplayHandle: no way out of a method,
\* an early return of GetMultipleVcp included, leaves it open.
THEOREM HandlesClosed == Spec => []HandlesInv
<1>1. Init => HandlesInv
  BY DEF Init, HandlesInv, HandleInv, Holding
<1>2. TypeOK /\ CallsInv /\ HandlesInv /\ [Next]_vars => HandlesInv'
  <2>. SUFFICES ASSUME TypeOK, CallsInv, HandlesInv, [Next]_vars
                PROVE  HandlesInv'
    OBVIOUS
  <2>1. ASSUME NEW c \in Client, Step(c) PROVE HandlesInv'
    <3>1. \A o \in Client \ {c} : /\ pc'[o] = pc[o] /\ target'[o] = target[o]
                                  /\ handle'[o] = handle[o]
      BY <2>1, Local
    <3>2. /\ HandleInv(c)'
          /\ handle'[c] \in {None, handle[c]} \/ Free(handle'[c])
      BY <2>1, HandleStep
    <3>3. \A d \in Client : HandleInv(d)'
      BY <3>1, <3>2 DEF HandlesInv, HandleInv
    <3>4. ASSUME NEW o \in Client \ {c}, handle'[c] # None, handle'[o] # None
          PROVE  handle'[c].dref # handle'[o].dref
      <4>1. handle'[o] = handle[o]
        BY <3>1
      <4>2. CASE handle'[c] = handle[c]
        BY <3>4, <4>1, <4>2 DEF HandlesInv
      <4>3. CASE Free(handle'[c])
        BY <3>4, <4>1, <4>3 DEF Free
      <4>4. QED
        BY <3>2, <3>4, <4>2, <4>3
    <3>5. ASSUME NEW d \in Client, NEW o \in Client \ {d},
                 handle'[d] # None, handle'[o] # None
          PROVE  handle'[d].dref # handle'[o].dref
      <4>1. CASE d = c
        BY <3>4, <3>5, <4>1
      <4>2. CASE o = c
        BY <3>4, <3>5, <4>2
      <4>3. CASE d # c /\ o # c
        BY <3>1, <3>5, <4>3 DEF HandlesInv
      <4>4. QED
        BY <4>1, <4>2, <4>3
    <3>6. QED
      BY <3>3, <3>5 DEF HandlesInv
  <2>2. CASE Plug \/ UNCHANGED vars
    BY <2>2 DEF Plug, lib, vars, HandlesInv, HandleInv
  <2>3. QED
    BY <2>1, <2>2 DEF Next, Step
<1>3. QED
  BY <1>1, <1>2, Calls, PTL DEF Spec

\* A call can go on unless it has to wait, for zbus's lock or for a display.
CanStep(c) ==
    /\ pc[c] # "idle"
    /\ pc[c] = "lock" =>
         writer = None /\ (Exclusive(req[c]) => readers = {})
    /\ pc[c] = "open" => Free(target[c])

\* Calls never all wait for each other: who waits for zbus's lock waits for a
\* call inside it, who waits there for a display waits for a call that has it
\* open, and that one waits for nothing.  The two locks are taken in one order,
\* and no method opens a second display.
THEOREM NoDeadlock ==
    Spec => []((\E c \in Client : pc[c] # "idle")
                 => \E o \in Client : CanStep(o))
<1>1. TypeOK /\ CallsInv /\ HandlesInv
        => ((\E c \in Client : pc[c] # "idle") => \E o \in Client : CanStep(o))
  <2>. SUFFICES ASSUME TypeOK, CallsInv, HandlesInv,
                       NEW c \in Client, pc[c] # "idle"
                PROVE  \E o \in Client : CanStep(o)
    OBVIOUS
  <2>1. ASSUME NEW o \in Client, pc[o] \in Inside
        PROVE  \E p \in Client : CanStep(p)
    <3>1. CASE pc[o] = "open" /\ ~Free(target[o])
      <4>1. PICK p \in Client : handle[p] # None
        BY <3>1 DEF Free
      <4>2. pc[p] \in Holding
        BY <4>1 DEF HandlesInv, HandleInv
      <4>3. QED
        BY <4>2 DEF CanStep, Holding
    <3>2. CASE ~(pc[o] = "open" /\ ~Free(target[o]))
      BY <2>1, <3>2 DEF CanStep, Inside
    <3>3. QED
      BY <3>1, <3>2
  <2>2. CASE writer # None
    <3>1. writer \in Client /\ pc[writer] \in Inside
      BY <2>2 DEF TypeOK, CallsInv, CallInv, LockInv
    <3>2. QED
      BY <2>1, <3>1
  <2>3. CASE readers # {}
    <3>1. PICK o \in Client : pc[o] \in Inside
      BY <2>3 DEF TypeOK, CallsInv, CallInv, LockInv
    <3>2. QED
      BY <2>1, <3>1
  <2>4. CASE writer = None /\ readers = {}
    <3>1. pc[c] \in Inside \/ CanStep(c)
      BY <2>4 DEF TypeOK, Place, Inside, CanStep
    <3>2. QED
      BY <2>1, <3>1
  <2>5. QED
    BY <2>2, <2>3, <2>4
<1>2. QED
  BY <1>1, Calls, HandlesClosed, PTL
==============================================================================
