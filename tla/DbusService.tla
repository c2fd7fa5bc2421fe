------------------------------ MODULE DbusService ------------------------------
(***************************************************************************)
(* The D-Bus daemon: the same backend behind one zbus object, in a process *)
(* of its own.  It has no mutex and no watch.  What orders its calls is    *)
(* the lock that zbus keeps around the object, which methods that take     *)
(* &self share and those that take &mut self have to themselves, replies   *)
(* included.  Calls under the shared lock are interleaved freely here; an  *)
(* executor with one thread does less than that.                           *)
(*                                                                         *)
(* libddcutil's list changes only when a client asks for Detect.           *)
(***************************************************************************)
EXTENDS DisplayList, FiniteSets

CONSTANTS Client,     \* calls that can be under way at a time
          Lists,      \* what a detection of displays may come to find
          Requests,   \* the calls clients make
          MaxWrites   \* no call of SetVcp once so many values are written

(* A request is [op, number, edid, prefix, codes, noVerify, all, value]:    *)
(* flags are taken apart, codes counts the features of GetMultipleVcp, and  *)
(* value is what a property is set to.  Both identifiers are always given.  *)
SharedOp == {"detect", "list", "inspect", "read", "read_all", "get"}
ExclusiveOp == {"write", "set"}

Entries == UNION {{l[i] : i \in DOMAIN l} : l \in Lists}

ASSUME DbusAssumption ==
    /\ Lists \subseteq Seq(Entries)
    /\ \A r \in Requests : /\ r.op \in SharedOp \cup ExclusiveOp
                           /\ r.number # None /\ r.edid # None
                           /\ r.prefix \in BOOLEAN
                           /\ r.noVerify \in BOOLEAN
                           /\ r.all \in BOOLEAN
                           /\ r.value \in BOOLEAN
                           /\ r.codes \in Nat
    /\ MaxWrites \in Nat
    /\ None \notin Client \cup Entries \cup Requests

VARIABLES
    attached,     \* what a detection would find now
    list,         \* libddcutil's list
    readers,      \* the calls that share zbus's lock
    writer,       \* the call that has it to itself, or None
    pc,           \* where each call is
    req,          \* the request each call serves, or None
    target,       \* the entry find_display settled on, or None
    handle,       \* the entry whose display is open, or None
    todo,         \* the features GetMultipleVcp has still to read
    verify,       \* libddcutil's flag (ddca_enable_verify)
    dynamicSleep, \* the fields of DdcCiDbusService: dynamic_sleep
    shown,        \* the listing a call returns: a set of at most one
    \* History variables:
    found,        \* what a detection would have found since each Detect began
    writes,       \* the requests of the successful writes
    signals       \* the signals sent: [ask, at], at counting the writes by then

world == <<attached, list>>
zlock == <<readers, writer>>
lib == <<target, handle, todo, verify>>
history == <<found, writes, signals>>
vars == <<attached, list, readers, writer, pc, req, target, handle, todo,
          verify, dynamicSleep, shown, found, writes, signals>>

Init ==
    /\ attached \in Lists
    /\ list = attached
    /\ readers = {}
    /\ writer = None
    /\ pc = [c \in Client |-> "idle"]
    /\ req = [c \in Client |-> None]
    /\ target = [c \in Client |-> None]
    /\ handle = [c \in Client |-> None]
    /\ todo = [c \in Client |-> 0]
    /\ verify \in BOOLEAN
    /\ dynamicSleep = FALSE
    /\ shown = [c \in Client |-> {}]
    /\ found = [c \in Client |-> {}]
    /\ writes = <<>>
    /\ signals = <<>>

Goto(c, place) == pc' = [pc EXCEPT ![c] = place]

----------------------------------------------------------------------------
(* Slips.  Each operator here stands in for one definition below when the  *)
(* properties are tried out on it; the specification uses none of them.    *)

\* set_vcp declared with &self, like its neighbours.
SetVcpShared(r) == r.op = "set"

\* force_redetect not passed on.
NotForced(op) == IF op \in {"detect", "list"} THEN "list"
                 ELSE IF op = "set" THEN op
                 ELSE IF op = "get" THEN "reply" ELSE "find"

\* The signal left to a task of its own, the lock not kept for it.
WriteVcpUnlocking(c) ==
    /\ pc[c] = "transmit"
    /\ \/ /\ writes' = Append(writes, req[c])
          /\ writer' = None
          /\ Goto(c, "signal")
       \/ /\ UNCHANGED <<writes, writer>>
          /\ Goto(c, "close")
    /\ UNCHANGED <<world, readers, req, lib, dynamicSleep, shown, found,
                   signals>>

\* A loop over the features that counts one too many.
ReadAllOn(c) ==
    /\ pc[c] = "read_all"
    /\ \/ /\ todo' = [todo EXCEPT ![c] = @ - 1]
          /\ UNCHANGED pc
       \/ /\ todo[c] <= 0
          /\ Goto(c, "close")
          /\ UNCHANGED todo
    /\ UNCHANGED <<world, zlock, req, target, handle, verify, dynamicSleep,
                   shown, history>>

\* An early return of GetMultipleVcp with the handle forgotten.
ReadAllLeaking(c) ==
    /\ pc[c] = "read_all"
    /\ \/ /\ todo[c] > 0
          /\ todo' = [todo EXCEPT ![c] = @ - 1]
          /\ UNCHANGED pc
       \/ /\ todo[c] = 0
          /\ Goto(c, "close")
          /\ UNCHANGED todo
       \/ /\ todo[c] > 0
          /\ Goto(c, "reply")
          /\ UNCHANGED todo
    /\ UNCHANGED <<world, zlock, req, target, handle, verify, dynamicSleep,
                   shown, history>>

----------------------------------------------------------------------------
(* Displays are plugged and unplugged; libddcutil does not notice           *)

Plug ==
    /\ \E l \in Lists \ {attached} :
         /\ attached' = l
         /\ found' = [c \in Client |->
                        IF found[c] = {} THEN {} ELSE found[c] \cup {l}]
    /\ UNCHANGED <<list, zlock, pc, req, lib, dynamicSleep, shown, writes,
                   signals>>

----------------------------------------------------------------------------
(* A call arrives and is let in                                            *)

Call(c, r) ==
    /\ pc[c] = "idle"
    /\ r.op = "write" => Len(writes) < MaxWrites
    /\ req' = [req EXCEPT ![c] = r]
    /\ found' = [found EXCEPT ![c] = IF r.op = "detect" THEN {attached} ELSE {}]
    /\ Goto(c, "lock")
    /\ UNCHANGED <<world, zlock, lib, dynamicSleep, shown, writes, signals>>

\* The methods declared with &mut self.
Exclusive(r) == r.op \in ExclusiveOp

\* What a method does first; a getter of a property has only to answer.
FirstStep(op) == IF op = "detect" THEN "redetect"
                 ELSE IF op \in {"list", "set"} THEN op
                 ELSE IF op = "get" THEN "reply" ELSE "find"

EnterShared(c) ==
    /\ pc[c] = "lock"
    /\ ~Exclusive(req[c])
    /\ writer = None
    /\ readers' = readers \cup {c}
    /\ Goto(c, FirstStep(req[c].op))
    /\ UNCHANGED <<world, writer, req, lib, dynamicSleep, shown, history>>

EnterExclusive(c) ==
    /\ pc[c] = "lock"
    /\ Exclusive(req[c])
    /\ writer = None
    /\ readers = {}
    /\ writer' = c
    /\ Goto(c, FirstStep(req[c].op))
    /\ UNCHANGED <<world, readers, req, lib, dynamicSleep, shown, history>>

----------------------------------------------------------------------------
(* Detect and ListDetected                                                 *)

\* ddca_redetect_displays; it may also give up, with or without a new list.
Redetect(c) ==
    /\ pc[c] = "redetect"
    /\ \/ /\ list' = attached
          /\ Goto(c, "list")
       \/ /\ list' \in {list, attached}
          /\ Goto(c, "reply")
    /\ UNCHANGED <<attached, zlock, req, lib, dynamicSleep, shown, history>>

\* What a listing of l returns; DETECT_ALL includes the invalid displays.
Shown(l, all) == {l[i] : i \in Listed(l, all)}

ListDisplays(c) ==
    /\ pc[c] = "list"
    /\ \E result \in {{Shown(list, req[c].all)}, {}} :
         shown' = [shown EXCEPT ![c] = result]
    /\ Goto(c, "reply")
    /\ UNCHANGED <<world, zlock, req, lib, dynamicSleep, history>>

----------------------------------------------------------------------------
(* The properties of the interface                                         *)

\* Two setters keep the value, in the object only; the other setters, Restart
\* and SetSleepMultiplier do nothing yet.
SetProperty(c) ==
    /\ pc[c] = "set"
    /\ dynamicSleep' \in {dynamicSleep, req[c].value}
    /\ Goto(c, "reply")
    /\ UNCHANGED <<world, zlock, req, lib, shown, history>>

----------------------------------------------------------------------------
(* The methods that work with a display: find, open, work, close           *)

FindDisplay(c) ==
    /\ pc[c] = "find"
    /\ \E d \in FindById(list, req[c]) \cup {None} :
         /\ target' = [target EXCEPT ![c] = d]
         /\ Goto(c, IF d = None THEN "reply"
                    ELSE IF req[c].op = "inspect" THEN "inspect" ELSE "open")
    /\ UNCHANGED <<world, zlock, req, handle, todo, verify, dynamicSleep,
                   shown, history>>

\* GetDisplayState: ddca_validate_display_ref.
Inspect(c) ==
    /\ pc[c] = "inspect"
    /\ Goto(c, "reply")
    /\ UNCHANGED <<world, zlock, req, lib, dynamicSleep, shown, history>>

Attached(d) == \E i \in DOMAIN list : list[i].dref = d.dref

\* A display is open in one thread at a time: ddca_open_display2 is asked to
\* wait for the others.
Free(d) == \A o \in Client : handle[o] # None => handle[o].dref # d.dref

OpenDisplay(c) ==
    /\ pc[c] = "open"
    /\ Free(target[c])
    /\ \/ /\ Attached(target[c])
          /\ handle' = [handle EXCEPT ![c] = target[c]]
          /\ todo' = [todo EXCEPT ![c] = req[c].codes]
          /\ Goto(c, req[c].op)
       \/ /\ Goto(c, "reply")
          /\ UNCHANGED <<handle, todo>>
    /\ UNCHANGED <<world, zlock, req, target, verify, dynamicSleep, shown,
                   history>>

\* GetVcp, GetVcpMetadata, GetCapabilitiesString, GetCapabilitiesMetadata.
ReadDisplay(c) ==
    /\ pc[c] = "read"
    /\ Goto(c, "close")
    /\ UNCHANGED <<world, zlock, req, lib, dynamicSleep, shown, history>>

\* GetMultipleVcp: after the last feature, or the first that cannot be read.
ReadAll(c) ==
    /\ pc[c] = "read_all"
    /\ \/ /\ todo[c] > 0
          /\ todo' = [todo EXCEPT ![c] = @ - 1]
          /\ UNCHANGED pc
       \/ /\ Goto(c, "close")
          /\ UNCHANGED todo
    /\ UNCHANGED <<world, zlock, req, target, handle, verify, dynamicSleep,
                   shown, history>>

\* SetVcp passes "flags & NO_VERIFY != 0" as the argument verify of set_vcp.
VerifyArgument(r) == r.noVerify

EnableVerify(c) ==
    /\ pc[c] = "write"
    /\ verify' = VerifyArgument(req[c])
    /\ Goto(c, "transmit")
    /\ UNCHANGED <<world, zlock, req, target, handle, todo, dynamicSleep,
                   shown, history>>

WriteVcp(c) ==
    /\ pc[c] = "transmit"
    /\ \/ /\ Attached(handle[c])
          /\ writes' = Append(writes, req[c])
          /\ Goto(c, "signal")
       \/ /\ Goto(c, "close")
          /\ UNCHANGED writes
    /\ UNCHANGED <<world, zlock, req, lib, dynamicSleep, shown, found, signals>>

\* vcp_value_changed; a failure to send it is only printed.
SignalChange(c) ==
    /\ pc[c] = "signal"
    /\ \/ signals' = Append(signals, [ask |-> req[c], at |-> Len(writes)])
       \/ UNCHANGED signals
    /\ Goto(c, "close")
    /\ UNCHANGED <<world, zlock, req, lib, dynamicSleep, shown, found, writes>>

\* DisplayHandle::drop, on return from the method.
CloseDisplay(c) ==
    /\ pc[c] = "close"
    /\ handle' = [handle EXCEPT ![c] = None]
    /\ Goto(c, "reply")
    /\ UNCHANGED <<world, zlock, req, target, todo, verify, dynamicSleep,
                   shown, history>>

\* zbus sends the reply and lets go of its lock.
Reply(c) ==
    /\ pc[c] = "reply"
    /\ readers' = readers \ {c}
    /\ writer' = IF writer = c THEN None ELSE writer
    /\ req' = [req EXCEPT ![c] = None]
    /\ target' = [target EXCEPT ![c] = None]
    /\ shown' = [shown EXCEPT ![c] = {}]
    /\ found' = [found EXCEPT ![c] = {}]
    /\ todo' = [todo EXCEPT ![c] = 0]
    /\ Goto(c, "idle")
    /\ UNCHANGED <<world, handle, verify, dynamicSleep, writes, signals>>

----------------------------------------------------------------------------
\* Steps that may have to wait for another call, and the others.
Wait(c) == EnterShared(c) \/ EnterExclusive(c) \/ OpenDisplay(c)

Work(c) ==
    \/ Redetect(c)
    \/ ListDisplays(c)
    \/ SetProperty(c)
    \/ FindDisplay(c)
    \/ Inspect(c)
    \/ ReadDisplay(c)
    \/ ReadAll(c)
    \/ EnableVerify(c)
    \/ WriteVcp(c)
    \/ SignalChange(c)
    \/ CloseDisplay(c)
    \/ Reply(c)

Next ==
    \/ Plug
    \/ \E c \in Client : \/ Wait(c)
                         \/ Work(c)
                         \/ \E r \in Requests : Call(c, r)

Spec == Init /\ [][Next]_vars

\* Tasks run and calls of libddcutil return; zbus's lock and libddcutil's lock
\* of a display are not withheld for ever from a call that waits for them.
Fairness == \A c \in Client : SF_vars(Wait(c)) /\ WF_vars(Work(c))

FairSpec == Spec /\ Fairness

----------------------------------------------------------------------------
(* Properties                                                              *)

Place == {"idle", "lock", "redetect", "list", "set", "find", "inspect", "open",
          "read", "read_all", "write", "transmit", "signal", "close", "reply"}

\* Type invariant of the calls, zbus's lock and libddcutil's state.
TypeOK ==
    /\ attached \in Lists
    /\ list \in Lists
    /\ readers \subseteq Client
    /\ writer \in Client \cup {None}
    /\ pc \in [Client -> Place]
    /\ req \in [Client -> Requests \cup {None}]
    /\ target \in [Client -> Entries \cup {None}]
    /\ handle \in [Client -> Entries \cup {None}]
    /\ todo \in [Client -> Nat]
    /\ verify \in BOOLEAN
    /\ dynamicSleep \in BOOLEAN
    /\ shown \in [Client -> SUBSET SUBSET Entries]
    /\ found \in [Client -> SUBSET Lists]
    /\ writes \in Seq(Requests)
    /\ signals \in Seq([ask : Requests, at : Nat])

\* A step in which a value reaches a display.
Writes(c) == WriteVcp(c) /\ writes' # writes

\* Whether a write is verified is decided by its own call's flags, although the
\* choice is left in a flag of the whole library that every SetVcp overwrites,
\* and no mutex of the daemon's own protects it.
FlagIsOwn ==
    [][\A c \in Client : Writes(c) => verify = VerifyArgument(req[c])]_vars

\* A write reaches the display that the request would find at the moment of the
\* write: no Detect of another client renumbers the displays between the lookup
\* of SetVcp and its write (set_vcp_with_context).
WritesAreCurrent ==
    [][\A c \in Client :
         Writes(c) => handle[c] \in FindById(list, req[c])]_vars

\* Each signal tells of the write just made, each write is told of at most once,
\* and two signals come in the order of their writes: a client that applies them
\* never ends up with a value older than the last one it was told.
SignalsInOrder ==
    /\ \A i \in 1..Len(signals) :
         /\ signals[i].at \in 1..Len(writes)
         /\ signals[i].ask = writes[signals[i].at]
    /\ \A i, j \in 1..Len(signals) : i < j => signals[i].at < signals[j].at

\* Detect answers with what could be found at some moment of the call itself,
\* never with an older list, even when another Detect has replaced its list
\* before it was read.
DetectIsFresh ==
    \A c \in Client :
        pc[c] = "reply" /\ req[c].op = "detect" =>
            \A s \in shown[c] : \E l \in found[c] : s = Shown(l, req[c].all)

\* Every call is answered: none waits for ever for zbus's lock or for a display
\* that another call has left open.
CallsComplete == \A c \in Client : (pc[c] # "idle") ~> (pc[c] = "idle")

----------------------------------------------------------------------------
(* What the documentation says, and the code does not do                   *)

\* "no_verify: Request libddcutil not to verify the set_vcp worked": a write
\* asked for with that flag is not verified.
NoVerifyHonoured ==
    [][\A c \in Client : Writes(c) /\ req[c].noVerify => ~verify]_vars
==============================================================================
