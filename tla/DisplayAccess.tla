----------------------------- MODULE DisplayAccess -----------------------------
(***************************************************************************)
(* How a varlink method gets at a display: take the state mutex, find the  *)
(* display by number or EDID, open it, work on it, close it, reply.  The   *)
(* list in which a display is looked up is libddcutil's; a client's Detect *)
(* or a hotplug may change it at any moment, also between the lookup and   *)
(* the access.  Whether writes are verified is one flag for the whole of   *)
(* libddcutil, which each SetVcp sets for itself.                          *)
(*                                                                         *)
(* What is read from a display, and how errors are worded, is abstracted.  *)
(***************************************************************************)
EXTENDS DisplayList, FiniteSets

CONSTANTS Client,     \* connections, each with a worker that serves its calls
          Lists,      \* the lists of displays that libddcutil may come to have
          Requests,   \* the calls clients make
          MaxWrites   \* bound on the values written

(* A request is [op, number, edid, prefix, codes, noVerify]; codes is the   *)
(* number of features that GetMultipleVcp asks for.                         *)
Op == {"inspect", "read", "read_all", "write"}

Entries == UNION {{l[i] : i \in DOMAIN l} : l \in Lists}

ASSUME AccessAssumption ==
    /\ Lists \subseteq Seq(Entries)
    /\ \A d \in Entries : d.valid \in BOOLEAN
    /\ \A r \in Requests : /\ r.op \in Op
                           /\ r.prefix \in BOOLEAN
                           /\ r.noVerify \in BOOLEAN
                           /\ r.codes \in Nat
    /\ MaxWrites \in Nat
    /\ None \notin Client \cup Entries

VARIABLES
    list,      \* libddcutil's list
    lock,      \* the worker inside the state mutex, or None
    pc,        \* where each worker is
    req,       \* the request each worker is serving
    target,    \* the entry find_display settled on, or None
    handle,    \* the entry whose display is open (DisplayHandle), or None
    todo,      \* the features GetMultipleVcp has still to read
    verify,    \* libddcutil's flag (ddca_enable_verify)
    \* History variables:
    writes,    \* the successful writes: [ask, target, verified]
    announced  \* the requests that vcp_changed was broadcast for

vars == <<list, lock, pc, req, target, handle, todo, verify, writes, announced>>

NoRequest == [op |-> "inspect", number |-> None, edid |-> None,
              prefix |-> FALSE, codes |-> 0, noVerify |-> FALSE]

Init ==
    /\ list \in Lists
    /\ lock = None
    /\ pc = [c \in Client |-> "idle"]
    /\ req = [c \in Client |-> NoRequest]
    /\ target = [c \in Client |-> None]
    /\ handle = [c \in Client |-> None]
    /\ todo = [c \in Client |-> 0]
    /\ verify \in BOOLEAN
    /\ writes = <<>>
    /\ announced = <<>>

Goto(c, place) == pc' = [pc EXCEPT ![c] = place]

----------------------------------------------------------------------------
(* Slips.  Each operator here stands in for one definition below when the  *)
(* properties are tried out on it; the specification uses none of them.    *)

\* The display looked up a second time, by the number it had.
OpenedByNumber(c) ==
    LET same == {i \in DOMAIN list : list[i].dispno = target[c].dispno}
    IN  IF same = {} THEN target[c] ELSE list[CHOOSE i \in same : TRUE]

\* The flag only ever switched off.
VerifyOff(r) == IF r.noVerify THEN FALSE ELSE verify

\* The mutex given up before the event is broadcast.
WriteVcpUnlocking(c) ==
    /\ pc[c] = "transmit"
    /\ \/ /\ writes' = Append(writes, [ask |-> req[c], target |-> handle[c],
                                       verified |-> verify])
          /\ lock' = None
          /\ Goto(c, "broadcast")
       \/ /\ UNCHANGED <<writes, lock>>
          /\ Goto(c, "close")
    /\ UNCHANGED <<list, req, target, handle, todo, verify, announced>>

\* The loop without its end.
ReadAllOn(c) ==
    /\ pc[c] = "read_all"
    /\ todo' = [todo EXCEPT ![c] = @ - 1]
    /\ UNCHANGED <<list, lock, pc, req, target, handle, verify, writes,
                   announced>>

\* An early return that skips the destructor.
ReadAllLeaking(c) ==
    /\ pc[c] = "read_all"
    /\ todo[c] > 0
    /\ \/ /\ todo' = [todo EXCEPT ![c] = @ - 1]
          /\ UNCHANGED pc
       \/ /\ Goto(c, "unlock")
          /\ UNCHANGED todo
    /\ UNCHANGED <<list, lock, req, target, handle, verify, writes, announced>>

----------------------------------------------------------------------------
(* Displays come and go, and a client's Detect renumbers them              *)

ListChanges ==
    /\ \E l \in Lists \ {list} : list' = l
    /\ UNCHANGED <<lock, pc, req, target, handle, todo, verify, writes,
                   announced>>

----------------------------------------------------------------------------
(* A call                                                                  *)

Call(c, r) ==
    /\ pc[c] = "idle"
    /\ r.op = "write" => Len(writes) < MaxWrites
    /\ req' = [req EXCEPT ![c] = r]
    /\ Goto(c, "lock")
    /\ UNCHANGED <<list, lock, target, handle, todo, verify, writes, announced>>

Lock(c) ==
    /\ pc[c] = "lock"
    /\ lock = None
    /\ lock' = c
    /\ Goto(c, "find")
    /\ UNCHANGED <<list, req, target, handle, todo, verify, writes, announced>>

\* find_display: no list, no identifier or no match is an error.  The
\* operations that only inspect a display do not open it.
FindDisplay(c) ==
    /\ pc[c] = "find"
    /\ \E found \in FindById(list, req[c]) \cup {None} :
         /\ target' = [target EXCEPT ![c] = found]
         /\ Goto(c, IF found = None THEN "reply"
                    ELSE IF req[c].op = "inspect" THEN "inspect" ELSE "open")
    /\ UNCHANGED <<list, lock, req, handle, todo, verify, writes, announced>>

\* ddca_validate_display_ref, or reading and setting a sleep multiplier.
Inspect(c) ==
    /\ pc[c] = "inspect"
    /\ Goto(c, "reply")
    /\ UNCHANGED <<list, lock, req, target, handle, todo, verify, writes,
                   announced>>

Attached(d) == \E i \in DOMAIN list : list[i].dref = d.dref

\* What is opened is the display itself, wherever it is on the list by now.
Opened(c) == target[c]

\* open_display: libddcutil refuses a display that has gone, and may fail.
OpenDisplay(c) ==
    /\ pc[c] = "open"
    /\ \/ /\ Attached(Opened(c))
          /\ handle' = [handle EXCEPT ![c] = Opened(c)]
          /\ todo' = [todo EXCEPT ![c] = req[c].codes]
          /\ Goto(c, req[c].op)
       \/ /\ Goto(c, "reply")
          /\ UNCHANGED <<handle, todo>>
    /\ UNCHANGED <<list, lock, req, target, verify, writes, announced>>

\* GetVcp, GetVcpMetadata, GetCapabilitiesString, GetCapabilitiesMetadata.
ReadDisplay(c) ==
    /\ pc[c] = "read"
    /\ Goto(c, "close")
    /\ UNCHANGED <<list, lock, req, target, handle, todo, verify, writes,
                   announced>>

\* GetMultipleVcp: the first feature that cannot be read ends the loop.
ReadAll(c) ==
    /\ pc[c] = "read_all"
    /\ todo[c] > 0
    /\ \/ /\ todo' = [todo EXCEPT ![c] = @ - 1]
          /\ UNCHANGED pc
       \/ /\ Goto(c, "reply_open")
          /\ UNCHANGED todo
    /\ UNCHANGED <<list, lock, req, target, handle, verify, writes, announced>>

\* Its handle lives on until the method returns: it is closed after the reply.
AllRead(c) ==
    /\ pc[c] = "read_all"
    /\ todo[c] = 0
    /\ Goto(c, "reply_open")
    /\ UNCHANGED <<list, lock, req, target, handle, todo, verify, writes,
                   announced>>

ReplyOpen(c) ==
    /\ pc[c] = "reply_open"
    /\ Goto(c, "close")
    /\ UNCHANGED <<list, lock, req, target, handle, todo, verify, writes,
                   announced>>

\* set_vcp: first the flag, then the write.
IsSetVcpVerifying(r) == ~r.noVerify

EnableVerify(c) ==
    /\ pc[c] = "write"
    /\ verify' = IsSetVcpVerifying(req[c])
    /\ Goto(c, "transmit")
    /\ UNCHANGED <<list, lock, req, target, handle, todo, writes, announced>>

\* A write may fail, and one to a display that has gone does.
WriteVcp(c) ==
    /\ pc[c] = "transmit"
    /\ \/ /\ Attached(handle[c])
          /\ writes' = Append(writes, [ask |-> req[c], target |-> handle[c],
                                       verified |-> verify])
          /\ Goto(c, "broadcast")
       \/ /\ Goto(c, "close")
          /\ UNCHANGED writes
    /\ UNCHANGED <<list, lock, req, target, handle, todo, verify, announced>>

\* broadcast_set_vcp repeats what the client asked for.
BroadcastSetVcp(c) ==
    /\ pc[c] = "broadcast"
    /\ announced' = Append(announced, req[c])
    /\ Goto(c, "close")
    /\ UNCHANGED <<list, lock, req, target, handle, todo, verify, writes>>

\* DisplayHandle::drop, at the end of the closure that opened the display.
CloseDisplay(c) ==
    /\ pc[c] = "close"
    /\ handle' = [handle EXCEPT ![c] = None]
    /\ Goto(c, IF req[c].op = "read_all" THEN "unlock" ELSE "reply")
    /\ UNCHANGED <<list, lock, req, target, todo, verify, writes, announced>>

Reply(c) ==
    /\ pc[c] = "reply"
    /\ Goto(c, "unlock")
    /\ UNCHANGED <<list, lock, req, target, handle, todo, verify, writes,
                   announced>>

Unlock(c) ==
    /\ pc[c] = "unlock"
    /\ lock = c
    /\ lock' = None
    /\ target' = [target EXCEPT ![c] = None]
    /\ req' = [req EXCEPT ![c] = NoRequest]
    /\ Goto(c, "idle")
    /\ UNCHANGED <<list, handle, todo, verify, writes, announced>>

----------------------------------------------------------------------------
Step(c) ==
    \/ Lock(c)
    \/ FindDisplay(c)
    \/ Inspect(c)
    \/ OpenDisplay(c)
    \/ ReadDisplay(c)
    \/ ReadAll(c)
    \/ AllRead(c)
    \/ ReplyOpen(c)
    \/ EnableVerify(c)
    \/ WriteVcp(c)
    \/ BroadcastSetVcp(c)
    \/ CloseDisplay(c)
    \/ Reply(c)
    \/ Unlock(c)

Next ==
    \/ ListChanges
    \/ \E c \in Client : Step(c) \/ \E r \in Requests : Call(c, r)

Spec == Init /\ [][Next]_vars

----------------------------------------------------------------------------
(* Properties                                                              *)

\* Type invariant of the workers and of libddcutil's state.
TypeOK ==
    /\ list \in Lists
    /\ lock \in Client \cup {None}
    /\ pc \in [Client -> {"idle", "lock", "find", "open", "transmit",
                          "broadcast", "close", "reply", "reply_open",
                          "unlock"} \cup Op]
    /\ req \in [Client -> Requests \cup {NoRequest}]
    /\ target \in [Client -> Entries \cup {None}]
    /\ handle \in [Client -> Entries \cup {None}]
    /\ todo \in [Client -> Nat]
    /\ verify \in BOOLEAN
    /\ writes \in Seq([ask : Requests, target : Entries, verified : BOOLEAN])
    /\ announced \in Seq(Requests)

\* A display is open only while the worker that opened it is inside the state
\* mutex: every path out of a method, the early returns of GetMultipleVcp
\* included, closes the display before the guard goes (declaration order).
HandleUnderLock == \A c \in Client : handle[c] # None => lock = c

\* Each write is verified or not as its own caller asked, although the choice
\* passes through a flag that all callers share (ddca_enable_verify).
VerifyAsAsked ==
    \A i \in 1..Len(writes) :
        writes[i].verified = ~writes[i].ask.noVerify

\* vcp_changed is broadcast for exactly the writes that succeeded, in the order
\* in which they reached libddcutil: a subscriber that applies the events ends
\* up with the values the displays have, whichever clients wrote them.
AnnouncedInOrder ==
    LET asked == [i \in 1..Len(writes) |-> writes[i].ask]
    IN  announced = IF \E c \in Client : pc[c] = "broadcast"
                      THEN SubSeq(asked, 1, Len(asked) - 1)
                      ELSE asked

\* d bears the one identifier that r gives.
Named(r, d) ==
    /\ r.edid = None => d.dispno = r.number
    /\ r.number = None => IF r.prefix THEN StartsWith(d.edid, r.edid)
                                      ELSE d.edid = r.edid

\* A write asked for by number alone, or by EDID alone, reaches a display that
\* bore that number or EDID when it was looked up, however libddcutil's list
\* changes between the lookup and the write.
WritesReachNamed ==
    \A i \in 1..Len(writes) : Named(writes[i].ask, writes[i].target)

----------------------------------------------------------------------------
(* What a comment says, and the code does not do                           *)

\* "display_number precedence" (find_by_id): a call that gives both a number
\* and an EDID gets the display with that number if there is one.
NumberTakesPrecedence ==
    [][\A c \in Client :
         FindDisplay(c) /\ target'[c] # None =>
           ((\E i \in Listed(list, req[c].prefix) : list[i].dispno = req[c].number)
              => target'[c].dispno = req[c].number)]_vars
==============================================================================
