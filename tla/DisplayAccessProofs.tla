------------------------- MODULE DisplayAccessProofs -------------------------
(***************************************************************************)
(* The safety properties of DisplayAccess for any clients, requests and    *)
(* lists of displays.                                                      *)
(*                                                                         *)
(* They all rest on one fact: a worker that is past Lock and not yet past  *)
(* Unlock holds the mutex, so there is only one.  From it follow that      *)
(* nobody touches the verify flag between a worker's EnableVerify and its  *)
(* WriteVcp, and that nobody writes between its WriteVcp and its broadcast.*)
(* Of the lookup, it is proved that it yields the first match.             *)
(***************************************************************************)
EXTENDS DisplayAccess, NatLemmas, TLAPS

\* The places of a worker that is inside the mutex, and those of them in which
\* its display is open.
OpenPlaces == {"read", "read_all", "write", "transmit", "broadcast", "close",
               "reply_open"}
Inside == OpenPlaces \cup {"find", "inspect", "open", "reply", "unlock"}

\* What holds of a worker, by its place.
WorkerInv(c) ==
    /\ pc[c] \in Inside <=> lock = c
    /\ pc[c] # "idle" => req[c] \in Requests
    /\ pc[c] = "open" => req[c].op \in {"read", "read_all", "write"}
    /\ pc[c] = "open" => target[c] \in Entries
    /\ target[c] # None => Named(req[c], target[c])
    /\ pc[c] \in {"idle", "lock"} => target[c] = None
    /\ IF pc[c] \in OpenPlaces
         THEN handle[c] \in Entries /\ handle[c] = target[c]
         ELSE handle[c] = None
    /\ pc[c] = "transmit" => verify = ~req[c].noVerify

WorkersInv == \A c \in Client : WorkerInv(c)

----------------------------------------------------------------------------
\* A lookup yields an entry of libddcutil's list that bears what was asked for.
LEMMA Lookup ==
    ASSUME TypeOK, NEW r, NEW d \in FindById(list, r)
    PROVE  d \in Entries /\ Named(r, d)
<1>1. PICK i \in DOMAIN list : d = list[i] /\ Matches(r, list[i])
  BY DEF FindById, Listed
<1>2. d \in Entries
  BY <1>1 DEF TypeOK, Entries
<1>3. QED
  BY <1>1, <1>2 DEF Matches, Named

\* find_by_id finds the first entry that matches, and nothing only where none
\* does: of two displays that answer to a prefix or bear one EDID, the same one
\* every time, as long as the list is the same.
THEOREM FirstMatch ==
    ASSUME NEW l, DOMAIN l \subseteq Nat, NEW r
    PROVE  LET hits == {i \in Listed(l, r.prefix) : Matches(r, l[i])}
           IN  IF hits = {} THEN FindById(l, r) = {}
               ELSE \E k \in hits : /\ \A j \in hits : k <= j
                                    /\ FindById(l, r) = {l[k]}
<1>. DEFINE hits == {i \in Listed(l, r.prefix) : Matches(r, l[i])}
<1>1. FindById(l, r) = {l[i] : i \in {k \in hits : \A j \in hits : k <= j}}
  BY DEF FindById
<1>2. hits \subseteq Nat
  BY DEF Listed
<1>. HIDE DEF hits
<1>3. CASE hits = {}
  BY <1>1, <1>3 DEF hits
<1>4. CASE hits # {}
  <2>1. PICK k \in hits : \A j \in hits : k <= j
    BY <1>2, <1>4, Least
  <2>2. {i \in hits : \A j \in hits : i <= j} = {k}
    <3>1. ASSUME NEW i \in hits, \A j \in hits : i <= j PROVE i = k
      <4>1. i \in Nat /\ k \in Nat /\ i <= k /\ k <= i
        BY <1>2, <2>1, <3>1
      <4>2. QED
        BY <4>1
    <3>2. QED
      BY <2>1, <3>1
  <2>3. FindById(l, r) = {l[k]}
    BY <1>1, <2>2
  <2>4. QED
    BY <1>4, <2>1, <2>3 DEF hits
<1>5. QED
  BY <1>3, <1>4

\* A step of a worker touches its own places only, the mutex only to take it or
\* to give it up, and the flag only inside the mutex.
LEMMA Local ==
    ASSUME TypeOK, WorkersInv, NEW c \in Client, NEW o \in Client \ {c},
           Step(c) \/ \E r \in Requests : Call(c, r)
    PROVE  /\ pc'[o] = pc[o]
           /\ req'[o] = req[o]
           /\ target'[o] = target[o]
           /\ handle'[o] = handle[o]
           /\ lock' = lock \/ (lock \in {None, c} /\ lock' \in {None, c})
           /\ verify' = verify \/ lock = c
<1>. USE DEF TypeOK, Goto
<1>1. pc[c] = "write" => lock = c
  BY DEF WorkersInv, WorkerInv, Inside, OpenPlaces
<1>2. CASE \E r \in Requests : Call(c, r)
  BY <1>2 DEF Call
<1>3. CASE Lock(c) \/ FindDisplay(c) \/ Inspect(c) \/ OpenDisplay(c)
  BY <1>3 DEF Lock, FindDisplay, Inspect, OpenDisplay
<1>4. CASE ReadDisplay(c) \/ ReadAll(c) \/ AllRead(c) \/ ReplyOpen(c)
  BY <1>4 DEF ReadDisplay, ReadAll, AllRead, ReplyOpen
<1>5. CASE EnableVerify(c) \/ WriteVcp(c) \/ BroadcastSetVcp(c)
  BY <1>1, <1>5 DEF EnableVerify, WriteVcp, BroadcastSetVcp
<1>6. CASE CloseDisplay(c) \/ Reply(c) \/ Unlock(c)
  BY <1>6 DEF CloseDisplay, Reply, Unlock
<1>7. QED
  BY <1>2, <1>3, <1>4, <1>5, <1>6 DEF Step

\* What a worker is about to add to the writes.
Write(c) == [ask |-> req[c], target |-> handle[c], verified |-> verify]

\* What a write appends is of its type.
LEMMA WriteType ==
    ASSUME TypeOK, NEW c \in Client, req[c] \in Requests, handle[c] \in Entries
    PROVE  Append(writes, Write(c))
             \in Seq([ask : Requests, target : Entries, verified : BOOLEAN])
<1>1. Write(c) \in [ask : Requests, target : Entries, verified : BOOLEAN]
  BY Zenon DEF Write, TypeOK
<1>2. writes \in Seq([ask : Requests, target : Entries, verified : BOOLEAN])
  BY DEF TypeOK
<1>. HIDE DEF Write
<1>3. QED
  BY <1>1, <1>2

\* GetMultipleVcp counts down to 0 and no further.
LEMMA TodoType ==
    ASSUME TypeOK, NEW c \in Client, ReadAll(c)
    PROVE  todo' \in [Client -> Nat]
<1>1. todo \in [Client -> Nat] /\ todo[c] \in Nat /\ todo[c] > 0
  BY DEF TypeOK, ReadAll
<1>2. todo[c] - 1 \in Nat
  BY <1>1
<1>3. todo' = todo \/ todo' = [todo EXCEPT ![c] = todo[c] - 1]
  BY DEF ReadAll
<1>4. QED
  BY <1>1, <1>2, <1>3

\* What a step of a worker does to the worker itself.
LEMMA Own ==
    ASSUME TypeOK, WorkersInv, NEW c \in Client,
           Step(c) \/ \E r \in Requests : Call(c, r)
    PROVE  TypeOK' /\ WorkerInv(c)'
<1>. USE AccessAssumption DEF TypeOK, Goto
<1>0. WorkerInv(c)
  BY DEF WorkersInv
<1>. USE <1>0 DEF WorkerInv, Inside, OpenPlaces
<1>1. ASSUME NEW r \in Requests, Call(c, r) PROVE TypeOK' /\ WorkerInv(c)'
  BY <1>1 DEF Call, Named
<1>2. CASE Lock(c)
  BY <1>2 DEF Lock, Named
<1>3. CASE FindDisplay(c)
  <2>1. PICK found \in FindById(list, req[c]) \cup {None} :
          /\ target' = [target EXCEPT ![c] = found]
          /\ pc' = [pc EXCEPT ![c] = IF found = None THEN "reply"
                                    ELSE IF req[c].op = "inspect"
                                      THEN "inspect" ELSE "open"]
    BY <1>3 DEF FindDisplay
  <2>2. found # None => found \in Entries /\ Named(req[c], found)
    BY <2>1, Lookup
  <2>3. req[c] \in Requests /\ req[c].op \in Op
    BY <1>3 DEF FindDisplay
  <2>4. QED
    BY <1>3, <2>1, <2>2, <2>3 DEF FindDisplay, Named, Op
<1>4. CASE Inspect(c)
  BY <1>4 DEF Inspect, Named
<1>5. CASE OpenDisplay(c)
  <2>1. /\ pc[c] = "open"
        /\ UNCHANGED <<list, lock, req, target, verify, writes, announced>>
        /\ req[c] \in Requests
        /\ req[c].op \in {"read", "read_all", "write"}
    BY <1>5 DEF OpenDisplay
  <2>2. \/ /\ handle' = [handle EXCEPT ![c] = target[c]]
           /\ todo' = [todo EXCEPT ![c] = req[c].codes]
           /\ pc' = [pc EXCEPT ![c] = req[c].op]
        \/ /\ pc' = [pc EXCEPT ![c] = "reply"]
           /\ UNCHANGED <<handle, todo>>
    BY <1>5 DEF OpenDisplay, Opened
  <2>3. todo' \in [Client -> Nat] /\ handle' \in [Client -> Entries \cup {None}]
    BY <2>1, <2>2
  <2>4. WorkerInv(c)'
    BY <2>1, <2>2, ZenonT(60) DEF Named
  <2>5. TypeOK'
    BY <2>1, <2>2, <2>3, ZenonT(60) DEF Op
  <2>6. QED
    BY <2>4, <2>5
<1>6. CASE ReadDisplay(c)
  BY <1>6 DEF ReadDisplay, Named
<1>7. CASE ReadAll(c)
  <2>1. todo' \in [Client -> Nat]
    BY <1>7, TodoType
  <2>2. /\ pc' = pc \/ pc' = [pc EXCEPT ![c] = "reply_open"]
        /\ pc[c] = "read_all"
        /\ UNCHANGED <<list, lock, req, target, handle, verify, writes,
                       announced>>
    BY <1>7 DEF ReadAll
  <2>3. QED
    BY <2>1, <2>2 DEF Named
<1>8. CASE AllRead(c) \/ ReplyOpen(c)
  <2>1. /\ \/ pc[c] = "read_all" /\ pc' = [pc EXCEPT ![c] = "reply_open"]
           \/ pc[c] = "reply_open" /\ pc' = [pc EXCEPT ![c] = "close"]
        /\ UNCHANGED <<list, lock, req, target, handle, todo, verify, writes,
                       announced>>
    BY <1>8 DEF AllRead, ReplyOpen
  <2>2. QED
    BY <2>1, ZenonT(60) DEF Named
<1>9. CASE EnableVerify(c)
  BY <1>9 DEF EnableVerify, IsSetVcpVerifying, Named
<1>10. CASE WriteVcp(c)
  <2>1. writes' \in Seq([ask : Requests, target : Entries,
                          verified : BOOLEAN])
    <3>1. req[c] \in Requests /\ handle[c] \in Entries
      BY <1>10 DEF WriteVcp
    <3>2. writes' = writes \/ writes' = Append(writes, Write(c))
      BY <1>10 DEF WriteVcp, Write
    <3>3. QED
      BY <3>1, <3>2, WriteType
  <2>2. /\ pc' \in {[pc EXCEPT ![c] = "broadcast"], [pc EXCEPT ![c] = "close"]}
        /\ pc[c] = "transmit"
        /\ UNCHANGED <<list, lock, req, target, handle, todo, verify,
                       announced>>
    BY <1>10 DEF WriteVcp
  <2>3. QED
    BY <2>1, <2>2, ZenonT(60) DEF Named
<1>11. CASE BroadcastSetVcp(c)
  BY <1>11 DEF BroadcastSetVcp, Named
<1>12. CASE CloseDisplay(c)
  BY <1>12 DEF CloseDisplay, Named
<1>13. CASE Reply(c)
  BY <1>13 DEF Reply, Named
<1>14. CASE Unlock(c)
  BY <1>14 DEF Unlock, Named
<1>15. QED
  BY <1>1, <1>2, <1>3, <1>4, <1>5, <1>6, <1>7, <1>8, <1>9, <1>10, <1>11,
     <1>12, <1>13, <1>14 DEF Step

\* The types and what holds of each worker are invariant together.
LEMMA Workers == Spec => [](TypeOK /\ WorkersInv)
<1>1. Init => TypeOK /\ WorkersInv
  BY AccessAssumption DEF Init, TypeOK, WorkersInv, WorkerInv, Inside,
     OpenPlaces, NoRequest
<1>2. TypeOK /\ WorkersInv /\ [Next]_vars => (TypeOK /\ WorkersInv)'
  <2>. SUFFICES ASSUME TypeOK, WorkersInv, [Next]_vars
                PROVE (TypeOK /\ WorkersInv)'
    OBVIOUS
  <2>1. ASSUME NEW c \in Client,
               Step(c) \/ \E r \in Requests : Call(c, r)
        PROVE (TypeOK /\ WorkersInv)'
    <3>1. TypeOK' /\ WorkerInv(c)'
      BY <2>1, Own
    <3>2. ASSUME NEW o \in Client \ {c} PROVE WorkerInv(o)'
      <4>1. /\ pc'[o] = pc[o]
            /\ req'[o] = req[o]
            /\ target'[o] = target[o]
            /\ handle'[o] = handle[o]
            /\ lock' = lock \/ (lock \in {None, c} /\ lock' \in {None, c})
            /\ verify' = verify \/ lock = c
        BY <2>1, Local
      <4>2. WorkerInv(o) /\ o # None
        BY AccessAssumption DEF WorkersInv
      <4>3. QED
        BY <4>1, <4>2 DEF WorkerInv, Named, Inside, OpenPlaces
    <3>3. QED
      BY <3>1, <3>2 DEF WorkersInv
  <2>2. CASE ListChanges
    BY <2>2 DEF ListChanges, TypeOK, WorkersInv, WorkerInv, Named
  <2>3. CASE UNCHANGED vars
    BY <2>3 DEF vars, TypeOK, WorkersInv, WorkerInv, Named
  <2>4. QED
    BY <2>1, <2>2, <2>3 DEF Next
<1>3. QED
  BY <1>1, <1>2, PTL DEF Spec

----------------------------------------------------------------------------
\* The type invariant.
THEOREM Typing == Spec => []TypeOK
BY Workers, PTL

\* A display is open only under the state mutex.
THEOREM HandleGuarded == Spec => []HandleUnderLock
<1>1. TypeOK /\ WorkersInv => HandleUnderLock
  BY DEF WorkersInv, WorkerInv, HandleUnderLock, Inside
<1>2. QED
  BY <1>1, Workers, PTL

----------------------------------------------------------------------------
(* What is written, and what is announced of it                            *)

\* The writes grow by one at a time, at the hands of a worker inside the mutex
\* whose flag and whose display are its own.
LEMMA WriteStep ==
    ASSUME TypeOK, WorkersInv, [Next]_vars
    PROVE  \/ writes' = writes
           \/ \E c \in Client :
                /\ WriteVcp(c)
                /\ writes' = Append(writes, Write(c))
                /\ Write(c).verified = ~Write(c).ask.noVerify
                /\ Named(Write(c).ask, Write(c).target)
<1>1. ASSUME NEW c \in Client, WriteVcp(c), writes' # writes
      PROVE /\ writes' = Append(writes, Write(c))
            /\ Write(c).verified = ~Write(c).ask.noVerify
            /\ Named(Write(c).ask, Write(c).target)
  <2>1. WorkerInv(c) /\ pc[c] = "transmit"
    BY <1>1 DEF WorkersInv, WriteVcp
  <2>2. handle[c] = target[c] /\ Named(req[c], target[c])
    BY <2>1, AccessAssumption DEF WorkerInv, OpenPlaces
  <2>3. verify = ~req[c].noVerify
    BY <2>1 DEF WorkerInv
  <2>4. QED
    BY <1>1, <2>2, <2>3 DEF WriteVcp, Write
<1>2. ASSUME NEW c \in Client, Step(c), ~WriteVcp(c) PROVE writes' = writes
  BY <1>2 DEF Step, Lock, FindDisplay, Inspect, OpenDisplay, ReadDisplay,
     ReadAll, AllRead, ReplyOpen, EnableVerify, BroadcastSetVcp, CloseDisplay,
     Reply, Unlock
<1>3. QED
  BY <1>1, <1>2 DEF Next, ListChanges, Call, vars

\* One more write leaves the earlier ones in their places.
LEMMA AppendAt ==
    ASSUME TypeOK, NEW w, writes' = Append(writes, w), NEW i \in 1..Len(writes')
    PROVE  /\ writes'[i] = IF i = Len(writes) + 1 THEN w ELSE writes[i]
           /\ i # Len(writes) + 1 => i \in 1..Len(writes)
BY DEF TypeOK

\* Every write is verified or not as its own caller asked.
THEOREM VerifiedAsAsked == Spec => []VerifyAsAsked
<1>1. Init => VerifyAsAsked
  BY DEF Init, VerifyAsAsked
<1>2. TypeOK /\ WorkersInv /\ VerifyAsAsked /\ [Next]_vars => VerifyAsAsked'
  <2>. SUFFICES ASSUME TypeOK, WorkersInv, VerifyAsAsked, [Next]_vars,
                       NEW i \in 1..Len(writes')
                PROVE writes'[i].verified = ~writes'[i].ask.noVerify
    BY DEF VerifyAsAsked
  <2>1. CASE writes' = writes
    BY <2>1 DEF VerifyAsAsked
  <2>2. ASSUME NEW c \in Client, writes' = Append(writes, Write(c)),
               Write(c).verified = ~Write(c).ask.noVerify
        PROVE writes'[i].verified = ~writes'[i].ask.noVerify
    <3>1. writes'[i] = IF i = Len(writes) + 1 THEN Write(c) ELSE writes[i]
      BY <2>2, AppendAt
    <3>2. CASE i = Len(writes) + 1
      BY <2>2, <3>1, <3>2, Zenon
    <3>3. CASE i # Len(writes) + 1
      <4>1. i \in 1..Len(writes)
        BY <2>2, <3>3, AppendAt
      <4>2. QED
        BY <3>1, <3>3, <4>1 DEF VerifyAsAsked
    <3>4. QED
      BY <3>2, <3>3
  <2>3. QED
    BY <2>1, <2>2, WriteStep
<1>3. QED
  BY <1>1, <1>2, Workers, PTL DEF Spec

\* A write by one identifier reaches a display that bore it at the lookup.
THEOREM NamedReached == Spec => []WritesReachNamed
<1>1. Init => WritesReachNamed
  BY DEF Init, WritesReachNamed
<1>2. TypeOK /\ WorkersInv /\ WritesReachNamed /\ [Next]_vars
        => WritesReachNamed'
  <2>. SUFFICES ASSUME TypeOK, WorkersInv, WritesReachNamed, [Next]_vars,
                       NEW i \in 1..Len(writes')
                PROVE Named(writes'[i].ask, writes'[i].target)
    BY DEF WritesReachNamed, Named
  <2>1. CASE writes' = writes
    BY <2>1 DEF WritesReachNamed
  <2>2. ASSUME NEW c \in Client, writes' = Append(writes, Write(c)),
               Named(Write(c).ask, Write(c).target)
        PROVE Named(writes'[i].ask, writes'[i].target)
    <3>1. /\ writes'[i] = IF i = Len(writes) + 1 THEN Write(c) ELSE writes[i]
          /\ i # Len(writes) + 1 => i \in 1..Len(writes)
      BY <2>2, AppendAt
    <3>2. QED
      BY <2>2, <3>1 DEF WritesReachNamed
  <2>3. QED
    BY <2>1, <2>2, WriteStep
<1>3. QED
  BY <1>1, <1>2, Workers, PTL DEF Spec

\* AnnouncedInOrder, made inductive: the last write is the one that a worker at
\* "broadcast" is about to announce.
AnnouncedInv ==
    /\ \A c \in Client : pc[c] = "broadcast" =>
         /\ Len(writes) = Len(announced) + 1
         /\ writes[Len(writes)].ask = req[c]
    /\ (\A c \in Client : pc[c] # "broadcast") => Len(writes) = Len(announced)
    /\ \A i \in 1..Len(announced) : announced[i] = writes[i].ask

\* Only one worker is between Lock and Unlock.
LEMMA Alone ==
    ASSUME WorkersInv, NEW c \in Client, pc[c] \in {"transmit", "broadcast"}
    PROVE  \A o \in Client \ {c} : pc[o] # "broadcast"
BY DEF WorkersInv, WorkerInv, Inside, OpenPlaces

\* The steps that neither write nor announce.
LEMMA Silent ==
    ASSUME TypeOK, AnnouncedInv, NEW c \in Client,
           writes' = writes, announced' = announced,
           req' = req \/ pc[c] \in {"idle", "unlock"},
           pc[c] # "broadcast", pc'[c] # "broadcast",
           \A o \in Client \ {c} : pc'[o] = pc[o] /\ req'[o] = req[o]
    PROVE  AnnouncedInv'
<1>1. \A o \in Client : pc'[o] = "broadcast" =>
                         pc[o] = "broadcast" /\ req'[o] = req[o]
  OBVIOUS
<1>2. (\A o \in Client : pc'[o] # "broadcast") =>
        (\A o \in Client : pc[o] # "broadcast")
  OBVIOUS
<1>3. QED
  BY <1>1, <1>2 DEF AnnouncedInv

\* A step of a worker keeps the broadcasts in the order of the writes: between a
\* write and its broadcast the worker has the mutex.
LEMMA AnnouncedStep ==
    ASSUME TypeOK, WorkersInv, AnnouncedInv, NEW c \in Client,
           Step(c) \/ \E r \in Requests : Call(c, r)
    PROVE  AnnouncedInv'
<1>. USE DEF Goto
<1>0. \A o \in Client \ {c} : pc'[o] = pc[o] /\ req'[o] = req[o]
  BY Local
<1>1. CASE WriteVcp(c) /\ writes' # writes
  <2>1. /\ pc[c] = "transmit"
        /\ pc'[c] = "broadcast"
        /\ writes' = Append(writes, Write(c))
        /\ UNCHANGED <<announced, req>>
    BY <1>1 DEF WriteVcp, Write, TypeOK
  <2>2. \A o \in Client : pc[o] # "broadcast"
    BY <2>1, Alone
  <2>3. Len(writes) = Len(announced)
    BY <2>2 DEF AnnouncedInv
  <2>4. /\ Len(writes') = Len(writes) + 1
        /\ writes'[Len(writes')] = Write(c)
        /\ \A i \in 1..Len(writes) : writes'[i] = writes[i]
    BY <2>1 DEF TypeOK
  <2>5. \A o \in Client : pc'[o] = "broadcast" => o = c
    BY <1>0, <2>2
  <2>6. Write(c).ask = req[c]
    BY DEF Write
  <2>7. QED
    BY <2>1, <2>3, <2>4, <2>5, <2>6 DEF AnnouncedInv
<1>2. CASE BroadcastSetVcp(c)
  <2>1. /\ pc[c] = "broadcast"
        /\ pc'[c] = "close"
        /\ announced' = Append(announced, req[c])
        /\ UNCHANGED <<writes, req>>
    BY <1>2 DEF BroadcastSetVcp, TypeOK
  <2>2. \A o \in Client : pc'[o] # "broadcast"
    BY <1>0, <2>1, Alone
  <2>3. /\ Len(writes) = Len(announced) + 1
        /\ writes[Len(writes)].ask = req[c]
    BY <2>1 DEF AnnouncedInv
  <2>4. /\ Len(announced') = Len(announced) + 1
        /\ announced'[Len(announced')] = req[c]
        /\ \A i \in 1..Len(announced) : announced'[i] = announced[i]
    BY <2>1 DEF TypeOK
  <2>5. \A i \in 1..Len(announced') : announced'[i] = writes'[i].ask
    <3>. TAKE i \in 1..Len(announced')
    <3>1. CASE i = Len(announced')
      BY <2>1, <2>3, <2>4, <3>1
    <3>2. CASE i # Len(announced')
      <4>1. i \in 1..Len(announced)
        BY <2>4, <3>2 DEF TypeOK
      <4>2. QED
        BY <2>1, <2>4, <4>1 DEF AnnouncedInv
    <3>3. QED
      BY <3>1, <3>2
  <2>6. QED
    BY <2>1, <2>2, <2>3, <2>4, <2>5 DEF AnnouncedInv
<1>3. CASE WriteVcp(c) /\ writes' = writes
  <2>1. /\ pc[c] = "transmit"
        /\ pc'[c] \in {"broadcast", "close"}
        /\ UNCHANGED <<announced, req>>
        /\ pc'[c] = "broadcast" => writes' = Append(writes, Write(c))
    BY <1>3 DEF WriteVcp, Write, TypeOK
  <2>2. Append(writes, Write(c)) # writes
    BY DEF TypeOK
  <2>3. pc'[c] # "broadcast"
    BY <1>3, <2>1, <2>2
  <2>4. QED
    BY <1>0, <1>3, <2>1, <2>3, Silent
<1>4. ASSUME ~WriteVcp(c), ~BroadcastSetVcp(c)
      PROVE AnnouncedInv'
  <2>1. /\ UNCHANGED <<writes, announced>>
        /\ req' = req \/ pc[c] \in {"idle", "unlock"}
        /\ pc[c] # "broadcast"
        /\ pc'[c] # "broadcast"
    <3>1. CASE \E r \in Requests : Call(c, r)
      BY <3>1 DEF Call, TypeOK
    <3>2. CASE Lock(c) \/ FindDisplay(c) \/ Inspect(c)
      BY <3>2 DEF Lock, FindDisplay, Inspect, TypeOK
    <3>3. CASE OpenDisplay(c)
      <4>1. req[c].op # "broadcast"
        BY <3>3 DEF OpenDisplay, WorkersInv, WorkerInv
      <4>2. QED
        BY <3>3, <4>1 DEF OpenDisplay, TypeOK
    <3>4. CASE ReadDisplay(c) \/ ReadAll(c) \/ AllRead(c) \/ ReplyOpen(c)
      BY <3>4 DEF ReadDisplay, ReadAll, AllRead, ReplyOpen, TypeOK
    <3>5. CASE EnableVerify(c) \/ CloseDisplay(c) \/ Reply(c) \/ Unlock(c)
      BY <3>5 DEF EnableVerify, CloseDisplay, Reply, Unlock, TypeOK
    <3>6. QED
      BY <1>4, <3>1, <3>2, <3>3, <3>4, <3>5 DEF Step
  <2>2. QED
    BY <1>0, <2>1, Silent
<1>5. QED
  BY <1>1, <1>2, <1>3, <1>4

\* vcp_changed announces the successful writes, all of them and in order.
THEOREM Announced == Spec => []AnnouncedInOrder
<1>1. Init => AnnouncedInv
  BY DEF Init, AnnouncedInv
<1>2. TypeOK /\ WorkersInv /\ AnnouncedInv /\ [Next]_vars => AnnouncedInv'
  <2>. SUFFICES ASSUME TypeOK, WorkersInv, AnnouncedInv, [Next]_vars
                PROVE AnnouncedInv'
    OBVIOUS
  <2>1. CASE ListChanges \/ UNCHANGED vars
    <3>1. UNCHANGED <<pc, req, writes, announced>>
      BY <2>1 DEF ListChanges, vars
    <3>2. QED
      BY <3>1 DEF AnnouncedInv
  <2>2. QED
    BY <2>1, AnnouncedStep DEF Next
<1>3. TypeOK /\ AnnouncedInv => AnnouncedInOrder
  <2>. SUFFICES ASSUME TypeOK, AnnouncedInv PROVE AnnouncedInOrder
    OBVIOUS
  <2>. DEFINE asked == [i \in 1..Len(writes) |-> writes[i].ask]
  <2>1. /\ announced \in Seq(Requests)
        /\ Len(writes) \in Nat
        /\ Len(announced) \in Nat
        /\ \A i \in 1..Len(writes) : writes[i].ask \in Requests
    <3>. DEFINE W == [ask : Requests, target : Entries, verified : BOOLEAN]
    <3>1. \A w \in W : w.ask \in Requests
      BY Zenon
    <3>2. writes \in Seq(W) /\ announced \in Seq(Requests)
      BY DEF TypeOK
    <3>. HIDE DEF W
    <3>3. QED
      BY <3>1, <3>2
  <2>2. /\ asked \in Seq(Requests)
        /\ Len(asked) = Len(writes)
        /\ \A i \in 1..Len(writes) : asked[i] = writes[i].ask
    BY <2>1
  <2>3. \A i \in 1..Len(announced) : announced[i] = writes[i].ask
    BY DEF AnnouncedInv
  <2>. HIDE DEF asked
  <2>4. CASE \E c \in Client : pc[c] = "broadcast"
    <3>1. Len(writes) = Len(announced) + 1
      BY <2>4 DEF AnnouncedInv
    <3>2. announced = SubSeq(asked, 1, Len(asked) - 1)
      BY <2>1, <2>2, <2>3, <3>1
    <3>3. QED
      BY <2>4, <3>2 DEF AnnouncedInOrder, asked
  <2>5. CASE \A c \in Client : pc[c] # "broadcast"
    <3>1. Len(writes) = Len(announced)
      BY <2>5 DEF AnnouncedInv
    <3>2. announced = asked
      BY <2>1, <2>2, <2>3, <3>1
    <3>3. QED
      BY <2>5, <3>2 DEF AnnouncedInOrder, asked
  <2>6. QED
    BY <2>4, <2>5
<1>4. QED
  BY <1>1, <1>2, <1>3, Workers, PTL DEF Spec
==============================================================================
