----------------------------- MODULE EventStream -----------------------------
(***************************************************************************)
(* What the Subscribe method promises, with no channel, list, lock or      *)
(* thread in it: there is one global order of published events, and a      *)
(* subscriber receives subscription_started and then, without a gap, a     *)
(* duplicate or a reordering, the events published after it joined, until  *)
(* it leaves.  Nothing follows once it has left: the stream_closed message *)
(* the implementation writes is never received by anyone.                  *)
(***************************************************************************)
EXTENDS Naturals, Sequences

CONSTANTS Client,    \* the callers of Subscribe
          Message,   \* the events as clients see them
          Started    \* the message that opens every stream

VARIABLES published, \* every event published so far, in the one global order
          phase,     \* what each client has reached
          base,      \* how much had been published when the client joined
          stream     \* what each client has been sent

vars == <<published, phase, base, stream>>

Init ==
    /\ published = <<>>
    /\ phase = [c \in Client |-> "new"]
    /\ base = [c \in Client |-> 0]
    /\ stream = [c \in Client |-> <<>>]

Publish(m) ==
    /\ published' = Append(published, m)
    /\ UNCHANGED <<phase, base, stream>>

\* The subscription is acknowledged before it takes effect.
Open(c) ==
    /\ phase[c] = "new"
    /\ phase' = [phase EXCEPT ![c] = "opened"]
    /\ stream' = [stream EXCEPT ![c] = <<Started>>]
    /\ UNCHANGED <<published, base>>

Join(c) ==
    /\ phase[c] = "opened"
    /\ phase' = [phase EXCEPT ![c] = "joined"]
    /\ base' = [base EXCEPT ![c] = Len(published)]
    /\ UNCHANGED <<published, stream>>

Deliver(c) ==
    LET next == base[c] + Len(stream[c])
    IN  /\ phase[c] = "joined"
        /\ next <= Len(published)
        /\ stream' = [stream EXCEPT ![c] = Append(@, published[next])]
        /\ UNCHANGED <<published, phase, base>>

Leave(c) ==
    /\ phase[c] \in {"new", "joined"}
    /\ phase' = [phase EXCEPT ![c] = "left"]
    /\ UNCHANGED <<published, base, stream>>

Next ==
    \/ \E m \in Message : Publish(m)
    \/ \E c \in Client : Open(c) \/ Join(c) \/ Deliver(c) \/ Leave(c)

Spec == Init /\ [][Next]_vars
==============================================================================
