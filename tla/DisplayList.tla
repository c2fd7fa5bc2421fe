----------------------------- MODULE DisplayList -----------------------------
(***************************************************************************)
(* Looking a display up on libddcutil's list, as both daemons do.          *)
(*                                                                         *)
(* An entry of a list is [dispno, edid, dref, valid]: dref is libddcutil's *)
(* reference to the display, and an invalid entry is one that DDC does not *)
(* work with.  An EDID is a sequence, as far apart as prefixes of it can   *)
(* tell.  A request r names a display by r.number, by r.edid, of which     *)
(* r.prefix says whether it may be a prefix, or by both.                   *)
(***************************************************************************)
EXTENDS Integers, Sequences

CONSTANT None  \* an identifier that is not given, and other absent things

StartsWith(s, p) == Len(p) <= Len(s) /\ SubSeq(s, 1, Len(p)) = p

\* The test of find_by_id for one entry: the number, or else the EDID.
Matches(r, d) ==
    \/ r.number # None /\ d.dispno = r.number
    \/ /\ r.edid # None
       /\ IF r.prefix THEN StartsWith(d.edid, r.edid) ELSE d.edid = r.edid

\* The places of the list that libddcutil shows.
Listed(l, includeInvalid) == {i \in DOMAIN l : l[i].valid \/ includeInvalid}

\* The first entry that passes the test, if any does.  find_display asks for
\* invalid displays too when prefixes are allowed.
FindById(l, r) ==
    LET hits == {i \in Listed(l, r.prefix) : Matches(r, l[i])}
    IN  {l[i] : i \in {k \in hits : \A j \in hits : k <= j}}
==============================================================================
