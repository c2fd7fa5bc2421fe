--------------------------- MODULE MCDisplayAccess ---------------------------
(* Instances of DisplayAccess for TLC.                                     *)
EXTENDS DisplayAccess, TLC

CONSTANTS c1, c2, d1, d2, d3

Display(n, e, d) == [dispno |-> n, edid |-> e, dref |-> d, valid |-> TRUE]

\* Two monitors of one make and a third display that DDC does not work with.
A == Display(1, <<"acm", "x">>, d1)
B == Display(2, <<"acm", "y">>, d2)
Invalid == [dispno |-> -1, edid |-> <<"lap">>, dref |-> d3, valid |-> FALSE]

\* All attached; or, after a redetection, without one and renumbered.
ChangingLists ==
    {<<Invalid, A, B>>, <<Display(1, <<"acm", "y">>, d2)>>,
     <<Display(1, <<"acm", "y">>, d2), Display(2, <<"acm", "x">>, d1)>>}

\* Two monitors whose EDIDs are the same.
TwinLists == {<<A, Display(2, <<"acm", "x">>, d2)>>}

Ask(op, n, e, prefix, noVerify) ==
    [op |-> op, number |-> n, edid |-> e, prefix |-> prefix, codes |-> 2,
     noVerify |-> noVerify]

MixedRequests ==
    {Ask("inspect", 2, None, FALSE, FALSE),
     Ask("read", 1, None, FALSE, FALSE),
     Ask("read_all", None, <<"acm">>, TRUE, FALSE),
     Ask("write", 2, None, FALSE, FALSE),
     Ask("write", None, <<"acm", "y">>, FALSE, TRUE),
     Ask("write", None, <<"acm">>, TRUE, FALSE)}

\* What the D-Bus daemon always does: pass on both identifiers.
BothIdentifiers == {Ask("write", 2, <<"acm", "x">>, FALSE, FALSE)}

Symmetry == Permutations(Client)
==============================================================================
