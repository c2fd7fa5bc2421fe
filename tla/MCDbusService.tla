---------------------------- MODULE MCDbusService ----------------------------
(* Instances of DbusService for TLC.                                       *)
EXTENDS DbusService

CONSTANTS c1, c2, d1, d2, d3

Display(n, e, d) == [dispno |-> n, edid |-> e, dref |-> d, valid |-> TRUE]
Invalid == [dispno |-> -1, edid |-> <<"lap">>, dref |-> d3, valid |-> FALSE]

\* Two monitors and a display that DDC does not work with; after a replugging
\* the monitors come the other way round, or one of them is gone.
Swapped == {<<Invalid, Display(1, <<"acm", "x">>, d1),
                       Display(2, <<"acm", "y">>, d2)>>,
            <<Display(1, <<"acm", "y">>, d2), Display(2, <<"acm", "x">>, d1)>>}

Ask(op, n, e, noVerify) ==
    [op |-> op, number |-> n, edid |-> e, prefix |-> FALSE, codes |-> 1,
     noVerify |-> noVerify, all |-> FALSE, value |-> FALSE]

\* By number, the EDID being ""; by EDID, the number being -1; and by both.
\* ListDetected is left to the end of Detect.
MixedRequests ==
    {[Ask("detect", -1, <<>>, FALSE) EXCEPT !.all = TRUE],
     Ask("inspect", 2, <<>>, FALSE),
     Ask("read", 1, <<"acm", "x">>, FALSE),
     [Ask("read_all", -1, <<"acm">>, FALSE) EXCEPT !.prefix = TRUE],
     Ask("get", -1, <<>>, FALSE),
     Ask("set", -1, <<>>, FALSE),
     Ask("write", 2, <<>>, FALSE),
     Ask("write", -1, <<"acm", "x">>, TRUE)}

OneWrite == {Ask("write", 1, <<>>, TRUE), Ask("read", 1, <<>>, FALSE)}
==============================================================================
