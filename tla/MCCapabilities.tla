---------------------------- MODULE MCCapabilities ----------------------------
(***************************************************************************)
(* Displays that declare up to two features, the same one twice among them,*)
(* with up to two values; tables of up to two rows, some with two names for*)
(* one value, some with no row for a value that a display declares.        *)
(***************************************************************************)
EXTENDS Capabilities, SequencesExt

CONSTANTS f1, f2, v1, v2, a, b

MCFeature == {f1, f2}
MCValue == {v1, v2}
MCName == {a, b}

MCDeclared ==
    BoundedSeq([code : MCFeature,
                values : {<<>>, <<v1>>, <<v1, v2>>, <<v2, v2>>}], 2)

MCTable ==
    {<<>>,
     <<[code |-> v1, name |-> a], [code |-> v2, name |-> b]>>,
     <<[code |-> v2, name |-> a], [code |-> v1, name |-> b]>>,
     <<[code |-> v2, name |-> a], [code |-> v2, name |-> b]>>}
===============================================================================
