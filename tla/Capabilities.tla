----------------------------- MODULE Capabilities -----------------------------
(***************************************************************************)
(* What a display can do, asked by GetCapabilitiesMetadata,                *)
(* GetCapabilitiesString and GetVcpMetadata of either daemon, from the     *)
(* opened display to the maps of the reply (get_capabilities_data,         *)
(* get_capabilities_string, get_vcp_metadata in ddcutil.rs and the         *)
(* convert_capabilities_data of each daemon).                              *)
(*                                                                         *)
(* The display declares a sequence of features, each with the values it    *)
(* accepts; libddcutil knows the names of values, in tables whose end is a *)
(* row without a name.  Every object libddcutil hands out is owned by a    *)
(* guard that gives it back, on every way out.                             *)
(*                                                                         *)
(* Names are members of small sets.  Whether the text of the display can   *)
(* be had and parsed, and whether the metadata of a feature can, is for    *)
(* libddcutil to say, each time it is asked.  The list of commands that    *)
(* comes with the features is copied one for one, in a loop that cannot    *)
(* fail, and is left out.                                                  *)
(***************************************************************************)
EXTENDS Integers, Sequences

CONSTANTS
    Feature,   \* VCP feature codes
    Value,     \* codes of the values of a feature
    Name,      \* names of values
    Declared,  \* what a display may declare: sequences of [code, values]
    Table      \* what libddcutil may know: sequences of [code, name]

\* DDCA_Cap_Vcp, DDCA_Feature_Value_Entry, FeatureData.
CapVcp == [code : Feature, values : Seq(Value)]
Row == [code : Value, name : Name]
FeatureData == [code : Feature, named : BOOLEAN, values : Seq(Row)]

ASSUME CapabilitiesAssumption ==
    /\ Declared \subseteq Seq(CapVcp)
    /\ Table \subseteq Seq(Row)

VARIABLES
    call,      \* the function of ddcutil.rs that runs
    at,        \* where it is
    held,      \* the objects of libddcutil that it owns
    caps,      \* what this display declares: caps.vcp_codes
    defs,      \* what libddcutil knows of each feature: metadata.sl_values
    n,         \* the feature of caps that the loop is at
    k,         \* the value of that feature that the inner loop is at
    row,       \* metadata_value_def_ptr, the row it is compared with
    values,    \* allowed_values
    features,  \* supported_features_vec
    outcome,   \* Ok, Err, or not known yet
    missed     \* the features whose metadata could not be had

vars == <<call, at, held, caps, defs, n, k, row, values, features, outcome,
          missed>>

\* In the order in which they are acquired.
Object == {"handle", "text", "parsed", "metadata"}

\* Guards drop in the reverse order of their declarations, the parameter
\* "handle" or the caller's variable after them all.
Outlives ==
    [handle   |-> {"text", "parsed", "metadata"},
     text     |-> {"parsed", "metadata"},
     parsed   |-> {"metadata"},
     metadata |-> {}]

Init ==
    /\ call \in {"capabilities_data", "capabilities_string", "vcp_metadata"}
    /\ at = "opened"
    /\ held = {"handle"}
    /\ caps \in Declared
    /\ defs \in [Feature -> Table]
    /\ n = 1
    /\ k = 1
    /\ row = 1
    /\ values = <<>>
    /\ features = <<>>
    /\ outcome = "none"
    /\ missed = {}

----------------------------------------------------------------------------
(* Slips.  Each operator here stands in for one definition below when the  *)
(* properties are tried out on it; the specification uses none of them.    *)

\* One pointer into the table for all values of a feature.
NextValueOnward ==
    /\ k' = k + 1
    /\ UNCHANGED row

\* Locals that are dropped in any order.
DropAnyhow(o) ==
    /\ at = "unwinding"
    /\ o \in held
    /\ held' = held \ {o}
    /\ at' = IF held' = {} THEN "returned" ELSE "unwinding"
    /\ UNCHANGED <<call, caps, defs, n, k, row, values, features, outcome,
                   missed>>

\* The metadata of a feature kept when the next feature's is fetched.
PushFeatureKeeping ==
    /\ at = "values"
    /\ k > Len(caps[n].values)
    /\ features' = Append(features, [code |-> caps[n].code,
                                     named |-> n \notin missed,
                                     values |-> values])
    /\ n' = n + 1
    /\ at' = "features"
    /\ UNCHANGED <<call, held, caps, defs, k, row, values, outcome, missed>>

\* The inner loop's "i" taken for the outer one's.
PushFeatureShared ==
    /\ at = "values"
    /\ k > Len(caps[n].values)
    /\ features' = Append(features, [code |-> caps[n].code,
                                     named |-> n \notin missed,
                                     values |-> values])
    /\ n' = k + 1
    /\ held' = held \ {"metadata"}
    /\ at' = "features"
    /\ UNCHANGED <<call, caps, defs, k, row, values, outcome, missed>>

----------------------------------------------------------------------------
(* The text of the display, for two of the calls                           *)

\* An error ends the call; what is held is given back.
Fail ==
    /\ at' = "unwinding"
    /\ outcome' = "error"
    /\ UNCHANGED held

GetCapabilitiesString ==
    /\ call \in {"capabilities_data", "capabilities_string"}
    /\ at = "opened"
    /\ \/ Fail
       \/ /\ held' = held \cup {"text"}
          /\ at' = "text"
          /\ UNCHANGED outcome
    /\ UNCHANGED <<call, caps, defs, n, k, row, values, features, missed>>

\* get_capabilities_string copies the text and is done.
CopyText ==
    /\ call = "capabilities_string"
    /\ at = "text"
    /\ at' = "unwinding"
    /\ outcome' = "ok"
    /\ UNCHANGED <<call, held, caps, defs, n, k, row, values, features, missed>>

ParseCapabilities ==
    /\ call = "capabilities_data"
    /\ at = "text"
    /\ \/ Fail
       \/ /\ held' = held \cup {"parsed"}
          /\ at' = "features"
          /\ UNCHANGED outcome
    /\ UNCHANGED <<call, caps, defs, n, k, row, values, features, missed>>

----------------------------------------------------------------------------
(* The features, one after the other                                       *)

\* Metadata that cannot be had costs the feature the names of its values, and
\* the values with them; the loop goes on.
FetchMetadata ==
    /\ at = "features"
    /\ n <= Len(caps)
    /\ values' = <<>>
    /\ row' = 1
    /\ \/ /\ held' = held \cup {"metadata"}
          /\ k' = 1
          /\ UNCHANGED missed
       \/ /\ missed' = missed \cup {n}
          /\ k' = Len(caps[n].values) + 1
          /\ UNCHANGED held
    /\ at' = "values"
    /\ UNCHANGED <<call, caps, defs, n, features, outcome>>

\* The next value starts again from the first row; the next row is for the
\* same value.
NextValue ==
    /\ k' = k + 1
    /\ row' = 1

NextRow ==
    /\ row' = row + 1
    /\ UNCHANGED k

\* One turn of the loop over the table: a row without a name ends it, and so
\* does the row of the value.
CompareRow ==
    /\ at = "values"
    /\ k <= Len(caps[n].values)
    /\ LET table == defs[caps[n].code]
           value == caps[n].values[k]
       IN  \/ /\ row > Len(table)
              /\ NextValue
              /\ UNCHANGED values
           \/ /\ row <= Len(table)
              /\ table[row].code = value
              /\ values' = Append(values, table[row])
              /\ NextValue
           \/ /\ row <= Len(table)
              /\ table[row].code # value
              /\ NextRow
              /\ UNCHANGED values
    /\ UNCHANGED <<call, at, held, caps, defs, n, features, outcome, missed>>

\* The end of the body, where the metadata is given back.
PushFeature ==
    /\ at = "values"
    /\ k > Len(caps[n].values)
    /\ features' = Append(features, [code |-> caps[n].code,
                                     named |-> n \notin missed,
                                     values |-> values])
    /\ n' = n + 1
    /\ held' = held \ {"metadata"}
    /\ at' = "features"
    /\ UNCHANGED <<call, caps, defs, k, row, values, outcome, missed>>

AllFeatures ==
    /\ at = "features"
    /\ n > Len(caps)
    /\ at' = "unwinding"
    /\ outcome' = "ok"
    /\ UNCHANGED <<call, held, caps, defs, n, k, row, values, features, missed>>

----------------------------------------------------------------------------
\* get_vcp_metadata: here a failure is the caller's.
GetVcpMetadata ==
    /\ call = "vcp_metadata"
    /\ at = "opened"
    /\ \/ Fail
       \/ /\ held' = held \cup {"metadata"}
          /\ at' = "unwinding"
          /\ outcome' = "ok"
    /\ UNCHANGED <<call, caps, defs, n, k, row, values, features, missed>>

\* One guard after the other, and DisplayHandle's drop() last.
Drop(o) ==
    /\ at = "unwinding"
    /\ o \in held
    /\ held \cap Outlives[o] = {}
    /\ held' = held \ {o}
    /\ at' = IF o = "handle" THEN "returned" ELSE "unwinding"
    /\ UNCHANGED <<call, caps, defs, n, k, row, values, features, outcome,
                   missed>>

Next ==
    \/ GetCapabilitiesString
    \/ CopyText
    \/ ParseCapabilities
    \/ FetchMetadata
    \/ CompareRow
    \/ PushFeature
    \/ AllFeatures
    \/ GetVcpMetadata
    \/ \E o \in Object : Drop(o)

Spec == Init /\ [][Next]_vars

----------------------------------------------------------------------------
(* The reply: vectors are collected into maps                              *)

\* collect() into a HashMap inserts in order, and a key that is there already
\* gets the new value.
Collect(pairs) ==
    LET map[i \in 0..Len(pairs)] ==
          IF i = 0 THEN {}
          ELSE {q \in map[i - 1] : q[1] # pairs[i][1]} \cup {pairs[i]}
    IN  map[Len(pairs)]

ConvertValues(vals) ==
    Collect([i \in 1..Len(vals) |-> <<vals[i].code, vals[i].name>>])

ConvertCapabilities ==
    Collect([i \in 1..Len(features) |->
        <<features[i].code, [named |-> features[i].named,
                             values |-> ConvertValues(features[i].values)]>>])

----------------------------------------------------------------------------
(* Properties                                                              *)

\* Type invariant.
TypeOK ==
    /\ call \in {"capabilities_data", "capabilities_string", "vcp_metadata"}
    /\ at \in {"opened", "text", "features", "values", "unwinding",
               "returned"}
    /\ held \subseteq Object
    /\ caps \in Declared
    /\ defs \in [Feature -> Table]
    /\ n \in 1..(Len(caps) + 1)
    /\ k \in Nat \ {0}
    /\ row \in Nat \ {0}
    /\ values \in Seq(Row)
    /\ features \in Seq(FeatureData)
    /\ outcome \in {"none", "ok", "error"}
    /\ missed \subseteq 1..Len(caps)

\* What libddcutil handed out is there for as long as the code dereferences
\* it: the text until it is parsed or copied, the parsed capabilities through
\* the loops, the metadata of a feature through that feature's values, and the
\* display open as long as anything that came from it is held.
AliveWhileUsed ==
    /\ at = "text" => "text" \in held
    /\ at \in {"features", "values"} => {"text", "parsed"} \subseteq held
    /\ at = "values" /\ n \notin missed => "metadata" \in held
    /\ at # "returned" => "handle" \in held

\* Nothing is left with libddcutil when the call returns, by whichever of its
\* ways out; no feature's metadata outlives its turn of the loop; and a call
\* that returns has an answer.
NothingLeaks ==
    /\ at = "returned" => held = {} /\ outcome # "none"
    /\ at = "features" => "metadata" \notin held

\* The map of the reply says of every feature that the display declares, and
\* of no other, the values that the display declares and libddcutil has a name
\* for, each with the first name the table has for it.  A feature declared
\* twice is answered for the last time it is declared, and one without
\* metadata has no values.
NamesOf(f) ==
    LET table == defs[f.code]
        rows(v) == {i \in 1..Len(table) : table[i].code = v}
        first(v) == CHOOSE i \in rows(v) : \A j \in rows(v) : i <= j
    IN  {<<v, table[first(v)].name>> :
           v \in {f.values[i] : i \in {j \in 1..Len(f.values) :
                                         rows(f.values[j]) # {}}}}

LastOf(c) ==
    CHOOSE i \in 1..Len(caps) :
        /\ caps[i].code = c
        /\ \A j \in 1..Len(caps) : caps[j].code = c => j <= i

Answer ==
    {<<c, [named |-> LastOf(c) \notin missed,
           values |-> IF LastOf(c) \in missed THEN {}
                      ELSE NamesOf(caps[LastOf(c)])]>> :
       c \in {caps[i].code : i \in 1..Len(caps)}}

ReplyIsRight ==
    call = "capabilities_data" /\ at = "returned" /\ outcome = "ok"
      => ConvertCapabilities = Answer
===============================================================================
