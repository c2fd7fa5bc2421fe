-------------------------- MODULE CapabilitiesProofs --------------------------
(***************************************************************************)
(* get_capabilities_data and its relatives, for every display and every    *)
(* answer of libddcutil.                                                   *)
(*                                                                         *)
(* The guards: what is dereferenced is held, and what is held is given     *)
(* back.  The invariant is what is held at each place; it needs to know    *)
(* that a feature missing its metadata is one the loop has been at.        *)
(*                                                                         *)
(* The reply: it is what the display declares and libddcutil knows.  The   *)
(* invariants of the three nested loops say what has been looked up so     *)
(* far; by induction, collecting pairs into a map keeps the last pair of   *)
(* every key; and the two together give the reply.                         *)
(*                                                                         *)
(* The end: no index passes its bound, no place is a dead end, and every   *)
(* step is one of finitely many that remain.                               *)
(***************************************************************************)
EXTENDS Capabilities, SequenceTheorems, NatLemmas, TLAPS

HeldInv ==
    /\ at = "opened" => held = {"handle"} /\ outcome = "none"
    /\ at = "text" => held = {"handle", "text"} /\ outcome = "none"
    /\ at = "features" => held = {"handle", "text", "parsed"}
    /\ at = "values" =>
         held = IF n \in missed THEN {"handle", "text", "parsed"} ELSE Object
    /\ at = "unwinding" => "handle" \in held /\ outcome # "none"
    /\ at = "returned" => held = {} /\ outcome # "none"

LoopInv ==
    /\ at = "values" => n <= Len(caps)
    /\ missed \subseteq 1..n
    /\ at \in {"opened", "text", "features"} => n \notin missed

----------------------------------------------------------------------------
\* What the loops find at the places they look at.
LEMMA Inputs ==
    ASSUME TypeOK
    PROVE  /\ caps \in Seq(CapVcp)
           /\ Len(caps) \in Nat
           /\ n \in Nat /\ n >= 1 /\ n <= Len(caps) + 1
           /\ \A i \in 1..Len(caps) :
                /\ caps[i].code \in Feature
                /\ Len(caps[i].values) \in Nat
                /\ defs[caps[i].code] \in Seq(Row)
<1>1. caps \in Seq(CapVcp) /\ defs \in [Feature -> Seq(Row)]
  BY CapabilitiesAssumption DEF TypeOK
<1>2. Len(caps) \in Nat /\ \A i \in 1..Len(caps) : caps[i] \in CapVcp
  BY <1>1, LenProperties, ElementOfSeq
<1>3. ASSUME NEW i \in 1..Len(caps)
      PROVE  /\ caps[i].code \in Feature
             /\ Len(caps[i].values) \in Nat
             /\ defs[caps[i].code] \in Seq(Row)
  <2>1. caps[i].code \in Feature /\ caps[i].values \in Seq(Value)
    BY <1>2 DEF CapVcp
  <2>2. QED
    BY <1>1, <2>1, LenProperties
<1>4. n \in Nat /\ n >= 1 /\ n <= Len(caps) + 1
  BY <1>2 DEF TypeOK
<1>5. QED
  BY <1>1, <1>2, <1>3, <1>4

\* The type invariant, step by step.
LEMMA TypeStep == TypeOK /\ LoopInv /\ [Next]_vars => TypeOK'
<1>. SUFFICES ASSUME TypeOK, LoopInv, [Next]_vars PROVE TypeOK'
  OBVIOUS
<1>1. CASE GetCapabilitiesString \/ CopyText \/ ParseCapabilities
           \/ GetVcpMetadata \/ AllFeatures
  BY <1>1 DEF TypeOK, GetCapabilitiesString, CopyText, ParseCapabilities,
     GetVcpMetadata, AllFeatures, Fail, Object
<1>2. CASE FetchMetadata
  <2>1. n \in 1..Len(caps) /\ Len(caps[n].values) + 1 \in Nat \ {0}
    BY <1>2, Inputs DEF FetchMetadata
  <2>2. values' \in Seq(Row)
    BY <1>2, EmptySeq DEF FetchMetadata
  <2>3. held' \subseteq Object /\ missed' \subseteq 1..Len(caps)
    BY <1>2, <2>1 DEF FetchMetadata, TypeOK, Object
  <2>4. k' \in Nat \ {0} /\ row' \in Nat \ {0}
    <3>1. row' = 1 /\ (k' = 1 \/ k' = Len(caps[n].values) + 1)
      BY <1>2 DEF FetchMetadata
    <3>2. QED
      BY <2>1, <3>1
  <2>5. QED
    BY <1>2, <2>2, <2>3, <2>4 DEF FetchMetadata, TypeOK
<1>3. CASE CompareRow
  <2>1. n \in 1..Len(caps)
    BY <1>3, Inputs DEF CompareRow, LoopInv
  <2>. DEFINE table == defs[caps[n].code]
  <2>2. table \in Seq(Row)
    BY <2>1, Inputs
  <2>3. \/ values' = values
        \/ row <= Len(table) /\ values' = Append(values, table[row])
    BY <1>3 DEF CompareRow
  <2>. HIDE DEF table
  <2>4. values' \in Seq(Row)
    <3>1. values \in Seq(Row) /\ row \in Nat \ {0} /\ Len(table) \in Nat
      BY <2>2, LenProperties DEF TypeOK
    <3>2. row <= Len(table) => table[row] \in Row
      BY <2>2, <3>1, ElementOfSeq
    <3>3. QED
      BY <2>3, <3>1, <3>2, AppendProperties
  <2>5. k' \in Nat \ {0} /\ row' \in Nat \ {0}
    BY <1>3 DEF CompareRow, NextValue, NextRow, TypeOK
  <2>6. QED
    BY <1>3, <2>4, <2>5 DEF CompareRow, TypeOK
<1>4. CASE PushFeature
  <2>. DEFINE f == [code |-> caps[n].code, named |-> n \notin missed,
                    values |-> values]
  <2>1. n \in 1..Len(caps)
    BY <1>4, Inputs DEF PushFeature, LoopInv
  <2>2. f \in FeatureData
    <3>1. caps[n].code \in Feature /\ values \in Seq(Row)
          /\ (n \notin missed) \in BOOLEAN
      BY <2>1, Inputs DEF TypeOK
    <3>2. QED
      BY <3>1 DEF FeatureData
  <2>3. features' = Append(features, f)
    BY <1>4 DEF PushFeature
  <2>. HIDE DEF f
  <2>4. features' \in Seq(FeatureData)
    BY <2>2, <2>3, AppendProperties DEF TypeOK
  <2>5. n' \in 1..(Len(caps) + 1)
    BY <1>4, <2>1, Inputs DEF PushFeature
  <2>6. QED
    BY <1>4, <2>4, <2>5 DEF PushFeature, TypeOK
<1>5. ASSUME NEW o \in Object, Drop(o) PROVE TypeOK'
  BY <1>5 DEF Drop, TypeOK
<1>6. CASE UNCHANGED vars
  BY <1>6 DEF TypeOK, vars
<1>7. QED
  BY <1>1, <1>2, <1>3, <1>4, <1>5, <1>6 DEF Next

\* Only FetchMetadata marks a feature, and the one the loop is at.
LEMMA LoopStep == TypeOK /\ LoopInv /\ [Next]_vars => LoopInv'
<1>. SUFFICES ASSUME TypeOK, LoopInv, [Next]_vars PROVE LoopInv'
  OBVIOUS
<1>1. /\ n \in Nat /\ n >= 1 /\ Len(caps) \in Nat
  BY Inputs DEF TypeOK
<1>2. CASE ParseCapabilities
  <2>1. at' = "features" => n \notin missed
    BY <1>2 DEF ParseCapabilities, Fail, LoopInv
  <2>2. QED
    BY <1>2, <2>1 DEF ParseCapabilities, Fail, LoopInv
<1>3. CASE FetchMetadata
  <2>1. /\ at' = "values" /\ n' = n /\ caps' = caps /\ n <= Len(caps)
        /\ missed' = missed \/ missed' = missed \cup {n}
    BY <1>3 DEF FetchMetadata
  <2>2. missed' \subseteq 1..n
    <3>1. missed \subseteq 1..n /\ n \in 1..n
      BY <1>1 DEF LoopInv
    <3>2. QED
      BY <2>1, <3>1
  <2>3. QED
    BY <2>1, <2>2 DEF LoopInv
<1>4. CASE PushFeature
  BY <1>1, <1>4 DEF PushFeature, LoopInv
<1>5. CASE \/ GetCapabilitiesString \/ CopyText \/ GetVcpMetadata
           \/ AllFeatures \/ CompareRow
           \/ \E o \in Object : Drop(o)
  BY <1>5 DEF GetCapabilitiesString, CopyText, GetVcpMetadata, AllFeatures,
     CompareRow, Drop, Fail, LoopInv
<1>6. CASE UNCHANGED vars
  BY <1>6 DEF LoopInv, vars
<1>7. QED
  BY <1>2, <1>3, <1>4, <1>5, <1>6 DEF Next

\* What is held changes with the place.
LEMMA HeldStep == TypeOK /\ LoopInv /\ HeldInv /\ [Next]_vars => HeldInv'
<1>. SUFFICES ASSUME TypeOK, LoopInv, HeldInv, [Next]_vars PROVE HeldInv'
  OBVIOUS
<1>. USE DEF Object
<1>1. CASE GetCapabilitiesString \/ CopyText \/ ParseCapabilities
           \/ GetVcpMetadata
  <2>1. CASE Fail
    BY <1>1, <2>1 DEF GetCapabilitiesString, CopyText, ParseCapabilities,
       GetVcpMetadata, Fail, HeldInv
  <2>2. CASE GetCapabilitiesString /\ ~Fail
    BY <2>2 DEF GetCapabilitiesString, HeldInv
  <2>3. CASE CopyText \/ (GetVcpMetadata /\ ~Fail)
    BY <2>3 DEF CopyText, GetVcpMetadata, HeldInv
  <2>4. CASE ParseCapabilities /\ ~Fail
    BY <2>4 DEF ParseCapabilities, HeldInv
  <2>5. QED
    BY <1>1, <2>1, <2>2, <2>3, <2>4
<1>2. CASE FetchMetadata
  <2>1. at = "features" /\ at' = "values" /\ n' = n /\ n \notin missed
    BY <1>2 DEF FetchMetadata, LoopInv
  <2>2. \/ held' = Object /\ missed' = missed
        \/ held' = held /\ n \in missed'
    BY <1>2, <2>1 DEF FetchMetadata, HeldInv
  <2>3. QED
    BY <2>1, <2>2 DEF HeldInv
<1>3. CASE CompareRow \/ AllFeatures
  BY <1>3 DEF CompareRow, AllFeatures, HeldInv
<1>4. CASE PushFeature
  BY <1>4 DEF PushFeature, HeldInv
<1>5. ASSUME NEW o \in Object, Drop(o) PROVE HeldInv'
  <2>1. at = "unwinding" /\ "handle" \in held /\ outcome' # "none"
    BY <1>5 DEF Drop, HeldInv
  <2>2. CASE o = "handle"
    BY <1>5, <2>1, <2>2 DEF Drop, Outlives, HeldInv, TypeOK
  <2>3. CASE o # "handle"
    BY <1>5, <2>1, <2>3 DEF Drop, HeldInv
  <2>4. QED
    BY <2>2, <2>3
<1>6. CASE UNCHANGED vars
  BY <1>6 DEF HeldInv, vars
<1>7. QED
  BY <1>1, <1>2, <1>3, <1>4, <1>5, <1>6 DEF Next

\* The three together are inductive.
LEMMA Invariant == Spec => [](TypeOK /\ LoopInv /\ HeldInv)
<1>1. Init => TypeOK /\ LoopInv /\ HeldInv
  BY CapabilitiesAssumption DEF Init, TypeOK, LoopInv, HeldInv, Object
<1>2. QED
  BY <1>1, TypeStep, LoopStep, HeldStep, PTL DEF Spec

\* The type invariant.
THEOREM Typing == Spec => []TypeOK
BY Invariant, PTL

\* Nothing of libddcutil is used after it has been freed, and the display is
\* closed last.
THEOREM Alive == Spec => []AliveWhileUsed
<1>1. TypeOK /\ HeldInv => AliveWhileUsed
  BY DEF HeldInv, AliveWhileUsed, TypeOK, Object
<1>2. QED
  BY <1>1, Invariant, PTL

\* Every way out gives everything back.
THEOREM Released == Spec => []NothingLeaks
<1>1. HeldInv => NothingLeaks
  BY DEF HeldInv, NothingLeaks
<1>2. QED
  BY <1>1, Invariant, PTL

----------------------------------------------------------------------------
(* What the loops have computed so far                                     *)

\* The first row of a table that is about its value.
FirstRow(table, r) ==
    /\ r \in 1..Len(table)
    /\ \A s \in 1..(r - 1) : table[s].code # table[r].code

\* vals is what looking the first m values of f up in the table yields: first
\* rows of these values, and one for each of them that has a row.
LookedUp(vals, f, table, m) ==
    /\ \A j \in 1..Len(vals) : \E r \in 1..Len(table) :
         /\ FirstRow(table, r)
         /\ vals[j] = table[r]
         /\ \E l \in 1..m : f.values[l] = table[r].code
    /\ \A l \in 1..m, r \in 1..Len(table) :
         table[r].code = f.values[l]
           => \E j \in 1..Len(vals) : vals[j].code = f.values[l]

\* The features that are done, and no row before the current one is about the
\* current value.
DoneInv ==
    /\ Len(features) = n - 1
    /\ \A i \in 1..(n - 1) :
         /\ features[i].code = caps[i].code
         /\ features[i].named = (i \notin missed)
         /\ IF i \in missed THEN features[i].values = <<>>
            ELSE LookedUp(features[i].values, caps[i], defs[caps[i].code],
                          Len(caps[i].values))

CurrentInv ==
    at = "values" =>
      IF n \in missed
      THEN values = <<>> /\ k > Len(caps[n].values)
      ELSE /\ k <= Len(caps[n].values) + 1
           /\ LookedUp(values, caps[n], defs[caps[n].code], k - 1)
           /\ k <= Len(caps[n].values) =>
                \A s \in 1..Len(defs[caps[n].code]) :
                  s < row => defs[caps[n].code][s].code # caps[n].values[k]

EndInv ==
    call = "capabilities_data" /\ outcome = "ok" => n > Len(caps)

\* A value that has a row has a first one.
LEMMA RowFound ==
    ASSUME NEW table, Len(table) \in Nat, NEW r \in 1..Len(table)
    PROVE  \E s \in 1..Len(table) :
             FirstRow(table, s) /\ table[s].code = table[r].code
<1>. DEFINE T == {s \in 1..Len(table) : table[s].code = table[r].code}
<1>1. T \subseteq Nat /\ T # {}
  OBVIOUS
<1>2. PICK s \in T : \A t \in T : s <= t
  BY <1>1, Least
<1>3. ASSUME NEW t \in 1..(s - 1) PROVE table[t].code # table[s].code
  BY <1>2
<1>4. QED
  BY <1>2, <1>3 DEF FirstRow

\* It has no more than one.
LEMMA FirstRowUnique ==
    ASSUME NEW table, NEW r, NEW s, FirstRow(table, r), FirstRow(table, s),
           table[r].code = table[s].code, Len(table) \in Nat
    PROVE  r = s
BY DEF FirstRow

\* A value that has no row adds nothing to what is looked up.
LEMMA LookedUpSkip ==
    ASSUME NEW vals, NEW f, NEW table, NEW m \in Nat,
           Len(table) \in Nat, LookedUp(vals, f, table, m),
           \A s \in 1..Len(table) : table[s].code # f.values[m + 1]
    PROVE  LookedUp(vals, f, table, m + 1)
<1>1. ASSUME NEW j \in 1..Len(vals)
      PROVE  \E r \in 1..Len(table) :
               /\ FirstRow(table, r)
               /\ vals[j] = table[r]
               /\ \E l \in 1..(m + 1) : f.values[l] = table[r].code
  <2>1. PICK r \in 1..Len(table) :
          /\ FirstRow(table, r)
          /\ vals[j] = table[r]
          /\ \E l \in 1..m : f.values[l] = table[r].code
    BY DEF LookedUp
  <2>2. \E l \in 1..(m + 1) : f.values[l] = table[r].code
    BY <2>1
  <2>3. QED
    BY <2>1, <2>2
<1>2. ASSUME NEW l \in 1..(m + 1), NEW r \in 1..Len(table),
             table[r].code = f.values[l]
      PROVE  \E j \in 1..Len(vals) : vals[j].code = f.values[l]
  <2>1. l \in 1..m
    BY <1>2
  <2>2. QED
    BY <1>2, <2>1 DEF LookedUp
<1>3. QED
  BY <1>1, <1>2 DEF LookedUp

\* A value that has one adds the first.
LEMMA LookedUpAdd ==
    ASSUME NEW vals \in Seq(Row), NEW f, NEW table \in Seq(Row),
           NEW m \in Nat, LookedUp(vals, f, table, m),
           NEW r \in 1..Len(table), FirstRow(table, r),
           table[r].code = f.values[m + 1]
    PROVE  LookedUp(Append(vals, table[r]), f, table, m + 1)
<1>. DEFINE new == Append(vals, table[r])
<1>1. /\ Len(vals) \in Nat
      /\ Len(new) = Len(vals) + 1
      /\ \A j \in 1..Len(vals) : new[j] = vals[j]
      /\ new[Len(vals) + 1] = table[r]
  <2>1. table[r] \in Row
    BY ElementOfSeq
  <2>2. QED
    BY <2>1, LenProperties, AppendProperties
<1>. HIDE DEF new
<1>2. ASSUME NEW j \in 1..Len(new)
      PROVE  \E s \in 1..Len(table) :
               /\ FirstRow(table, s)
               /\ new[j] = table[s]
               /\ \E l \in 1..(m + 1) : f.values[l] = table[s].code
  <2>1. CASE j \in 1..Len(vals)
    <3>1. PICK s \in 1..Len(table) :
            /\ FirstRow(table, s)
            /\ vals[j] = table[s]
            /\ \E l \in 1..m : f.values[l] = table[s].code
      BY <2>1 DEF LookedUp
    <3>2. new[j] = table[s] /\ \E l \in 1..(m + 1) : f.values[l] = table[s].code
      BY <1>1, <2>1, <3>1
    <3>3. QED
      BY <3>1, <3>2
  <2>2. CASE j = Len(vals) + 1
    <3>1. new[j] = table[r] /\ m + 1 \in 1..(m + 1)
      BY <1>1, <2>2
    <3>2. QED
      BY <3>1
  <2>3. QED
    BY <1>1, <2>1, <2>2
<1>3. ASSUME NEW l \in 1..(m + 1), NEW s \in 1..Len(table),
             table[s].code = f.values[l]
      PROVE  \E j \in 1..Len(new) : new[j].code = f.values[l]
  <2>1. CASE l \in 1..m
    <3>1. PICK j \in 1..Len(vals) : vals[j].code = f.values[l]
      BY <1>3, <2>1 DEF LookedUp
    <3>2. QED
      BY <1>1, <3>1
  <2>2. CASE l = m + 1
    <3>1. new[Len(vals) + 1].code = f.values[l]
      BY <1>1, <2>2
    <3>2. QED
      BY <1>1, <3>1
  <2>3. QED
    BY <2>1, <2>2
<1>4. LookedUp(new, f, table, m + 1)
  BY <1>2, <1>3 DEF LookedUp
<1>5. QED
  BY <1>4 DEF new

\* The call succeeds only once the loop has been through all features.
LEMMA EndStep == TypeOK /\ EndInv /\ [Next]_vars => EndInv'
<1>. SUFFICES ASSUME TypeOK, EndInv, [Next]_vars PROVE EndInv'
  OBVIOUS
<1>1. n \in Nat /\ Len(caps) \in Nat
  BY Inputs
<1>2. CASE PushFeature
  BY <1>1, <1>2 DEF PushFeature, EndInv
<1>3. CASE \/ GetCapabilitiesString \/ CopyText \/ ParseCapabilities
           \/ GetVcpMetadata \/ AllFeatures \/ CompareRow \/ FetchMetadata
           \/ \E o \in Object : Drop(o)
  BY <1>3 DEF GetCapabilitiesString, CopyText, GetVcpMetadata, AllFeatures,
     ParseCapabilities, CompareRow, FetchMetadata, Drop, Fail, EndInv
<1>4. CASE UNCHANGED vars
  BY <1>4 DEF EndInv, vars
<1>5. QED
  BY <1>2, <1>3, <1>4 DEF Next

\* PushFeature adds what the loops below it have found for the feature.
LEMMA DoneStep ==
    TypeOK /\ LoopInv /\ DoneInv /\ CurrentInv /\ [Next]_vars => DoneInv'
<1>. SUFFICES ASSUME TypeOK, LoopInv, DoneInv, CurrentInv, [Next]_vars
              PROVE  DoneInv'
  OBVIOUS
<1>1. n \in Nat /\ n >= 1 /\ Len(caps) \in Nat
  BY Inputs
<1>2. CASE FetchMetadata
  <2>1. /\ UNCHANGED <<caps, defs, n, features>>
        /\ \A i \in 1..(n - 1) : i \in missed' <=> i \in missed
    BY <1>1, <1>2 DEF FetchMetadata
  <2>2. QED
    BY <2>1 DEF DoneInv
<1>3. CASE PushFeature
  <2>. DEFINE f == [code |-> caps[n].code, named |-> n \notin missed,
                    values |-> values]
  <2>1. /\ UNCHANGED <<caps, defs, missed>>
        /\ n' = n + 1
        /\ features' = Append(features, f)
        /\ at = "values" /\ k > Len(caps[n].values)
    BY <1>3 DEF PushFeature
  <2>2. n \in 1..Len(caps) /\ Len(caps[n].values) \in Nat /\ k \in Nat
    BY <1>1, <2>1, Inputs DEF LoopInv, TypeOK
  <2>3. /\ f.code = caps[n].code
        /\ f.named = (n \notin missed)
        /\ f.values = values
    OBVIOUS
  <2>4. IF n \in missed THEN f.values = <<>>
        ELSE LookedUp(f.values, caps[n], defs[caps[n].code],
                      Len(caps[n].values))
    <3>1. CASE n \in missed
      BY <2>1, <2>3, <3>1 DEF CurrentInv
    <3>2. CASE n \notin missed
      <4>1. k <= Len(caps[n].values) + 1
            /\ LookedUp(values, caps[n], defs[caps[n].code], k - 1)
        BY <2>1, <3>2 DEF CurrentInv
      <4>2. k - 1 = Len(caps[n].values)
        BY <2>1, <2>2, <4>1
      <4>3. QED
        BY <2>3, <3>2, <4>1, <4>2
    <3>3. QED
      BY <3>1, <3>2
  <2>. HIDE DEF f
  <2>5. /\ Len(features') = n
        /\ \A i \in 1..(n - 1) : features'[i] = features[i]
        /\ features'[n] = f
    <3>1. features \in Seq(FeatureData) /\ Len(features) = n - 1
      BY DEF TypeOK, DoneInv
    <3>2. f \in FeatureData
      <4>1. caps[n].code \in Feature /\ values \in Seq(Row)
            /\ (n \notin missed) \in BOOLEAN
        BY <2>2, Inputs DEF TypeOK
      <4>2. QED
        BY <4>1 DEF FeatureData, f
    <3>3. QED
      BY <1>1, <2>1, <3>1, <3>2, AppendProperties
  <2>6. ASSUME NEW i \in 1..n
        PROVE  /\ features'[i].code = caps[i].code
               /\ features'[i].named = (i \notin missed)
               /\ IF i \in missed THEN features'[i].values = <<>>
                  ELSE LookedUp(features'[i].values, caps[i],
                                defs[caps[i].code], Len(caps[i].values))
    <3>1. CASE i = n
      BY <2>3, <2>4, <2>5, <3>1
    <3>2. CASE i \in 1..(n - 1)
      BY <2>5, <3>2 DEF DoneInv
    <3>3. QED
      BY <1>1, <3>1, <3>2
  <2>7. n' - 1 = n
    BY <1>1, <2>1
  <2>8. QED
    BY <2>1, <2>5, <2>6, <2>7 DEF DoneInv
<1>4. CASE \/ GetCapabilitiesString \/ CopyText \/ ParseCapabilities
           \/ GetVcpMetadata \/ AllFeatures \/ CompareRow
           \/ \E o \in Object : Drop(o)
  <2>1. UNCHANGED <<caps, defs, n, features, missed>>
    BY <1>4 DEF GetCapabilitiesString, CopyText, GetVcpMetadata, AllFeatures,
       ParseCapabilities, CompareRow, Drop
  <2>2. QED
    BY <2>1 DEF DoneInv
<1>5. CASE UNCHANGED vars
  BY <1>5 DEF DoneInv, vars
<1>6. QED
  BY <1>2, <1>3, <1>4, <1>5 DEF Next

\* A turn of the inner loops looks one row further, and takes it if it is the
\* value's: the first, because none before it was.
LEMMA CurrentStep ==
    TypeOK /\ LoopInv /\ CurrentInv /\ [Next]_vars => CurrentInv'
<1>. SUFFICES ASSUME TypeOK, LoopInv, CurrentInv, [Next]_vars
              PROVE  CurrentInv'
  OBVIOUS
<1>1. CASE FetchMetadata
  <2>1. /\ at = "features" /\ n <= Len(caps)
        /\ UNCHANGED <<caps, defs, n>>
        /\ values' = <<>> /\ row' = 1
        /\ \/ k' = 1 /\ missed' = missed
           \/ n \in missed' /\ k' = Len(caps[n].values) + 1
    BY <1>1 DEF FetchMetadata
  <2>2. n \notin missed /\ Len(caps[n].values) \in Nat
        /\ Len(defs[caps[n].code]) \in Nat
    <3>1. n \in 1..Len(caps)
      BY <2>1, Inputs
    <3>2. defs[caps[n].code] \in Seq(Row)
      BY <3>1, Inputs
    <3>3. QED
      BY <2>1, <3>1, <3>2, Inputs, LenProperties DEF LoopInv
  <2>3. LookedUp(<<>>, caps[n], defs[caps[n].code], 0)
    BY DEF LookedUp
  <2>4. CASE k' = 1 /\ missed' = missed
    <3>1. k' - 1 = 0 /\ n' \notin missed' /\ k' <= Len(caps'[n'].values) + 1
      BY <2>1, <2>2, <2>4
    <3>2. \A s \in 1..Len(defs[caps[n].code]) : ~(s < row')
      BY <2>1, <2>2
    <3>3. QED
      BY <2>1, <2>3, <3>1, <3>2 DEF CurrentInv
  <2>5. CASE n \in missed' /\ k' = Len(caps[n].values) + 1
    BY <2>1, <2>2, <2>5 DEF CurrentInv
  <2>6. QED
    BY <2>1, <2>4, <2>5
<1>2. CASE CompareRow
  <2>. DEFINE table == defs[caps[n].code]
              value == caps[n].values[k]
  <2>1. /\ at = "values" /\ k <= Len(caps[n].values)
        /\ UNCHANGED <<at, caps, defs, n, missed>>
        /\ \/ row > Len(table) /\ NextValue /\ values' = values
           \/ /\ row <= Len(table) /\ table[row].code = value
              /\ values' = Append(values, table[row]) /\ NextValue
           \/ /\ row <= Len(table) /\ table[row].code # value
              /\ NextRow /\ values' = values
    BY <1>2 DEF CompareRow
  <2>2. /\ n \in 1..Len(caps)
        /\ table \in Seq(Row)
        /\ Len(caps[n].values) \in Nat
    BY <2>1, Inputs DEF LoopInv
  <2>3. Len(table) \in Nat /\ k \in Nat \ {0} /\ row \in Nat \ {0}
    BY <2>2, LenProperties DEF TypeOK
  <2>4. /\ n \notin missed
        /\ LookedUp(values, caps[n], table, k - 1)
        /\ \A s \in 1..Len(table) : s < row => table[s].code # value
    BY <2>1, <2>2, <2>3 DEF CurrentInv
  <2>5. k - 1 \in Nat /\ (k - 1) + 1 = k
    BY <2>3
  <2>. HIDE DEF table
  <2>6. CASE /\ NextValue
             /\ \/ row > Len(table) /\ values' = values
                \/ /\ row <= Len(table) /\ table[row].code = value
                   /\ values' = Append(values, table[row])
    <3>1. k' = k + 1 /\ row' = 1 /\ k' - 1 = k
      BY <2>3, <2>6 DEF NextValue
    <3>2. LookedUp(values', caps[n], table, k)
      <4>1. CASE row > Len(table) /\ values' = values
        <5>1. \A s \in 1..Len(table) : table[s].code # caps[n].values[(k - 1) + 1]
          BY <2>3, <2>4, <2>5, <4>1
        <5>2. LookedUp(values, caps[n], table, (k - 1) + 1)
          BY <2>3, <2>4, <2>5, <5>1, LookedUpSkip
        <5>3. QED
          BY <2>5, <4>1, <5>2
      <4>2. CASE /\ row <= Len(table) /\ table[row].code = value
                 /\ values' = Append(values, table[row])
        <5>1. row \in 1..Len(table) /\ values \in Seq(Row)
          BY <2>3, <4>2 DEF TypeOK
        <5>2. FirstRow(table, row)
          BY <2>3, <2>4, <4>2, <5>1 DEF FirstRow
        <5>3. table[row].code = caps[n].values[(k - 1) + 1]
          BY <2>5, <4>2
        <5>4. LookedUp(Append(values, table[row]), caps[n], table, (k - 1) + 1)
          BY <2>2, <2>4, <2>5, <5>1, <5>2, <5>3, LookedUpAdd
        <5>5. QED
          BY <2>5, <4>2, <5>4
      <4>3. QED
        BY <2>6, <4>1, <4>2
    <3>3. k' <= Len(caps[n].values) + 1
      BY <2>1, <2>2, <2>3, <3>1
    <3>4. \A s \in 1..Len(table) : ~(s < row')
      BY <3>1
    <3>5. QED
      BY <2>1, <2>4, <3>1, <3>2, <3>3, <3>4 DEF CurrentInv, table
  <2>7. CASE /\ row <= Len(table) /\ table[row].code # value
             /\ NextRow /\ values' = values
    <3>1. k' = k /\ row' = row + 1
      BY <2>7 DEF NextRow
    <3>2. \A s \in 1..Len(table) : s < row' => table[s].code # value
      BY <2>3, <2>4, <2>7, <3>1
    <3>3. k' <= Len(caps[n].values) + 1
      BY <2>1, <2>2, <2>3, <3>1
    <3>4. QED
      BY <2>1, <2>4, <2>7, <3>1, <3>2, <3>3 DEF CurrentInv, table
  <2>8. QED
    BY <2>1, <2>6, <2>7
<1>3. CASE \/ GetCapabilitiesString \/ CopyText \/ ParseCapabilities
           \/ GetVcpMetadata \/ AllFeatures \/ PushFeature
           \/ \E o \in Object : Drop(o)
  <2>1. at' # "values"
    BY <1>3 DEF GetCapabilitiesString, CopyText, GetVcpMetadata, AllFeatures,
       ParseCapabilities, PushFeature, Drop, Fail
  <2>2. QED
    BY <2>1 DEF CurrentInv
<1>4. CASE UNCHANGED vars
  BY <1>4 DEF CurrentInv, vars
<1>5. QED
  BY <1>1, <1>2, <1>3, <1>4 DEF Next

\* What the loops have computed, at every moment.
LEMMA LoopsCompute ==
    Spec => [](TypeOK /\ LoopInv /\ DoneInv /\ CurrentInv /\ EndInv)
<1>1. Init => DoneInv /\ CurrentInv /\ EndInv
  BY DEF Init, DoneInv, CurrentInv, EndInv
<1>2. QED
  BY <1>1, Invariant, DoneStep, CurrentStep, EndStep, PTL DEF Spec

----------------------------------------------------------------------------
(* What collecting a sequence of pairs into a map comes to                 *)

\* The pairs whose key comes no more among the first i.
Latest(pairs, i) ==
    {pairs[j] : j \in {l \in 1..i :
                         \A m \in (l + 1)..i : pairs[m][1] # pairs[l][1]}}

\* One more pair drives out the pair of its key.
LEMMA LatestNext ==
    ASSUME NEW pairs, NEW i \in Nat, i >= 1
    PROVE  Latest(pairs, i) =
             {q \in Latest(pairs, i - 1) : q[1] # pairs[i][1]} \cup {pairs[i]}
<1>1. ASSUME NEW q \in Latest(pairs, i)
      PROVE  q \in {r \in Latest(pairs, i - 1) : r[1] # pairs[i][1]}
                     \cup {pairs[i]}
  <2>1. PICK j \in 1..i :
          /\ q = pairs[j]
          /\ \A m \in (j + 1)..i : pairs[m][1] # pairs[j][1]
    BY DEF Latest
  <2>2. CASE j = i
    BY <2>1, <2>2
  <2>3. CASE j # i
    <3>1. j \in 1..(i - 1) /\ i \in (j + 1)..i
      BY <2>3
    <3>2. q \in Latest(pairs, i - 1)
      BY <2>1, <3>1 DEF Latest
    <3>3. QED
      BY <2>1, <3>1, <3>2
  <2>4. QED
    BY <2>2, <2>3
<1>2. pairs[i] \in Latest(pairs, i)
  BY DEF Latest
<1>3. ASSUME NEW q \in Latest(pairs, i - 1), q[1] # pairs[i][1]
      PROVE  q \in Latest(pairs, i)
  <2>1. PICK j \in 1..(i - 1) :
          /\ q = pairs[j]
          /\ \A m \in (j + 1)..(i - 1) : pairs[m][1] # pairs[j][1]
    BY DEF Latest
  <2>2. \A m \in (j + 1)..i : pairs[m][1] # pairs[j][1]
    BY <1>3, <2>1
  <2>3. QED
    BY <2>1, <2>2 DEF Latest
<1>4. QED
  BY <1>1, <1>2, <1>3

\* Collecting pairs into a map keeps the last pair of every key: by induction
\* over the pairs collected.
LEMMA CollectIsLatest ==
    ASSUME NEW pairs, Len(pairs) \in Nat
    PROVE  Collect(pairs) = Latest(pairs, Len(pairs))
<1>. DEFINE len == Len(pairs)
            Step(g) == [i \in 0..len |->
                          IF i = 0 THEN {}
                          ELSE {q \in g[i - 1] : q[1] # pairs[i][1]}
                                 \cup {pairs[i]}]
            map == CHOOSE g : g = Step(g)
            latest == [i \in 0..len |-> Latest(pairs, i)]
<1>1. Collect(pairs) = map[len]
  BY Zenon DEF Collect
<1>2. latest = Step(latest)
  <2>1. Latest(pairs, 0) = {}
    BY DEF Latest
  <2>2. ASSUME NEW i \in 0..len, i # 0
        PROVE  Latest(pairs, i) =
                 {q \in latest[i - 1] : q[1] # pairs[i][1]} \cup {pairs[i]}
    <3>1. i \in Nat /\ i >= 1 /\ i - 1 \in 0..len
      BY <2>2
    <3>2. latest[i - 1] = Latest(pairs, i - 1)
      BY <3>1
    <3>3. QED
      BY <3>1, <3>2, LatestNext
  <2>3. \A i \in 0..len :
          Latest(pairs, i) =
            IF i = 0 THEN {}
            ELSE {q \in latest[i - 1] : q[1] # pairs[i][1]} \cup {pairs[i]}
    BY <2>1, <2>2
  <2>. HIDE DEF len
  <2>4. QED
    BY <2>3, Zenon
<1>3. map = Step(map)
  <2>. HIDE DEF latest
  <2>1. \E g : g = Step(g)
     BY <1>2
  <2>. HIDE DEF Step
  <2>2. QED
    BY <2>1, Zenon
<1>. HIDE DEF map
<1>. DEFINE P == {i \in 0..len : map[i] = Latest(pairs, i)}
<1>4. 0 \in P
  BY <1>3 DEF Latest
<1>5. ASSUME NEW i \in 1..len, i - 1 \in P PROVE i \in P
  <2>1. map[i] = {q \in map[i - 1] : q[1] # pairs[i][1]} \cup {pairs[i]}
    <3>1. i \in 0..len /\ i # 0
      OBVIOUS
    <3>2. QED
      BY <1>3, <3>1
  <2>2. map[i - 1] = Latest(pairs, i - 1)
    BY <1>5
  <2>3. i \in Nat /\ i >= 1 /\ i \in 0..len
    OBVIOUS
  <2>4. map[i] = Latest(pairs, i)
    BY <2>1, <2>2, <2>3, LatestNext
  <2>5. QED
    BY <2>3, <2>4
<1>. HIDE DEF P
<1>6. len \in P
  <2>1. \A i \in 0..len : i \in P
    BY <1>4, <1>5, Induction
  <2>2. QED
    BY <2>1
<1>7. QED
  BY <1>1, <1>6 DEF P

\* A key that comes at all comes a last time, and that pair is in the map.
LEMMA LatestOf ==
    ASSUME NEW pairs, NEW len \in Nat, NEW i \in 1..len
    PROVE  \E j \in 1..len :
             /\ pairs[j][1] = pairs[i][1]
             /\ pairs[j] \in Latest(pairs, len)
             /\ \A m \in 1..len : pairs[m][1] = pairs[i][1] => m <= j
<1>. DEFINE T == {m \in 1..len : pairs[m][1] = pairs[i][1]}
<1>1. PICK j \in T : \A m \in T : m <= j
  <2>1. T \subseteq 1..len /\ T # {}
    OBVIOUS
  <2>2. QED
    BY <2>1, Greatest
<1>2. \A m \in (j + 1)..len : pairs[m][1] # pairs[j][1]
  BY <1>1
<1>3. pairs[j] \in Latest(pairs, len)
  BY <1>2 DEF Latest
<1>4. QED
  BY <1>1, <1>3

\* The values of a feature that was looked up to the end.
LEMMA NamesFound ==
    ASSUME NEW f, NEW vals \in Seq(Row), defs[f.code] \in Seq(Row),
           LookedUp(vals, f, defs[f.code], Len(f.values))
    PROVE  ConvertValues(vals) = NamesOf(f)
<1>. DEFINE table == defs[f.code]
            rows(v) == {i \in 1..Len(table) : table[i].code = v}
            first(v) == CHOOSE i \in rows(v) : \A j \in rows(v) : i <= j
            pairs == [i \in 1..Len(vals) |-> <<vals[i].code, vals[i].name>>]
            known == {f.values[i] : i \in {j \in 1..Len(f.values) :
                                             rows(f.values[j]) # {}}}
<1>1. Len(table) \in Nat /\ Len(vals) \in Nat /\ Len(pairs) = Len(vals)
  BY LenProperties
<1>2. /\ ConvertValues(vals) = Latest(pairs, Len(vals))
      /\ NamesOf(f) = {<<v, table[first(v)].name>> : v \in known}
  BY <1>1, CollectIsLatest DEF ConvertValues, NamesOf
<1>3. \A i \in 1..Len(vals) :
        /\ pairs[i][1] = vals[i].code
        /\ pairs[i] = <<vals[i].code, vals[i].name>>
  OBVIOUS
<1>4. ASSUME NEW r, FirstRow(table, r)
      PROVE  r \in rows(table[r].code) /\ first(table[r].code) = r
  <2>1. r \in rows(table[r].code)
    BY <1>4 DEF FirstRow
  <2>2. \A j \in rows(table[r].code) : r <= j
    BY <1>1, <1>4 DEF FirstRow
  <2>3. \A i \in rows(table[r].code) :
          (\A j \in rows(table[r].code) : i <= j) => i = r
    BY <1>1, <2>1, <2>2
  <2>. HIDE DEF rows
  <2>4. QED
    BY <2>1, <2>2, <2>3
<1>. HIDE DEF first, pairs
<1>5. ASSUME NEW q \in Latest(pairs, Len(vals))
      PROVE  q \in {<<v, table[first(v)].name>> : v \in known}
  <2>1. PICK j \in 1..Len(vals) : q = pairs[j]
    BY DEF Latest
  <2>2. PICK r \in 1..Len(table) :
          /\ FirstRow(table, r)
          /\ vals[j] = table[r]
          /\ \E l \in 1..Len(f.values) : f.values[l] = table[r].code
    BY DEF LookedUp
  <2>3. table[r].code \in known
    BY <1>4, <2>2
  <2>4. q = <<table[r].code, table[first(table[r].code)].name>>
    BY <1>3, <1>4, <2>1, <2>2
  <2>. HIDE DEF known
  <2>5. QED
    BY <2>3, <2>4
<1>6. ASSUME NEW v \in known
      PROVE  <<v, table[first(v)].name>> \in Latest(pairs, Len(vals))
  <2>1. PICK l \in 1..Len(f.values) : v = f.values[l] /\ rows(v) # {}
    OBVIOUS
  <2>2. PICK i \in 1..Len(vals) : vals[i].code = v
    <3>1. PICK r \in 1..Len(table) : table[r].code = f.values[l]
      BY <2>1
    <3>2. QED
      BY <2>1, <3>1 DEF LookedUp
  <2>3. PICK j \in 1..Len(vals) :
          pairs[j][1] = pairs[i][1] /\ pairs[j] \in Latest(pairs, Len(vals))
    BY <1>1, LatestOf
  <2>4. vals[j].code = v
    BY <1>3, <2>2, <2>3
  <2>5. PICK r \in 1..Len(table) : FirstRow(table, r) /\ vals[j] = table[r]
    BY DEF LookedUp
  <2>6. first(v) = r
    BY <1>4, <2>4, <2>5
  <2>7. pairs[j] = <<v, table[first(v)].name>>
    BY <1>3, <2>4, <2>5, <2>6
  <2>8. QED
    BY <2>3, <2>7
<1>. HIDE DEF known
<1>7. QED
  BY <1>2, <1>5, <1>6

\* A feature that is declared is declared a last time.
LEMMA LastExists ==
    ASSUME TypeOK, NEW i \in 1..Len(caps)
    PROVE  LET c == caps[i].code
           IN  /\ LastOf(c) \in 1..Len(caps)
               /\ caps[LastOf(c)].code = c
               /\ \A j \in 1..Len(caps) : caps[j].code = c => j <= LastOf(c)
<1>. DEFINE c == caps[i].code
            T == {j \in 1..Len(caps) : caps[j].code = c}
<1>1. \E l \in T : \A j \in T : j <= l
  <2>1. Len(caps) \in Nat /\ T \subseteq 1..Len(caps) /\ T # {}
    BY Inputs
  <2>2. QED
    BY <2>1, Greatest
<1>2. \E l \in 1..Len(caps) :
        /\ caps[l].code = c
        /\ \A j \in 1..Len(caps) : caps[j].code = c => j <= l
  BY <1>1
<1>. HIDE DEF c
<1>3. QED
  BY <1>2, Zenon DEF LastOf, c

\* A loop that has ended has the answer.
LEMMA AnswerIsRight ==
    ASSUME TypeOK, DoneInv, n > Len(caps)
    PROVE  ConvertCapabilities = Answer
<1>. DEFINE named(i) == i \notin missed
            vals(i) == IF i \in missed THEN {} ELSE NamesOf(caps[i])
            pairs == [i \in 1..Len(features) |->
                        <<features[i].code,
                          [named |-> features[i].named,
                           values |-> ConvertValues(features[i].values)]>>]
<1>1. /\ n \in Nat /\ Len(caps) \in Nat
      /\ Len(features) = Len(caps) /\ n - 1 = Len(caps)
      /\ Len(pairs) = Len(caps)
  BY Inputs DEF DoneInv
<1>2. ConvertCapabilities = Latest(pairs, Len(caps))
  BY <1>1, CollectIsLatest DEF ConvertCapabilities
<1>3. ASSUME NEW i \in 1..Len(caps)
      PROVE  /\ pairs[i] = <<caps[i].code,
                              [named |-> named(i), values |-> vals(i)]>>
             /\ pairs[i][1] = caps[i].code
  <2>1. /\ features[i].code = caps[i].code
        /\ features[i].named = named(i)
        /\ IF i \in missed THEN features[i].values = <<>>
           ELSE LookedUp(features[i].values, caps[i], defs[caps[i].code],
                         Len(caps[i].values))
    BY <1>1 DEF DoneInv
  <2>2. ConvertValues(features[i].values) = vals(i)
    <3>1. CASE i \in missed
      <4>1. features[i].values = <<>> /\ Len(<<>>) = 0
        BY <2>1, <3>1
      <4>2. ConvertValues(<<>>) = {}
        <5>. DEFINE none == [j \in 1..Len(<<>>) |-> <<<<>>[j].code, <<>>[j].name>>]
        <5>1. Len(none) = 0
          OBVIOUS
        <5>. HIDE DEF none
        <5>2. Collect(none) = Latest(none, 0)
          BY <5>1, CollectIsLatest
        <5>3. QED
          BY <5>2 DEF ConvertValues, Latest, none
      <4>3. QED
        BY <3>1, <4>1, <4>2
    <3>2. CASE i \notin missed
      <4>1. features[i].values \in Seq(Row)
        <5>1. features[i] \in FeatureData
          BY <1>1, ElementOfSeq DEF TypeOK
        <5>2. QED
          BY <5>1 DEF FeatureData
      <4>2. defs[caps[i].code] \in Seq(Row)
        BY Inputs
      <4>3. QED
        BY <2>1, <3>2, <4>1, <4>2, NamesFound
    <3>3. QED
      BY <3>1, <3>2
  <2>3. pairs[i] = <<features[i].code,
                     [named |-> features[i].named,
                      values |-> ConvertValues(features[i].values)]>>
    BY <1>1
  <2>4. pairs[i] = <<caps[i].code, [named |-> named(i), values |-> vals(i)]>>
    BY <2>1, <2>2, <2>3
  <2>. DEFINE feature == [named |-> named(i), values |-> vals(i)]
  <2>. HIDE DEF feature, pairs
  <2>5. \A c : pairs[i] = <<c, feature>> => pairs[i][1] = c
    OBVIOUS
  <2>6. QED
    BY <2>4, <2>5 DEF feature
<1>. HIDE DEF pairs, vals, named
<1>. DEFINE entry(c) == <<c, [named |-> named(LastOf(c)),
                              values |-> vals(LastOf(c))]>>
<1>4. Answer = {entry(c) : c \in {caps[i].code : i \in 1..Len(caps)}}
  BY DEF Answer, named, vals
<1>5. ASSUME NEW i \in 1..Len(caps)
      PROVE  /\ LastOf(caps[i].code) \in 1..Len(caps)
             /\ pairs[LastOf(caps[i].code)] = entry(caps[i].code)
             /\ pairs[LastOf(caps[i].code)][1] = pairs[i][1]
             /\ \A m \in 1..Len(caps) :
                  pairs[m][1] = pairs[i][1] => m <= LastOf(caps[i].code)
  <2>1. /\ LastOf(caps[i].code) \in 1..Len(caps)
        /\ caps[LastOf(caps[i].code)].code = caps[i].code
        /\ \A j \in 1..Len(caps) :
             caps[j].code = caps[i].code => j <= LastOf(caps[i].code)
    BY LastExists
  <2>2. pairs[LastOf(caps[i].code)] = entry(caps[i].code)
    BY <1>3, <2>1
  <2>3. pairs[i][1] = caps[i].code
        /\ \A m \in 1..Len(caps) : pairs[m][1] = caps[m].code
    BY <1>3
  <2>4. QED
    BY <2>1, <2>2, <2>3
<1>6. ASSUME NEW q \in Latest(pairs, Len(caps)) PROVE q \in Answer
  <2>1. PICK j \in 1..Len(caps) :
          /\ q = pairs[j]
          /\ \A m \in (j + 1)..Len(caps) : pairs[m][1] # pairs[j][1]
    BY DEF Latest
  <2>. DEFINE l == LastOf(caps[j].code)
  <2>2. /\ l \in 1..Len(caps) /\ pairs[l] = entry(caps[j].code)
        /\ j <= l
    BY <1>5
  <2>3. pairs[l][1] = pairs[j][1]
    BY <1>5
  <2>. HIDE DEF l
  <2>4. j = l
    BY <1>1, <2>1, <2>2, <2>3
  <2>. HIDE DEF entry
  <2>5. QED
    BY <1>4, <2>1, <2>2, <2>4
<1>7. ASSUME NEW i \in 1..Len(caps)
      PROVE  entry(caps[i].code) \in Latest(pairs, Len(caps))
  <2>1. PICK j \in 1..Len(caps) :
          /\ pairs[j][1] = pairs[i][1]
          /\ pairs[j] \in Latest(pairs, Len(caps))
          /\ \A m \in 1..Len(caps) : pairs[m][1] = pairs[i][1] => m <= j
    BY <1>1, LatestOf
  <2>. DEFINE l == LastOf(caps[i].code)
  <2>2. /\ l \in 1..Len(caps) /\ pairs[l] = entry(caps[i].code)
        /\ j <= l
    BY <1>5, <2>1
  <2>3. pairs[l][1] = pairs[i][1]
    BY <1>5
  <2>. HIDE DEF l
  <2>4. j = l
    BY <1>1, <2>1, <2>2, <2>3
  <2>. HIDE DEF entry
  <2>5. QED
    BY <2>1, <2>2, <2>4
<1>. HIDE DEF entry
<1>8. QED
  BY <1>2, <1>4, <1>6, <1>7

\* The reply of GetCapabilitiesMetadata says what the display declares and
\* libddcutil knows, for every display and every table.
THEOREM RightReply == Spec => []ReplyIsRight
<1>1. TypeOK /\ DoneInv /\ EndInv => ReplyIsRight
  BY AnswerIsRight DEF EndInv, ReplyIsRight
<1>2. QED
  BY <1>1, LoopsCompute, PTL

----------------------------------------------------------------------------
(* Every call comes to an end                                              *)

\* The places in the order of the functions; the loops are one place.
Stage == [opened |-> 0, text |-> 1, features |-> 2, values |-> 2,
          unwinding |-> 3, returned |-> 4]

\* No index runs further than one past the end of what it is an index of.
Bounded ==
    /\ n <= Len(caps) + 1
    /\ at = "values" => /\ k <= Len(caps[n].values) + 1
                        /\ row <= Len(defs[caps[n].code]) + 1

\* A call goes on to a later place, a later feature, from the fetching of its
\* metadata to its values, to a later value, to a later row, or gives one more
\* object back; nothing that comes earlier in this list changes, nor does what
\* is looked at.
Advances ==
    /\ UNCHANGED <<call, caps, defs>>
    /\ \/ Stage[at'] > Stage[at]
       \/ at = "values" /\ at' = "features" /\ n' > n
       \/ at = "features" /\ at' = "values" /\ n' = n
       \/ at = "values" /\ at' = "values" /\ n' = n /\ k' > k
       \/ at = "values" /\ at' = "values" /\ n' = n /\ k' = k /\ row' > row
       \/ /\ at = "unwinding" /\ at' = "unwinding"
          /\ held' \subseteq held /\ held' # held

\* Until the call has returned, the guard of some action holds: the functions
\* between them have an action at every place before the last, and where
\* guards are dropped there is one that no other has to precede.
CanGoOn ==
    \/ at \in {"opened", "features", "values", "returned"}
    \/ at = "text" /\ call \in {"capabilities_string", "capabilities_data"}
    \/ at = "unwinding" /\ \E o \in held : held \cap Outlives[o] = {}

\* Only the functions that ask for the text get to it.
TextInv == at = "text" => call \in {"capabilities_string", "capabilities_data"}

\* The indices stay within their bounds: the row starts again with each value.
LEMMA BoundedStep ==
    TypeOK /\ LoopInv /\ Bounded /\ [Next]_vars => Bounded'
<1>. SUFFICES ASSUME TypeOK, LoopInv, Bounded, [Next]_vars PROVE Bounded'
  OBVIOUS
<1>1. CASE FetchMetadata
  <2>1. n \in 1..Len(caps) /\ UNCHANGED <<caps, defs, n>> /\ row' = 1
        /\ (k' = 1 \/ k' = Len(caps[n].values) + 1)
    BY <1>1, Inputs DEF FetchMetadata
  <2>2. Len(caps[n].values) \in Nat /\ Len(defs[caps[n].code]) \in Nat
    BY <2>1, Inputs, LenProperties
  <2>3. QED
    BY <2>1, <2>2 DEF Bounded
<1>2. CASE CompareRow
  <2>1. /\ at = "values" /\ k <= Len(caps[n].values)
        /\ UNCHANGED <<at, caps, defs, n>>
        /\ \/ NextValue
           \/ row <= Len(defs[caps[n].code]) /\ NextRow
    BY <1>2 DEF CompareRow
  <2>2. n \in 1..Len(caps) /\ k \in Nat /\ row \in Nat
    BY <2>1, Inputs DEF LoopInv, TypeOK
  <2>3. Len(caps[n].values) \in Nat /\ Len(defs[caps[n].code]) \in Nat
    BY <2>2, Inputs, LenProperties
  <2>4. /\ k' <= Len(caps[n].values) + 1
        /\ row' <= Len(defs[caps[n].code]) + 1
    BY <2>1, <2>2, <2>3 DEF NextValue, NextRow, Bounded
  <2>5. QED
    BY <2>1, <2>4 DEF Bounded
<1>3. CASE \/ GetCapabilitiesString \/ CopyText \/ ParseCapabilities
           \/ GetVcpMetadata \/ AllFeatures \/ PushFeature
           \/ \E o \in Object : Drop(o)
  <2>1. at' # "values"
    BY <1>3 DEF GetCapabilitiesString, CopyText, GetVcpMetadata, AllFeatures,
       ParseCapabilities, PushFeature, Drop, Fail
  <2>2. n' <= Len(caps') + 1
    <3>1. TypeOK'
      BY TypeStep
    <3>2. QED
      BY <3>1, Inputs DEF TypeOK, LoopInv, Bounded, GetCapabilitiesString,
         CopyText, GetVcpMetadata, AllFeatures, ParseCapabilities,
         PushFeature, Drop, Fail
  <2>3. QED
    BY <2>1, <2>2 DEF Bounded
<1>4. CASE UNCHANGED vars
  BY <1>4 DEF Bounded, vars
<1>5. QED
  BY <1>1, <1>2, <1>3, <1>4 DEF Next

\* Every step gets the call further.
LEMMA AdvanceStep == TypeOK /\ [Next]_vars => [Advances]_vars
<1>. SUFFICES ASSUME TypeOK, Next PROVE Advances
  BY DEF vars
<1>1. n \in Nat /\ k \in Nat /\ row \in Nat
  BY Inputs DEF TypeOK
<1>2. CASE \/ GetCapabilitiesString \/ CopyText \/ ParseCapabilities
           \/ GetVcpMetadata \/ AllFeatures
  BY <1>2 DEF GetCapabilitiesString, CopyText, ParseCapabilities,
     GetVcpMetadata, AllFeatures, Fail, Advances, Stage
<1>3. CASE FetchMetadata
  BY <1>3 DEF FetchMetadata, Advances
<1>4. CASE CompareRow
  <2>1. /\ at = "values" /\ at' = "values" /\ n' = n
        /\ UNCHANGED <<call, caps, defs>>
        /\ NextValue \/ NextRow
    BY <1>4 DEF CompareRow
  <2>2. k' > k \/ (k' = k /\ row' > row)
    BY <1>1, <2>1 DEF NextValue, NextRow
  <2>3. QED
    BY <2>1, <2>2 DEF Advances
<1>5. CASE PushFeature
  BY <1>1, <1>5 DEF PushFeature, Advances
<1>6. ASSUME NEW o \in Object, Drop(o) PROVE Advances
  BY <1>6 DEF Drop, Advances, Stage
<1>7. QED
  BY <1>2, <1>3, <1>4, <1>5, <1>6 DEF Next

\* The text is got to from opened only, and not by get_vcp_metadata.
LEMMA TextStep == TextInv /\ [Next]_vars => TextInv'
<1>. SUFFICES ASSUME TextInv, [Next]_vars PROVE TextInv'
  OBVIOUS
<1>1. CASE Next
  BY <1>1 DEF Next, TextInv, GetCapabilitiesString, CopyText,
     ParseCapabilities, GetVcpMetadata, AllFeatures, FetchMetadata,
     CompareRow, PushFeature, Drop, Fail
<1>2. CASE UNCHANGED vars
  BY <1>2 DEF TextInv, vars
<1>3. QED
  BY <1>1, <1>2

\* Of the objects that are held, the one acquired last can be given back.
LEMMA OneIsFree ==
    ASSUME NEW S \in SUBSET Object, S # {}
    PROVE  \E o \in S : S \cap Outlives[o] = {}
<1>1. CASE "metadata" \in S
  BY <1>1 DEF Outlives
<1>2. CASE "metadata" \notin S /\ "parsed" \in S
  BY <1>2 DEF Outlives
<1>3. CASE S \cap {"metadata", "parsed"} = {} /\ "text" \in S
  BY <1>3 DEF Outlives
<1>4. CASE S = {"handle"}
  BY <1>4 DEF Outlives
<1>5. QED
  BY <1>1, <1>2, <1>3, <1>4 DEF Object

\* A call never gets stuck, and every step of it brings it nearer to its
\* return: whatever the display declares, the loops end and the guards are all
\* dropped.
THEOREM CallsEnd ==
    Spec => [](Bounded /\ CanGoOn) /\ [][Advances]_vars
<1>1. Init => Bounded /\ TextInv
  BY CapabilitiesAssumption, LenProperties DEF Init, Bounded, TextInv
<1>2. TypeOK /\ HeldInv /\ TextInv => CanGoOn
  <2>. SUFFICES ASSUME TypeOK, HeldInv, TextInv PROVE CanGoOn
    OBVIOUS
  <2>1. CASE at = "unwinding"
    <3>1. held \in SUBSET Object /\ held # {}
      BY <2>1 DEF HeldInv, TypeOK
    <3>2. \E o \in held : held \cap Outlives[o] = {}
      BY <3>1, OneIsFree
    <3>3. QED
      BY <2>1, <3>2 DEF CanGoOn
  <2>2. CASE at # "unwinding"
    BY <2>2 DEF TextInv, TypeOK, CanGoOn
  <2>3. QED
    BY <2>1, <2>2
<1>3. QED
  BY <1>1, <1>2, Invariant, BoundedStep, TextStep, AdvanceStep, PTL DEF Spec
===============================================================================
