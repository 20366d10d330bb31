----------------------------- MODULE MCSerializer -----------------------------
(***************************************************************************)
(* Instances of Serializer small enough for TLC.                           *)
(***************************************************************************)
EXTENDS Serializer

NoTypeValue == "none"

Short(n) == [text |-> <<n>>]
Long == [text |-> <<1, 2, 3, 0>>]
Number(n) == [number |-> n]

\* The keys of the maps: each has values of one type.  One is long enough to be
\* cached; for one the callback may die.
K(n) == <<n>>
Types ==
  (K(0) :> "utf8_string") @@ (K(1) :> "array") @@ (K(2) :> "uint64") @@
  (K(3) :> "utf8_string") @@ (<<3, 3, 3, 3>> :> "map") @@ (<<3, 0>> :> "int32") @@
  (<<3, 1>> :> "boolean") @@ (<<3, 2>> :> "double") @@ (<<3, 3>> :> "uint16") @@
  (<<2, 0>> :> "bytes") @@ (<<2, 1>> :> "float") @@ (<<2, 2>> :> "uint32") @@
  (<<2, 3>> :> "uint128")
KeyTypes == [k \in DOMAIN Types |->
  [type |-> Types[k], member |-> IF Types[k] = "array" THEN "utf8_string" ELSE NoType]]
UnsureKeys == {K(3)}

Map(entries) == [entries |-> entries]
Names == [items |-> <<Long, Short(1), Long>>]

City == Map(K(0) :> Long)
Country == Map((K(1) :> Names) @@ (K(2) :> Number(1024)))
Place == Map((<<3, 3, 3, 3>> :> City) @@ (K(2) :> Number(1024)))
Mixed == Map((<<3, 0>> :> Number(-3)) @@ (<<3, 1>> :> [flag |-> TRUE, printed |-> 4]) @@
             (<<3, 2>> :> [packed |-> <<1, 0, 2, 0, 3, 0, 1, 0>>, printed |-> 4]) @@
             (<<2, 0>> :> [text |-> <<0, 0, 0, 0>>]) @@ (<<2, 2>> :> Number(255)) @@
             (<<2, 1>> :> [packed |-> <<0, 1, 2, 3>>, printed |-> 3]) @@
             (<<2, 3>> :> Number(4 ^ 8)))
Doubtful == Map((<<3, 3, 3, 3>> :> City) @@ (K(3) :> Short(2)))
TooLarge == Map((K(1) :> Names) @@ (<<3, 3>> :> Number(16)))

Roots == {Typed("map", d, NoType) : d \in {City, Country, Place, Mixed, Doubtful, TooLarge}}
         \cup {Typed("array", Names, "utf8_string")}

RECURSIVE WithMembers(_)
WithMembers(item) ==
  {item} \cup
  CASE item.type = "map" -> UNION {WithMembers(i) : i \in
         UNION {{KeyItem(k), ValueItem(item.data.entries, k)} : k \in DOMAIN item.data.entries}}
    [] item.type = "array" ->
         UNION {WithMembers(ArrayItem(item, n)) : n \in 1..Len(item.data.items)}
    [] OTHER -> {}
All == UNION {WithMembers(item) : item \in Roots}

\* Every pointer, and every control byte but those at the two thresholds, is
\* read back as it was encoded.
ASSUME FormatRoundTrip ==
  /\ \A value \in 0 .. Cutoff(3) - 1 :
       Pointer(EncodePointer(value), 1).value = value
  /\ \A type \in {2, 8}, size \in 0 .. ThresholdSize(4) - 1 :
       LET bytes == ControlBytes(type, size) IN
       Control(bytes, 1) = [type |-> type, size |-> size, next |-> Len(bytes) + 1]
         <=> size \notin {ThresholdSize(2), ThresholdSize(3)}

\* A text whose length is the second threshold of the sizes.
AtThreshold == {Typed("utf8_string", [text |-> [n \in 1..ThresholdSize(2) |-> 1]], NoType)}
===============================================================================
