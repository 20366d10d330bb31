------------------------------ MODULE Serializer ------------------------------
(***************************************************************************)
(* Storing values in the data section (lib/MaxMind/DB/Writer/Serializer.pm)*)
(* and reading them back (MaxMind::DB::Reader::Decoder).                   *)
(*                                                                         *)
(* store_data, _encode_map and _encode_array call each other; what the     *)
(* calls in progress still have to do is the stack "work".  A step is one  *)
(* call of store_data up to its first nested call, one call of the type    *)
(* callback, one _save_position, or the return to the caller.              *)
(*                                                                         *)
(* Data is a record with a field named for its kind:    text (bytes),      *)
(* number, flag, packed (a float's bytes), entries (a hash, keyed by text),*)
(* items (an array).  Floats and booleans also have the length of the      *)
(* caller's Perl string for them, printed.  Positions count from 0.        *)
(***************************************************************************)
EXTENDS DataFormat, FiniteSetsExt, TLC

CONSTANTS
  Item,                    \* the values that are stored, members included
  Requests,                \* those that callers ask for
  KeyType,                 \* map_key_type_callback: type and member type for each key
  Unsure,                  \* keys for which the callback may die
  NoType, Undef,           \* no member type; undef
  DeduplicateData,         \* _deduplicate_data
  MinimumCacheableSize,    \* 4
  LongNumber,              \* the numbers with 4 * MinimumCacheableSize digits or more
  MaxBuffer,               \* bound: no request when the buffer is longer
  MaxDepth,                \* bound: values and pointers nested deeper are not read
  NoRequest                \* no call in progress

Typed(type, data, member) == [type |-> type, data |-> data, member |-> member]

TypeName == [n \in {TypeNumber[t] : t \in DOMAIN TypeNumber} |->
               CHOOSE t \in DOMAIN TypeNumber : TypeNumber[t] = n]
Texts == {"utf8_string", "bytes"}
Unsigned == {"uint16", "uint32", "uint64", "uint128"}
Packs == {"double", "float"}

-------------------------------------------------------------------------------
(* The values of maps and arrays *)

KeyBefore(k, l) == \/ IsStrictPrefix(k, l)
                   \/ \E n \in 1..Len(k) : /\ n <= Len(l) /\ k[n] < l[n]
                                           /\ SubSeq(k, 1, n-1) = SubSeq(l, 1, n-1)
SortedKeys(entries) == SetToSortSeq(DOMAIN entries, KeyBefore)

KeyItem(k) == Typed("utf8_string", [text |-> k], NoType)
ValueItem(entries, k) == Typed(KeyType[k].type, entries[k], KeyType[k].member)
ArrayItem(item, n) == Typed(item.member, item.data.items[n], NoType)

VARIABLES
  buffer,
  cache,                   \* _cache: the position of each value
  work,                    \* what the calls in progress still have to do
  root,                    \* the value the caller asked for
  returned                 \* the positions that callers got

vars == <<buffer, cache, work, root, returned>>

-------------------------------------------------------------------------------
\* _should_cache_value.  (A number is as long as its digits; only "references
\* and long scalars" get a pointer.)
ShouldCache(item) ==
  /\ DeduplicateData
  /\ item.type \notin {"int32", "uint16", "uint32"}
  /\ CASE item.type \in {"uint64", "uint128"} -> item.data.number >= LongNumber
       [] item.type \in {"map", "array"} -> TRUE
       [] item.type \in Texts -> Len(item.data.text) >= MinimumCacheableSize
       [] item.type \in Packs \cup {"boolean"} -> item.data.printed >= MinimumCacheableSize

\* store_data and the _encode methods die before they write anything.
Dies(item) ==
  CASE item.data = Undef -> TRUE
    [] item.data # Undef /\ item.type \in Texts -> ~Storable(Len(item.data.text))
    [] item.data # Undef /\ item.type \in Unsigned -> ~Fits(item.type, item.data.number)
    [] item.data # Undef /\ item.type = "array" -> item.member = NoType
    [] OTHER -> FALSE

\* What an _encode method writes before it stores the members.
Encoded(item) ==
  LET type == item.type  data == item.data IN
  CASE type \in Texts -> ControlBytes(TypeNumber[type], Len(data.text)) \o data.text
    [] type \in Packs -> ControlBytes(TypeNumber[type], Len(data.packed)) \o data.packed
    [] type \in Unsigned -> EncodeUnsigned(type, data.number)
    [] type = "int32" -> EncodeInt32(data.number)
    [] type = "boolean" -> ControlBytes(TypeNumber.boolean, IF data.flag THEN 1 ELSE 0)
    [] type = "map" -> ControlBytes(TypeNumber.map, Cardinality(DOMAIN data.entries))
    [] type = "array" -> ControlBytes(TypeNumber.array, Len(data.items))

Call(item) == [do |-> "store", item |-> item]
Ask(k) == [do |-> "ask", key |-> k]
Save(data, position) == [do |-> "save", data |-> data, position |-> position]

\* The calls that _encode_map and _encode_array make.
MemberCalls(item) ==
  CASE item.type = "map" ->
         FlattenSeq([n \in 1..Cardinality(DOMAIN item.data.entries) |->
           LET k == SortedKeys(item.data.entries)[n]
           IN <<Call(KeyItem(k)), Ask(k), Call(ValueItem(item.data.entries, k))>>])
    [] item.type = "array" ->
         [n \in 1..Len(item.data.items) |-> Call(ArrayItem(item, n))]
    [] OTHER -> <<>>

\* A value has the fields of its type, and its members are values.
ASSUME SerializerAssumption ==
  /\ Requests \subseteq Item
  /\ \A item \in Item : item.data # Undef =>
       CASE item.type \in Texts -> item.data.text \in Seq(0 .. Byte - 1)
         [] item.type \in Packs -> item.data.packed \in Seq(0 .. Byte - 1)
         [] item.type = "map" -> IsFiniteSet(DOMAIN item.data.entries)
         [] item.type = "array" -> Len(item.data.items) \in Nat
         [] OTHER -> item.type \in Unsigned \cup {"int32", "boolean"}
  /\ \A item \in Item : ~Dies(item) =>
       MemberCalls(item) \in Seq({Call(i) : i \in Item} \cup {Ask(k) : k \in DOMAIN KeyType})

Init == /\ buffer = <<>>
        /\ cache = <<>>
        /\ work = <<>>
        /\ root = NoRequest
        /\ returned = {}

-------------------------------------------------------------------------------
Request ==
  /\ work = <<>> /\ Len(buffer) <= MaxBuffer
  /\ \E item \in Requests :
       /\ work' = <<Call(item), [do |-> "return", position |-> Len(buffer)]>>
       /\ root' = item
  /\ UNCHANGED <<buffer, cache, returned>>

Doing(what) == work # <<>> /\ Head(work).do = what

\* A die unwinds all the calls; the bytes and the cache stay.
Die ==
  /\ work' = <<>>
  /\ root' = NoRequest
  /\ UNCHANGED <<buffer, cache, returned>>

Current == Head(work).item
TooFar(position) == position >= Cutoff(3)
Cached == Current.data # Undef /\ ShouldCache(Current) /\ Current.data \in DOMAIN cache

CallDies ==
  /\ Doing("store")
  /\ IF Cached THEN TooFar(cache[Current.data]) ELSE Dies(Current)
  /\ Die

\* mistake: the cache learns of the pointer
SavesPointer ==
  /\ Doing("store") /\ Cached /\ ~TooFar(cache[Current.data])
  /\ buffer' = buffer \o EncodePointer(cache[Current.data])
  /\ cache' = [cache EXCEPT ![Current.data] = Len(buffer)]
  /\ work' = Tail(work)
  /\ UNCHANGED <<root, returned>>

StorePointer ==
  /\ Doing("store") /\ Cached /\ ~TooFar(cache[Current.data])
  /\ buffer' = buffer \o EncodePointer(cache[Current.data])
  /\ work' = Tail(work)
  /\ UNCHANGED <<cache, root, returned>>

\* Calls to store a value in full: its position is saved after its members.
SavesFirst(item, save) == save \o MemberCalls(item)                  \* mistake
Calls(item, save) == MemberCalls(item) \o save

StoreFull ==
  /\ Doing("store") /\ ~Cached /\ ~Dies(Current)
  /\ buffer' = buffer \o Encoded(Current)
  /\ work' = Calls(Current, IF ShouldCache(Current)
                            THEN <<Save(Current.data, Len(buffer))>> ELSE <<>>)
             \o Tail(work)
  /\ UNCHANGED <<cache, root, returned>>

\* The callback names a type or dies.
TypeForKey ==
  /\ Doing("ask")
  /\ work' = Tail(work)
  /\ UNCHANGED <<buffer, cache, root, returned>>

CallbackDies == Doing("ask") /\ Head(work).key \in Unsure /\ Die

SavePosition ==
  /\ Doing("save")
  /\ cache' = [data \in DOMAIN cache \cup {Head(work).data} |->
                 IF data = Head(work).data THEN Head(work).position ELSE cache[data]]
  /\ work' = Tail(work)
  /\ UNCHANGED <<buffer, root, returned>>

Return ==
  /\ Doing("return")
  /\ returned' = returned \cup {Head(work).position}
  /\ work' = Tail(work)
  /\ root' = NoRequest
  /\ UNCHANGED <<buffer, cache>>

Next == \/ Request \/ Return
        \/ CallDies \/ StorePointer \/ StoreFull
        \/ TypeForKey \/ CallbackDies \/ SavePosition

Spec == Init /\ [][Next]_vars

-------------------------------------------------------------------------------
(* The reader *)

\* What a reader gets for bytes it cannot read, and what it should get for a
\* value that can be stored.
Broken == [type |-> "broken"]
Meaning ==
  LET of[item \in Item] ==
        CASE Dies(item) -> Broken
          [] item.type = "map" ->
               [type |-> "map", entries |-> [k \in DOMAIN item.data.entries |->
                                               of[ValueItem(item.data.entries, k)]]]
          [] item.type = "array" ->
               [type |-> "array", items |-> [n \in 1..Len(item.data.items) |->
                                               of[ArrayItem(item, n)]]]
          [] item.type \in Packs -> [type |-> item.type, packed |-> item.data.packed]
          [] item.type = "boolean" -> [type |-> item.type, flag |-> item.data.flag]
          [] OTHER -> [type |-> item.type] @@ item.data
  IN of

\* F(x), with x computed once.
With(x, F(_)) == CHOOSE y \in {F(z) : z \in {x}} : TRUE

\* The values that a reader decodes at some positions.
Decoded(positions) ==
  LET Padded == buffer \o <<0, 0, 0, 0, 0, 0>>
      Nothing == [value |-> Broken, next |-> Len(buffer)]
      Ends(value, next) == IF next > Len(buffer) THEN Nothing
                           ELSE [value |-> value, next |-> next]
      Map(values) ==
        LET n == Len(values) \div 2 IN
        IF \E i \in 1..n : values[2*i] = Broken \/ values[2*i-1].type # "utf8_string" THEN Broken
        ELSE [type |-> "map",
              entries |-> [k \in {values[2*i-1].text : i \in 1..n} |->
                             values[2 * CHOOSE i \in 1..n : values[2*i-1].text = k]]]
      Array(values) == IF \E i \in 1..Len(values) : values[i] = Broken THEN Broken
                       ELSE [type |-> "array", items |-> values]
      Scalar(type, bytes) ==
        CASE type \in Texts -> [type |-> type, text |-> bytes]
          [] type \in Packs -> [type |-> type, packed |-> bytes]
          [] type \in Unsigned -> [type |-> type, number |-> Unpacked(bytes)]
          [] type = "int32" -> [type |-> type, number |-> Signed(bytes)]
          [] OTHER -> Broken
      entry[p \in 0..Len(buffer), depth \in 0..MaxDepth] ==
        LET \* n values, one after the other
            Series(n, start) ==
              LET upTo[i \in 0..n] ==
                    IF i = 0 THEN [values |-> <<>>, next |-> start]
                    ELSE With(upTo[i-1], LAMBDA so :
                           With(entry[so.next, depth - 1], LAMBDA e :
                             [values |-> Append(so.values, e.value), next |-> e.next]))
              IN upTo[n]
            Body(c, type, start) ==
              CASE type = "pointer" ->
                     With(Pointer(Padded, p + 1), LAMBDA q :
                       IF q.value >= p THEN Nothing
                       ELSE Ends(entry[q.value, depth - 1].value, q.next - 1))
                [] type = "boolean" -> Ends([type |-> type, flag |-> c.size = 1], start)
                [] start + c.size > Len(buffer) -> Nothing
                [] type = "map" ->
                     With(Series(2 * c.size, start), LAMBDA so : Ends(Map(so.values), so.next))
                [] type = "array" ->
                     With(Series(c.size, start), LAMBDA so : Ends(Array(so.values), so.next))
                [] OTHER -> Ends(Scalar(type, SubSeq(buffer, start + 1, start + c.size)),
                                 start + c.size)
        IN With(Control(Padded, p + 1), LAMBDA c :
             IF c.type \in DOMAIN TypeName /\ depth > 0 THEN Body(c, TypeName[c.type], c.next - 1)
             ELSE Nothing)
  IN [p \in positions |-> entry[p, MaxDepth].value]

-------------------------------------------------------------------------------
(* Properties *)

\* Every position that was returned decodes to the value that was stored, for
\* ever: past pointers to values that other stores left, past half-stored maps
\* and forgotten positions of stores that died.
Promise == INSTANCE DataSection WITH
  None <- NoRequest,
  contents <- Decoded(returned),
  request <- IF root = NoRequest THEN NoRequest ELSE Meaning[root]

ImplementsDataSection == Promise!Init /\ [][Promise!Next]_(Promise!vars)

\* A pointer leads to a value, never to another pointer (the format forbids it,
\* though this reader would follow it): every position that is remembered, by
\* stores that are in progress or died too, is that of a value in full.
PointersLeadToValues ==
  \A data \in DOMAIN cache :
    \E item \in Item : /\ item.data = data
                       /\ TypeNumber[item.type] = Control(buffer, cache[data] + 1).type
===============================================================================
