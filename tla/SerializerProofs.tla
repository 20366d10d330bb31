---------------------------- MODULE SerializerProofs ----------------------------
(***************************************************************************)
(* Pointers lead to values: PointersLeadToValues is an invariant of the    *)
(* Serializer, for every set of values, size of a byte and of a pointer.   *)
(***************************************************************************)
EXTENDS Serializer, FormatProofs, FiniteSetTheorems

-------------------------------------------------------------------------------
(* Control bytes *)

Stream(s) == \E S : s \in Seq(S)

\* A reader finds the type in the first bytes from a place on.
Types(s, p, type) ==
  /\ p \in 1..Len(s) /\ s[p] \in Nat
  /\ IF type < 8 THEN s[p] \div SizeField = type
     ELSE /\ s[p] \div SizeField = 0
          /\ p + 1 \in 1..Len(s) /\ s[p+1] = type - 7

LEMMA ControlType ==
  ASSUME NEW s, NEW p, NEW type \in 1..15, Types(s, p, type)
  PROVE  Control(s, p).type = type
<1>1. type < 8 => s[p] \div SizeField = type
  BY DEF Types
<1>2. ~(type < 8) => s[p] \div SizeField = 0 /\ s[p+1] + 7 = type
  BY DEF Types
<1>3. Control(s, p).type = IF s[p] \div SizeField = 0 THEN s[p+1] + 7 ELSE s[p] \div SizeField
  BY DEF Control
<1>. QED
  BY <1>1, <1>2, <1>3

LEMMA TypesAppended ==
  ASSUME NEW s, NEW t, Stream(s), Stream(t), NEW p, NEW type, Types(s, p, type)
  PROVE  Types(s \o t, p, type)
<1>1. PICK S, T : s \in Seq(S) /\ t \in Seq(T)
  BY DEF Stream
<1>2. s \in Seq(S \cup T) /\ t \in Seq(S \cup T)
  BY <1>1
<1>3. Len(s \o t) = Len(s) + Len(t) /\ Len(s) \in Nat /\ Len(t) \in Nat
      /\ \A i \in 1..Len(s) : (s \o t)[i] = s[i]
  BY <1>2
<1>. QED
  BY <1>3 DEF Types

\* What is written at the end of a stream is read from there.
LEMMA TypesAtEnd ==
  ASSUME NEW s, NEW t, Stream(s), Stream(t), NEW type, Types(t, 1, type)
  PROVE  Types(s \o t, Len(s) + 1, type)
<1>1. PICK S, T : s \in Seq(S) /\ t \in Seq(T)
  BY DEF Stream
<1>2. s \in Seq(S \cup T) /\ t \in Seq(S \cup T)
  BY <1>1
<1>3. Len(s \o t) = Len(s) + Len(t) /\ Len(s) \in Nat /\ Len(t) \in Nat
      /\ \A i \in 1..Len(t) : (s \o t)[Len(s) + i] = t[i]
  BY <1>2
<1>. QED
  BY <1>3 DEF Types

LEMMA StreamConcat ==
  ASSUME NEW s, NEW t, Stream(s), Stream(t)
  PROVE  Stream(s \o t)
<1>1. PICK S, T : s \in Seq(S) /\ t \in Seq(T)
  BY DEF Stream
<1>2. s \in Seq(S \cup T) /\ t \in Seq(S \cup T)
  BY <1>1
<1>3. s \o t \in Seq(S \cup T)
  BY <1>2
<1>. QED
  BY <1>3 DEF Stream

LEMMA PackedStream ==
  ASSUME NEW v, NEW n \in Nat
  PROVE  Packed(v, n) \in Seq({Packed(v, n)[i] : i \in 1..n}) /\ Len(Packed(v, n)) = n
<1>. DEFINE s == Packed(v, n)
            S == {s[i] : i \in 1..n}
<1>1. s = [i \in 1..n |-> s[i]]
  BY DEF Packed
<1>. HIDE DEF s
<1>2. s \in [1..n -> S]
  BY <1>1
<1>. HIDE DEF S
<1>3. s \in Seq(S) /\ Len(s) = n
  BY <1>2
<1>. QED
  BY <1>3 DEF s, S


\* A first byte, and the second one of types that need it.
LEMMA FirstBytesType ==
  ASSUME NEW type \in 1..15, NEW first \in Nat,
         first \div SizeField = IF type < 8 THEN type ELSE 0
  PROVE  LET s == <<first>> \o (IF type < 8 THEN <<>> ELSE <<type - 7>>)
         IN Stream(s) /\ Types(s, 1, type)
<1>. DEFINE t == IF type < 8 THEN <<>> ELSE <<type - 7>>
            s == <<first>> \o t
<1>1. CASE type < 8
  <2>1. t = <<>> /\ <<first>> \in Seq(Nat) /\ Len(<<first>>) = 1 /\ <<first>>[1] = first
    BY <1>1
  <2>2. s \in Seq(Nat) /\ Len(s) = 1 /\ s[1] = first
    BY <2>1
  <2>. HIDE DEF s
  <2>. QED
    BY <1>1, <2>2 DEF Stream, Types
<1>2. CASE ~(type < 8)
  <2>1. t = <<type - 7>> /\ type - 7 \in Nat
    BY <1>2
  <2>2. t \in Seq(Nat) /\ Len(t) = 1 /\ t[1] = type - 7
    BY <2>1
  <2>3. <<first>> \in Seq(Nat) /\ Len(<<first>>) = 1 /\ <<first>>[1] = first
    OBVIOUS
  <2>. HIDE DEF t
  <2>4. s \in Seq(Nat) /\ Len(s) = 2 /\ s[1] = first /\ s[2] = type - 7
    <3>. DEFINE u == <<first>>
    <3>. HIDE DEF u
    <3>1. u \in Seq(Nat) /\ Len(u) = 1 /\ u[1] = first
      BY <2>3 DEF u
    <3>2. /\ u \o t \in Seq(Nat) /\ Len(u \o t) = Len(u) + Len(t)
          /\ \A i \in 1 .. Len(u) + Len(t) :
               (u \o t)[i] = IF i <= Len(u) THEN u[i] ELSE t[i - Len(u)]
      BY <2>2, <3>1, ConcatProperties
    <3>3. (u \o t)[1] = u[1] /\ (u \o t)[2] = t[1] /\ Len(u \o t) = 2
      BY <2>2, <3>1, <3>2
    <3>. QED
      BY <2>2, <3>1, <3>2, <3>3 DEF u
  <2>. HIDE DEF s
  <2>. QED
    BY <1>2, <2>4 DEF Stream, Types
<1>. QED
  BY <1>1, <1>2

LEMMA ControlBytesType ==
  ASSUME NEW type \in 1..15, NEW size \in Nat
  PROVE  Stream(ControlBytes(type, size)) /\ Types(ControlBytes(type, size), 1, type)
<1>. DEFINE n == SizeBytes(size)
            high == IF type < 8 THEN type ELSE 0
            extended == IF type < 8 THEN <<>> ELSE <<type - 7>>
<1>1. n \in 0..3 /\ (n = 0 => size < Direct) /\ high \in 0..7
  BY SizeBytesRange
<1>2. CASE n = 0
  <2>1. ControlBytes(type, size) = <<high * SizeField + size>> \o extended
    BY <1>2 DEF ControlBytes
  <2>2. high * SizeField + size \in Nat /\ (high * SizeField + size) \div SizeField = high
    BY <1>1, <1>2, FieldSizes, HighField
  <2>. QED
    BY <2>1, <2>2, FirstBytesType
<1>3. CASE n # 0
  <2>. DEFINE low == Direct + n - 1
              first == high * SizeField + Direct + n - 1
              rest == Packed(size - ThresholdSize(n), n)
              start == <<first>> \o extended
  <2>1. ControlBytes(type, size) = start \o rest
    BY <1>3 DEF ControlBytes
  <2>2. low \in Nat /\ low < SizeField
    BY <1>1, <1>3, FieldSizes
  <2>3. high * SizeField + low \in Nat /\ (high * SizeField + low) \div SizeField = high
    BY <1>1, <2>2, HighField
  <2>4. first = high * SizeField + low
    BY <1>1, FieldSizes
  <2>5. Stream(start) /\ Types(start, 1, type)
    BY <2>3, <2>4, FirstBytesType
  <2>6. n \in Nat
    BY <1>1
  <2>7. Stream(rest)
    BY <2>6, PackedStream DEF Stream
  <2>. HIDE DEF start, rest
  <2>. QED
    BY <2>1, <2>5, <2>7, StreamConcat, TypesAppended
<1>. QED
  BY <1>2, <1>3

LEMMA StrippedStream ==
  ASSUME NEW S, NEW s \in Seq(S)
  PROVE  Stream(Stripped(s))
<1>1. CASE \A i \in 1..Len(s) : s[i] = 0
  <2>1. Stripped(s) = <<>> /\ Stripped(s) \in Seq({})
    BY <1>1 DEF Stripped
  <2>. QED
    BY <2>1 DEF Stream
<1>2. CASE ~(\A i \in 1..Len(s) : s[i] = 0)
  <2>. DEFINE First(i) == s[i] # 0 /\ \A j \in 1 .. i-1 : s[j] = 0
              k == CHOOSE i \in 1..Len(s) : First(i)
  <2>1. Stripped(s) = SubSeq(s, k, Len(s))
    BY <1>2 DEF Stripped
  <2>2. \E i \in 1..Len(s) : First(i)
    <3>. DEFINE NonZero == {i \in 1..Len(s) : s[i] # 0}
    <3>1. NonZero # {} /\ NonZero \in SUBSET Nat
      BY <1>2
    <3>. HIDE DEF NonZero
    <3>2. PICK i \in NonZero : \A j \in NonZero : i <= j
      BY <3>1, Least
    <3>. USE DEF NonZero
    <3>3. i \in 1..Len(s) /\ \A j \in 1 .. i-1 : j \notin NonZero
      <4>1. i \in 1..Len(s)
        OBVIOUS
      <4>. HIDE DEF NonZero
      <4>. QED
        BY <3>2, <4>1
    <3>. QED
      BY <3>3
  <2>3. k \in 1..Len(s)
    <3>. HIDE DEF First
    <3>. QED
      BY <2>2
  <2>. HIDE DEF k
  <2>4. SubSeq(s, k, Len(s)) \in Seq(S)
    BY <2>3
  <2>. QED
    BY <2>1, <2>4 DEF Stream
<1>. QED
  BY <1>1, <1>2

LEMMA EncodedIntegers ==
  ASSUME NEW type \in 1..15, NEW v, NEW n \in Nat
  PROVE  LET bytes == Stripped(Packed(v, n))
             s == ControlBytes(type, Len(bytes)) \o bytes
         IN Stream(s) /\ Types(s, 1, type)
<1>. DEFINE bytes == Stripped(Packed(v, n))
<1>1. Stream(bytes)
  BY PackedStream, StrippedStream
<1>2. Len(bytes) \in Nat
  <2>. HIDE DEF bytes
  <2>. QED
    BY <1>1 DEF Stream
<1>. HIDE DEF bytes
<1>3. Stream(ControlBytes(type, Len(bytes))) /\ Types(ControlBytes(type, Len(bytes)), 1, type)
  BY <1>2, ControlBytesType
<1>4. /\ Stream(ControlBytes(type, Len(bytes)) \o bytes)
      /\ Types(ControlBytes(type, Len(bytes)) \o bytes, 1, type)
  BY <1>1, <1>3, StreamConcat, TypesAppended
<1>. QED
  BY <1>4 DEF bytes

LEMMA TypeNumbers ==
  \A type \in Texts \cup Packs \cup Unsigned \cup {"map", "array", "int32", "boolean"} :
    TypeNumber[type] \in 1..15
BY DEF TypeNumber, Texts, Packs, Unsigned

LEMMA StoredTypes ==
  ASSUME NEW item \in Item, item.data # Undef
  PROVE  /\ item.type \in Texts \cup Packs \cup Unsigned \cup {"map", "array", "int32", "boolean"}
         /\ item.type \in Texts => item.data.text \in Seq(0 .. Byte - 1)
         /\ item.type \in Packs => item.data.packed \in Seq(0 .. Byte - 1)
         /\ item.type = "map" => IsFiniteSet(DOMAIN item.data.entries)
         /\ item.type = "array" => Len(item.data.items) \in Nat
BY SerializerAssumption DEF Texts, Packs, Unsigned

\* A value that is stored in full starts with its type.
LEMMA EncodedType ==
  ASSUME NEW item \in Item, item.data # Undef
  PROVE  /\ Stream(Encoded(item))
         /\ Types(Encoded(item), 1, TypeNumber[item.type])
         /\ TypeNumber[item.type] \in 1..15
<1>. DEFINE type == item.type
            t == TypeNumber[type]
<1>1. t \in 1..15
  BY StoredTypes, TypeNumbers
<1>. HIDE DEF t
<1>2. ASSUME NEW s, Stream(s), Encoded(item) = ControlBytes(t, Len(s)) \o s
      PROVE  Stream(Encoded(item)) /\ Types(Encoded(item), 1, t)
  <2>1. Len(s) \in Nat
    BY <1>2 DEF Stream
  <2>. QED
    BY <1>1, <1>2, <2>1, ControlBytesType, StreamConcat, TypesAppended
<1>3. ASSUME NEW size \in Nat, Encoded(item) = ControlBytes(t, size)
      PROVE  Stream(Encoded(item)) /\ Types(Encoded(item), 1, t)
  BY <1>1, <1>3, ControlBytesType
<1>4. CASE type \in Texts
  <2>1. Encoded(item) = ControlBytes(t, Len(item.data.text)) \o item.data.text
    BY <1>4 DEF Encoded, Texts, Packs, Unsigned, t
  <2>2. Stream(item.data.text)
    BY <1>4, StoredTypes DEF Stream
  <2>. QED
    BY <1>1, <1>2, <2>1, <2>2 DEF t
<1>5. CASE type \in Packs
  <2>1. Encoded(item) = ControlBytes(t, Len(item.data.packed)) \o item.data.packed
    BY <1>5 DEF Encoded, Texts, Packs, Unsigned, t
  <2>2. Stream(item.data.packed)
    BY <1>5, StoredTypes DEF Stream
  <2>. QED
    BY <1>1, <1>2, <2>1, <2>2 DEF t
<1>6. CASE type \in Unsigned
  <2>. DEFINE n == IF type \in {"uint16", "uint32"} THEN 4 ELSE 16
              bytes == Stripped(Packed(item.data.number, n))
  <2>1. Encoded(item) = ControlBytes(t, Len(bytes)) \o bytes
    BY <1>6 DEF Encoded, EncodeUnsigned, Texts, Packs, Unsigned, t
  <2>2. n \in Nat
    OBVIOUS
  <2>. HIDE DEF n
  <2>. QED
    BY <1>1, <2>1, <2>2, EncodedIntegers DEF t
<1>7. CASE type = "int32"
  <2>1. Encoded(item) = EncodeInt32(item.data.number)
    BY <1>7 DEF Encoded, Texts, Packs, Unsigned
  <2>2. t = TypeNumber.int32
    BY <1>7 DEF t
  <2>3. 4 \in Nat
    OBVIOUS
  <2>. QED
    BY <1>1, <2>1, <2>2, <2>3, EncodedIntegers DEF EncodeInt32, t
<1>8. CASE type = "boolean"
  <2>1. Encoded(item) = ControlBytes(TypeNumber.boolean, IF item.data.flag THEN 1 ELSE 0)
    BY <1>8 DEF Encoded, Texts, Packs, Unsigned
  <2>2. t = TypeNumber.boolean /\ (IF item.data.flag THEN 1 ELSE 0) \in Nat
    BY <1>8 DEF t
  <2>. QED
    BY <1>1, <1>3, <2>1, <2>2 DEF t
<1>9. CASE type = "map"
  <2>1. Encoded(item) = ControlBytes(TypeNumber.map, Cardinality(DOMAIN item.data.entries))
    BY <1>9 DEF Encoded, Texts, Packs, Unsigned
  <2>2. t = TypeNumber.map /\ Cardinality(DOMAIN item.data.entries) \in Nat
    BY <1>9, StoredTypes, FS_CardinalityType DEF t
  <2>. QED
    BY <1>1, <1>3, <2>1, <2>2 DEF t
<1>10. CASE type = "array"
  <2>1. Encoded(item) = ControlBytes(TypeNumber.array, Len(item.data.items))
    BY <1>10 DEF Encoded, Texts, Packs, Unsigned
  <2>2. t = TypeNumber.array /\ Len(item.data.items) \in Nat
    BY <1>10, StoredTypes DEF t
  <2>. QED
    BY <1>1, <1>3, <2>1, <2>2 DEF t
<1>. QED
  BY <1>4, <1>5, <1>6, <1>7, <1>8, <1>9, <1>10, StoredTypes DEF t


-------------------------------------------------------------------------------
(* Pointers *)

LEMMA EncodedPointer ==
  ASSUME NEW value \in Nat, ~TooFar(value)
  PROVE  Stream(EncodePointer(value))
<1>. DEFINE n == PointerBytes(value)
            k == IF n = 3 THEN 4 ELSE n + 2
            bytes == Packed(value - Offset(n), k)
            control == TypeNumber.pointer * SizeField + n * PointerHigh
<1>1. n \in 0..3
  <2>1. value < Cutoff(3)
    BY CutoffType DEF TooFar
  <2>. QED
    BY <2>1, PointerClass
<1>. HIDE DEF n
<1>2. k \in Nat /\ k > 0
  BY <1>1
<1>. HIDE DEF k
<1>3. Stream(bytes) /\ Len(bytes) = k
  BY <1>2, PackedStream DEF Stream
<1>4. Stream(<<control>>) /\ Stream(<<control + bytes[1]>>)
  <2>1. ASSUME NEW x PROVE Stream(<<x>>)
    <3>1. <<x>> \in Seq({x})
      OBVIOUS
    <3>. QED
      BY <3>1 DEF Stream
  <2>. QED
    BY <2>1
<1>5. Stream(Tail(bytes))
  <2>. HIDE DEF bytes
  <2>1. PICK S : bytes \in Seq(S)
    BY <1>3 DEF Stream
  <2>2. Tail(bytes) \in Seq(S)
    BY <1>2, <1>3, <2>1
  <2>. QED
    BY <2>2 DEF Stream
<1>6. EncodePointer(value) = IF n = 3 THEN <<control>> \o bytes
                             ELSE <<control + bytes[1]>> \o Tail(bytes)
  BY DEF EncodePointer, n, k
<1>. HIDE DEF bytes, control
<1>. QED
  BY <1>3, <1>4, <1>5, <1>6, StreamConcat

-------------------------------------------------------------------------------
(* The inductive invariant: the positions in the cache, and those that the  *)
(* calls in progress will save, are those of values that are stored in full. *)

Leads(bytes, data, position) ==
  \E item \in Item : /\ item.data = data /\ item.data # Undef
                     /\ position \in Nat
                     /\ Types(bytes, position + 1, TypeNumber[item.type])

Proper(bytes, call) == /\ call.do = "store" => call.item \in Item
                       /\ call.do = "save" => Leads(bytes, call.data, call.position)

ProperCalls(bytes, calls) == Stream(calls) /\ \A i \in 1..Len(calls) : Proper(bytes, calls[i])

SerializerInv == /\ Stream(buffer)
                 /\ ProperCalls(buffer, work)
                 /\ \A data \in DOMAIN cache : Leads(buffer, data, cache[data])

\* What is written later leaves the values where they are.
LEMMA LeadsAppended ==
  ASSUME NEW s, NEW t, Stream(s), Stream(t), NEW data, NEW position, Leads(s, data, position)
  PROVE  Leads(s \o t, data, position)
BY TypesAppended DEF Leads

LEMMA ProperAppended ==
  ASSUME NEW s, NEW t, Stream(s), Stream(t), NEW calls, ProperCalls(s, calls)
  PROVE  ProperCalls(s \o t, calls)
BY LeadsAppended DEF ProperCalls, Proper

LEMMA ProperConcat ==
  ASSUME NEW bytes, NEW s, NEW t, ProperCalls(bytes, s), ProperCalls(bytes, t)
  PROVE  ProperCalls(bytes, s \o t)
<1>1. PICK S, T : s \in Seq(S) /\ t \in Seq(T)
  BY DEF ProperCalls, Stream
<1>2. s \in Seq(S \cup T) /\ t \in Seq(S \cup T)
  BY <1>1
<1>3. /\ Len(s \o t) = Len(s) + Len(t) /\ Len(s) \in Nat /\ Len(t) \in Nat
      /\ \A i \in 1 .. Len(s) + Len(t) :
           (s \o t)[i] = IF i <= Len(s) THEN s[i] ELSE t[i - Len(s)]
  BY <1>2, ConcatProperties, LenProperties
<1>4. ASSUME NEW i \in 1..Len(s \o t) PROVE Proper(bytes, (s \o t)[i])
  <2>1. CASE i <= Len(s)
    BY <1>3, <2>1 DEF ProperCalls
  <2>2. CASE ~(i <= Len(s))
    <3>1. i - Len(s) \in 1..Len(t) /\ (s \o t)[i] = t[i - Len(s)]
      BY <1>3, <2>2
    <3>. QED
      BY <3>1 DEF ProperCalls
  <2>. QED
    BY <2>1, <2>2
<1>5. Stream(s \o t)
  BY StreamConcat DEF ProperCalls
<1>. QED
  BY <1>4, <1>5 DEF ProperCalls

LEMMA ProperTail ==
  ASSUME NEW bytes, NEW calls, ProperCalls(bytes, calls), calls # <<>>
  PROVE  Proper(bytes, Head(calls)) /\ ProperCalls(bytes, Tail(calls))
<1>1. PICK S : calls \in Seq(S)
  BY DEF ProperCalls, Stream
<1>2. /\ Head(calls) = calls[1] /\ 1 \in 1..Len(calls) /\ Tail(calls) \in Seq(S)
      /\ \A i \in 1..Len(Tail(calls)) : i + 1 \in 1..Len(calls) /\ Tail(calls)[i] = calls[i+1]
  BY <1>1, HeadTailProperties
<1>. QED
  BY <1>2 DEF ProperCalls, Stream

LEMMA ProperOne ==
  ASSUME NEW bytes, NEW call, Proper(bytes, call)
  PROVE  ProperCalls(bytes, <<call>>)
<1>1. <<call>> \in Seq({call}) /\ Len(<<call>>) = 1 /\ <<call>>[1] = call
  OBVIOUS
<1>. DEFINE s == <<call>>
<1>. HIDE DEF s
<1>2. \A i \in 1..Len(s) : s[i] = call
  BY <1>1 DEF s
<1>3. ProperCalls(bytes, s)
  BY <1>1, <1>2 DEF ProperCalls, Stream, s
<1>. QED
  BY <1>3 DEF s

LEMMA ProperEmpty == \A bytes : ProperCalls(bytes, <<>>)
<1>1. <<>> \in Seq({}) /\ Len(<<>>) = 0
  OBVIOUS
<1>. QED
  BY <1>1 DEF ProperCalls, Stream


-------------------------------------------------------------------------------
(* The actions *)

LEMMA InitLeads == Init => SerializerInv
<1>1. Stream(<<>>)
  BY ProperEmpty DEF ProperCalls
<1>. QED
  BY <1>1, ProperEmpty DEF Init, SerializerInv

\* The caller's call.
LEMMA RequestLeads == ASSUME SerializerInv, Request PROVE SerializerInv'
<1>1. PICK item \in Requests :
        work' = <<Call(item), [do |-> "return", position |-> Len(buffer)]>>
  BY DEF Request
<1>. DEFINE back == [do |-> "return", position |-> Len(buffer)]
<1>2. Proper(buffer, Call(item))
  BY SerializerAssumption DEF Proper, Call
<1>3. Proper(buffer, back)
  BY DEF Proper
<1>4. work' = <<Call(item)>> \o <<back>>
  BY <1>1
<1>. HIDE DEF back
<1>5. ProperCalls(buffer, work')
  BY <1>2, <1>3, <1>4, ProperOne, ProperConcat
<1>. QED
  BY <1>5 DEF Request, SerializerInv

\* A call that only ends.
LEMMA EndLeads ==
  ASSUME SerializerInv, work # <<>>, work' = Tail(work), UNCHANGED <<buffer, cache>>
  PROVE  SerializerInv'
<1>1. ProperCalls(buffer, Tail(work))
  BY ProperTail DEF SerializerInv
<1>. QED
  BY <1>1 DEF SerializerInv

LEMMA DieLeads == ASSUME SerializerInv, Die PROVE SerializerInv'
<1>1. ProperCalls(buffer, work')
  BY ProperEmpty DEF Die
<1>. QED
  BY <1>1 DEF Die, SerializerInv

\* Bytes are only added at the end.
LEMMA AppendLeads ==
  ASSUME SerializerInv, NEW bytes, Stream(bytes), buffer' = buffer \o bytes,
         UNCHANGED cache, ProperCalls(buffer', work')
  PROVE  SerializerInv'
<1>1. Stream(buffer')
  BY StreamConcat DEF SerializerInv
<1>2. ASSUME NEW data \in DOMAIN cache PROVE Leads(buffer', data, cache[data])
  BY LeadsAppended DEF SerializerInv
<1>. QED
  BY <1>1, <1>2 DEF SerializerInv

LEMMA StorePointerLeads == ASSUME SerializerInv, StorePointer PROVE SerializerInv'
<1>. DEFINE position == cache[Current.data]
<1>1. position \in Nat /\ ~TooFar(position)
  BY DEF SerializerInv, StorePointer, Cached, Leads
<1>. HIDE DEF position
<1>2. Stream(EncodePointer(position))
  BY <1>1, EncodedPointer
<1>3. buffer' = buffer \o EncodePointer(position) /\ UNCHANGED cache
  BY DEF StorePointer, position
<1>4. ProperCalls(buffer, work')
  BY ProperTail DEF StorePointer, Doing, SerializerInv
<1>5. ProperCalls(buffer', work')
  BY <1>2, <1>3, <1>4, ProperAppended DEF SerializerInv
<1>. QED
  BY <1>2, <1>3, <1>5, AppendLeads

LEMMA StoreFullLeads == ASSUME SerializerInv, StoreFull PROVE SerializerInv'
<1>. DEFINE saves == IF ShouldCache(Current) THEN <<Save(Current.data, Len(buffer))>> ELSE <<>>
            members == MemberCalls(Current)
<1>1. Current \in Item /\ ~Dies(Current) /\ work # <<>>
  BY ProperTail DEF SerializerInv, Proper, StoreFull, Doing, Current
<1>2. Current.data # Undef
  BY <1>1 DEF Dies
<1>3. /\ Stream(Encoded(Current))
      /\ Types(Encoded(Current), 1, TypeNumber[Current.type])
  BY <1>1, <1>2, EncodedType
<1>4. buffer' = buffer \o Encoded(Current) /\ UNCHANGED cache
      /\ work' = (members \o saves) \o Tail(work)
  BY DEF StoreFull, Calls
<1>5. Len(buffer) \in Nat
  BY DEF SerializerInv, Stream
<1>6. Leads(buffer', Current.data, Len(buffer))
  BY <1>1, <1>2, <1>3, <1>4, <1>5, TypesAtEnd DEF Leads, SerializerInv
<1>7. ProperCalls(buffer', members)
  <2>1. members \in Seq({Call(i) : i \in Item} \cup {Ask(k) : k \in DOMAIN KeyType})
    BY <1>1, SerializerAssumption
  <2>. HIDE DEF members
  <2>2. ASSUME NEW n \in 1..Len(members) PROVE Proper(buffer', members[n])
    <3>1. members[n] \in {Call(i) : i \in Item} \cup {Ask(k) : k \in DOMAIN KeyType}
      BY <2>1
    <3>. QED
      BY <3>1 DEF Proper, Call, Ask
  <2>. QED
    BY <2>1, <2>2 DEF ProperCalls, Stream
<1>8. ProperCalls(buffer', saves)
  <2>1. Proper(buffer', Save(Current.data, Len(buffer)))
    BY <1>6 DEF Proper, Save
  <2>. QED
    BY <2>1, ProperOne, ProperEmpty
<1>9. ProperCalls(buffer', Tail(work))
  BY <1>1, <1>3, <1>4, ProperTail, ProperAppended DEF SerializerInv
<1>10. ProperCalls(buffer', work')
  <2>. HIDE DEF members, saves
  <2>. QED
    BY <1>4, <1>7, <1>8, <1>9, ProperConcat
<1>. QED
  BY <1>3, <1>4, <1>10, AppendLeads

LEMMA SavePositionLeads == ASSUME SerializerInv, SavePosition PROVE SerializerInv'
<1>. DEFINE saved == Head(work)
<1>1. work # <<>> /\ saved.do = "save"
  BY DEF SavePosition, Doing
<1>2. Leads(buffer, saved.data, saved.position)
  BY <1>1, ProperTail DEF SerializerInv, Proper
<1>3. cache' = [data \in DOMAIN cache \cup {saved.data} |->
                  IF data = saved.data THEN saved.position ELSE cache[data]]
      /\ buffer' = buffer /\ work' = Tail(work)
  BY DEF SavePosition
<1>. HIDE DEF saved
<1>4. ASSUME NEW data \in DOMAIN cache' PROVE Leads(buffer, data, cache'[data])
  <2>1. CASE data = saved.data
    BY <1>2, <1>3, <2>1
  <2>2. CASE data # saved.data
    BY <1>3, <2>2 DEF SerializerInv
  <2>. QED
    BY <2>1, <2>2
<1>5. ProperCalls(buffer, Tail(work))
  BY <1>1, ProperTail DEF SerializerInv
<1>. QED
  BY <1>3, <1>4, <1>5 DEF SerializerInv

LEMMA StepLeads == SerializerInv /\ [Next]_vars => SerializerInv'
<1>. SUFFICES ASSUME SerializerInv, [Next]_vars PROVE SerializerInv'
  OBVIOUS
<1>1. CASE Request
  BY <1>1, RequestLeads
<1>2. CASE Return
  BY <1>2, EndLeads DEF Return, Doing
<1>3. CASE CallDies
  BY <1>3, DieLeads DEF CallDies
<1>4. CASE StorePointer
  BY <1>4, StorePointerLeads
<1>5. CASE StoreFull
  BY <1>5, StoreFullLeads
<1>6. CASE TypeForKey
  BY <1>6, EndLeads DEF TypeForKey, Doing
<1>7. CASE CallbackDies
  BY <1>7, DieLeads DEF CallbackDies
<1>8. CASE SavePosition
  BY <1>8, SavePositionLeads
<1>9. CASE UNCHANGED vars
  BY <1>9 DEF vars, SerializerInv
<1>. QED
  BY <1>1, <1>2, <1>3, <1>4, <1>5, <1>6, <1>7, <1>8, <1>9 DEF Next

LEMMA LeadsToValues == SerializerInv => PointersLeadToValues
<1>. SUFFICES ASSUME SerializerInv, NEW data \in DOMAIN cache
              PROVE  \E item \in Item :
                       /\ item.data = data
                       /\ TypeNumber[item.type] = Control(buffer, cache[data] + 1).type
  BY DEF PointersLeadToValues
<1>1. PICK item \in Item : /\ item.data = data /\ item.data # Undef
                           /\ Types(buffer, cache[data] + 1, TypeNumber[item.type])
  BY DEF SerializerInv, Leads
<1>2. TypeNumber[item.type] \in 1..15
  BY <1>1, StoredTypes, TypeNumbers
<1>. QED
  BY <1>1, <1>2, ControlType

\* Every position in the cache, and so every pointer that is written, is that of
\* a value in full: its control bytes have the type of a value with that data,
\* whatever calls are in progress or died half-way (Serializer.pm: store_data,
\* _save_position, _encode_map, _encode_array).
THEOREM PointersAreSound == Spec => []PointersLeadToValues
BY InitLeads, StepLeads, LeadsToValues, PTL DEF Spec
===============================================================================
