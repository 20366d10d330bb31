---------------------------- MODULE NumberingProofs ----------------------------
(***************************************************************************)
(* The order in which nodes are numbered.                                  *)
(***************************************************************************)
EXTENDS Numbering, HeapProofs

\* What Preorder lists for a record, and its recursive definition.
Below(visit, r) == IF r.type = "node" THEN visit[r.value] ELSE <<>>
Listed(visit, i) == <<i>> \o Below(visit, node[i][0]) \o Below(visit, node[i][1])
IsVisit(visit) == visit = [i \in 1..Len(node) |-> Listed(visit, i)]

LEMMA Highest ==
  ASSUME NEW n \in Nat, NEW S \in SUBSET (1..n), S # {}
  PROVE  \E m \in S : \A k \in S : k <= m
<1>. DEFINE T == {n - k : k \in S}
<1>1. T \in SUBSET Nat /\ T # {}
  <2>1. \A k \in S : n - k \in Nat
    OBVIOUS
  <2>2. PICK k \in S : TRUE
    OBVIOUS
  <2>. QED
    BY <2>1, <2>2
<1>. HIDE DEF T
<1>2. PICK t \in T : \A k \in T : t <= k
  BY <1>1, Least
<1>3. PICK m \in S : t = n - m
  BY DEF T
<1>4. \A k \in S : n - k \in T /\ k \in Nat /\ m \in Nat
  BY DEF T
<1>5. \A k \in S : k <= m
  <2>. TAKE k \in S
  <2>1. n - m <= n - k /\ k \in Nat /\ m \in Nat
    BY <1>2, <1>3, <1>4
  <2>. QED
    BY <2>1
<1>. QED
  BY <1>5

\* A node is younger than its owner, which is one record.
LEMMA ChildOwned ==
  ASSUME HeapInv, NEW i \in 1..Len(node), NEW b \in Bit, node[i][b].type = "node"
  PROVE  /\ node[i][b].value \in 1..Len(node) /\ i < node[i][b].value
         /\ <<i, b>> \in Owners(node[i][b].value)
<1>. DEFINE c == node[i][b].value
<1>1. node[i][b] \in HeapRecord
  BY DEF HeapInv
<1>2. c \in 1..Len(node) /\ node[i][b] = NodeRecord(c)
  BY <1>1 DEF HeapRecord, NoPointer, EmptyRecord, DataRecord, NodeRecord
<1>3. <<i, b>> \in Owners(c)
  BY <1>2 DEF Owners
<1>. HIDE DEF c
<1>4. i < c
  BY <1>2, <1>3 DEF HeapInv, NodesFormTree
<1>. QED
  BY <1>2, <1>3, <1>4 DEF c

\* The recursion of start_iteration ends: it goes to younger nodes.
LEMMA VisitExists ==
  ASSUME HeapInv
  PROVE  \E v : IsVisit(v)
<1>. DEFINE From(v, k) == /\ v = [i \in 1..Len(node) |-> v[i]]
                         /\ \A i \in 1..Len(node) : i >= k => v[i] = Listed(v, i)
            Without == {k \in 1 .. Len(node) + 1 : ~ \E v : From(v, k)}
<1>0. Len(node) \in Nat /\ Len(node) + 1 \in Nat
  BY DEF HeapInv
<1>1. ASSUME NEW k \in Without, \A j \in Without : j <= k
      PROVE  FALSE
  <2>1. CASE k = Len(node) + 1
    <3>. DEFINE v == [i \in 1..Len(node) |-> <<>>]
    <3>1. v = [i \in 1..Len(node) |-> v[i]]
      OBVIOUS
    <3>2. \A i \in 1..Len(node) : ~(i >= k)
      BY <1>0, <2>1
    <3>. HIDE DEF v
    <3>. QED
      BY <3>1, <3>2
  <2>2. CASE k # Len(node) + 1
    <3>1. k \in 1..Len(node) /\ k + 1 \in 1 .. Len(node) + 1 /\ k + 1 \notin Without
      BY <1>0, <1>1, <2>2
    <3>2. PICK u : From(u, k + 1)
      BY <3>1
    <3>. DEFINE v == [i \in 1..Len(node) |-> IF i = k THEN Listed(u, k) ELSE u[i]]
    <3>3. v = [i \in 1..Len(node) |-> v[i]]
      OBVIOUS
    <3>4. \A i \in 1..Len(node) : i # k => v[i] = u[i]
      OBVIOUS
    <3>5. v[k] = Listed(u, k)
      BY <3>1
    <3>. HIDE DEF v
    <3>6. ASSUME NEW i \in 1..Len(node), i >= k
          PROVE  Listed(v, i) = Listed(u, i)
      <4>1. ASSUME NEW b \in Bit PROVE Below(v, node[i][b]) = Below(u, node[i][b])
        <5>1. CASE node[i][b].type = "node"
          <6>1. node[i][b].value \in 1..Len(node) /\ node[i][b].value # k
            <7>. DEFINE c == node[i][b].value
            <7>1. c \in 1..Len(node) /\ i < c
              BY <5>1, ChildOwned
            <7>. HIDE DEF c
            <7>2. c # k
              BY <3>6, <7>1
            <7>. QED
              BY <7>1, <7>2 DEF c
          <6>. QED
            BY <3>4, <6>1 DEF Below
        <5>. QED
          BY <5>1 DEF Below
      <4>2. 0 \in Bit /\ 1 \in Bit
        BY DEF Bit
      <4>. QED
        BY <4>1, <4>2 DEF Listed
    <3>7. ASSUME NEW i \in 1..Len(node), i >= k PROVE v[i] = Listed(v, i)
      <4>1. CASE i = k
        BY <3>5, <3>6, <3>7, <4>1
      <4>2. CASE i # k
        <5>1. i >= k + 1
          BY <1>0, <3>1, <3>7, <4>2
        <5>. QED
          BY <3>2, <3>4, <3>6, <3>7, <4>2, <5>1
      <4>. QED
        BY <4>1, <4>2
    <3>8. From(v, k)
      BY <3>3, <3>7
    <3>. QED
      BY <3>8
  <2>. QED
    BY <2>1, <2>2
<1>2. Without = {}
  <2>. HIDE DEF From
  <2>1. Without \in SUBSET (1 .. Len(node) + 1)
    OBVIOUS
  <2>. HIDE DEF Without
  <2>. QED
    BY <1>0, <1>1, <2>1, Highest
<1>3. \E v : From(v, 1)
  <2>1. 1 \in 1 .. Len(node) + 1
    BY <1>0
  <2>. HIDE DEF From
  <2>. QED
    BY <1>2, <2>1
<1>4. PICK v : From(v, 1)
  BY <1>3
<1>5. \A i \in 1..Len(node) : v[i] = Listed(v, i)
  BY <1>0, <1>4
<1>6. v = [i \in 1..Len(node) |-> v[i]]
  BY <1>4
<1>. QED
  BY <1>5, <1>6 DEF IsVisit

LEMMA PreorderVisits ==
  ASSUME HeapInv
  PROVE  \E v : IsVisit(v) /\ Preorder = v[Root]
<1>. DEFINE w == CHOOSE v : IsVisit(v)
<1>1. IsVisit(w)
  BY VisitExists
<1>2. Preorder = w[Root]
  BY DEF Preorder, IsVisit, Listed, Below
<1>. QED
  BY <1>1, <1>2

-------------------------------------------------------------------------------
(* What is in the order *)

LEMMA ToSetConcat ==
  ASSUME NEW S, NEW s \in Seq(S), NEW T, NEW t \in Seq(T)
  PROVE  ToSet(s \o t) = ToSet(s) \cup ToSet(t)
<1>1. /\ Len(s \o t) = Len(s) + Len(t) /\ Len(s) \in Nat /\ Len(t) \in Nat
      /\ \A i \in 1 .. Len(s) + Len(t) : (s \o t)[i] = IF i <= Len(s) THEN s[i] ELSE t[i - Len(s)]
  BY ConcatProperties
<1>2. ASSUME NEW x \in ToSet(s \o t) PROVE x \in ToSet(s) \cup ToSet(t)
  <2>1. PICK i \in 1 .. Len(s) + Len(t) : x = (s \o t)[i]
    BY <1>1 DEF ToSet
  <2>2. CASE i <= Len(s)
    <3>1. i \in 1..Len(s) /\ x = s[i]
      BY <1>1, <2>1, <2>2
    <3>. QED
      BY <3>1 DEF ToSet
  <2>3. CASE ~(i <= Len(s))
    <3>1. i - Len(s) \in 1..Len(t) /\ x = t[i - Len(s)]
      BY <1>1, <2>1, <2>3
    <3>. QED
      BY <3>1 DEF ToSet
  <2>. QED
    BY <2>2, <2>3
<1>3. ASSUME NEW i \in 1..Len(s) PROVE s[i] \in ToSet(s \o t)
  <2>1. i \in 1 .. Len(s) + Len(t) /\ (s \o t)[i] = s[i]
    BY <1>1
  <2>. QED
    BY <1>1, <2>1 DEF ToSet
<1>4. ASSUME NEW i \in 1..Len(t) PROVE t[i] \in ToSet(s \o t)
  <2>1. Len(s) + i \in 1 .. Len(s) + Len(t) /\ ~(Len(s) + i <= Len(s)) /\ Len(s) + i - Len(s) = i
    BY <1>1
  <2>2. (s \o t)[Len(s) + i] = t[i]
    BY <1>1, <2>1
  <2>. QED
    BY <1>1, <2>1, <2>2 DEF ToSet
<1>5. ToSet(s) = {s[i] : i \in 1..Len(s)} /\ ToSet(t) = {t[i] : i \in 1..Len(t)}
  BY DEF ToSet
<1>6. ToSet(s) \in SUBSET ToSet(s \o t) /\ ToSet(t) \in SUBSET ToSet(s \o t)
  BY ONLY <1>3, <1>4, <1>5
<1>. QED
  BY <1>2, <1>6

\* What is listed for a node: itself, then what is listed for its two records.
LEMMA ListedParts ==
  ASSUME HeapInv, NEW v, IsVisit(v), NEW i \in 1..Len(node),
         \A j \in 1..Len(node) : j > i => v[j] \in Seq(1..Len(node))
  PROVE  /\ \A b \in Bit : Below(v, node[i][b]) \in Seq(1..Len(node))
         /\ v[i] = <<i>> \o Below(v, node[i][0]) \o Below(v, node[i][1])
         /\ v[i] \in Seq(1..Len(node))
         /\ ToSet(v[i]) = {i} \cup ToSet(Below(v, node[i][0])) \cup ToSet(Below(v, node[i][1]))
<1>. DEFINE s == Below(v, node[i][0])
            t == Below(v, node[i][1])
            N == 1..Len(node)
<1>1. ASSUME NEW b \in Bit PROVE Below(v, node[i][b]) \in Seq(N)
  <2>1. CASE node[i][b].type = "node"
    <3>. DEFINE c == node[i][b].value
    <3>1. c \in 1..Len(node) /\ i < c
      BY <2>1, ChildOwned
    <3>2. Below(v, node[i][b]) = v[c]
      BY <2>1 DEF Below
    <3>. HIDE DEF c
    <3>3. c > i
      BY <3>1
    <3>. QED
      BY <3>1, <3>2, <3>3
  <2>2. CASE node[i][b].type # "node"
    <3>1. Below(v, node[i][b]) = <<>> /\ <<>> \in Seq(N)
      BY <2>2 DEF Below
    <3>. QED
      BY <3>1
  <2>. QED
    BY <2>1, <2>2
<1>2. v[i] = <<i>> \o s \o t
  BY DEF IsVisit, Listed
<1>3. s \in Seq(N) /\ t \in Seq(N)
  BY <1>1 DEF Bit
<1>4. <<i>> \in Seq(N) /\ ToSet(<<i>>) = {i}
  BY DEF ToSet
<1>. HIDE DEF s, t, N
<1>5. <<i>> \o s \in Seq(N) /\ (<<i>> \o s) \o t \in Seq(N)
  BY <1>3, <1>4, ConcatProperties
<1>6. ToSet(<<i>> \o s) = {i} \cup ToSet(s)
  BY <1>3, <1>4, ToSetConcat
<1>7. ToSet((<<i>> \o s) \o t) = ({i} \cup ToSet(s)) \cup ToSet(t)
  BY <1>3, <1>5, <1>6, ToSetConcat
<1>. QED
  BY <1>1, <1>2, <1>5, <1>7 DEF s, t, N

\* Nodes are listed that exist.
LEMMA VisitType ==
  ASSUME HeapInv, NEW v, IsVisit(v)
  PROVE  \A i \in 1..Len(node) : v[i] \in Seq(1..Len(node))
<1>. DEFINE Wrong == {i \in 1..Len(node) : v[i] \notin Seq(1..Len(node))}
<1>1. ASSUME NEW m \in Wrong, \A k \in Wrong : k <= m PROVE FALSE
  <2>1. \A j \in 1..Len(node) : j > m => v[j] \in Seq(1..Len(node))
    BY <1>1 DEF HeapInv
  <2>2. m \in 1..Len(node)
    OBVIOUS
  <2>3. v[m] \in Seq(1..Len(node))
    BY <2>1, <2>2, ListedParts
  <2>. QED
    BY <2>3
<1>2. Wrong \in SUBSET (1..Len(node)) /\ Len(node) \in Nat
  BY DEF HeapInv
<1>. HIDE DEF Wrong
<1>3. Wrong = {}
  BY <1>1, <1>2, Highest
<1>. QED
  BY <1>3 DEF Wrong

\* What is listed for a node is younger than it, but for itself.
LEMMA VisitYounger ==
  ASSUME HeapInv, NEW v, IsVisit(v)
  PROVE  \A i \in 1..Len(node) : \A j \in ToSet(v[i]) : j \in i..Len(node)
<1>. DEFINE Wrong == {i \in 1..Len(node) : \E j \in ToSet(v[i]) : j \notin i..Len(node)}
<1>1. ASSUME NEW m \in Wrong, \A k \in Wrong : k <= m PROVE FALSE
  <2>1. ToSet(v[m]) = {m} \cup ToSet(Below(v, node[m][0])) \cup ToSet(Below(v, node[m][1]))
    BY VisitType, ListedParts
  <2>2. m \in 1..Len(node) /\ Len(node) \in Nat
    BY DEF HeapInv
  <2>3. ASSUME NEW b \in Bit, NEW j \in ToSet(Below(v, node[m][b])) PROVE j \in m..Len(node)
    <3>1. CASE node[m][b].type = "node"
      <4>. DEFINE c == node[m][b].value
      <4>1. c \in 1..Len(node) /\ m < c
        BY <2>2, <3>1, ChildOwned
      <4>2. j \in ToSet(v[c])
        BY <2>3, <3>1 DEF Below
      <4>. HIDE DEF c
      <4>3. c \notin Wrong
        BY <1>1, <2>2, <4>1
      <4>4. j \in c..Len(node)
        BY <4>1, <4>2, <4>3
      <4>. QED
        BY <2>2, <4>1, <4>4
    <3>2. CASE node[m][b].type # "node"
      BY <2>3, <3>2 DEF Below, ToSet
    <3>. QED
      BY <3>1, <3>2
  <2>4. 0 \in Bit /\ 1 \in Bit
    BY DEF Bit
  <2>5. \A j \in ToSet(v[m]) : j \in m..Len(node)
    BY <2>1, <2>2, <2>3, <2>4
  <2>. QED
    BY <2>5
<1>2. Wrong \in SUBSET (1..Len(node)) /\ Len(node) \in Nat
  BY DEF HeapInv
<1>. HIDE DEF Wrong
<1>3. Wrong = {}
  BY <1>1, <1>2, Highest
<1>. QED
  BY <1>3 DEF Wrong

\* What a listed node owns is listed too.
LEMMA VisitClosed ==
  ASSUME HeapInv, NEW v, IsVisit(v), NEW i \in 1..Len(node),
         NEW j \in ToSet(v[i]), NEW b \in Bit, node[j][b].type = "node"
  PROVE  node[j][b].value \in ToSet(v[i])
<1>. DEFINE Closed(k) == \A n \in ToSet(v[k]) : node[n][b].type = "node" => node[n][b].value \in ToSet(v[k])
            Wrong == {k \in 1..Len(node) : ~Closed(k)}
<1>0. \A k \in 1..Len(node) : 
        ToSet(v[k]) = {k} \cup ToSet(Below(v, node[k][0])) \cup ToSet(Below(v, node[k][1]))
  BY VisitType, ListedParts
<1>1. ASSUME NEW m \in Wrong, \A k \in Wrong : k <= m PROVE FALSE
  <2>1. m \in 1..Len(node) /\ Len(node) \in Nat /\ 0 \in Bit /\ 1 \in Bit
    BY DEF HeapInv, Bit
  <2>2. ASSUME NEW d \in Bit PROVE ToSet(Below(v, node[m][d])) \in SUBSET ToSet(v[m])
    BY <1>0, <2>1 DEF Bit
  <2>3. ASSUME NEW d \in Bit, NEW n \in ToSet(Below(v, node[m][d])), node[n][b].type = "node"
        PROVE  node[n][b].value \in ToSet(Below(v, node[m][d]))
    <3>1. CASE node[m][d].type = "node"
      <4>. DEFINE c == node[m][d].value
      <4>1. c \in 1..Len(node) /\ m < c
        BY <2>1, <3>1, ChildOwned
      <4>2. Below(v, node[m][d]) = v[c]
        BY <3>1 DEF Below
      <4>. HIDE DEF c
      <4>3. c \notin Wrong
        BY <1>1, <2>1, <4>1
      <4>4. Closed(c)
        BY <4>1, <4>3
      <4>. QED
        BY <2>3, <4>2, <4>4
    <3>2. CASE node[m][d].type # "node"
      BY <2>3, <3>2 DEF Below, ToSet
    <3>. QED
      BY <3>1, <3>2
  <2>4. ASSUME node[m][b].type = "node" PROVE node[m][b].value \in ToSet(v[m])
    <3>. DEFINE c == node[m][b].value
    <3>1. c \in 1..Len(node)
      BY <2>1, <2>4, ChildOwned
    <3>2. Below(v, node[m][b]) = v[c]
      BY <2>4 DEF Below
    <3>. HIDE DEF c
    <3>3. c \in ToSet(v[c])
      BY <1>0, <3>1
    <3>. QED
      BY <2>2, <3>2, <3>3 DEF c
  <2>5. ASSUME NEW n \in ToSet(v[m]), node[n][b].type = "node"
        PROVE  node[n][b].value \in ToSet(v[m])
    <3>1. n = m \/ \E d \in Bit : n \in ToSet(Below(v, node[m][d]))
      BY <1>0, <2>1, <2>5
    <3>2. CASE n = m
      BY <2>4, <2>5, <3>2
    <3>3. CASE \E d \in Bit : n \in ToSet(Below(v, node[m][d]))
      <4>1. PICK d \in Bit : n \in ToSet(Below(v, node[m][d]))
        BY <3>3
      <4>2. node[n][b].value \in ToSet(Below(v, node[m][d]))
        BY <2>3, <2>5, <4>1
      <4>. QED
        BY <2>2, <4>1, <4>2
    <3>. QED
      BY <3>1, <3>2, <3>3
  <2>6. Closed(m)
    BY <2>5
  <2>. QED
    BY <2>6
<1>2. Wrong \in SUBSET (1..Len(node)) /\ Len(node) \in Nat
  BY DEF HeapInv
<1>. HIDE DEF Wrong
<1>3. Wrong = {}
  BY <1>1, <1>2, Highest
<1>4. Closed(i)
  BY <1>3 DEF Wrong
<1>. QED
  BY <1>4

\* No node is listed twice: a node has one owner, listed before it.
Distinct(s) == \A k, l \in 1..Len(s) : s[k] = s[l] => k = l

LEMMA DistinctConcat ==
  ASSUME NEW S, NEW s \in Seq(S), NEW T, NEW t \in Seq(T), Distinct(s), Distinct(t),
         ToSet(s) \cap ToSet(t) = {}
  PROVE  Distinct(s \o t)
<1>1. /\ Len(s \o t) = Len(s) + Len(t) /\ Len(s) \in Nat /\ Len(t) \in Nat
      /\ \A i \in 1 .. Len(s) + Len(t) : (s \o t)[i] = IF i <= Len(s) THEN s[i] ELSE t[i - Len(s)]
  BY ConcatProperties
<1>2. ToSet(s) = {s[i] : i \in 1..Len(s)} /\ ToSet(t) = {t[i] : i \in 1..Len(t)}
  BY DEF ToSet
<1>3. \A i \in 1..Len(s), j \in 1..Len(t) : s[i] # t[j]
  BY <1>2
<1>. SUFFICES ASSUME NEW k \in 1 .. Len(s) + Len(t), NEW l \in 1 .. Len(s) + Len(t),
                     (s \o t)[k] = (s \o t)[l]
              PROVE  k = l
  BY <1>1 DEF Distinct
<1>4. CASE k <= Len(s) /\ l <= Len(s)
  <2>1. k \in 1..Len(s) /\ l \in 1..Len(s) /\ s[k] = s[l]
    BY <1>1, <1>4
  <2>. QED
    BY <2>1 DEF Distinct
<1>5. CASE k <= Len(s) /\ ~(l <= Len(s))
  <2>1. k \in 1..Len(s) /\ l - Len(s) \in 1..Len(t) /\ s[k] = t[l - Len(s)]
    BY <1>1, <1>5
  <2>. QED
    BY <1>3, <2>1
<1>6. CASE ~(k <= Len(s)) /\ l <= Len(s)
  <2>1. l \in 1..Len(s) /\ k - Len(s) \in 1..Len(t) /\ s[l] = t[k - Len(s)]
    BY <1>1, <1>6
  <2>. QED
    BY <1>3, <2>1
<1>7. CASE ~(k <= Len(s)) /\ ~(l <= Len(s))
  <2>1. k - Len(s) \in 1..Len(t) /\ l - Len(s) \in 1..Len(t) /\ t[k - Len(s)] = t[l - Len(s)]
    BY <1>1, <1>7
  <2>2. k - Len(s) = l - Len(s)
    BY <2>1 DEF Distinct
  <2>. QED
    BY <1>1, <2>2
<1>. QED
  BY <1>4, <1>5, <1>6, <1>7

\* Whatever is listed for a node, but the node itself, is owned by a listed one.
LEMMA VisitOwned ==
  ASSUME HeapInv, NEW v, IsVisit(v), NEW i \in 1..Len(node), NEW j \in ToSet(v[i]), j # i
  PROVE  \E o \in Owners(j) : o[1] \in ToSet(v[i])
<1>. DEFINE Owned(k) == \A n \in ToSet(v[k]) : n # k => \E o \in Owners(n) : o[1] \in ToSet(v[k])
            Wrong == {k \in 1..Len(node) : ~Owned(k)}
<1>0. \A k \in 1..Len(node) : 
        ToSet(v[k]) = {k} \cup ToSet(Below(v, node[k][0])) \cup ToSet(Below(v, node[k][1]))
  BY VisitType, ListedParts
<1>1. ASSUME NEW m \in Wrong, \A k \in Wrong : k <= m PROVE FALSE
  <2>1. m \in 1..Len(node) /\ Len(node) \in Nat
    BY DEF HeapInv
  <2>2. ASSUME NEW d \in Bit, NEW n \in ToSet(Below(v, node[m][d]))
        PROVE  \E o \in Owners(n) : o[1] \in ToSet(v[m])
    <3>1. node[m][d].type = "node"
      BY <2>2 DEF Below, ToSet
    <3>. DEFINE c == node[m][d].value
    <3>2. c \in 1..Len(node) /\ m < c /\ <<m, d>> \in Owners(c)
      BY <2>1, <3>1, ChildOwned
    <3>3. Below(v, node[m][d]) = v[c]
      BY <3>1 DEF Below
    <3>. HIDE DEF c
    <3>4. ToSet(v[c]) \in SUBSET ToSet(v[m]) /\ m \in ToSet(v[m])
      BY <1>0, <2>1, <3>3 DEF Bit
    <3>5. CASE n = c
      BY <3>2, <3>4, <3>5
    <3>6. CASE n # c
      <4>1. c \notin Wrong
        BY <1>1, <2>1, <3>2
      <4>2. Owned(c)
        BY <3>2, <4>1
      <4>. QED
        BY <2>2, <3>3, <3>4, <3>6, <4>2
    <3>. QED
      BY <3>5, <3>6
  <2>3. Owned(m)
    <3>. SUFFICES ASSUME NEW n \in ToSet(v[m]), n # m
                  PROVE  \E o \in Owners(n) : o[1] \in ToSet(v[m])
      OBVIOUS
    <3>1. n \in ToSet(Below(v, node[m][0])) \/ n \in ToSet(Below(v, node[m][1]))
      BY <1>0, <2>1
    <3>. QED
      BY <2>2, <3>1 DEF Bit
  <2>. QED
    BY <2>3
<1>2. Wrong \in SUBSET (1..Len(node)) /\ Len(node) \in Nat
  BY DEF HeapInv
<1>. HIDE DEF Wrong
<1>3. Wrong = {}
  BY <1>1, <1>2, Highest
<1>4. Owned(i)
  BY <1>3 DEF Wrong
<1>. QED
  BY <1>4

\* What is listed for the two records of a node has nothing in common.
LEMMA VisitsApart ==
  ASSUME HeapInv, NEW v, IsVisit(v), NEW i \in 1..Len(node),
         node[i][0].type = "node", node[i][1].type = "node"
  PROVE  ToSet(v[node[i][0].value]) \cap ToSet(v[node[i][1].value]) = {}
<1>. DEFINE c == node[i][0].value
            d == node[i][1].value
            Both == ToSet(v[c]) \cap ToSet(v[d])
<1>1. /\ c \in 1..Len(node) /\ i < c /\ <<i, 0>> \in Owners(c)
      /\ d \in 1..Len(node) /\ i < d /\ <<i, 1>> \in Owners(d)
  BY ChildOwned DEF Bit
<1>. HIDE DEF c, d
<1>2. \A n \in 1..Len(node) : \A o, p \in Owners(n) : o = p /\ o[1] < n
  BY DEF HeapInv, NodesFormTree
<1>3. c # d
  <2>. SUFFICES ASSUME c = d PROVE FALSE
    OBVIOUS
  <2>1. <<i, 0>> = <<i, 1>>
    BY <1>1, <1>2
  <2>. QED
    BY <2>1
<1>4. /\ \A j \in ToSet(v[c]) : j \in c..Len(node)
      /\ \A j \in ToSet(v[d]) : j \in d..Len(node)
  BY <1>1, VisitYounger
<1>5. c \notin ToSet(v[d])
  <2>. SUFFICES ASSUME c \in ToSet(v[d]) PROVE FALSE
    OBVIOUS
  <2>1. PICK o \in Owners(c) : o[1] \in ToSet(v[d])
    BY <1>1, <1>3, VisitOwned
  <2>2. o = <<i, 0>>
    BY <1>1, <1>2
  <2>3. i \in d..Len(node)
    BY <1>4, <2>1, <2>2
  <2>. QED
    BY <1>1, <2>3
<1>6. d \notin ToSet(v[c])
  <2>. SUFFICES ASSUME d \in ToSet(v[c]) PROVE FALSE
    OBVIOUS
  <2>1. PICK o \in Owners(d) : o[1] \in ToSet(v[c])
    BY <1>1, <1>3, VisitOwned
  <2>2. o = <<i, 1>>
    BY <1>1, <1>2
  <2>3. i \in c..Len(node)
    BY <1>4, <2>1, <2>2
  <2>. QED
    BY <1>1, <2>3
<1>7. ASSUME NEW m \in Both, \A k \in Both : m <= k PROVE FALSE
  <2>1. m # c /\ m # d
    BY <1>5, <1>6
  <2>2. m \in 1..Len(node)
    BY <1>1, <1>4
  <2>3. PICK o \in Owners(m) : o[1] \in ToSet(v[c])
    BY <1>1, <2>1, VisitOwned
  <2>4. PICK p \in Owners(m) : p[1] \in ToSet(v[d])
    BY <1>1, <2>1, VisitOwned
  <2>5. o = p /\ o[1] < m
    BY <1>2, <2>2
  <2>6. o[1] \in Both /\ o[1] \in 1..Len(node)
    BY <2>3, <2>4, <2>5 DEF Owners
  <2>. QED
    BY <1>7, <2>2, <2>5, <2>6
<1>8. Both \in SUBSET Nat
  BY <1>1, <1>4
<1>. HIDE DEF Both
<1>9. Both = {}
  BY <1>7, <1>8, Least
<1>. QED
  BY <1>9 DEF Both, c, d

LEMMA VisitDistinct ==
  ASSUME HeapInv, NEW v, IsVisit(v)
  PROVE  \A i \in 1..Len(node) : Distinct(v[i])
<1>. DEFINE Wrong == {i \in 1..Len(node) : ~Distinct(v[i])}
<1>1. ASSUME NEW m \in Wrong, \A k \in Wrong : k <= m PROVE FALSE
  <2>. DEFINE s == Below(v, node[m][0])
              t == Below(v, node[m][1])
              N == 1..Len(node)
  <2>1. m \in N /\ Len(node) \in Nat
    BY DEF HeapInv
  <2>2. s \in Seq(N) /\ t \in Seq(N) /\ v[m] = (<<m>> \o s) \o t
    BY VisitType, ListedParts DEF Bit
  <2>3. ASSUME NEW b \in Bit
        PROVE  Distinct(Below(v, node[m][b])) /\ m \notin ToSet(Below(v, node[m][b]))
    <3>1. CASE node[m][b].type = "node"
      <4>. DEFINE c == node[m][b].value
      <4>1. c \in 1..Len(node) /\ m < c
        BY <2>1, <3>1, ChildOwned
      <4>2. Below(v, node[m][b]) = v[c]
        BY <3>1 DEF Below
      <4>. HIDE DEF c
      <4>3. c \notin Wrong
        BY <1>1, <2>1, <4>1
      <4>4. m \notin c..Len(node)
        BY <2>1, <4>1
      <4>. QED
        BY <4>1, <4>2, <4>3, <4>4, VisitYounger
    <3>2. CASE node[m][b].type # "node"
      BY <3>2 DEF Below, ToSet, Distinct
    <3>. QED
      BY <3>1, <3>2
  <2>4. ToSet(s) \cap ToSet(t) = {}
    <3>1. CASE node[m][0].type = "node" /\ node[m][1].type = "node"
      BY <3>1, <2>1, VisitsApart DEF Below
    <3>2. CASE node[m][0].type # "node" \/ node[m][1].type # "node"
      BY <3>2 DEF Below, ToSet
    <3>. QED
      BY <3>1, <3>2
  <2>5. Distinct(s) /\ m \notin ToSet(s) /\ Distinct(t) /\ m \notin ToSet(t)
    BY <2>3 DEF Bit
  <2>. HIDE DEF s, t, N
  <2>6. <<m>> \in Seq(N) /\ ToSet(<<m>>) = {m} /\ Distinct(<<m>>)
    BY <2>1 DEF ToSet, Distinct
  <2>7. <<m>> \o s \in Seq(N) /\ ToSet(<<m>> \o s) = {m} \cup ToSet(s)
    BY <2>2, <2>6, ConcatProperties, ToSetConcat
  <2>8. Distinct(<<m>> \o s)
    BY <2>2, <2>5, <2>6, DistinctConcat
  <2>9. Distinct((<<m>> \o s) \o t)
    BY <2>2, <2>4, <2>5, <2>7, <2>8, DistinctConcat
  <2>. QED
    BY <2>2, <2>9
<1>2. Wrong \in SUBSET (1..Len(node)) /\ Len(node) \in Nat
  BY DEF HeapInv
<1>. HIDE DEF Wrong
<1>3. Wrong = {}
  BY <1>1, <1>2, Highest
<1>. QED
  BY <1>3 DEF Wrong

\* finalize_tree meets the root and each node that node records lead to from it, and
\* none of them twice, with aliases in the tree too.
THEOREM OrderIsWalk ==
  ASSUME HeapInv
  PROVE  /\ Preorder \in Seq(1..Len(node))
         /\ Distinct(Preorder)
         /\ Root \in ToSet(Preorder)
         /\ \A i \in ToSet(Preorder), b \in Bit :
              node[i][b].type = "node" => node[i][b].value \in ToSet(Preorder)
<1>1. PICK v : IsVisit(v) /\ Preorder = v[Root]
  BY PreorderVisits
<1>2. Root \in 1..Len(node)
  BY DEF HeapInv, Root
<1>3. Preorder \in Seq(1..Len(node)) /\ Distinct(Preorder)
  BY <1>1, <1>2, VisitType, VisitDistinct
<1>4. Root \in ToSet(v[Root])
  BY <1>1, <1>2, VisitType, ListedParts
<1>5. ASSUME NEW i \in ToSet(v[Root]), NEW b \in Bit, node[i][b].type = "node"
      PROVE  node[i][b].value \in ToSet(v[Root])
  BY <1>1, <1>2, <1>5, VisitClosed
<1>. QED
  BY <1>1, <1>3, <1>4, <1>5

\* Finalizing an unnumbered tree gives each node its place in that order: what
\* iteration and write_tree take for its number, and no other node's.
THEOREM NumbersArePlaces ==
  ASSUME HeapInv
  PROVE  /\ \A k \in 1..Len(Preorder) : Numbered[Preorder[k]] = k - 1
         /\ \A i, j \in ToSet(Preorder) : Numbered[i] = Numbered[j] => i = j
<1>1. /\ Preorder \in Seq(1..Len(node)) /\ Distinct(Preorder)
      /\ ToSet(Preorder) = {Preorder[k] : k \in 1..Len(Preorder)}
  BY OrderIsWalk DEF ToSet
<1>2. ASSUME NEW k \in 1..Len(Preorder) PROVE Numbered[Preorder[k]] = k - 1
  <2>1. Preorder[k] \in 1..Len(node) /\ Preorder[k] \in ToSet(Preorder)
    BY <1>1
  <2>. DEFINE l == CHOOSE l \in 1..Len(Preorder) : Preorder[l] = Preorder[k]
  <2>2. l \in 1..Len(Preorder) /\ Preorder[l] = Preorder[k]
    OBVIOUS
  <2>3. Numbered[Preorder[k]] = l - 1
    BY <2>1 DEF Numbered
  <2>. HIDE DEF l
  <2>4. l = k
    BY <1>1, <2>2 DEF Distinct
  <2>. QED
    BY <2>3, <2>4
<1>3. ASSUME NEW i \in ToSet(Preorder), NEW j \in ToSet(Preorder), Numbered[i] = Numbered[j]
      PROVE  i = j
  <2>1. PICK k \in 1..Len(Preorder), l \in 1..Len(Preorder) : i = Preorder[k] /\ j = Preorder[l]
    BY <1>1
  <2>2. k - 1 = l - 1
    BY <1>2, <1>3, <2>1
  <2>3. k = l
    BY <2>2
  <2>. QED
    BY <2>1, <2>3
<1>. QED
  BY <1>2, <1>3
===============================================================================
