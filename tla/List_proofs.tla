----------------------------- MODULE List_proofs -----------------------------
(***************************************************************************)
(* Proofs about the doubly linked list and the queue on it, for lists of   *)
(* every length and values of every kind.                                  *)
(***************************************************************************)
EXTENDS List, FiniteSetTheorems, SequenceTheorems, WellFoundedInduction, TLAPS

Address == Nat \ {0}

\* A list of values in V whose nodes are at s, in this order.
ListOf(V, list, s) ==
  /\ s \in Seq(Address)
  /\ list.nodes \in [DOMAIN list.nodes -> ListNode(V)]
  /\ Represents(list, s)

-----------------------------------------------------------------------------
(* Memory *)

\* A list has finitely many nodes in memory.
LEMMA NodesAreFinite ==
  ASSUME NEW V, NEW list, NEW s, ListOf(V, list, s)
  PROVE  /\ IsFiniteSet(DOMAIN list.nodes)
         /\ Cardinality(DOMAIN list.nodes) \in Nat
         /\ DOMAIN list.nodes \subseteq Address
<1> DEFINE D == DOMAIN list.nodes
<1>1. /\ Len(s) \in Nat
      /\ \A k \in 1 .. Len(s) : s[k] \in Address
  BY DEF ListOf
<1>2. D = {s[k] : k \in 1 .. Len(s)}
  BY DEF ListOf, Represents
<1>3. D \subseteq Address
  BY <1>1, <1>2
<1>4. IsFiniteSet(1 .. Len(s))
  BY <1>1, FS_Interval
<1>5. [k \in 1 .. Len(s) |-> s[k]] \in Surjection(1 .. Len(s), D)
  BY <1>2 DEF Surjection
<1>6. IsFiniteSet(D)
  BY <1>4, <1>5, FS_Surjection
<1> QED
  BY <1>3, <1>6, FS_CardinalityType

\* calloc has an address for a new node, however many there are.
LEMMA CallocIsFresh ==
  ASSUME NEW V, NEW list, NEW s, ListOf(V, list, s)
  PROVE  /\ Calloc(list) \in Address
         /\ Calloc(list) \notin DOMAIN list.nodes
<1> DEFINE D == DOMAIN list.nodes
           n == Cardinality(D)
<1>1. IsFiniteSet(D) /\ n \in Nat
  BY NodesAreFinite
<1>2. Cardinality(1 .. n + 1) = n + 1
  BY <1>1, FS_Interval
<1>3. \E a \in 1 .. n + 1 : a \notin D
  <2>1. SUFFICES ASSUME 1 .. n + 1 \subseteq D PROVE FALSE
    OBVIOUS
  <2>2. Cardinality(1 .. n + 1) <= n
    BY <1>1, <2>1, FS_Subset
  <2> QED
    BY <1>1, <1>2, <2>2
<1> QED
  BY <1>1, <1>3 DEF Calloc, Address

-----------------------------------------------------------------------------
(* Operations *)

\* List_create makes the empty list.
THEOREM CreateIsEmpty ==
  ASSUME NEW V
  PROVE  ListOf(V, List_create, <<>>)
BY DEF ListOf, List_create, Represents, Address

\* List_push puts a new node behind all others and leaves their values alone.
THEOREM PushAppends ==
  ASSUME NEW V, NEW list, NEW s, ListOf(V, list, s), NEW value \in V
  PROVE  LET pushed == List_push(list, value)
         IN /\ ListOf(V, pushed, Append(s, Calloc(list)))
            /\ pushed.nodes[Calloc(list)].value = value
            /\ \A b \in DOMAIN list.nodes : pushed.nodes[b].value = list.nodes[b].value
<1> DEFINE a == Calloc(list)
           t == Append(s, a)
           pushed == List_push(list, value)
           D == DOMAIN list.nodes
           node == [next |-> NULL, prev |-> list.last, value |-> value]
<1>1. /\ a \in Address /\ a \notin D
      /\ D \subseteq Address
  BY CallocIsFresh, NodesAreFinite
<1>2. /\ Len(s) \in Nat
      /\ \A k \in 1 .. Len(s) : s[k] \in Address /\ s[k] \in D
      /\ list.nodes \in [D -> ListNode(V)]
      /\ list.last = (IF Len(s) = 0 THEN NULL ELSE s[Len(s)])
  BY DEF ListOf, Represents
<1>3. /\ t \in Seq(Address)
      /\ Len(t) = Len(s) + 1
      /\ \A k \in 1 .. Len(s) : t[k] = s[k]
      /\ t[Len(s) + 1] = a
  BY <1>1, <1>2 DEF ListOf
<1>4. /\ pushed.count = list.count + 1
      /\ pushed.first = (IF list.last = NULL THEN a ELSE list.first)
      /\ pushed.last = a
  BY DEF List_push
<1>5. /\ DOMAIN pushed.nodes = D \cup {a}
      /\ pushed.nodes = [b \in D \cup {a} |-> pushed.nodes[b]]
      /\ pushed.nodes[a] = node
      /\ \A b \in D : pushed.nodes[b] =
           IF b = list.last THEN [list.nodes[b] EXCEPT !.next = a] ELSE list.nodes[b]
  BY <1>1, <1>2 DEF List_push, With, NULL, Address
<1>6. ASSUME NEW b \in D
      PROVE  /\ pushed.nodes[b] \in ListNode(V)
             /\ pushed.nodes[b].value = list.nodes[b].value
             /\ pushed.nodes[b].prev = list.nodes[b].prev
             /\ pushed.nodes[b].next = IF b = list.last THEN a ELSE list.nodes[b].next
  <2>1. list.nodes[b] \in ListNode(V)
    BY <1>2
  <2>2. a \in Nat
    BY <1>1 DEF Address
  <2> HIDE DEF a, pushed
  <2> QED
    BY <1>5, <2>1, <2>2 DEF ListNode
<1>7. pushed.nodes[a] \in ListNode(V)
  <2>1. list.last \in Nat
    BY <1>2 DEF NULL, Address
  <2> QED
    BY <1>5, <2>1 DEF ListNode, NULL
<1>8. pushed.nodes \in [DOMAIN pushed.nodes -> ListNode(V)]
  <2> HIDE DEF a, pushed
  <2> QED
    BY <1>5, <1>6, <1>7
<1>9. Represents(pushed, t)
  <2> DEFINE n == Len(s)
  <2>1. Represents(list, s)
    BY DEF ListOf
  <2>2. n \in Nat /\ a # NULL /\ \A k \in 1 .. n : s[k] # NULL
    BY <1>1, <1>2 DEF NULL, Address
  <2>3. list.last = NULL <=> n = 0
    BY <1>2, <2>2
  <2> HIDE DEF a, t, pushed
  <2>4. DOMAIN pushed.nodes = {t[k] : k \in 1 .. Len(t)}
    BY <1>3, <1>5, <2>1, <2>2 DEF Represents
  <2>5. ASSUME NEW j \in 1 .. Len(t), NEW k \in 1 .. Len(t), t[j] = t[k]
        PROVE  j = k
    <3>1. \A i \in 1 .. n : t[i] = s[i] /\ t[i] # a
      BY <1>1, <1>2, <1>3
    <3>2. \A i, m \in 1 .. n : s[i] = s[m] => i = m
      BY <2>1 DEF Represents
    <3>3. /\ j \in 1 .. n \/ j = n + 1
          /\ k \in 1 .. n \/ k = n + 1
      BY <1>3, <2>2
    <3> QED
      BY <1>3, <2>5, <3>1, <3>2, <3>3
  <2>6. /\ pushed.count = Len(t)
        /\ pushed.first = (IF Len(t) = 0 THEN NULL ELSE t[1])
        /\ pushed.last = (IF Len(t) = 0 THEN NULL ELSE t[Len(t)])
    BY <1>3, <1>4, <2>1, <2>2, <2>3 DEF Represents
  <2>7. ASSUME NEW k \in 1 .. Len(t)
        PROVE  /\ pushed.nodes[t[k]].next = (IF k = Len(t) THEN NULL ELSE t[k + 1])
               /\ pushed.nodes[t[k]].prev = (IF k = 1 THEN NULL ELSE t[k - 1])
    <3>1. CASE k = n + 1
      <4>1. pushed.nodes[t[k]].next = NULL /\ pushed.nodes[t[k]].prev = list.last
        BY <1>3, <1>5, <3>1
      <4> QED
        BY <1>2, <1>3, <2>2, <3>1, <4>1
    <3>2. CASE k \in 1 .. n
      <4>1. s[k] \in D /\ t[k] = s[k]
        BY <1>2, <1>3, <3>2
      <4>2. s[k] = list.last <=> k = n
        BY <1>2, <2>1, <2>2, <3>2 DEF Represents
      <4>3. /\ list.nodes[s[k]].next = (IF k = n THEN NULL ELSE s[k + 1])
            /\ list.nodes[s[k]].prev = (IF k = 1 THEN NULL ELSE s[k - 1])
        BY <2>1, <3>2 DEF Represents
      <4> QED
        BY <1>3, <1>6, <2>2, <3>2, <4>1, <4>2, <4>3
    <3> QED
      BY <1>3, <2>2, <3>1, <3>2
  <2> QED
    BY <2>4, <2>5, <2>6, <2>7 DEF Represents
<1>10. ListOf(V, pushed, t)
  BY <1>3, <1>8, <1>9 DEF ListOf
<1> HIDE DEF pushed
<1>11. pushed.nodes[a].value = value
  BY <1>5
<1> QED
  BY <1>6, <1>10, <1>11 DEF pushed

\* List_unshift puts a new node in front of all others and leaves their values alone.
THEOREM UnshiftPrepends ==
  ASSUME NEW V, NEW list, NEW s, ListOf(V, list, s), NEW value \in V
  PROVE  LET grown == List_unshift(list, value)
         IN /\ ListOf(V, grown, <<Calloc(list)>> \o s)
            /\ grown.nodes[Calloc(list)].value = value
            /\ \A b \in DOMAIN list.nodes : grown.nodes[b].value = list.nodes[b].value
<1> DEFINE a == Calloc(list)
           t == <<a>> \o s
           n == Len(s)
           grown == List_unshift(list, value)
           D == DOMAIN list.nodes
           node == [next |-> list.first, prev |-> NULL, value |-> value]
<1>1. /\ a \in Address /\ a \notin D
      /\ D \subseteq Address
  BY CallocIsFresh, NodesAreFinite
<1>2. /\ n \in Nat
      /\ \A k \in 1 .. n : s[k] \in Address /\ s[k] \in D
      /\ list.nodes \in [D -> ListNode(V)]
      /\ list.first = (IF n = 0 THEN NULL ELSE s[1])
  BY DEF ListOf, Represents
<1>3. /\ t \in Seq(Address)
      /\ Len(t) = n + 1
      /\ \A k \in 1 .. n : t[k + 1] = s[k]
      /\ \A k \in 2 .. n + 1 : t[k] = s[k - 1]
      /\ t[1] = a
  <2>1. s \in Seq(Address) /\ <<a>> \in Seq(Address) /\ Len(<<a>>) = 1 /\ <<a>>[1] = a
    BY <1>1 DEF ListOf
  <2> QED
    BY <1>2, <2>1
<1>4. /\ grown.count = list.count + 1
      /\ grown.first = a
      /\ grown.last = (IF list.first = NULL THEN a ELSE list.last)
  BY DEF List_unshift
<1>5. /\ DOMAIN grown.nodes = D \cup {a}
      /\ grown.nodes = [b \in D \cup {a} |-> grown.nodes[b]]
      /\ grown.nodes[a] = node
      /\ \A b \in D : grown.nodes[b] =
           IF b = list.first THEN [list.nodes[b] EXCEPT !.prev = a] ELSE list.nodes[b]
  BY <1>1, <1>2 DEF List_unshift, With, NULL, Address
<1>6. ASSUME NEW b \in D
      PROVE  /\ grown.nodes[b] \in ListNode(V)
             /\ grown.nodes[b].value = list.nodes[b].value
             /\ grown.nodes[b].next = list.nodes[b].next
             /\ grown.nodes[b].prev = IF b = list.first THEN a ELSE list.nodes[b].prev
  <2>1. list.nodes[b] \in ListNode(V)
    BY <1>2
  <2>2. a \in Nat
    BY <1>1 DEF Address
  <2> HIDE DEF a, grown
  <2> QED
    BY <1>5, <2>1, <2>2 DEF ListNode
<1>7. grown.nodes[a] \in ListNode(V)
  <2>1. list.first \in Nat
    BY <1>2 DEF NULL, Address
  <2> QED
    BY <1>5, <2>1 DEF ListNode, NULL
<1>8. grown.nodes \in [DOMAIN grown.nodes -> ListNode(V)]
  <2> HIDE DEF a, grown
  <2> QED
    BY <1>5, <1>6, <1>7
<1>9. Represents(grown, t)
  <2>1. Represents(list, s)
    BY DEF ListOf
  <2>2. n \in Nat /\ a # NULL /\ \A k \in 1 .. n : s[k] # NULL
    BY <1>1, <1>2 DEF NULL, Address
  <2>3. list.first = NULL <=> n = 0
    BY <1>2, <2>2
  <2> HIDE DEF a, t, grown
  <2>4. ASSUME NEW k \in 1 .. Len(t), k # 1
        PROVE  k - 1 \in 1 .. n /\ t[k] = s[k - 1]
    <3>1. k \in 2 .. n + 1 /\ k - 1 \in 1 .. n
      BY <1>3, <2>2, <2>4
    <3> QED
      BY <1>3, <3>1
  <2>5. DOMAIN grown.nodes = {t[k] : k \in 1 .. Len(t)}
    <3>1. D = {s[k] : k \in 1 .. n}
      BY <2>1 DEF Represents
    <3>2. {t[k] : k \in 1 .. Len(t)} = {a} \cup {s[k] : k \in 1 .. n}
      <4>1. \A k \in 1 .. n : k + 1 \in 1 .. Len(t) /\ t[k + 1] = s[k]
        BY <1>3, <2>2
      <4>2. 1 \in 1 .. Len(t) /\ t[1] = a
        BY <1>3, <2>2
      <4> QED
        BY <2>4, <4>1, <4>2
    <3> QED
      BY <1>5, <3>1, <3>2
  <2>6. ASSUME NEW j \in 1 .. Len(t), NEW k \in 1 .. Len(t), t[j] = t[k]
        PROVE  j = k
    <3>1. \A i \in 1 .. n : s[i] # a
      BY <1>1, <1>2
    <3>2. \A i, m \in 1 .. n : s[i] = s[m] => i = m
      BY <2>1 DEF Represents
    <3>3. CASE j = 1 \/ k = 1
      BY <1>3, <2>4, <2>6, <3>1, <3>3
    <3>4. CASE j # 1 /\ k # 1
      <4>1. j - 1 = k - 1
        BY <2>4, <2>6, <3>2, <3>4
      <4> QED
        BY <1>3, <2>2, <4>1
    <3> QED
      BY <3>3, <3>4
  <2>7. /\ grown.count = Len(t)
        /\ grown.first = (IF Len(t) = 0 THEN NULL ELSE t[1])
        /\ grown.last = (IF Len(t) = 0 THEN NULL ELSE t[Len(t)])
    BY <1>3, <1>4, <2>1, <2>2, <2>3 DEF Represents
  <2>8. ASSUME NEW k \in 1 .. Len(t)
        PROVE  /\ grown.nodes[t[k]].next = (IF k = Len(t) THEN NULL ELSE t[k + 1])
               /\ grown.nodes[t[k]].prev = (IF k = 1 THEN NULL ELSE t[k - 1])
    <3>1. CASE k = 1
      <4>1. grown.nodes[t[k]].next = list.first /\ grown.nodes[t[k]].prev = NULL
        BY <1>3, <1>5, <3>1
      <4> QED
        BY <1>2, <1>3, <2>2, <3>1, <4>1
    <3>2. CASE k # 1
      <4>1. k - 1 \in 1 .. n /\ s[k - 1] \in D /\ t[k] = s[k - 1]
        BY <1>2, <2>4, <3>2
      <4>2. s[k - 1] = list.first <=> k = 2
        BY <1>2, <2>1, <2>2, <4>1 DEF Represents
      <4>3. /\ list.nodes[s[k - 1]].next = (IF k - 1 = n THEN NULL ELSE s[k])
            /\ list.nodes[s[k - 1]].prev = (IF k = 2 THEN NULL ELSE s[k - 2])
        BY <2>1, <2>2, <4>1 DEF Represents
      <4>4. /\ k - 1 # n => t[k + 1] = s[k]
            /\ k # 2 => t[k - 1] = s[k - 2]
            /\ k - 1 = n <=> k = Len(t)
        <5>1. k \in 2 .. n + 1 /\ n \in Nat /\ Len(t) = n + 1
          BY <1>3, <2>2, <3>2
        <5>2. /\ \A m \in 1 .. n : t[m + 1] = s[m]
              /\ \A m \in 2 .. n + 1 : t[m] = s[m - 1]
          BY <1>3
        <5>3. CASE k # n + 1
          BY <5>1, <5>2, <5>3
        <5>4. ASSUME k # 2
              PROVE  t[k - 1] = s[k - 2]
          <6>1. k - 1 \in 2 .. n + 1 /\ (k - 1) - 1 = k - 2
            BY <5>1, <5>4
          <6> QED
            BY <5>2, <6>1
        <5> QED
          BY <5>1, <5>2, <5>3, <5>4
      <4> QED
        BY <1>3, <1>6, <2>2, <3>2, <4>1, <4>2, <4>3, <4>4
    <3> QED
      BY <3>1, <3>2
  <2> QED
    BY <2>5, <2>6, <2>7, <2>8 DEF Represents
<1>10. ListOf(V, grown, t)
  BY <1>3, <1>8, <1>9 DEF ListOf
<1> HIDE DEF grown
<1>11. grown.nodes[a].value = value
  BY <1>5
<1> QED
  BY <1>6, <1>10, <1>11 DEF grown

\* What is left of a sequence without its element i.
Without(s, i) == [k \in 1 .. Len(s) - 1 |-> IF k < i THEN s[k] ELSE s[k + 1]]

\* List_remove takes out the node it is given, wherever in the list it is, and leaves
\* the order and the values of the others.
THEOREM RemoveTakesOut ==
  ASSUME NEW V, NEW list, NEW s, ListOf(V, list, s), NEW i \in 1 .. Len(s)
  PROVE  LET shorter == List_remove(list, s[i])
         IN /\ ListOf(V, shorter, Without(s, i))
            /\ \A b \in DOMAIN list.nodes \ {s[i]} :
                 shorter.nodes[b].value = list.nodes[b].value
<1> DEFINE n == Len(s)
           t == Without(s, i)
           shorter == List_remove(list, s[i])
           D == DOMAIN list.nodes
<1>0. n \in Nat /\ i \in Nat /\ 1 <= i /\ i <= n
  BY DEF ListOf
<1>1. /\ \A k \in 1 .. n : s[k] \in D /\ s[k] \in Nat /\ s[k] # NULL
      /\ D = {s[k] : k \in 1 .. n}
      /\ list.nodes \in [D -> ListNode(V)]
  BY DEF ListOf, Represents, Address, NULL
<1>inj. ASSUME NEW j \in 1 .. n, NEW k \in 1 .. n
        PROVE  s[j] = s[k] <=> j = k
  BY DEF ListOf, Represents
<1>2. /\ list.count = n
      /\ list.first = s[1]
      /\ list.last = s[n]
      /\ \A k \in 1 .. n : /\ list.nodes[s[k]].next = (IF k = n THEN NULL ELSE s[k + 1])
                           /\ list.nodes[s[k]].prev = (IF k = 1 THEN NULL ELSE s[k - 1])
  BY <1>0 DEF ListOf, Represents
<1>3. (s[i] = list.first <=> i = 1) /\ (s[i] = list.last <=> i = n)
  BY <1>0, <1>2, <1>inj
<1>4. /\ t \in Seq(Address)
      /\ Len(t) = n - 1
      /\ \A k \in 1 .. n - 1 : t[k] = IF k < i THEN s[k] ELSE s[k + 1]
  <2>1. n - 1 \in Nat
    BY <1>0
  <2>2. \A k \in 1 .. n - 1 : s[k] \in Address /\ s[k + 1] \in Address
    BY <1>1 DEF Address, NULL
  <2> QED
    BY <2>1, <2>2 DEF Without
<1>5. /\ shorter.count = n - 1
      /\ shorter.first = (IF i = 1 THEN IF i = n THEN NULL ELSE s[2] ELSE s[1])
      /\ shorter.last = (IF i = n THEN IF i = 1 THEN NULL ELSE s[n - 1] ELSE s[n])
  BY <1>1, <1>2, <1>3 DEF List_remove
<1>6. /\ DOMAIN shorter.nodes = D \ {s[i]}
      /\ shorter.nodes = [b \in D \ {s[i]} |-> shorter.nodes[b]]
  BY <1>1 DEF List_remove, Free
\* What becomes of each node that is left.
<1>7. ASSUME NEW k \in 1 .. n, k # i
      PROVE  /\ shorter.nodes[s[k]] \in ListNode(V)
             /\ shorter.nodes[s[k]].value = list.nodes[s[k]].value
             /\ shorter.nodes[s[k]].next =
                  IF k + 1 = i THEN list.nodes[s[i]].next ELSE list.nodes[s[k]].next
             /\ shorter.nodes[s[k]].prev =
                  IF k - 1 = i THEN list.nodes[s[i]].prev ELSE list.nodes[s[k]].prev
  <2> DEFINE old == list.nodes[s[k]]
             node == list.nodes[s[i]]
  <2>1. s[k] \in D /\ s[k] # s[i] /\ s[i] \in D
    BY <1>1, <1>inj, <1>7
  <2>2. old \in ListNode(V) /\ node \in ListNode(V)
    BY <1>1
  <2>3. /\ node.next = (IF i = n THEN NULL ELSE s[i + 1])
        /\ node.prev = (IF i = 1 THEN NULL ELSE s[i - 1])
    BY <1>2
  <2>4. /\ i # n => /\ s[i + 1] \in D
                    /\ s[k] = s[i + 1] <=> k - 1 = i
        /\ i # 1 => /\ s[i - 1] \in D
                    /\ s[k] = s[i - 1] <=> k + 1 = i
    <3>1. i # n => i + 1 \in 1 .. n
      BY <1>0
    <3>2. i # 1 => i - 1 \in 1 .. n
      BY <1>0
    <3> QED
      BY <1>0, <1>1, <1>inj, <3>1, <3>2
  <2>5. /\ i = 1 => k + 1 # i
        /\ i = n => k - 1 # i
    BY <1>0
  <2>6. CASE i = 1 /\ i = n
    <3>1. k = i
      <4>1. k \in 1 .. 1
        BY <2>6
      <4> QED
        BY <2>6, <4>1
    <3> QED
      BY <1>7, <3>1
  <2>7. CASE i = 1 /\ i # n
    <3>1. shorter.nodes[s[k]] = IF s[k] = s[i + 1] THEN [old EXCEPT !.prev = NULL] ELSE old
      BY <1>1, <1>3, <2>1, <2>3, <2>7 DEF List_remove, Free
    <3> HIDE DEF shorter
    <3> QED
      BY <2>2, <2>3, <2>4, <2>5, <2>7, <3>1 DEF ListNode, NULL
  <2>8. CASE i # 1 /\ i = n
    <3>1. shorter.nodes[s[k]] = IF s[k] = s[i - 1] THEN [old EXCEPT !.next = NULL] ELSE old
      BY <1>1, <1>3, <2>1, <2>3, <2>8 DEF List_remove, Free
    <3> HIDE DEF shorter
    <3> QED
      BY <2>2, <2>3, <2>4, <2>5, <2>8, <3>1 DEF ListNode, NULL
  <2>9. CASE i # 1 /\ i # n
    <3>1. s[i - 1] # s[i + 1]
      <4>1. i - 1 \in 1 .. n /\ i + 1 \in 1 .. n /\ i - 1 # i + 1
        BY <1>0, <2>9
      <4> QED
        BY <1>inj, <4>1
    <3>2. shorter.nodes = Free([list.nodes EXCEPT ![node.next].prev = node.prev,
                                                  ![node.prev].next = node.next], s[i])
      BY <1>3, <2>9 DEF List_remove
    <3>3. shorter.nodes[s[k]] =
            IF s[k] = s[i - 1] THEN [old EXCEPT !.next = node.next]
            ELSE IF s[k] = s[i + 1] THEN [old EXCEPT !.prev = node.prev] ELSE old
      BY <1>1, <2>1, <2>3, <2>4, <2>9, <3>1, <3>2 DEF Free
    <3> HIDE DEF shorter
    <3> QED
      BY <1>0, <2>2, <2>3, <2>4, <2>5, <2>9, <3>1, <3>3 DEF ListNode, NULL
  <2> QED
    BY <2>6, <2>7, <2>8, <2>9
<1>8. shorter.nodes \in [DOMAIN shorter.nodes -> ListNode(V)]
  <2>1. \A b \in D \ {s[i]} : \E k \in 1 .. n : k # i /\ b = s[k]
    BY <1>1
  <2> HIDE DEF shorter
  <2> QED
    BY <1>6, <1>7, <2>1
<1>9. Represents(shorter, t)
  <2> HIDE DEF t, shorter
  \* Where the elements that are left have been.
  <2>1. ASSUME NEW k \in 1 .. n - 1
        PROVE  \E j \in 1 .. n : j # i /\ t[k] = s[j] /\ j = IF k < i THEN k ELSE k + 1
    BY <1>0, <1>4
  <2>2. ASSUME NEW j \in 1 .. n, j # i
        PROVE  \E k \in 1 .. n - 1 : t[k] = s[j]
    <3>1. CASE j < i
      <4>1. j \in 1 .. n - 1 /\ t[j] = s[j]
        BY <1>0, <1>4, <3>1
      <4> QED
        BY <4>1
    <3>2. CASE j > i
      <4>1. j - 1 \in 1 .. n - 1 /\ ~(j - 1 < i) /\ (j - 1) + 1 = j
        BY <1>0, <3>2
      <4>2. t[j - 1] = s[j]
        BY <1>4, <4>1
      <4> QED
        BY <4>1, <4>2
    <3> QED
      BY <1>0, <2>2, <3>1, <3>2
  <2>3. DOMAIN shorter.nodes = {t[k] : k \in 1 .. Len(t)}
    <3>1. \A b \in D \ {s[i]} : \E j \in 1 .. n : j # i /\ b = s[j]
      BY <1>1
    <3>2. \A j \in 1 .. n : j # i => s[j] \in D \ {s[i]}
      BY <1>1, <1>inj
    <3>3. \A k \in 1 .. Len(t) : t[k] \in D \ {s[i]}
      BY <1>4, <2>1, <3>2
    <3>4. \A b \in D \ {s[i]} : \E k \in 1 .. Len(t) : t[k] = b
      BY <1>4, <2>2, <3>1
    <3> QED
      BY <1>6, <3>3, <3>4
  <2>4. ASSUME NEW j \in 1 .. Len(t), NEW k \in 1 .. Len(t), t[j] = t[k]
        PROVE  j = k
    <3>1. PICK a \in 1 .. n : t[j] = s[a] /\ a = IF j < i THEN j ELSE j + 1
      BY <1>4, <2>1
    <3>2. PICK b \in 1 .. n : t[k] = s[b] /\ b = IF k < i THEN k ELSE k + 1
      BY <1>4, <2>1
    <3>3. a = b
      BY <1>inj, <2>4, <3>1, <3>2
    <3> QED
      BY <1>0, <1>4, <3>1, <3>2, <3>3
  <2>5. /\ shorter.count = Len(t)
        /\ shorter.first = (IF Len(t) = 0 THEN NULL ELSE t[1])
        /\ shorter.last = (IF Len(t) = 0 THEN NULL ELSE t[Len(t)])
    BY <1>0, <1>4, <1>5
  <2>6. ASSUME NEW k \in 1 .. Len(t)
        PROVE  /\ shorter.nodes[t[k]].next = (IF k = Len(t) THEN NULL ELSE t[k + 1])
               /\ shorter.nodes[t[k]].prev = (IF k = 1 THEN NULL ELSE t[k - 1])
    <3>1. k \in 1 .. n - 1
      BY <1>4
    <3>2. /\ k # n - 1 => t[k + 1] = IF k + 1 < i THEN s[k + 1] ELSE s[k + 2]
          /\ k # 1 => t[k - 1] = IF k - 1 < i THEN s[k - 1] ELSE s[k]
      <4>1. /\ k # n - 1 => k + 1 \in 1 .. n - 1
            /\ k # 1 => k - 1 \in 1 .. n - 1
            /\ (k + 1) + 1 = k + 2 /\ (k - 1) + 1 = k
        BY <1>0, <3>1
      <4> QED
        BY <1>4, <4>1
    <3>3. CASE k < i
      <4>1. k \in 1 .. n /\ k # i /\ t[k] = s[k]
        BY <1>0, <1>4, <3>1, <3>3
      <4>2. /\ list.nodes[s[k]].next = s[k + 1]
            /\ list.nodes[s[k]].prev = (IF k = 1 THEN NULL ELSE s[k - 1])
            /\ list.nodes[s[i]].next = (IF i = n THEN NULL ELSE s[i + 1])
        BY <1>0, <1>2, <3>1, <3>3
      <4>3. shorter.nodes[t[k]].next = (IF k + 1 = i THEN list.nodes[s[i]].next ELSE s[k + 1])
        BY <1>7, <4>1, <4>2
      <4>4. shorter.nodes[t[k]].prev = (IF k = 1 THEN NULL ELSE s[k - 1])
        BY <1>0, <1>7, <3>3, <4>1, <4>2
      <4> QED
        BY <1>0, <1>4, <3>1, <3>2, <3>3, <4>2, <4>3, <4>4
    <3>4. CASE ~(k < i)
      <4>1. k + 1 \in 1 .. n /\ k + 1 # i /\ t[k] = s[k + 1]
        BY <1>0, <1>4, <3>1, <3>4
      <4>2. /\ list.nodes[s[k + 1]].next = (IF k + 1 = n THEN NULL ELSE s[k + 2])
            /\ list.nodes[s[k + 1]].prev = s[k]
            /\ list.nodes[s[i]].prev = (IF i = 1 THEN NULL ELSE s[i - 1])
        <5>1. /\ k + 1 # 1 /\ (k + 1) - 1 = k /\ (k + 1) + 1 = k + 2
              /\ i \in 1 .. n
          BY <1>0, <3>1
        <5> QED
          BY <1>2, <4>1, <5>1
      <4>3. shorter.nodes[t[k]].next = (IF k + 1 = n THEN NULL ELSE s[k + 2])
        BY <1>0, <1>7, <3>4, <4>1, <4>2
      <4>4. shorter.nodes[t[k]].prev = (IF k = i THEN list.nodes[s[i]].prev ELSE s[k])
        BY <1>0, <1>7, <3>1, <4>1, <4>2
      <4> QED
        BY <1>0, <1>4, <3>1, <3>2, <3>4, <4>2, <4>3, <4>4
    <3> QED
      BY <3>3, <3>4
  <2> QED
    BY <2>3, <2>4, <2>5, <2>6 DEF Represents
<1>10. ListOf(V, shorter, t)
  BY <1>4, <1>8, <1>9 DEF ListOf
<1>11. \A b \in D \ {s[i]} : shorter.nodes[b].value = list.nodes[b].value
  <2>1. \A b \in D \ {s[i]} : \E k \in 1 .. n : k # i /\ b = s[k]
    BY <1>1
  <2> HIDE DEF shorter
  <2> QED
    BY <1>7, <2>1
<1> QED
  BY <1>10, <1>11

-----------------------------------------------------------------------------
(* Walks *)

\* A set of numbers has a least one, so that what goes wrong somewhere goes wrong first
\* at some number.
LEMMA LeastNumber ==
  ASSUME NEW S \in SUBSET Nat, S # {}
  PROVE  \E n \in S : \A m \in 0 .. n - 1 : m \notin S
<1> DEFINE R == OpToRel(<, Nat)
<1>1. PICK n \in S : \A m \in S : ~(<<m, n>> \in R)
  <2>1. IsWellFoundedOn(R, Nat)
    BY NatLessThanWellFounded
  <2> HIDE DEF R
  <2> QED
    BY <2>1, WFMin
<1>2. ASSUME NEW m \in 0 .. n - 1, m \in S PROVE FALSE
  <2>1. <<m, n>> \in Nat \X Nat /\ m < n
    BY <1>2
  <2>2. <<m, n>> \in R
    BY <2>1 DEF OpToRel
  <2> QED
    BY <1>1, <1>2, <2>2
<1> QED
  BY <1>2

\* A walk that meets the addresses t, and ends when there are as many as there are nodes,
\* is t.
LEMMA WalkIs ==
  ASSUME NEW list, NEW start, NEW link, NEW t \in Seq(Address),
         Cardinality(DOMAIN list.nodes) = Len(t),
         t # <<>> => start = t[1],
         \A k \in 1 .. Len(t) - 1 : t[k] \in DOMAIN link /\ link[t[k]] = t[k + 1]
  PROVE  Walk(list, start, link) = t
<1> DEFINE n == Cardinality(DOMAIN list.nodes)
           to == With(link, NULL, NULL)
           Steps(f) == f = [k \in 1 .. n |-> IF k = 1 THEN start ELSE to[f[k - 1]]]
           at == CHOOSE f : Steps(f)
           ended == {k \in 1 .. n : at[k] = NULL}
<1>1. n \in Nat /\ n = Len(t) /\ \A k \in 1 .. n : t[k] \in Address
  OBVIOUS
<1>2. \A k \in 1 .. n - 1 : to[t[k]] = t[k + 1]
  BY <1>1 DEF With, Address, NULL
<1>3. Steps(t)
  <2>1. t = [k \in 1 .. n |-> t[k]]
    BY <1>1
  <2>2. ASSUME NEW k \in 1 .. n PROVE t[k] = IF k = 1 THEN start ELSE to[t[k - 1]]
    <3>1. CASE k = 1
      BY <1>1, <3>1
    <3>2. CASE k # 1
      <4>1. k - 1 \in 1 .. n - 1 /\ k - 1 + 1 = k
        BY <1>1, <3>2
      <4> QED
        BY <1>2, <3>2, <4>1
    <3> QED
      BY <3>1, <3>2
  <2> HIDE DEF to, n
  <2> QED
    BY <2>1, <2>2
<1>4. Steps(at)
  <2> HIDE DEF Steps
  <2> QED
    BY <1>3
<1>5. Walk(list, start, link) = [k \in 1 .. n - Cardinality(ended) |-> at[k]]
  BY DEF Walk
<1> HIDE DEF at, n
\* The least k at which it is elsewhere cannot be the first, nor follow one at which it is not.
<1>6. ASSUME NEW k \in 1 .. n PROVE at[k] = t[k]
  <2> DEFINE Wrong == {j \in 1 .. n : at[j] # t[j]}
  <2>1. SUFFICES ASSUME Wrong # {} PROVE FALSE
    OBVIOUS
  <2>2. Wrong \in SUBSET Nat
    BY <1>1
  <2>3. PICK j \in Wrong : \A m \in 0 .. j - 1 : m \notin Wrong
    <3> HIDE DEF Wrong
    <3> QED
      BY <2>1, <2>2, LeastNumber
  <2>4. j \in 1 .. n /\ at[j] # t[j]
    OBVIOUS
  <2>5. at[j] = IF j = 1 THEN start ELSE to[at[j - 1]]
    BY <1>4, <2>4
  <2>6. t[j] = IF j = 1 THEN start ELSE to[t[j - 1]]
    BY <1>3, <2>4
  <2>7. j # 1
    BY <2>4, <2>5, <2>6
  <2>8. j - 1 \in 1 .. n /\ j - 1 \in 0 .. j - 1
    BY <1>1, <2>4, <2>7
  <2>9. at[j - 1] = t[j - 1]
    BY <2>3, <2>8
  <2> QED
    BY <2>4, <2>5, <2>6, <2>7, <2>9
<1>7. ended = {}
  BY <1>1, <1>6 DEF Address, NULL
<1>8. Cardinality(ended) = 0
  BY <1>7, FS_EmptySet
<1> HIDE DEF ended
<1>9. Walk(list, start, link) = [k \in 1 .. n |-> at[k]]
  BY <1>1, <1>5, <1>8
<1>10. [k \in 1 .. n |-> at[k]] = [k \in 1 .. n |-> t[k]]
  BY <1>6
<1> QED
  BY <1>1, <1>9, <1>10

\* A list has as many nodes as it has addresses.
LEMMA NodesAreCounted ==
  ASSUME NEW V, NEW list, NEW s, ListOf(V, list, s)
  PROVE  Cardinality(DOMAIN list.nodes) = Len(s)
<1> DEFINE D == DOMAIN list.nodes
           f == [k \in 1 .. Len(s) |-> s[k]]
<1>1. Len(s) \in Nat /\ IsFiniteSet(1 .. Len(s)) /\ Cardinality(1 .. Len(s)) = Len(s)
  <2>1. Len(s) \in Nat
    BY DEF ListOf
  <2> QED
    BY <2>1, FS_Interval
<1>2. f \in Surjection(1 .. Len(s), D)
  BY DEF ListOf, Represents, Surjection
<1>3. f \in Injection(1 .. Len(s), D)
  BY DEF ListOf, Represents, Injection, IsInjective
<1> QED
  BY <1>1, <1>2, <1>3, FS_Surjection

\* LIST_FOREACH meets the nodes of a list in their order, each once, and the walk of a
\* queue meets them in the opposite one: neither misses a node or meets a freed one.
THEOREM WalksMeetTheNodes ==
  ASSUME NEW V, NEW list, NEW s, ListOf(V, list, s)
  PROVE  LIST_FOREACH(list) = s /\ QUEUE_FOREACH(list) = Reverse(s)
<1> DEFINE D == DOMAIN list.nodes
           n == Len(s)
           next == [a \in D |-> list.nodes[a].next]
           prev == [a \in D |-> list.nodes[a].prev]
           r == Reverse(s)
<1>1. /\ n \in Nat /\ s \in Seq(Address) /\ Cardinality(D) = n
      /\ \A k \in 1 .. n : s[k] \in Address
  BY NodesAreCounted DEF ListOf
<1>2. LIST_FOREACH(list) = s
  <2>1. s # <<>> => list.first = s[1]
    <3>1. s # <<>> => n # 0
      BY <1>1
    <3> QED
      BY <3>1 DEF ListOf, Represents
  <2>2. ASSUME NEW k \in 1 .. n - 1 PROVE s[k] \in DOMAIN next /\ next[s[k]] = s[k + 1]
    <3>1. k \in 1 .. n /\ k # n
      BY <1>1
    <3> QED
      BY <3>1 DEF ListOf, Represents
  <2> HIDE DEF next, n
  <2>3. Walk(list, list.first, next) = s
    BY <1>1, <2>1, <2>2, WalkIs DEF n
  <2> QED
    BY <2>3 DEF LIST_FOREACH, next
<1>3. /\ r \in Seq(Address) /\ Len(r) = n
      /\ \A k \in 1 .. n : r[k] = s[n + 1 - k]
  <2>1. r = [k \in 1 .. n |-> s[n - k + 1]]
    BY DEF Reverse
  <2>2. \A k \in 1 .. n : n - k + 1 \in 1 .. n /\ n - k + 1 = n + 1 - k
    BY <1>1
  <2> HIDE DEF r
  <2> QED
    BY <1>1, <2>1, <2>2
<1>4. QUEUE_FOREACH(list) = r
  <2> HIDE DEF r
  <2>1. r # <<>> => list.last = r[1]
    <3>1. r # <<>> => n # 0 /\ 1 \in 1 .. n /\ n + 1 - 1 = n
      BY <1>1, <1>3
    <3> QED
      BY <1>3, <3>1 DEF ListOf, Represents
  <2>2. ASSUME NEW k \in 1 .. n - 1 PROVE r[k] \in DOMAIN prev /\ prev[r[k]] = r[k + 1]
    <3> DEFINE j == n + 1 - k
    <3>1. k \in 1 .. n /\ k + 1 \in 1 .. n /\ j \in 1 .. n /\ j # 1 /\ n + 1 - (k + 1) = j - 1
      BY <1>1
    <3>2. s[j] \in D /\ prev[s[j]] = s[j - 1]
      <4> HIDE DEF j
      <4> QED
        BY <3>1 DEF ListOf, Represents
    <3>3. r[k] = s[j] /\ r[k + 1] = s[j - 1]
      BY <1>3, <3>1
    <3> QED
      BY <3>2, <3>3
  <2> HIDE DEF prev, n
  <2>3. Walk(list, list.last, prev) = r
    <3>1. \A k \in 1 .. Len(r) - 1 : r[k] \in DOMAIN prev /\ prev[r[k]] = r[k + 1]
      BY <1>3, <2>2
    <3>2. r \in Seq(Address) /\ Cardinality(DOMAIN list.nodes) = Len(r)
      BY <1>1, <1>3
    <3> HIDE DEF r
    <3> QED
      BY <2>1, <3>1, <3>2, WalkIs
  <2> QED
    BY <2>3 DEF QUEUE_FOREACH, prev
<1> QED
  BY <1>2, <1>4 DEF r

-----------------------------------------------------------------------------
(* The queue *)

\* The values of a queue whose nodes are at s, the oldest first.
Contents(queue, s) ==
  [k \in 1 .. Len(s) |-> queue.nodes[s[Len(s) + 1 - k]].value]

\* The queue of miptpd hands out what it was sent, oldest first: sending puts a value
\* behind all others, and receiving takes the first, which peeking has shown.
THEOREM QueueIsFirstInFirstOut ==
  ASSUME NEW V, NEW queue, NEW s, ListOf(V, queue, s)
  PROVE  /\ \A value \in V : \E t :
              /\ ListOf(V, Queue_send(queue, value), t)
              /\ Contents(Queue_send(queue, value), t) = Append(Contents(queue, s), value)
         /\ s # <<>> => \E t :
              /\ Queue_peek(queue) = Head(Contents(queue, s))
              /\ ListOf(V, Queue_recv(queue), t)
              /\ Contents(Queue_recv(queue), t) = Tail(Contents(queue, s))
<1> DEFINE n == Len(s)
           D == DOMAIN queue.nodes
<1>1. n \in Nat /\ s \in Seq(Address)
  BY DEF ListOf
<1>2. /\ \A k \in 1 .. n : s[k] \in D /\ queue.nodes[s[k]].value \in V
      /\ \A j, k \in 1 .. n : s[j] = s[k] => j = k
  <2>1. \A k \in 1 .. n : s[k] \in D
    BY DEF ListOf, Represents
  <2>2. \A b \in D : queue.nodes[b].value \in V
    BY DEF ListOf, ListNode
  <2> QED
    BY <2>1, <2>2 DEF ListOf, Represents
<1>3. /\ Contents(queue, s) \in Seq(V)
      /\ Len(Contents(queue, s)) = n
      /\ \A k \in 1 .. n : Contents(queue, s)[k] = queue.nodes[s[n + 1 - k]].value
  <2>1. \A k \in 1 .. n : n + 1 - k \in 1 .. n
    BY <1>1
  <2>2. \A k \in 1 .. n : queue.nodes[s[n + 1 - k]].value \in V
    BY <1>2, <2>1
  <2> QED
    BY <1>1, <2>2 DEF Contents
<1>4. ASSUME NEW value \in V
      PROVE  \E t : /\ ListOf(V, Queue_send(queue, value), t)
                    /\ Contents(Queue_send(queue, value), t)
                         = Append(Contents(queue, s), value)
  <2> DEFINE a == Calloc(queue)
             t == <<a>> \o s
             sent == List_unshift(queue, value)
             c == Contents(queue, s)
  <2>1. /\ ListOf(V, sent, t)
        /\ sent.nodes[a].value = value
        /\ \A b \in D : sent.nodes[b].value = queue.nodes[b].value
    BY UnshiftPrepends
  <2>2. /\ Len(t) = n + 1
        /\ t[1] = a
        /\ \A k \in 1 .. n : t[k + 1] = s[k]
    <3>1. <<a>> \in Seq(Address) /\ Len(<<a>>) = 1 /\ <<a>>[1] = a
      BY CallocIsFresh
    <3> QED
      BY <1>1, <3>1
  <2> HIDE DEF a, t, sent, c
  <2>3. /\ Append(c, value) \in Seq(V)
        /\ Len(Append(c, value)) = n + 1
        /\ \A k \in 1 .. n : Append(c, value)[k] = c[k]
        /\ Append(c, value)[n + 1] = value
    BY <1>3, <1>1 DEF c
  <2>4. ASSUME NEW k \in 1 .. n + 1
        PROVE  sent.nodes[t[(n + 1) + 1 - k]].value = Append(c, value)[k]
    <3>1. CASE k = n + 1
      <4>1. (n + 1) + 1 - k = 1
        BY <1>1, <3>1
      <4> QED
        BY <2>1, <2>2, <2>3, <3>1, <4>1
    <3>2. CASE k \in 1 .. n
      <4>1. (n + 1) + 1 - k = (n + 1 - k) + 1 /\ n + 1 - k \in 1 .. n
        BY <1>1, <3>2
      <4>2. t[(n + 1) + 1 - k] = s[n + 1 - k]
        BY <2>2, <4>1
      <4>3. sent.nodes[s[n + 1 - k]].value = c[k]
        BY <1>2, <1>3, <2>1, <3>2, <4>1 DEF c
      <4> QED
        BY <2>3, <3>2, <4>2, <4>3
    <3>3. k = n + 1 \/ k \in 1 .. n
      BY <1>1
    <3> QED
      BY <3>1, <3>2, <3>3
  <2>5. Append(c, value) = [k \in 1 .. n + 1 |-> Append(c, value)[k]]
    <3>1. Append(c, value) \in [1 .. n + 1 -> V]
      BY <2>3, LenProperties
    <3> QED
      BY <3>1
  <2>6. Contents(sent, t) = [k \in 1 .. n + 1 |-> sent.nodes[t[(n + 1) + 1 - k]].value]
    BY <2>2 DEF Contents
  <2>7. Contents(sent, t) = Append(c, value)
    BY <2>4, <2>5, <2>6
  <2> QED
    BY <2>1, <2>7 DEF sent, c, Queue_send
<1>5. ASSUME s # <<>>
      PROVE  \E t : /\ Queue_peek(queue) = Head(Contents(queue, s))
                    /\ ListOf(V, Queue_recv(queue), t)
                    /\ Contents(Queue_recv(queue), t) = Tail(Contents(queue, s))
  <2> DEFINE t == Without(s, n)
             left == List_remove(queue, s[n])
             c == Contents(queue, s)
  <2>1. n \in 1 .. n
    BY <1>1, <1>5
  <2>2. queue.last = s[n] /\ s[n] # NULL
    BY <1>1, <2>1 DEF ListOf, Represents, Address, NULL
  <2>3. Queue_peek(queue) = Head(c)
    <3>1. c[1] = queue.nodes[s[n]].value
      BY <1>1, <1>3, <2>1
    <3>2. Head(c) = c[1]
      BY <1>1, <1>3, <2>1
    <3> QED
      BY <2>2, <3>1, <3>2 DEF Queue_peek, List_last
  <2>4. Queue_recv(queue) = left
    BY <2>2 DEF Queue_recv, List_pop
  <2>5. /\ ListOf(V, left, t)
        /\ \A b \in D \ {s[n]} : left.nodes[b].value = queue.nodes[b].value
    BY <2>1, RemoveTakesOut
  <2>6. /\ Len(t) = n - 1
        /\ \A k \in 1 .. n - 1 : t[k] = s[k]
    BY <1>1, <2>1 DEF Without
  <2> HIDE DEF t, left, c
  <2>7. Tail(c) = [k \in 1 .. n - 1 |-> c[k + 1]]
    <3>1. Len(c) = n /\ c \in Seq(V)
      BY <1>3 DEF c
    <3>2. c # <<>>
      BY <1>1, <2>1, <3>1
    <3>3. /\ Tail(c) \in Seq(V)
          /\ Len(Tail(c)) = n - 1
          /\ \A k \in 1 .. n - 1 : Tail(c)[k] = c[k + 1]
      BY <3>1, <3>2, HeadTailProperties
    <3>4. Tail(c) \in [1 .. n - 1 -> V]
      BY <3>3, LenProperties
    <3> QED
      BY <3>3, <3>4
  <2>8. ASSUME NEW k \in 1 .. n - 1
        PROVE  left.nodes[t[(n - 1) + 1 - k]].value = c[k + 1]
    <3>1. /\ (n - 1) + 1 - k = n - k /\ n - k \in 1 .. n - 1 /\ n - k \in 1 .. n
          /\ n - k # n /\ k + 1 \in 1 .. n /\ n + 1 - (k + 1) = n - k
      BY <1>1
    <3>2. t[n - k] = s[n - k] /\ s[n - k] \in D /\ s[n - k] # s[n]
      BY <1>2, <2>1, <2>6, <3>1
    <3>3. c[k + 1] = queue.nodes[s[n - k]].value
      BY <1>3, <3>1 DEF c
    <3> QED
      BY <2>5, <3>1, <3>2, <3>3
  <2>9. Contents(left, t) = [k \in 1 .. n - 1 |-> left.nodes[t[(n - 1) + 1 - k]].value]
    BY <2>6 DEF Contents
  <2> QED
    BY <2>3, <2>4, <2>5, <2>7, <2>8, <2>9 DEF c
<1> QED
  BY <1>4, <1>5
=============================================================================
