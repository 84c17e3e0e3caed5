--------------------------- MODULE Hashmap_proofs ---------------------------
(***************************************************************************)
(* Proofs about the hash map: as long as no key is set twice it is a       *)
(* partial function, for every hash function and every number of keys.     *)
(***************************************************************************)
EXTENDS Hashmap, DArray_proofs

NullIsNoArray == \A end, max, contents : DArray(end, max, contents) # NULL

\* A bucket of nodes whose keys are in K.
Bucket(K, hash, b) ==
  /\ Valid(b)
  /\ \A i \in 0 .. b.end - 1 : /\ b.contents[i].key \in K
                               /\ b.contents[i].hash = hash[b.contents[i].key]

\* No two nodes have the same key.
Unique(b) ==
  \A i, j \in 0 .. b.end - 1 : b.contents[i].key = b.contents[j].key => i = j

\* A map with keys in K.
WellFormed(K, map) ==
  /\ map.hash \in [K -> Nat]
  /\ map.buckets.end \in Nat /\ map.buckets.max = DEFAULT_NUMBER_OF_BUCKETS
  /\ DEFAULT_NUMBER_OF_BUCKETS <= map.buckets.end
  /\ DOMAIN map.buckets.contents = 0 .. DEFAULT_NUMBER_OF_BUCKETS - 1
  /\ \A n \in 0 .. DEFAULT_NUMBER_OF_BUCKETS - 1 :
       map.buckets.contents[n] # NULL => /\ Bucket(K, map.hash, map.buckets.contents[n])
                                         /\ Unique(map.buckets.contents[n])

Has(b, key) == \E i \in 0 .. b.end - 1 : b.contents[i].key = key
IsSet(map, key) ==
  Hashmap_find_bucket(map, key) # NULL /\ Has(Hashmap_find_bucket(map, key), key)

-----------------------------------------------------------------------------
(* Buckets *)

\* The first node with the key is found.
LEMMA LookupFirst ==
  ASSUME NEW K, NEW hash, NEW b, Bucket(K, hash, b), NEW key \in K,
         NEW i \in 0 .. b.end - 1, b.contents[i].key = key,
         \A j \in 0 .. i - 1 : b.contents[j].key # key
  PROVE  /\ Hashmap_get_node(hash[key], b, key) = i
         /\ Lookup(b, hash[key], key) = b.contents[i].data
<1> DEFINE Found == {j \in 0 .. b.end - 1 : /\ b.contents[j].hash = hash[key]
                                           /\ b.contents[j].key = key}
<1>1. b.end \in Nat /\ b.max \in Nat /\ b.end < b.max
  BY DEF Bucket, Valid
<1>2. i \in Found
  BY DEF Bucket
<1>3. \A j \in Found : i <= j
  BY <1>1
<1>4. (CHOOSE j \in Found : \A k \in Found : j <= k) = i
  <2>1. \A j \in Found : j \in Int
    BY <1>1
  <2>2. \A j \in Found : (\A k \in Found : j <= k) => j = i
    BY <1>2, <1>3, <2>1
  <2> HIDE DEF Found
  <2> QED
    BY <1>2, <1>3, <2>2
<1>5. Hashmap_get_node(hash[key], b, key) = i
  BY <1>2, <1>4 DEF Hashmap_get_node
<1>6. i # -1 /\ ~(i >= b.max)
  BY <1>1
<1> QED
  BY <1>5, <1>6 DEF Lookup, DArray_get

\* Where no key is twice, the node found for a key is the one that has it.
LEMMA LookupUnique ==
  ASSUME NEW K, NEW hash, NEW b, Bucket(K, hash, b), Unique(b), NEW key \in K,
         NEW i \in 0 .. b.end - 1, b.contents[i].key = key
  PROVE  /\ Hashmap_get_node(hash[key], b, key) = i
         /\ Lookup(b, hash[key], key) = b.contents[i].data
<1>1. \A j \in 0 .. i - 1 : j \in 0 .. b.end - 1 /\ j # i
  BY DEF Bucket, Valid
<1>2. \A j \in 0 .. i - 1 : b.contents[j].key # key
  BY <1>1 DEF Unique
<1> QED
  BY <1>2, LookupFirst

\* A key that no node has is not found.
LEMMA LookupNone ==
  ASSUME NEW b, NEW h, NEW key, ~Has(b, key)
  PROVE  Hashmap_get_node(h, b, key) = -1 /\ Lookup(b, h, key) = NULL
BY DEF Has, Hashmap_get_node, Lookup

\* What DArrayPushAppends and DArrayPopTakesLast say, element by element.
LEMMA PushAt ==
  ASSUME NEW b, Valid(b), NEW el
  PROVE  LET p == DArray_push(b, el)
         IN /\ Valid(p)
            /\ p.end = b.end + 1
            /\ \A i \in 0 .. b.end - 1 : p.contents[i] = b.contents[i]
            /\ p.contents[b.end] = el
            /\ \E end, max, contents : p = DArray(end, max, contents)
<1> DEFINE V == {b.contents[i] : i \in 0 .. b.end - 1} \cup {el}
           s == [k \in 1 .. b.end |-> b.contents[k - 1]]
           p == DArray_push(b, el)
<1>1. b.end \in Nat
  BY DEF Valid
<1>2. s \in Seq(V) /\ Len(s) = b.end
  BY <1>1
<1>3. Holds(b, s)
  BY <1>1, <1>2 DEF Holds
<1>4. /\ Len(Append(s, el)) = b.end + 1
      /\ \A k \in 1 .. b.end : Append(s, el)[k] = b.contents[k - 1]
      /\ Append(s, el)[b.end + 1] = el
  BY <1>1, <1>2
<1>5. Holds(p, Append(s, el))
  <2> el \in V
    OBVIOUS
  <2> HIDE DEF V, s
  <2> QED
    BY <1>2, <1>3, DArrayPushAppends
<1>6. \E end, max, contents : p = DArray(end, max, contents)
  BY DEF DArray_push, DArray_expand
<1> HIDE DEF p, s
<1>7. p.end = b.end + 1 /\ Valid(p)
  BY <1>4, <1>5 DEF Holds
<1>8. \A k \in 1 .. b.end + 1 : p.contents[k - 1] = Append(s, el)[k]
  BY <1>4, <1>5 DEF Holds
<1>9. p.contents[b.end] = el
  <2> DEFINE last == b.end + 1
  <2>1. last \in 1 .. b.end + 1 /\ last - 1 = b.end
    BY <1>1
  <2>2. Append(s, el)[last] = el
    BY <1>4
  <2> HIDE DEF last
  <2>3. p.contents[last - 1] = Append(s, el)[last]
    BY <1>8, <2>1
  <2> QED
    BY <2>1, <2>2, <2>3
<1>10. \A i \in 0 .. b.end - 1 : p.contents[i] = b.contents[i]
  <2> TAKE i \in 0 .. b.end - 1
  <2>1. i + 1 \in 1 .. b.end /\ i + 1 \in 1 .. b.end + 1 /\ i + 1 - 1 = i
    BY <1>1
  <2> QED
    BY <1>4, <1>8, <2>1
<1> QED
  BY <1>6, <1>7, <1>9, <1>10 DEF p

\* What DArrayPopTakesLast says, element by element.
LEMMA PopAt ==
  ASSUME NEW b, Valid(b), b.end > 0
  PROVE  LET p == DArray_pop(b)
         IN /\ Valid(p)
            /\ p.end = b.end - 1
            /\ \A i \in 0 .. b.end - 2 : p.contents[i] = b.contents[i]
            /\ \E end, max, contents : p = DArray(end, max, contents)
<1> DEFINE V == {b.contents[i] : i \in 0 .. b.end - 1}
           s == [k \in 1 .. b.end |-> b.contents[k - 1]]
           t == SubSeq(s, 1, Len(s) - 1)
           p == DArray_pop(b)
<1>1. b.end \in Nat
  BY DEF Valid
<1>2. s \in Seq(V) /\ Len(s) = b.end
  BY <1>1
<1>3. Holds(b, s)
  BY <1>1, <1>2 DEF Holds
<1>4. /\ s # <<>>
      /\ Len(t) = b.end - 1
      /\ \A k \in 1 .. b.end - 1 : t[k] = b.contents[k - 1]
  BY <1>1, <1>2
<1>5. Holds(p, t)
  <2> HIDE DEF V, s
  <2> QED
    BY <1>2, <1>3, <1>4, DArrayPopTakesLast
<1>6. \E end, max, contents : p = DArray(end, max, contents)
  <2> DEFINE removed == DArray_remove(b, b.end - 1)
             popped  == DArray(removed.end - 1, removed.max, removed.contents)
  <2>1. p = popped \/ p = DArray_contract(popped)
    BY <1>1 DEF DArray_pop
  <2>2. \E end, max, contents : popped = DArray(end, max, contents)
    OBVIOUS
  <2>3. \E end, max, contents : DArray_contract(popped) = DArray(end, max, contents)
    <3> HIDE DEF popped
    <3> QED
      BY DEF DArray_contract, DArray_resize
  <2> HIDE DEF p, popped
  <2> QED
    BY <2>1, <2>2, <2>3
<1> HIDE DEF p, t
<1>7. p.end = b.end - 1 /\ Valid(p)
  BY <1>4, <1>5 DEF Holds
<1>8. \A i \in 0 .. b.end - 2 : p.contents[i] = b.contents[i]
  <2> TAKE i \in 0 .. b.end - 2
  <2>1. i + 1 \in 1 .. b.end - 1 /\ i + 1 - 1 = i
    BY <1>1
  <2> QED
    BY <1>4, <1>5, <2>1 DEF Holds
<1> QED
  BY <1>6, <1>7, <1>8 DEF p

\* Node i is gone and the last one has its place.
LEMMA WithoutAt ==
  ASSUME NEW b, Valid(b), NEW i \in 0 .. b.end - 1
  PROVE  LET w == Without(b, i)
         IN /\ Valid(w)
            /\ w.end = b.end - 1
            /\ \A j \in 0 .. b.end - 2 :
                 w.contents[j] = b.contents[IF j = i THEN b.end - 1 ELSE j]
            /\ \E end, max, contents : w = DArray(end, max, contents)
<1> DEFINE p == DArray_pop(b)
           w == Without(b, i)
           ending == b.contents[b.end - 1]
<1>1. b.end \in Nat /\ b.end > 0 /\ i >= 0 /\ i \in Int /\ i <= b.end - 1
  BY DEF Valid
<1>2. /\ Valid(p)
      /\ p.end = b.end - 1
      /\ \A j \in 0 .. b.end - 2 : p.contents[j] = b.contents[j]
      /\ \E end, max, contents : p = DArray(end, max, contents)
  BY <1>1, PopAt
<1> HIDE DEF p
<1>3. CASE i = b.end - 1
  <2>1. w = p
    BY <1>3 DEF Without, p
  <2>2. \A j \in 0 .. b.end - 2 : j # i
    BY <1>1, <1>3
  <2> HIDE DEF w
  <2>3. \A j \in 0 .. b.end - 2 :
          w.contents[j] = b.contents[IF j = i THEN b.end - 1 ELSE j]
    BY <1>2, <2>1, <2>2
  <2> QED
    BY <1>2, <2>1, <2>3 DEF w
<1>4. CASE i # b.end - 1
  <2>1. i < p.end /\ p.end < p.max /\ p.end \in Nat /\ p.max \in Nat /\ i \in 0 .. b.end - 2
    BY <1>1, <1>2, <1>4 DEF Valid
  <2>2. w = DArray(p.end, p.max, [p.contents EXCEPT ![i] = ending])
    <3>1. w = DArray_set(p, i, ending)
      BY <1>4 DEF Without, p
    <3>2. ~(i >= p.max) /\ ~(i > p.end)
      BY <1>1, <2>1
    <3> QED
      BY <3>1, <3>2 DEF DArray_set
  <2> HIDE DEF w
  <2>3. w.end = p.end /\ w.max = p.max /\ w.contents = [p.contents EXCEPT ![i] = ending]
    BY <2>2 DEF DArray
  <2>4. DOMAIN p.contents = 0 .. p.max - 1
    BY <1>2 DEF Valid
  <2>5. Valid(w)
    BY <2>1, <2>3, <2>4 DEF Valid
  <2>6. i \in DOMAIN p.contents /\ \A j \in 0 .. b.end - 2 : j \in DOMAIN p.contents
    BY <1>1, <1>2, <2>1, <2>4
  <2>7. \A j \in 0 .. b.end - 2 :
          w.contents[j] = b.contents[IF j = i THEN b.end - 1 ELSE j]
    BY <1>2, <2>3, <2>6
  <2> QED
    BY <1>2, <2>2, <2>3, <2>5, <2>7 DEF w
<1> QED
  BY <1>3, <1>4

-----------------------------------------------------------------------------
(* The array of buckets *)

\* Another bucket for a key is found for it and for the keys that share it, and for no
\* other key.
LEMMA BucketPlaced ==
  ASSUME NEW K, NEW map, WellFormed(K, map), NEW key \in K, NEW b
  PROVE  LET new == WithBucket(map, key, b)
         IN /\ new.hash = map.hash
            /\ \A k \in K : Hashmap_find_bucket(new, k) =
                              IF bucket_n(map, k) = bucket_n(map, key) THEN b
                              ELSE Hashmap_find_bucket(map, k)
            /\ Bucket(K, map.hash, b) /\ Unique(b) => WellFormed(K, new)
<1> DEFINE new == WithBucket(map, key, b)
           n == bucket_n(map, key)
<1>1. \A k \in K : bucket_n(map, k) \in 0 .. DEFAULT_NUMBER_OF_BUCKETS - 1
  <2> TAKE k \in K
  <2>1. map.hash[k] \in Nat
    BY DEF WellFormed
  <2> QED
    BY <2>1 DEF bucket_n, DEFAULT_NUMBER_OF_BUCKETS
<1>2. n \in 0 .. DEFAULT_NUMBER_OF_BUCKETS - 1
  BY <1>1
<1>3. ~(n >= map.buckets.max) /\ ~(n > map.buckets.end)
  BY <1>2 DEF WellFormed, DEFAULT_NUMBER_OF_BUCKETS
<1>4. new = Hashmap(DArray(map.buckets.end, map.buckets.max,
                           [map.buckets.contents EXCEPT ![n] = b]), map.hash)
  BY <1>3 DEF WithBucket, DArray_set
<1> HIDE DEF new, n
<1>5. /\ new.hash = map.hash
      /\ new.buckets = DArray(map.buckets.end, map.buckets.max,
                              [map.buckets.contents EXCEPT ![n] = b])
  BY <1>4 DEF Hashmap
<1>6. /\ new.buckets.end = map.buckets.end /\ new.buckets.max = map.buckets.max
      /\ new.buckets.contents = [map.buckets.contents EXCEPT ![n] = b]
  BY <1>5 DEF DArray
<1>7. DOMAIN map.buckets.contents = 0 .. DEFAULT_NUMBER_OF_BUCKETS - 1
  BY DEF WellFormed
<1>8. \A m \in 0 .. DEFAULT_NUMBER_OF_BUCKETS - 1 :
        new.buckets.contents[m] = IF m = n THEN b ELSE map.buckets.contents[m]
  BY <1>6, <1>7
<1>9. \A k \in K : bucket_n(new, k) = bucket_n(map, k)
  BY <1>5 DEF bucket_n
<1>10. \A k \in K : /\ Hashmap_find_bucket(new, k) = new.buckets.contents[bucket_n(map, k)]
                    /\ Hashmap_find_bucket(map, k) = map.buckets.contents[bucket_n(map, k)]
  <2> TAKE k \in K
  <2>1. ~(bucket_n(map, k) >= map.buckets.max)
    BY <1>1 DEF WellFormed, DEFAULT_NUMBER_OF_BUCKETS
  <2> QED
    BY <1>6, <1>9, <2>1 DEF Hashmap_find_bucket, DArray_get
<1>11. \A k \in K : Hashmap_find_bucket(new, k) =
                      IF bucket_n(map, k) = n THEN b ELSE Hashmap_find_bucket(map, k)
  BY <1>1, <1>8, <1>10
<1>12. ASSUME Bucket(K, map.hash, b), Unique(b) PROVE WellFormed(K, new)
  <2>1. DOMAIN new.buckets.contents = 0 .. DEFAULT_NUMBER_OF_BUCKETS - 1
    BY <1>6, <1>7
  <2> QED
    BY <1>5, <1>6, <1>8, <1>12, <2>1 DEF WellFormed
<1> QED
  BY <1>5, <1>11, <1>12 DEF new, n

\* Keys that are found in the same place.
LEMMA BucketOf ==
  ASSUME NEW K, NEW map, WellFormed(K, map), NEW key \in K,
         Hashmap_find_bucket(map, key) # NULL
  PROVE  /\ Bucket(K, map.hash, Hashmap_find_bucket(map, key))
         /\ Unique(Hashmap_find_bucket(map, key))
<1>1. map.hash[key] \in Nat
  BY DEF WellFormed
<1>2. bucket_n(map, key) \in 0 .. DEFAULT_NUMBER_OF_BUCKETS - 1
  BY <1>1 DEF bucket_n, DEFAULT_NUMBER_OF_BUCKETS
<1>3. ~(bucket_n(map, key) >= map.buckets.max)
  BY <1>2 DEF WellFormed, DEFAULT_NUMBER_OF_BUCKETS
<1>4. Hashmap_find_bucket(map, key) = map.buckets.contents[bucket_n(map, key)]
  BY <1>3 DEF Hashmap_find_bucket, DArray_get
<1> QED
  BY <1>2, <1>4 DEF WellFormed

\* A new map has no data for any key.
THEOREM NewMapIsEmpty ==
  ASSUME NEW K, NEW hash \in [K -> Nat]
  PROVE  LET map == Hashmap_create(hash)
         IN /\ WellFormed(K, map)
            /\ \A k \in K : ~IsSet(map, k) /\ Hashmap_get(map, k) = NULL
<1> DEFINE map == Hashmap_create(hash)
<1>1. map = Hashmap(DArray(DEFAULT_NUMBER_OF_BUCKETS, DEFAULT_NUMBER_OF_BUCKETS,
                           [i \in 0 .. DEFAULT_NUMBER_OF_BUCKETS - 1 |-> NULL]), hash)
  BY DEF Hashmap_create, DArray_create, DArray
<1> HIDE DEF map
<1>2. /\ map.hash = hash
      /\ map.buckets.end = DEFAULT_NUMBER_OF_BUCKETS
      /\ map.buckets.max = DEFAULT_NUMBER_OF_BUCKETS
      /\ map.buckets.contents = [i \in 0 .. DEFAULT_NUMBER_OF_BUCKETS - 1 |-> NULL]
  BY <1>1 DEF Hashmap, DArray
<1>3. WellFormed(K, map)
  BY <1>2 DEF WellFormed, DEFAULT_NUMBER_OF_BUCKETS
<1>4. ASSUME NEW k \in K PROVE Hashmap_find_bucket(map, k) = NULL
  <2>1. bucket_n(map, k) \in 0 .. DEFAULT_NUMBER_OF_BUCKETS - 1
    BY <1>2 DEF bucket_n, DEFAULT_NUMBER_OF_BUCKETS
  <2>2. ~(bucket_n(map, k) >= map.buckets.max)
    BY <1>2, <2>1 DEF DEFAULT_NUMBER_OF_BUCKETS
  <2> QED
    BY <1>2, <2>1, <2>2 DEF Hashmap_find_bucket, DArray_get
<1> QED
  BY <1>3, <1>4 DEF map, IsSet, Hashmap_get

-----------------------------------------------------------------------------
(* Set *)

\* Hashmap_set appends a node to the bucket of the key, or to an empty new one.
LEMMA SetAt ==
  ASSUME NullIsNoArray, NEW K, NEW map, WellFormed(K, map), NEW key \in K, NEW data
  PROVE  \E b, p :
           /\ Hashmap_set(map, key, data) = WithBucket(map, key, p)
           /\ \/ Hashmap_find_bucket(map, key) = NULL /\ b.end = 0
              \/ Hashmap_find_bucket(map, key) # NULL /\ b = Hashmap_find_bucket(map, key)
           /\ Bucket(K, map.hash, b) /\ Unique(b)
           /\ p # NULL /\ Bucket(K, map.hash, p)
           /\ p.end = b.end + 1
           /\ \A i \in 0 .. b.end - 1 : p.contents[i] = b.contents[i]
           /\ p.contents[b.end] = HashmapNode(map.hash[key], key, data)
<1> DEFINE found == Hashmap_find_bucket(map, key)
           b     == IF found = NULL THEN DArray_create(DEFAULT_NUMBER_OF_BUCKETS) ELSE found
           node  == HashmapNode(map.hash[key], key, data)
           p     == DArray_push(b, node)
<1>1. Hashmap_set(map, key, data) = WithBucket(map, key, p)
  BY DEF Hashmap_set
<1>4. /\ Bucket(K, map.hash, b) /\ Unique(b)
      /\ \/ found = NULL /\ b.end = 0
         \/ found # NULL /\ b = found
  <2>1. CASE found = NULL
    <3>1. b = DArray(0, DEFAULT_NUMBER_OF_BUCKETS,
                     [i \in 0 .. DEFAULT_NUMBER_OF_BUCKETS - 1 |-> NULL])
      BY <2>1 DEF DArray_create
    <3> HIDE DEF b
    <3>2. /\ b.end = 0 /\ b.max = DEFAULT_NUMBER_OF_BUCKETS
          /\ DOMAIN b.contents = 0 .. DEFAULT_NUMBER_OF_BUCKETS - 1
      BY <3>1 DEF DArray
    <3> QED
      BY <2>1, <3>2 DEF Bucket, Unique, Valid, DEFAULT_NUMBER_OF_BUCKETS
  <2>2. CASE found # NULL
    BY <2>2, BucketOf
  <2> QED
    BY <2>1, <2>2
<1> HIDE DEF b, node
<1>5. b.end \in Nat /\ Valid(b)
  BY <1>4 DEF Bucket, Valid
<1>6. /\ Valid(p)
      /\ p.end = b.end + 1
      /\ \A i \in 0 .. b.end - 1 : p.contents[i] = b.contents[i]
      /\ p.contents[b.end] = node
      /\ \E end, max, contents : p = DArray(end, max, contents)
  BY <1>5, PushAt
<1>7. p # NULL
  <2> HIDE DEF p
  <2> QED
    BY <1>6 DEF NullIsNoArray
<1> HIDE DEF p
<1>8. node.hash = map.hash[key] /\ node.key = key
  BY DEF node, HashmapNode
<1>9. Bucket(K, map.hash, p)
  <2>1. \A i \in 0 .. p.end - 1 : i \in 0 .. b.end - 1 \/ i = b.end
    BY <1>5, <1>6
  <2>2. \A i \in 0 .. p.end - 1 : /\ p.contents[i].key \in K
                                  /\ p.contents[i].hash = map.hash[p.contents[i].key]
    BY <1>4, <1>6, <1>8, <2>1 DEF Bucket
  <2> QED
    BY <1>6, <2>2 DEF Bucket
<1> HIDE DEF found
<1>10. /\ Hashmap_set(map, key, data) = WithBucket(map, key, p)
       /\ \/ found = NULL /\ b.end = 0
          \/ found # NULL /\ b = found
       /\ Bucket(K, map.hash, b) /\ Unique(b)
       /\ p # NULL /\ Bucket(K, map.hash, p)
       /\ p.end = b.end + 1
       /\ \A i \in 0 .. b.end - 1 : p.contents[i] = b.contents[i]
       /\ p.contents[b.end] = node
  BY <1>1, <1>4, <1>6, <1>7, <1>9
<1> QED
  BY <1>10 DEF found, node

\* A key that is not set yet is set to the data, and the data of all other keys stay.
THEOREM SetsNewKey ==
  ASSUME NullIsNoArray, NEW K, NEW map, WellFormed(K, map), NEW key \in K, NEW data,
         ~IsSet(map, key)
  PROVE  LET new == Hashmap_set(map, key, data)
         IN /\ WellFormed(K, new)
            /\ Hashmap_get(new, key) = data
            /\ \A k \in K \ {key} : Hashmap_get(new, k) = Hashmap_get(map, k)
<1> DEFINE new == Hashmap_set(map, key, data)
           found == Hashmap_find_bucket(map, key)
<1>1. PICK b, p :
        /\ new = WithBucket(map, key, p)
        /\ \/ found = NULL /\ b.end = 0
           \/ found # NULL /\ b = found
        /\ Bucket(K, map.hash, b) /\ Unique(b)
        /\ p # NULL /\ Bucket(K, map.hash, p)
        /\ p.end = b.end + 1
        /\ \A i \in 0 .. b.end - 1 : p.contents[i] = b.contents[i]
        /\ p.contents[b.end] = HashmapNode(map.hash[key], key, data)
  BY SetAt
<1>2. b.end \in Nat /\ b.end \in 0 .. p.end - 1
  BY <1>1 DEF Bucket, Valid
<1>3. ~Has(b, key)
  <2>1. CASE found = NULL
    BY <1>1, <2>1 DEF Has
  <2>2. CASE found # NULL
    BY <1>1, <2>2 DEF IsSet
  <2> QED
    BY <2>1, <2>2
<1>4. p.contents[b.end].key = key /\ p.contents[b.end].data = data
  BY <1>1 DEF HashmapNode
<1>5. \A i \in 0 .. p.end - 1 : i \in 0 .. b.end - 1 \/ i = b.end
  BY <1>1, <1>2
<1>6. \A i \in 0 .. b.end - 1 : i \in 0 .. p.end - 1 /\ p.contents[i].key # key
  BY <1>1, <1>2, <1>3 DEF Has
<1>7. Unique(p)
  BY <1>1, <1>4, <1>5, <1>6 DEF Unique
<1> HIDE DEF new, found
<1>8. /\ new.hash = map.hash
      /\ \A k \in K : Hashmap_find_bucket(new, k) =
                        IF bucket_n(map, k) = bucket_n(map, key) THEN p
                        ELSE Hashmap_find_bucket(map, k)
      /\ WellFormed(K, new)
  BY <1>1, <1>7, BucketPlaced
<1>9. Hashmap_get(new, key) = data
  <2>1. Lookup(p, map.hash[key], key) = p.contents[b.end].data
    BY <1>1, <1>2, <1>4, <1>7, LookupUnique
  <2> QED
    BY <1>1, <1>4, <1>8, <2>1 DEF Hashmap_get
<1>10. ASSUME NEW k \in K \ {key} PROVE Hashmap_get(new, k) = Hashmap_get(map, k)
  <2>1. CASE bucket_n(map, k) # bucket_n(map, key)
    BY <1>8, <2>1 DEF Hashmap_get
  <2>2. CASE bucket_n(map, k) = bucket_n(map, key)
    <3>1. Hashmap_find_bucket(map, k) = found /\ Hashmap_find_bucket(new, k) = p
      BY <1>8, <2>2 DEF found, Hashmap_find_bucket
    <3>2. Lookup(p, map.hash[k], k) = Lookup(b, map.hash[k], k)
      <4>1. CASE Has(b, k)
        <5>1. PICK i \in 0 .. b.end - 1 : b.contents[i].key = k
          BY <4>1 DEF Has
        <5>2. p.contents[i] = b.contents[i] /\ i \in 0 .. p.end - 1
          BY <1>1, <1>6
        <5>3. Lookup(b, map.hash[k], k) = b.contents[i].data
          BY <1>1, <5>1, LookupUnique
        <5>4. Lookup(p, map.hash[k], k) = p.contents[i].data
          BY <1>1, <1>7, <5>1, <5>2, LookupUnique
        <5> QED
          BY <5>2, <5>3, <5>4
      <4>2. CASE ~Has(b, k)
        <5>1. ~Has(p, k)
          BY <1>1, <1>4, <1>5, <4>2 DEF Has
        <5> QED
          BY <4>2, <5>1, LookupNone
      <4> QED
        BY <4>1, <4>2
    <3>3. found = NULL => Lookup(b, map.hash[k], k) = NULL
      <4>1. found = NULL => ~Has(b, k)
        BY <1>1 DEF Has
      <4> QED
        BY <4>1, LookupNone
    <3> QED
      BY <1>1, <1>8, <3>1, <3>2, <3>3 DEF Hashmap_get
  <2> QED
    BY <2>1, <2>2
<1> QED
  BY <1>8, <1>9, <1>10 DEF new

\* Setting a key that is set already (hashmap.c:132) changes nothing that can be got: the
\* new node is behind the old one, and Hashmap_get finds the old data.
THEOREM SetAgainIsNotSeen ==
  ASSUME NullIsNoArray, NEW K, NEW map, WellFormed(K, map), NEW key \in K, NEW data,
         IsSet(map, key)
  PROVE  \A k \in K : Hashmap_get(Hashmap_set(map, key, data), k) = Hashmap_get(map, k)
<1> DEFINE new == Hashmap_set(map, key, data)
           found == Hashmap_find_bucket(map, key)
<1>1. PICK b, p :
        /\ new = WithBucket(map, key, p)
        /\ \/ found = NULL /\ b.end = 0
           \/ found # NULL /\ b = found
        /\ Bucket(K, map.hash, b) /\ Unique(b)
        /\ p # NULL /\ Bucket(K, map.hash, p)
        /\ p.end = b.end + 1
        /\ \A i \in 0 .. b.end - 1 : p.contents[i] = b.contents[i]
        /\ p.contents[b.end] = HashmapNode(map.hash[key], key, data)
  BY SetAt
<1>2. b.end \in Nat
  BY <1>1 DEF Bucket, Valid
<1>3. found # NULL /\ Has(b, key)
  BY <1>1 DEF IsSet
<1>4. p.contents[b.end].key = key
  BY <1>1 DEF HashmapNode
<1>5. \A i \in 0 .. p.end - 1 : i \in 0 .. b.end - 1 \/ i = b.end
  BY <1>1, <1>2
<1> HIDE DEF new, found
<1>6. /\ new.hash = map.hash
      /\ \A k \in K : Hashmap_find_bucket(new, k) =
                        IF bucket_n(map, k) = bucket_n(map, key) THEN p
                        ELSE Hashmap_find_bucket(map, k)
  BY <1>1, BucketPlaced
<1>7. ASSUME NEW k \in K PROVE Hashmap_get(new, k) = Hashmap_get(map, k)
  <2>1. CASE bucket_n(map, k) # bucket_n(map, key)
    BY <1>6, <2>1 DEF Hashmap_get
  <2>2. CASE bucket_n(map, k) = bucket_n(map, key)
    <3>1. Hashmap_find_bucket(map, k) = b /\ Hashmap_find_bucket(new, k) = p
      BY <1>1, <1>3, <1>6, <2>2 DEF found, Hashmap_find_bucket
    <3>2. CASE Has(b, k)
      <4>1. PICK i \in 0 .. b.end - 1 : b.contents[i].key = k
        BY <3>2 DEF Has
      <4>2. /\ i \in 0 .. p.end - 1 /\ p.contents[i] = b.contents[i]
            /\ \A j \in 0 .. i - 1 : j \in 0 .. b.end - 1 /\ j # i
        BY <1>1, <1>2
      <4>3. \A j \in 0 .. i - 1 : p.contents[j].key # k
        BY <1>1, <4>1, <4>2 DEF Unique
      <4>4. Lookup(p, map.hash[k], k) = p.contents[i].data
        BY <1>1, <4>1, <4>2, <4>3, LookupFirst
      <4>5. Lookup(b, map.hash[k], k) = b.contents[i].data
        BY <1>1, <4>1, LookupUnique
      <4> QED
        BY <1>1, <1>3, <1>6, <3>1, <4>2, <4>4, <4>5 DEF Hashmap_get
    <3>3. CASE ~Has(b, k)
      <4>1. ~Has(p, k)
        BY <1>1, <1>3, <1>4, <1>5, <3>3 DEF Has
      <4>2. Lookup(p, map.hash[k], k) = NULL /\ Lookup(b, map.hash[k], k) = NULL
        BY <3>3, <4>1, LookupNone
      <4> QED
        BY <1>1, <1>3, <1>6, <3>1, <4>2 DEF Hashmap_get
    <3> QED
      BY <3>2, <3>3
  <2> QED
    BY <2>1, <2>2
<1> QED
  BY <1>7 DEF new

-----------------------------------------------------------------------------
(* Delete *)

\* A deleted key has no data, and the data of all other keys stay, although the last node
\* of the bucket changes its place.
THEOREM DeletesOneKey ==
  ASSUME NullIsNoArray, NEW K, NEW map, WellFormed(K, map), NEW key \in K
  PROVE  LET new == Hashmap_delete(map, key)
         IN /\ WellFormed(K, new)
            /\ Hashmap_get(new, key) = NULL
            /\ \A k \in K \ {key} : Hashmap_get(new, k) = Hashmap_get(map, k)
<1> DEFINE new == Hashmap_delete(map, key)
           b == Hashmap_find_bucket(map, key)
<1>1. CASE b = NULL
  BY <1>1 DEF Hashmap_delete, Hashmap_get
<1>2. CASE b # NULL /\ ~Has(b, key)
  <2>1. Hashmap_get_node(map.hash[key], b, key) = -1 /\ Lookup(b, map.hash[key], key) = NULL
    BY <1>2, LookupNone
  <2>2. new = map
    BY <2>1 DEF Hashmap_delete
  <2>3. Hashmap_get(map, key) = NULL
    BY <1>2, <2>1 DEF Hashmap_get
  <2> HIDE DEF new
  <2> QED
    BY <2>2, <2>3 DEF new
<1>3. CASE b # NULL /\ Has(b, key)
  <2>1. Bucket(K, map.hash, b) /\ Unique(b)
    BY <1>3, BucketOf
  <2>2. Valid(b) /\ b.end \in Nat
    BY <2>1 DEF Bucket, Valid
  <2>3. PICK i \in 0 .. b.end - 1 : b.contents[i].key = key
    BY <1>3 DEF Has
  <2> DEFINE w == Without(b, i)
             From(j) == IF j = i THEN b.end - 1 ELSE j
  <2> HIDE DEF b
  <2>4. /\ Valid(w)
        /\ w.end = b.end - 1
        /\ \A j \in 0 .. b.end - 2 : w.contents[j] = b.contents[From(j)]
        /\ \E end, max, contents : w = DArray(end, max, contents)
    BY <2>2, WithoutAt
  <2>5. Hashmap_get_node(map.hash[key], b, key) = i
    BY <2>1, <2>3, LookupUnique
  <2>6. new = WithBucket(map, key, w)
    <3>1. i # -1
      BY <2>2
    <3> HIDE DEF w
    <3> QED
      BY <1>3, <2>5, <3>1 DEF Hashmap_delete, b, w
  <2> HIDE DEF w, new
  <2>7. w # NULL
    BY <2>4 DEF NullIsNoArray
  <2>8. /\ \A j \in 0 .. w.end - 1 : /\ From(j) \in 0 .. b.end - 1 /\ From(j) # i
                                     /\ w.contents[j] = b.contents[From(j)]
        /\ \A j, l \in 0 .. w.end - 1 : From(j) = From(l) => j = l
        /\ \A j \in 0 .. b.end - 1 : j # i => \E l \in 0 .. w.end - 1 : From(l) = j
    <3>1. \A j \in 0 .. w.end - 1 : j \in 0 .. b.end - 2
      BY <2>2, <2>4
    <3>2. \A j \in 0 .. b.end - 1 : j # i => \E l \in 0 .. w.end - 1 : From(l) = j
      <4> TAKE j \in 0 .. b.end - 1
      <4> HAVE j # i
      <4>1. CASE j = b.end - 1
        <5>1. i \in 0 .. w.end - 1 /\ From(i) = j
          BY <2>2, <2>4, <4>1
        <5> QED
          BY <5>1
      <4>2. CASE j # b.end - 1
        <5>1. j \in 0 .. w.end - 1 /\ From(j) = j
          BY <2>2, <2>4, <4>2
        <5> QED
          BY <5>1
      <4> QED
        BY <4>1, <4>2
    <3>3. \A j \in 0 .. w.end - 1 : From(j) \in 0 .. b.end - 1 /\ From(j) # i
      BY <2>2, <2>4
    <3>4. \A j, l \in 0 .. w.end - 1 : From(j) = From(l) => j = l
      BY <2>2, <2>4
    <3> HIDE DEF From
    <3> QED
      BY <2>4, <3>1, <3>2, <3>3, <3>4
  <2> HIDE DEF From
  <2>9. Bucket(K, map.hash, w) /\ Unique(w)
    <3>1. \A j \in 0 .. w.end - 1 : /\ w.contents[j].key \in K
                                    /\ w.contents[j].hash = map.hash[w.contents[j].key]
      BY <2>1, <2>8 DEF Bucket
    <3>2. ASSUME NEW j \in 0 .. w.end - 1, NEW l \in 0 .. w.end - 1,
                 w.contents[j].key = w.contents[l].key
          PROVE  j = l
      <4>1. From(j) = From(l)
        BY <2>1, <2>8, <3>2 DEF Unique
      <4> QED
        BY <2>8, <4>1
    <3> QED
      BY <2>4, <3>1, <3>2 DEF Bucket, Unique
  <2>10. /\ new.hash = map.hash
         /\ \A k \in K : Hashmap_find_bucket(new, k) =
                           IF bucket_n(map, k) = bucket_n(map, key) THEN w
                           ELSE Hashmap_find_bucket(map, k)
         /\ WellFormed(K, new)
    BY <2>6, <2>9, BucketPlaced
  <2>11. Hashmap_get(new, key) = NULL
    <3>1. ~Has(w, key)
      <4>1. \A j \in 0 .. w.end - 1 : w.contents[j].key # key
        BY <2>1, <2>3, <2>8 DEF Unique
      <4> QED
        BY <4>1 DEF Has
    <3>2. Lookup(w, map.hash[key], key) = NULL
      BY <3>1, LookupNone
    <3> QED
      BY <2>7, <2>10, <3>2 DEF Hashmap_get
  <2>12. ASSUME NEW k \in K \ {key} PROVE Hashmap_get(new, k) = Hashmap_get(map, k)
    <3>1. CASE bucket_n(map, k) # bucket_n(map, key)
      BY <2>10, <3>1 DEF Hashmap_get
    <3>2. CASE bucket_n(map, k) = bucket_n(map, key)
      <4>1. Hashmap_find_bucket(map, k) = b /\ Hashmap_find_bucket(new, k) = w
        BY <2>10, <3>2 DEF b, Hashmap_find_bucket
      <4>2. CASE Has(b, k)
        <5>1. PICK j \in 0 .. b.end - 1 : b.contents[j].key = k
          BY <4>2 DEF Has
        <5>2. PICK l \in 0 .. w.end - 1 : From(l) = j
          BY <2>3, <2>8, <5>1
        <5>3. w.contents[l] = b.contents[j]
          BY <2>8, <5>2
        <5>4. Lookup(b, map.hash[k], k) = b.contents[j].data
          BY <2>1, <5>1, LookupUnique
        <5>5. Lookup(w, map.hash[k], k) = w.contents[l].data
          BY <2>9, <5>1, <5>3, LookupUnique
        <5> QED
          BY <1>3, <2>7, <2>10, <4>1, <5>3, <5>4, <5>5 DEF Hashmap_get
      <4>3. CASE ~Has(b, k)
        <5>1. ~Has(w, k)
          BY <2>8, <4>3 DEF Has
        <5>2. Lookup(w, map.hash[k], k) = NULL /\ Lookup(b, map.hash[k], k) = NULL
          BY <4>3, <5>1, LookupNone
        <5> QED
          BY <1>3, <2>7, <2>10, <4>1, <5>2 DEF Hashmap_get
      <4> QED
        BY <4>2, <4>3
    <3> QED
      BY <3>1, <3>2
  <2> QED
    BY <2>10, <2>11, <2>12 DEF new
<1> QED
  BY <1>1, <1>2, <1>3
=============================================================================
