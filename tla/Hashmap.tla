------------------------------ MODULE Hashmap ------------------------------
(***************************************************************************)
(* The hash map of commons/src/hashmap.c, as operators on values: an array *)
(* of buckets, which are arrays of nodes, made when they are first needed. *)
(* Two keys compare as equal when they are the same.                       *)
(***************************************************************************)
EXTENDS DArray

DEFAULT_NUMBER_OF_BUCKETS == 100

\* hash is the function of the keys that the map was made with.
Hashmap(buckets, hash) == [buckets |-> buckets, hash |-> hash]

HashmapNode(hash, key, data) == [hash |-> hash, key |-> key, data |-> data]

\* All buckets count as in use.
Hashmap_create(hash) ==
  Hashmap(DArray(DEFAULT_NUMBER_OF_BUCKETS, DEFAULT_NUMBER_OF_BUCKETS,
                 DArray_create(DEFAULT_NUMBER_OF_BUCKETS).contents),
          hash)

bucket_n(map, key) == map.hash[key] % DEFAULT_NUMBER_OF_BUCKETS

Hashmap_find_bucket(map, key) == DArray_get(map.buckets, bucket_n(map, key))

\* The first node in the bucket with this key.
Hashmap_get_node(hash, bucket, key) ==
  LET Found == {i \in 0 .. bucket.end - 1 : /\ bucket.contents[i].hash = hash
                                           /\ bucket.contents[i].key = key}
  IN IF Found = {} THEN -1 ELSE CHOOSE i \in Found : \A j \in Found : i <= j

Lookup(bucket, hash, key) ==
  LET i == Hashmap_get_node(hash, bucket, key)
  IN IF i = -1 THEN NULL ELSE DArray_get(bucket, i).data

Hashmap_get(map, key) ==
  LET bucket == Hashmap_find_bucket(map, key)
  IN IF bucket = NULL THEN NULL ELSE Lookup(bucket, map.hash[key], key)

\* The map with another bucket for this key.
WithBucket(map, key, bucket) ==
  Hashmap(DArray_set(map.buckets, bucket_n(map, key), bucket), map.hash)

\* Nothing looks for a node that the key may have already.
Hashmap_set(map, key, data) ==
  LET found  == Hashmap_find_bucket(map, key)
      bucket == IF found = NULL THEN DArray_create(DEFAULT_NUMBER_OF_BUCKETS) ELSE found
  IN WithBucket(map, key, DArray_push(bucket, HashmapNode(map.hash[key], key, data)))

\* The last node of the bucket takes the place of the one at i.
Without(bucket, i) ==
  LET ending == bucket.contents[bucket.end - 1]
      popped == DArray_pop(bucket)
  IN IF i = bucket.end - 1 THEN popped ELSE DArray_set(popped, i, ending)

Hashmap_delete(map, key) ==
  LET bucket == Hashmap_find_bucket(map, key)
      i      == Hashmap_get_node(map.hash[key], bucket, key)
  IN IF bucket = NULL THEN map
     ELSE IF i = -1 THEN map ELSE WithBucket(map, key, Without(bucket, i))
=============================================================================
