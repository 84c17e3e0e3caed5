---------------------------- MODULE DArray_proofs ----------------------------
(***************************************************************************)
(* Proofs about the growing array, for arrays of every length.             *)
(***************************************************************************)
EXTENDS DArray, TLAPS

\* An array with room for one more element at its end.
Valid(array) ==
  /\ array.end \in Nat /\ array.max \in Nat /\ array.end < array.max
  /\ DOMAIN array.contents = 0 .. array.max - 1

\* The elements in use are those of s.
Holds(array, s) ==
  /\ Valid(array)
  /\ Len(s) = array.end
  /\ \A k \in 1 .. Len(s) : array.contents[k - 1] = s[k]

-----------------------------------------------------------------------------
\* Pushing appends, and leaves room for the next element although it looks for room
\* only afterwards.
THEOREM DArrayPushAppends ==
  ASSUME NEW V, NEW s \in Seq(V), NEW el \in V, NEW array, Holds(array, s)
  PROVE  Holds(DArray_push(array, el), Append(s, el))
<1> DEFINE contents == [array.contents EXCEPT ![array.end] = el]
           pushed   == DArray(array.end + 1, array.max, contents)
<1>1. /\ array.end \in Nat /\ array.max \in Nat /\ array.end < array.max
      /\ Len(s) = array.end
  BY DEF Holds, Valid
<1>2. /\ DOMAIN contents = 0 .. array.max - 1
      /\ \A i \in 0 .. array.max - 1 :
           contents[i] = IF i = array.end THEN el ELSE array.contents[i]
  BY <1>1 DEF Holds, Valid
<1>3. pushed.end = array.end + 1 /\ pushed.max = array.max /\ pushed.contents = contents
  BY DEF DArray
<1>4. /\ Len(Append(s, el)) = array.end + 1
      /\ \A k \in 1 .. array.end + 1 :
           Append(s, el)[k] = IF k = array.end + 1 THEN el ELSE s[k]
  BY <1>1
<1> HIDE DEF contents
<1>5. \A k \in 1 .. array.end + 1 : contents[k - 1] = Append(s, el)[k]
  <2> SUFFICES ASSUME NEW k \in 1 .. array.end + 1
               PROVE  contents[k - 1] = Append(s, el)[k]
    OBVIOUS
  <2>1. k - 1 \in 0 .. array.max - 1 /\ (k - 1 = array.end <=> k = array.end + 1)
    BY <1>1
  <2>2. contents[k - 1] = IF k - 1 = array.end THEN el ELSE array.contents[k - 1]
    BY <1>2, <2>1
  <2>3. CASE k = array.end + 1
    BY <1>4, <2>1, <2>2, <2>3
  <2>4. CASE k # array.end + 1
    <3>1. k \in 1 .. Len(s)
      BY <1>1, <2>4
    <3> QED
      BY <1>4, <2>1, <2>2, <2>4, <3>1 DEF Holds
  <2> QED
    BY <2>3, <2>4
<1> HIDE DEF pushed
<1>6. CASE pushed.end < pushed.max
  <2>1. DArray_push(array, el) = pushed
    BY <1>1, <1>3, <1>6 DEF DArray_push, pushed, contents
  <2>2. Valid(pushed)
    BY <1>1, <1>2, <1>3, <1>6 DEF Valid
  <2> QED
    BY <1>3, <1>4, <1>5, <2>1, <2>2 DEF Holds
<1>7. CASE ~(pushed.end < pushed.max)
  <2> DEFINE grown == DArray_expand(pushed)
  <2>1. DArray_push(array, el) = grown
    BY <1>1, <1>3, <1>7 DEF DArray_push, pushed, contents
  <2>2. array.end + 1 = array.max
    BY <1>1, <1>3, <1>7
  <2>3. grown.end = array.end + 1 /\ grown.max = array.max + DEFAULT_EXPAND_RATE
    BY <1>3 DEF DArray_expand, DArray_resize, DArray
  <2>4. /\ DOMAIN grown.contents = 0 .. array.max + DEFAULT_EXPAND_RATE - 1
        /\ \A i \in 0 .. array.max + DEFAULT_EXPAND_RATE - 1 :
             grown.contents[i] = IF i \in array.max .. array.max + Cleared - 1 THEN NULL
                                 ELSE IF i < array.max THEN contents[i] ELSE Wild
    <3> DEFINE new == DArray_resize(pushed, array.max + DEFAULT_EXPAND_RATE)
    <3>1. /\ new.max = array.max + DEFAULT_EXPAND_RATE
          /\ \A i \in 0 .. array.max + DEFAULT_EXPAND_RATE - 1 :
               new.contents[i] = IF i < array.max THEN contents[i] ELSE Wild
      BY <1>1, <1>3 DEF DEFAULT_EXPAND_RATE, DArray_resize, DArray
    <3> HIDE DEF new
    <3>2. /\ DOMAIN grown.contents = 0 .. new.max - 1
          /\ \A i \in 0 .. new.max - 1 :
               grown.contents[i] = IF i \in array.max .. array.max + Cleared - 1 THEN NULL
                                   ELSE new.contents[i]
      BY <1>3 DEF DArray_expand, DArray, new
    <3> HIDE DEF grown
    <3> QED
      BY <1>1, <3>1, <3>2 DEF DEFAULT_EXPAND_RATE
  <2> HIDE DEF grown
  <2>5. Valid(grown)
    BY <1>1, <2>2, <2>3, <2>4 DEF Valid, DEFAULT_EXPAND_RATE
  <2>6. \A k \in 1 .. array.end + 1 : grown.contents[k - 1] = contents[k - 1]
    <3> SUFFICES ASSUME NEW k \in 1 .. array.end + 1
                 PROVE  grown.contents[k - 1] = contents[k - 1]
      OBVIOUS
    <3>1. /\ k - 1 \in 0 .. array.max + DEFAULT_EXPAND_RATE - 1
          /\ k - 1 < array.max
          /\ k - 1 \notin array.max .. array.max + Cleared - 1
      BY <1>1, <2>2 DEF DEFAULT_EXPAND_RATE
    <3> QED
      BY <2>4, <3>1
  <2> QED
    BY <1>4, <1>5, <2>1, <2>3, <2>5, <2>6 DEF Holds
<1> QED
  BY <1>6, <1>7

\* Popping takes the last element out and keeps the others, although the memory may be
\* cut; an empty array stays as it is.
THEOREM DArrayPopTakesLast ==
  ASSUME NEW V, NEW s \in Seq(V), NEW array, Holds(array, s)
  PROVE  Holds(DArray_pop(array), IF s = <<>> THEN s ELSE SubSeq(s, 1, Len(s) - 1))
<1> DEFINE contents == [array.contents EXCEPT ![array.end - 1] = NULL]
           removed  == DArray_remove(array, array.end - 1)
           popped   == DArray(removed.end - 1, removed.max, removed.contents)
<1>1. /\ array.end \in Nat /\ array.max \in Nat /\ array.end < array.max
      /\ Len(s) = array.end
  BY DEF Holds, Valid
<1>2. CASE s = <<>>
  BY <1>1, <1>2 DEF DArray_pop
<1>3. CASE s # <<>>
  <2> DEFINE t == SubSeq(s, 1, Len(s) - 1)
  <2>1. /\ array.end > 0
        /\ Len(t) = array.end - 1
        /\ \A k \in 1 .. array.end - 1 : t[k] = s[k]
    BY <1>1, <1>3
  <2>2. popped.end = array.end - 1 /\ popped.max = array.max /\ popped.contents = contents
    BY DEF DArray_remove, DArray
  <2>3. /\ DOMAIN contents = 0 .. array.max - 1
        /\ \A i \in 0 .. array.max - 1 :
             contents[i] = IF i = array.end - 1 THEN NULL ELSE array.contents[i]
    BY <1>1, <2>1 DEF Holds, Valid
  <2> HIDE DEF contents
  <2>4. \A k \in 1 .. array.end - 1 : contents[k - 1] = t[k]
    <3> SUFFICES ASSUME NEW k \in 1 .. array.end - 1
                 PROVE  contents[k - 1] = t[k]
      OBVIOUS
    <3>1. k - 1 \in 0 .. array.max - 1 /\ k - 1 # array.end - 1 /\ k \in 1 .. Len(s)
      BY <1>1
    <3> QED
      BY <2>1, <2>3, <3>1 DEF Holds
  <2> HIDE DEF popped, t
  <2>5. CASE popped.end > DEFAULT_EXPAND_RATE /\ popped.end % DEFAULT_EXPAND_RATE # 0
    <3> DEFINE cut == DArray_contract(popped)
    <3>1. DArray_pop(array) = cut
      BY <2>1, <2>5 DEF DArray_pop, popped
    <3>2. cut.end = array.end - 1 /\ cut.max = array.end
      BY <1>1, <2>1, <2>2, <2>5
      DEF DArray_contract, DArray_resize, DArray, DEFAULT_EXPAND_RATE
    <3>3. /\ DOMAIN cut.contents = 0 .. array.end - 1
          /\ \A i \in 0 .. array.end - 1 :
               cut.contents[i] = IF i < array.max THEN contents[i] ELSE Wild
      BY <1>1, <2>1, <2>2, <2>5
      DEF DArray_contract, DArray_resize, DArray, DEFAULT_EXPAND_RATE
    <3> HIDE DEF cut
    <3>4. \A k \in 1 .. array.end - 1 : cut.contents[k - 1] = contents[k - 1]
      <4> SUFFICES ASSUME NEW k \in 1 .. array.end - 1
                   PROVE  cut.contents[k - 1] = contents[k - 1]
        OBVIOUS
      <4>1. k - 1 \in 0 .. array.end - 1 /\ k - 1 < array.max
        BY <1>1
      <4> QED
        BY <3>3, <4>1
    <3>5. Valid(cut)
      BY <1>1, <2>1, <3>2, <3>3 DEF Valid
    <3> QED
      BY <1>3, <2>1, <2>4, <3>1, <3>2, <3>4, <3>5 DEF Holds, t
  <2>6. CASE ~(popped.end > DEFAULT_EXPAND_RATE /\ popped.end % DEFAULT_EXPAND_RATE # 0)
    <3>1. DArray_pop(array) = popped
      BY <2>1, <2>6 DEF DArray_pop, popped
    <3>2. Valid(popped)
      BY <1>1, <2>1, <2>2, <2>3 DEF Valid
    <3> QED
      BY <1>3, <2>1, <2>2, <2>4, <3>1, <3>2 DEF Holds, t
  <2> QED
    BY <2>5, <2>6
<1> QED
  BY <1>2, <1>3

\* An element that is set past the end is lost with the next push, which takes its place.
THEOREM SetPastEndIsLost ==
  ASSUME NEW array, Valid(array), NEW i \in Nat, NEW el, NEW other,
         array.end < i, i < array.max - 1
  PROVE  DArray_get(DArray_push(DArray_set(array, i, el), other), i) = other
<1> DEFINE set == DArray_set(array, i, el)
           contents == [array.contents EXCEPT ![i] = el]
<1>1. array.end \in Nat /\ array.max \in Nat /\ DOMAIN array.contents = 0 .. array.max - 1
  BY DEF Valid
<1>2. set.end = i /\ set.max = array.max /\ set.contents = contents
  BY <1>1 DEF DArray_set, DArray
<1>3. i \in DOMAIN contents
  BY <1>1
<1> HIDE DEF set, contents
<1>4. DArray_push(set, other) = DArray(i + 1, array.max, [contents EXCEPT ![i] = other])
  BY <1>1, <1>2 DEF DArray_push, DArray
<1>5. DArray_get(DArray_push(set, other), i) = [contents EXCEPT ![i] = other][i]
  BY <1>1, <1>4 DEF DArray_get, DArray
<1> QED
  BY <1>3, <1>5 DEF set

\* Once an array of elements with a size has grown, DArray_clear frees what was in the new
\* memory before, unless that happens to be NULL.
THEOREM ClearFreesWildPointers ==
  ASSUME NEW array, Valid(array), array.end + 1 = array.max, NEW el, Wild # NULL,
         NEW element_size \in Nat \ {0}
  PROVE  Wild \in DArray_clear(DArray_push(array, el), element_size)
<1> DEFINE pushed == DArray(array.end + 1, array.max, [array.contents EXCEPT ![array.end] = el])
           last   == array.max + DEFAULT_EXPAND_RATE - 1
<1>1. array.end \in Nat /\ array.max \in Nat
  BY DEF Valid
<1>2. pushed.end = array.end + 1 /\ pushed.max = array.max
  BY DEF DArray
<1> HIDE DEF pushed
<1>3. DArray_push(array, el) = DArray_expand(pushed)
  BY <1>1, <1>2 DEF DArray_push, pushed
<1>4. DArray_expand(pushed).max = array.max + DEFAULT_EXPAND_RATE
  BY <1>2 DEF DArray_expand, DArray_resize, DArray
<1>5. DArray_expand(pushed).contents[last] = Wild
  BY <1>1, <1>2 DEF DArray_expand, DArray_resize, DArray, Cleared, DEFAULT_EXPAND_RATE
<1>6. last \in 0 .. array.max + DEFAULT_EXPAND_RATE - 1
  BY <1>1 DEF DEFAULT_EXPAND_RATE
<1> HIDE DEF last
<1>7. last \in 0 .. DArray_expand(pushed).max - 1
  BY <1>1, <1>4, <1>6 DEF DEFAULT_EXPAND_RATE
<1> QED
  BY <1>3, <1>5, <1>7 DEF DArray_clear
=============================================================================
