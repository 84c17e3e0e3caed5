------------------------------- MODULE DArray -------------------------------
(***************************************************************************)
(* The growing array of commons/src/darray.c and darray.h, as operators on *)
(* values.  The contents are the memory it has been given, from 0 to max,  *)
(* of which the elements before end are in use.                            *)
(***************************************************************************)
EXTENDS Integers, Sequences

CONSTANTS
  NULL,
  Wild  \* what is in memory that nothing was written to

DEFAULT_EXPAND_RATE == 300

\* memset clears as many bytes as there are new elements, which have 8 bytes each; an
\* element of which a part is cleared counts as wild.
Cleared == DEFAULT_EXPAND_RATE \div 8

\* An array with its fields.
DArray(end, max, contents) == [end |-> end, max |-> max, contents |-> contents]

DArray_create(initial_max) ==
  DArray(0, initial_max, [i \in 0 .. initial_max - 1 |-> NULL])

DArray_resize(array, newsize) ==
  DArray(array.end, newsize,
         [i \in 0 .. newsize - 1 |-> IF i < array.max THEN array.contents[i] ELSE Wild])

DArray_expand(array) ==
  LET new == DArray_resize(array, array.max + DEFAULT_EXPAND_RATE)
  IN DArray(array.end, new.max,
            [i \in 0 .. new.max - 1 |->
               IF i \in array.max .. array.max + Cleared - 1 THEN NULL ELSE new.contents[i]])

DArray_contract(array) ==
  DArray_resize(array,
    (IF array.end < DEFAULT_EXPAND_RATE THEN DEFAULT_EXPAND_RATE ELSE array.end) + 1)

DArray_push(array, el) ==
  LET pushed == DArray(array.end + 1, array.max, [array.contents EXCEPT ![array.end] = el])
  IN IF pushed.end >= pushed.max THEN DArray_expand(pushed) ELSE pushed

DArray_remove(array, i) ==
  DArray(array.end, array.max, [array.contents EXCEPT ![i] = NULL])

\* The array without its last element; an empty one stays as it is.  A long array is
\* cut to what is in use whenever that is no multiple of the expand rate.
DArray_pop(array) ==
  LET removed == DArray_remove(array, array.end - 1)
      popped  == DArray(removed.end - 1, removed.max, removed.contents)
  IN IF array.end = 0 THEN array
     ELSE IF popped.end > DEFAULT_EXPAND_RATE /\ popped.end % DEFAULT_EXPAND_RATE # 0
     THEN DArray_contract(popped) ELSE popped

\* An element that is set past the end becomes the end, and is not in use.
DArray_set(array, i, el) ==
  IF i >= array.max THEN array
  ELSE DArray(IF i > array.end THEN i ELSE array.end, array.max,
              [array.contents EXCEPT ![i] = el])

DArray_get(array, i) == IF i >= array.max THEN NULL ELSE array.contents[i]

\* The pointers that DArray_clear frees; there are none to free where elements have no size.
DArray_clear(array, element_size) ==
  IF element_size > 0
  THEN {array.contents[i] : i \in 0 .. array.max - 1} \ {NULL} ELSE {}
=============================================================================
