-------------------------------- MODULE List --------------------------------
(***************************************************************************)
(* The doubly linked list of the daemons (commons/src/list.c) and the      *)
(* queue on it (queue.h), as operators on values: a list with the memory   *)
(* its nodes are in, which is freed with a node and may then be given out  *)
(* again.  Addresses of nodes are numbers, NULL is 0.                      *)
(***************************************************************************)
EXTENDS Integers, Sequences, FiniteSets, SequencesExt

NULL == 0

ListNode(Value) == [next : Nat, prev : Nat, value : Value]

List_create == [count |-> 0, first |-> NULL, last |-> NULL, nodes |-> <<>>]

\* calloc: an address that is not in use.
Calloc(list) ==
  CHOOSE a \in 1 .. Cardinality(DOMAIN list.nodes) + 1 : a \notin DOMAIN list.nodes

\* The memory with node at address a, and without what is at a.
With(nodes, a, node) == [b \in DOMAIN nodes \cup {a} |-> IF b = a THEN node ELSE nodes[b]]
Free(nodes, a) == [b \in DOMAIN nodes \ {a} |-> nodes[b]]

\* What a list is meant to be: s are the addresses of its nodes, in order, each linked
\* to those beside it, and there are no other nodes.
Represents(list, s) ==
  /\ DOMAIN list.nodes = {s[k] : k \in 1 .. Len(s)}
  /\ \A j, k \in 1 .. Len(s) : s[j] = s[k] => j = k
  /\ list.count = Len(s)
  /\ list.first = (IF Len(s) = 0 THEN NULL ELSE s[1])
  /\ list.last = (IF Len(s) = 0 THEN NULL ELSE s[Len(s)])
  /\ \A k \in 1 .. Len(s) :
       /\ list.nodes[s[k]].next = (IF k = Len(s) THEN NULL ELSE s[k + 1])
       /\ list.nodes[s[k]].prev = (IF k = 1 THEN NULL ELSE s[k - 1])

-----------------------------------------------------------------------------
(* Operations *)

List_push(list, value) ==
  LET a    == Calloc(list)
      node == [next |-> NULL, prev |-> list.last, value |-> value]
      old  == IF list.last = NULL THEN list.nodes
              ELSE [list.nodes EXCEPT ![list.last].next = a]
  IN [count |-> list.count + 1,
      first |-> IF list.last = NULL THEN a ELSE list.first,
      last  |-> a,
      nodes |-> With(old, a, node)]

List_unshift(list, value) ==
  LET a    == Calloc(list)
      node == [next |-> list.first, prev |-> NULL, value |-> value]
      old  == IF list.first = NULL THEN list.nodes
              ELSE [list.nodes EXCEPT ![list.first].prev = a]
  IN [count |-> list.count + 1,
      first |-> a,
      last  |-> IF list.first = NULL THEN a ELSE list.last,
      nodes |-> With(old, a, node)]

\* Faulty variant of the removal: the new first node still refers to the freed one.
RemoveForward(list, a) ==
  LET node == list.nodes[a]
      old  == IF node.prev = NULL THEN list.nodes
              ELSE [list.nodes EXCEPT ![node.prev].next = node.next]
  IN [count |-> list.count - 1,
      first |-> IF a = list.first THEN node.next ELSE list.first,
      last  |-> IF a = list.last THEN node.prev ELSE list.last,
      nodes |-> Free(old, a)]

\* A node of the list that is not at an end is taken out between its neighbours.
List_remove(list, a) ==
  LET node == list.nodes[a]
      old  ==
        CASE a = list.first /\ a = list.last -> list.nodes
          [] a = list.first /\ a # list.last -> [list.nodes EXCEPT ![node.next].prev = NULL]
          [] a # list.first /\ a = list.last -> [list.nodes EXCEPT ![node.prev].next = NULL]
          [] OTHER -> [list.nodes EXCEPT ![node.next].prev = node.prev,
                                         ![node.prev].next = node.next]
  IN [count |-> list.count - 1,
      first |-> IF a = list.first THEN IF a = list.last THEN NULL ELSE node.next
                ELSE list.first,
      last  |-> IF a = list.last THEN IF a = list.first THEN NULL ELSE node.prev
                ELSE list.last,
      nodes |-> Free(old, a)]

\* The last element, and the list without its last or its first.
List_last(list) == list.nodes[list.last].value
List_pop(list) == IF list.last = NULL THEN list ELSE List_remove(list, list.last)
List_shift(list) == IF list.first = NULL THEN list ELSE List_remove(list, list.first)

-----------------------------------------------------------------------------
(* Walks *)

\* The addresses a walk visits that begins at start and goes from a to link[a], up to
\* NULL; one that has not ended after all nodes is cut.
Walk(list, start, link) ==
  LET n     == Cardinality(DOMAIN list.nodes)
      to    == With(link, NULL, NULL)
      at[k \in 1 .. n] == IF k = 1 THEN start ELSE to[at[k - 1]]
      ended == {k \in 1 .. n : at[k] = NULL}
  IN [k \in 1 .. n - Cardinality(ended) |-> at[k]]

LIST_FOREACH(list) == Walk(list, list.first, [a \in DOMAIN list.nodes |-> list.nodes[a].next])
QUEUE_FOREACH(list) == Walk(list, list.last, [a \in DOMAIN list.nodes |-> list.nodes[a].prev])

ValuesAt(list, walk) == [k \in DOMAIN walk |-> list.nodes[walk[k]].value]
Values(list) == ValuesAt(list, LIST_FOREACH(list))

\* The queue: elements are sent to the front and received from the end.
Queue_create == List_create
Queue_send(queue, value) == List_unshift(queue, value)
Queue_peek(queue) == List_last(queue)
Queue_recv(queue) == List_pop(queue)
QueueValues(queue) == ValuesAt(queue, QUEUE_FOREACH(queue))
=============================================================================
