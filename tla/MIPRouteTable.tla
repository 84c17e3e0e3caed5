--------------------------- MODULE MIPRouteTable ---------------------------
(***************************************************************************)
(* The routing table of routerd (routerd/src/lib/mip_route_table.c) as     *)
(* operators on values.                                                    *)
(*                                                                         *)
(* The source keeps a linked list of entries with distinct destinations:   *)
(* MIPRouteTable_update removes the entry of a destination before it       *)
(* pushes the new one, and no operation depends on the order.  The list is *)
(* therefore a function from destinations to entries, where the entry      *)
(* Absent stands for a destination the list does not hold.                 *)
(*                                                                         *)
(* last_updated_milli is kept as an age in ticks of the model's clock; an  *)
(* age saturates one tick past MaxAge because MIPRouteEntry_to_old only    *)
(* compares it with entry_max_age_milli.  Costs are unsigned integers      *)
(* modulo Modulus (2^32 in the source), so that Infinity + 1 wraps to 0.   *)
(***************************************************************************)
EXTENDS Integers, FiniteSets

CONSTANTS
  Dest,       \* the destinations the tables are about (MIP addresses)
  Hop,        \* the MIP addresses an entry can name as next hop
  Broadcast,  \* MIP_BROADCAST_ADDRESS, 255: "no next hop"
  MaxAge,     \* MIP_TABLE_ENTRY_MAX_AGE_MILLI
  MaxEntries, \* MIP_TABLE_PACKAGE_ENTRIES_MAX_SIZE
  Modulus     \* one more than UINT_MAX

ASSUME TableAssumption ==
  /\ IsFiniteSet(Dest)
  /\ Broadcast \notin Hop
  /\ Broadcast \notin Dest
  /\ Dest \subseteq Hop
  /\ MaxAge \in Nat
  /\ MaxEntries \in Nat
  /\ Modulus \in Nat \ {0, 1}

Infinity == Modulus - 1     \* UINT_MAX, the cost of a poisoned route
Cost     == 0 .. Infinity
Age      == 0 .. MaxAge + 1

Entry      == [next_hop : Hop \cup {Broadcast}, cost : Cost, age : Age]
RouteTable == [Dest -> Entry]

\* What a route package says of one destination.
Advert  == [next_hop : Hop \cup {Broadcast}, cost : Cost]
Adverts == [Dest -> Advert]

Absent       == [next_hop |-> Broadcast, cost |-> 0, age |-> 0]
IsPresent(e) == e.next_hop # Broadcast

Destinations(table) == {d \in Dest : IsPresent(table[d])}

-----------------------------------------------------------------------------
MIPRouteEntry_create(hop, cost) == [next_hop |-> hop, cost |-> cost, age |-> 0]

\* The table of a router that has just been created: its own addresses.
MIPRouteTable_local(addresses) ==
  [d \in Dest |-> IF d \in addresses THEN MIPRouteEntry_create(d, 0) ELSE Absent]

\* Faulty variant of Accepts: poisoned routes are compared like any other.
AcceptsPoisoned(champion, cost) ==
  ~IsPresent(champion) \/ (cost + 1) % Modulus <= champion.cost

\* The condition under which the challenger's route replaces the champion.
Accepts(champion, cost) ==
  /\ ~IsPresent(champion) \/ (cost + 1) % Modulus <= champion.cost
  /\ cost # Infinity

\* Faulty variants of the update below: the link to the neighbour costs nothing,
\* and the neighbour's next hop is taken over.
UpdateWithoutLink(table, address, adverts) ==
  [d \in Dest |->
     IF IsPresent(adverts[d]) /\ Accepts(table[d], adverts[d].cost)
     THEN MIPRouteEntry_create(address, adverts[d].cost) ELSE table[d]]
UpdateWithTheirHop(table, address, adverts) ==
  [d \in Dest |->
     IF IsPresent(adverts[d]) /\ Accepts(table[d], adverts[d].cost)
     THEN MIPRouteEntry_create(adverts[d].next_hop, (adverts[d].cost + 1) % Modulus)
     ELSE table[d]]

MIPRouteTable_update_routing(table, address, adverts) ==
  [d \in Dest |->
     IF IsPresent(adverts[d]) /\ Accepts(table[d], adverts[d].cost)
     THEN MIPRouteEntry_create(address, (adverts[d].cost + 1) % Modulus)
     ELSE table[d]]

\* A package holds fewer than MaxEntries entries, or it is not made.
FitsPackage(table) == Cardinality(Destinations(table)) < MaxEntries

MIPRouteTable_create_package(table) ==
  [d \in Dest |-> [next_hop |-> table[d].next_hop, cost |-> table[d].cost]]

\* Faulty variant: an entry is old when it has reached its age.
OldAtLimit(e) == e.age >= MaxAge

MIPRouteEntry_to_old(e) == e.age > MaxAge

\* Faulty variants of the removal: it spares nothing, and it does nothing.
RemoveLocalToo(table) ==
  [d \in Dest |-> IF MIPRouteEntry_to_old(table[d]) THEN Absent ELSE table[d]]
RemoveNothing(table) == table

MIPRouteTable_remove_old_entries(table) ==
  [d \in Dest |->
     IF MIPRouteEntry_to_old(table[d]) /\ table[d].cost # 0 THEN Absent ELSE table[d]]

\* Faulty variant of poison_reverse: it does nothing.
PoisonNothing(adverts, neighbour) == adverts

\* mipd/src/lib/router/routing.c: poisons the entries whose next hop is the
\* neighbour the package is sent to.
poison_reverse(adverts, neighbour) ==
  [d \in Dest |->
     IF adverts[d].next_hop = neighbour
     THEN [adverts[d] EXCEPT !.cost = Infinity] ELSE adverts[d]]

\* One tick of the clock, seen by the entries of a table.
Older(n, limit) == IF n < limit THEN n + 1 ELSE n
Aged(table) ==
  [d \in Dest |->
     IF IsPresent(table[d])
     THEN [table[d] EXCEPT !.age = Older(@, MaxAge + 1)] ELSE table[d]]

=============================================================================
