--------------------------- MODULE RouteNet_proofs ---------------------------
(***************************************************************************)
(* Proofs about the routing protocol, for every network, table size, size  *)
(* of a package on the links, clock bound and socket capacity that         *)
(* NetAssumption admits.                                                   *)
(***************************************************************************)
EXTENDS RouteNetProps, FiniteSetTheorems, TLAPS

-----------------------------------------------------------------------------
(* The operators of the routing table keep its type *)

\* The entries made and kept by routerd are entries.
LEMMA EntryTypes ==
  /\ Absent \in Entry
  /\ \A hop \in Hop, c \in Cost : MIPRouteEntry_create(hop, c) \in Entry
  /\ 0 \in Cost /\ Infinity \in Cost
  /\ \A c \in Cost : (c + 1) % Modulus \in Cost
BY TableAssumption DEF Absent, Entry, MIPRouteEntry_create, Infinity, Cost, Age

\* The table of the local addresses is a table.
LEMMA LocalTable ==
  ASSUME NEW addresses
  PROVE  MIPRouteTable_local(addresses) \in RouteTable
BY EntryTypes, TableAssumption DEF MIPRouteTable_local, RouteTable

\* So is one that is updated from a neighbour's,
LEMMA UpdateType ==
  ASSUME NEW t \in RouteTable, NEW a \in Hop, NEW adverts \in Adverts
  PROVE  MIPRouteTable_update_routing(t, a, adverts) \in RouteTable
<1>1. ASSUME NEW d \in Dest
      PROVE  MIPRouteEntry_create(a, (adverts[d].cost + 1) % Modulus) \in Entry
  <2>1. adverts[d].cost \in Cost
    BY DEF Advert, Adverts
  <2> QED
    BY <2>1, EntryTypes
<1> QED
  BY <1>1 DEF MIPRouteTable_update_routing, RouteTable

\* one without its old entries,
LEMMA RemoveOldType ==
  ASSUME NEW t \in RouteTable
  PROVE  MIPRouteTable_remove_old_entries(t) \in RouteTable
BY EntryTypes DEF MIPRouteTable_remove_old_entries, RouteTable

\* and one that has aged.
LEMMA AgedType ==
  ASSUME NEW t \in RouteTable
  PROVE  Aged(t) \in RouteTable
BY TableAssumption DEF Aged, Older, RouteTable, Entry, Age

\* What a table is made into for its neighbours is a package,
LEMMA PackageType ==
  ASSUME NEW t \in RouteTable
  PROVE  MIPRouteTable_create_package(t) \in Adverts
BY DEF MIPRouteTable_create_package, RouteTable, Entry, Advert, Adverts

\* poisoned or not.
LEMMA PoisonType ==
  ASSUME NEW adverts \in Adverts, NEW a
  PROVE  poison_reverse(adverts, a) \in Adverts
BY EntryTypes DEF poison_reverse, Advert, Adverts

-----------------------------------------------------------------------------
(* What the receiving mipd leaves of a package *)

\* What is received is a package, whatever memory it comes from,
LEMMA ReceivedType ==
  ASSUME NEW adverts \in Adverts, NEW got \in Received(adverts)
  PROVE  got \in Adverts
BY DEF Received

\* and the one that was sent where no package is larger than the buffer.
LEMMA ReceivedWhole ==
  ASSUME PackagesFit, NEW adverts \in Adverts, NEW got \in Received(adverts)
  PROVE  got = adverts
<1> DEFINE sent == {d \in Dest : IsPresent(adverts[d])}
<1>1. Cardinality(sent) <= RecvEntries
  <2>1. IsFiniteSet(Dest) /\ sent \subseteq Dest
    BY TableAssumption
  <2>2. Cardinality(sent) <= Cardinality(Dest)
    BY <2>1, FS_Subset
  <2>3. Cardinality(sent) \in Nat /\ Cardinality(Dest) \in Nat /\ RecvEntries \in Nat
    BY <2>1, FS_Subset, FS_CardinalityType, NetAssumption
  <2> QED
    BY <2>2, <2>3 DEF PackagesFit
<1> QED
  BY <1>1 DEF Received

-----------------------------------------------------------------------------
(* Type correctness *)

\* A FIFO per host keeps its type when an element is put in or taken out.
LEMMA PutType ==
  ASSUME NEW S, NEW f \in [Host -> Seq(S)], NEW h \in Host, NEW e \in S
  PROVE  [f EXCEPT ![h] = Append(@, e)] \in [Host -> Seq(S)]
OBVIOUS

\* A FIFO keeps its type when an element is taken out.
LEMMA GotType ==
  ASSUME NEW S, NEW f \in [Host -> Seq(S)], NEW h \in Host, f[h] # <<>>
  PROVE  /\ Head(f[h]) \in S
         /\ [f EXCEPT ![h] = Tail(@)] \in [Host -> Seq(S)]
OBVIOUS

\* mipd's package for a neighbour is a package.
LEMMA PackageToType ==
  ASSUME TypeOK, NEW h \in Host, NEW g \in Neighbours[h], out[h] # <<>>
  PROVE  PackageTo(h, g) \in Package
<1>1. Head(out[h]) \in Adverts
  BY DEF TypeOK
<1>2. Iface[h][g] \in Hop
  BY NetAssumption
<1> QED
  BY <1>1, <1>2, PoisonType DEF PackageTo, Package

\* At the start there are the local addresses, and nothing on the way.
LEMMA TypeInit == Init => TypeOK
<1> SUFFICES ASSUME Init PROVE TypeOK
  OBVIOUS
<1>1. table \in [Host -> RouteTable]
  BY LocalTable DEF Init
<1> QED
  BY <1>1, NetAssumption DEF Init, TypeOK

\* Waking up leaves a routerd at one of its places.
LEMMA WakeType ==
  ASSUME TypeOK, NetAssumption, NEW h \in Host, Wake(h)
  PROVE  /\ pc' \in [Host -> {"top", "wait", "down"}]
         /\ slept' \in [Host -> 0 .. PollTimeout + Late]
BY DEF Wake, TypeOK

\* Every step keeps the types.
LEMMA TypeNext == TypeOK /\ [Next]_vars => TypeOK'
<1> SUFFICES ASSUME TypeOK, [Next]_vars PROVE TypeOK'
  OBVIOUS
<1> USE NetAssumption
<1>1. ASSUME NEW h \in Host, LoopTop(h) PROVE TypeOK'
  <2>1. table' \in [Host -> RouteTable]
    BY <1>1, RemoveOldType DEF LoopTop, TypeOK
  <2>2. out' \in [Host -> Seq(Adverts)]
    <3>1. CASE should_complete_route_broadcast(h)
      <4>1. MIPRouteTable_create_package(table[h]) \in Adverts
        BY PackageType DEF TypeOK
      <4>2. out' = [out EXCEPT ![h] = Append(@, MIPRouteTable_create_package(table[h]))]
        BY <1>1, <3>1 DEF LoopTop, broadcast_route_table
      <4> QED
        BY <4>1, <4>2, PutType DEF TypeOK
    <3>2. CASE ~should_complete_route_broadcast(h)
      BY <1>1, <3>2 DEF LoopTop, TypeOK
    <3> QED
      BY <3>1, <3>2
  <2>3. since' \in [Host -> 0 .. BroadcastFreq + 1]
    <3>1. since' = since \/ since' = [since EXCEPT ![h] = 0]
      BY <1>1 DEF LoopTop
    <3>2. 0 \in 0 .. BroadcastFreq + 1
      OBVIOUS
    <3>3. since \in [Host -> 0 .. BroadcastFreq + 1]
      BY DEF TypeOK
    <3> HIDE NetAssumption
    <3> QED
      BY <3>1, <3>2, <3>3
  <2>4. pc' \in [Host -> {"top", "wait", "down"}]
    BY <1>1 DEF LoopTop, TypeOK
  <2> QED
    BY <1>1, <2>1, <2>2, <2>3, <2>4 DEF LoopTop, TypeOK
<1>2. ASSUME NEW h \in Host, TableTooLarge(h) \/ Stop(h) PROVE TypeOK'
  <2>1. Exit(h) /\ out' = out /\ arp' = arp
    BY <1>2 DEF TableTooLarge, Stop
  <2>2. stops' \in 0 .. MaxStops
    BY <1>2 DEF TableTooLarge, Stop, TypeOK
  <2>3. table' \in [Host -> RouteTable]
    BY <2>1, LocalTable DEF Exit, TypeOK
  <2> QED
    BY <2>1, <2>2, <2>3 DEF Exit, TypeOK
<1>3. ASSUME NEW h \in Host, HandleRouting(h) PROVE TypeOK'
  <2>1. Head(inbox[h]) \in Package
    BY <1>3, GotType DEF HandleRouting, TypeOK
  <2>2. table' \in [Host -> RouteTable]
    <3> DEFINE p == Head(inbox[h])
    <3>1. PICK got \in Received(p.adverts) :
            table' = [table EXCEPT ![h] =
                        MIPRouteTable_update_routing(@, p.table_address, got)]
      BY <1>3 DEF HandleRouting
    <3>2. p.adverts \in Adverts /\ p.table_address \in Hop
      BY <2>1 DEF Package
    <3>3. got \in Adverts
      BY <3>2, ReceivedType
    <3>4. MIPRouteTable_update_routing(table[h], p.table_address, got) \in RouteTable
      BY <3>2, <3>3, UpdateType DEF TypeOK
    <3> HIDE DEF p
    <3> QED
      BY <3>1, <3>4 DEF TypeOK
  <2>3. inbox' \in [Host -> Seq(Package)]
    BY <1>3, GotType DEF HandleRouting, TypeOK
  <2>4. Wake(h)
    BY <1>3 DEF HandleRouting
  <2> QED
    BY <1>3, <2>2, <2>3, <2>4, WakeType DEF HandleRouting, TypeOK
<1>4. ASSUME NEW h \in Host, HandleForwarding(h) \/ PollTimesOut(h) PROVE TypeOK'
  <2>1. Wake(h) /\ UNCHANGED <<table, since, out, inbox, arp, stops>>
    BY <1>4 DEF HandleForwarding, PollTimesOut
  <2> QED
    BY <2>1, WakeType DEF TypeOK
<1>5. ASSUME NEW h \in Host, Start(h) PROVE TypeOK'
  <2>1. table' \in [Host -> RouteTable]
    BY <1>5, LocalTable DEF Start, TypeOK
  <2>2. out' \in [Host -> Seq(Adverts)]
    <3>1. out' = out \/ out' = [out EXCEPT ![h] = <<>>]
      BY <1>5 DEF Start
    <3>2. out \in [Host -> Seq(Adverts)] /\ <<>> \in Seq(Adverts)
      BY DEF TypeOK
    <3>3. [out EXCEPT ![h] = <<>>] \in [Host -> Seq(Adverts)]
      BY <3>2
    <3> QED
      BY <3>1, <3>2, <3>3
  <2>3. since' \in [Host -> 0 .. BroadcastFreq + 1]
    BY <1>5 DEF Start, TypeOK
  <2>4. pc' \in [Host -> {"top", "wait", "down"}]
    BY <1>5 DEF Start, TypeOK
  <2> QED
    BY <1>5, <2>1, <2>2, <2>3, <2>4 DEF Start, TypeOK
<1>6. ASSUME NEW h \in Host, MipdBroadcast(h) PROVE TypeOK'
  <2>1. out' \in [Host -> Seq(Adverts)]
    BY <1>6, GotType DEF MipdBroadcast, TypeOK
  <2>2. ASSUME NEW g \in Receivers(h)
        PROVE  Append(inbox[g], PackageTo(h, g)) \in Seq(Package)
    <3>1. g \in Neighbours[h] /\ g \in Host
      BY DEF Receivers
    <3>2. PackageTo(h, g) \in Package
      BY <1>6, <3>1, PackageToType DEF MipdBroadcast
    <3>3. inbox[g] \in Seq(Package)
      BY <3>1 DEF TypeOK
    <3> QED
      BY <3>2, <3>3
  <2>3. inbox' \in [Host -> Seq(Package)]
    BY <1>6, <2>2 DEF MipdBroadcast, TypeOK
  <2> QED
    BY <1>6, <2>1, <2>3 DEF MipdBroadcast, daemon, TypeOK
<1>7. ASSUME NEW h \in Host, NEW g \in Neighbours[h], append_to_cache(h, g) PROVE TypeOK'
  <2>1. Iface[g][h] \in Hop /\ Iface[h][g] \in Hop
    OBVIOUS
  <2>2. arp' \in [Hop -> Seq(Hop)]
    <3>1. Append(arp[Iface[h][g]], Iface[g][h]) \in Seq(Hop)
      BY <2>1 DEF TypeOK
    <3> QED
      BY <1>7, <2>1, <3>1 DEF append_to_cache, TypeOK
  <2> QED
    BY <1>7, <2>2 DEF append_to_cache, daemon, TypeOK
<1>8. ASSUME NEW h \in Host, NEW g \in Neighbours[h], remove_from_cache(h, g) PROVE TypeOK'
  <2> DEFINE a == Iface[h][g]
  <2>1. a \in Hop /\ arp[a] \in Seq(Hop)
    BY DEF TypeOK
  <2>2. PICK i \in 1 .. Len(arp[a]) :
          arp' = [arp EXCEPT ![a] = SubSeq(@, 1, i - 1) \o SubSeq(@, i + 1, Len(@))]
    BY <1>8 DEF remove_from_cache
  <2> DEFINE rest == SubSeq(arp[a], 1, i - 1) \o SubSeq(arp[a], i + 1, Len(arp[a]))
  <2>3. rest \in Seq(Hop)
    BY <2>1
  <2>4. arp' \in [Hop -> Seq(Hop)]
    <3>1. arp' = [arp EXCEPT ![a] = rest]
      BY <2>2
    <3> HIDE DEF rest, a
    <3> QED
      BY <3>1, <2>3, <2>1 DEF TypeOK
  <2> QED
    BY <1>8, <2>4 DEF remove_from_cache, daemon, TypeOK
<1>9. ASSUME Tick PROVE TypeOK'
  <2>1. table' \in [Host -> RouteTable]
    BY <1>9, AgedType DEF Tick, TypeOK
  <2> QED
    BY <1>9, <2>1 DEF Tick, Older, TypeOK
<1>10. ASSUME UNCHANGED vars PROVE TypeOK'
  BY <1>10 DEF vars, daemon, TypeOK
<1> QED
  BY <1>1, <1>2, <1>3, <1>4, <1>5, <1>6, <1>7, <1>8, <1>9, <1>10 DEF Next

\* Every state has the types that TypeOK gives the variables, with costs that fit
\* an unsigned int and ages that have saturated, whatever memory a cut package is
\* filled up with.
THEOREM TypeCorrect == Spec => []TypeOK
BY TypeInit, TypeNext, PTL DEF Spec

-----------------------------------------------------------------------------
(* The inductive invariant.  It says of every entry of a table, and of every  *)
(* advert on its way to mipd or to a neighbour, what the host it comes from   *)
(* may claim; an advert that was poisoned claims nothing.  Where packages are *)
(* cut no host can answer for a cost, only for its own addresses and for the  *)
(* next hops it names.                                                        *)

\* What h may say of d.
MaySay(h, d, e) ==
  IsPresent(e) =>
    /\ PackagesFit => e.cost >= Dist[h][d]
    /\ d \in Local[h] => e.next_hop = d /\ e.cost = 0
    /\ d \notin Local[h] => \E g \in Neighbours[h] : e.next_hop = Iface[g][h]
    /\ OnePath /\ PackagesFit /\ d \notin Local[h] =>
         /\ Toward[h][d] \in Neighbours[h]
         /\ e.next_hop = Iface[Toward[h][d]][h]
         /\ e.cost = Dist[h][d]

\* What g may tell h of d.
MayTell(g, h, d, ad) ==
  PackagesFit /\ IsPresent(ad) /\ ad.cost # Infinity =>
    /\ ad.cost >= Dist[g][d]
    /\ OnePath => /\ ad.cost = Dist[g][d]
                  /\ d \in Local[g] \/ Toward[g][d] # h
                  /\ ad.next_hop \notin Local[h]

TablesInv ==
  \A h \in Host : \A d \in Dest :
    /\ MaySay(h, d, table[h][d])
    /\ pc[h] # "down" /\ d \in Local[h] => IsPresent(table[h][d])

OutInv ==
  \A h \in Host : \A i \in 1 .. Len(out[h]) : \A d \in Dest : MaySay(h, d, out[h][i][d])

Told(g, h, p) ==
  /\ p.table_address = Iface[g][h]
  /\ \A d \in Dest : MayTell(g, h, d, p.adverts[d])

InboxInv ==
  \A h \in Host : \A i \in 1 .. Len(inbox[h]) :
    \E g \in Neighbours[h] : Told(g, h, inbox[h][i])

ArpInv == OnePath => arp = InitArp

RouteInv == TypeOK /\ TablesInv /\ OutInv /\ InboxInv /\ ArpInv

\* A neighbour's news keeps a table within what its host may say, cut or not.
LEMMA UpdateInv ==
  ASSUME NEW h \in Host, NEW g \in Neighbours[h], NEW d \in Dest,
         NEW t \in RouteTable, NEW p \in Package,
         NEW got \in Received(p.adverts),
         MaySay(h, d, t[d]), d \in Local[h] => IsPresent(t[d]), Told(g, h, p)
  PROVE  LET e == MIPRouteTable_update_routing(t, p.table_address, got)[d] IN
         MaySay(h, d, e) /\ (d \in Local[h] => IsPresent(e))
<1> DEFINE ad == got[d]
<1> DEFINE e == MIPRouteTable_update_routing(t, p.table_address, got)[d]
<1>0. got \in Adverts /\ (PackagesFit => got = p.adverts)
  BY ReceivedType, ReceivedWhole DEF Package
<1>1. CASE ~(IsPresent(ad) /\ Accepts(t[d], ad.cost))
  BY <1>1 DEF MIPRouteTable_update_routing
<1>2. CASE IsPresent(ad) /\ Accepts(t[d], ad.cost)
  <2>1. e = [next_hop |-> Iface[g][h], cost |-> (ad.cost + 1) % Modulus, age |-> 0]
    BY <1>2 DEF MIPRouteTable_update_routing, MIPRouteEntry_create, Told
  <2>2. ad.cost \in 0 .. Modulus - 2
    BY <1>0, <1>2, TableAssumption DEF Accepts, Adverts, Advert, Cost, Infinity
  <2>3. (ad.cost + 1) % Modulus = ad.cost + 1
    BY <2>2, TableAssumption
  <2>4. d \notin Local[h]
    <3>1. SUFFICES ASSUME d \in Local[h] PROVE FALSE
      OBVIOUS
    <3>2. t[d].cost = 0
      BY <3>1 DEF MaySay
    <3> QED
      BY <3>1, <3>2, <2>2, <2>3, <1>2 DEF Accepts
  <2>5. ad.cost # Infinity /\ (PackagesFit => MayTell(g, h, d, ad))
    BY <1>0, <1>2 DEF Told, Accepts
  <2>6. ASSUME PackagesFit PROVE e.cost >= Dist[h][d]
    <3>1. Dist[h][d] <= Dist[g][d] + 1 /\ Dist[h][d] \in Nat /\ Dist[g][d] \in Nat
      BY DistAssumption, NetAssumption
    <3> QED
      BY <3>1, <2>1, <2>2, <2>3, <2>5, <2>6, <1>2 DEF MayTell
  <2>7. ASSUME OnePath, PackagesFit PROVE Toward[h][d] = g /\ e.cost = Dist[h][d]
    <3>1. ad.cost = Dist[g][d] /\ (d \in Local[g] \/ Toward[g][d] # h)
      BY <2>5, <2>7, <1>2 DEF MayTell
    <3>2. Toward[h][d] = g /\ Dist[h][d] = Dist[g][d] + 1
      BY <2>7, <3>1, <2>4 DEF OnePath
    <3> QED
      BY <3>1, <3>2, <2>1, <2>3
  <2> QED
    BY <2>1, <2>4, <2>6, <2>7 DEF MaySay
<1> QED
  BY <1>1, <1>2

\* What mipd sends on an interface is what its host may tell the neighbour there.
LEMMA PoisonInv ==
  ASSUME TypeOK, ArpInv, NEW h \in Host, NEW g \in Neighbours[h], NEW d \in Dest,
         NEW adverts \in Adverts, MaySay(h, d, adverts[d])
  PROVE  MayTell(h, g, d, poison_reverse(adverts, PoisonFor(Iface[h][g]))[d])
<1> DEFINE a == PoisonFor(Iface[h][g])
           ad == adverts[d]
           sent == poison_reverse(adverts, a)[d]
<1>1. CASE ad.next_hop = a
  <2>1. sent.cost = Infinity
    BY <1>1 DEF poison_reverse, Adverts, Advert
  <2> QED
    BY <2>1 DEF MayTell
<1>2. CASE ad.next_hop # a
  <2>1. sent = ad
    BY <1>2 DEF poison_reverse
  <2>2. ASSUME OnePath, PackagesFit, IsPresent(ad)
        PROVE  /\ ad.cost = Dist[h][d]
               /\ d \in Local[h] \/ Toward[h][d] # g
               /\ ad.next_hop \notin Local[g]
    <3>1. a = Iface[g][h]
      BY <2>2, NetAssumption DEF ArpInv, OnePath, PoisonFor
    <3>2. g \in Host /\ g # h /\ Local[h] \cap Local[g] = {}
      BY NetAssumption
    <3>3. CASE d \in Local[h]
      BY <2>2, <3>2, <3>3, DistAssumption DEF MaySay
    <3>4. CASE d \notin Local[h]
      <4>1. /\ Toward[h][d] \in Neighbours[h]
            /\ ad.next_hop = Iface[Toward[h][d]][h]
            /\ ad.cost = Dist[h][d]
        BY <2>2, <3>4 DEF MaySay
      <4>2. Toward[h][d] # g
        BY <4>1, <3>1, <1>2
      <4>3. ad.next_hop \in Local[Toward[h][d]] /\ Toward[h][d] \in Host
        BY <4>1, NetAssumption
      <4>4. Local[Toward[h][d]] \cap Local[g] = {}
        BY <4>2, <4>3, <3>2, NetAssumption
      <4> QED
        BY <4>1, <4>2, <4>3, <4>4
    <3> QED
      BY <3>3, <3>4
  <2> QED
    BY <2>1, <2>2 DEF MayTell, MaySay
<1> QED
  BY <1>1, <1>2

\* What a host may say it may put in a package, keep when its table ages, and
\* forget when it is old; a new table says only where the host itself is.
LEMMA KeepInv ==
  ASSUME NEW h \in Host, NEW d \in Dest, NEW t \in RouteTable, MaySay(h, d, t[d])
  PROVE  /\ MaySay(h, d, MIPRouteTable_create_package(t)[d])
         /\ MaySay(h, d, Aged(t)[d])
         /\ IsPresent(t[d]) => IsPresent(Aged(t)[d])
         /\ MaySay(h, d, MIPRouteTable_remove_old_entries(t)[d])
         /\ d \in Local[h] /\ IsPresent(t[d])
              => IsPresent(MIPRouteTable_remove_old_entries(t)[d])
<1>1. MaySay(h, d, MIPRouteTable_create_package(t)[d])
  BY DEF MIPRouteTable_create_package, MaySay, IsPresent
<1>2. /\ Aged(t)[d].next_hop = t[d].next_hop
      /\ Aged(t)[d].cost = t[d].cost
  BY DEF Aged, RouteTable, Entry
<1>3. MaySay(h, d, Aged(t)[d]) /\ (IsPresent(t[d]) => IsPresent(Aged(t)[d]))
  BY <1>2 DEF MaySay, IsPresent
<1>4. /\ MaySay(h, d, MIPRouteTable_remove_old_entries(t)[d])
      /\ d \in Local[h] /\ IsPresent(t[d])
           => IsPresent(MIPRouteTable_remove_old_entries(t)[d])
  BY DEF MIPRouteTable_remove_old_entries, MaySay, IsPresent, Absent
<1> QED
  BY <1>1, <1>3, <1>4

\* What a host says of its own addresses, and what a host without any says, is true.
LEMMA LocalInv ==
  ASSUME NEW h \in Host, NEW d \in Dest
  PROVE  /\ MaySay(h, d, MIPRouteTable_local(Local[h])[d])
         /\ d \in Local[h] => IsPresent(MIPRouteTable_local(Local[h])[d])
         /\ MaySay(h, d, MIPRouteTable_local({})[d])
BY TableAssumption, DistAssumption
   DEF MIPRouteTable_local, MIPRouteEntry_create, MaySay, IsPresent, Absent

\* The invariant holds at the start.
LEMMA InvInit == Init => RouteInv
<1> SUFFICES ASSUME Init PROVE RouteInv
  OBVIOUS
<1>1. TablesInv
  BY LocalInv DEF Init, TablesInv
<1>2. OutInv /\ InboxInv /\ ArpInv
  BY DEF Init, OutInv, InboxInv, ArpInv
<1> QED
  BY <1>1, <1>2, TypeInit DEF RouteInv

\* The table of one host changes as its host may say, and no other table does.
LEMMA TablesStep ==
  ASSUME TypeOK, TablesInv, NEW h \in Host, NEW t \in RouteTable, NEW c,
         table' = [table EXCEPT ![h] = t], pc' = [pc EXCEPT ![h] = c],
         \A d \in Dest : /\ MaySay(h, d, t[d])
                         /\ c # "down" /\ d \in Local[h] => IsPresent(t[d])
  PROVE  TablesInv'
<1>1. ASSUME NEW k \in Host, NEW d \in Dest
      PROVE  /\ MaySay(k, d, table'[k][d])
             /\ pc'[k] # "down" /\ d \in Local[k] => IsPresent(table'[k][d])
  <2>1. CASE k = h
    BY <2>1 DEF TypeOK
  <2>2. CASE k # h
    BY <2>2 DEF TypeOK, TablesInv
  <2> QED
    BY <2>1, <2>2
<1> QED
  BY <1>1 DEF TablesInv

\* A package in an inbox keeps its place or moves up.
LEMMA InboxShrinks ==
  ASSUME TypeOK, InboxInv, NEW h \in Host,
         \/ inbox' = inbox
         \/ inbox' = [inbox EXCEPT ![h] = <<>>]
         \/ inbox[h] # <<>> /\ inbox' = [inbox EXCEPT ![h] = Tail(@)]
  PROVE  InboxInv'
<1>1. ASSUME NEW k \in Host, NEW i \in 1 .. Len(inbox'[k])
      PROVE  \E j \in 1 .. Len(inbox[k]) : inbox'[k][i] = inbox[k][j]
  <2>1. CASE inbox'[k] = inbox[k]
    BY <2>1
  <2>2. CASE inbox'[k] = <<>>
    BY <2>2
  <2>3. CASE inbox[k] # <<>> /\ inbox'[k] = Tail(inbox[k])
    <3>1. inbox[k] \in Seq(Package)
      BY DEF TypeOK
    <3>2. i + 1 \in 1 .. Len(inbox[k]) /\ Tail(inbox[k])[i] = inbox[k][i + 1]
      BY <2>3, <3>1
    <3> QED
      BY <2>3, <3>2
  <2>4. inbox'[k] = inbox[k] \/ inbox'[k] = <<>>
          \/ (inbox[k] # <<>> /\ inbox'[k] = Tail(inbox[k]))
    BY DEF TypeOK
  <2> QED
    BY <2>1, <2>2, <2>3, <2>4
<1>2. ASSUME NEW k \in Host, NEW i \in 1 .. Len(inbox'[k])
      PROVE  \E g \in Neighbours[k] : Told(g, k, inbox'[k][i])
  BY <1>1 DEF InboxInv
<1> QED
  BY <1>2 DEF InboxInv

\* So does a table in the route socket.
LEMMA OutShrinks ==
  ASSUME TypeOK, OutInv, NEW h \in Host,
         \/ out' = out
         \/ out' = [out EXCEPT ![h] = <<>>]
         \/ out[h] # <<>> /\ out' = [out EXCEPT ![h] = Tail(@)]
  PROVE  OutInv'
<1>1. ASSUME NEW k \in Host, NEW i \in 1 .. Len(out'[k])
      PROVE  \E j \in 1 .. Len(out[k]) : out'[k][i] = out[k][j]
  <2>1. CASE out'[k] = out[k]
    BY <2>1
  <2>2. CASE out'[k] = <<>>
    BY <2>2
  <2>3. CASE out[k] # <<>> /\ out'[k] = Tail(out[k])
    <3>1. out[k] \in Seq(Adverts)
      BY DEF TypeOK
    <3>2. i + 1 \in 1 .. Len(out[k]) /\ Tail(out[k])[i] = out[k][i + 1]
      BY <2>3, <3>1
    <3> QED
      BY <2>3, <3>2
  <2>4. out'[k] = out[k] \/ out'[k] = <<>> \/ (out[k] # <<>> /\ out'[k] = Tail(out[k]))
    BY DEF TypeOK
  <2> QED
    BY <2>1, <2>2, <2>3, <2>4
<1>2. ASSUME NEW k \in Host, NEW i \in 1 .. Len(out'[k]), NEW d \in Dest
      PROVE  MaySay(k, d, out'[k][i][d])
  BY <1>1 DEF OutInv
<1> QED
  BY <1>2 DEF OutInv

\* Every step keeps the invariant.
LEMMA InvNext == RouteInv /\ [Next]_vars => RouteInv'
<1> SUFFICES ASSUME RouteInv, [Next]_vars PROVE RouteInv'
  OBVIOUS
<1>0. TypeOK /\ TypeOK' /\ TablesInv /\ OutInv /\ InboxInv /\ ArpInv
  BY TypeNext DEF RouteInv
<1> SUFFICES TablesInv' /\ OutInv' /\ InboxInv' /\ ArpInv'
  BY <1>0 DEF RouteInv
<1>a. ASSUME arp' = arp PROVE ArpInv'
  BY <1>0, <1>a DEF ArpInv, OnePath
<1>1. ASSUME NEW h \in Host, LoopTop(h)
      PROVE  TablesInv' /\ OutInv' /\ InboxInv' /\ ArpInv'
  <2> DEFINE t == MIPRouteTable_remove_old_entries(table[h])
  <2>1. table[h] \in RouteTable /\ t \in RouteTable
    BY <1>0, RemoveOldType DEF TypeOK
  <2>2. \A d \in Dest : MaySay(h, d, t[d]) /\ (d \in Local[h] => IsPresent(t[d]))
    <3>1. \A d \in Dest : MaySay(h, d, table[h][d]) /\ (d \in Local[h] => IsPresent(table[h][d]))
      BY <1>0, <1>1 DEF TablesInv, LoopTop
    <3> QED
      BY <2>1, <3>1, KeepInv
  <2>3. table' = [table EXCEPT ![h] = t] /\ pc' = [pc EXCEPT ![h] = "wait"]
    BY <1>1 DEF LoopTop
  <2>4. TablesInv'
    <3> HIDE DEF t
    <3> QED
      BY <1>0, <2>1, <2>2, <2>3, TablesStep
  <2>5. OutInv'
    <3> DEFINE ad == MIPRouteTable_create_package(table[h])
    <3>1. CASE out' = [out EXCEPT ![h] = Append(@, ad)]
      <4>1. \A d \in Dest : MaySay(h, d, ad[d])
        BY <1>0, <2>1, KeepInv DEF TablesInv
      <4> HIDE DEF ad
      <4>2. ASSUME NEW k \in Host, NEW i \in 1 .. Len(out'[k]), NEW d \in Dest
            PROVE  MaySay(k, d, out'[k][i][d])
        <5>1. CASE k # h
          BY <1>0, <3>1, <5>1 DEF TypeOK, OutInv
        <5>2. CASE k = h
          <6>1. out[h] \in Seq(Adverts) /\ out'[h] = Append(out[h], ad)
            BY <1>0, <3>1 DEF TypeOK
          <6>2. CASE i = Len(out[h]) + 1
            BY <6>1, <6>2, <5>2, <4>1
          <6>3. CASE i # Len(out[h]) + 1
            <7>1. i \in 1 .. Len(out[h]) /\ out'[h][i] = out[h][i]
              BY <6>1, <6>3, <5>2
            <7> QED
              BY <7>1, <5>2, <1>0 DEF OutInv
          <6> QED
            BY <6>2, <6>3
        <5> QED
          BY <5>1, <5>2
      <4> QED
        BY <4>2 DEF OutInv
    <3>2. CASE out' = out
      BY <1>0, <3>2, OutShrinks
    <3> QED
      BY <1>1, <3>1, <3>2 DEF LoopTop, broadcast_route_table
  <2>6. inbox' = inbox /\ arp' = arp
    BY <1>1 DEF LoopTop
  <2> QED
    BY <2>4, <2>5, <2>6, <1>0, <1>a, InboxShrinks
<1>2. ASSUME NEW h \in Host, TableTooLarge(h) \/ Stop(h)
      PROVE  TablesInv' /\ OutInv' /\ InboxInv' /\ ArpInv'
  <2>1. Exit(h) /\ out' = out /\ arp' = arp
    BY <1>2 DEF TableTooLarge, Stop
  <2>2. TablesInv'
    <3> DEFINE t == MIPRouteTable_local({})
    <3>1. t \in RouteTable /\ \A d \in Dest : MaySay(h, d, t[d])
      BY LocalTable, LocalInv
    <3>2. table' = [table EXCEPT ![h] = t] /\ pc' = [pc EXCEPT ![h] = "down"]
      BY <2>1 DEF Exit
    <3> HIDE DEF t
    <3> QED
      BY <1>0, <3>1, <3>2, TablesStep
  <2>3. OutInv' /\ InboxInv'
    BY <2>1, <1>0, OutShrinks, InboxShrinks DEF Exit
  <2> QED
    BY <2>1, <2>2, <2>3, <1>a
<1>3. ASSUME NEW h \in Host, HandleRouting(h)
      PROVE  TablesInv' /\ OutInv' /\ InboxInv' /\ ArpInv'
  <2> DEFINE p == Head(inbox[h])
  <2>0. PICK got \in Received(p.adverts) :
          table' = [table EXCEPT ![h] =
                      MIPRouteTable_update_routing(@, p.table_address, got)]
    BY <1>3 DEF HandleRouting
  <2> DEFINE t == MIPRouteTable_update_routing(table[h], p.table_address, got)
  <2>1. inbox[h] # <<>> /\ p \in Package /\ p = inbox[h][1] /\ 1 \in 1 .. Len(inbox[h])
    BY <1>0, <1>3 DEF HandleRouting, TypeOK
  <2>2. PICK g \in Neighbours[h] : Told(g, h, p)
    BY <1>0, <2>1 DEF InboxInv
  <2>3. table[h] \in RouteTable /\ t \in RouteTable
    BY <1>0, <2>1, ReceivedType, UpdateType DEF TypeOK, Package
  <2>4. \A d \in Dest : MaySay(h, d, t[d]) /\ (d \in Local[h] => IsPresent(t[d]))
    <3>1. \A d \in Dest : MaySay(h, d, table[h][d]) /\ (d \in Local[h] => IsPresent(table[h][d]))
      BY <1>0, <1>3 DEF TablesInv, HandleRouting, Wake
    <3> QED
      BY <2>1, <2>2, <2>3, <3>1, UpdateInv
  <2>5. table' = [table EXCEPT ![h] = t] /\ pc' = [pc EXCEPT ![h] = "top"]
    BY <1>3, <2>0 DEF HandleRouting, Wake
  <2>6. TablesInv'
    <3> HIDE DEF t
    <3> QED
      BY <1>0, <2>3, <2>4, <2>5, TablesStep
  <2>7. inbox' = [inbox EXCEPT ![h] = Tail(@)] /\ out' = out /\ arp' = arp
    BY <1>3 DEF HandleRouting
  <2> QED
    BY <1>0, <1>a, <2>1, <2>6, <2>7, OutShrinks, InboxShrinks
<1>4. ASSUME NEW h \in Host, HandleForwarding(h) \/ PollTimesOut(h)
      PROVE  TablesInv' /\ OutInv' /\ InboxInv' /\ ArpInv'
  <2>1. /\ table' = table /\ out' = out /\ inbox' = inbox /\ arp' = arp
        /\ pc[h] = "wait" /\ pc' = [pc EXCEPT ![h] = "top"]
    BY <1>4 DEF HandleForwarding, PollTimesOut, Wake
  <2>2. table' = [table EXCEPT ![h] = table[h]] /\ table[h] \in RouteTable
    BY <1>0, <2>1 DEF TypeOK
  <2>3. TablesInv'
    <3>1. \A d \in Dest : MaySay(h, d, table[h][d]) /\ (d \in Local[h] => IsPresent(table[h][d]))
      BY <1>0, <2>1 DEF TablesInv
    <3> QED
      BY <1>0, <2>1, <2>2, <3>1, TablesStep
  <2> QED
    BY <1>0, <1>a, <2>1, <2>3, OutShrinks, InboxShrinks
<1>5. ASSUME NEW h \in Host, Start(h)
      PROVE  TablesInv' /\ OutInv' /\ InboxInv' /\ ArpInv'
  <2>1. TablesInv'
    <3> DEFINE t == MIPRouteTable_local(Local[h])
    <3>1. /\ t \in RouteTable
          /\ \A d \in Dest : MaySay(h, d, t[d]) /\ (d \in Local[h] => IsPresent(t[d]))
      BY LocalTable, LocalInv
    <3>2. table' = [table EXCEPT ![h] = t] /\ pc' = [pc EXCEPT ![h] = "top"]
      BY <1>5 DEF Start
    <3> HIDE DEF t
    <3> QED
      BY <1>0, <3>1, <3>2, TablesStep
  <2>2. (out' = out \/ out' = [out EXCEPT ![h] = <<>>]) /\ inbox' = inbox /\ arp' = arp
    BY <1>5 DEF Start
  <2> QED
    BY <1>0, <1>a, <2>1, <2>2, OutShrinks, InboxShrinks
<1>6. ASSUME NEW h \in Host, MipdBroadcast(h)
      PROVE  TablesInv' /\ OutInv' /\ InboxInv' /\ ArpInv'
  <2>1. /\ table' = table /\ pc' = pc /\ arp' = arp
        /\ out[h] # <<>> /\ out' = [out EXCEPT ![h] = Tail(@)]
    BY <1>6 DEF MipdBroadcast, daemon
  <2>2. TablesInv'
    <3>1. ASSUME NEW k \in Host, NEW d \in Dest
          PROVE  /\ MaySay(k, d, table'[k][d])
                 /\ pc'[k] # "down" /\ d \in Local[k] => IsPresent(table'[k][d])
      BY <1>0, <2>1 DEF TablesInv
    <3> QED
      BY <3>1 DEF TablesInv
  <2>3. ASSUME NEW g \in Neighbours[h]
        PROVE  Told(h, g, PackageTo(h, g))
    <3> DEFINE ad == Head(out[h])
    <3>1. ad \in Adverts /\ ad = out[h][1] /\ 1 \in 1 .. Len(out[h])
      BY <1>0, <2>1 DEF TypeOK
    <3>2. \A d \in Dest : MaySay(h, d, ad[d])
      BY <1>0, <3>1 DEF OutInv
    <3> HIDE DEF ad
    <3>3. \A d \in Dest : MayTell(h, g, d, poison_reverse(ad, PoisonFor(Iface[h][g]))[d])
      BY <1>0, <3>1, <3>2, PoisonInv
    <3> QED
      BY <3>3 DEF Told, PackageTo, ad
  <2>4. ASSUME NEW k \in Host, NEW i \in 1 .. Len(inbox'[k])
        PROVE  \E g \in Neighbours[k] : Told(g, k, inbox'[k][i])
    <3>1. inbox[k] \in Seq(Package)
      BY <1>0 DEF TypeOK
    <3>2. CASE inbox'[k] = inbox[k]
      BY <1>0, <3>2 DEF InboxInv
    <3>3. CASE inbox'[k] = Append(inbox[k], PackageTo(h, k)) /\ k \in Neighbours[h]
      <4>1. CASE i = Len(inbox[k]) + 1
        <5>1. inbox'[k][i] = PackageTo(h, k)
          BY <3>1, <3>3, <4>1
        <5>2. h \in Neighbours[k]
          BY <3>3, NetAssumption
        <5> QED
          BY <2>3, <3>3, <5>1, <5>2
      <4>2. CASE i # Len(inbox[k]) + 1
        <5>1. i \in 1 .. Len(inbox[k]) /\ inbox'[k][i] = inbox[k][i]
          BY <3>1, <3>3, <4>2
        <5> QED
          BY <1>0, <5>1 DEF InboxInv
      <4> QED
        BY <4>1, <4>2
    <3> QED
      BY <1>6, <3>2, <3>3 DEF MipdBroadcast, Receivers
  <2>5. InboxInv'
    BY <2>4 DEF InboxInv
  <2> QED
    BY <1>0, <1>a, <2>1, <2>2, <2>5, OutShrinks
<1>7. ASSUME NEW h \in Host, NEW g \in Neighbours[h],
             append_to_cache(h, g) \/ remove_from_cache(h, g)
      PROVE  TablesInv' /\ OutInv' /\ InboxInv' /\ ArpInv'
  <2>1. FlakyArp # {} /\ UNCHANGED <<daemon, out, inbox>>
    BY <1>7 DEF append_to_cache, remove_from_cache
  <2>2. ArpInv'
    BY <2>1 DEF ArpInv, OnePath
  <2>3. TablesInv'
    <3>1. ASSUME NEW k \in Host, NEW d \in Dest
          PROVE  /\ MaySay(k, d, table'[k][d])
                 /\ pc'[k] # "down" /\ d \in Local[k] => IsPresent(table'[k][d])
      BY <1>0, <2>1 DEF TablesInv, daemon
    <3> QED
      BY <3>1 DEF TablesInv
  <2> QED
    BY <1>0, <2>1, <2>2, <2>3, OutShrinks, InboxShrinks
<1>8. ASSUME Tick
      PROVE  TablesInv' /\ OutInv' /\ InboxInv' /\ ArpInv'
  <2>1. out' = out /\ inbox' = inbox /\ arp' = arp /\ pc' = pc
    BY <1>8 DEF Tick
  <2>2. ASSUME NEW k \in Host, NEW d \in Dest
        PROVE  /\ MaySay(k, d, table'[k][d])
               /\ pc'[k] # "down" /\ d \in Local[k] => IsPresent(table'[k][d])
    <3>1. table[k] \in RouteTable /\ MaySay(k, d, table[k][d]) /\ table'[k] = Aged(table[k])
      BY <1>0, <1>8 DEF Tick, TypeOK, TablesInv
    <3>2. pc[k] # "down" /\ d \in Local[k] => IsPresent(table[k][d])
      BY <1>0 DEF TablesInv
    <3> QED
      BY <2>1, <3>1, <3>2, KeepInv
  <2>3. TablesInv'
    BY <2>2 DEF TablesInv
  <2>4. OutInv'
    BY <1>0, <2>1 DEF OutInv
  <2>5. InboxInv'
    BY <1>0, <2>1 DEF InboxInv
  <2> QED
    BY <1>a, <2>1, <2>3, <2>4, <2>5
<1>9. ASSUME UNCHANGED vars
      PROVE  TablesInv' /\ OutInv' /\ InboxInv' /\ ArpInv'
  BY <1>0, <1>9 DEF vars, daemon, TablesInv, OutInv, InboxInv, ArpInv
<1> QED
  BY <1>1, <1>2, <1>3, <1>4, <1>5, <1>6, <1>7, <1>8, <1>9 DEF Next

\* The invariant holds in every reachable state: whatever is lost, delayed or
\* restarted, a daemon's table and what it has on its way say only what MaySay and
\* MayTell allow.  Where a package may be cut (link.c:84) they speak of own
\* addresses and next hops only.
THEOREM RouteInvariant == Spec => []RouteInv
BY InvInit, InvNext, PTL DEF Spec

-----------------------------------------------------------------------------
(* What follows from the invariant *)

\* A running router keeps its own addresses, at cost 0 (mip_route_table.c:114, :205).
THEOREM OwnAddressesKept == Spec => []LocalRoutesKept
<1>1. RouteInv => LocalRoutesKept
  BY DEF RouteInv, TablesInv, MaySay, LocalRoutesKept, Running
<1> QED
  BY <1>1, RouteInvariant, PTL

\* Every next hop a table names is a neighbour's address on the shared link, which
\* is what forwarding.c looks up in the ARP cache.
THEOREM NextHopsAreNeighbours == Spec => []NextHopIsNeighbour
<1>1. RouteInv => NextHopIsNeighbour
  BY DEF RouteInv, TablesInv, MaySay, NextHopIsNeighbour, RoutesVia
<1> QED
  BY <1>1, RouteInvariant, PTL

\* No table promises a path shorter than the shortest one, in a network whose
\* addresses fit the package that link.c:84 leaves.
THEOREM CostsAreNotTooShort == Spec => []NeverTooShort
<1>1. RouteInv => NeverTooShort
  BY DEF RouteInv, TablesInv, MaySay, NeverTooShort
<1> QED
  BY <1>1, RouteInvariant, PTL

\* Where there is one path, the ARP caches are stable and no package is cut, poison
\* reverse keeps every route on it: no loop forms and no cost counts to infinity.
THEOREM RoutesFollowThePath == Spec => []FollowsThePath
<1>1. RouteInv => FollowsThePath
  BY DEF RouteInv, TablesInv, MaySay, FollowsThePath, RoutesVia
<1> QED
  BY <1>1, RouteInvariant, PTL

\* There, no router is told of a route that leads back through itself, which is what
\* the README of routerd (line 38) asks for and routing.c:67 gives on such networks.  No package is
\* cut there, so that what is poisoned arrives so.
THEOREM SplitHorizonOnPaths == OnePath /\ PackagesFit => (Spec => []SplitHorizon)
<1> SUFFICES ASSUME OnePath, PackagesFit PROVE Spec => []SplitHorizon
  OBVIOUS
<1>1. RouteInv => SplitHorizon
  <2> SUFFICES ASSUME RouteInv, NEW h \in Host, NEW i \in 1 .. Len(inbox[h]), NEW d \in Dest,
                      inbox[h][i].adverts[d].next_hop \in Local[h]
               PROVE  inbox[h][i].adverts[d].cost = Infinity
    BY DEF SplitHorizon
  <2>1. PICK g \in Neighbours[h] : Told(g, h, inbox[h][i])
    BY DEF RouteInv, InboxInv
  <2>2. IsPresent(inbox[h][i].adverts[d])
    BY NetAssumption, TableAssumption DEF IsPresent
  <2> QED
    BY <2>1, <2>2 DEF Told, MayTell
<1> QED
  BY <1>1, RouteInvariant, PTL
=============================================================================
