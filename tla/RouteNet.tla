------------------------------ MODULE RouteNet ------------------------------
(***************************************************************************)
(* The distance-vector protocol: the routing daemons of a set of hosts,    *)
(* the route socket between each of them and its mipd, the poisoning and   *)
(* sending of route packages by mipd, and the links.                       *)
(*                                                                         *)
(* A routerd is one thread: RouterServer_run ages its table, broadcasts it *)
(* when that is due and blocks in epoll_wait until its route socket or its *)
(* forward socket is readable or POLLING_TIMEOUT has passed.  Each action  *)
(* is one of these steps, or one handler of mipd's event loop.  Time is a  *)
(* tick (one second in the source's constants).                            *)
(*                                                                         *)
(* Between the sending mipd and a routerd are the kernel's raw socket and   *)
(* the receiving mipd.  They are one FIFO with the socket that mipd writes *)
(* to, inbox[h]; a package may be lost on the way into it, and is when no  *)
(* routerd is connected.  The receiving mipd also cuts the package to the  *)
(* size of its buffer.  Nobody reads the package between the cut and       *)
(* routerd, so that it is cut here (Received) when routerd takes it.       *)
(***************************************************************************)
EXTENDS MIPRouteTable, Sequences

CONSTANTS
  Host,
  Iface,         \* Iface[h][g]: the address of h's interface to the host g
  Neighbours,    \* Neighbours[h]: the hosts on a link with h
  Args,          \* Args[h]: the command line of h's routerd: whether it begins with -d,
                 \* and what is given for addresses after the names of the sockets
  InitArp,       \* InitArp[a]: the neighbours cached for the interface a
  FlakyArp,      \* the interfaces whose ARP cache entries come and go
  RecvEntries,   \* the entries of a route package that fit MIP_PACKAGE_MAX_SIZE
  Lossy,         \* whether the links lose packages
  Prompt,        \* whether processing takes no time (no tick while work waits)
  BroadcastFreq, \* BROADCAST_FREQ of routerd/src/lib/cli.h
  PollTimeout,   \* POLLING_TIMEOUT of router_server.c
  Late,          \* how many ticks late a poll that timed out may be scheduled
  Cap,           \* bound: packages in a socket or on a link
  MaxStops       \* bound: how often a routerd stops

\* Addresses are cut to 8 bits, and with -d there may be none.
parse_args_fails(args) ==
  Len(args.mip_addresses) + (IF args.debug THEN 3 ELSE 2) \notin 3 .. 256
RouterdConfig_create(args) ==
  [mip_addresses |-> {args.mip_addresses[k] % 256 : k \in DOMAIN args.mip_addresses}]

\* The MIP addresses of each host.
Local == [h \in Host |-> RouterdConfig_create(Args[h]).mip_addresses]

ASSUME CommandLineAssumption ==
  \A h \in Host : /\ Args[h] \in [debug : BOOLEAN, mip_addresses : Seq(Nat)]
                  /\ ~parse_args_fails(Args[h])

ASSUME NetAssumption ==
  /\ Neighbours \in [Host -> SUBSET Host]
  /\ \A h \in Host : h \notin Neighbours[h]
  /\ \A h, g \in Host : g \in Neighbours[h] => h \in Neighbours[g]
  /\ Local \in [Host -> SUBSET Hop]
  /\ \A h \in Host : \A g \in Neighbours[h] : Iface[h][g] \in Local[h]
  /\ \A h, g \in Host : h # g => Local[h] \cap Local[g] = {}
  /\ InitArp \in [Hop -> Seq(Hop)]
  /\ FlakyArp \subseteq Hop
  /\ {Lossy, Prompt} \subseteq BOOLEAN
  /\ {RecvEntries, BroadcastFreq, PollTimeout, Late, MaxStops} \subseteq Nat
  /\ Cap \in Nat \ {0}

VARIABLES
  table,  \* table[h]: server->table of h's routerd
  pc,     \* pc[h]: "top" of the loop, "wait" in epoll_wait, or "down"
  since,  \* since[h]: ticks since last_broadcast_milli
  slept,  \* slept[h]: ticks spent in this epoll_wait, 0 outside it
  out,    \* out[h]: packages routerd wrote that mipd has not read
  inbox,  \* inbox[h]: route packages on their way to h's routerd
  arp,    \* arp[a]: neighbours in the ARP cache with a's socket, in its order
  stops   \* how many times a routerd has stopped

daemon == <<table, pc, since, slept>>
vars == <<daemon, out, inbox, arp, stops>>

Package == [table_address : Hop, adverts : Adverts]

TypeOK ==
  /\ table \in [Host -> RouteTable]
  /\ pc \in [Host -> {"top", "wait", "down"}]
  /\ since \in [Host -> 0 .. BroadcastFreq + 1]
  /\ slept \in [Host -> 0 .. PollTimeout + Late]
  /\ out \in [Host -> Seq(Adverts)]
  /\ inbox \in [Host -> Seq(Package)]
  /\ arp \in [Hop -> Seq(Hop)]
  /\ stops \in 0 .. MaxStops

\* RouterServer_create: the first broadcast is due at once.
Init ==
  /\ table = [h \in Host |-> MIPRouteTable_local(Local[h])]
  /\ pc = [h \in Host |-> "top"]
  /\ since = [h \in Host |-> BroadcastFreq + 1]
  /\ slept = [h \in Host |-> 0]
  /\ out = [h \in Host |-> <<>>]
  /\ inbox = [h \in Host |-> <<>>]
  /\ arp = InitArp
  /\ stops = 0

-----------------------------------------------------------------------------
(* routerd *)

should_complete_route_broadcast(h) == since[h] > BroadcastFreq

broadcast_route_table(h) ==
  out' = [out EXCEPT ![h] = Append(@, MIPRouteTable_create_package(table[h]))]

\* RouterServer_destroy: the daemon's memory and its end of the sockets go.
Exit(h) ==
  /\ table' = [table EXCEPT ![h] = MIPRouteTable_local({})]
  /\ pc' = [pc EXCEPT ![h] = "down"]
  /\ since' = [since EXCEPT ![h] = 0]
  /\ slept' = [slept EXCEPT ![h] = 0]
  /\ inbox' = [inbox EXCEPT ![h] = <<>>]

\* From the top of the loop to epoll_wait.  The table is broadcast before its
\* old entries are removed.
LoopTop(h) ==
  /\ pc[h] = "top"
  /\ IF should_complete_route_broadcast(h)
     THEN /\ FitsPackage(table[h])
          /\ Len(out[h]) < Cap
          /\ broadcast_route_table(h)
          /\ since' = [since EXCEPT ![h] = 0]
     ELSE UNCHANGED <<out, since>>
  /\ table' = [table EXCEPT ![h] = MIPRouteTable_remove_old_entries(@)]
  /\ pc' = [pc EXCEPT ![h] = "wait"]
  /\ UNCHANGED <<slept, inbox, arp, stops>>

\* A table too large for a package ends the daemon when a broadcast is due.
TableTooLarge(h) ==
  /\ pc[h] = "top"
  /\ should_complete_route_broadcast(h)
  /\ ~FitsPackage(table[h])
  /\ Exit(h)
  /\ UNCHANGED <<out, arp, stops>>

\* epoll_wait returns.
Wake(h) ==
  /\ pc[h] = "wait"
  /\ pc' = [pc EXCEPT ![h] = "top"]
  /\ slept' = [slept EXCEPT ![h] = 0]

\* What the receiving mipd leaves of the adverts it was sent: RecvEntries of them.
\* In place of the others stands the memory behind its buffer, which may name any
\* destination at any cost.  Of several adverts of a destination update_routing
\* takes the cheapest, whatever next hop it names: it stands for all.
Received(adverts) ==
  LET sent == {d \in Dest : IsPresent(adverts[d])}
      memory(d) == {[next_hop |-> d, cost |-> c] : c \in Cost}
      nothing == [next_hop |-> Broadcast, cost |-> 0]
  IN IF Cardinality(sent) <= RecvEntries THEN {adverts}
     ELSE {got \in Adverts :
             \E kept \in SUBSET sent :
               /\ Cardinality(kept) = RecvEntries
               /\ \A d \in kept :
                    \/ got[d] = adverts[d]
                    \/ got[d] \in memory(d) /\ got[d].cost < adverts[d].cost
               /\ \A d \in Dest \ kept : got[d] \in memory(d) \cup {nothing}}

HandleRouting(h) ==
  /\ Wake(h)
  /\ inbox[h] # <<>>
  /\ LET p == Head(inbox[h]) IN
     \E got \in Received(p.adverts) :
       table' = [table EXCEPT ![h] = MIPRouteTable_update_routing(@, p.table_address, got)]
  /\ inbox' = [inbox EXCEPT ![h] = Tail(@)]
  /\ UNCHANGED <<since, out, arp, stops>>

\* A forwarding request is answered from the table and wakes the loop up.  One
\* that comes before a tick has passed finds nothing due and nothing old: it
\* changes nothing and is not a step.
HandleForwarding(h) ==
  /\ slept[h] > 0
  /\ Wake(h)
  /\ UNCHANGED <<table, since, out, inbox, arp, stops>>

PollTimesOut(h) ==
  /\ inbox[h] = <<>>
  /\ slept[h] >= PollTimeout
  /\ Wake(h)
  /\ UNCHANGED <<table, since, out, inbox, arp, stops>>

\* routerd ends ("stop" on stdin, or killed).  What it wrote stays readable.
Stop(h) ==
  /\ pc[h] # "down"
  /\ stops < MaxStops
  /\ stops' = stops + 1
  /\ Exit(h)
  /\ UNCHANGED <<out, arp>>

\* A new routerd.  mipd may accept it before it has read what the old one wrote
\* on the connection it then forgets.
Start(h) ==
  /\ pc[h] = "down"
  /\ table' = [table EXCEPT ![h] = MIPRouteTable_local(Local[h])]
  /\ since' = [since EXCEPT ![h] = BroadcastFreq + 1]
  /\ pc' = [pc EXCEPT ![h] = "top"]
  /\ out' \in {out, [out EXCEPT ![h] = <<>>]}
  /\ UNCHANGED <<slept, inbox, arp, stops>>

-----------------------------------------------------------------------------
(* mipd *)

\* The address mipd poisons for on an interface: the first neighbour cached for
\* it, and the interface's own address when there is none.
PoisonFor(a) == IF arp[a] = <<>> THEN a ELSE Head(arp[a])

PackageTo(h, g) ==
  [table_address |-> Iface[h][g],
   adverts |-> poison_reverse(Head(out[h]), PoisonFor(Iface[h][g]))]

Receivers(h) == {g \in Neighbours[h] : pc[g] # "down" /\ Len(inbox[g]) < Cap}

\* mipd reads a table from its routerd and sends it on every interface.
MipdBroadcast(h) ==
  /\ out[h] # <<>>
  /\ \E lost \in (IF Lossy THEN SUBSET Receivers(h) ELSE {{}}) :
       inbox' = [g \in Host |->
                   IF g \in Receivers(h) \ lost
                   THEN Append(inbox[g], PackageTo(h, g)) ELSE inbox[g]]
  /\ out' = [out EXCEPT ![h] = Tail(@)]
  /\ UNCHANGED <<daemon, arp, stops>>

\* An ARP request or response of g arrives at h.  An entry that is there keeps
\* its place.
append_to_cache(h, g) ==
  LET a == Iface[h][g] IN
  /\ a \in FlakyArp
  /\ \A i \in 1 .. Len(arp[a]) : arp[a][i] # Iface[g][h]
  /\ arp' = [arp EXCEPT ![a] = Append(@, Iface[g][h])]
  /\ UNCHANGED <<daemon, out, inbox, stops>>

\* update_arp_cache removes an entry that was not refreshed in time.
remove_from_cache(h, g) ==
  LET a == Iface[h][g] IN
  /\ a \in FlakyArp
  /\ \E i \in 1 .. Len(arp[a]) :
       arp' = [arp EXCEPT ![a] = SubSeq(@, 1, i - 1) \o SubSeq(@, i + 1, Len(@))]
  /\ UNCHANGED <<daemon, out, inbox, stops>>

-----------------------------------------------------------------------------
\* No daemon has anything to do before time passes.
Quiet ==
  \A h \in Host :
    /\ out[h] = <<>>
    /\ pc[h] # "top"
    /\ pc[h] = "wait" => inbox[h] = <<>> /\ slept[h] < PollTimeout + Late

Tick ==
  /\ Prompt => Quiet
  /\ table' = [h \in Host |-> Aged(table[h])]
  /\ since' = [h \in Host |-> IF pc[h] = "down" THEN since[h]
                              ELSE Older(since[h], BroadcastFreq + 1)]
  /\ slept' = [h \in Host |-> IF pc[h] = "wait"
                              THEN Older(slept[h], PollTimeout + Late) ELSE slept[h]]
  /\ UNCHANGED <<pc, out, inbox, arp, stops>>

Next ==
  \/ \E h \in Host : \/ LoopTop(h) \/ TableTooLarge(h) \/ HandleRouting(h) \/ HandleForwarding(h)
                     \/ PollTimesOut(h) \/ Stop(h) \/ Start(h) \/ MipdBroadcast(h)
  \/ \E h \in Host : \E g \in Neighbours[h] :
       append_to_cache(h, g) \/ remove_from_cache(h, g)
  \/ Tick

Spec == Init /\ [][Next]_vars
=============================================================================
