--------------------------- MODULE RouteNetProps ---------------------------
(***************************************************************************)
(* What the routing tables of RouteNet promise.                            *)
(*                                                                         *)
(* Dist and Toward describe the topology the daemons do not know: the      *)
(* length of a shortest path from a host to a destination, and the         *)
(* neighbour it starts with.  The properties compare the tables with them. *)
(***************************************************************************)
EXTENDS RouteNet

CONSTANTS
  Dist,    \* Dist[h][d]: the number of links between h and the owner of d
  Toward   \* Toward[h][d]: a neighbour of h one link closer to d

ASSUME DistAssumption ==
  /\ \A h \in Host : \A d \in Dest : Dist[h][d] \in Nat
  /\ \A h \in Host : \A d \in Dest : Dist[h][d] = 0 <=> d \in Local[h]
  /\ \A h \in Host : \A g \in Neighbours[h] : \A d \in Dest :
       Dist[h][d] <= Dist[g][d] + 1

Running(h) == pc[h] # "down"

\* A route package holds all destinations and arrives uncut.
PackagesFit == Cardinality(Dest) <= RecvEntries

\* h would pass a packet for d on to g.
RoutesVia(h, g, d) ==
  /\ g \in Neighbours[h]
  /\ d \notin Local[h]
  /\ table[h][d].next_hop = Iface[g][h]

-----------------------------------------------------------------------------
(* Safety *)

\* A router never loses or reroutes its own addresses, whatever its neighbours
\* advertise, whatever takes the place of entries that were cut off (link.c:84) and
\* however long it runs: they are exempt from ageing, and cost UINT_MAX + 1 wraps
\* to 0, which would beat them, only for the poisoned routes update_routing refuses
\* (mip_route_table.c:114, :205).
LocalRoutesKept ==
  \A h \in Host : Running(h) =>
    \A d \in Local[h] \cap Dest :
      table[h][d].next_hop = d /\ table[h][d].cost = 0

\* The next hop routerd answers with is the address of a neighbour's interface
\* on a shared link, the only addresses mipd can have in its ARP cache.
NextHopIsNeighbour ==
  \A h \in Host : \A d \in Dest \ Local[h] :
    IsPresent(table[h][d]) => \E g \in Neighbours[h] : RoutesVia(h, g, d)

\* A table never promises a path shorter than the shortest one: neither loss,
\* delay, reordering between links, restarts nor the wrap of the cost can make
\* a destination look nearer than it is, as long as no package is cut.
NeverTooShort ==
  PackagesFit => \A h \in Host : \A d \in Dest :
    IsPresent(table[h][d]) => table[h][d].cost >= Dist[h][d]

\* Split horizon (README of routerd, line 38): no package on its way to a router,
\* as it was sent, advertises a route that leads back through the router itself.
SplitHorizon ==
  \A h \in Host : \A i \in 1 .. Len(inbox[h]) : \A d \in Dest :
    LET ad == inbox[h][i].adverts[d] IN
    ad.next_hop \in Local[h] => ad.cost = Infinity

\* There is one path between two hosts, of the length Dist says, and on every
\* interface mipd knows the one neighbour.
OnePath ==
  /\ FlakyArp = {}
  /\ \A h \in Host : \A g \in Neighbours[h] :
       /\ InitArp[Iface[h][g]] = <<Iface[g][h]>>
       /\ \A d \in Dest \ Local[h] :
            d \in Local[g] \/ Toward[g][d] # h
              => Toward[h][d] = g /\ Dist[h][d] = Dist[g][d] + 1

\* There, every route follows the path and has its length: no routing loop forms
\* and no cost counts to infinity, whatever is lost, delayed or restarted, as long
\* as no package is cut.
FollowsThePath ==
  OnePath /\ PackagesFit =>
    \A h \in Host : \A d \in Dest \ Local[h] :
      IsPresent(table[h][d]) =>
        /\ RoutesVia(h, Toward[h][d], d)
        /\ table[h][d].cost = Dist[h][d]

-----------------------------------------------------------------------------
(* Liveness *)

\* Every daemon is scheduled.  HandleRouting is strongly fair because one return
\* of epoll_wait reports both sockets: a stream of forwarding requests cannot keep
\* a readable route socket waiting.  Tick is, because time passes whatever happens.
\* Nobody has to start a routerd that is down.
Fairness ==
  /\ \A h \in Host : /\ WF_vars(LoopTop(h))
                     /\ SF_vars(HandleRouting(h))
                     /\ WF_vars(PollTimesOut(h))
                     /\ WF_vars(MipdBroadcast(h))
  /\ SF_vars(Tick)

FairSpec == Spec /\ Fairness

\* The owner of d.
OwnerOf(d) == CHOOSE h \in Host : d \in Local[h]

Converged ==
  \A h \in Host : \A d \in Dest :
    IsPresent(table[h][d]) /\ table[h][d].cost = Dist[h][d]

\* From the start of all daemons the tables reach the shortest routes, and keep
\* them as long as no daemon stops.
Converges == <>[](Converged \/ stops > 0)

\* A destination whose routerd has stopped for good is forgotten by all others.
ForgetsTheDead ==
  \A d \in Dest :
    <>[](pc[OwnerOf(d)] = "down")
      => <>[](\A h \in Host \ {OwnerOf(d)} : ~IsPresent(table[h][d]))

\* Once a router has a route to a neighbour it keeps one while nothing stops and
\* nothing is lost.
RouteToNeighbourKept ==
  [][\A h \in Host : \A g \in Neighbours[h] : \A d \in Local[g] \cap Dest :
       IsPresent(table[h][d]) => IsPresent(table'[h][d]) \/ stops' > 0]_vars
=============================================================================
