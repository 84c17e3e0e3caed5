-------------------------------- MODULE Mipd --------------------------------
(***************************************************************************)
(* One host: the event loop of mipd (mipd/src/lib/server.c), the three     *)
(* local sockets it serves, and the processes at their other ends: routerd *)
(* on the route and the forward socket, applications on the app socket.    *)
(*                                                                         *)
(* mipd is one thread that blocks in epoll_wait; each of its actions is    *)
(* one branch of the dispatch in MIPDServer_run, or the loop top.  It may  *)
(* take the ready descriptors in any order.  A write to a local socket     *)
(* blocks the whole daemon while the socket is full, and kills it with     *)
(* SIGPIPE, which nothing handles, when the other end is gone; an end that *)
(* goes while the write is blocked may also make it return an error.       *)
(*                                                                         *)
(* A transport package on its way to another host is parked in the forward *)
(* queue while routerd looks its next hop up; routerd's answer, one byte,  *)
(* says nothing of the package it is for, and goes to the oldest one.      *)
(***************************************************************************)
EXTENDS Integers, Sequences

CONSTANTS
  Own,         \* the MIP addresses of this host's interfaces
  Neighbour,   \* the MIP addresses on its links
  Remote,      \* other MIP addresses
  Broadcast,   \* 255, routerd's answer when it knows no next hop
  TTL,         \* the TTL of a new package (mip_header.c; 15)
  Backlog,     \* connections that may wait for an accept (listen, app_connection.c:90; 5)
  SockCap,     \* bound: items a local socket holds in each direction
  MaxPackages, \* bound: transport packages that reach mipd
  MaxTables,   \* bound: route tables that reach mipd from the links
  MaxRouters,  \* bound: how often routerd starts
  MaxApps      \* bound: how many applications connect

ASSUME MipdAssumption ==
  /\ Own \cap Neighbour = {}
  /\ Own \cap Remote = {}
  /\ Neighbour \cap Remote = {}
  /\ Broadcast \notin Own \cup Neighbour \cup Remote
  /\ TTL \in Nat
  /\ {Backlog, SockCap} \subseteq Nat \ {0}
  /\ {MaxPackages, MaxTables, MaxRouters, MaxApps} \subseteq Nat

VARIABLES
  mipd,    \* the socket it is about to open as it starts; "polling", "blocked" in a
           \* write, or how it ended
  work,    \* the write mipd is blocked in: <<>>, or the socket it is on and
           \* the package it is about (none for a route table)
  cache,   \* cache[n]: n's entry in the ARP cache
  queue,   \* server->forward_queue, the oldest package first
  forward, \* the connection forward_socket->connected_socket_fd refers to
  route,   \* the connection of route_socket
  app,     \* the connection of app_socket
  backlog, \* backlog[s]: the connections mipd has not accepted on a socket, the oldest
           \* first, each of a "live" or a "dead" process
  router,  \* "down", "connecting" to its second socket, or "up"
  lookup,  \* the request routerd has read and not answered: <<>> or <<dst>>
  writing, \* whether routerd is in the write of its table to mipd
  sent,    \* the packages put on a link: [pkg, hop, asked], asked being the
           \* destination routerd gave hop as the next hop for
  stale,   \* history: packages in the queue when forward was accepted
  used     \* what has been used of the four bounds

links == <<cache, sent>>
peers == <<backlog, router, lookup, writing>>
vars == <<mipd, work, queue, forward, route, app, stale, used, links, peers>>

Addr    == Own \cup Neighbour \cup Remote
Sockets == {"app", "route", "forward"}
Package == [id : 1 .. MaxPackages, dst : Addr, ttl : 0 .. TTL]
Message == [id : 1 .. MaxPackages, dst : Addr, short : BOOLEAN]
Answer  == [hop : Addr \cup {Broadcast}, asked : Addr]

\* A connected stream socket: in is what mipd can read, out what its peer can.
\* reset: the peer left without reading everything, so that mipd's read fails
\* (ECONNRESET) where it would return 0.
Closed == [open |-> FALSE, alive |-> FALSE, reset |-> FALSE, in |-> <<>>, out |-> <<>>]
Accepted(alive) == [Closed EXCEPT !.open = TRUE, !.alive = alive]

Conn(In, Out) == [open : BOOLEAN, alive : BOOLEAN, reset : BOOLEAN,
                  in : Seq(In), out : Seq(Out)]

TypeOK ==
  /\ mipd \in Sockets \cup {"polling", "blocked", "exited", "killed", "stopped"}
  /\ work \in Seq([on : Sockets, pkgs : Seq(Package)])
  /\ cache \in [Neighbour -> {"absent", "fresh", "expired"}]
  /\ queue \in Seq(Package)
  /\ forward \in Conn(Answer, Addr)
  /\ route \in Conn({"table"}, {"table"})
  /\ app \in Conn(Message, Package)
  /\ backlog \in [Sockets -> Seq({"live", "dead"})]
  /\ router \in {"down", "connecting", "up"}
  /\ lookup \in Seq(Addr)
  /\ writing \in BOOLEAN
  /\ sent \subseteq [pkg : Package, hop : Addr, asked : Addr]
  /\ stale \in Nat
  /\ used \in [packages : 0 .. MaxPackages, tables : 0 .. MaxTables,
               routers : 0 .. MaxRouters, apps : 0 .. MaxApps]

Init ==
  /\ mipd = "app"
  /\ work = <<>>
  /\ cache = [n \in Neighbour |-> "absent"]
  /\ queue = <<>>
  /\ forward = Closed
  /\ route = Closed
  /\ app = Closed
  /\ backlog = [s \in Sockets |-> <<>>]
  /\ router = "down"
  /\ lookup = <<>>
  /\ writing = FALSE
  /\ sent = {}
  /\ stale = 0
  /\ used = [packages |-> 0, tables |-> 0, routers |-> 0, apps |-> 0]

Alive == mipd \in Sockets \cup {"polling", "blocked"}

\* The next package of an application or a link, and its number.
NewId == used.packages + 1
NewPackage ==
  /\ used.packages < MaxPackages
  /\ used' = [used EXCEPT !.packages = @ + 1]

-----------------------------------------------------------------------------
(* The start of mipd *)

\* The sockets are opened in this order, and the loop is the last.
Stages == <<"app", "route", "forward", "polling">>

LocalSocket_create ==
  \E k \in 1 .. 3 :
    /\ mipd = Stages[k]
    /\ mipd' = Stages[k + 1]
    /\ UNCHANGED <<work, queue, forward, route, app, stale, used, links, peers>>

\* Socket s is there to connect to.
Listens(s) == Alive /\ \A k \in 1 .. 3 : mipd = Stages[k] => s \in {Stages[j] : j \in 1 .. k - 1}

-----------------------------------------------------------------------------
(* What mipd does in its handlers *)

\* check(rc != -1, ...) in MIPDServer_run: the daemon leaves the loop.
Exits == mipd' = "exited"

Room(conn) == Len(conn.out) < SockCap
Put(conn, x) == [conn EXCEPT !.out = Append(@, x)]
Got(conn) == [conn EXCEPT !.in = Tail(@)]

\* A write to the open connection conn of socket s that cannot complete.
CannotWrite(conn, s, pkgs) ==
  \/ /\ ~conn.alive
     /\ mipd' = "killed"
     /\ UNCHANGED work
  \/ /\ conn.alive /\ ~Room(conn)
     /\ mipd' = "blocked"
     /\ work' = <<[on |-> s, pkgs |-> pkgs]>>

\* Faulty variants of the two operations below: a queue that loses what does not
\* fit, one that hands out the newest package first, and a pop that only looks.
PushBounded(p) == queue' = IF queue = <<>> THEN <<p>> ELSE queue
PushFirst(p) == queue' = <<p>> \o queue
PeekOnly == queue

ForwardQueue_push(p) == queue' = Append(queue, p)

\* What a pop leaves.
ForwardQueue_pop == IF queue = <<>> THEN queue ELSE Tail(queue)

request_forwarding(p) ==
  \/ /\ ~forward.open
     /\ UNCHANGED <<mipd, work, queue, forward>>
  \/ /\ forward.open /\ forward.alive /\ Room(forward)
     /\ forward' = Put(forward, p.dst)
     /\ ForwardQueue_push(p)
     /\ UNCHANGED <<mipd, work>>
  \/ /\ forward.open
     /\ CannotWrite(forward, "forward", <<p>>)
     /\ UNCHANGED <<queue, forward>>

handle_MIPPackage_for_application(p) ==
  \/ /\ ~app.open
     /\ UNCHANGED <<mipd, work, app>>
  \/ /\ app.open /\ app.alive /\ Room(app)
     /\ app' = Put(app, p)
     /\ UNCHANGED <<mipd, work>>
  \/ /\ app.open
     /\ CannotWrite(app, "app", <<p>>)
     /\ UNCHANGED app

\* query_mip_address_src_socket finds the address.
InCache(a) == a \in Neighbour /\ cache[a] # "absent"

\* A package for a neighbour in the cache needs no routing.
handle_domain_socket_request(p) ==
  /\ InCache(p.dst)
  /\ sent' = sent \cup {[pkg |-> p, hop |-> p.dst, asked |-> p.dst]}

-----------------------------------------------------------------------------
(* Events of mipd *)

Polling == mipd = "polling"

\* update_arp_cache at the top of the loop.
update_arp_cache ==
  /\ Polling
  /\ \E n \in Neighbour : cache[n] = "expired"
  /\ cache' = [n \in Neighbour |-> IF cache[n] = "expired" THEN "absent" ELSE cache[n]]
  /\ UNCHANGED <<mipd, work, queue, forward, route, app, sent, stale, used, peers>>

\* Faulty variant of the choice between an old connection and a new one.
KeepsOpen(old, new) == IF old.open THEN old ELSE new

\* A connection on a listening socket replaces the one before it.
Replaces(old, new) == new

handle_domain_socket_connection(s) ==
  /\ Polling
  /\ backlog[s] # <<>>
  /\ LET conn == Accepted(Head(backlog[s]) = "live") IN
     /\ app' = IF s = "app" THEN Replaces(app, conn) ELSE app
     /\ route' = IF s = "route" THEN Replaces(route, conn) ELSE route
     /\ forward' = IF s = "forward" THEN Replaces(forward, conn) ELSE forward
  /\ stale' = IF s = "forward" THEN Len(queue) ELSE stale
  /\ backlog' = [backlog EXCEPT ![s] = Tail(@)]
  /\ UNCHANGED <<mipd, work, queue, used, router, lookup, writing, links>>

\* mipd reads the end of a stream.
AtEnd(conn) == conn.open /\ ~conn.alive /\ conn.in = <<>>

RouteDisconnect ==
  /\ Polling
  /\ AtEnd(route)
  /\ IF route.reset THEN Exits /\ UNCHANGED route
     ELSE route' = Closed /\ UNCHANGED mipd
  /\ UNCHANGED <<work, queue, forward, app, stale, used, links, peers>>

\* The packages that wait for routerd's answers stay in the queue.
ForwardDisconnect ==
  /\ Polling
  /\ AtEnd(forward)
  /\ IF forward.reset THEN Exits /\ UNCHANGED forward
     ELSE forward' = Closed /\ UNCHANGED mipd
  /\ UNCHANGED <<work, queue, route, app, stale, used, links, peers>>

AppDisconnect ==
  /\ Polling
  /\ AtEnd(app)
  /\ app' = Closed
  /\ UNCHANGED <<mipd, work, queue, forward, route, stale, used, links, peers>>

\* A table of the local routerd goes out on every interface (RouteNet).
BroadcastTable ==
  /\ Polling
  /\ route.in # <<>>
  /\ route' = Got(route)
  /\ UNCHANGED <<mipd, work, queue, forward, app, stale, used, links, peers>>

\* routerd's answer to the oldest request.  255 drops the oldest package; with
\* any other answer it goes to that address, which the ARP cache must hold.
handle_forward_response ==
  /\ Polling
  /\ forward.in # <<>>
  /\ LET a == Head(forward.in) IN
     IF queue = <<>> \/ (a.hop # Broadcast /\ ~InCache(a.hop))
     THEN Exits /\ UNCHANGED sent
     ELSE /\ sent' = IF a.hop = Broadcast THEN sent
                     ELSE sent \cup {[pkg |-> Head(queue), hop |-> a.hop, asked |-> a.asked]}
          /\ UNCHANGED mipd
  /\ queue' = ForwardQueue_pop
  /\ forward' = Got(forward)
  /\ UNCHANGED <<work, route, app, cache, stale, used, peers>>

\* An ARP request or response of a neighbour.
ArpFrame(n) ==
  /\ Polling
  /\ cache[n] # "fresh"
  /\ cache' = [cache EXCEPT ![n] = "fresh"]
  /\ UNCHANGED <<mipd, work, queue, forward, route, app, sent, stale, used, peers>>

\* A neighbour's route table is written to routerd, if one is connected.
recv_route_table_broadcast ==
  /\ Polling
  /\ used.tables < MaxTables
  /\ route.open
  /\ \/ /\ route.alive /\ Room(route)
        /\ route' = Put(route, "table")
        /\ UNCHANGED <<mipd, work>>
     \/ /\ CannotWrite(route, "route", <<>>)
        /\ UNCHANGED route
  /\ used' = [used EXCEPT !.tables = @ + 1]
  /\ UNCHANGED <<queue, forward, app, stale, links, peers>>

\* Faulty variant of ForwardFrame: it counts the TTL down first.
ForwardUnchecked(p) == request_forwarding([p EXCEPT !.ttl = @ - 1])

\* A package for another host is dropped when its TTL is 0.
ForwardFrame(p) ==
  IF p.ttl = 0 THEN UNCHANGED <<mipd, work, queue, forward>>
  ELSE request_forwarding([p EXCEPT !.ttl = @ - 1])

\* A transport package from a link: for the application here, or to forward.
TransportFrame(dst, ttl) ==
  /\ Polling
  /\ NewPackage
  /\ LET p == [id |-> NewId, dst |-> dst, ttl |-> ttl] IN
     \/ /\ dst \in Own
        /\ handle_MIPPackage_for_application(p)
        /\ UNCHANGED <<queue, forward>>
     \/ /\ dst \notin Own
        /\ ForwardFrame(p)
        /\ UNCHANGED app
  /\ UNCHANGED <<route, stale, links, peers>>

create_queueable_MIPDMessage_MIPPackage(m) == [id |-> m.id, dst |-> m.dst, ttl |-> TTL]

\* What the application has written: one recv takes all of it and only the first
\* message is looked at; one shorter than the MIPDMessage struct is dropped.
AppMessage ==
  /\ Polling
  /\ app.in # <<>>
  /\ app' = [app EXCEPT !.in = <<>>]
  /\ LET m == Head(app.in)
         p == create_queueable_MIPDMessage_MIPPackage(m)
     IN
     \/ /\ m.short
        /\ UNCHANGED <<mipd, work, queue, forward, sent>>
     \/ /\ ~m.short
        /\ handle_domain_socket_request(p)
        /\ UNCHANGED <<mipd, work, queue, forward>>
     \/ /\ ~m.short /\ ~InCache(m.dst)
        /\ request_forwarding(p)
        /\ UNCHANGED sent
  /\ UNCHANGED <<route, cache, stale, used, peers>>

\* The end of the write that mipd was blocked in.
WriteCompletes ==
  /\ mipd = "blocked"
  /\ LET w == Head(work) IN
     \/ /\ w.on = "forward" /\ forward.alive /\ Room(forward)
        /\ forward' = Put(forward, Head(w.pkgs).dst)
        /\ ForwardQueue_push(Head(w.pkgs))
        /\ UNCHANGED <<route, app>>
     \/ /\ w.on = "route" /\ route.alive /\ Room(route)
        /\ route' = Put(route, "table")
        /\ UNCHANGED <<queue, forward, app>>
     \/ /\ w.on = "app" /\ app.alive /\ Room(app)
        /\ app' = Put(app, Head(w.pkgs))
        /\ UNCHANGED <<queue, forward, route>>
  /\ mipd' = "polling"
  /\ work' = <<>>
  /\ UNCHANGED <<stale, used, links, peers>>

\* The other end goes while mipd is blocked.  The write returns with an error, ECONNRESET
\* if the other end had not read everything, which it takes off the socket: then a
\* package for routerd is given up (forwarding.c:126-128), and any other write ends the
\* loop.  A write that had found room again gets SIGPIPE.
WriteFails ==
  /\ mipd = "blocked"
  /\ LET on == Head(work).on IN
     /\ \/ on = "forward" /\ ~forward.alive
        \/ on = "route" /\ ~route.alive
        \/ on = "app" /\ ~app.alive
     /\ \/ /\ mipd' = "killed"
           /\ UNCHANGED <<work, forward>>
        \/ /\ on = "forward"
           /\ mipd' = "polling"
           /\ work' = <<>>
           /\ forward' = [forward EXCEPT !.reset = FALSE]
        \/ /\ on # "forward"
           /\ Exits
           /\ UNCHANGED <<work, forward>>
  /\ UNCHANGED <<queue, route, app, stale, used, links, peers>>

\* "stop" on stdin.
StdinStop ==
  /\ Polling
  /\ mipd' = "stopped"
  /\ UNCHANGED <<work, queue, forward, route, app, stale, used, links, peers>>

-----------------------------------------------------------------------------
(* routerd and the applications *)

\* The process at the other end of conn, accepted or not, ends.
Hangup(conn) ==
  IF conn.alive
  THEN [conn EXCEPT !.alive = FALSE, !.reset = conn.out # <<>>, !.out = <<>>]
  ELSE conn
Abandon(s) == [i \in DOMAIN backlog[s] |-> "dead"]

\* A process connects to socket s; while too many wait there, so does it.
HasRoom(s) == Len(backlog[s]) < Backlog
Connect(s) == backlog' = [backlog EXCEPT ![s] = Append(@, "live")]

\* routerd connects to one socket after the other.  Where there is none to connect to it
\* exits; before the first that changes nothing.
RouterStarts ==
  /\ Listens("route")
  /\ router = "down"
  /\ used.routers < MaxRouters
  /\ HasRoom("route")
  /\ router' = "connecting"
  /\ Connect("route")
  /\ used' = [used EXCEPT !.routers = @ + 1]
  /\ UNCHANGED <<mipd, work, queue, forward, route, app, stale, lookup, writing, links>>

RouterEnds ==
  /\ router' = "down"
  /\ lookup' = <<>>
  /\ writing' = FALSE
  /\ forward' = Hangup(forward)
  /\ route' = Hangup(route)
  /\ backlog' = [backlog EXCEPT !["route"] = Abandon("route"),
                                !["forward"] = Abandon("forward")]
  /\ UNCHANGED <<mipd, work, queue, app, stale, used, links>>

RouterServer_init ==
  /\ Alive
  /\ router = "connecting"
  /\ \/ /\ Listens("forward")
        /\ HasRoom("forward")
        /\ router' = "up"
        /\ Connect("forward")
        /\ UNCHANGED <<mipd, work, queue, forward, route, app, stale, used, lookup, writing,
                       links>>
     \/ /\ ~Listens("forward")
        /\ RouterEnds

RouterDies ==
  /\ Alive
  /\ router # "down"
  /\ RouterEnds

recv_forwarding_request ==
  /\ Alive
  /\ forward.alive
  /\ forward.out # <<>>
  /\ lookup = <<>>
  /\ ~writing
  /\ lookup' = <<Head(forward.out)>>
  /\ forward' = [forward EXCEPT !.out = Tail(@)]
  /\ UNCHANGED <<mipd, work, queue, route, app, stale, used, links, backlog, router, writing>>

\* What a routing table can answer (RouteNet: LocalRoutesKept, NextHopIsNeighbour).
\* It may change between any two requests.
NextHops(dst) == IF dst \in Own THEN {dst} ELSE Neighbour \cup {Broadcast}

send_forwarding_response ==
  /\ Alive
  /\ lookup # <<>>
  /\ Len(forward.in) < SockCap
  /\ \E hop \in NextHops(Head(lookup)) :
       forward' = [forward EXCEPT !.in = Append(@, [hop |-> hop, asked |-> Head(lookup)])]
  /\ lookup' = <<>>
  /\ UNCHANGED <<mipd, work, queue, route, app, stale, used, links, backlog, router, writing>>

\* routerd broadcasts its table: it blocks while mipd does not read.
RouterBroadcasts ==
  /\ Alive
  /\ router = "up"
  /\ route.alive
  /\ lookup = <<>>
  /\ ~writing
  /\ used.tables < MaxTables
  /\ used' = [used EXCEPT !.tables = @ + 1]
  /\ writing' = TRUE
  /\ UNCHANGED <<mipd, work, queue, forward, route, app, stale, links, backlog, router, lookup>>

RouterTableWritten ==
  /\ Alive
  /\ writing
  /\ Len(route.in) < SockCap
  /\ route' = [route EXCEPT !.in = Append(@, "table")]
  /\ writing' = FALSE
  /\ UNCHANGED <<mipd, work, queue, forward, app, stale, used, links, backlog, router, lookup>>

handle_route_request ==
  /\ Alive
  /\ router = "up"
  /\ route.alive
  /\ route.out # <<>>
  /\ lookup = <<>>
  /\ ~writing
  /\ route' = [route EXCEPT !.out = Tail(@)]
  /\ UNCHANGED <<mipd, work, queue, forward, app, stale, used, links, peers>>

AppConnects ==
  /\ Listens("app")
  /\ used.apps < MaxApps
  /\ HasRoom("app")
  /\ Connect("app")
  /\ used' = [used EXCEPT !.apps = @ + 1]
  /\ UNCHANGED <<mipd, work, queue, forward, route, app, stale, router, lookup, writing, links>>

\* The connected application ends, or one that mipd has not accepted yet.
AppDies ==
  /\ Alive
  /\ \/ /\ app.alive
        /\ app' = Hangup(app)
        /\ UNCHANGED backlog
     \/ /\ \E i \in DOMAIN backlog["app"] :
             /\ backlog["app"][i] = "live"
             /\ backlog' = [backlog EXCEPT !["app"][i] = "dead"]
        /\ UNCHANGED app
  /\ UNCHANGED <<mipd, work, queue, forward, route, stale, used, router, lookup, writing, links>>

AppSends(dst, short) ==
  /\ Alive
  /\ app.alive
  /\ Len(app.in) < SockCap
  /\ NewPackage
  /\ app' = [app EXCEPT !.in = Append(@, [id |-> NewId, dst |-> dst, short |-> short])]
  /\ UNCHANGED <<mipd, work, queue, forward, route, stale, links, peers>>

AppReads ==
  /\ Alive
  /\ app.alive
  /\ app.out # <<>>
  /\ app' = [app EXCEPT !.out = Tail(@)]
  /\ UNCHANGED <<mipd, work, queue, forward, route, stale, used, links, peers>>

\* An entry of the ARP cache grows older than twice CACHE_UPDATE_FREQ_MILLI.
ArpEntryExpires(n) ==
  /\ Alive
  /\ cache[n] = "fresh"
  /\ cache' = [cache EXCEPT ![n] = "expired"]
  /\ UNCHANGED <<mipd, work, queue, forward, route, app, sent, stale, used, peers>>

-----------------------------------------------------------------------------
MipdEvent ==
  \/ LocalSocket_create
  \/ update_arp_cache
  \/ \E s \in Sockets : handle_domain_socket_connection(s)
  \/ RouteDisconnect \/ ForwardDisconnect \/ AppDisconnect
  \/ BroadcastTable
  \/ handle_forward_response
  \/ \E n \in Neighbour : ArpFrame(n)
  \/ recv_route_table_broadcast
  \/ \E dst \in Addr, ttl \in 0 .. TTL : TransportFrame(dst, ttl)
  \/ AppMessage
  \/ WriteCompletes \/ WriteFails
  \/ StdinStop

PeerEvent ==
  \/ RouterStarts \/ RouterServer_init \/ RouterDies
  \/ recv_forwarding_request \/ send_forwarding_response
  \/ RouterBroadcasts \/ RouterTableWritten \/ handle_route_request
  \/ AppConnects \/ AppDies \/ AppReads
  \/ \E dst \in Addr, short \in BOOLEAN : AppSends(dst, short)
  \/ \E n \in Neighbour : ArpEntryExpires(n)

Next == MipdEvent \/ PeerEvent

Spec == Init /\ [][Next]_vars
=============================================================================
