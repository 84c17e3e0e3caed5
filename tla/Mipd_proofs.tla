----------------------------- MODULE Mipd_proofs -----------------------------
(***************************************************************************)
(* Proofs about one host's forwarding path, for every set of addresses,    *)
(* TTL, socket capacity and every number of packages, tables, routerds and *)
(* applications that MipdAssumption admits.                                *)
(***************************************************************************)
EXTENDS MipdProps, SequenceTheorems, TLAPS

-----------------------------------------------------------------------------
(* What the operations on a connection, and on a queue, keep *)

\* Reading and writing either end of a connection, accepting, closing and hanging it up
\* give connections.
LEMMA ConnTypes ==
  ASSUME NEW In, NEW Out, NEW c \in Conn(In, Out)
  PROVE  /\ Closed \in Conn(In, Out)
         /\ \A b \in BOOLEAN : Accepted(b) \in Conn(In, Out)
         /\ Hangup(c) \in Conn(In, Out)
         /\ \A x \in Out : Put(c, x) \in Conn(In, Out)
         /\ \A x \in In : [c EXCEPT !.in = Append(@, x)] \in Conn(In, Out)
         /\ [c EXCEPT !.in = <<>>] \in Conn(In, Out)
         /\ c.in # <<>> => Head(c.in) \in In /\ Got(c) \in Conn(In, Out)
         /\ c.out # <<>> => /\ Head(c.out) \in Out
                            /\ [c EXCEPT !.out = Tail(@)] \in Conn(In, Out)
<1>1. /\ c = [open |-> c.open, alive |-> c.alive, reset |-> c.reset, in |-> c.in, out |-> c.out]
      /\ c.open \in BOOLEAN /\ c.alive \in BOOLEAN /\ c.reset \in BOOLEAN
      /\ c.in \in Seq(In) /\ c.out \in Seq(Out)
  BY DEF Conn
<1>2. <<>> \in Seq(In) /\ <<>> \in Seq(Out)
  OBVIOUS
<1>3. Closed \in Conn(In, Out) /\ \A b \in BOOLEAN : Accepted(b) \in Conn(In, Out)
  BY <1>2 DEF Closed, Accepted, Conn
<1>4. Hangup(c) \in Conn(In, Out)
  BY <1>1, <1>2 DEF Hangup, Conn
<1>5. ASSUME NEW x \in Out PROVE Put(c, x) \in Conn(In, Out)
  <2>1. Append(c.out, x) \in Seq(Out)
    BY <1>1
  <2> QED
    BY <1>1, <2>1 DEF Put, Conn
<1>6. ASSUME NEW x \in In PROVE [c EXCEPT !.in = Append(@, x)] \in Conn(In, Out)
  <2>1. Append(c.in, x) \in Seq(In)
    BY <1>1
  <2> QED
    BY <1>1, <2>1 DEF Conn
<1>7. ASSUME c.in # <<>> PROVE Head(c.in) \in In /\ Got(c) \in Conn(In, Out)
  <2>1. Head(c.in) \in In /\ Tail(c.in) \in Seq(In)
    BY <1>1, <1>7
  <2> QED
    BY <1>1, <2>1 DEF Got, Conn
<1>8. ASSUME c.out # <<>>
      PROVE  Head(c.out) \in Out /\ [c EXCEPT !.out = Tail(@)] \in Conn(In, Out)
  <2>1. Head(c.out) \in Out /\ Tail(c.out) \in Seq(Out)
    BY <1>1, <1>8
  <2> QED
    BY <1>1, <2>1 DEF Conn
<1>9. [c EXCEPT !.in = <<>>] \in Conn(In, Out)
  BY <1>1, <1>2 DEF Conn
<1> QED
  BY <1>3, <1>4, <1>5, <1>6, <1>7, <1>8, <1>9

\* The first element of a sequence, and the others.
LEMMA HeadType ==
  ASSUME NEW S, NEW s \in Seq(S), s # <<>>
  PROVE  Head(s) \in S /\ Tail(s) \in Seq(S)
OBVIOUS

\* Where the first and the last element of a sequence are, and what is left of one that
\* has no other.
LEMMA EndsOfSequence ==
  ASSUME NEW S, NEW s \in Seq(S), s # <<>>
  PROVE  /\ Len(s) \in Nat \ {0} /\ Head(s) = s[1]
         /\ Len(s) = 1 => Tail(s) = <<>>
         /\ Len(s) # 1 => Tail(s) # <<>> /\ Tail(s)[Len(Tail(s))] = s[Len(s)]
<1>1. Len(s) \in Nat \ {0} /\ Head(s) = s[1]
  BY EmptySeq
<1>2. /\ Tail(s) \in Seq(S) /\ Len(Tail(s)) = Len(s) - 1
      /\ \A i \in 1 .. Len(Tail(s)) : Tail(s)[i] = s[i + 1]
  BY HeadTailProperties
<1>3. ASSUME Len(s) = 1 PROVE Tail(s) = <<>>
  <2> DEFINE t == Tail(s)
  <2>1. t \in Seq(S) /\ Len(t) = 0
    BY <1>2, <1>3
  <2> HIDE DEF t
  <2>2. t = <<>>
    BY <2>1, EmptySeq
  <2> QED
    BY <2>2 DEF t
<1>4. ASSUME Len(s) # 1 PROVE Tail(s) # <<>> /\ Tail(s)[Len(Tail(s))] = s[Len(s)]
  <2>1. Len(Tail(s)) \in 1 .. Len(Tail(s)) /\ Len(Tail(s)) + 1 = Len(s) /\ Len(Tail(s)) # 0
    BY <1>1, <1>2, <1>4
  <2> QED
    BY <1>2, <2>1, EmptySeq
<1> QED
  BY <1>1, <1>3, <1>4

\* What is pushed and popped.
LEMMA QueueTypes ==
  ASSUME queue \in Seq(Package)
  PROVE  /\ ForwardQueue_pop \in Seq(Package)
         /\ \A p \in Package : ForwardQueue_push(p) => queue' \in Seq(Package)
<1>1. \A p \in Package : Append(queue, p) \in Seq(Package)
  OBVIOUS
<1>2. queue # <<>> => Tail(queue) \in Seq(Package)
  OBVIOUS
<1> QED
  BY <1>1, <1>2 DEF ForwardQueue_pop, ForwardQueue_push

-----------------------------------------------------------------------------
(* Type correctness *)

\* The bounds of MipdAssumption, one by one.
LEMMA BoundsAreNat ==
  MaxPackages \in Nat /\ MaxTables \in Nat /\ MaxRouters \in Nat /\ MaxApps \in Nat
BY MipdAssumption

\* The write mipd is blocked in: there is one, and but for a route table it is about a
\* package.
WorkInv ==
  mipd = "blocked" => work # <<>> /\ (Head(work).on # "route" => Head(work).pkgs # <<>>)

TypeInv == TypeOK /\ WorkInv

\* A write that cannot complete ends mipd or leaves it blocked with its package.
LEMMA CannotWriteType ==
  ASSUME TypeInv, mipd # "blocked",
         NEW s \in Sockets, NEW conn, NEW pkgs \in Seq(Package), s # "route" => pkgs # <<>>,
         CannotWrite(conn, s, pkgs)
  PROVE  /\ mipd' \in {"blocked", "killed"}
         /\ work' \in Seq([on : Sockets, pkgs : Seq(Package)])
         /\ WorkInv'
<1> DEFINE w == [on |-> s, pkgs |-> pkgs]
<1>1. w \in [on : Sockets, pkgs : Seq(Package)] /\ w.on = s /\ w.pkgs = pkgs
  OBVIOUS
<1>2. CASE mipd' = "killed" /\ UNCHANGED work
  BY <1>2 DEF TypeInv, TypeOK, WorkInv
<1>3. CASE mipd' = "blocked" /\ work' = <<w>>
  <2> HIDE DEF w
  <2>1. <<w>> \in Seq([on : Sockets, pkgs : Seq(Package)]) /\ <<w>> # <<>> /\ Head(<<w>>) = w
    BY <1>1
  <2> QED
    BY <1>1, <1>3, <2>1 DEF WorkInv
<1> QED
  BY <1>2, <1>3 DEF CannotWrite

\* request_forwarding pushes its package, or blocks or ends mipd, or does nothing.
LEMMA RequestType ==
  ASSUME TypeInv, mipd = "polling", NEW p \in Package, request_forwarding(p)
  PROVE  /\ mipd' \in {"polling", "blocked", "killed"}
         /\ work' \in Seq([on : Sockets, pkgs : Seq(Package)])
         /\ WorkInv'
         /\ queue' \in Seq(Package)
         /\ forward' \in Conn(Answer, Addr)
<1>1. forward \in Conn(Answer, Addr) /\ queue \in Seq(Package) /\ p.dst \in Addr
  BY DEF TypeInv, TypeOK, Package
<1>2. CASE UNCHANGED <<mipd, work, queue, forward>>
  BY <1>1, <1>2 DEF TypeInv, TypeOK, WorkInv
<1>3. CASE forward' = Put(forward, p.dst) /\ ForwardQueue_push(p) /\ UNCHANGED <<mipd, work>>
  <2>1. queue' \in Seq(Package)
    BY <1>1, <1>3, QueueTypes
  <2>2. forward' \in Conn(Answer, Addr)
    BY <1>1, <1>3, ConnTypes
  <2> QED
    BY <1>3, <2>1, <2>2 DEF TypeInv, TypeOK, WorkInv
<1>4. CASE CannotWrite(forward, "forward", <<p>>) /\ UNCHANGED <<queue, forward>>
  <2>1. <<p>> \in Seq(Package) /\ <<p>> # <<>> /\ "forward" \in Sockets
    BY DEF Sockets
  <2> QED
    BY <1>1, <1>4, <2>1, CannotWriteType
<1> QED
  BY <1>2, <1>3, <1>4, Zenon DEF request_forwarding

\* The counters of what has been used, and that each may be counted up to its bound.
Counters == [packages : 0 .. MaxPackages, tables : 0 .. MaxTables,
             routers : 0 .. MaxRouters, apps : 0 .. MaxApps]

\* A counter below its bound may be counted up.
LEMMA CounterTypes ==
  ASSUME used \in Counters
  PROVE  /\ used.packages < MaxPackages => [used EXCEPT !.packages = @ + 1] \in Counters
         /\ used.tables < MaxTables => [used EXCEPT !.tables = @ + 1] \in Counters
         /\ used.routers < MaxRouters => [used EXCEPT !.routers = @ + 1] \in Counters
         /\ used.apps < MaxApps => [used EXCEPT !.apps = @ + 1] \in Counters
<1>1. /\ used = [packages |-> used.packages, tables |-> used.tables,
                 routers |-> used.routers, apps |-> used.apps]
      /\ used.packages \in 0 .. MaxPackages /\ used.tables \in 0 .. MaxTables
      /\ used.routers \in 0 .. MaxRouters /\ used.apps \in 0 .. MaxApps
  BY DEF Counters
<1>2. ASSUME NEW n, NEW m \in Nat, n \in 0 .. m, n < m PROVE n + 1 \in 0 .. m
  BY <1>2
<1>3. used.packages < MaxPackages => used.packages + 1 \in 0 .. MaxPackages
  BY <1>1, <1>2, BoundsAreNat
<1>4. used.tables < MaxTables => used.tables + 1 \in 0 .. MaxTables
  BY <1>1, <1>2, BoundsAreNat
<1>5. used.routers < MaxRouters => used.routers + 1 \in 0 .. MaxRouters
  BY <1>1, <1>2, BoundsAreNat
<1>6. used.apps < MaxApps => used.apps + 1 \in 0 .. MaxApps
  BY <1>1, <1>2, BoundsAreNat
<1> QED
  BY <1>1, <1>3, <1>4, <1>5, <1>6 DEF Counters

\* Nothing has happened yet at the start.
LEMMA TypeInit == Init => TypeInv
<1> SUFFICES ASSUME Init PROVE TypeInv
  OBVIOUS
<1>1. /\ forward \in Conn(Answer, Addr)
      /\ route \in Conn({"table"}, {"table"})
      /\ app \in Conn(Message, Package)
  BY DEF Init, Closed, Conn
<1>2. used \in [packages : 0 .. MaxPackages, tables : 0 .. MaxTables,
                routers : 0 .. MaxRouters, apps : 0 .. MaxApps]
  BY BoundsAreNat DEF Init
<1>3. /\ work \in Seq([on : Sockets, pkgs : Seq(Package)])
      /\ queue \in Seq(Package) /\ lookup \in Seq(Addr)
  BY DEF Init
<1>4. /\ mipd \in Sockets /\ mipd # "blocked"
      /\ cache \in [Neighbour -> {"absent", "fresh", "expired"}]
      /\ backlog \in [Sockets -> Seq({"live", "dead"})]
  BY DEF Init, Sockets
<1>5. /\ router \in {"down", "connecting", "up"} /\ writing \in BOOLEAN /\ stale \in Nat
      /\ sent \subseteq [pkg : Package, hop : Addr, asked : Addr]
  BY DEF Init
<1> QED
  BY <1>1, <1>2, <1>3, <1>4, <1>5 DEF TypeInv, TypeOK, WorkInv

\* A package that has come in is a package, and its number a new one.
LEMMA NewPackageType ==
  ASSUME TypeInv, NewPackage
  PROVE  /\ NewId \in 1 .. MaxPackages
         /\ used' \in [packages : 0 .. MaxPackages, tables : 0 .. MaxTables,
                       routers : 0 .. MaxRouters, apps : 0 .. MaxApps]
<1>1. used.packages \in 0 .. MaxPackages /\ used.packages < MaxPackages /\ MaxPackages \in Nat
  BY BoundsAreNat DEF TypeInv, TypeOK, NewPackage
<1>2. used.packages + 1 \in 0 .. MaxPackages /\ used.packages + 1 \in 1 .. MaxPackages
  BY <1>1
<1> QED
  BY <1>2 DEF TypeInv, TypeOK, NewPackage, NewId

\* A write that blocks mipd is about a package, but for a route table.
LEMMA WorkTypes ==
  ASSUME TypeInv, mipd = "blocked"
  PROVE  LET w == Head(work) IN
         w.on # "route" => Head(w.pkgs) \in Package /\ Head(w.pkgs).dst \in Addr
<1> DEFINE w == Head(work)
<1>1. work # <<>> /\ (w.on # "route" => w.pkgs # <<>>)
  BY DEF TypeInv, WorkInv
<1>2. work \in Seq([on : Sockets, pkgs : Seq(Package)])
  BY DEF TypeInv, TypeOK
<1>3. w \in [on : Sockets, pkgs : Seq(Package)]
  BY <1>1, <1>2, HeadType
<1>4. w.pkgs \in Seq(Package)
  BY <1>3
<1> HIDE DEF w
<1>5. w.on # "route" => Head(w.pkgs) \in Package
  BY <1>1, <1>4
<1>6. \A p \in Package : p.dst \in Addr
  BY DEF Package
<1> QED
  BY <1>5, <1>6 DEF w

\* What is done to the connections that wait for an accept.
LEMMA BacklogTypes ==
  ASSUME TypeInv, NEW s \in Sockets
  PROVE  LET Lines == [Sockets -> Seq({"live", "dead"})] IN
         /\ backlog[s] \in Seq({"live", "dead"})
         /\ Append(backlog[s], "live") \in Seq({"live", "dead"})
         /\ Abandon(s) \in Seq({"live", "dead"})
         /\ Connect(s) => backlog' \in Lines
         /\ backlog[s] # <<>> =>
              /\ Head(backlog[s]) \in {"live", "dead"}
              /\ [backlog EXCEPT ![s] = Tail(@)] \in Lines
         /\ \A i \in DOMAIN backlog[s] : [backlog EXCEPT ![s][i] = "dead"] \in Lines
<1> DEFINE End == {"live", "dead"}
<1> HIDE DEF End
<1>1. backlog \in [Sockets -> Seq(End)] /\ {"live", "dead"} = End /\ "live" \in End /\ "dead" \in End
  BY DEF TypeInv, TypeOK, End
<1> DEFINE line == backlog[s]
<1>2. line \in Seq(End)
  BY <1>1
<1> HIDE DEF line
<1>3. Append(line, "live") \in Seq(End) /\ (line # <<>> => Head(line) \in End /\ Tail(line) \in Seq(End))
  BY <1>1, <1>2
<1>4. [i \in DOMAIN line |-> "dead"] \in Seq(End)
  BY <1>1, <1>2
<1>5. \A i \in DOMAIN line : [line EXCEPT ![i] = "dead"] \in Seq(End)
  BY <1>1, <1>2
<1> QED
  BY <1>1, <1>2, <1>3, <1>4, <1>5 DEF line, Abandon, Connect

\* Every step keeps the types, and a blocked mipd has something to write.
LEMMA TypeNext == TypeInv /\ [Next]_vars => TypeInv'
<1> SUFFICES ASSUME TypeInv, [Next]_vars PROVE TypeInv'
  OBVIOUS
<1> USE DEF links, peers
<1>c. /\ forward \in Conn(Answer, Addr)
      /\ route \in Conn({"table"}, {"table"})
      /\ app \in Conn(Message, Package)
      /\ queue \in Seq(Package)
  BY DEF TypeInv, TypeOK
<1>d. Hangup(app) \in Conn(Message, Package) /\ \A x \in Package : Put(app, x) \in Conn(Message, Package)
  BY <1>c, ConnTypes
<1>u. used \in Counters
  BY DEF TypeInv, TypeOK, Counters
<1>1. ASSUME LocalSocket_create PROVE TypeInv'
  <2>1. mipd' \in Sockets \cup {"polling"}
    BY <1>1 DEF LocalSocket_create, Stages, Sockets
  <2> QED
    BY <1>1, <2>1 DEF LocalSocket_create, TypeInv, TypeOK, WorkInv, Sockets
<1>2. ASSUME update_arp_cache PROVE TypeInv'
  BY <1>2 DEF update_arp_cache, TypeInv, TypeOK, WorkInv
<1>3. ASSUME NEW s \in Sockets, handle_domain_socket_connection(s) PROVE TypeInv'
  <2> DEFINE live == Head(backlog[s]) = "live"
  <2>1. /\ Accepted(live) \in Conn(Answer, Addr)
        /\ Accepted(live) \in Conn({"table"}, {"table"})
        /\ Accepted(live) \in Conn(Message, Package)
    BY <1>c, ConnTypes
  <2>2. /\ forward' \in Conn(Answer, Addr)
        /\ route' \in Conn({"table"}, {"table"})
        /\ app' \in Conn(Message, Package)
    BY <1>3, <1>c, <2>1 DEF handle_domain_socket_connection, Replaces
  <2>3. stale' \in Nat
    BY <1>3 DEF handle_domain_socket_connection, TypeInv, TypeOK
  <2>4. backlog' \in [Sockets -> Seq({"live", "dead"})]
    BY <1>3, BacklogTypes DEF handle_domain_socket_connection
  <2>5. UNCHANGED <<mipd, work, queue, used, router, lookup, writing, cache, sent>>
    BY <1>3 DEF handle_domain_socket_connection
  <2> QED
    BY <2>2, <2>3, <2>4, <2>5 DEF TypeInv, TypeOK, WorkInv
<1>4. ASSUME RouteDisconnect PROVE TypeInv'
  <2>1. route' \in Conn({"table"}, {"table"}) /\ mipd' \in {"polling", "exited"}
    BY <1>4, <1>c, ConnTypes DEF RouteDisconnect, Polling, Exits
  <2> QED
    BY <1>4, <2>1 DEF RouteDisconnect, TypeInv, TypeOK, WorkInv
<1>5. ASSUME ForwardDisconnect PROVE TypeInv'
  <2>1. forward' \in Conn(Answer, Addr) /\ mipd' \in {"polling", "exited"}
    BY <1>5, <1>c, ConnTypes DEF ForwardDisconnect, Polling, Exits
  <2> QED
    BY <1>5, <2>1 DEF ForwardDisconnect, TypeInv, TypeOK, WorkInv
<1>6. ASSUME AppDisconnect PROVE TypeInv'
  BY <1>6, <1>c, ConnTypes DEF AppDisconnect, TypeInv, TypeOK, WorkInv
<1>7. ASSUME BroadcastTable PROVE TypeInv'
  BY <1>7, <1>c, ConnTypes DEF BroadcastTable, TypeInv, TypeOK, WorkInv
<1>8. ASSUME handle_forward_response PROVE TypeInv'
  <2> DEFINE a == Head(forward.in)
  <2>1. a \in Answer /\ forward' \in Conn(Answer, Addr)
    BY <1>8, <1>c, ConnTypes DEF handle_forward_response
  <2>2. queue' \in Seq(Package)
    BY <1>8, <1>c, QueueTypes DEF handle_forward_response
  <2>3. sent' \subseteq [pkg : Package, hop : Addr, asked : Addr]
    <3>1. CASE sent' = sent
      BY <3>1 DEF TypeInv, TypeOK
    <3>2. CASE /\ queue # <<>> /\ a.hop # Broadcast
               /\ sent' = sent \cup {[pkg |-> Head(queue), hop |-> a.hop, asked |-> a.asked]}
      <4>1. Head(queue) \in Package
        BY <1>c, <3>2
      <4>2. a.hop \in Addr /\ a.asked \in Addr
        BY <2>1, <3>2 DEF Answer
      <4> HIDE DEF a
      <4> QED
        BY <3>2, <4>1, <4>2 DEF TypeInv, TypeOK
    <3> QED
      BY <1>8, <3>1, <3>2 DEF handle_forward_response
  <2>4. mipd' \in {"polling", "exited"}
    BY <1>8 DEF handle_forward_response, Exits, Polling
  <2> QED
    BY <1>8, <2>1, <2>2, <2>3, <2>4 DEF handle_forward_response, TypeInv, TypeOK, WorkInv
<1>9. ASSUME NEW n \in Neighbour, ArpFrame(n) \/ ArpEntryExpires(n) PROVE TypeInv'
  BY <1>9 DEF ArpFrame, ArpEntryExpires, TypeInv, TypeOK, WorkInv
<1>10. ASSUME recv_route_table_broadcast PROVE TypeInv'
  <2>1. used' \in Counters
    BY <1>10, <1>u, CounterTypes DEF recv_route_table_broadcast
  <2>2. /\ mipd' \in {"polling", "blocked", "killed"}
        /\ work' \in Seq([on : Sockets, pkgs : Seq(Package)])
        /\ WorkInv'
        /\ route' \in Conn({"table"}, {"table"})
    <3>1. CASE route' = Put(route, "table") /\ UNCHANGED <<mipd, work>>
      BY <1>10, <1>c, <3>1, ConnTypes
         DEF recv_route_table_broadcast, Polling, TypeInv, TypeOK, WorkInv
    <3>2. CASE CannotWrite(route, "route", <<>>) /\ UNCHANGED route
      <4>1. <<>> \in Seq(Package) /\ "route" \in Sockets /\ mipd # "blocked"
        BY <1>10 DEF Sockets, recv_route_table_broadcast, Polling
      <4> QED
        BY <1>c, <3>2, <4>1, CannotWriteType
    <3> QED
      BY <1>10, <3>1, <3>2 DEF recv_route_table_broadcast
  <2> QED
    BY <1>10, <2>1, <2>2 DEF recv_route_table_broadcast, TypeInv, TypeOK, Sockets, Counters
<1>11. ASSUME NEW dst \in Addr, NEW ttl \in 0 .. TTL, TransportFrame(dst, ttl) PROVE TypeInv'
  <2> DEFINE p == [id |-> NewId, dst |-> dst, ttl |-> ttl]
  <2>1. p \in Package /\ used' \in [packages : 0 .. MaxPackages, tables : 0 .. MaxTables,
                                    routers : 0 .. MaxRouters, apps : 0 .. MaxApps]
    BY <1>11, NewPackageType DEF TransportFrame, Package
  <2>p. mipd = "polling"
    BY <1>11 DEF TransportFrame, Polling
  <2>2. /\ mipd' \in {"polling", "blocked", "killed"}
        /\ work' \in Seq([on : Sockets, pkgs : Seq(Package)])
        /\ WorkInv'
        /\ queue' \in Seq(Package)
        /\ forward' \in Conn(Answer, Addr)
        /\ app' \in Conn(Message, Package)
    <3>1. CASE handle_MIPPackage_for_application(p) /\ UNCHANGED <<queue, forward>>
      <4> HIDE DEF p
      <4>1. CASE UNCHANGED <<mipd, work>> /\ (UNCHANGED app \/ app' = Put(app, p))
        <5>1. app' \in Conn(Message, Package)
          BY <1>c, <1>d, <2>1, <4>1
        <5> QED
          BY <1>c, <2>p, <3>1, <4>1, <5>1 DEF TypeInv, TypeOK, WorkInv
      <4>2. CASE CannotWrite(app, "app", <<p>>) /\ UNCHANGED app
        <5>1. <<p>> \in Seq(Package) /\ <<p>> # <<>> /\ "app" \in Sockets
          BY <2>1 DEF Sockets
        <5> QED
          BY <1>c, <2>p, <3>1, <4>2, <5>1, CannotWriteType
      <4> QED
        BY <3>1, <4>1, <4>2 DEF handle_MIPPackage_for_application
    <3>2. CASE ForwardFrame(p) /\ UNCHANGED app
      <4>1. CASE p.ttl = 0
        BY <1>c, <2>p, <3>2, <4>1 DEF ForwardFrame, TypeInv, TypeOK, WorkInv
      <4>2. CASE p.ttl # 0
        <5>1. [p EXCEPT !.ttl = @ - 1] \in Package
          BY <2>1, <4>2, MipdAssumption DEF Package
        <5>2. request_forwarding([p EXCEPT !.ttl = @ - 1])
          BY <3>2, <4>2 DEF ForwardFrame
        <5> HIDE DEF p
        <5> QED
          BY <1>c, <2>p, <3>2, <5>1, <5>2, RequestType
      <4> QED
        BY <4>1, <4>2
    <3> QED
      BY <1>11, <3>1, <3>2 DEF TransportFrame
  <2> QED
    BY <1>11, <2>1, <2>2 DEF TransportFrame, TypeInv, TypeOK, Sockets
<1>12. ASSUME AppMessage PROVE TypeInv'
  <2> DEFINE m == Head(app.in)
             p == create_queueable_MIPDMessage_MIPPackage(m)
  <2>p. mipd = "polling"
    BY <1>12 DEF AppMessage, Polling
  <2>1. m \in Message /\ app' \in Conn(Message, Package)
    BY <1>12, <1>c, ConnTypes DEF AppMessage
  <2>2. p \in Package
    BY <2>1, MipdAssumption DEF create_queueable_MIPDMessage_MIPPackage, Message, Package
  <2>3. /\ mipd' \in {"polling", "blocked", "killed"}
        /\ work' \in Seq([on : Sockets, pkgs : Seq(Package)])
        /\ WorkInv'
        /\ queue' \in Seq(Package)
        /\ forward' \in Conn(Answer, Addr)
        /\ sent' \subseteq [pkg : Package, hop : Addr, asked : Addr]
    <3> HIDE DEF p
    <3>1. CASE UNCHANGED <<mipd, work, queue, forward, sent>>
      BY <1>c, <2>p, <3>1 DEF TypeInv, TypeOK, WorkInv
    <3>2. CASE handle_domain_socket_request(p) /\ UNCHANGED <<mipd, work, queue, forward>>
      <4>1. p.dst \in Addr
        BY <2>2 DEF Package
      <4> QED
        BY <1>c, <2>2, <2>p, <3>2, <4>1
           DEF handle_domain_socket_request, TypeInv, TypeOK, WorkInv
    <3>3. CASE request_forwarding(p) /\ UNCHANGED sent
      BY <2>2, <2>p, <3>3, RequestType DEF TypeInv, TypeOK
    <3> QED
      BY <1>12, <3>1, <3>2, <3>3 DEF AppMessage, p
  <2> QED
    BY <1>12, <2>1, <2>3 DEF AppMessage, TypeInv, TypeOK, Sockets
<1>13. ASSUME WriteCompletes PROVE TypeInv'
  <2> DEFINE w == Head(work)
  <2>2. w.on # "route" => Head(w.pkgs) \in Package /\ Head(w.pkgs).dst \in Addr
    BY <1>13, WorkTypes DEF WriteCompletes
  <2> HIDE DEF w
  <2>3. /\ queue' \in Seq(Package)
        /\ forward' \in Conn(Answer, Addr)
        /\ route' \in Conn({"table"}, {"table"})
        /\ app' \in Conn(Message, Package)
    <3>1. CASE /\ w.on = "forward" /\ forward' = Put(forward, Head(w.pkgs).dst)
               /\ ForwardQueue_push(Head(w.pkgs)) /\ UNCHANGED <<route, app>>
      <4>1. queue' \in Seq(Package)
        BY <1>c, <2>2, <3>1, QueueTypes
      <4>2. forward' \in Conn(Answer, Addr)
        BY <1>c, <2>2, <3>1, ConnTypes
      <4> QED
        BY <1>c, <3>1, <4>1, <4>2
    <3>2. CASE route' = Put(route, "table") /\ UNCHANGED <<queue, forward, app>>
      BY <1>c, <3>2, ConnTypes
    <3>3. CASE /\ w.on = "app" /\ app' = Put(app, Head(w.pkgs))
               /\ UNCHANGED <<queue, forward, route>>
      BY <1>c, <2>2, <3>3, ConnTypes
    <3> QED
      BY <1>13, <3>1, <3>2, <3>3 DEF WriteCompletes, w
  <2>4. /\ mipd' = "polling" /\ work' = <<>>
        /\ UNCHANGED <<stale, used, cache, sent, backlog, router, lookup, writing>>
    BY <1>13 DEF WriteCompletes
  <2>5. <<>> \in Seq([on : Sockets, pkgs : Seq(Package)])
    OBVIOUS
  <2> QED
    BY <2>3, <2>4, <2>5 DEF TypeInv, TypeOK, WorkInv
<1>14. ASSUME WriteFails \/ StdinStop PROVE TypeInv'
  <2>1. forward' \in Conn(Answer, Addr)
    BY <1>14, <1>c DEF WriteFails, StdinStop, Conn
  <2>2. work' \in Seq([on : Sockets, pkgs : Seq(Package)])
    <3>1. work' \in {work, <<>>}
      BY <1>14 DEF WriteFails, StdinStop
    <3> DEFINE W == [on : Sockets, pkgs : Seq(Package)]
    <3>2. work \in Seq(W)
      BY DEF TypeInv, TypeOK
    <3> HIDE DEF W
    <3>3. <<>> \in Seq(W)
      OBVIOUS
    <3>4. work' \in Seq(W)
      BY <3>1, <3>2, <3>3
    <3> QED
      BY <3>4 DEF W
  <2>3. mipd' \in {"polling", "exited", "killed", "stopped"}
    BY <1>14 DEF WriteFails, StdinStop, Exits
  <2>4. /\ UNCHANGED <<queue, route, app, stale, used>>
        /\ UNCHANGED <<cache, sent, backlog, router, lookup, writing>>
    BY <1>14 DEF WriteFails, StdinStop
  <2> QED
    BY <2>1, <2>2, <2>3, <2>4 DEF TypeInv, TypeOK, WorkInv
<1>15. ASSUME RouterStarts \/ AppConnects PROVE TypeInv'
  <2>1. used' \in Counters
    BY <1>15, <1>u, CounterTypes DEF RouterStarts, AppConnects
  <2>2. backlog' \in [Sockets -> Seq({"live", "dead"})]
    BY <1>15, BacklogTypes DEF RouterStarts, AppConnects, Sockets
  <2>3. router' \in {"down", "connecting", "up"}
    BY <1>15 DEF RouterStarts, AppConnects, TypeInv, TypeOK
  <2>4. /\ UNCHANGED <<mipd, work, queue, forward, route>>
        /\ UNCHANGED <<app, stale, lookup, writing, cache, sent>>
    BY <1>15 DEF RouterStarts, AppConnects
  <2> QED
    BY <2>1, <2>2, <2>3, <2>4 DEF TypeInv, TypeOK, WorkInv, Counters
<1>16. ASSUME RouterEnds PROVE TypeInv'
  <2>1. /\ forward' \in Conn(Answer, Addr)
        /\ route' \in Conn({"table"}, {"table"})
    BY <1>16, <1>c, ConnTypes DEF RouterEnds
  <2>2. backlog' \in [Sockets -> Seq({"live", "dead"})]
    BY <1>16, BacklogTypes DEF RouterEnds, TypeInv, TypeOK, Sockets
  <2>3. lookup' \in Seq(Addr) /\ router' \in {"down", "connecting", "up"} /\ writing' \in BOOLEAN
    <3>1. lookup' = <<>> /\ router' = "down" /\ writing' = FALSE
      BY <1>16 DEF RouterEnds
    <3>2. <<>> \in Seq(Addr)
      OBVIOUS
    <3> QED
      BY <3>1, <3>2
  <2>4. UNCHANGED <<mipd, work, queue, app, stale, used, cache, sent>>
    BY <1>16 DEF RouterEnds
  <2> QED
    BY <2>1, <2>2, <2>3, <2>4 DEF TypeInv, TypeOK, WorkInv
<1>17. ASSUME RouterServer_init \/ RouterDies PROVE TypeInv'
  <2>1. CASE RouterEnds
    BY <2>1, <1>16
  <2>2. CASE /\ router' = "up" /\ Connect("forward")
             /\ UNCHANGED <<mipd, work, queue, forward, route, app, stale, used, lookup,
                            writing, cache, sent>>
    <3>1. backlog' \in [Sockets -> Seq({"live", "dead"})]
      BY <2>2, BacklogTypes DEF Sockets
    <3> QED
      BY <2>2, <3>1 DEF TypeInv, TypeOK, WorkInv
  <2> QED
    BY <1>17, <2>1, <2>2 DEF RouterServer_init, RouterDies
<1>18. ASSUME recv_forwarding_request PROVE TypeInv'
  <2>1. Head(forward.out) \in Addr /\ forward' \in Conn(Answer, Addr)
    BY <1>18, <1>c, ConnTypes DEF recv_forwarding_request
  <2>2. lookup' \in Seq(Addr)
    BY <1>18, <2>1 DEF recv_forwarding_request
  <2> QED
    BY <1>18, <2>1, <2>2 DEF recv_forwarding_request, TypeInv, TypeOK, WorkInv
<1>19. ASSUME send_forwarding_response PROVE TypeInv'
  <2>1. Head(lookup) \in Addr
    BY <1>19 DEF send_forwarding_response, TypeInv, TypeOK
  <2>2. PICK hop \in NextHops(Head(lookup)) :
          forward' = [forward EXCEPT !.in = Append(@, [hop |-> hop, asked |-> Head(lookup)])]
    BY <1>19 DEF send_forwarding_response
  <2>3. [hop |-> hop, asked |-> Head(lookup)] \in Answer
    BY <2>1 DEF NextHops, Answer, Addr
  <2>4. forward' \in Conn(Answer, Addr)
    BY <1>c, <2>2, <2>3, ConnTypes
  <2> QED
    BY <1>19, <2>4 DEF send_forwarding_response, TypeInv, TypeOK, WorkInv
<1>20. ASSUME RouterBroadcasts PROVE TypeInv'
  <2>1. used' \in Counters
    BY <1>20, <1>u, CounterTypes DEF RouterBroadcasts
  <2> QED
    BY <1>20, <2>1 DEF RouterBroadcasts, TypeInv, TypeOK, WorkInv, Counters
<1>21. ASSUME RouterTableWritten \/ handle_route_request PROVE TypeInv'
  <2>1. route' \in Conn({"table"}, {"table"})
    <3>1. "table" \in {"table"}
      OBVIOUS
    <3>2. CASE RouterTableWritten
      BY <1>c, <3>1, <3>2, ConnTypes DEF RouterTableWritten
    <3>3. CASE handle_route_request
      BY <1>c, <3>3, ConnTypes DEF handle_route_request
    <3> QED
      BY <1>21, <3>2, <3>3
  <2> QED
    BY <1>21, <2>1 DEF RouterTableWritten, handle_route_request, TypeInv, TypeOK, WorkInv
<1>22. ASSUME AppDies \/ AppReads PROVE TypeInv'
  <2>0. backlog' \in [Sockets -> Seq({"live", "dead"})]
    <3>1. UNCHANGED backlog \/ \E i \in DOMAIN backlog["app"] :
                                 backlog' = [backlog EXCEPT !["app"][i] = "dead"]
      BY <1>22 DEF AppDies, AppReads
    <3>2. \A i \in DOMAIN backlog["app"] :
            [backlog EXCEPT !["app"][i] = "dead"] \in [Sockets -> Seq({"live", "dead"})]
      BY BacklogTypes DEF Sockets
    <3>3. CASE UNCHANGED backlog
      BY <3>3 DEF TypeInv, TypeOK
    <3>4. ASSUME NEW i \in DOMAIN backlog["app"],
                 backlog' = [backlog EXCEPT !["app"][i] = "dead"]
          PROVE  backlog' \in [Sockets -> Seq({"live", "dead"})]
      BY <3>2, <3>4
    <3> QED
      BY <3>1, <3>3, <3>4
  <2>1. app' \in Conn(Message, Package)
    <3>1. CASE UNCHANGED app \/ app' = Hangup(app)
      BY <1>c, <1>d, <3>1
    <3>2. CASE AppReads
      BY <1>c, <3>2, ConnTypes DEF AppReads
    <3> QED
      BY <1>22, <3>1, <3>2 DEF AppDies
  <2> QED
    BY <1>22, <2>0, <2>1 DEF AppDies, AppReads, TypeInv, TypeOK, WorkInv
<1>23. ASSUME NEW dst \in Addr, NEW short \in BOOLEAN, AppSends(dst, short) PROVE TypeInv'
  <2>1. /\ [id |-> NewId, dst |-> dst, short |-> short] \in Message
        /\ used' \in [packages : 0 .. MaxPackages, tables : 0 .. MaxTables,
                      routers : 0 .. MaxRouters, apps : 0 .. MaxApps]
    BY <1>23, NewPackageType DEF AppSends, Message
  <2>2. app' \in Conn(Message, Package)
    BY <1>23, <1>c, <2>1, ConnTypes DEF AppSends
  <2> QED
    BY <1>23, <2>1, <2>2 DEF AppSends, TypeInv, TypeOK, WorkInv
<1>24. ASSUME UNCHANGED vars PROVE TypeInv'
  BY <1>24 DEF vars, TypeInv, TypeOK, WorkInv
<1> QED
  BY <1>1, <1>2, <1>3, <1>4, <1>5, <1>6, <1>7, <1>8, <1>9, <1>10, <1>11, <1>12, <1>13, <1>14,
     <1>15, <1>17, <1>18, <1>19, <1>20, <1>21, <1>22, <1>23, <1>24
     DEF Next, MipdEvent, PeerEvent

\* Every state has the types of TypeOK: what is in the queue, on a blocked write and on
\* the sockets between the processes is always a package, a request or an answer.
THEOREM TypeCorrect == Spec => []TypeOK
<1>1. TypeInv => TypeOK
  BY DEF TypeInv
<1> QED
  BY <1>1, TypeInit, TypeNext, PTL DEF Spec

-----------------------------------------------------------------------------
(* The inductive invariant of the forwarding path.                           *)
(*                                                                           *)
(* QueueCovers alone is not inductive: a new connection finds no request or  *)
(* answer of an old one only because the routerd that read them has gone,    *)
(* and the next package is the one its request is about only because, while  *)
(* routerd lives, the packages pushed on this connection and what is         *)
(* outstanding are equally many.                                             *)

\* A connection belongs to one routerd: its other end lives only while that routerd is
\* up and nothing waits to replace the connection, and among those that wait only the
\* last may be alive; a request is looked up only by the routerd at the other end.
PeerInv ==
  /\ ~forward.open => forward = Closed
  /\ forward.alive => forward.open /\ router = "up" /\ backlog["forward"] = <<>>
  /\ lookup # <<>> => forward.alive /\ Len(lookup) = 1
  /\ \A i \in DOMAIN backlog["forward"] : backlog["forward"][i] = "live" =>
       router = "up" /\ i = Len(backlog["forward"])

\* The last of those who connected to a socket is alive, be it waiting or accepted.
Served(line, conn) ==
  IF line = <<>> THEN conn.open /\ conn.alive ELSE line[Len(line)] = "live"

\* The routerd that runs has connected to the sockets it has reached, and nobody has
\* replaced it there.
ServedInv ==
  /\ router # "down" => Served(backlog["route"], route)
  /\ router = "up" => Served(backlog["forward"], forward)

\* The packages behind those of earlier routerds are those asked for on this connection.
AlignInv ==
  /\ QueueCovers
  /\ forward.alive => Len(queue) = stale + Outstanding
  /\ AnswersInOrder

PathInv == TypeInv /\ PeerInv /\ ServedInv /\ AlignInv

-----------------------------------------------------------------------------
(* What a step of the host is to the forwarding path: to the queue, the       *)
(* connection to routerd, routerd's lookup and the packages sent              *)

Pushes(p) ==
  /\ forward.alive
  /\ forward' = Put(forward, p.dst)
  /\ queue' = Append(queue, p)
  /\ UNCHANGED <<lookup, stale, sent>>

Pops ==
  /\ forward.in # <<>>
  /\ forward' = Got(forward)
  /\ queue' = ForwardQueue_pop
  /\ \/ UNCHANGED sent
     \/ /\ queue # <<>> /\ Head(forward.in).hop # Broadcast
        /\ sent' = sent \cup {[pkg |-> Head(queue), hop |-> Head(forward.in).hop,
                               asked |-> Head(forward.in).asked]}
  /\ UNCHANGED <<lookup, stale>>

LooksUp ==
  /\ forward.alive /\ forward.out # <<>> /\ lookup = <<>>
  /\ lookup' = <<Head(forward.out)>>
  /\ forward' = [forward EXCEPT !.out = Tail(@)]
  /\ UNCHANGED <<queue, stale, sent>>

Answers ==
  /\ lookup # <<>>
  /\ \E hop \in NextHops(Head(lookup)) :
       forward' = [forward EXCEPT !.in = Append(@, [hop |-> hop, asked |-> Head(lookup)])]
  /\ lookup' = <<>>
  /\ UNCHANGED <<queue, stale, sent>>

Connects ==
  /\ backlog["forward"] # <<>> /\ backlog'["forward"] = Tail(backlog["forward"])
  /\ forward' = Accepted(Head(backlog["forward"]) = "live")
  /\ stale' = Len(queue)
  /\ UNCHANGED <<queue, lookup, sent>>

HangsUp ==
  /\ forward' = Hangup(forward)
  /\ lookup' = <<>>
  /\ UNCHANGED <<queue, stale, sent>>

Closes ==
  /\ AtEnd(forward)
  /\ forward' = Closed
  /\ UNCHANGED <<queue, lookup, stale, sent>>

\* The error of a write is taken off the connection.
Clears ==
  /\ forward' = [forward EXCEPT !.reset = FALSE]
  /\ UNCHANGED <<queue, lookup, stale, sent>>

SendsDirectly(p) ==
  /\ sent' = sent \cup {[pkg |-> p, hop |-> p.dst, asked |-> p.dst]}
  /\ UNCHANGED <<queue, forward, lookup, stale>>

PathStep ==
  \/ \E p \in Package : Pushes(p) \/ SendsDirectly(p)
  \/ Pops \/ LooksUp \/ Answers \/ Connects \/ HangsUp \/ Closes \/ Clears
  \/ UNCHANGED <<queue, forward, lookup, stale, sent>>

\* Every step of the host is one of these, or leaves the forwarding path alone.
LEMMA PathSteps == TypeInv /\ [Next]_vars => PathStep
<1> SUFFICES ASSUME TypeInv, [Next]_vars PROVE PathStep
  OBVIOUS
<1> USE DEF links, peers
<1>1. ASSUME LocalSocket_create \/ update_arp_cache \/ RouteDisconnect \/ AppDisconnect
             \/ BroadcastTable \/ recv_route_table_broadcast \/ StdinStop
      PROVE  UNCHANGED <<queue, forward, lookup, stale, sent>>
  BY <1>1 DEF LocalSocket_create, update_arp_cache, RouteDisconnect, AppDisconnect,
              BroadcastTable, recv_route_table_broadcast, StdinStop
<1>2. ASSUME RouterStarts \/ RouterBroadcasts \/ RouterTableWritten \/ handle_route_request
             \/ AppConnects \/ AppDies \/ AppReads
             \/ (\E dst \in Addr, short \in BOOLEAN : AppSends(dst, short))
             \/ (\E n \in Neighbour : ArpFrame(n) \/ ArpEntryExpires(n))
      PROVE  UNCHANGED <<queue, forward, lookup, stale, sent>>
  BY <1>2 DEF RouterStarts, RouterBroadcasts, RouterTableWritten, handle_route_request,
              AppConnects, AppDies, AppReads, AppSends, ArpFrame, ArpEntryExpires
<1>3. ASSUME NEW s \in Sockets, handle_domain_socket_connection(s) PROVE PathStep
  <2>1. CASE s = "forward"
    <3>1. Connects
      BY <1>3, <2>1 DEF handle_domain_socket_connection, Connects, Replaces, TypeInv, TypeOK
    <3> QED
      BY <3>1 DEF PathStep
  <2>2. CASE s # "forward"
    <3>1. UNCHANGED <<queue, forward, lookup, stale, sent>>
      BY <1>3, <2>2 DEF handle_domain_socket_connection
    <3> QED
      BY <3>1 DEF PathStep
  <2> QED
    BY <2>1, <2>2
<1>4. ASSUME ForwardDisconnect PROVE PathStep
  <2>1. Closes \/ UNCHANGED <<queue, forward, lookup, stale, sent>>
    BY <1>4 DEF ForwardDisconnect, Closes
  <2> QED
    BY <2>1 DEF PathStep
<1>5. ASSUME handle_forward_response PROVE PathStep
  <2>1. Pops
    BY <1>5 DEF handle_forward_response, Pops
  <2> QED
    BY <2>1 DEF PathStep
<1>6. ASSUME NEW p \in Package, request_forwarding(p), UNCHANGED <<lookup, stale, sent>>
      PROVE  PathStep
  <2>1. Pushes(p) \/ UNCHANGED <<queue, forward, lookup, stale, sent>>
    BY <1>6 DEF request_forwarding, Pushes, ForwardQueue_push
  <2> QED
    BY <2>1 DEF PathStep
<1>7. ASSUME NEW dst \in Addr, NEW ttl \in 0 .. TTL, TransportFrame(dst, ttl) PROVE PathStep
  <2> DEFINE p == [id |-> NewId, dst |-> dst, ttl |-> ttl]
             q == [p EXCEPT !.ttl = @ - 1]
  <2>1. p \in Package
    BY <1>7, NewPackageType DEF TransportFrame, Package
  <2>2. UNCHANGED <<lookup, stale, sent>>
    BY <1>7 DEF TransportFrame
  <2>3. CASE UNCHANGED <<queue, forward>>
    BY <2>2, <2>3 DEF PathStep
  <2>4. CASE p.ttl # 0 /\ request_forwarding(q)
    <3>1. q \in Package
      BY <2>1, <2>4, MipdAssumption DEF Package
    <3> HIDE DEF q
    <3> QED
      BY <1>6, <2>2, <2>4, <3>1
  <2> QED
    BY <1>7, <2>3, <2>4 DEF TransportFrame, ForwardFrame
<1>8. ASSUME AppMessage PROVE PathStep
  <2> DEFINE m == Head(app.in)
             p == create_queueable_MIPDMessage_MIPPackage(m)
  <2>1. m \in Message
    BY <1>8, ConnTypes DEF AppMessage, TypeInv, TypeOK
  <2>2. p \in Package
    BY <2>1, MipdAssumption DEF create_queueable_MIPDMessage_MIPPackage, Message, Package
  <2>3. UNCHANGED <<lookup, stale>>
    BY <1>8 DEF AppMessage
  <2> HIDE DEF p
  <2>4. CASE UNCHANGED <<queue, forward, sent>>
    BY <2>3, <2>4 DEF PathStep
  <2>5. CASE handle_domain_socket_request(p) /\ UNCHANGED <<queue, forward>>
    <3>1. SendsDirectly(p)
      BY <2>3, <2>5 DEF handle_domain_socket_request, SendsDirectly
    <3> QED
      BY <2>2, <3>1 DEF PathStep
  <2>6. CASE request_forwarding(p) /\ UNCHANGED sent
    BY <1>6, <2>2, <2>3, <2>6
  <2> QED
    BY <1>8, <2>4, <2>5, <2>6 DEF AppMessage, p
<1>9. ASSUME WriteCompletes PROVE PathStep
  <2> DEFINE w == Head(work)
             p == Head(w.pkgs)
  <2>1. UNCHANGED <<lookup, stale, sent>>
    BY <1>9 DEF WriteCompletes
  <2>2. CASE UNCHANGED <<queue, forward>>
    BY <2>1, <2>2 DEF PathStep
  <2>3. CASE /\ w.on = "forward" /\ forward.alive
             /\ forward' = Put(forward, p.dst) /\ ForwardQueue_push(p)
    <3>1. p \in Package
      BY <1>9, <2>3, WorkTypes DEF WriteCompletes
    <3> QED
      BY <2>1, <2>3, <3>1 DEF Pushes, ForwardQueue_push, PathStep
  <2> QED
    BY <1>9, <2>2, <2>3 DEF WriteCompletes
<1>10. ASSUME RouterEnds PROVE PathStep
  <2>1. HangsUp
    BY <1>10 DEF RouterEnds, HangsUp
  <2> QED
    BY <2>1 DEF PathStep
<1>11. ASSUME RouterServer_init \/ RouterDies PROVE PathStep
  <2>1. RouterEnds \/ UNCHANGED <<queue, forward, lookup, stale, sent>>
    BY <1>11 DEF RouterServer_init, RouterDies
  <2> QED
    BY <1>10, <2>1 DEF PathStep
<1>12. ASSUME recv_forwarding_request PROVE PathStep
  <2>1. LooksUp
    BY <1>12 DEF recv_forwarding_request, LooksUp
  <2> QED
    BY <2>1 DEF PathStep
<1>13. ASSUME send_forwarding_response PROVE PathStep
  <2>1. Answers
    BY <1>13 DEF send_forwarding_response, Answers
  <2> QED
    BY <2>1 DEF PathStep
<1>14. ASSUME WriteFails \/ UNCHANGED vars PROVE PathStep
  BY <1>14 DEF WriteFails, Clears, vars, PathStep
<1>15. ASSUME UNCHANGED <<queue, forward, lookup, stale, sent>> PROVE PathStep
  BY <1>15 DEF PathStep
<1> QED
  BY <1>1, <1>2, <1>3, <1>4, <1>5, <1>7, <1>8, <1>9, <1>11, <1>12, <1>13, <1>14, <1>15
     DEF Next, MipdEvent, PeerEvent

-----------------------------------------------------------------------------
(* The invariant holds *)

\* At the start no connection is open and nothing waits.
LEMMA PathInit == Init => PathInv
<1> SUFFICES ASSUME Init PROVE PathInv
  OBVIOUS
<1>1. TypeInv
  BY TypeInit
<1>2. PeerInv /\ ServedInv
  BY DEF Init, PeerInv, ServedInv, Sockets, Closed
<1>3. AlignInv
  BY DEF Init, AlignInv, QueueCovers, AnswersInOrder, Closed
<1> QED
  BY <1>1, <1>2, <1>3 DEF PathInv

\* What a step does to routerd's state and to what waits to be accepted.
LEMMA PeerNext == TypeInv /\ PeerInv /\ ServedInv /\ [Next]_vars => PeerInv' /\ ServedInv'
<1> SUFFICES ASSUME TypeInv, PeerInv, ServedInv, [Next]_vars PROVE PeerInv' /\ ServedInv'
  OBVIOUS
<1> USE DEF links, peers
<1>c. /\ forward.open \in BOOLEAN /\ forward.alive \in BOOLEAN
      /\ route.open \in BOOLEAN /\ route.alive \in BOOLEAN
      /\ backlog \in [Sockets -> Seq({"live", "dead"})]
      /\ router \in {"down", "connecting", "up"}
  BY DEF TypeInv, TypeOK, Conn
<1>f. /\ forward = [open |-> forward.open, alive |-> forward.alive, reset |-> forward.reset,
                    in |-> forward.in, out |-> forward.out]
      /\ route = [open |-> route.open, alive |-> route.alive, reset |-> route.reset,
                  in |-> route.in, out |-> route.out]
  BY DEF TypeInv, TypeOK, Conn
<1>l. ASSUME NEW s \in Sockets, NEW conn PROVE Served(Append(backlog[s], "live"), conn)
  <2> DEFINE line == backlog[s]
  <2>1. line \in Seq({"live", "dead"})
    BY <1>c
  <2> HIDE DEF line
  <2>2. Append(line, "live") # <<>> /\ Append(line, "live")[Len(Append(line, "live"))] = "live"
    BY <2>1
  <2> QED
    BY <2>2 DEF line, Served
\* Steps that leave routerd and the backlog of its sockets alone.
<1>1. ASSUME UNCHANGED <<router, lookup>>,
             backlog'["route"] = backlog["route"], backlog'["forward"] = backlog["forward"],
             route'.open = route.open, route'.alive = route.alive,
             \/ UNCHANGED forward
             \/ forward.open /\ forward'.open = forward.open /\ forward'.alive = forward.alive
      PROVE  PeerInv' /\ ServedInv'
  BY <1>1 DEF PeerInv, ServedInv, Served
<1>2. ASSUME LocalSocket_create \/ update_arp_cache \/ AppDisconnect \/ StdinStop
             \/ RouterBroadcasts \/ AppConnects \/ AppDies \/ AppReads
             \/ (\E dst \in Addr, short \in BOOLEAN : AppSends(dst, short))
             \/ (\E n \in Neighbour : ArpFrame(n) \/ ArpEntryExpires(n))
      PROVE  PeerInv' /\ ServedInv'
  <2>1. /\ UNCHANGED <<router, lookup, route, forward>>
        /\ backlog'["route"] = backlog["route"] /\ backlog'["forward"] = backlog["forward"]
    BY <1>2, <1>c DEF LocalSocket_create, update_arp_cache, AppDisconnect,
                 StdinStop, RouterBroadcasts, Connect, AppConnects, AppDies, AppReads, AppSends,
                 ArpFrame, ArpEntryExpires, Sockets
  <2> QED
    BY <1>1, <2>1
\* Steps on a connection that keep both its ends.
<1>3. ASSUME BroadcastTable \/ recv_route_table_broadcast \/ RouterTableWritten
             \/ handle_route_request
      PROVE  PeerInv' /\ ServedInv'
  <2>1. UNCHANGED <<router, lookup, backlog, forward>>
    BY <1>3 DEF BroadcastTable, recv_route_table_broadcast, RouterTableWritten,
                handle_route_request
  <2>2. route'.open = route.open /\ route'.alive = route.alive
    BY <1>3, <1>f DEF BroadcastTable, recv_route_table_broadcast, RouterTableWritten,
                      handle_route_request, Got, Put
  <2> QED
    BY <1>1, <2>1, <2>2
<1>4. ASSUME handle_forward_response PROVE PeerInv' /\ ServedInv'
  <2>1. UNCHANGED <<router, lookup, backlog, route>> /\ forward' = Got(forward)
        /\ forward.in # <<>>
    BY <1>4 DEF handle_forward_response
  <2>2. forward.open /\ forward'.open = forward.open /\ forward'.alive = forward.alive
    BY <1>f, <2>1 DEF Got, PeerInv, Closed
  <2> QED
    BY <1>1, <2>1, <2>2
<1>5. ASSUME NEW p, request_forwarding(p), UNCHANGED <<router, lookup, backlog, route>>
      PROVE  PeerInv' /\ ServedInv'
  <2>1. \/ UNCHANGED forward
        \/ forward.open /\ forward'.open = forward.open /\ forward'.alive = forward.alive
    BY <1>5, <1>f DEF request_forwarding, Put
  <2> QED
    BY <1>1, <1>5, <2>1
<1>6. ASSUME NEW dst \in Addr, NEW ttl \in 0 .. TTL, TransportFrame(dst, ttl)
      PROVE  PeerInv' /\ ServedInv'
  <2> DEFINE p == [id |-> NewId, dst |-> dst, ttl |-> ttl]
  <2>1. UNCHANGED <<router, lookup, backlog, route>>
    BY <1>6 DEF TransportFrame
  <2>2. UNCHANGED forward \/ request_forwarding([p EXCEPT !.ttl = @ - 1])
    BY <1>6 DEF TransportFrame, ForwardFrame
  <2> QED
    BY <1>1, <1>5, <2>1, <2>2
<1>7. ASSUME AppMessage PROVE PeerInv' /\ ServedInv'
  <2> DEFINE p == create_queueable_MIPDMessage_MIPPackage(Head(app.in))
  <2>1. UNCHANGED <<router, lookup, backlog, route>>
    BY <1>7 DEF AppMessage
  <2>2. UNCHANGED forward \/ request_forwarding(p)
    BY <1>7 DEF AppMessage
  <2> QED
    BY <1>1, <1>5, <2>1, <2>2
<1>8. ASSUME WriteCompletes PROVE PeerInv' /\ ServedInv'
  <2>1. UNCHANGED <<router, lookup, backlog>>
    BY <1>8 DEF WriteCompletes
  <2>2. CASE UNCHANGED route /\ forward.alive /\ \E x : forward' = Put(forward, x)
    <3>1. forward.open /\ forward'.open = forward.open /\ forward'.alive = forward.alive
      BY <1>f, <2>2 DEF Put, PeerInv
    <3> QED
      BY <1>1, <2>1, <2>2, <3>1
  <2>3. CASE UNCHANGED forward /\ (UNCHANGED route \/ route' = Put(route, "table"))
    <3>1. route'.open = route.open /\ route'.alive = route.alive
      BY <1>f, <2>3 DEF Put
    <3> QED
      BY <1>1, <2>1, <2>3, <3>1
  <2> QED
    BY <1>8, <2>2, <2>3 DEF WriteCompletes
<1>18. ASSUME WriteFails PROVE PeerInv' /\ ServedInv'
  <2>1. UNCHANGED <<router, lookup, backlog, route>>
        /\ (UNCHANGED forward \/ forward' = [forward EXCEPT !.reset = FALSE])
    BY <1>18 DEF WriteFails
  <2>2. CASE forward.open
    <3>1. forward'.open = forward.open /\ forward'.alive = forward.alive
      BY <1>f, <2>1
    <3> QED
      BY <1>1, <2>1, <2>2, <3>1
  <2>3. CASE ~forward.open
    <3>1. forward = Closed
      BY <2>3 DEF PeerInv
    <3>2. UNCHANGED forward
      BY <2>1, <3>1 DEF Closed
    <3> QED
      BY <1>1, <2>1, <3>2
  <2> QED
    BY <2>2, <2>3, <1>c
<1>9. ASSUME NEW s \in Sockets, handle_domain_socket_connection(s)
      PROVE  PeerInv' /\ ServedInv'
  <2>1. UNCHANGED <<router, lookup>> /\ backlog[s] # <<>>
        /\ backlog' = [backlog EXCEPT ![s] = Tail(@)]
    BY <1>9 DEF handle_domain_socket_connection
  <2> DEFINE line == backlog[s]
  <2>l. /\ line # <<>> /\ line \in Seq({"live", "dead"})
        /\ backlog'[s] = Tail(line) /\ \A t \in Sockets \ {s} : backlog'[t] = backlog[t]
    BY <1>c, <2>1
  <2>a. ASSUME NEW conn, Served(line, conn) PROVE Served(Tail(line), Accepted(Head(line) = "live"))
    <3>1. CASE Len(line) = 1
      <4>1. Head(line) = line[1] /\ line[Len(line)] = line[1] /\ Tail(line) = <<>>
        BY <2>l, <3>1, EndsOfSequence
      <4>2. line[1] = "live"
        BY <2>a, <2>l, <4>1 DEF Served
      <4> QED
        BY <4>1, <4>2 DEF Served, Accepted, Closed
    <3>2. CASE Len(line) # 1
      <4>1. Tail(line) # <<>> /\ Tail(line)[Len(Tail(line))] = line[Len(line)]
        BY <2>l, <3>2, EndsOfSequence
      <4> QED
        BY <2>a, <2>l, <4>1 DEF Served
    <3> QED
      BY <3>1, <3>2
  <2>2. CASE s = "app"
    <3>1. UNCHANGED <<route, forward>>
      BY <1>9, <2>2 DEF handle_domain_socket_connection
    <3> QED
      BY <1>1, <2>1, <2>2, <2>l, <3>1 DEF Sockets
  <2>3. CASE s = "route"
    <3>1. UNCHANGED forward /\ route' = Accepted(Head(line) = "live")
      BY <1>9, <2>3 DEF handle_domain_socket_connection, Replaces
    <3>2. backlog'["forward"] = backlog["forward"] /\ backlog'["route"] = Tail(line)
      BY <2>3, <2>l DEF Sockets
    <3>3. router # "down" => Served(line, route)
      BY <2>3 DEF ServedInv
    <3>4. router' # "down" => Served(backlog'["route"], route')
      BY <2>1, <2>a, <3>1, <3>2, <3>3
    <3> QED
      BY <2>1, <3>1, <3>2, <3>4 DEF PeerInv, ServedInv, Served
  <2>4. CASE s = "forward"
    <3>1. UNCHANGED route /\ forward' = Accepted(Head(line) = "live")
      BY <1>9, <2>4 DEF handle_domain_socket_connection, Replaces
    <3>2. forward'.open /\ forward'.alive = (Head(line) = "live")
      BY <3>1 DEF Accepted, Closed
    <3>3. backlog'["route"] = backlog["route"] /\ backlog'["forward"] = Tail(line)
      BY <2>4, <2>l DEF Sockets
    <3>4. ~forward.alive /\ lookup = <<>>
      BY <2>1, <2>4 DEF PeerInv
    <3>5. \A i \in DOMAIN line : line[i] = "live" => router = "up" /\ i = Len(line)
      BY <2>4 DEF PeerInv
    <3>6. forward'.alive => router = "up" /\ Tail(line) = <<>>
      <4>1. Head(line) = line[1] /\ 1 \in DOMAIN line
        BY <2>l
      <4>2. Len(line) = 1 => Tail(line) = <<>>
        BY <2>l, EndsOfSequence
      <4> QED
        BY <3>2, <3>5, <4>1, <4>2
    <3>7. \A i \in DOMAIN Tail(line) : Tail(line)[i] = "live" => router = "up" /\ i = Len(Tail(line))
      <4> SUFFICES ASSUME NEW i \in DOMAIN Tail(line), Tail(line)[i] = "live"
                   PROVE  router = "up" /\ i = Len(Tail(line))
        OBVIOUS
      <4>1. i + 1 \in DOMAIN line /\ line[i + 1] = "live" /\ Len(Tail(line)) = Len(line) - 1
            /\ i \in Int /\ Len(line) \in Int
        BY <2>l
      <4>2. router = "up" /\ i + 1 = Len(line)
        BY <3>5, <4>1
      <4> QED
        BY <4>1, <4>2
    <3>8. router = "up" => Served(line, forward)
      BY <2>4 DEF ServedInv
    <3>9. router' = "up" => Served(backlog'["forward"], forward')
      BY <2>1, <2>a, <3>1, <3>3, <3>8
    <3>10. ServedInv'
      BY <2>1, <3>1, <3>3, <3>9 DEF ServedInv, Served
    <3> QED
      BY <2>1, <3>2, <3>3, <3>4, <3>6, <3>7, <3>10 DEF PeerInv
  <2> QED
    BY <2>2, <2>3, <2>4 DEF Sockets
<1>10. ASSUME RouteDisconnect PROVE PeerInv' /\ ServedInv'
  <2>1. UNCHANGED <<router, lookup, backlog, forward>> /\ ~route.alive
    BY <1>10 DEF RouteDisconnect, AtEnd
  <2>2. router = "down" \/ backlog["route"] # <<>>
    BY <2>1 DEF ServedInv, Served
  <2> QED
    BY <2>1, <2>2 DEF PeerInv, ServedInv, Served
<1>11. ASSUME ForwardDisconnect PROVE PeerInv' /\ ServedInv'
  <2>1. UNCHANGED <<router, lookup, backlog, route>> /\ ~forward.alive
        /\ (forward' = forward \/ forward' = Closed)
    BY <1>11 DEF ForwardDisconnect, AtEnd
  <2>2. router # "up" \/ backlog["forward"] # <<>>
    BY <2>1 DEF ServedInv, Served
  <2>3. ~Closed.open /\ ~Closed.alive
    BY DEF Closed
  <2> QED
    BY <2>1, <2>2, <2>3 DEF PeerInv, ServedInv, Served
<1>12. ASSUME RouterStarts PROVE PeerInv' /\ ServedInv'
  <2>1. /\ UNCHANGED <<lookup, forward, route>> /\ router = "down" /\ router' = "connecting"
        /\ Connect("route")
    BY <1>12 DEF RouterStarts
  <2>2. Served(backlog'["route"], route) /\ backlog'["forward"] = backlog["forward"]
    BY <1>c, <1>l, <2>1 DEF Connect, Sockets
  <2>3. ~forward.alive
    BY <2>1 DEF PeerInv
  <2> QED
    BY <2>1, <2>2, <2>3 DEF PeerInv, ServedInv, Served
<1>13. ASSUME RouterEnds PROVE PeerInv' /\ ServedInv'
  <2>1. router' = "down" /\ lookup' = <<>>
    BY <1>13 DEF RouterEnds
  <2>2. forward' = Hangup(forward) /\ ~forward'.alive /\ forward'.open = forward.open
    BY <1>13, <1>f DEF RouterEnds, Hangup
  <2>3. ~forward'.open => forward' = Closed
    BY <2>2 DEF Hangup, PeerInv, Closed
  <2>4. \A i \in DOMAIN backlog'["forward"] : backlog'["forward"][i] # "live"
    <3>1. backlog'["forward"] = Abandon("forward")
      BY <1>13, <1>c DEF RouterEnds, Sockets
    <3> QED
      BY <3>1 DEF Abandon
  <2> QED
    BY <2>1, <2>2, <2>3, <2>4 DEF PeerInv, ServedInv
<1>14. ASSUME RouterServer_init \/ RouterDies PROVE PeerInv' /\ ServedInv'
  <2>1. CASE /\ router = "connecting" /\ router' = "up" /\ Connect("forward")
             /\ UNCHANGED <<forward, route, lookup>>
    <3>1. Served(backlog'["forward"], forward) /\ backlog'["route"] = backlog["route"]
      BY <1>c, <1>l, <2>1 DEF Connect, Sockets
    <3>2. ~forward.alive
      BY <2>1 DEF PeerInv
    <3>3. \A i \in DOMAIN backlog'["forward"] : backlog'["forward"][i] = "live" =>
            i = Len(backlog'["forward"])
      <4> DEFINE line == backlog["forward"]
      <4>1. backlog'["forward"] = Append(line, "live") /\ line \in Seq({"live", "dead"})
        BY <1>c, <2>1 DEF Connect, Sockets
      <4>2. \A i \in DOMAIN line : line[i] # "live"
        BY <2>1 DEF PeerInv
      <4> HIDE DEF line
      <4> QED
        BY <4>1, <4>2
    <3> QED
      BY <2>1, <3>1, <3>2, <3>3 DEF PeerInv, ServedInv
  <2> QED
    BY <1>13, <1>14, <2>1 DEF RouterServer_init, RouterDies
<1>15. ASSUME recv_forwarding_request PROVE PeerInv' /\ ServedInv'
  <2>1. /\ UNCHANGED <<router, backlog, route>> /\ forward.alive
        /\ lookup' = <<Head(forward.out)>>
        /\ forward' = [forward EXCEPT !.out = Tail(@)]
    BY <1>15 DEF recv_forwarding_request
  <2>2. forward.open /\ forward'.open = forward.open /\ forward'.alive = forward.alive
        /\ Len(lookup') = 1
    BY <1>f, <2>1 DEF PeerInv
  <2> QED
    BY <2>1, <2>2 DEF PeerInv, ServedInv, Served
<1>16. ASSUME send_forwarding_response PROVE PeerInv' /\ ServedInv'
  <2>1. /\ UNCHANGED <<router, backlog, route>> /\ lookup # <<>> /\ lookup' = <<>>
        /\ \E x : forward' = [forward EXCEPT !.in = Append(@, x)]
    BY <1>16 DEF send_forwarding_response
  <2>2. forward.open /\ forward'.open = forward.open /\ forward'.alive = forward.alive
    BY <1>f, <2>1 DEF PeerInv
  <2> QED
    BY <2>1, <2>2 DEF PeerInv, ServedInv, Served
<1>17. ASSUME UNCHANGED vars PROVE PeerInv' /\ ServedInv'
  BY <1>1, <1>17 DEF vars
<1> QED
  BY <1>2, <1>3, <1>4, <1>6, <1>7, <1>8, <1>9, <1>10, <1>11, <1>12, <1>14, <1>15, <1>16, <1>17,
     <1>18 DEF Next, MipdEvent, PeerEvent

\* The lengths are numbers.
LEMMA Lengths ==
  ASSUME TypeInv
  PROVE  /\ Len(queue) \in Nat /\ stale \in Nat
         /\ Len(forward.in) \in Nat /\ Len(lookup) \in Nat /\ Len(forward.out) \in Nat
<1>1. /\ queue \in Seq(Package) /\ forward.in \in Seq(Answer) /\ lookup \in Seq(Addr)
      /\ forward.out \in Seq(Addr) /\ stale \in Nat
  BY DEF TypeInv, TypeOK, Conn
<1>2. \A S : \A t \in Seq(S) : Len(t) \in Nat
  OBVIOUS
<1> QED
  BY <1>1, <1>2

\* Whatever happens on the path, the packages behind the stale ones stay in step with what
\* is outstanding.
LEMMA AlignNext == TypeInv /\ PeerInv /\ TypeInv' /\ AlignInv /\ PathStep => AlignInv'
<1> SUFFICES ASSUME TypeInv, PeerInv, TypeInv', AlignInv, PathStep PROVE AlignInv'
  OBVIOUS
<1> DEFINE in == forward.in
           out == forward.out
           q == Len(queue)
           n == Len(forward.in)
           l == Len(lookup)
           m == Len(forward.out)
<1>c. /\ queue \in Seq(Package) /\ in \in Seq(Answer) /\ lookup \in Seq(Addr)
      /\ out \in Seq(Addr) /\ stale \in Nat
      /\ forward.open \in BOOLEAN /\ forward.alive \in BOOLEAN
      /\ forward = [open |-> forward.open, alive |-> forward.alive, reset |-> forward.reset,
                    in |-> forward.in, out |-> forward.out]
  BY DEF TypeInv, TypeOK, Conn
<1>l. /\ q \in Nat /\ n \in Nat /\ l \in Nat /\ m \in Nat /\ stale \in Nat
      /\ forward.open => q >= stale + n + l + m
      /\ forward.alive => forward.open /\ q = stale + n + l + m
  <2>1. /\ forward.open => q >= stale + (n + l + m)
        /\ forward.alive => forward.open /\ q = stale + (n + l + m)
    BY DEF AlignInv, QueueCovers, Outstanding, PeerInv
  <2>2. q \in Nat /\ n \in Nat /\ l \in Nat /\ m \in Nat /\ stale \in Nat
    BY Lengths
  <2> HIDE DEF q, n, l, m
  <2> QED
    BY <2>1, <2>2
<1>a. /\ \A i \in 1 .. n : in[i].asked = queue[stale + i].dst
      /\ \A i \in 1 .. l : lookup[i] = queue[stale + n + i].dst
      /\ \A i \in 1 .. m : out[i] = queue[stale + n + l + i].dst
  BY DEF AlignInv, AnswersInOrder
<1>q. q = Len(queue) /\ n = Len(in) /\ l = Len(lookup) /\ m = Len(out)
  OBVIOUS
<1>w. ASSUME /\ forward'.open =>
                  Len(queue') >= stale' + (Len(forward'.in) + Len(lookup') + Len(forward'.out))
             /\ forward'.alive =>
                  Len(queue') = stale' + (Len(forward'.in) + Len(lookup') + Len(forward'.out)),
             AnswersInOrder'
      PROVE  AlignInv'
  BY <1>w DEF AlignInv, QueueCovers, Outstanding
<1> HIDE DEF q, n, l, m
<1>1. ASSUME NEW p \in Package, Pushes(p) PROVE AlignInv'
  <2>1. forward.alive /\ UNCHANGED <<lookup, stale>> /\ queue' = Append(queue, p)
        /\ forward' = Put(forward, p.dst) /\ p.dst \in Addr
    BY <1>1 DEF Pushes, Package
  <2>2. forward'.in = in /\ forward'.out = Append(out, p.dst)
        /\ forward'.open = forward.open /\ forward'.alive = forward.alive
    BY <1>c, <2>1 DEF Put
  <2>3. /\ Len(queue') = q + 1 /\ queue'[q + 1] = p
        /\ \A i \in 1 .. q : queue'[i] = queue[i]
    BY <1>c, <1>q, <2>1
  <2>4. /\ Len(forward'.out) = m + 1 /\ forward'.out[m + 1] = p.dst
        /\ \A i \in 1 .. m : forward'.out[i] = out[i]
    BY <1>c, <1>q, <2>1, <2>2
  <2>5. /\ forward'.open =>
               Len(queue') >= stale' + (Len(forward'.in) + Len(lookup') + Len(forward'.out))
        /\ forward'.alive =>
               Len(queue') = stale' + (Len(forward'.in) + Len(lookup') + Len(forward'.out))
    <3>1. /\ Len(queue') = q + 1 /\ Len(forward'.in) = n
          /\ Len(lookup') = l /\ Len(forward'.out) = m + 1
          /\ stale' = stale /\ forward'.open = forward.open
          /\ forward'.alive = forward.alive
      BY <1>q, <2>1, <2>2, <2>3, <2>4
    <3> QED
      BY <1>l, <3>1
  <2>6. /\ \A i \in 1 .. n : stale + i \in 1 .. q
        /\ \A i \in 1 .. l : stale + n + i \in 1 .. q
        /\ \A i \in 1 .. m : stale + n + l + i \in 1 .. q
        /\ stale + n + l + (m + 1) = q + 1
    BY <1>l, <2>1
  <2>7. \A i \in 1 .. m + 1 : forward'.out[i] = queue'[stale + n + l + i].dst
    BY <1>a, <1>l, <2>3, <2>4, <2>6
  <2>8. AnswersInOrder'
    BY <1>a, <1>q, <2>1, <2>2, <2>3, <2>4, <2>6, <2>7 DEF AnswersInOrder
  <2> QED
    BY <1>w, <2>5, <2>8
<1>2. ASSUME Pops PROVE AlignInv'
  <2>1. in # <<>> /\ UNCHANGED <<lookup, stale>> /\ forward' = Got(forward)
        /\ queue' = ForwardQueue_pop
    BY <1>2 DEF Pops
  <2>2. forward'.in = Tail(in) /\ forward'.out = out
        /\ forward'.open = forward.open /\ forward'.alive = forward.alive
    BY <1>c, <2>1 DEF Got
  <2>3. forward.open
    BY <2>1 DEF PeerInv, Closed
  <2>4. n >= 1 /\ Len(forward'.in) = n - 1 /\ \A i \in 1 .. n - 1 : forward'.in[i] = in[i + 1]
    BY <1>c, <1>q, <2>1, <2>2
  <2>5. q >= 1 /\ queue' = Tail(queue)
    <3>1. q >= 1
      BY <1>l, <2>3, <2>4
    <3> QED
      BY <2>1, <3>1, <1>c DEF ForwardQueue_pop
  <2>6. Len(queue') = q - 1 /\ \A i \in 1 .. q - 1 : queue'[i] = queue[i + 1]
    BY <1>c, <1>q, <2>5
  <2>7. /\ forward'.open =>
               Len(queue') >= stale' + (Len(forward'.in) + Len(lookup') + Len(forward'.out))
        /\ forward'.alive =>
               Len(queue') = stale' + (Len(forward'.in) + Len(lookup') + Len(forward'.out))
    <3>1. /\ Len(queue') = q - 1 /\ Len(forward'.in) = n - 1
          /\ Len(lookup') = l /\ Len(forward'.out) = m
          /\ stale' = stale /\ forward'.open = forward.open
          /\ forward'.alive = forward.alive
      BY <1>q, <2>1, <2>2, <2>3, <2>4, <2>6
    <3> QED
      BY <1>l, <2>3, <2>4, <3>1
  <2>8. ASSUME NEW i \in 1 .. n - 1 PROVE forward'.in[i].asked = queue'[stale + i].dst
    <3>1. i + 1 \in 1 .. n /\ stale + i \in 1 .. q - 1 /\ (stale + i) + 1 = stale + (i + 1)
      BY <1>l, <2>3
    <3> QED
      BY <1>a, <2>4, <2>6, <3>1
  <2>9. ASSUME NEW i \in 1 .. l PROVE lookup[i] = queue'[stale + (n - 1) + i].dst
    <3>1. stale + (n - 1) + i \in 1 .. q - 1 /\ (stale + (n - 1) + i) + 1 = stale + n + i
      BY <1>l, <2>3, <2>4
    <3> QED
      BY <1>a, <2>6, <3>1
  <2>10. ASSUME NEW i \in 1 .. m PROVE out[i] = queue'[stale + (n - 1) + l + i].dst
    <3>1. /\ stale + (n - 1) + l + i \in 1 .. q - 1
          /\ (stale + (n - 1) + l + i) + 1 = stale + n + l + i
      BY <1>l, <2>3, <2>4
    <3> QED
      BY <1>a, <2>6, <3>1
  <2>11. AnswersInOrder'
    BY <1>q, <2>1, <2>2, <2>4, <2>8, <2>9, <2>10 DEF AnswersInOrder
  <2> QED
    BY <1>w, <2>7, <2>11
<1>3. ASSUME LooksUp PROVE AlignInv'
  <2>1. /\ forward.alive /\ out # <<>> /\ lookup = <<>> /\ lookup' = <<Head(out)>>
        /\ forward' = [forward EXCEPT !.out = Tail(@)] /\ UNCHANGED <<queue, stale>>
    BY <1>3 DEF LooksUp
  <2>2. /\ forward'.in = in /\ forward'.out = Tail(out)
        /\ forward'.open = forward.open /\ forward'.alive = forward.alive
    BY <1>c, <2>1
  <2>l. l = 0 /\ Len(lookup') = 1 /\ lookup'[1] = out[1]
    BY <1>c, <1>q, <2>1
  <2>3. m >= 1 /\ Len(forward'.out) = m - 1 /\ \A i \in 1 .. m - 1 : forward'.out[i] = out[i + 1]
    BY <1>c, <1>q, <2>1, <2>2
  <2>4. /\ forward'.open =>
               Len(queue') >= stale' + (Len(forward'.in) + Len(lookup') + Len(forward'.out))
        /\ forward'.alive =>
               Len(queue') = stale' + (Len(forward'.in) + Len(lookup') + Len(forward'.out))
    <3>1. /\ Len(queue') = q /\ Len(forward'.in) = n
          /\ Len(lookup') = 1 /\ Len(forward'.out) = m - 1
          /\ stale' = stale /\ forward'.open = forward.open
          /\ forward'.alive = forward.alive
      BY <1>q, <2>1, <2>2, <2>3, <2>l
    <3> QED
      BY <1>l, <2>l, <2>3, <3>1
  <2>5. lookup'[1] = queue[stale + n + 1].dst
    <3>1. stale + n + l + 1 = stale + n + 1 /\ 1 \in 1 .. m
      BY <1>l, <2>3, <2>l
    <3> QED
      BY <1>a, <2>l, <3>1
  <2>6. ASSUME NEW i \in 1 .. m - 1 PROVE forward'.out[i] = queue[stale + n + 1 + i].dst
    <3>1. i + 1 \in 1 .. m /\ stale + n + l + (i + 1) = stale + n + 1 + i
      BY <1>l, <2>l
    <3> QED
      BY <1>a, <2>3, <3>1
  <2>7. AnswersInOrder'
    <3>1. \A i \in 1 .. Len(lookup') : lookup'[i] = queue[stale + n + i].dst
      <4>1. ASSUME NEW i \in 1 .. 1 PROVE i = 1
        OBVIOUS
      <4> QED
        BY <2>5, <2>l, <4>1
    <3>2. /\ Len(forward'.in) = n /\ Len(lookup') = 1 /\ Len(forward'.out) = m - 1
          /\ queue' = queue /\ stale' = stale
      BY <1>q, <2>1, <2>2, <2>3, <2>l
    <3> QED
      BY <1>a, <2>2, <2>6, <3>1, <3>2 DEF AnswersInOrder
  <2> QED
    BY <1>w, <2>4, <2>7
<1>4. ASSUME Answers PROVE AlignInv'
  <2>1. PICK hop \in NextHops(Head(lookup)) :
          forward' = [forward EXCEPT !.in = Append(@, [hop |-> hop, asked |-> Head(lookup)])]
    BY <1>4 DEF Answers
  <2> DEFINE a == [hop |-> hop, asked |-> Head(lookup)]
  <2>2. lookup # <<>> /\ lookup' = <<>> /\ UNCHANGED <<queue, stale>>
    BY <1>4 DEF Answers
  <2>3. /\ l = 1 /\ Len(lookup') = 0 /\ forward.alive /\ a.asked = lookup[1]
    BY <1>c, <1>q, <2>2 DEF PeerInv
  <2>4. a \in Answer
    BY <1>c, <2>2 DEF NextHops, Answer, Addr
  <2> HIDE DEF a
  <2>5. /\ forward'.in = Append(in, a) /\ forward'.out = out
        /\ forward'.open = forward.open /\ forward'.alive = forward.alive
    BY <1>c, <2>1 DEF a
  <2>6. /\ Len(forward'.in) = n + 1 /\ forward'.in[n + 1] = a
        /\ \A i \in 1 .. n : forward'.in[i] = in[i]
    BY <1>c, <1>q, <2>4, <2>5
  <2>7. /\ forward'.open =>
               Len(queue') >= stale' + (Len(forward'.in) + Len(lookup') + Len(forward'.out))
        /\ forward'.alive =>
               Len(queue') = stale' + (Len(forward'.in) + Len(lookup') + Len(forward'.out))
    <3>1. /\ Len(queue') = q /\ Len(forward'.in) = n + 1
          /\ Len(lookup') = 0 /\ Len(forward'.out) = m
          /\ stale' = stale /\ forward'.open = forward.open
          /\ forward'.alive = forward.alive
      BY <1>q, <2>2, <2>3, <2>5, <2>6
    <3> QED
      BY <1>l, <2>3, <3>1
  <2>8. a.asked = queue[stale + (n + 1)].dst
    <3>1. stale + n + 1 = stale + (n + 1) /\ 1 \in 1 .. l
      BY <1>l, <2>3
    <3> QED
      BY <1>a, <2>3, <3>1
  <2>9. \A i \in 1 .. n + 1 : forward'.in[i].asked = queue[stale + i].dst
    BY <1>a, <1>l, <2>6, <2>8
  <2>10. ASSUME NEW i \in 1 .. m PROVE out[i] = queue[stale + (n + 1) + 0 + i].dst
    <3>1. stale + (n + 1) + 0 + i = stale + n + l + i
      BY <1>l, <2>3
    <3> QED
      BY <1>a, <3>1
  <2>11. AnswersInOrder'
    BY <1>q, <2>2, <2>3, <2>5, <2>6, <2>9, <2>10 DEF AnswersInOrder
  <2> QED
    BY <1>w, <2>7, <2>11
<1>5. ASSUME Connects PROVE AlignInv'
  <2>1. lookup = <<>>
    BY <1>5 DEF Connects, PeerInv
  <2>2. lookup' = <<>> /\ stale' = q /\ queue' = queue
    BY <1>5, <1>q, <2>1 DEF Connects
  <2>3. forward'.in = <<>> /\ forward'.out = <<>>
    BY <1>5 DEF Connects, Accepted, Closed
  <2>4. Len(<<>>) = 0
    OBVIOUS
  <2> QED
    BY <1>l, <1>q, <1>w, <2>2, <2>3, <2>4 DEF AnswersInOrder
<1>6. ASSUME HangsUp PROVE AlignInv'
  <2>1. lookup' = <<>> /\ UNCHANGED <<queue, stale>> /\ forward' = Hangup(forward)
    BY <1>6 DEF HangsUp
  <2>2. CASE forward.alive
    <3>1. forward'.in = in /\ forward'.out = <<>> /\ ~forward'.alive
          /\ forward'.open = forward.open
      BY <1>c, <2>1, <2>2 DEF Hangup
    <3>2. Len(<<>>) = 0
      OBVIOUS
    <3>3. AnswersInOrder'
      BY <1>a, <1>q, <2>1, <3>1, <3>2 DEF AnswersInOrder
    <3>4. /\ Len(queue') = q /\ stale' = stale /\ Len(forward'.in) = n
          /\ Len(lookup') = 0 /\ Len(forward'.out) = 0
      BY <1>q, <2>1, <3>1, <3>2
    <3> QED
      BY <1>l, <1>w, <3>1, <3>3, <3>4
  <2>3. CASE ~forward.alive
    <3>1. forward' = forward /\ lookup' = lookup
      BY <2>1, <2>3 DEF Hangup, PeerInv
    <3> QED
      BY <2>1, <3>1 DEF AlignInv, QueueCovers, Outstanding, AnswersInOrder
  <2> QED
    BY <2>2, <2>3, <1>c
<1>7. ASSUME Closes PROVE AlignInv'
  <2>1. lookup = <<>> /\ UNCHANGED <<queue, lookup, stale>> /\ forward' = Closed
    BY <1>7 DEF Closes, AtEnd, PeerInv
  <2> QED
    BY <2>1 DEF AlignInv, QueueCovers, Outstanding, AnswersInOrder, Closed
<1>8. ASSUME UNCHANGED <<queue, lookup, stale>>, UNCHANGED forward \/ Clears PROVE AlignInv'
  <2>1. /\ forward'.open = forward.open /\ forward'.alive = forward.alive
        /\ forward'.in = in /\ forward'.out = out
    BY <1>8, <1>c DEF Clears
  <2> QED
    BY <1>8, <2>1 DEF AlignInv, QueueCovers, Outstanding, AnswersInOrder
<1>9. ASSUME Clears PROVE AlignInv'
  BY <1>8, <1>9 DEF Clears
<1> QED
  BY <1>1, <1>2, <1>3, <1>4, <1>5, <1>6, <1>7, <1>8, <1>9
     DEF PathStep, SendsDirectly

\* The inductive invariant of the forwarding path holds: whose connections are whose, and
\* which package each answer, lookup and request is about.
THEOREM PathInvariant == Spec => []PathInv
<1>1. PathInv /\ [Next]_vars => PathInv'
  BY TypeNext, PeerNext, PathSteps, AlignNext DEF PathInv
<1> QED
  BY <1>1, PathInit, PTL DEF Spec

\* Every answer of routerd that mipd reads finds a package in the queue, whatever routerds
\* have come and gone: forwarding.c:91 never hands on a NULL package.
THEOREM EveryAnswerHasAPackage == Spec => []QueueCovers
<1>1. PathInv => QueueCovers
  BY DEF PathInv, AlignInv
<1> QED
  BY <1>1, PathInvariant, PTL

\* The n-th answer, lookup or request on a connection is about the n-th package queued
\* since the connection was accepted.
THEOREM AnswersStayInOrder == Spec => []AnswersInOrder
<1>1. PathInv => AnswersInOrder
  BY DEF PathInv, AlignInv
<1> QED
  BY <1>1, PathInvariant, PTL

\* A routerd that has come up is served on both its sockets, as soon as mipd has accepted
\* its connections, however many routerds were killed or failed to start before.
THEOREM RouterIsServed == Spec => []RouterServed
<1>1. PathInv => RouterServed
  BY DEF PathInv, ServedInv, Served, RouterServed
<1> QED
  BY <1>1, PathInvariant, PTL

\* The answer mipd pops is for the package it pops, if no package was left over when the
\* connection was accepted.
LEMMA PopsItsOwn ==
  ASSUME TypeInv, PeerInv, AlignInv, Pops
  PROVE  /\ queue # <<>> /\ queue' = Tail(queue) /\ Head(queue) \in Package
         /\ stale = 0 => Head(forward.in).asked = Head(queue).dst
<1>1. forward.open /\ forward.in # <<>>
  BY DEF Pops, PeerInv, Closed
<1>2. /\ queue \in Seq(Package) /\ forward.in \in Seq(Answer)
      /\ Len(lookup) \in Nat /\ Len(forward.out) \in Nat /\ stale \in Nat
  BY Lengths DEF TypeInv, TypeOK, Conn
<1>3. Len(queue) >= stale + (Len(forward.in) + Len(lookup) + Len(forward.out))
  BY <1>1 DEF AlignInv, QueueCovers, Outstanding
<1>4. Len(forward.in) \in Nat /\ Len(forward.in) >= 1
  BY <1>1, <1>2
<1>5. Len(queue) >= 1
  <2>1. \A a, b, c, d, e \in Nat : a >= b + (c + d + e) /\ c >= 1 => a >= 1
    OBVIOUS
  <2> QED
    BY <1>3, <1>4, <2>1, Lengths
<1>6. queue # <<>> /\ Head(queue) \in Package /\ Head(queue) = queue[1]
  BY <1>2, <1>5
<1>7. Head(forward.in) = forward.in[1]
  BY <1>1, <1>2
<1>8. ASSUME stale = 0 PROVE forward.in[1].asked = queue[1].dst
  <2>1. 1 \in 1 .. Len(forward.in) /\ stale + 1 = 1
    BY <1>4, <1>8
  <2> QED
    BY <2>1 DEF AlignInv, AnswersInOrder
<1> QED
  BY <1>6, <1>7, <1>8 DEF Pops, ForwardQueue_pop

\* While no package was left over by an earlier routerd, a package goes to the next hop
\* that routerd gave for the package's own destination.
THEOREM PackagesTakeTheirOwnRoute == Spec => RoutedUnlessStale
<1>1. PathInv /\ [Next]_vars => [\A s \in sent' \ sent : stale = 0 => s.asked = s.pkg.dst]_vars
  <2> SUFFICES ASSUME PathInv, [Next]_vars, NEW s \in sent' \ sent, stale = 0
               PROVE  s.asked = s.pkg.dst
    OBVIOUS
  <2> USE DEF PathInv
  <2>1. PathStep
    BY PathSteps
  <2>2. CASE Pops
    <3>1. s = [pkg |-> Head(queue), hop |-> Head(forward.in).hop,
               asked |-> Head(forward.in).asked]
      BY <2>2 DEF Pops
    <3> QED
      BY <2>2, <3>1, PopsItsOwn
  <2>3. CASE \E p \in Package : SendsDirectly(p)
    BY <2>3 DEF SendsDirectly
  <2> QED
    BY <2>1, <2>2, <2>3
       DEF PathStep, Pushes, LooksUp, Answers, Connects, HangsUp, Closes, Clears
<1> QED
  BY <1>1, PathInvariant, PTL DEF Spec, RoutedUnlessStale

-----------------------------------------------------------------------------
(* The host implements ForwardService while no package is left over by an    *)
(* earlier routerd                                                           *)

\* Pending, as an operator on the queue and the answers in the socket.
PendingOf(q, in) ==
  [i \in 1 .. Len(q) |->
     [pkg |-> q[i], answers |-> IF i <= Len(in) THEN <<in[i]>> ELSE <<>>]]

Waiting == [pkg : Package, answers : Seq(Answer)]

\* What the service sees of a queue and the answers on their way, package by package.
LEMMA PendingType ==
  ASSUME NEW q \in Seq(Package), NEW in \in Seq(Answer)
  PROVE  /\ PendingOf(q, in) \in Seq(Waiting)
         /\ Len(PendingOf(q, in)) = Len(q) /\ Len(q) \in Nat /\ Len(in) \in Nat
         /\ \A i \in 1 .. Len(q) :
              PendingOf(q, in)[i] =
                [pkg |-> q[i], answers |-> IF i <= Len(in) THEN <<in[i]>> ELSE <<>>]
<1>1. Len(q) \in Nat /\ Len(in) \in Nat
  OBVIOUS
<1>2. ASSUME NEW i \in 1 .. Len(q)
      PROVE  [pkg |-> q[i], answers |-> IF i <= Len(in) THEN <<in[i]>> ELSE <<>>] \in Waiting
  <2>1. q[i] \in Package
    OBVIOUS
  <2>2. i <= Len(in) => <<in[i]>> \in Seq(Answer)
    <3>1. i <= Len(in) => in[i] \in Answer
      BY <1>1
    <3> QED
      BY <3>1
  <2> QED
    BY <2>1, <2>2 DEF Waiting
<1> QED
  BY <1>1, <1>2 DEF PendingOf

\* Sequences of one length with the same elements are the same.
LEMMA SameElements ==
  ASSUME NEW S, NEW s \in Seq(S), NEW t \in Seq(S),
         Len(s) = Len(t), \A i \in 1 .. Len(s) : s[i] = t[i]
  PROVE  s = t
OBVIOUS

\* A package that is pushed is the last one pending, without an answer.
LEMMA PendingPush ==
  ASSUME NEW q \in Seq(Package), NEW in \in Seq(Answer), NEW p \in Package, Len(in) <= Len(q)
  PROVE  PendingOf(Append(q, p), in) = Append(PendingOf(q, in), [pkg |-> p, answers |-> <<>>])
<1> DEFINE e == [pkg |-> p, answers |-> <<>>]
           old == PendingOf(q, in)
           new == PendingOf(Append(q, p), in)
<1>1. /\ Append(q, p) \in Seq(Package) /\ Len(Append(q, p)) = Len(q) + 1
      /\ Append(q, p)[Len(q) + 1] = p /\ \A i \in 1 .. Len(q) : Append(q, p)[i] = q[i]
  OBVIOUS
<1>2. Len(q) \in Nat /\ Len(in) \in Nat /\ e \in Waiting
  BY DEF Waiting
<1>3. /\ old \in Seq(Waiting) /\ Len(old) = Len(q)
      /\ \A i \in 1 .. Len(q) :
           old[i] = [pkg |-> q[i], answers |-> IF i <= Len(in) THEN <<in[i]>> ELSE <<>>]
  BY PendingType
<1>4. /\ new \in Seq(Waiting) /\ Len(new) = Len(q) + 1
      /\ \A i \in 1 .. Len(q) + 1 :
           new[i] = [pkg |-> Append(q, p)[i],
                     answers |-> IF i <= Len(in) THEN <<in[i]>> ELSE <<>>]
  <2> DEFINE r == Append(q, p)
  <2>1. r \in Seq(Package) /\ Len(r) = Len(q) + 1
    BY <1>1
  <2> HIDE DEF r
  <2>2. /\ PendingOf(r, in) \in Seq(Waiting) /\ Len(PendingOf(r, in)) = Len(r)
        /\ \A i \in 1 .. Len(r) :
             PendingOf(r, in)[i] = [pkg |-> r[i],
                                    answers |-> IF i <= Len(in) THEN <<in[i]>> ELSE <<>>]
    BY <2>1, PendingType
  <2> QED
    BY <2>1, <2>2 DEF r
<1> HIDE DEF old, new, e
<1>5. /\ Append(old, e) \in Seq(Waiting) /\ Len(Append(old, e)) = Len(q) + 1
      /\ Append(old, e)[Len(q) + 1] = e
      /\ \A i \in 1 .. Len(q) : Append(old, e)[i] = old[i]
  BY <1>2, <1>3
<1>6. ASSUME NEW i \in 1 .. Len(q) + 1 PROVE new[i] = Append(old, e)[i]
  <2>1. CASE i = Len(q) + 1
    <3>1. ~(i <= Len(in))
      BY <1>2, <2>1
    <3> QED
      BY <1>1, <1>4, <1>5, <2>1, <3>1 DEF e
  <2>2. CASE i # Len(q) + 1
    <3>1. i \in 1 .. Len(q)
      BY <1>2, <2>2
    <3> QED
      BY <1>1, <1>3, <1>4, <1>5, <3>1
  <2> QED
    BY <2>1, <2>2
<1>7. new = Append(old, e)
  BY <1>4, <1>5, <1>6, SameElements
<1> QED
  BY <1>7 DEF old, new, e

\* The oldest package and the oldest answer are those of the first one pending.
LEMMA PendingPop ==
  ASSUME NEW q \in Seq(Package), NEW in \in Seq(Answer), q # <<>>, in # <<>>
  PROVE  /\ PendingOf(q, in) # <<>>
         /\ PendingOf(Tail(q), Tail(in)) = Tail(PendingOf(q, in))
         /\ Head(PendingOf(q, in)) = [pkg |-> Head(q), answers |-> <<Head(in)>>]
<1> DEFINE old == PendingOf(q, in)
           new == PendingOf(Tail(q), Tail(in))
<1>1. /\ Tail(q) \in Seq(Package) /\ Len(Tail(q)) = Len(q) - 1 /\ Len(q) \in Nat \ {0}
      /\ Head(q) = q[1] /\ \A i \in 1 .. Len(q) - 1 : Tail(q)[i] = q[i + 1]
  OBVIOUS
<1>2. /\ Tail(in) \in Seq(Answer) /\ Len(Tail(in)) = Len(in) - 1 /\ Len(in) \in Nat \ {0}
      /\ Head(in) = in[1] /\ \A i \in 1 .. Len(in) - 1 : Tail(in)[i] = in[i + 1]
  OBVIOUS
<1>3. /\ old \in Seq(Waiting) /\ Len(old) = Len(q)
      /\ \A i \in 1 .. Len(q) :
           old[i] = [pkg |-> q[i], answers |-> IF i <= Len(in) THEN <<in[i]>> ELSE <<>>]
  BY PendingType
<1>4. /\ new \in Seq(Waiting) /\ Len(new) = Len(q) - 1
      /\ \A i \in 1 .. Len(q) - 1 :
           new[i] = [pkg |-> Tail(q)[i],
                     answers |-> IF i <= Len(in) - 1 THEN <<Tail(in)[i]>> ELSE <<>>]
  BY <1>1, <1>2, PendingType
<1> HIDE DEF old, new
<1>5. /\ old # <<>> /\ Tail(old) \in Seq(Waiting) /\ Len(Tail(old)) = Len(q) - 1
      /\ Head(old) = old[1]
      /\ \A i \in 1 .. Len(q) - 1 : Tail(old)[i] = old[i + 1]
  BY <1>1, <1>3
<1>6. ASSUME NEW i \in 1 .. Len(q) - 1 PROVE new[i] = Tail(old)[i]
  <2>1. i + 1 \in 1 .. Len(q) /\ (i + 1 <= Len(in) <=> i <= Len(in) - 1)
    BY <1>1, <1>2
  <2>2. i <= Len(in) - 1 => Tail(in)[i] = in[i + 1]
    BY <1>2
  <2> QED
    BY <1>1, <1>3, <1>4, <1>5, <2>1, <2>2
<1>7. new = Tail(old)
  BY <1>4, <1>5, <1>6, SameElements
<1>8. old[1] = [pkg |-> Head(q), answers |-> <<Head(in)>>]
  <2>1. 1 \in 1 .. Len(q) /\ 1 <= Len(in)
    BY <1>1, <1>2
  <2> QED
    BY <1>1, <1>2, <1>3, <2>1
<1> QED
  BY <1>5, <1>7, <1>8 DEF old, new

\* A new answer is that of the oldest package without one.
LEMMA PendingAnswer ==
  ASSUME NEW q \in Seq(Package), NEW in \in Seq(Answer), NEW a \in Answer, Len(in) < Len(q)
  PROVE  LET k == Len(in) + 1 IN
         /\ k \in 1 .. Len(q)
         /\ PendingOf(q, in)[k] = [pkg |-> q[k], answers |-> <<>>]
         /\ \A j \in 1 .. k - 1 : PendingOf(q, in)[j].answers # <<>>
         /\ PendingOf(q, Append(in, a)) = [PendingOf(q, in) EXCEPT ![k].answers = <<a>>]
<1> DEFINE k == Len(in) + 1
           old == PendingOf(q, in)
           new == PendingOf(q, Append(in, a))
<1>1. /\ Append(in, a) \in Seq(Answer) /\ Len(Append(in, a)) = k
      /\ Append(in, a)[k] = a /\ \A i \in 1 .. Len(in) : Append(in, a)[i] = in[i]
  OBVIOUS
<1>2. Len(q) \in Nat /\ Len(in) \in Nat /\ k \in 1 .. Len(q)
  OBVIOUS
<1>3. /\ old \in Seq(Waiting) /\ Len(old) = Len(q)
      /\ \A i \in 1 .. Len(q) :
           old[i] = [pkg |-> q[i], answers |-> IF i <= Len(in) THEN <<in[i]>> ELSE <<>>]
  BY PendingType
<1>4. /\ new \in Seq(Waiting) /\ Len(new) = Len(q)
      /\ \A i \in 1 .. Len(q) :
           new[i] = [pkg |-> q[i], answers |-> IF i <= k THEN <<Append(in, a)[i]>> ELSE <<>>]
  BY <1>1, PendingType
<1>5. old[k] = [pkg |-> q[k], answers |-> <<>>]
  <2>1. ~(k <= Len(in))
    BY <1>2
  <2> HIDE DEF k, old
  <2> QED
    BY <1>2, <1>3, <2>1
<1>6. ASSUME NEW j \in 1 .. k - 1 PROVE old[j].answers # <<>>
  <2>1. j \in 1 .. Len(q) /\ j <= Len(in)
    BY <1>2
  <2> HIDE DEF k, old
  <2>2. old[j] = [pkg |-> q[j], answers |-> <<in[j]>>]
    BY <1>3, <2>1
  <2>3. old[j].answers = <<in[j]>>
    BY <2>2
  <2> QED
    BY <2>3
<1> DEFINE put == [old EXCEPT ![k].answers = <<a>>]
<1>7. put \in Seq(Waiting) /\ Len(put) = Len(q)
      /\ put[k] = [pkg |-> q[k], answers |-> <<a>>]
      /\ \A i \in 1 .. Len(q) : i # k => put[i] = old[i]
  <2>1. [old[k] EXCEPT !.answers = <<a>>] = [pkg |-> q[k], answers |-> <<a>>]
    BY <1>5
  <2>2. [pkg |-> q[k], answers |-> <<a>>] \in Waiting
    BY <1>2 DEF Waiting
  <2> DEFINE e == [pkg |-> q[k], answers |-> <<a>>]
  <2>3. put = [old EXCEPT ![k] = e]
    BY <2>1
  <2> HIDE DEF k, old, put, e
  <2>4. /\ [old EXCEPT ![k] = e] \in Seq(Waiting) /\ Len([old EXCEPT ![k] = e]) = Len(q)
        /\ [old EXCEPT ![k] = e][k] = e
        /\ \A i \in 1 .. Len(q) : i # k => [old EXCEPT ![k] = e][i] = old[i]
    BY <1>2, <1>3, <2>2 DEF e
  <2> QED
    BY <2>3, <2>4 DEF e
<1>8. ASSUME NEW i \in 1 .. Len(q) PROVE new[i] = put[i]
  <2>1. CASE i = k
    <3> HIDE DEF new, put
    <3> QED
      BY <1>1, <1>2, <1>4, <1>7, <2>1
  <2>2. CASE i # k
    <3>1. i <= k <=> i <= Len(in)
      BY <1>2, <2>2
    <3>2. i <= Len(in) => Append(in, a)[i] = in[i]
      BY <1>1, <1>2
    <3> HIDE DEF new, put, k, old
    <3> QED
      BY <1>3, <1>4, <1>7, <2>2, <3>1, <3>2
  <2> QED
    BY <2>1, <2>2
<1>9. new = put
  <2> HIDE DEF new, put
  <2> QED
    BY <1>4, <1>7, <1>8, SameElements
<1> QED
  BY <1>2, <1>5, <1>6, <1>9

\* Every step of the host that changes what the service can see is a step of the service:
\* a push is Accept, routerd's answer is Answered, its reading Forward or Drop.
LEMMA ServiceSteps ==
  PathInv /\ [Next]_vars /\ stale = 0 /\ stale' = 0 => [Service!Next]_(Service!vars)
<1> SUFFICES ASSUME PathInv, [Next]_vars, stale = 0, stale' = 0
             PROVE  Service!Next \/ UNCHANGED <<Pending, sent>>
  BY DEF Service!vars
<1> USE DEF PathInv
<1> DEFINE in == forward.in
<1>p. PathStep
  BY PathSteps
<1>c. /\ queue \in Seq(Package) /\ in \in Seq(Answer) /\ lookup \in Seq(Addr)
      /\ forward = [open |-> forward.open, alive |-> forward.alive, reset |-> forward.reset,
                    in |-> forward.in, out |-> forward.out]
  BY DEF TypeInv, TypeOK, Conn
<1>d. Pending = PendingOf(queue, in) /\ Pending' = PendingOf(queue', forward'.in)
  BY DEF Pending, PendingOf
<1>1. ASSUME NEW p \in Package, Pushes(p) PROVE Service!Next
  <2>1. queue' = Append(queue, p) /\ forward'.in = in /\ UNCHANGED sent
    BY <1>1, <1>c DEF Pushes, Put
  <2>2. Len(in) <= Len(queue)
    <3>1. forward.open /\ Len(queue) >= stale + (Len(in) + Len(lookup) + Len(forward.out))
      BY <1>1 DEF Pushes, PeerInv, AlignInv, QueueCovers, Outstanding
    <3>2. \A a, b, c, d, f \in Nat : a >= b + (c + d + f) => c <= a
      OBVIOUS
    <3> QED
      BY <3>1, <3>2, Lengths
  <2>3. Pending' = Append(Pending, [pkg |-> p, answers |-> <<>>])
    BY <1>c, <1>d, <2>1, <2>2, PendingPush
  <2>4. Service!Accept
    BY <2>1, <2>3 DEF Service!Accept
  <2> QED
    BY <2>4 DEF Service!Next
<1>2. ASSUME Pops PROVE Service!Next
  <2> DEFINE a == Head(in)
             p == Head(queue)
  <2>1. /\ queue # <<>> /\ in # <<>> /\ queue' = Tail(queue) /\ forward'.in = Tail(in)
        /\ a \in Answer
    BY <1>2, <1>c, PopsItsOwn DEF Pops, Got
  <2>2. /\ Pending # <<>> /\ Pending' = Tail(Pending)
        /\ Head(Pending) = [pkg |-> p, answers |-> <<a>>]
    BY <1>c, <1>d, <2>1, PendingPop
  <2>3. Head(Pending).answers = <<a>> /\ Head(Pending).pkg = p
    BY <2>2
  <2>4. CASE UNCHANGED sent
    <3>1. <<a>> # <<>>
      OBVIOUS
    <3>2. Service!Drop
      BY <2>2, <2>3, <2>4, <3>1 DEF Service!Drop
    <3> QED
      BY <3>2 DEF Service!Next
  <2>5. CASE /\ a.hop # Broadcast
             /\ sent' = sent \cup {[pkg |-> p, hop |-> a.hop, asked |-> a.asked]}
    <3>1. Service!Left(Head(Pending).pkg, a)
      BY <2>3, <2>5 DEF Service!Left
    <3>2. Service!Forward
      BY <2>1, <2>2, <2>3, <2>5, <3>1 DEF Service!Forward
    <3> QED
      BY <3>2 DEF Service!Next
  <2> QED
    BY <1>2, <2>4, <2>5 DEF Pops
<1>3. ASSUME Answers PROVE Service!Next
  <2>1. PICK hop \in NextHops(Head(lookup)) :
          forward' = [forward EXCEPT !.in = Append(@, [hop |-> hop, asked |-> Head(lookup)])]
    BY <1>3 DEF Answers
  <2> DEFINE a == [hop |-> hop, asked |-> Head(lookup)]
             k == Len(in) + 1
  <2>2. lookup # <<>> /\ UNCHANGED <<queue, stale, sent>>
    BY <1>3 DEF Answers
  <2>3. a \in Answer
    BY <1>c, <2>2 DEF NextHops, Answer, Addr
  <2>4. Len(lookup) = 1 /\ forward.alive /\ forward.open /\ a.asked = lookup[1]
    BY <1>c, <2>2 DEF PeerInv
  <2>5. Len(in) < Len(queue)
    <3>1. Len(queue) >= stale + (Len(in) + Len(lookup) + Len(forward.out))
      BY <2>4 DEF AlignInv, QueueCovers, Outstanding
    <3>2. \A x, b, c, d, f \in Nat : x >= b + (c + d + f) /\ d = 1 => c < x
      OBVIOUS
    <3> QED
      BY <2>4, <3>1, <3>2, Lengths
  <2>6. a.asked = queue[k].dst
    <3>1. 1 \in 1 .. Len(lookup) /\ stale + Len(in) + 1 = k
      BY <2>4, Lengths
    <3> QED
      BY <2>4, <3>1 DEF AlignInv, AnswersInOrder
  <2> HIDE DEF a
  <2>7. forward'.in = Append(in, a)
    BY <1>c, <2>1 DEF a
  <2>8. /\ k \in 1 .. Len(queue) /\ Pending[k] = [pkg |-> queue[k], answers |-> <<>>]
        /\ \A j \in 1 .. k - 1 : Pending[j].answers # <<>>
        /\ Pending' = [Pending EXCEPT ![k].answers = <<a>>]
    <3>1. Pending' = PendingOf(queue, Append(in, a))
      BY <1>d, <2>2, <2>7
    <3>2. /\ k \in 1 .. Len(queue)
          /\ PendingOf(queue, in)[k] = [pkg |-> queue[k], answers |-> <<>>]
          /\ \A j \in 1 .. k - 1 : PendingOf(queue, in)[j].answers # <<>>
          /\ PendingOf(queue, Append(in, a)) =
               [PendingOf(queue, in) EXCEPT ![k].answers = <<a>>]
      BY <1>c, <2>3, <2>5, PendingAnswer
    <3> QED
      BY <1>d, <3>1, <3>2
  <2>9. Len(Pending) = Len(queue)
    BY <1>c, <1>d, PendingType
  <2>10. Pending[k].answers = <<>> /\ a.asked = Pending[k].pkg.dst
    BY <2>6, <2>8
  <2> HIDE DEF k
  <2>11. Service!Answered
    BY <2>2, <2>3, <2>8, <2>9, <2>10 DEF Service!Answered
  <2> QED
    BY <2>11 DEF Service!Next
<1>4. ASSUME NEW p \in Package, SendsDirectly(p) PROVE Service!Next
  <2>1. Pending' = Pending
    BY <1>4, <1>d DEF SendsDirectly
  <2>2. Service!Left(p, [hop |-> p.dst, asked |-> p.dst])
    BY <1>4 DEF SendsDirectly, Service!Left
  <2>3. Service!Direct
    BY <2>1, <2>2 DEF Service!Direct
  <2> QED
    BY <2>3 DEF Service!Next
<1>5. ASSUME LooksUp \/ HangsUp \/ Closes \/ Clears PROVE UNCHANGED <<Pending, sent>>
  <2>1. UNCHANGED <<queue, sent>>
    BY <1>5 DEF LooksUp, HangsUp, Closes, Clears
  <2>2. forward'.in = in
    <3>1. CASE LooksUp
      BY <1>c, <3>1 DEF LooksUp
    <3>2. CASE HangsUp
      BY <1>c, <3>2 DEF HangsUp, Hangup
    <3>3. CASE Closes
      BY <3>3 DEF Closes, AtEnd, Closed
    <3>4. CASE Clears
      BY <1>c, <3>4 DEF Clears
    <3> QED
      BY <1>5, <3>1, <3>2, <3>3, <3>4
  <2> QED
    BY <1>d, <2>1, <2>2
\* A connection that takes over with no package in the queue has no pending one.
<1>6. ASSUME Connects PROVE UNCHANGED <<Pending, sent>>
  <2>1. UNCHANGED <<queue, sent>> /\ Len(queue) = 0
    BY <1>6 DEF Connects
  <2>2. PendingOf(queue, in) = PendingOf(queue, forward'.in)
    BY <2>1 DEF PendingOf
  <2> QED
    BY <1>d, <2>1, <2>2
<1>7. ASSUME UNCHANGED <<queue, forward, lookup, stale, sent>> PROVE UNCHANGED <<Pending, sent>>
  BY <1>7, <1>d
<1> QED
  BY <1>p, <1>1, <1>2, <1>3, <1>4, <1>5, <1>6, <1>7 DEF PathStep

\* At the start no package is pending and none has left.
LEMMA ServiceInit == Init => Service!Init
<1> SUFFICES ASSUME Init PROVE Pending = <<>> /\ sent = {}
  BY DEF Service!Init
<1>1. queue = <<>> /\ sent = {}
  BY DEF Init
<1> QED
  BY <1>1 DEF Pending

\* As long as no package is left over by an earlier routerd, the host does what
\* ForwardService allows, step by step, across any number of routerds.
THEOREM StepsOfTheService ==
  Spec => [][stale = 0 /\ stale' = 0 => [Service!Next]_(Service!vars)]_vars
<1>1. PathInv /\ [Next]_vars => [stale = 0 /\ stale' = 0 => [Service!Next]_(Service!vars)]_vars
  BY ServiceSteps
<1> QED
  BY <1>1, PathInvariant, PTL DEF Spec

-----------------------------------------------------------------------------
(* With one routerd none is ever left over *)

\* The only routerd has not connected, or packages are those asked for on its connection.
OnceInv ==
  /\ stale = 0
  /\ used.routers = 0 => router = "down" /\ backlog["forward"] = <<>>
  /\ router = "connecting" => backlog["forward"] = <<>>
  /\ Len(backlog["forward"]) <= 1
  /\ used.routers = 0 \/ router = "connecting" \/ backlog["forward"] # <<>> =>
       queue = <<>> /\ forward = Closed

\* At the start no routerd has been started.
LEMMA OnceInit == Init => OnceInv
BY DEF Init, OnceInv, Sockets

\* What OnceInv speaks of changes only in the start, the end and the acceptance of routerd,
\* and where a package is pushed or popped.
LEMMA OnceNext ==
  ASSUME MaxRouters <= 1
  PROVE  PathInv /\ OnceInv /\ [Next]_vars => OnceInv'
<1> SUFFICES ASSUME PathInv, OnceInv, [Next]_vars PROVE OnceInv'
  OBVIOUS
<1> USE DEF links, peers, PathInv
<1>c. /\ used.routers \in Nat /\ backlog \in [Sockets -> Seq({"live", "dead"})]
      /\ forward = [open |-> forward.open, alive |-> forward.alive, reset |-> forward.reset,
                    in |-> forward.in, out |-> forward.out]
      /\ used = [packages |-> used.packages, tables |-> used.tables,
                 routers |-> used.routers, apps |-> used.apps]
      /\ router \in {"down", "connecting", "up"}
  BY DEF TypeInv, TypeOK, Conn
<1>n. used.routers < MaxRouters => used.routers = 0
  BY <1>c, BoundsAreNat
<1>p. PathStep
  BY PathSteps
\* Steps in which routerd stays where it is and its connection is not accepted.
<1>1. ASSUME used'.routers = used.routers, router' = router,
             backlog'["forward"] = backlog["forward"]
      PROVE  OnceInv'
  <2>c. ~Connects
    BY <1>1, <1>c DEF Connects, Sockets
  <2>1. stale' = 0
    BY <1>p, <2>c DEF PathStep, OnceInv, Pushes, Pops, LooksUp, Answers, HangsUp, Closes,
                Clears, SendsDirectly
  <2>2. CASE UNCHANGED <<queue, forward>>
    BY <1>1, <2>1, <2>2 DEF OnceInv
  <2>3. CASE forward.open \/ forward.in # <<>>
    BY <1>1, <2>1, <2>3 DEF OnceInv, Closed
  <2>4. CASE ~forward.open /\ forward.in = <<>> /\ ~UNCHANGED <<queue, forward>>
    <3>1. ~forward.alive /\ lookup = <<>> /\ forward = Closed
      BY <2>4 DEF PeerInv
    <3>2. HangsUp \/ Clears
      BY <1>p, <2>4, <2>c, <3>1 DEF PathStep, Pushes, Pops, LooksUp, Answers, SendsDirectly, Closes,
                              AtEnd
    <3>3. UNCHANGED <<queue, forward>>
      BY <3>1, <3>2 DEF HangsUp, Hangup, Clears, Closed
    <3> QED
      BY <2>4, <3>3
  <2> QED
    BY <2>2, <2>3, <2>4, <1>c
<1>2. ASSUME LocalSocket_create \/ update_arp_cache \/ RouteDisconnect \/ ForwardDisconnect
             \/ AppDisconnect \/ BroadcastTable \/ handle_forward_response
             \/ recv_route_table_broadcast \/ AppMessage \/ WriteCompletes \/ WriteFails
             \/ StdinStop \/ recv_forwarding_request \/ send_forwarding_response
             \/ RouterBroadcasts \/ RouterTableWritten \/ handle_route_request
             \/ AppConnects \/ AppDies \/ AppReads
             \/ (\E dst \in Addr, ttl \in 0 .. TTL : TransportFrame(dst, ttl))
             \/ (\E dst \in Addr, short \in BOOLEAN : AppSends(dst, short))
             \/ (\E n \in Neighbour : ArpFrame(n) \/ ArpEntryExpires(n))
      PROVE  OnceInv'
  <2>1. router' = router
    BY <1>2 DEF LocalSocket_create, update_arp_cache, RouteDisconnect, ForwardDisconnect,
         AppDisconnect, BroadcastTable, handle_forward_response, recv_route_table_broadcast,
         AppMessage, WriteCompletes, WriteFails, StdinStop, recv_forwarding_request,
         send_forwarding_response, RouterBroadcasts, RouterTableWritten, handle_route_request,
         AppConnects, AppDies, AppReads, TransportFrame, AppSends, ArpFrame, ArpEntryExpires
  <2>2. used'.routers = used.routers
    BY <1>2, <1>c DEF LocalSocket_create, update_arp_cache, RouteDisconnect, ForwardDisconnect,
         AppDisconnect, BroadcastTable, handle_forward_response, recv_route_table_broadcast,
         AppMessage, WriteCompletes, WriteFails, StdinStop, recv_forwarding_request,
         send_forwarding_response, RouterBroadcasts, RouterTableWritten, handle_route_request,
         AppConnects, AppDies, AppReads, TransportFrame, AppSends, ArpFrame, ArpEntryExpires,
         NewPackage
  <2>3. backlog'["forward"] = backlog["forward"]
    BY <1>2, <1>c DEF LocalSocket_create, update_arp_cache, RouteDisconnect, ForwardDisconnect,
         AppDisconnect, BroadcastTable, handle_forward_response, recv_route_table_broadcast,
         AppMessage, WriteCompletes, WriteFails, StdinStop, recv_forwarding_request,
         send_forwarding_response, RouterBroadcasts, RouterTableWritten, handle_route_request,
         AppConnects, AppDies, AppReads, TransportFrame, AppSends, ArpFrame, ArpEntryExpires,
         Sockets, Connect
  <2> QED
    BY <1>1, <2>1, <2>2, <2>3
<1>3. ASSUME NEW s \in Sockets, handle_domain_socket_connection(s) PROVE OnceInv'
  <2>1. UNCHANGED <<router, queue>> /\ used' = used
        /\ backlog' = [backlog EXCEPT ![s] = Tail(@)] /\ backlog[s] # <<>>
    BY <1>3 DEF handle_domain_socket_connection
  <2>2. CASE s = "forward"
    <3>1. queue = <<>> /\ used.routers # 0 /\ router # "connecting"
      BY <2>1, <2>2 DEF OnceInv, ServedInv, PeerInv
    <3>2. stale' = Len(queue) /\ backlog'["forward"] = Tail(backlog["forward"]) /\ Len(<<>>) = 0
      BY <1>3, <1>c, <2>1, <2>2 DEF handle_domain_socket_connection
    <3>3. backlog'["forward"] = <<>>
      <4>1. backlog["forward"] \in Seq({"live", "dead"}) /\ Len(backlog["forward"]) <= 1
        BY <1>c DEF OnceInv, Sockets
      <4>2. Len(backlog["forward"]) = 1
        BY <2>1, <2>2, <4>1, EndsOfSequence
      <4> QED
        BY <2>1, <2>2, <3>2, <4>1, <4>2, EndsOfSequence
    <3> QED
      BY <2>1, <3>1, <3>2, <3>3 DEF OnceInv
  <2>3. CASE s # "forward"
    <3>1. backlog'["forward"] = backlog["forward"]
      BY <1>c, <2>1, <2>3 DEF Sockets
    <3> QED
      BY <1>1, <2>1, <3>1
  <2> QED
    BY <2>2, <2>3
<1>4. ASSUME RouterStarts PROVE OnceInv'
  <2>1. /\ UNCHANGED <<queue, forward, stale>> /\ used.routers = 0
        /\ used' = [used EXCEPT !.routers = @ + 1]
    BY <1>4, <1>n DEF RouterStarts
  <2>2. used'.routers = 1
    BY <1>c, <2>1
  <2>3. backlog'["forward"] = backlog["forward"] /\ backlog["forward"] = <<>> /\ Len(<<>>) = 0
    BY <1>4, <1>c, <2>1 DEF RouterStarts, Connect, OnceInv, Sockets
  <2> QED
    BY <2>1, <2>2, <2>3 DEF OnceInv
<1>5. ASSUME RouterEnds, router # "down" PROVE OnceInv'
  <2>1. UNCHANGED <<queue, stale, used>> /\ router' = "down" /\ forward' = Hangup(forward)
        /\ backlog'["forward"] = Abandon("forward")
    BY <1>5, <1>c DEF RouterEnds, Sockets
  <2>2. forward = Closed => forward' = Closed
    BY <2>1 DEF Hangup, Closed
  <2>3. /\ backlog["forward"] = <<>> => backlog'["forward"] = <<>>
        /\ Len(backlog'["forward"]) = Len(backlog["forward"])
    <3> DEFINE line == backlog["forward"]
    <3>1. line \in Seq({"live", "dead"}) /\ backlog'["forward"] = [i \in DOMAIN line |-> "dead"]
      BY <1>c, <2>1 DEF Abandon, Sockets
    <3> HIDE DEF line
    <3>2. Len([i \in DOMAIN line |-> "dead"]) = Len(line)
          /\ (line = <<>> => [i \in DOMAIN line |-> "dead"] = <<>>)
      BY <3>1
    <3> QED
      BY <3>1, <3>2 DEF line
  <2> QED
    BY <1>5, <2>1, <2>2, <2>3 DEF OnceInv
<1>6. ASSUME RouterServer_init \/ RouterDies PROVE OnceInv'
  <2>1. CASE /\ router = "connecting" /\ router' = "up"
             /\ Connect("forward") /\ UNCHANGED <<queue, forward, stale, used>>
    <3>1. backlog'["forward"] = Append(<<>>, "live")
      BY <1>c, <2>1 DEF Connect, OnceInv, Sockets
    <3>2. Len(Append(<<>>, "live")) = 1
      OBVIOUS
    <3> QED
      BY <2>1, <3>1, <3>2 DEF OnceInv
  <2>2. CASE RouterEnds /\ router # "down"
    BY <1>5, <2>2
  <2> QED
    BY <1>6, <2>1, <2>2 DEF RouterServer_init, RouterDies
<1>7. ASSUME UNCHANGED vars PROVE OnceInv'
  BY <1>7 DEF vars, OnceInv
<1> QED
  BY <1>2, <1>3, <1>4, <1>6, <1>7 DEF Next, MipdEvent, PeerEvent

\* A host with one routerd in its life implements ForwardService: the packages waiting are
\* answered in order, each for its own destination, and leave in that order or are dropped.
THEOREM ImplementsTheService ==
  ASSUME MaxRouters <= 1
  PROVE  Spec => ImplementsService
<1>1. Init => OnceInv
  BY OnceInit
<1>2. PathInv /\ OnceInv /\ [Next]_vars => OnceInv'
  BY OnceNext
<1>3. PathInv /\ OnceInv /\ OnceInv' /\ [Next]_vars => [Service!Next]_(Service!vars)
  BY ServiceSteps DEF OnceInv
<1> QED
  BY <1>1, <1>2, <1>3, PathInvariant, ServiceInit, PTL DEF Spec, ImplementsService, Service!Spec

-----------------------------------------------------------------------------
(* A package is in one place *)

\* The numbers in a sequence of packages or messages, and that none is there twice.
Ids(s) == {s[i].id : i \in 1 .. Len(s)}
Distinct(s) == \A i, j \in 1 .. Len(s) : s[i].id = s[j].id => i = j

\* The number of the package of the write to routerd that mipd is blocked in, and of
\* those that have left.
Parked == IF mipd = "blocked" /\ Head(work).on = "forward" THEN {Head(Head(work).pkgs).id} ELSE {}
SentIds == {s.pkg.id : s \in sent}

Apart(A, B, C, D) ==
  A \cap B = {} /\ A \cap C = {} /\ A \cap D = {} /\ B \cap C = {} /\ B \cap D = {} /\ C \cap D = {}

\* A package that mipd has not read, that waits for room in routerd's socket, that waits
\* for its answer, or that has left, is in none of the other places, and in one that keeps
\* an order once.  Packages still to come have higher numbers.
IdInv ==
  /\ Distinct(app.in)
  /\ Distinct(queue)
  /\ \A s, t \in sent : s.pkg.id = t.pkg.id => s = t
  /\ Apart(Ids(app.in), Parked, Ids(queue), SentIds)
  /\ \A n \in Ids(app.in) \cup Parked \cup Ids(queue) \cup SentIds : n <= used.packages

\* How the steps move a package.  Loses: nothing moves, though what an application has
\* written, or the package of a write, may be lost.
Loses ==
  /\ UNCHANGED <<queue, sent>>
  /\ app'.in \in {app.in, <<>>}
  /\ Parked' \subseteq Parked
  /\ used'.packages = used.packages

\* A message is written by the application.
Writes(m) ==
  /\ m.id > used.packages /\ used'.packages = m.id
  /\ app'.in = Append(app.in, m)
  /\ Parked' = Parked
  /\ UNCHANGED <<queue, sent>>

\* A package that is new, or is no longer where it was, waits in a write or in the queue,
\* has left, or is lost.
Takes(p) ==
  /\ p.id \notin Ids(app'.in) \cup Ids(queue) \cup SentIds
  /\ p.id <= used'.packages /\ used'.packages >= used.packages
  /\ app'.in \in {app.in, <<>>}
  /\ \/ Parked' \subseteq {p.id} /\ UNCHANGED <<queue, sent>>
     \/ Parked' = {} /\ queue' = Append(queue, p) /\ UNCHANGED sent
     \/ Parked' = {} /\ UNCHANGED queue
        /\ \E hop, asked \in Addr :
             sent' = sent \cup {[pkg |-> p, hop |-> hop, asked |-> asked]}

\* The oldest package leaves the queue.
Leaves ==
  /\ queue # <<>>
  /\ queue' = Tail(queue)
  /\ \/ UNCHANGED sent
     \/ \E hop, asked \in Addr :
          sent' = sent \cup {[pkg |-> Head(queue), hop |-> hop, asked |-> asked]}
  /\ app'.in = app.in
  /\ Parked' = Parked
  /\ used'.packages = used.packages

IdStep ==
  \/ Loses
  \/ \E m \in Message : Writes(m)
  \/ \E p \in Package : Takes(p)
  \/ Leaves

\* A sequence that gets a new number, or loses its first, still has none twice.
LEMMA IdsOfAppend ==
  ASSUME NEW S, NEW s \in Seq(S), NEW e \in S
  PROVE  /\ Ids(Append(s, e)) = Ids(s) \cup {e.id}
         /\ Distinct(s) /\ e.id \notin Ids(s) => Distinct(Append(s, e))
<1> DEFINE t == Append(s, e)
<1>1. /\ Len(s) \in Nat /\ Len(t) = Len(s) + 1
      /\ t[Len(s) + 1] = e /\ \A i \in 1 .. Len(s) : t[i] = s[i]
  OBVIOUS
<1> HIDE DEF t
<1>2. Ids(t) = Ids(s) \cup {e.id}
  <2>1. ASSUME NEW i \in 1 .. Len(t) PROVE t[i].id \in Ids(s) \cup {e.id}
    <3>1. i \in 1 .. Len(s) \/ i = Len(s) + 1
      BY <1>1
    <3> QED
      BY <1>1, <3>1 DEF Ids
  <2>2. ASSUME NEW i \in 1 .. Len(s) PROVE s[i].id \in Ids(t)
    <3>1. i \in 1 .. Len(t) /\ t[i] = s[i]
      BY <1>1
    <3> QED
      BY <3>1 DEF Ids
  <2>3. e.id \in Ids(t)
    <3>1. Len(s) + 1 \in 1 .. Len(t)
      BY <1>1
    <3> QED
      BY <1>1, <3>1 DEF Ids
  <2> QED
    BY <2>1, <2>2, <2>3 DEF Ids
<1>3. ASSUME Distinct(s), e.id \notin Ids(s) PROVE Distinct(t)
  <2> SUFFICES ASSUME NEW i \in 1 .. Len(t), NEW j \in 1 .. Len(t), t[i].id = t[j].id
               PROVE  i = j
    BY DEF Distinct
  <2>1. (i \in 1 .. Len(s) \/ i = Len(s) + 1) /\ (j \in 1 .. Len(s) \/ j = Len(s) + 1)
    BY <1>1
  <2>2. \A k \in 1 .. Len(s) : t[k].id # e.id
    BY <1>1, <1>3 DEF Ids
  <2> QED
    BY <1>1, <1>3, <2>1, <2>2 DEF Distinct
<1> QED
  BY <1>2, <1>3 DEF t

\* A sequence that loses its first keeps the others' numbers, and no longer has the first's.
LEMMA IdsOfTail ==
  ASSUME NEW S, NEW s \in Seq(S), s # <<>>
  PROVE  /\ Ids(Tail(s)) \subseteq Ids(s) /\ Head(s).id \in Ids(s)
         /\ Distinct(s) => Distinct(Tail(s)) /\ Head(s).id \notin Ids(Tail(s))
<1> DEFINE t == Tail(s)
<1>1. /\ Len(s) \in Nat \ {0} /\ Len(t) = Len(s) - 1 /\ Head(s) = s[1]
      /\ \A i \in 1 .. Len(s) - 1 : t[i] = s[i + 1]
  OBVIOUS
<1> HIDE DEF t
<1>2. \A i \in 1 .. Len(t) : i + 1 \in 1 .. Len(s) /\ i + 1 # 1 /\ t[i] = s[i + 1]
  BY <1>1
<1>3. 1 \in 1 .. Len(s)
  BY <1>1
<1>4. Ids(t) \subseteq Ids(s) /\ Head(s).id \in Ids(s)
  BY <1>1, <1>2, <1>3 DEF Ids
<1>5. ASSUME Distinct(s) PROVE Distinct(t)
  <2> SUFFICES ASSUME NEW i \in 1 .. Len(t), NEW j \in 1 .. Len(t), t[i].id = t[j].id
               PROVE  i = j
    BY DEF Distinct
  <2>1. i + 1 = j + 1
    BY <1>2, <1>5 DEF Distinct
  <2> QED
    BY <1>1, <2>1
<1>6. ASSUME Distinct(s) PROVE Head(s).id \notin Ids(t)
  BY <1>1, <1>2, <1>3, <1>6 DEF Distinct, Ids
<1> QED
  BY <1>4, <1>5, <1>6 DEF t

\* A package that leaves and had not left before.
LEMMA IdsOfSent ==
  ASSUME NEW r, r.pkg.id \notin SentIds, sent' = sent \cup {r},
         \A s, t \in sent : s.pkg.id = t.pkg.id => s = t
  PROVE  /\ SentIds' = SentIds \cup {r.pkg.id}
         /\ \A s, t \in sent' : s.pkg.id = t.pkg.id => s = t
BY DEF SentIds

\* However a package moves, it is in one place afterwards.
LEMMA IdNext ==
  ASSUME TypeInv, TypeInv', IdInv, IdStep
  PROVE  IdInv'
<1> DEFINE A == Ids(app.in)
           Q == Ids(queue)
<1>c. app.in \in Seq(Message) /\ queue \in Seq(Package)
  BY DEF TypeInv, TypeOK, Conn
<1>n. used.packages \in Nat /\ used'.packages \in Nat
  BY BoundsAreNat DEF TypeInv, TypeOK
<1>i. /\ \A p \in Package : p.id \in Nat
      /\ \A m \in Message : m.id \in Nat
  BY BoundsAreNat DEF Package, Message
<1>e. Ids(<<>>) = {} /\ Distinct(<<>>)
  BY DEF Ids, Distinct
<1>t. /\ \A n \in A : n \in Nat
      /\ \A n \in Q : n \in Nat
      /\ \A n \in Parked : n \in Nat
      /\ \A n \in SentIds : n \in Nat
  <2>1. (\A n \in A : n \in Nat) /\ (\A n \in Q : n \in Nat)
    BY <1>c, <1>i DEF Ids
  <2>2. \A n \in SentIds : n \in Nat
    BY <1>i DEF SentIds, TypeInv, TypeOK
  <2>3. \A n \in Parked : n \in Nat
    <3>1. mipd = "blocked" /\ Head(work).on = "forward" => Head(Head(work).pkgs) \in Package
      BY WorkTypes
    <3> QED
      BY <1>i, <3>1 DEF Parked
  <2> QED
    BY <2>1, <2>2, <2>3
<1>1. ASSUME Loses PROVE IdInv'
  <2>1. Ids(app'.in) \subseteq A /\ Distinct(app'.in)
    BY <1>1, <1>e DEF Loses, IdInv
  <2>2. Ids(queue') = Q /\ Distinct(queue') /\ SentIds' = SentIds
        /\ \A s, t \in sent' : s.pkg.id = t.pkg.id => s = t
    BY <1>1 DEF Loses, IdInv, SentIds
  <2> QED
    BY <1>1, <2>1, <2>2 DEF Loses, IdInv, Apart
<1>2. ASSUME NEW m \in Message, Writes(m) PROVE IdInv'
  <2>0. \A n \in A \cup Parked \cup Q \cup SentIds : n # m.id /\ n <= m.id
    BY <1>2, <1>i, <1>n, <1>t DEF Writes, IdInv
  <2>1. Ids(app'.in) = A \cup {m.id} /\ Distinct(app'.in)
    BY <1>2, <1>c, <2>0, IdsOfAppend DEF Writes, IdInv
  <2>2. Ids(queue') = Q /\ Distinct(queue') /\ SentIds' = SentIds
        /\ \A s, t \in sent' : s.pkg.id = t.pkg.id => s = t
    BY <1>2 DEF Writes, IdInv, SentIds
  <2>3. Apart(A \cup {m.id}, Parked, Q, SentIds)
    BY <2>0 DEF IdInv, Apart
  <2>4. \A n \in A \cup {m.id} \cup Parked \cup Q \cup SentIds : n <= used'.packages
    BY <1>2, <1>i, <2>0 DEF Writes
  <2> QED
    BY <1>2, <2>1, <2>2, <2>3, <2>4 DEF Writes, IdInv
<1>3. ASSUME NEW p \in Package, Takes(p) PROVE IdInv'
  <2>1. Ids(app'.in) \subseteq A /\ Distinct(app'.in) /\ p.id \notin Ids(app'.in)
    BY <1>3, <1>e DEF Takes, IdInv
  <2>2. p.id \notin Q /\ p.id \notin SentIds
    BY <1>3 DEF Takes
  <2>3. \A n \in Ids(app'.in) \cup Q \cup SentIds \cup {p.id} : n <= used'.packages
    BY <1>3, <1>n, <1>t, <2>1 DEF Takes, IdInv
  <2>4. CASE Parked' \subseteq {p.id} /\ UNCHANGED <<queue, sent>>
    <3>1. SentIds' = SentIds
      BY <2>4 DEF SentIds
    <3> QED
      BY <2>1, <2>2, <2>3, <2>4, <3>1 DEF IdInv, Apart
  <2>5. CASE Parked' = {} /\ queue' = Append(queue, p) /\ UNCHANGED sent
    <3>1. SentIds' = SentIds
      BY <2>5 DEF SentIds
    <3>2. Ids(queue') = Q \cup {p.id} /\ Distinct(queue')
      BY <1>c, <2>2, <2>5, IdsOfAppend DEF IdInv
    <3> QED
      BY <2>1, <2>2, <2>3, <2>5, <3>1, <3>2 DEF IdInv, Apart
  <2>6. ASSUME Parked' = {}, UNCHANGED queue, NEW hop \in Addr, NEW asked \in Addr,
               sent' = sent \cup {[pkg |-> p, hop |-> hop, asked |-> asked]}
        PROVE  IdInv'
    <3> DEFINE r == [pkg |-> p, hop |-> hop, asked |-> asked]
    <3>1. r.pkg = p
      OBVIOUS
    <3> HIDE DEF r
    <3>2. SentIds' = SentIds \cup {p.id} /\ \A s, t \in sent' : s.pkg.id = t.pkg.id => s = t
      <4>1. sent' = sent \cup {r} /\ r.pkg.id \notin SentIds
        BY <2>2, <2>6, <3>1 DEF r
      <4> QED
        BY <3>1, <4>1, IdsOfSent DEF IdInv
    <3> QED
      BY <2>1, <2>2, <2>3, <2>6, <3>2 DEF IdInv, Apart
  <2> QED
    BY <1>3, <2>4, <2>5, <2>6 DEF Takes
<1>4. ASSUME Leaves PROVE IdInv'
  <2> DEFINE p == Head(queue)
  <2>1. Ids(queue') \subseteq Q /\ p.id \in Q /\ Distinct(queue') /\ p.id \notin Ids(queue')
    BY <1>4, <1>c, IdsOfTail DEF Leaves, IdInv
  <2>2. Ids(app'.in) = A /\ Distinct(app'.in) /\ Parked' = Parked
        /\ used'.packages = used.packages
    BY <1>4 DEF Leaves, IdInv
  <2>3. CASE UNCHANGED sent
    <3>1. SentIds' = SentIds
      BY <2>3 DEF SentIds
    <3> QED
      BY <2>1, <2>2, <2>3, <3>1 DEF IdInv, Apart
  <2>4. ASSUME NEW hop \in Addr, NEW asked \in Addr,
               sent' = sent \cup {[pkg |-> p, hop |-> hop, asked |-> asked]}
        PROVE  IdInv'
    <3> DEFINE r == [pkg |-> p, hop |-> hop, asked |-> asked]
    <3>1. r.pkg = p
      OBVIOUS
    <3> HIDE DEF r
    <3>2. SentIds' = SentIds \cup {p.id} /\ \A s, t \in sent' : s.pkg.id = t.pkg.id => s = t
      <4>1. p.id \notin SentIds
        BY <2>1 DEF IdInv, Apart
      <4>2. sent' = sent \cup {r} /\ r.pkg.id \notin SentIds
        BY <2>4, <3>1, <4>1 DEF r
      <4> QED
        BY <3>1, <4>2, IdsOfSent DEF IdInv
    <3> QED
      BY <2>1, <2>2, <3>2 DEF IdInv, Apart
  <2> QED
    BY <1>4, <2>3, <2>4 DEF Leaves
<1> QED
  BY <1>1, <1>2, <1>3, <1>4 DEF IdStep

\* A write to routerd that blocks mipd is about its package.
LEMMA RequestIds ==
  ASSUME NEW p, request_forwarding(p), mipd = "polling", UNCHANGED sent
  PROVE  \/ Parked' \subseteq {p.id} /\ UNCHANGED <<queue, sent>>
         \/ Parked' = {} /\ queue' = Append(queue, p) /\ UNCHANGED sent
<1>1. CASE UNCHANGED <<mipd, work, queue, forward>>
  BY <1>1 DEF Parked
<1>2. CASE ForwardQueue_push(p) /\ UNCHANGED <<mipd, work>>
  BY <1>2 DEF Parked, ForwardQueue_push
<1>3. CASE CannotWrite(forward, "forward", <<p>>) /\ UNCHANGED <<queue, forward>>
  <2>1. CASE mipd' = "killed"
    BY <1>3, <2>1 DEF Parked
  <2>2. CASE work' = <<[on |-> "forward", pkgs |-> <<p>>]>>
    <3> DEFINE w == [on |-> "forward", pkgs |-> <<p>>]
    <3>1. Head(<<w>>) = w /\ w.pkgs = <<p>> /\ Head(<<p>>) = p
      OBVIOUS
    <3> HIDE DEF w
    <3>2. Head(Head(work').pkgs) = p
      BY <2>2, <3>1 DEF w
    <3> QED
      BY <1>3, <3>2 DEF Parked
  <2> QED
    BY <1>3, <2>1, <2>2 DEF CannotWrite
<1> QED
  BY <1>1, <1>2, <1>3, Zenon DEF request_forwarding

\* Every step of the host moves at most one package, in one of these ways.
LEMMA IdSteps == TypeInv /\ IdInv /\ [Next]_vars => IdStep
<1> SUFFICES ASSUME TypeInv, IdInv, [Next]_vars PROVE IdStep
  OBVIOUS
<1> USE DEF links, peers
<1>c. /\ app \in Conn(Message, Package) /\ app.in \in Seq(Message)
      /\ app = [open |-> app.open, alive |-> app.alive, reset |-> app.reset,
                in |-> app.in, out |-> app.out]
      /\ used = [packages |-> used.packages, tables |-> used.tables,
                 routers |-> used.routers, apps |-> used.apps]
  BY DEF TypeInv, TypeOK, Conn
<1>n. used.packages \in Nat
  BY BoundsAreNat DEF TypeInv, TypeOK
<1>p. Polling => Parked = {}
  BY DEF Parked, Polling
<1>w. UNCHANGED <<mipd, work>> => Parked' = Parked
  BY DEF Parked
\* The steps in which no package moves.
<1>1. ASSUME UNCHANGED <<queue, sent, app>>, used'.packages = used.packages, Parked' \subseteq Parked
      PROVE  IdStep
  BY <1>1 DEF IdStep, Loses
<1>2. ASSUME LocalSocket_create \/ RouteDisconnect \/ ForwardDisconnect
             \/ WriteFails \/ StdinStop
      PROVE  IdStep
  <2>1. UNCHANGED <<queue, sent, app, used>>
    BY <1>2 DEF LocalSocket_create, RouteDisconnect, ForwardDisconnect, WriteFails, StdinStop
  <2>2. mipd' # "blocked" \/ UNCHANGED <<mipd, work>>
    BY <1>2 DEF LocalSocket_create, Stages, RouteDisconnect, ForwardDisconnect, Exits,
                WriteFails, StdinStop
  <2>3. Parked' \subseteq Parked
    BY <1>w, <2>2 DEF Parked
  <2> QED
    BY <1>1, <2>1, <2>3
<1>3. ASSUME update_arp_cache \/ BroadcastTable \/ RouterStarts \/ RouterEnds
             \/ recv_forwarding_request \/ send_forwarding_response
             \/ RouterBroadcasts \/ RouterTableWritten \/ handle_route_request
             \/ AppConnects
             \/ (\E n \in Neighbour : ArpFrame(n) \/ ArpEntryExpires(n))
      PROVE  IdStep
  <2>1. UNCHANGED <<queue, sent, app, mipd, work>>
    BY <1>3 DEF update_arp_cache, BroadcastTable, RouterStarts, RouterEnds,
       recv_forwarding_request, send_forwarding_response, RouterBroadcasts,
       RouterTableWritten, handle_route_request, AppConnects, ArpFrame, ArpEntryExpires
  <2>2. used'.packages = used.packages
    BY <1>3, <1>c DEF update_arp_cache, BroadcastTable, RouterStarts, RouterEnds,
       recv_forwarding_request, send_forwarding_response, RouterBroadcasts,
       RouterTableWritten, handle_route_request, AppConnects, ArpFrame, ArpEntryExpires
  <2> QED
    BY <1>1, <1>w, <2>1, <2>2
<1>4. ASSUME RouterServer_init \/ RouterDies PROVE IdStep
  <2>1. RouterEnds \/ UNCHANGED <<queue, sent, app, mipd, work, used>>
    BY <1>4 DEF RouterServer_init, RouterDies
  <2> QED
    BY <1>1, <1>3, <1>w, <2>1
<1>5. ASSUME recv_route_table_broadcast PROVE IdStep
  <2>1. UNCHANGED <<queue, sent, app>> /\ used'.packages = used.packages
    BY <1>5, <1>c DEF recv_route_table_broadcast
  <2>2. mipd' # "blocked" \/ Head(work').on = "route" \/ UNCHANGED <<mipd, work>>
    <3>1. CASE UNCHANGED <<mipd, work>>
      BY <3>1
    <3>2. CASE mipd' = "killed"
      BY <3>2
    <3>3. CASE work' = <<[on |-> "route", pkgs |-> <<>>]>>
      <4> DEFINE w == [on |-> "route", pkgs |-> <<>>]
      <4>1. Head(<<w>>) = w /\ w.on = "route"
        OBVIOUS
      <4> HIDE DEF w
      <4>2. work' = <<w>>
        BY <3>3 DEF w
      <4> QED
        BY <4>1, <4>2
    <3> QED
      BY <1>5, <3>1, <3>2, <3>3 DEF recv_route_table_broadcast, CannotWrite
  <2>3. Parked' \subseteq Parked
    BY <1>w, <2>2 DEF Parked
  <2> QED
    BY <1>1, <2>1, <2>3
\* The steps of the application's connection.
<1>6. ASSUME NEW s \in Sockets, handle_domain_socket_connection(s) PROVE IdStep
  <2>1. app'.in \in {app.in, <<>>}
    BY <1>6 DEF handle_domain_socket_connection, Replaces, Accepted, Closed
  <2>2. UNCHANGED <<queue, sent, mipd, work, used>>
    BY <1>6 DEF handle_domain_socket_connection
  <2> QED
    BY <1>w, <2>1, <2>2 DEF IdStep, Loses
<1>7. ASSUME AppDisconnect \/ AppDies \/ AppReads PROVE IdStep
  <2>1. app'.in \in {app.in, <<>>}
    <3>1. CASE AppDisconnect
      BY <3>1 DEF AppDisconnect, Closed
    <3>2. CASE AppDies
      BY <1>c, <3>2 DEF AppDies, Hangup
    <3>3. CASE AppReads
      BY <1>c, <3>3 DEF AppReads
    <3> QED
      BY <1>7, <3>1, <3>2, <3>3
  <2>2. UNCHANGED <<queue, sent, mipd, work, used>>
    BY <1>7 DEF AppDisconnect, AppDies, AppReads
  <2> QED
    BY <1>w, <2>1, <2>2 DEF IdStep, Loses
<1>8. ASSUME NEW dst \in Addr, NEW short \in BOOLEAN, AppSends(dst, short) PROVE IdStep
  <2> DEFINE m == [id |-> NewId, dst |-> dst, short |-> short]
  <2>1. m \in Message /\ m.id = used.packages + 1
    BY <1>8, NewPackageType DEF AppSends, Message, NewId
  <2>2. app'.in = Append(app.in, m)
    BY <1>8, <1>c DEF AppSends
  <2>3. UNCHANGED <<queue, sent, mipd, work>> /\ used'.packages = used.packages + 1
    BY <1>8, <1>c DEF AppSends, NewPackage
  <2> HIDE DEF m
  <2>4. Writes(m)
    BY <1>n, <1>w, <2>1, <2>2, <2>3 DEF Writes
  <2> QED
    BY <2>1, <2>4 DEF IdStep
\* The steps of packages.
<1>9. ASSUME handle_forward_response PROVE IdStep
  <2> DEFINE a == Head(forward.in)
  <2>1. UNCHANGED <<app, used>>
    BY <1>9 DEF handle_forward_response
  <2>2. Parked' = Parked
    <3>1. UNCHANGED work /\ mipd # "blocked" /\ mipd' # "blocked"
      BY <1>9 DEF handle_forward_response, Exits, Polling
    <3> QED
      BY <3>1 DEF Parked
  <2>3. CASE queue = <<>>
    <3>1. UNCHANGED <<queue, sent>>
      BY <1>9, <2>3 DEF handle_forward_response, ForwardQueue_pop
    <3> QED
      BY <1>1, <2>1, <2>2, <3>1
  <2>4. CASE queue # <<>>
    <3>1. queue' = Tail(queue)
      BY <1>9, <2>4 DEF handle_forward_response, ForwardQueue_pop
    <3>2. a \in Answer
      BY <1>9, ConnTypes DEF handle_forward_response, TypeInv, TypeOK
    <3>3. \/ UNCHANGED sent
          \/ /\ a.hop # Broadcast
             /\ sent' = sent \cup {[pkg |-> Head(queue), hop |-> a.hop, asked |-> a.asked]}
      BY <1>9 DEF handle_forward_response
    <3>4. a.hop # Broadcast => a.hop \in Addr /\ a.asked \in Addr
      BY <3>2 DEF Answer
    <3> HIDE DEF a
    <3>5. Leaves
      BY <2>1, <2>2, <2>4, <3>1, <3>3, <3>4 DEF Leaves
    <3> QED
      BY <3>5 DEF IdStep
  <2> QED
    BY <2>3, <2>4
<1>10. ASSUME NEW dst \in Addr, NEW ttl \in 0 .. TTL, TransportFrame(dst, ttl) PROVE IdStep
  <2> DEFINE p == [id |-> NewId, dst |-> dst, ttl |-> ttl]
             q == [p EXCEPT !.ttl = @ - 1]
  <2>1. p \in Package /\ p.id = used.packages + 1
    BY <1>10, NewPackageType DEF TransportFrame, Package, NewId
  <2>2. UNCHANGED sent /\ mipd = "polling" /\ used'.packages = used.packages + 1
    BY <1>10, <1>c DEF TransportFrame, NewPackage, Polling
  <2>3. p.id \notin Ids(app.in) \cup Ids(queue) \cup SentIds
    BY <1>n, <2>1 DEF IdInv
  <2>4. p.id <= used'.packages /\ used'.packages >= used.packages
    BY <1>n, <2>1, <2>2
  <2>5. ASSUME UNCHANGED app, NEW r \in Package, r.id = p.id, request_forwarding(r)
        PROVE  IdStep
    <3> HIDE DEF p
    <3>1. \/ Parked' \subseteq {r.id} /\ UNCHANGED <<queue, sent>>
          \/ Parked' = {} /\ queue' = Append(queue, r) /\ UNCHANGED sent
      BY <2>2, <2>5, RequestIds
    <3>2. Takes(r)
      BY <2>3, <2>4, <2>5, <3>1 DEF Takes
    <3> QED
      BY <3>2 DEF IdStep
  <2>6. CASE UNCHANGED queue /\ app'.in = app.in /\ (mipd' # "blocked" \/ Head(work').on = "app")
    <3>1. Parked' = {}
      BY <2>6 DEF Parked
    <3> HIDE DEF p
    <3>2. Takes(p)
      BY <2>2, <2>3, <2>4, <2>6, <3>1 DEF Takes
    <3> QED
      BY <2>1, <3>2 DEF IdStep
  <2>7. CASE handle_MIPPackage_for_application(p) /\ UNCHANGED queue
    <3>1. app'.in = app.in
      BY <2>7, <1>c DEF handle_MIPPackage_for_application, Put
    <3>2. mipd' # "blocked" \/ Head(work').on = "app"
      <4> HIDE DEF p
      <4>1. mipd' = "polling" \/ mipd' = "killed" \/ work' = <<[on |-> "app", pkgs |-> <<p>>]>>
        BY <2>2, <2>7 DEF handle_MIPPackage_for_application, CannotWrite
      <4> DEFINE w == [on |-> "app", pkgs |-> <<p>>]
      <4>2. Head(<<w>>) = w /\ w.on = "app"
        OBVIOUS
      <4>3. mipd' = "polling" \/ mipd' = "killed" \/ work' = <<w>>
        BY <4>1
      <4> HIDE DEF w
      <4> QED
        BY <4>2, <4>3
    <3> QED
      BY <2>6, <2>7, <3>1, <3>2
  <2>8. CASE UNCHANGED <<mipd, work, queue, forward, app>>
    BY <2>2, <2>6, <2>8
  <2>9. CASE p.ttl # 0 /\ request_forwarding(q) /\ UNCHANGED app
    <3>1. q \in Package /\ q.id = p.id
      BY <2>1, <2>9, MipdAssumption DEF Package
    <3> HIDE DEF q, p
    <3> QED
      BY <2>5, <2>9, <3>1
  <2> QED
    BY <1>10, <2>7, <2>8, <2>9 DEF TransportFrame, ForwardFrame
<1>11. ASSUME AppMessage PROVE IdStep
  <2> DEFINE m == Head(app.in)
             p == create_queueable_MIPDMessage_MIPPackage(m)
  <2>1. m \in Message /\ m.id \in Ids(app.in)
    BY <1>11, <1>c, IdsOfTail, ConnTypes DEF AppMessage
  <2>2. p \in Package /\ p.id = m.id
    BY <2>1, MipdAssumption DEF create_queueable_MIPDMessage_MIPPackage, Message, Package
  <2>3. app'.in = <<>> /\ UNCHANGED used /\ mipd = "polling"
    BY <1>11, <1>c DEF AppMessage, Polling
  <2>4. p.id \notin Ids(app'.in) \cup Ids(queue) \cup SentIds /\ p.id <= used.packages
    <3>1. Ids(<<>>) = {}
      BY DEF Ids
    <3> QED
      BY <2>1, <2>2, <2>3, <3>1 DEF IdInv, Apart
  <2> HIDE DEF p, m
  <2>5. ASSUME \/ Parked' \subseteq {p.id} /\ UNCHANGED <<queue, sent>>
               \/ Parked' = {} /\ queue' = Append(queue, p) /\ UNCHANGED sent
               \/ Parked' = {} /\ UNCHANGED queue
                  /\ \E hop, asked \in Addr :
                       sent' = sent \cup {[pkg |-> p, hop |-> hop, asked |-> asked]}
        PROVE  IdStep
    <3>1. used'.packages >= used.packages
      BY <1>n, <2>3
    <3>2. Takes(p)
      BY <2>3, <2>4, <2>5, <3>1 DEF Takes
    <3> QED
      BY <2>2, <3>2 DEF IdStep
  <2>6. CASE UNCHANGED <<mipd, work, queue, forward, sent>>
    <3>1. Parked' = {}
      BY <2>3, <2>6 DEF Parked
    <3> QED
      BY <2>5, <2>6, <3>1
  <2>7. CASE handle_domain_socket_request(p) /\ UNCHANGED <<mipd, work, queue, forward>>
    <3>1. Parked' = {} /\ p.dst \in Addr
      BY <2>2, <2>3, <2>7 DEF Parked, Package
    <3>2. sent' = sent \cup {[pkg |-> p, hop |-> p.dst, asked |-> p.dst]}
      BY <2>7 DEF handle_domain_socket_request
    <3> QED
      BY <2>5, <2>7, <3>1, <3>2
  <2>8. CASE request_forwarding(p) /\ UNCHANGED sent
    BY <2>3, <2>5, <2>8, RequestIds
  <2> QED
    BY <1>11, <2>6, <2>7, <2>8 DEF AppMessage, p, m
<1>12. ASSUME WriteCompletes PROVE IdStep
  <2> DEFINE w == Head(work)
             p == Head(w.pkgs)
  <2>1. UNCHANGED <<sent, used>> /\ Parked' = {} /\ mipd = "blocked"
    BY <1>12 DEF WriteCompletes, Parked
  <2>2. app'.in = app.in
    BY <1>12, <1>c DEF WriteCompletes, Put
  <2>3. CASE UNCHANGED queue
    BY <2>1, <2>2, <2>3 DEF IdStep, Loses
  <2>4. CASE w.on = "forward" /\ ForwardQueue_push(p)
    <3>1. p \in Package
      BY <2>1, <2>4, WorkTypes
    <3>2. p.id \in Parked
      BY <2>1, <2>4 DEF Parked
    <3>3. /\ p.id \notin Ids(app'.in) \cup Ids(queue) \cup SentIds
          /\ p.id <= used'.packages /\ used'.packages >= used.packages
      BY <1>n, <2>1, <2>2, <3>2 DEF IdInv, Apart
    <3> HIDE DEF p
    <3>4. Takes(p)
      BY <2>1, <2>2, <2>4, <3>3 DEF Takes, ForwardQueue_push
    <3> QED
      BY <3>1, <3>4 DEF IdStep
  <2> QED
    BY <1>12, <2>3, <2>4 DEF WriteCompletes
<1>13. ASSUME UNCHANGED vars PROVE IdStep
  BY <1>13, <1>1, <1>w DEF vars
<1> QED
  BY <1>2, <1>3, <1>4, <1>5, <1>6, <1>7, <1>8, <1>9, <1>10, <1>11, <1>12, <1>13
     DEF Next, MipdEvent, PeerEvent

\* At the start there is no package.
LEMMA IdInit == Init => IdInv
BY DEF Init, Closed, Ids, Distinct, Parked, SentIds, Apart, IdInv

\* No package is sent twice, and none that was sent still waits for routerd's answer.
THEOREM NoPackageIsSentTwice == Spec => []SentOnce
<1>1. TypeInv /\ TypeInv' /\ IdInv /\ [Next]_vars => IdInv'
  BY IdSteps, IdNext
<1>2. TypeInv /\ IdInv => SentOnce
  <2> SUFFICES ASSUME IdInv, NEW s \in sent, NEW i \in 1 .. Len(queue) PROVE queue[i].id # s.pkg.id
    BY DEF IdInv, SentOnce
  <2>1. queue[i].id \in Ids(queue) /\ s.pkg.id \in SentIds
    BY DEF Ids, SentIds
  <2> QED
    BY <2>1 DEF IdInv, Apart
<1> QED
  BY <1>1, <1>2, IdInit, TypeInit, TypeNext, PTL DEF Spec

=============================================================================
