----------------------------- MODULE MipdProps -----------------------------
(***************************************************************************)
(* What the forwarding path of a host promises.                            *)
(***************************************************************************)
EXTENDS Mipd

\* The requests routerd has still to answer and the answers mipd has still to
\* read, on the accepted connection, oldest first: answers, lookup, requests.
Outstanding == Len(forward.in) + Len(lookup) + Len(forward.out)

\* mipd never pops an empty forward queue: every answer on its way, across any
\* number of routerd restarts, has a package waiting for it.  forwarding.c:91
\* would hand the missing one to load_forward_package as NULL.
QueueCovers == forward.open => Len(queue) >= stale + Outstanding

\* The answers come in the order of the packages: counted from the first package
\* queued on this connection, the n-th answer, lookup or request is about the
\* destination of the n-th package.
AnswersInOrder ==
  /\ \A i \in 1 .. Len(forward.in) : forward.in[i].asked = queue[stale + i].dst
  /\ \A i \in 1 .. Len(lookup) :
       lookup[i] = queue[stale + Len(forward.in) + i].dst
  /\ \A i \in 1 .. Len(forward.out) :
       forward.out[i] = queue[stale + Len(forward.in) + Len(lookup) + i].dst

\* While no package was left over by an earlier routerd, every package that leaves
\* goes to the next hop that routerd gave for the package's own destination.
RoutedUnlessStale ==
  [][\A s \in sent' \ sent : stale = 0 => s.asked = s.pkg.dst]_vars

\* The same without the condition, as the README of routerd has it (line 55): the
\* daemon forwards "in accordance with the current routing table state".
RoutedAsAsked == \A s \in sent : s.asked = s.pkg.dst

\* No package is sent twice, and none that was sent still waits.
SentOnce ==
  /\ \A s, t \in sent : s.pkg.id = t.pkg.id => s = t
  /\ \A s \in sent : \A i \in 1 .. Len(queue) : queue[i].id # s.pkg.id

\* A routerd that has come up is served: once mipd has accepted its connections, they
\* are those mipd uses, though earlier ones, of a routerd that found only one of the
\* sockets or was killed, may not have been seen to end (server.c:238, 247).
RouterServed ==
  router = "up" /\ Alive =>
    /\ backlog["route"] = <<>> => route.open /\ route.alive
    /\ backlog["forward"] = <<>> => forward.open /\ forward.alive

\* mipd waits for the reader of the socket it writes to, routerd for mipd to read an
\* answer or a table.
MipdWaits(s, conn) ==
  mipd = "blocked" /\ Head(work).on = s /\ conn.alive /\ ~Room(conn)
RouterWaits ==
  \/ lookup # <<>> /\ Len(forward.in) = SockCap
  \/ writing /\ Len(route.in) = SockCap
MutualBlock == RouterWaits /\ (MipdWaits("forward", forward) \/ MipdWaits("route", route))

\* mipd and routerd never wait for each other (README of routerd, line 58: lookups
\* must not "block (delay) the forwarding of packets").
NoMutualBlock == ~MutualBlock

-----------------------------------------------------------------------------
(* The service the forwarding path implements while one routerd serves it *)

Pending ==
  [i \in 1 .. Len(queue) |->
     [pkg |-> queue[i],
      answers |-> IF i <= Len(forward.in) THEN <<forward.in[i]>> ELSE <<>>]]

Service == INSTANCE ForwardService WITH pending <- Pending, done <- sent

\* Each step of mipd, routerd and the sockets between them is a step of the
\* service or changes nothing it can see.
ImplementsService == Service!Spec

-----------------------------------------------------------------------------
(* Liveness *)

\* The event loop serves every readable descriptor, routerd both of its sockets,
\* and a blocked write goes on when there is room, or ends when its reader is
\* gone.  Nothing is assumed of the links, the applications, or the ARP cache.
Fairness ==
  /\ WF_vars(handle_forward_response)
  /\ WF_vars(BroadcastTable)
  /\ WF_vars(WriteCompletes) /\ WF_vars(WriteFails)
  /\ WF_vars(recv_forwarding_request)
  /\ WF_vars(send_forwarding_response)
  /\ WF_vars(RouterTableWritten)
  /\ WF_vars(handle_route_request)

FairSpec == Spec /\ Fairness

Queued(id) == \E i \in 1 .. Len(queue) : queue[i].id = id

\* A package that waits for its next hop leaves the queue, while routerd and mipd
\* live and no package is left over from an earlier routerd.  Only two things can
\* keep it there: an application that does not read what mipd writes to it, and the
\* mutual block.
QueuedLeaves ==
  \A id \in 1 .. MaxPackages :
    (Queued(id) /\ stale = 0)
      ~> \/ ~Queued(id) \/ ~forward.alive \/ ~Alive
         \/ MipdWaits("app", app) \/ MutualBlock
=============================================================================
