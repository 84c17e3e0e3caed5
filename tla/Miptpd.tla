------------------------------- MODULE Miptpd -------------------------------
(***************************************************************************)
(* The transport daemon of a host (miptpd/src/lib): its start, its event   *)
(* loop, the connections of its applications with their jobs, and the      *)
(* processes at the other ends: applications, mipd, and whoever types at   *)
(* its terminal.                                                           *)
(*                                                                         *)
(* One turn of the loop waits in epoll_wait, then writes the whole window  *)
(* of every connection to mipd, then handles the events epoll_wait         *)
(* reported, in any order.  A write blocks while mipd's socket is full,    *)
(* and kills the daemon with SIGPIPE when mipd is gone.                    *)
(***************************************************************************)
EXTENDS SendJob

CONSTANTS
  App,        \* the applications, named by their descriptors in the daemon
  Request,    \* what applications ask
  Args,       \* the daemon's command line: strings, as sequences of characters
  ClientStruct, \* bytes of a ClientPackage but for its data pointer (16)
  PortWidth,  \* the number of values of a 14-bit port (2^14)
  Piece,      \* the bytes above which a request may be read in two parts
  MaxEvents,  \* EVENTS_BUFFER_SIZE (5)
  SockCap,    \* bound: messages mipd's socket holds
  MaxWrites,  \* bound: requests the applications write
  MaxNews,    \* bound: packages mipd writes
  MaxEnds     \* bound: how many of the applications, mipd and the daemon are ended
              \* from outside

ClientPackage ==
  [type : {"sender", "receiver", "other"}, port : Nat, dst : Nat, size : UInt16]

ClientPackage_create(port, dst, type, size) ==
  [type |-> type, port |-> port, dst |-> dst, size |-> size]

ASSUME MiptpdAssumption ==
  /\ Request \subseteq ClientPackage
  /\ {PortWidth, MaxEvents, SockCap} \subseteq Nat \ {0}
  /\ {ClientStruct, Piece, MaxWrites, MaxNews, MaxEnds} \subseteq Nat
  /\ IsFiniteSet(App)
  /\ \A k \in DOMAIN Args : Args[k] # <<>>

VARIABLES
  daemon,  \* "down", "connected" to mipd, "listening" for applications; "waiting",
           \* "sending" or "handling" in the loop; or how it ended
  running, \* the flag of the loop
  events,  \* the reported descriptors that are still to be handled
  outbox,  \* the messages handle_outgoing has still to send
  connections, \* app_controller->connections
  stage,   \* stage[a]: "idle", "backlog", "accepted", or "disconnected": its
           \* connection is gone, its descriptor is open and in the epoll set
  left,    \* left[a]: the application has closed its end
  input,   \* input[a]: what it has written and the daemon has not read
  typed,   \* whether "stop" waits at the daemon's terminal
  mipd,    \* "free", "writing" a package to the daemon, or "gone"
  news,    \* whether a package of mipd waits to be read
  toMipd,  \* what the daemon has written and mipd has not read
  used     \* what has been used of the bounds

clients == <<stage, left, input, typed>>
peers   == <<mipd, news, toMipd>>
loop    == <<daemon, running, events, outbox>>
vars    == <<loop, connections, clients, peers, used>>

Descriptor == App \cup {"mipd", "listen", "stdin"}
Port       == 0 .. PortWidth - 1
NoJob      == [size |-> 0, window |-> [base |-> 0, max |-> 0]]
AppConnection ==
  [socket : App, port : Port, dst : Nat, status : {"NOT_READY", "SENDER", "COMPLETE"},
   job : MIPTPSendJob]
MIPDMessage == [dst : Nat, port : Port, package : MIPTPPackage]
\* The bytes of a request, or those of one that come after what a read has returned.
Bytes == [package : Request, length : Nat]
Rest  == [length |-> 0]

\* The connections, in the order of a walk.
conns == Values(connections)

TypeOK ==
  /\ daemon \in {"down", "connected", "listening", "waiting", "sending", "handling",
                 "exited", "killed"}
  /\ running \in BOOLEAN
  /\ events \subseteq Descriptor
  /\ outbox \in Seq(MIPDMessage)
  /\ connections.count \in Nat /\ {connections.first, connections.last} \subseteq Nat
  /\ \A a \in DOMAIN connections.nodes : connections.nodes[a] \in ListNode(AppConnection)
  /\ stage \in [App -> {"idle", "backlog", "accepted", "disconnected"}]
  /\ left \in [App -> BOOLEAN]
  /\ input \in [App -> Seq(Bytes \cup {Rest})]
  /\ typed \in BOOLEAN
  /\ mipd \in {"free", "writing", "gone"}
  /\ news \in BOOLEAN
  /\ toMipd \in Seq(MIPDMessage)
  /\ used \in [writes : 0 .. MaxWrites, news : 0 .. MaxNews, ends : 0 .. MaxEnds]

Init ==
  /\ daemon = "down"
  /\ running = TRUE
  /\ events = {}
  /\ outbox = <<>>
  /\ connections = List_create
  /\ stage = [a \in App |-> "idle"]
  /\ left = [a \in App |-> FALSE]
  /\ input = [a \in App |-> <<>>]
  /\ typed = FALSE
  /\ mipd = "free"
  /\ news = FALSE
  /\ toMipd = <<>>
  /\ used = [writes |-> 0, news |-> 0, ends |-> 0]

Ended == daemon \in {"exited", "killed"}

-----------------------------------------------------------------------------
(* Connections *)

AppConnection_create_not_ready(a) ==
  [socket |-> a, port |-> PortWidth - 1, dst |-> 0, status |-> "NOT_READY", job |-> NoJob]

calc_serialized_package_size(package) == ClientStruct + package.size

\* The length is that of the struct: some bytes of the buffer follow the data.
ClientPackage_serialize(package) ==
  [package |-> package, length |-> calc_serialized_package_size(package)]

\* What may be found in what a read returns: one that begins within a request finds
\* any package in its bytes.
ClientPackage_serialized_get(bytes) == IF bytes = Rest THEN Request ELSE {bytes.package}

ClientPackage_deserialize(bytes) ==
  {ClientPackage_create(g.port, g.dst, g.type, g.size) :
     g \in ClientPackage_serialized_get(bytes)}

connection_type(type) ==
  CASE type = "sender" -> "SENDER" [] type = "receiver" -> "RECEIVER" [] OTHER -> "NOT_READY"

\* The connection for a request; there is none for a receiver, since the check that
\* follows the making of its receive job (ReceiveJob) looks at the send job.
AppConnection_create(a, r) ==
  [socket |-> a,
   port   |-> r.port % PortWidth,
   dst    |-> r.dst,
   status |-> connection_type(r.type),
   job    |-> IF r.type = "sender" THEN MIPTPSendJob_create(r.size) ELSE NoJob]
CreateFails(r) == connection_type(r.type) = "RECEIVER"

AppConnection_next_packages(c) ==
  IF c.status = "SENDER" THEN MIPTPSendJob_next_packages(c.job) ELSE <<>>

AppConnection_receive_package(c, seq) ==
  IF c.status # "SENDER" THEN c
  ELSE LET job == MIPTPSendJob_receive_package(c.job, seq)
       IN [c EXCEPT !.job = job,
                    !.status = IF MIPTPSendJob_is_complete(job) THEN "COMPLETE" ELSE @]

\* The nodes of a's connection, of which there is at most one (ConnectionPerSocket).
NodesOf(a) ==
  {n \in Range(LIST_FOREACH(connections)) : connections.nodes[n].value.socket = a}
is_a_connection(a) == NodesOf(a) # {}

-----------------------------------------------------------------------------
(* The start *)

\* The name of the daemon's own socket is cut to the length of the other one.
MIPTPConfig_create(mipd_socket, app_socket) ==
  [mipd_socket |-> mipd_socket,
   app_socket  |-> SubSeq(app_socket, 1, Min({Len(app_socket), Len(mipd_socket)}))]

\* The sockets' names are the first arguments that are no options; -d is the only
\* option with which the daemon goes on.
Operands == SelectSeq(Args, LAMBDA arg : Head(arg) # "-")
ParseFails == \/ Len(Operands) < 2
              \/ \E k \in DOMAIN Args : Head(Args[k]) = "-" /\ Args[k] # <<"-", "d">>
MIPTPConfig_parse_arguments == MIPTPConfig_create(Operands[1], Operands[2])

\* Without mipd the daemon gives up at once.
connect_to_domain_socket ==
  /\ daemon = "down"
  /\ daemon' = IF ParseFails \/ mipd = "gone" THEN "exited" ELSE "connected"
  /\ UNCHANGED <<running, events, outbox, connections, clients, peers, used>>

BoundSocket_connect ==
  /\ daemon = "connected"
  /\ daemon' = "listening"
  /\ UNCHANGED <<running, events, outbox, connections, clients, peers, used>>

setup_epoll ==
  /\ daemon = "listening"
  /\ daemon' = "waiting"
  /\ UNCHANGED <<running, events, outbox, connections, clients, peers, used>>

-----------------------------------------------------------------------------
(* The loop *)

\* Faulty variant: the sockets of applications are only watched for their end.
ReadableAtEnd(d) ==
  CASE d = "mipd"   -> news \/ mipd = "gone"
    [] d = "listen" -> \E a \in App : stage[a] = "backlog"
    [] d = "stdin"  -> typed
    [] OTHER        -> stage[d] \in {"accepted", "disconnected"} /\ left[d]

Readable(d) ==
  CASE d = "mipd"   -> news \/ mipd = "gone"
    [] d = "listen" -> \E a \in App : stage[a] = "backlog"
    [] d = "stdin"  -> typed
    [] OTHER        -> /\ stage[d] \in {"accepted", "disconnected"}
                       /\ left[d] \/ input[d] # <<>>

Messages(c) ==
  LET packages == AppConnection_next_packages(c)
  IN [i \in DOMAIN packages |->
        [dst |-> c.dst, port |-> c.port, package |-> MIPTPPackage_serialize(packages[i])]]

\* Where the daemon goes on with the messages ms to send and the events ds to handle;
\* go is the flag of the loop.
GoesOn(ms, ds, go) ==
  daemon' = CASE ms # <<>> -> "sending"
              [] ms = <<>> /\ ds # {} -> "handling"
              [] OTHER -> IF go THEN "waiting" ELSE "exited"

\* epoll_wait returns, at a timeout with no event; then the windows are sent.
EpollWait ==
  /\ daemon = "waiting"
  /\ LET ready == {d \in Descriptor : Readable(d)}
     IN events' \in IF Cardinality(ready) <= MaxEvents THEN {ready} ELSE kSubset(MaxEvents, ready)
  /\ \E cs \in {conns} : outbox' = FlattenSeq([i \in DOMAIN cs |-> Messages(cs[i])])
  /\ GoesOn(outbox', events', running)
  /\ UNCHANGED <<running, connections, clients, peers, used>>

send_MIPDMessage ==
  /\ daemon = "sending"
  /\ \/ /\ mipd = "gone"
        /\ daemon' = "killed"
        /\ UNCHANGED <<outbox, toMipd>>
     \/ /\ mipd # "gone" /\ Len(toMipd) < SockCap
        /\ toMipd' = Append(toMipd, Head(outbox))
        /\ outbox' = Tail(outbox)
        /\ GoesOn(outbox', events, running)
  /\ UNCHANGED <<running, events, connections, clients, mipd, news, used>>

-----------------------------------------------------------------------------
(* The handlers of the events *)

Handle(d) ==
  /\ daemon = "handling"
  /\ d \in events
  /\ events' = events \ {d}
  /\ UNCHANGED <<outbox, used>>

Continues == GoesOn(<<>>, events', running)
Exits == daemon' = "exited"

\* The bytes read from mipd are taken for a MIPDMessage struct, whose data pointer
\* then consists of bytes of the package: reading through it kills the daemon or
\* yields any header.
MIPTPPackage_deserialize == [port : Port, PSN : UInt16]

ForEachOf(package) ==
  LET met == {n \in Range(LIST_FOREACH(connections)) :
                connections.nodes[n].value.port = package.port}
      received(node) == [node EXCEPT !.value = AppConnection_receive_package(@, package.PSN)]
  IN connections' = [connections EXCEPT !.nodes =
                       [n \in DOMAIN @ |-> IF n \in met THEN received(@[n]) ELSE @[n]]]

handle_mipd_package ==
  /\ Handle("mipd")
  /\ news
  /\ news' = FALSE
  /\ \/ daemon' = "killed" /\ UNCHANGED connections
     \/ /\ \E package \in MIPTPPackage_deserialize : ForEachOf(package)
        /\ Continues
  /\ UNCHANGED <<running, clients, mipd, toMipd>>

MipdDisconnects ==
  /\ Handle("mipd")
  /\ ~news
  /\ running' = FALSE
  /\ GoesOn(<<>>, events', FALSE)
  /\ UNCHANGED <<connections, clients, peers>>

handle_connection ==
  /\ Handle("listen")
  /\ \E a \in App :
       /\ stage[a] = "backlog"
       /\ stage' = [stage EXCEPT ![a] = "accepted"]
       /\ connections' = List_push(connections, AppConnection_create_not_ready(a))
  /\ Continues
  /\ UNCHANGED <<running, left, input, typed, peers>>

\* Faulty variant: the connection the socket had stays in the list.
AddedTo(list, cur, c) == List_push(list, c)

\* Connection c takes the place of the one at cur, at the end of the list.
ReplacedIn(list, cur, c) == List_push(List_remove(list, cur), c)

handle_app_package(a, r) ==
  IF r.port > 0 /\ r.dst > 0 /\ ~CreateFails(r)
  THEN /\ \E cur \in NodesOf(a) :
            connections' = ReplacedIn(connections, cur, AppConnection_create(a, r))
       /\ Continues
  ELSE Exits /\ UNCHANGED connections

\* What is left after a read, which takes all there is, unless a part of a long
\* request is still to come.
AfterRead(bytes) ==
  {<<>>} \cup IF bytes.length > Piece
              THEN {<<Rest>>} ELSE {}

\* Only the first request of a read is looked at.
AppRequest(a) ==
  /\ Handle(a)
  /\ is_a_connection(a)
  /\ input[a] # <<>>
  /\ \E r \in ClientPackage_deserialize(Head(input[a])) : handle_app_package(a, r)
  /\ \E left_over \in AfterRead(Head(input[a])) : input' = [input EXCEPT ![a] = left_over]
  /\ UNCHANGED <<running, stage, left, typed, peers>>

\* The descriptor is not closed.
Disconnect(a) ==
  /\ Handle(a)
  /\ is_a_connection(a)
  /\ input[a] = <<>>
  /\ \E cur \in NodesOf(a) : connections' = List_remove(connections, cur)
  /\ stage' = [stage EXCEPT ![a] = "disconnected"]
  /\ Continues
  /\ UNCHANGED <<running, left, input, typed, peers>>

\* The descriptor of a connection that is gone: nothing reads it.
NobodysEvent(a) ==
  /\ Handle(a)
  /\ ~is_a_connection(a)
  /\ Continues
  /\ UNCHANGED <<running, connections, clients, peers>>

StdinEvent ==
  /\ Handle("stdin")
  /\ typed' = FALSE
  /\ running' = FALSE
  /\ GoesOn(<<>>, events', FALSE)
  /\ UNCHANGED <<connections, stage, left, input, peers>>

-----------------------------------------------------------------------------
(* The other processes *)

\* An application knows the daemon by the name on the command line.
Connects(a) ==
  /\ daemon \notin {"down", "connected"}
  /\ MIPTPConfig_parse_arguments.app_socket = Operands[2]
  /\ stage[a] = "idle"
  /\ stage' = [stage EXCEPT ![a] = "backlog"]
  /\ UNCHANGED <<loop, connections, left, input, typed, peers, used>>

Writes(a) ==
  /\ stage[a] \in {"backlog", "accepted"}
  /\ ~left[a]
  /\ used.writes < MaxWrites
  /\ \E r \in Request : input' = [input EXCEPT ![a] = Append(@, ClientPackage_serialize(r))]
  /\ used' = [used EXCEPT !.writes = @ + 1]
  /\ UNCHANGED <<loop, connections, stage, left, typed, peers>>

AnEnd ==
  /\ used.ends < MaxEnds
  /\ used' = [used EXCEPT !.ends = @ + 1]

Leaves(a) ==
  /\ stage[a] \in {"backlog", "accepted"}
  /\ ~left[a]
  /\ left' = [left EXCEPT ![a] = TRUE]
  /\ AnEnd
  /\ UNCHANGED <<loop, connections, stage, input, typed, peers>>

TypesStop ==
  /\ ~typed
  /\ typed' = TRUE
  /\ AnEnd
  /\ UNCHANGED <<loop, connections, stage, left, input, peers>>

\* mipd hands a package for its application over, or waits until there is room.
MipdWrites ==
  /\ daemon # "down" /\ mipd = "free"
  /\ used.news < MaxNews
  /\ IF news THEN mipd' = "writing" /\ UNCHANGED news
             ELSE news' = TRUE /\ UNCHANGED mipd
  /\ used' = [used EXCEPT !.news = @ + 1]
  /\ UNCHANGED <<loop, connections, clients, toMipd>>

MipdWritten ==
  /\ mipd = "writing"
  /\ ~news
  /\ news' = TRUE
  /\ mipd' = "free"
  /\ UNCHANGED <<loop, connections, clients, toMipd, used>>

MipdReads ==
  /\ mipd = "free"
  /\ toMipd # <<>>
  /\ toMipd' = Tail(toMipd)
  /\ UNCHANGED <<loop, connections, clients, mipd, news, used>>

\* The daemon's read then fails if mipd has left messages unread; the loop takes that
\* for the end of the stream.
MipdEnds ==
  /\ mipd # "gone"
  /\ mipd' = "gone"
  /\ news' \in {news, FALSE}
  /\ toMipd' = <<>>
  /\ AnEnd
  /\ UNCHANGED <<loop, connections, clients>>

-----------------------------------------------------------------------------
DaemonNext ==
  \/ connect_to_domain_socket \/ BoundSocket_connect \/ setup_epoll
  \/ EpollWait \/ send_MIPDMessage
  \/ handle_mipd_package \/ MipdDisconnects \/ handle_connection \/ StdinEvent
  \/ \E a \in App : AppRequest(a) \/ Disconnect(a) \/ NobodysEvent(a)

\* What the others do once the daemon has ended changes nothing for it.
PeerNext ==
  /\ ~Ended
  /\ \/ \E a \in App : Connects(a) \/ Writes(a) \/ Leaves(a)
     \/ TypesStop
     \/ MipdWrites \/ MipdWritten \/ MipdReads \/ MipdEnds

Next == DaemonNext \/ PeerNext

Spec == Init /\ [][Next]_vars
=============================================================================
