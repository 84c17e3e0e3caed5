# A verification development of the MIP daemons

TLA+ modules for the daemons of this repository: `routerd`, which keeps a
distance-vector routing table, `mipd`, which owns a host's links and forwards
packages, and `miptpd`, which carries applications' data in sliding windows. TLC
checks them on small instances. TLAPS proves their safety for every value of the
constants: the routing protocol for every network (with costs and paths where no route
package is longer than a receiver takes), the forwarding path of a host,
the neighbours on any links, miptpd with any applications, and what the lists,
windows, arrays and maps do for every value.

## 1. The system

| Component | State | Operations | Talks to |
|---|---|---|---|
| routing table (`routerd/src/lib/mip_route_table.c`) | list of entries: destination, next hop, cost, time of last update | create with local addresses, update from a neighbour's table, remove old entries, package, look up | called by the routerd loop |
| routerd loop (`router_server.c`, `routing_handler.c`, `forwarding_handler.c`) | table, `last_broadcast_milli`, two sockets | one thread: broadcast when due, age the table, `epoll_wait`, handle a route package or a forwarding request | mipd, by the route and the forward socket |
| mipd loop (`mipd/src/lib/server.c`) | three local sockets, interface table, ARP cache, forward queue | one thread: refresh the ARP cache, `epoll_wait`, one branch per ready descriptor | routerd, one application, the links |
| forwarding (`router/forwarding.c`) | queue of packages that wait for a next hop | write a request to routerd and queue the package; match an answer with the oldest package | routerd, ARP cache, links |
| routing in mipd (`router/routing.c`) | none | poison and send the local table on each interface; hand a neighbour's table to routerd | links, routerd |
| MIP-ARP (`mip_arp.c`) | cache of at most 64 entries | request, answer, append, expire, query by address or by socket | links |
| packages and messages (`packaging/`, `commons/src/mipd_message.c`) | none | serialise, parse, count the payload in words | all |
| links and start-up (`mipd/src/main`, `link.c`, `interface.c`) | interface table, one raw socket per interface | read the command line, open and bind the sockets, send, receive | the kernel, other hosts |
| miptpd (`miptpd/src/lib`) | a list of applications' connections, each with a send job and its sliding window | one thread: `epoll_wait`, write every window to mipd, handle the events: connections, requests, disconnects, packages from mipd | mipd, transport applications |
| applications (`ping-client`, `ping-server`, `tpclient`, `tpserver`) | none | connect, send, receive, end | mipd or miptpd |
| containers (`commons/src`) | lists and queues; arrays, maps and strings that the daemons do not use | push, remove, send, receive | called by all |

What is hard in it:

* **Interleaving and atomicity.** mipd and routerd are single threads joined by
  two stream sockets, with blocking writes on both sides. An answer names no
  package; correctness rests on three queues (requests, answers, packages) being
  aligned at all times.
* **Crashes.** Each daemon and each application may end and come back; a socket
  may be closed with data in it (`ECONNRESET`), or written to after its other end
  has gone (`SIGPIPE`).
* **Loss, delay and stale news.** Route packages are lost or arrive late, ARP
  entries come and go, and poison reverse depends on the ARP cache.
* **Time.** Broadcast period, poll timeout and age limit interact.
* **Start-up.** routerd looks for two sockets that mipd opens one by one; a raw
  socket hears every interface until it is bound.
* **Numbers.** Costs, positions and windows are unsigned and wrap; tables, caches
  and buffers have fixed sizes.
* **Pointers.** miptpd's connections are a linked list that is changed in the
  middle of walks.

What makes each part correct: a table tells the truth about the topology (own
addresses kept, next hops are neighbours, costs not too short, no loops on a
single path, convergence, forgetting the dead); the ARP cache holds an address
once, keeps live neighbours, and in the end names exactly those, at the right
interfaces; the forwarding path sends every package by the answer to its own
lookup, once, in order, and does not keep it for ever; the daemons survive their
peers and serve those that come next. For miptpd: an application has one
connection, what it wants sent is offered in order until it is acknowledged, and
its requests are read.

`PROJECT.json` lists every component, modelled or not, and every hazard with its
line and the properties that watch it.

## 2. The modules

```
MIPRouteTable   the routing table as operators on values; poison_reverse
  RouteNet      the routerds of a network, their mipds' routing half, the links
    RouteNetProps    topology constants and properties
      MCRouteNet     the networks for TLC: Line, Pair, Shared
      RouteNet_proofs   theorems (TLAPS)
Mipd            one host: mipd's event loop, its sockets, routerd, applications
  MipdProps     properties; the refinement mapping to ForwardService
    MCMipd      the host for TLC
    Mipd_proofs   theorems (TLAPS)
ForwardService  what the forwarding path promises
Packages        MIP headers, payloads in words, messages, as operators
ArpCache        the ARP cache, as operators
  Link          the mipds of several hosts as neighbours: start-up, ARP, frames
    LinkProps   properties
      MCLink    two hosts with two links
      Link_proofs   theorems (TLAPS)
List            the linked list, its nodes in memory, and the queue on it
  List_proofs   theorems (TLAPS)
  SendJob       sliding window and send job, as operators
    ReceiveJob  the receive job, as operators
      Jobs_proofs    theorems (TLAPS)
    Miptpd      miptpd: start, loop, connections, and the processes around it
      MiptpdProps    properties
        MCMiptpd     two applications
        Miptpd_proofs   theorems (TLAPS)
DArray          the growing array, as operators
  Hashmap       the map on it, as operators
    DArray_proofs, Hashmap_proofs   theorems (TLAPS)
```

The modules split the system where little passes between the parts. RouteNet takes
the ARP cache as something that comes and goes, which Link shows it to do; Mipd
takes routerd's answers as any neighbour or none, which RouteNet proves them to be
(`NextHopIsNeighbour`); Link leaves out the packages that go through routerd.

**MIPRouteTable.** The list is a function from destinations to entries;
`Absent` is a destination that is not in the list. This is exact because
`MIPRouteTable_update` removes an entry before it pushes one and no operation
depends on the order. The time of the last update is an age in ticks that
saturates one past the limit, since the code only compares it with the limit.
Costs are numbers modulo `Modulus`, 2^32 in the code.

**RouteNet.** `Args[h]` is routerd's command line, whether it begins with `-d` and the
addresses; `Local` is what `parse_args` makes of it (`cli.c:10-59`), and
`parse_args_fails` says of which command lines it makes nothing. `pc[h]` says where a routerd is: at the top of its loop, in
`epoll_wait`, or not running.

| Action | Code |
|---|---|
| `LoopTop`, `TableTooLarge` | `router_server.c:106-117`: broadcast if due, then remove old entries; a table that fits no package ends the daemon |
| `HandleRouting` | `:125-132`: read one package and update the table |
| `HandleForwarding` | `:135-141`: only the waking up; the answer itself is in Mipd |
| `PollTimesOut` | `:119` |
| `Stop`, `Start` | `:143-160` or a kill; `RouterServer_create` and `_init` |
| `MipdBroadcast`, `Received` | `routing.c:57-97` in the sender, the link, `link.c:81-104` and `routing.c:100-117` in each receiver |
| `append_to_cache`, `remove_from_cache` | `mip_arp.c:41-74`, on the interfaces in `FlakyArp` |
| `Tick` | the clock |

From the sending mipd to the receiving routerd a route package goes through one FIFO,
`inbox`. It is sent with room for 64 entries, but the receiving mipd reads 188 bytes of
a package (`link.c:84`), in which there is room for `RecvEntries`, 20 in the code. The
others are whatever memory holds behind the buffer: `Received` leaves some of the
entries that were sent and puts any entries in place of the rest. A tick is a second in
the code's constants. With `Prompt` a tick waits until no daemon
has anything to do; without it a daemon may be arbitrarily slow.

**Mipd.** `mipd` is `"polling"`, `"blocked"` in a write (then `work` says which),
or says how the daemon ended. A connection is a record of its two buffers, whether
its other end lives, and whether reading its end gives `ECONNRESET`. Each action
is a branch of `MIPDServer_run` (`server.c:205-362`) with everything its handlers
do; a write that cannot complete leaves mipd blocked, and `WriteCompletes` does the
rest of the handler. Where the reader ends first, `WriteFails`: mipd is killed
(`SIGPIPE`), or, if the reader left data unread, the write returns `ECONNRESET`, with
which `request_forwarding` gives up its package and the other handlers end the loop. The processes at the other ends are actions too: routerd
connects, reads a request (`lookup`), answers it, writes and reads tables, ends;
an application connects, sends, reads, ends. `stale` is a history variable: how
many packages were in the queue when the forward connection was accepted.
`sent` records each package that went out, with the destination whose lookup
gave its next hop.

mipd opens its sockets one after the other (`Stages`), and routerd connects to two
of them one after the other (`RouterStarts`, `RouterServer_init`); where the second
is not there yet it ends, and leaves a connection that the next one replaces
(`Replaces`). `backlog` holds the connections that wait to be accepted, in their order,
with whether their other ends live; listen(2) lets `Backlog` wait, 5 in the code.

**ForwardService.** Packages are accepted, answered in order, each for its own
destination, and leave in order or are dropped; a package for a cached neighbour
leaves at once. `MipdProps` maps the queue and the answers in the socket to it.

**Link.** `daemon[h]` says where a mipd is: down, opening its raw sockets, at the
top of its loop, in `epoll_wait`, or handling the events that it reported. A poll
that times out ends up to `Late` units of time later than it should.

| Action | Code |
|---|---|
| `Starts` | `mipd/src/main/cli.c`, `interface.c:120-160`: the command line's addresses on the first interfaces; too many end the program |
| `setup_raw_socket`, `bind` | `mipd.c:43-58`, one interface after the other; until bind(2) a socket hears all |
| `Runs` | `server.c:212`: requests on every interface |
| `update_arp_cache` | `server.c:217`: remove what is too old, send requests if due |
| `EpollWait` | `server.c:219`: at most `MaxEvents` descriptors, or the timeout |
| `ArpResponse`, `handle_mip_arp_request`, `TransportFrame` | `handle_raw_socket_frame`, by the kind of the package, with the reading of it into a short buffer |
| `AppMessage`, `AppMessageTooLong` | `server.c:305-339` with `handle_domain_socket_request`, for a neighbour |
| `Asks`, `PingServerAnswers` | the applications |
| `Ends`, `Tick` | the end of a daemon, the clock |

A payload is its length, and `kept`, the number of its first bytes that are still
the sender's: shorter buffers, words and messages take from it what they cut off.

**List, SendJob, ReceiveJob.** A list is its three fields and the memory with its
nodes; calloc gives the lowest address that is free, so that freed nodes are used
again. Walks follow the links. Data are positions: a package carries `len`
bytes from `from` on. What `MIPTPPackage_serialize` returns leaves out two bytes,
and so does the package that is sent. A receive job's acknowledgement is never made:
`MIPTPPackage_create` refuses a package without data, so that `next_packages` returns
NULL and the job stays as it is.

**Miptpd.** `daemon` says how far the start is, and in the loop whether it waits,
sends (`outbox` has what is left of the windows) or handles events.

| Action | Code |
|---|---|
| `connect_to_domain_socket`, `BoundSocket_connect`, `setup_epoll` | `miptp_config.c`, `miptp_server.c:50-78` |
| `EpollWait` | `:91`, and the packages of `handle_outgoing` |
| `send_MIPDMessage` | `miptp_app_controller.c:236-256`, one message; blocks while mipd's socket is full |
| `handle_mipd_package`, `MipdDisconnects` | `miptp_server.c:102-114`; the bytes are taken for a struct, so that any header, or a crash, comes out |
| `handle_connection` | `:116-121` |
| `AppRequest`, `Disconnect`, `NobodysEvent` | `:123-136`; the descriptor of a connection that is gone stays in the epoll set |
| `StdinEvent` | `:138-149` |
| `Connects`, `Writes`, `Leaves`, `TypesStop`, `Mipd...` | the processes at the other ends |

**DArray, Hashmap.** An array is its fields and the memory it has been given;
`Wild` is what memory holds that was never written. A map is an array of arrays
of nodes with its hash function.

## 3. The runs

Runs that hold:

| Run | Question | Properties |
|---|---|---|
| RouteNetPath | do routes stay on a single path under loss, delay and a restart? | `SplitHorizon`, `FollowsThePath` |
| RouteNetChurn | what remains true when the ARP cache loses a neighbour? | `NextHopIsNeighbour`, `NeverTooShort` |
| RouteNetTimely | does the protocol converge, keep live routes, forget dead ones? | `Converges`, `ForgetsTheDead`, `RouteToNeighbourKept` |
| RouteNetFull | do own addresses survive when tables reach their limit, packages are cut and the rest is read from memory? | `LocalRoutesKept` |
| MipdRestart | do queue, requests and answers stay together across routerd restarts, and is each routerd served, whenever it starts? | `TypeOK`, `QueueCovers`, `AnswersInOrder`, `SentOnce`, `RouterServed`, `RoutedUnlessStale` |
| MipdFlow | with one-item sockets, route tables in both directions and an application: does the host implement the service, and what can keep a package in the queue? | `ImplementsService`, `QueuedLeaves` |
| Link | do hosts know their live neighbours at the right interfaces, through starts, ends and lost frames, and what arrives of a payload? | `TypeOK`, `OneEntryPerAddress`, `FrontArrives`, `LiveNeighbourKept`, `CachesConverge` |
| Miptpd | with applications that ask, ask anew and leave, and any acknowledgements: are list, connections and windows right, and is data offered and are requests read? | `TypeOK`, `ConnectionPerSocket`, `ListSound`, `UnfinishedJobSends`, `WindowsMoveForward`, `OffersAgain`, `RequestsAreRead` |

Runs in which the code departs from what the repository says of it (the quotes are
in `PROJECT.json`, "findings"):

| Run | What it shows |
|---|---|
| RouteNetFlap | with the source's own constants a live route on a lossless link is dropped between two broadcasts, once requests for forwarding have shifted the polls of two hosts against each other |
| RouteNetShared | on a link with three hosts a router is told of a route through itself |
| MipdDeadlock | mipd and routerd block in writes to each other |
| MipdStale | after a restart of routerd packages take other packages' routes |

The modules also contain behaviour that departs from the documents and that can be
read off a single action, so that no run is spent on it:

* A longer distance reported by a route's own next hop is ignored until the route
  is too old (`Accepts`; `routerd/README.md:30` takes the minimum over what the
  neighbours say now).
* A message of the application to one of the host's own addresses ends mipd:
  routerd answers with the address itself, which the ARP cache never holds
  (`handle_forward_response`; `routerd/README.md:55` passes such packages up).
* A message shorter than the `MIPDMessage` struct is dropped, and of several that
  one `recv` returns only the first is looked at (`AppMessage`).
* A write to a peer that has ended, before mipd has read the end of the stream,
  ends mipd by `SIGPIPE` (`CannotWrite`, `WriteFails`).
* Of a payload longer than 162 bytes only the front arrives, as a receiver reads 188
  bytes, where `mip_package.c:31` has packages of up to 1500. `FrontArrives` claims
  the front and nothing more; one of the run's messages has 201 bytes and is cut. Route
  packages are cut in the same way (`Received`).
* With requests every 10 s and a poll timeout of 10 s, strictly compared, a live
  neighbour is dropped without any fault: a poll that ends in time finds 10000 ms not
  over, and if the next ends 1 ms late the entry is 20001 ms old. In Link this is
  `Timeout = Freq` with `Late > 0`; `LiveNeighbourKept` holds where the longest gap
  between two polls, `Timeout + Late`, is at most `Freq`, and the run has that order.
* A message too long for a package ends mipd, where `mip_package.c:33` wants an
  error and nothing sent (`AppMessageTooLong`).
* The ping server's answer, 7 bytes in the stream, is shorter than the struct that
  mipd compares it with, and is dropped unless two are read together (`TooShort`).
* A receiving application ends miptpd, whose check looks at the wrong job
  (`CreateFails`; `miptpd/README.md:12` lets applications listen).
* A transport package sent by miptpd ends two bytes early
  (`MIPTPPackage_serialize`), and a package from mipd is not parsed but taken for
  a struct in memory (`handle_mipd_package`).

### Bounds

* Networks: two hosts (`Pair`), three in a row (`Line`, one destination, at the
  end: the shortest network in which a route is passed on and can come back), and
  three on one link with a fourth behind (`Shared`). The proofs remove this bound.
* The other RouteNet runs have one or two addresses and `RecvEntries` as large, as in a
  network of up to 20 addresses: no package is cut. RouteNetFull has two hosts, an
  address that no host has, and `RecvEntries` 1: of a package with two entries one is
  read from memory, and may name any address.
* `Cap` packages in a socket and on a link: 1 where every delay is explored, since a
  package may then stay as long as it likes and the next one is refused; 3 where
  time is counted, more than ever waits. `Backlog` 5, the code's.
* `Modulus` 4 to 6: above every distance, and small enough that costs which count
  up reach the wrap. `MaxEntries` 3 in RouteNetFull, so that a table is too large when it has
  an entry that was misread beside the two real ones, and fits otherwise.
* `MaxAge`, `BroadcastFreq`, `PollTimeout` are 0 or small where the daemons may be
  slow anyway; RouteNetTimely has the order that makes the protocol work (age limit
  above the longest gap between two broadcasts), RouteNetFlap the code's.
* `MaxStops`, `MaxRouters`: one stop, so that the news of a dead or restarted daemon
  meets every state; in MipdRestart two lifetimes of routerd, the fewest with
  packages left over.
* `MaxPackages` 2 or 4, `MaxTables` up to 2, `MaxApps` 1, `SockCap` 1 or 2: two
  packages can be swapped, and two with two tables, or four alone, let both daemons
  block in writes to each other when a socket holds one item.
* `TTL` 1 in Mipd: a new package, and one that may not go on.
* Link: two hosts with two links between them, which they name in different orders,
  so that an unbound socket hears what it should not. `MaxStarts` 3: both start and
  one starts again. `MaxChances` 1: the end of a daemon, a lost frame or a message;
  convergence, and what one fault may do, are what is asked. The sizes are the
  code's. `Timeout` and `Late` 1 and `Freq` 2: the longest gap between two polls is the
  period of the requests, the closest order in which live neighbours are kept; the code's
  own leaves no room for a late poll (above). Messages have 14 bytes, whose last word is
  not full, 201, of which the receiver takes 162, and 1497, which are too many.
* Miptpd: two applications, so that a connection is removed before, behind or
  between others. `Batch` 2, `Window` 2 and `Width` 6 stand for 1492, 10 and 2^16:
  a job of 5 bytes has three packages, the window reaches beyond it, and
  the position of the fourth wraps. `MaxWrites` 2 and `MaxNews` 2: a request in
  place of an earlier one; two acknowledgements in any order, of any number.
  `MaxEnds` 1, `SockCap` 1: an application, mipd or the daemon goes; every window
  fills the socket. `Piece` splits requests that are long.

The daemons of RouteNet, Mipd and Miptpd may stop (by command, by a kill, by
leaving their loop), so those configurations turn the deadlock check off. Whether
the daemons wait for each other is a property of its own, `NoMutualBlock`. In Link
time goes on while any daemon is up, and a stopped daemon may be started until the
bound: there the deadlock check is on, and `CachesConverge` rests on it.

### Fairness

`RouteNetProps!Fairness`: each daemon that can run does (weak fairness); a readable
route socket is served although forwarding requests come in between, because one
return of `epoll_wait` reports both (strong fairness of `HandleRouting`); time
passes (strong fairness of `Tick`). Nobody has to start a stopped daemon.

`MipdProps!Fairness`: weak fairness of the handlers in both daemons that drain the
sockets between them, and of the end of a blocked write, which completes when
there is room and fails when its reader is gone. Nothing is assumed of the links,
the applications or the ARP cache. Two things may then keep a package in the
queue for ever, and `QueuedLeaves` says that nothing else does: an application
that does not read what mipd is writing to it, and a mutual block of mipd and
routerd (MipdDeadlock shows that it happens).

`LinkProps!Fairness`: steps go on for ever while a daemon is up. This is weak
fairness of `Next`, since a step can always be taken (no deadlock): daemons and ping
servers are never kept from running and time does not stop. Starts, ends, losses
and messages are finitely many by the bounds.

`MiptpdProps!Fairness`: weak fairness of the daemon's thread as a whole, of mipd's
reading of its socket, and of the end of mipd's own write. Nothing is assumed of the
applications, nor of the order in which events are handled: one event may come
last in every turn. `OffersAgain` and `RequestsAreRead` therefore name what may
keep the daemon from going on: its end, mipd's end, and a mutual block of the two. That
mipd reads supposes that it is not itself blocked with its routerd (MipdDeadlock). The
events buffer, which descriptors that are gone fill for ever, is never full in the run.

## 4. What is proved

`RouteNet_proofs` proves, for every network, table, clock and socket bound that
`TableAssumption`, `NetAssumption` and `DistAssumption` admit:

* `TypeCorrect`: `Spec => []TypeOK`.
* `RouteInvariant`: `Spec => []RouteInv`, and from it `OwnAddressesKept`,
  `NextHopsAreNeighbours`, `CostsAreNotTooShort`, `RoutesFollowThePath` and
  `SplitHorizonOnPaths`.

Own addresses and next hops are right in every network, whatever a receiver finds in
memory in place of the entries that are cut off. What is said of costs and paths needs
the costs that were sent: the last three are about networks in which `PackagesFit`
holds, with no more addresses than `RecvEntries`, 20 in the code. In larger ones
they are false.

The assumptions are about the topology: links go both ways, a host's interface
addresses are its own, and `Dist` is a distance (0 exactly at the owner, at most
one more than a neighbour's). `RoutesFollowThePath` and `SplitHorizonOnPaths` speak
of networks in which `OnePath` holds: stable ARP caches with one neighbour per
interface, and one path to each destination.

None of these properties is inductive by itself: a table is updated from
what was once another table, then a package in a socket, then a package on a link,
poisoned on the way. `RouteInv` therefore says the same thing of all the places:
`MaySay` of a table entry and of an advert on its way from routerd to mipd, `MayTell`
of an advert after poisoning. The heart of the argument is in two lemmas.
`UpdateInv`: what a neighbour may tell, one link added, is what a host may say; the
sum does not wrap because poisoned routes are refused, and it never replaces an own
address because its cost is at least 1, misread or not. `PoisonInv`: what is left after poisoning for
the neighbour is what the neighbour may be told; where there is one path, the
routes through the neighbour are exactly those that are poisoned. Each action
then moves an entry from one place to the next, or drops it.

`Mipd_proofs` proves, for every set of addresses, TTL, socket capacity and bound that
`MipdAssumption` admits, every safety property that the runs check of a host:

* `TypeCorrect`; `PathInvariant`: `Spec => []PathInv`, and from it
  `EveryAnswerHasAPackage`, `AnswersStayInOrder`, `RouterIsServed` and
  `PackagesTakeTheirOwnRoute`.
* `NoPackageIsSentTwice`, by an invariant of its own, `IdInv`.
* `StepsOfTheService`: each step in which no package is left over by an earlier
  routerd is a step of ForwardService or a stutter, across any number of routerds;
  `ImplementsTheService`: with one routerd in the host's life, `ImplementsService`
  as a whole. With more, packages are left over (MipdStale), and only the steps
  are claimed.

`QueueCovers` and `AnswersInOrder` are not inductive. They speak of what has arrived;
what is still on its way, and what routerd has in its hands, must be aligned too, and
only as long as that routerd lives: once it is gone nothing more will come. `AlignInv`
therefore says, while routerd runs, that what is outstanding is exactly what is in
the queue behind the packages left over; and to know that a connection with answers in it is
the one of the routerd that runs, `PeerInv` and `ServedInv` say which connections have
a live other end and which are still to be accepted: of those that wait only the
last may live. The forwarding path does one
of nine things to queue, requests and answers (`PathStep`), however many actions
there are: the alignment is proved once for each of them. `IdInv` says that what is
unread, blocked in a write, queued and sent are disjoint sets of packages: a package
moves from one to the next.

`Link_proofs` proves, for every set of hosts, links and command lines and all sizes that
`PackagesAssumption`, `ArpCacheAssumption` and `LinkAssumption` admit: `TypeCorrect`,
`OneEntryForEach` and `FrontsArrive`, from one inductive invariant. Its parts are
what each step of a package's way may rely on: `EventInv`, what epoll_wait has
reported is still there when its turn comes, since only the daemon itself reads its
sockets and a daemon that ends loses its events with them; `Whole`, a package in an
inbox has the words and as much of its payload as a receiver has room for, since one
recv takes all of a first message that fits (`FirstIsReceived`, which needs
`RecvMax - Struct <= MaxData - Prefix`, 162 and 1493 in the code); `OfNeighbour`, its
source is on one of the receiver's links, since even a socket that is not bound yet
hears only those (`HeardFromNeighbours`); `GoodCache`, which the four operations of the
cache keep. `SendKeepsGood` is the one lemma about losses: whichever frames are lost,
the inboxes remain what they are said to be.

`List_proofs` proves of every list, for every type of values: the operations keep
`Represents` (the links in both directions, the ends, the count, and the memory
belong to one sequence of nodes) and do to the sequence what their names say
(`PushAppends`, `UnshiftPrepends`, `RemoveTakesOut`), so that the queue is first in,
first out (`QueueIsFirstInFirstOut`). The argument is one case per place of the node:
only, first, last, between two others. `WalksMeetTheNodes` says that the walks
along `next` and `prev` visit exactly that sequence and its reverse. A walk is a
recursive function, of which the provers know only that it satisfies its equation if
there is such a function: both this and what the walk computes is shown by
taking the least number for which it fails.

`Jobs_proofs` proves, for every batch, window and width that `SendJobAssumption`
admits: every package lies inside the data (`PackageInsideData`: a position beyond
the size makes no package, and `limit` is cut to the size before it is cut to 16
bits), windows stay windows and never move back, acknowledgements commute on the
base, completion is final.

`Miptpd_proofs` proves, for every set of applications and requests, of the daemon as a
whole: `TypeCorrect`, `ListIsSound`, `OneConnectionPerSocket`, `UnfinishedJobsSend` and
the action property `WindowsGoForward`. The inductive invariant `Inv` says that the
list is in the order of its own walk, with one connection per node
(`ListInv`); that applications and nodes match one to one (`SocketInv`); and that
the window of an unfinished job begins before the job's last package and is as wide
as it was made (`JobInv`). What a step does to the connections
is one of five things (`ConnStep`): nothing, a package for some jobs, an application
accepted, asking, or gone. `UnfinishedJobsSend` is where the arithmetic is: the bounds of the
window and the positions are 16 bits wide, and nothing wraps before the job is
complete because all packages of the longest request and one window more can be
numbered. That is the assumption `JobsFit`, 44 + 10 <= 65536 in the code; it is about
the constants alone, and the code has no check that stands in for it.

`DArray_proofs` and `Hashmap_proofs` prove, for every hash function and every set of
keys, that the map is a partial function as long as no key is set twice
(`NewMapIsEmpty`, `SetsNewKey`, `DeletesOneKey`), and what happens otherwise
(`SetAgainIsNotSeen`); of the array, that push and pop work through growing and
cutting of the memory, and two cases in which its operations do not fit each other
(`SetPastEndIsLost`, `ClearFreesWildPointers`). They rest on one assumption, that NULL
is no array; the invariant of the map is `WellFormed`: buckets hold only nodes of their
keys, with their hashes, no key twice.

## 5. What is only model-checked, and what is not modelled

Only model-checked:

* All liveness, as the provers cannot handle fairness: `Converges`, `ForgetsTheDead`,
  `QueuedLeaves`, `CachesConverge`, `OffersAgain`, `RequestsAreRead`.
* The properties about time, `RouteToNeighbourKept` and `LiveNeighbourKept`: they
  compare ages on several hosts, and hold because of the order of the steps within a
  tick and of an order of the periods that the code's own constants do not have.
* The refinement of ForwardService as a whole with several routerds in which none
  leaves packages over (its steps are proved).

Not modelled:

* Packages that travel over several hosts (Mipd has one host, Link neighbours).
* Ethernet addresses: frames reach all sockets on a link, whatever address the code
  puts into them.
* routerd after the end of its mipd, where it spins on a closed socket.
* miptpd: `handle_completes`, which nothing calls, and with it the answers to
  applications; the receiving side beyond the receive job's operators, since a
  receiver's connection cannot be made; timeouts, which nothing asks for; a socket
  name on the command line that is longer than mipd's, with which applications do
  not find the daemon.
* The 16-bit size of a client package near 2^16.
* mipd: frames of the kinds that its headers allow and no sender makes; main's own
  raw socket.
* Writes past the end of memory: the addresses of mipd's command line, which are stored as
  pointers of 8 bytes in a buffer with one byte for each (`mipd/src/main/cli.c:10,29`; they
  are read back as pointers too, so that `fetch_mip_addresses` has their values); and
  the last two bytes of a full transport package, which are written behind a buffer of
  1496 bytes, as the check of the size leaves out the field data_size
  (`miptp_package.c:65-69`, `miptp_app_controller.c:190`). What they overwrite is not
  in the model.
* The check of `mip_package.c:16` against `PAYLOAD_MAX_WORD_NUM`, which nothing that
  `MIPDMessage_deserialize` lets through can fail.
* `tpserver`, which does not compile; string hashing, traversal and destroying of
  containers; `bstrlib`, a vendored library; printing.
* Functions that C lets be called without a declaration (`implicit int`): the
  modules take the build in which their pointers arrive whole.

## 6. Plan

1. `LiveNeighbourKept` as a theorem: an invariant on the ages of a cache entry, of the
   neighbour's last requests and of the frames between them.
2. `RouteToNeighbourKept` in the same way, from the ages of routes and broadcasts.
3. `Network`: packages over several hosts, TTL, loops while tables change; an
   abstract network that delivers at most once within TTL hops.
