-------------------------------- MODULE Link --------------------------------
(***************************************************************************)
(* The mipd daemons of several hosts as neighbours: how each opens a raw   *)
(* socket per interface, learns its neighbours through MIP-ARP, forgets    *)
(* them, and hands transport packages to those it knows (mipd/src/main/    *)
(* mipd.c, mipd/src/lib/mip_arp.c, link.c, interface.c, packaging/).       *)
(*                                                                         *)
(* A link joins interfaces; a frame on it reaches the other hosts' sockets *)
(* on it, or is lost.  A raw socket hears every interface of its host from *)
(* socket(2) until bind(2), and keeps what it has heard.                   *)
(*                                                                         *)
(* Routed packages and route tables, which share the loop and the links,   *)
(* are in Mipd and RouteNet.                                               *)
(***************************************************************************)
EXTENDS Packages, ArpCache

CONSTANTS
  Host,
  NIC,       \* NIC[h]: the links of h's interfaces, in the order of getifaddrs, but for
             \* the loopback
  Args,      \* Args[h]: the numbers at the end of the command line of h's mipd
  IfaceBuffer, \* INTERFACE_BUFF_SIZE (10)
  App,       \* the hosts with an application that sends
  Server,    \* the hosts with a ping server
  Pong,      \* the bytes of a ping server's answer (4)
  Message,   \* what applications send: [dst, size], size being that of the data
  MaxEvents, \* MAX_EVENTS (5)
  Timeout,   \* the timeout of epoll_wait, in units of time (10 s)
  Late,      \* how late a poll that timed out may be scheduled
  MaxStarts, \* bound: how often a daemon is started
  MaxChances \* bound: daemons ended from outside, frames lost and messages written by
             \* applications, all together

ASSUME LinkAssumption ==
  /\ \A h \in Host : /\ Args[h] \in Seq(Nat)
                     /\ \A k \in DOMAIN Args[h] : Args[h][k] % 256 \in Address
                     /\ NIC[h] \in Seq(Range(NIC[h])) /\ IsInjective(NIC[h])
  /\ App \subseteq Host /\ Server \subseteq Host /\ App \cap Server = {}
  /\ {IfaceBuffer, Pong} \subseteq Nat
  /\ \A m \in Message : m.dst \in Address /\ m.size \in Nat
  /\ {MaxEvents, Timeout} \subseteq Nat \ {0}
  /\ {Late, MaxStarts, MaxChances} \subseteq Nat

VARIABLES
  daemon,    \* daemon[h]: "down", "opening" its sockets, at the "top" of its loop,
             \* "waiting" in epoll_wait, or "handling" the events
  socks,     \* socks[h]: its raw sockets, interface by interface: "unbound", "bound"
  inbox,     \* inbox[h][i]: the frames its socket i holds
  cache,     \* cache[h]: its ARP cache
  events,    \* events[h]: the sockets epoll_wait has reported; 0: the application's
  waited,    \* waited[h]: how long it has been in epoll_wait
  heard,     \* heard[h]: the messages for the ping server that it has not read
  asked,     \* asked[h]: the messages its application has written that it has not read
  used       \* what has been used of the bounds

host == <<daemon, socks, cache, events, waited>>
apps == <<heard, asked>>
vars == <<host, apps, inbox, used>>

-----------------------------------------------------------------------------
(* Interfaces *)

\* Interfaces that fill the buffer are an error, which leaves the table empty.
create_loaded_interface_table(h) == IF Len(NIC[h]) < IfaceBuffer THEN NIC[h] ELSE <<>>

\* Addresses are cut to 8 bits, and may be too many.  Each is stored as a pointer of 8
\* bytes, past the end of a buffer that has one byte for each, and is read back as one;
\* what that does to the memory behind the buffer is left out.
fetch_mip_addresses(h) == [k \in DOMAIN Args[h] |-> Args[h][k] % 256]
TooManyAddresses(h) == Len(Args[h]) > Len(create_loaded_interface_table(h))

\* The table: the first interfaces, one per address.
apply_mip_addresses(h) ==
  [i \in DOMAIN Args[h] |-> [link |-> create_loaded_interface_table(h)[i],
                            mip_address |-> fetch_mip_addresses(h)[i]]]
Interfaces(h) == DOMAIN Args[h]
MipAddress(h, i) == apply_mip_addresses(h)[i].mip_address

IsOwn(h, address) == \E i \in Interfaces(h) : MipAddress(h, i) = address

Running(h) == daemon[h] \in {"top", "waiting", "handling"}

CacheEntry(h) == [mip_address : Address, src_socket : Interfaces(h), age : 0 .. 2 * Freq + 1]

TypeOK ==
  /\ daemon \in [Host -> {"down", "opening", "top", "waiting", "handling"}]
  /\ \A h \in Host :
       /\ socks[h] \in Seq({"unbound", "bound"})
       /\ DOMAIN socks[h] \subseteq Interfaces(h)
       /\ inbox[h] \in Seq(Seq(MIPPackage))
       /\ DOMAIN inbox[h] = DOMAIN socks[h]
       /\ cache[h].entries \in Seq(CacheEntry(h))
       /\ cache[h].last_arp \in 0 .. Freq + 1
       /\ events[h] \subseteq {0} \cup Interfaces(h)
       /\ asked[h] \in Seq(MIPDMessage)
       /\ heard[h] \in Seq(MIPDMessage)
  /\ waited \in [Host -> 0 .. Timeout + Late]
  /\ used \in [starts : 0 .. MaxStarts, losses : 0 .. MaxChances, others : 0 .. MaxChances]
  /\ used.losses + used.others <= MaxChances

Init ==
  /\ daemon = [h \in Host |-> "down"]
  /\ socks = [h \in Host |-> <<>>]
  /\ inbox = [h \in Host |-> <<>>]
  /\ cache = [h \in Host |-> create_cache]
  /\ events = [h \in Host |-> {}]
  /\ waited = [h \in Host |-> 0]
  /\ heard = [h \in Host |-> <<>>]
  /\ asked = [h \in Host |-> <<>>]
  /\ used = [starts |-> 0, losses |-> 0, others |-> 0]

-----------------------------------------------------------------------------
(* Frames *)

Hears(h, i, link) ==
  IF socks[h][i] = "bound" THEN NIC[h][i] = link ELSE link \in Range(NIC[h])

On(h, i, package) == [link |-> apply_mip_addresses(h)[i].link, package |-> package]

\* h sends ms, in this order; any of them may be lost.  box: the inboxes without what
\* h has just read.
sendto_raw_mip_package(h, ms, box) ==
  \E lost \in SUBSET DOMAIN ms :
    LET Heard(g, i) == {k \in DOMAIN ms \ lost : Hears(g, i, ms[k].link)}
    IN /\ used.losses + used.others + Cardinality(lost) <= MaxChances
       /\ used' = [used EXCEPT !.losses = @ + Cardinality(lost)]
       /\ inbox' = [g \in Host |->
                      IF g = h THEN box[h]
                      ELSE [i \in DOMAIN box[g] |->
                              box[g][i] \o [k \in 1 .. Cardinality(Heard(g, i)) |->
                                              Picked(ms, Heard(g, i))[k].package]]]

\* A request on every interface.
Requests(h) ==
  [i \in Interfaces(h) |->
     On(h, i, MIPPackage_create_mip_arp_request_packet(MipAddress(h, i)))]

-----------------------------------------------------------------------------
(* Start and end of a daemon *)

Starts(h) ==
  /\ daemon[h] = "down"
  /\ ~TooManyAddresses(h)
  /\ used.starts < MaxStarts
  /\ used' = [used EXCEPT !.starts = @ + 1]
  /\ daemon' = [daemon EXCEPT ![h] = "opening"]
  /\ UNCHANGED <<socks, inbox, cache, events, waited, apps>>

\* bind_table_to_raw_sockets, interface by interface: socket, then bind.
setup_raw_socket(h) ==
  /\ daemon[h] = "opening"
  /\ Len(socks[h]) < Len(Args[h])
  /\ Range(socks[h]) \subseteq {"bound"}
  /\ socks' = [socks EXCEPT ![h] = Append(@, "unbound")]
  /\ inbox' = [inbox EXCEPT ![h] = Append(@, <<>>)]
  /\ UNCHANGED <<daemon, cache, events, waited, apps, used>>

bind(h) ==
  /\ daemon[h] = "opening"
  /\ \E i \in DOMAIN socks[h] :
       /\ socks[h][i] = "unbound"
       /\ socks' = [socks EXCEPT ![h][i] = "bound"]
  /\ UNCHANGED <<daemon, inbox, cache, events, waited, apps, used>>

\* MIPDServer_run begins with complete_mip_arp.
Runs(h) ==
  /\ daemon[h] = "opening"
  /\ socks[h] = [i \in Interfaces(h) |-> "bound"]
  /\ daemon' = [daemon EXCEPT ![h] = "top"]
  /\ cache' = [cache EXCEPT ![h] = create_cache]
  /\ sendto_raw_mip_package(h, Requests(h), inbox)
  /\ UNCHANGED <<socks, events, waited, apps>>

Chance ==
  /\ used.losses + used.others < MaxChances
  /\ used' = [used EXCEPT !.others = @ + 1]

close_open_sockets_on_table_interface(h) ==
  /\ socks' = [socks EXCEPT ![h] = <<>>]
  /\ inbox' = [inbox EXCEPT ![h] = <<>>]

\* What an end leaves: its sockets are closed, its memory is gone, and a ping server
\* ends with its daemon.
Down(h) ==
  /\ daemon' = [daemon EXCEPT ![h] = "down"]
  /\ close_open_sockets_on_table_interface(h)
  /\ cache' = [cache EXCEPT ![h] = create_cache]
  /\ events' = [events EXCEPT ![h] = {}]
  /\ waited' = [waited EXCEPT ![h] = 0]
  /\ heard' = [heard EXCEPT ![h] = <<>>]
  /\ asked' = [asked EXCEPT ![h] = <<>>]

Ends(h) ==
  /\ daemon[h] # "down"
  /\ Chance
  /\ Down(h)

-----------------------------------------------------------------------------
(* The loop *)

update_arp_cache(h) ==
  /\ daemon[h] = "top"
  /\ daemon' = [daemon EXCEPT ![h] = "waiting"]
  /\ waited' = [waited EXCEPT ![h] = 0]
  /\ LET kept == RemoveExpired(cache[h])
     IN IF should_complete_new_arp(kept)
        THEN /\ cache' = [cache EXCEPT ![h] = [kept EXCEPT !.last_arp = 0]]
             /\ sendto_raw_mip_package(h, Requests(h), inbox)
        ELSE /\ cache' = [cache EXCEPT ![h] = kept]
             /\ UNCHANGED <<inbox, used>>
  /\ UNCHANGED <<socks, events, apps>>

\* The raw sockets are in the epoll set, each for its interface.
add_to_table_to_epoll(h) == DOMAIN socks[h]
is_socket_in_table(h, i) == i \in add_to_table_to_epoll(h)

Ready(h) ==
  {i \in add_to_table_to_epoll(h) : inbox[h][i] # <<>>} \cup IF asked[h] = <<>> THEN {} ELSE {0}

EpollWait(h) ==
  /\ daemon[h] = "waiting"
  /\ Ready(h) # {} \/ waited[h] >= Timeout
  /\ \E ready \in IF Cardinality(Ready(h)) <= MaxEvents THEN {Ready(h)}
                  ELSE kSubset(MaxEvents, Ready(h)) :
       /\ events' = [events EXCEPT ![h] = ready]
       /\ daemon' = [daemon EXCEPT ![h] = IF ready = {} THEN "top" ELSE "handling"]
  /\ UNCHANGED <<socks, inbox, cache, waited, apps, used>>

\* The event of socket i is dealt with.
Handle(h, i) ==
  /\ daemon[h] = "handling"
  /\ i \in events[h]
  /\ events' = [events EXCEPT ![h] = @ \ {i}]
  /\ daemon' = [daemon EXCEPT ![h] = IF events[h] = {i} THEN "top" ELSE @]
  /\ UNCHANGED <<socks, waited>>

Learns(h, i, p) ==
  cache' = [cache EXCEPT ![h] = append_to_cache(@, i, p.header.src)]

\* handle_raw_socket_frame, by the kind of the package.
HandleFrame(h, i, tra) ==
  /\ Handle(h, i)
  /\ is_socket_in_table(h, i)
  /\ Head(inbox[h][i]).header.tra = tra
  /\ UNCHANGED asked

Read(h, i) == recv_raw_mip_package(Head(inbox[h][i]))
Rest(h, i) == [inbox EXCEPT ![h][i] = Tail(@)]

ArpResponse(h, i) ==
  /\ HandleFrame(h, i, 0)
  /\ Learns(h, i, Read(h, i))
  /\ inbox' = Rest(h, i)
  /\ UNCHANGED <<heard, used>>

handle_mip_arp_request(h, i) ==
  /\ HandleFrame(h, i, 1)
  /\ LET response == MIPPackage_create_raw(MipAddress(h, i), Read(h, i).header.src, 0)
     IN sendto_raw_mip_package(h, <<On(h, i, response)>>, Rest(h, i))
  /\ Learns(h, i, Read(h, i))
  /\ UNCHANGED heard

\* The package goes to the ping server, if one is connected, or for another host to
\* routerd (Mipd).
TransportFrame(h, i) ==
  /\ HandleFrame(h, i, 3)
  /\ inbox' = Rest(h, i)
  /\ \/ UNCHANGED heard
     \/ /\ h \in Server /\ IsOwn(h, Read(h, i).header.dst)
        /\ heard' = [heard EXCEPT ![h] = Append(@, MIPDMessageOf(Read(h, i)))]
  /\ UNCHANGED <<cache, used>>

\* handle_domain_socket_request for a neighbour; for any other host the package goes
\* to routerd (Mipd).
handle_domain_socket_request(h, m) ==
  IF InCache(cache[h], m.mip_address)
  THEN LET i == query_mip_address_src_socket(cache[h], m.mip_address)
           header == create_transport_mip_header(MipAddress(h, i), m.mip_address)
       IN sendto_raw_mip_package(h, <<On(h, i, MIPPackage_create(header, m.size, m.kept))>>,
                                 inbox)
  ELSE UNCHANGED <<inbox, used>>

\* One recv, of whose messages the first is looked at.
AppMessage(h) ==
  /\ Handle(h, 0)
  /\ asked' = [asked EXCEPT ![h] = <<>>]
  /\ IF TooShort(asked[h])
     THEN UNCHANGED <<inbox, used>>
     ELSE /\ ~DeserializeFails(Head(asked[h]).size)
          /\ handle_domain_socket_request(h, MIPDMessage_deserialize(asked[h]))
  /\ UNCHANGED <<cache, heard>>

\* The message that could not be made is looked at: the daemon is killed.
AppMessageTooLong(h) ==
  /\ daemon[h] = "handling"
  /\ 0 \in events[h]
  /\ ~TooShort(asked[h])
  /\ DeserializeFails(Head(asked[h]).size)
  /\ Down(h)
  /\ UNCHANGED used

-----------------------------------------------------------------------------
(* Applications and time *)

\* An application writes to its daemon, which looks only when it waits.  (The ping
\* client makes no message that is too long for the daemon; others may.)
Asks(h) ==
  /\ h \in App
  /\ daemon[h] = "waiting"
  /\ asked[h] = <<>>
  /\ Chance
  /\ \E m \in Message :
       asked' = [asked EXCEPT ![h] = <<MIPDMessage_create(m.dst, m.size)>>]
  /\ UNCHANGED <<host, inbox, heard>>

\* A ping server, too, looks at the first message of those a recv takes.
PingServerAnswers(h) ==
  /\ heard[h] # <<>>
  /\ heard' = [heard EXCEPT ![h] = <<>>]
  /\ asked' = [asked EXCEPT ![h] =
                  @ \o MIPDMessage_serialize(
                         MIPDMessage_create(Head(heard[h]).mip_address, Pong))]
  /\ UNCHANGED <<host, inbox, used>>

\* Time passes while no daemon or ping server has anything to do: steps take no time,
\* but the end of a poll may.
Tick ==
  /\ \A h \in Host : \/ daemon[h] = "down"
                     \/ /\ daemon[h] = "waiting" /\ Ready(h) = {} /\ heard[h] = <<>>
                        /\ waited[h] < Timeout + Late
  /\ cache' = [h \in Host |-> IF daemon[h] = "down" THEN cache[h] ELSE AllOlder(cache[h])]
  /\ waited' = [h \in Host |-> IF daemon[h] = "down" THEN 0 ELSE waited[h] + 1]
  /\ UNCHANGED <<daemon, socks, inbox, events, apps, used>>

DaemonNext(h) ==
  \/ setup_raw_socket(h) \/ bind(h) \/ Runs(h)
  \/ update_arp_cache(h) \/ EpollWait(h)
  \/ \E i \in DOMAIN inbox[h] : \/ ArpResponse(h, i)
                                \/ handle_mip_arp_request(h, i)
                                \/ TransportFrame(h, i)
  \/ AppMessage(h) \/ AppMessageTooLong(h)

Next ==
  \/ \E h \in Host : \/ DaemonNext(h) \/ Starts(h) \/ Ends(h)
                     \/ Asks(h) \/ PingServerAnswers(h)
  \/ Tick

Spec == Init /\ [][Next]_vars
=============================================================================
