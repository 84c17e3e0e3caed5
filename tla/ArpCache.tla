------------------------------ MODULE ArpCache ------------------------------
(***************************************************************************)
(* The MIP-ARP cache of a host, as operators on values: an array of        *)
(* entries in use from the front, and the age of the last requests.        *)
(* Times are ages, in units of which update_freq has Freq.                 *)
(***************************************************************************)
EXTENDS Integers, Sequences, SequencesExt

CONSTANTS
  Freq  \* update_freq (CACHE_UPDATE_FREQ_MILLI, 10 s)

ASSUME ArpCacheAssumption == Freq \in Nat \ {0}

\* Ages above the last that is told apart are the same.
Older(age, limit) == Min({age + 1, limit + 1})

create_cache == [entries |-> <<>>, last_arp |-> 0]

Positions(cache, address) ==
  {p \in DOMAIN cache.entries : cache.entries[p].mip_address = address}
InCache(cache, address) == Positions(cache, address) # {}
query_mip_address_pos(cache, address) == Min(Positions(cache, address))
query_mip_address_src_socket(cache, address) ==
  cache.entries[query_mip_address_pos(cache, address)].src_socket

\* Faulty variants of the two operations below: an address that is known is put
\* at the end again, or keeps its socket.
AppendAlways(cache, socket, address) ==
  [cache EXCEPT !.entries =
     Append(@, [mip_address |-> address, src_socket |-> socket, age |-> 0])]
AppendKnown(cache, socket, address) ==
  IF InCache(cache, address)
  THEN [cache EXCEPT !.entries[query_mip_address_pos(cache, address)].age = 0]
  ELSE AppendAlways(cache, socket, address)

append_to_cache(cache, socket, address) ==
  LET entry == [mip_address |-> address, src_socket |-> socket, age |-> 0]
  IN IF InCache(cache, address)
     THEN [cache EXCEPT !.entries[query_mip_address_pos(cache, address)] = entry]
     ELSE [cache EXCEPT !.entries = Append(@, entry)]

should_complete_new_arp(cache) == cache.last_arp > Freq

\* Faulty variant: an entry is dropped at the age at which it should be renewed.
ExpiredAtLimit(entry, freq) == entry.age >= freq

is_cache_entry_expired(entry, freq) == entry.age > freq

\* The elements of s at the positions in K, in their order.
Picked(s, K) ==
  [k \in 1 .. Cardinality(K) |-> s[CHOOSE p \in K : Cardinality({q \in K : q <= p}) = k]]

\* The first half of update_arp_cache: expired entries are removed, the others move up.
RemoveExpired(cache) ==
  [cache EXCEPT !.entries =
     Picked(@, {p \in DOMAIN @ : ~is_cache_entry_expired(@[p], 2 * Freq)})]

AllOlder(cache) ==
  [entries  |-> [p \in DOMAIN cache.entries |->
                   [cache.entries[p] EXCEPT !.age = Older(@, 2 * Freq)]],
   last_arp |-> Older(cache.last_arp, Freq)]
=============================================================================
