----------------------------- MODULE Link_proofs -----------------------------
(***************************************************************************)
(* Proofs about the neighbours of a host and what reaches them, for every  *)
(* set of hosts and links, every command line, every size of words,        *)
(* buffers and messages, and every period and bound that                   *)
(* PackagesAssumption, ArpCacheAssumption and LinkAssumption admit.        *)
(***************************************************************************)
EXTENDS LinkProps, FiniteSetTheorems, WellFoundedInduction, TLAPS

-----------------------------------------------------------------------------
(* Numbers and sequences *)

\* Every set of numbers has a least one, and Min is it.
LEMMA MinIs ==
  ASSUME NEW S \in SUBSET Nat, S # {}
  PROVE  Min(S) \in S /\ \A y \in S : Min(S) <= y
<1> DEFINE R == OpToRel(<, Nat)
<1>1. PICK n \in S : \A m \in S : ~(<<m, n>> \in R)
  <2>1. IsWellFoundedOn(R, Nat)
    BY NatLessThanWellFounded
  <2> HIDE DEF R
  <2> QED
    BY <2>1, WFMin
<1>2. \A y \in S : n <= y
  <2>1. SUFFICES ASSUME NEW y \in S, y < n PROVE FALSE
    OBVIOUS
  <2>2. <<y, n>> \in Nat \X Nat
    OBVIOUS
  <2>3. <<y, n>> \in R
    BY <2>1, <2>2 DEF OpToRel
  <2> QED
    BY <1>1, <2>3
<1> QED
  BY <1>2 DEF Min

\* Min of two numbers.
LEMMA MinOfTwo ==
  ASSUME NEW a \in Nat, NEW b \in Nat
  PROVE  Min({a, b}) = IF a <= b THEN a ELSE b
<1>1. Min({a, b}) \in {a, b} /\ \A y \in {a, b} : Min({a, b}) <= y
  BY MinIs
<1> QED
  BY <1>1

\* r has elements of s, each position in K once.
TakesFrom(r, s, K) ==
  \E at \in [1 .. Cardinality(K) -> K] :
    /\ \A k \in 1 .. Cardinality(K) : r[k] = s[at[k]]
    /\ \A j, k \in 1 .. Cardinality(K) : at[j] = at[k] => j = k

\* Picked takes elements of s, each position in K once.
LEMMA PickedIs ==
  ASSUME NEW s, NEW n \in Nat, NEW K \in SUBSET (1 .. n)
  PROVE  /\ Cardinality(K) \in Nat
         /\ Picked(s, K) = [k \in 1 .. Cardinality(K) |-> Picked(s, K)[k]]
         /\ TakesFrom(Picked(s, K), s, K)
<1> DEFINE c == Cardinality(K)
           Upto(p) == {q \in K : q <= p}
           rank == [p \in K |-> Cardinality(Upto(p))]
<1>1. IsFiniteSet(K) /\ c \in Nat
  <2>1. IsFiniteSet(1 .. n)
    BY FS_Interval
  <2>2. IsFiniteSet(K)
    BY <2>1, FS_Subset
  <2> QED
    BY <2>2, FS_CardinalityType
<1>2. ASSUME NEW p \in K
      PROVE  /\ IsFiniteSet(Upto(p)) /\ rank[p] \in 1 .. c
  <2>1. Upto(p) \in SUBSET K
    OBVIOUS
  <2>2. IsFiniteSet(Upto(p)) /\ Cardinality(Upto(p)) <= c
    BY <1>1, <2>1, FS_Subset
  <2>3. Cardinality(Upto(p)) \in Nat /\ Cardinality(Upto(p)) # 0
    <3>1. p \in Upto(p)
      OBVIOUS
    <3> HIDE DEF Upto
    <3> QED
      BY <2>2, <3>1, FS_CardinalityType, FS_EmptySet
  <2> HIDE DEF Upto
  <2> QED
    BY <1>1, <2>2, <2>3
<1>3. ASSUME NEW p \in K, NEW q \in K, rank[p] = rank[q]
      PROVE  p = q
  <2>1. SUFFICES ASSUME NEW x \in K, NEW y \in K, rank[x] = rank[y], x < y PROVE FALSE
    BY <1>3
  <2>2. Upto(x) \in SUBSET Upto(y)
    <3>1. \A z \in K : z \in Int
      OBVIOUS
    <3>2. \A z \in K : z <= x => z <= y
      BY <2>1, <3>1
    <3> QED
      BY <3>2
  <2>3. Cardinality(Upto(x)) = Cardinality(Upto(y))
    BY <2>1
  <2>4. Upto(x) = Upto(y)
    <3> HIDE DEF Upto
    <3> QED
      BY <1>2, <2>2, <2>3, FS_Subset
  <2>5. y \in Upto(y) /\ y \notin Upto(x)
    BY <2>1
  <2> QED
    BY <2>4, <2>5
<1>4. IsFiniteSet(1 .. c) /\ Cardinality(1 .. c) = c
  BY <1>1, FS_Interval
<1> HIDE DEF rank
<1>5. rank \in Injection(K, 1 .. c)
  <2>1. rank = [p \in K |-> rank[p]]
    BY DEF rank
  <2> QED
    BY <1>2, <1>3, <2>1 DEF Injection, IsInjective
<1>6. rank \in Surjection(K, 1 .. c)
  BY <1>4, <1>5, FS_Injection
<1>7. ASSUME NEW k \in 1 .. c PROVE \E p \in K : rank[p] = k
  BY <1>6 DEF Surjection
<1> DEFINE At(k) == CHOOSE p \in K : Cardinality({q \in K : q <= p}) = k
           at == [k \in 1 .. c |-> At(k)]
<1>8. ASSUME NEW k \in 1 .. c PROVE At(k) \in K /\ Cardinality(Upto(At(k))) = k
  BY <1>7 DEF rank
<1>9. Picked(s, K) = [k \in 1 .. c |-> s[At(k)]]
  BY DEF Picked
<1> HIDE DEF At, Upto
<1>10. \A j, k \in 1 .. c : at[j] = at[k] => j = k
  BY <1>8
<1>11. at \in [1 .. c -> K]
  BY <1>8
<1>12. Picked(s, K) = [k \in 1 .. c |-> Picked(s, K)[k]]
  BY <1>9
<1>13. \A k \in 1 .. c : Picked(s, K)[k] = s[at[k]]
  BY <1>9
<1> HIDE DEF c, at
<1>14. TakesFrom(Picked(s, K), s, K)
  BY <1>10, <1>11, <1>13 DEF c, TakesFrom
<1> QED
  BY <1>1, <1>12, <1>14 DEF c

-----------------------------------------------------------------------------
(* The inductive invariant *)

\* Where the daemons are, their sockets and events.
HostTypes ==
  /\ daemon \in [Host -> {"down", "opening", "top", "waiting", "handling"}]
  /\ socks \in [Host -> Seq({"unbound", "bound"})]
  /\ \A h \in Host : DOMAIN socks[h] \subseteq Interfaces(h)
  /\ events \in [Host -> SUBSET Nat]
  /\ \A h \in Host : events[h] \subseteq {0} \cup Interfaces(h)
  /\ waited \in [Host -> 0 .. Timeout + Late]

\* The bounds are kept.
Bounds ==
  /\ used \in [starts : 0 .. MaxStarts, losses : 0 .. MaxChances, others : 0 .. MaxChances]
  /\ used.losses + used.others <= MaxChances

\* A host that is down has no sockets; one that is not has not too many addresses.
StartInv ==
  \A h \in Host : IF daemon[h] = "down" THEN socks[h] = <<>> ELSE ~TooManyAddresses(h)

\* A cache of h: entries of their type, no address twice.
GoodCache(h, c) ==
  /\ c \in [entries : Seq(CacheEntry(h)), last_arp : 0 .. Freq + 1]
  /\ \A p, q \in DOMAIN c.entries : c.entries[p].mip_address = c.entries[q].mip_address => p = q
CacheInv ==
  /\ cache = [h \in Host |-> cache[h]]
  /\ \A h \in Host : GoodCache(h, cache[h])

\* The address is that of an interface of another host on one of h's links.
OfNeighbour(h, address) ==
  \E g \in Host \ {h} : \E j \in Interfaces(g) :
    /\ MipAddress(g, j) = address
    /\ NIC[g][j] \in Range(NIC[h])

\* The words hold the payload and no word more, and so much of it is kept as a receiver
\* has room for.
Whole(p) ==
  /\ p.words * Word - p.size \in 0 .. Word - 1
  /\ p.kept <= p.size
  /\ p.kept >= Min({p.size, RecvMax - Struct})

\* The inboxes b hold whole packages of neighbours.
GoodBoxes(b) ==
  /\ b \in [Host -> Seq(Seq(MIPPackage))]
  /\ \A h \in Host : \A i \in DOMAIN b[h] : \A k \in DOMAIN b[h][i] :
       Whole(b[h][i][k]) /\ OfNeighbour(h, b[h][i][k].header.src)
InboxInv ==
  /\ GoodBoxes(inbox)
  /\ \A h \in Host : DOMAIN inbox[h] = DOMAIN socks[h]

\* All of what an application has written is meant.
AskedInv ==
  /\ asked \in [Host -> Seq(MIPDMessage)]
  /\ \A h \in Host : \A k \in DOMAIN asked[h] : asked[h][k].kept = asked[h][k].size

\* What a ping server of h is given.
GoodHeard(h, m) ==
  /\ m.kept >= Min({m.size, RecvMax - Struct}) - Word + 1
  /\ OfNeighbour(h, m.mip_address)
HeardInv ==
  /\ heard \in [Host -> Seq(MIPDMessage)]
  /\ \A h \in Host : \A k \in DOMAIN heard[h] : GoodHeard(h, heard[h][k])

\* Whatever epoll_wait has reported is still there when its turn comes.
EventInv ==
  \A h \in Host : \A i \in events[h] :
    IF i = 0 THEN asked[h] # <<>> ELSE i \in DOMAIN inbox[h] /\ inbox[h][i] # <<>>

Inv ==
  /\ HostTypes /\ Bounds /\ StartInv
  /\ CacheInv
  /\ InboxInv /\ EventInv
  /\ AskedInv /\ HeardInv

-----------------------------------------------------------------------------
(* Addresses, packages and messages *)

\* The table of interfaces has an address for each, and their links are those of the
\* host.
LEMMA InterfaceFacts ==
  ASSUME NEW h \in Host
  PROVE  /\ Len(Args[h]) \in Nat /\ Interfaces(h) = 1 .. Len(Args[h])
         /\ \A i \in Interfaces(h) : MipAddress(h, i) \in Address
         /\ ~TooManyAddresses(h) =>
              \A i \in Interfaces(h) : /\ i \in DOMAIN NIC[h]
                                       /\ apply_mip_addresses(h)[i].link = NIC[h][i]
<1>1. /\ Args[h] \in Seq(Nat)
      /\ \A k \in DOMAIN Args[h] : Args[h][k] % 256 \in Address
      /\ NIC[h] \in Seq(Range(NIC[h]))
  BY LinkAssumption
<1>2. Len(Args[h]) \in Nat /\ Interfaces(h) = 1 .. Len(Args[h])
  BY <1>1 DEF Interfaces
<1>3. \A i \in Interfaces(h) : MipAddress(h, i) \in Address
  BY <1>1 DEF Interfaces, MipAddress, apply_mip_addresses, fetch_mip_addresses
<1>4. ASSUME ~TooManyAddresses(h), NEW i \in Interfaces(h)
      PROVE  i \in DOMAIN NIC[h] /\ apply_mip_addresses(h)[i].link = NIC[h][i]
  <2> DEFINE table == create_loaded_interface_table(h)
  <2>1. apply_mip_addresses(h)[i].link = table[i]
    BY <1>4 DEF apply_mip_addresses, Interfaces
  <2>2. Len(Args[h]) <= Len(table)
    <3>1. Len(table) \in Nat
      BY <1>1 DEF create_loaded_interface_table
    <3> QED
      BY <1>2, <1>4, <3>1 DEF TooManyAddresses
  <2>3. table = NIC[h]
    <3>1. SUFFICES ASSUME table = <<>> PROVE FALSE
      BY DEF create_loaded_interface_table
    <3>2. Len(table) = 0
      BY <3>1
    <3> HIDE DEF table
    <3> QED
      BY <1>2, <1>4, <2>2, <3>2
  <2>4. DOMAIN NIC[h] = 1 .. Len(NIC[h]) /\ Len(NIC[h]) \in Nat
    BY <1>1
  <2> HIDE DEF table
  <2> QED
    BY <1>2, <1>4, <2>1, <2>2, <2>3, <2>4
<1> QED
  BY <1>2, <1>3, <1>4

\* As many words as hold the payload.
LEMMA WordsHold ==
  ASSUME NEW size \in Nat
  PROVE  LET words == calculate_mip_payload_words(size)
         IN /\ words \in Nat
            /\ words * Word \in Nat
            /\ words * Word - size \in 0 .. Word - 1
            /\ size <= MaxData => words \in 0 .. MaxWords
<1> DEFINE q == size \div Word
           r == size % Word
           words == calculate_mip_payload_words(size)
<1>1. /\ Word \in Nat \ {0} /\ MaxWords \in Nat /\ MaxData \in Nat
      /\ MaxData <= Word * MaxWords
  BY PackagesAssumption
<1>2. q \in Nat /\ r \in 0 .. Word - 1 /\ size = q * Word + r
  BY <1>1
<1>3. words = q + IF r = 0 THEN 0 ELSE 1
  BY DEF calculate_mip_payload_words
<1> HIDE DEF q, r, words
<1>4. words \in Nat
  BY <1>2, <1>3
<1>5. q * Word \in Nat /\ (q + 1) * Word = q * Word + Word
  BY <1>1, <1>2
<1>6. words * Word \in Nat /\ words * Word - size \in 0 .. Word - 1
  <2>1. CASE r = 0
    BY <1>1, <1>2, <1>3, <1>5, <2>1
  <2>2. CASE r # 0
    BY <1>1, <1>2, <1>3, <1>5, <2>2
  <2> QED
    BY <2>1, <2>2
<1>7. ASSUME size <= MaxData PROVE words <= MaxWords
  <2>1. SUFFICES ASSUME words >= MaxWords + 1 PROVE FALSE
    BY <1>1, <1>4
  <2>2. words * Word >= (MaxWords + 1) * Word
    BY <1>1, <1>4, <2>1
  <2>3. (MaxWords + 1) * Word = MaxWords * Word + Word /\ MaxWords * Word = Word * MaxWords
    BY <1>1
  <2>4. MaxWords * Word \in Nat
    BY <1>1
  <2> QED
    BY <1>1, <1>6, <1>7, <2>2, <2>3, <2>4
<1> QED
  BY <1>1, <1>4, <1>6, <1>7 DEF words

\* What a daemon makes of a header and a payload of which enough is meant.
LEMMA PackageIsWhole ==
  ASSUME NEW header \in Header, NEW size \in Nat, NEW kept \in Nat,
         size <= MaxData, kept <= size, kept >= Min({size, RecvMax - Struct})
  PROVE  LET p == MIPPackage_create(header, size, kept)
         IN /\ p \in MIPPackage
            /\ p.header = header
            /\ Whole(p)
<1> DEFINE words == calculate_mip_payload_words(size)
           p == MIPPackage_create(header, size, kept)
<1>1. /\ words \in 0 .. MaxWords /\ words * Word \in Nat
      /\ words * Word - size \in 0 .. Word - 1
  BY WordsHold
<1>2. Min({kept, words * Word}) = kept
  <2>1. kept <= words * Word
    BY <1>1, PackagesAssumption
  <2> QED
    BY <1>1, <2>1, MinOfTwo
<1>3. p = [header |-> header, words |-> words, size |-> size, kept |-> kept]
  BY <1>2 DEF MIPPackage_create
<1> HIDE DEF p, words
<1> QED
  BY <1>1, <1>3 DEF MIPPackage, Whole, p

\* Headers of packages to neighbours, and ARP requests and responses.
LEMMA HeaderTypes ==
  ASSUME NEW src \in Address
  PROVE  /\ create_arp_request_mip_header(src) \in Header
         /\ create_arp_request_mip_header(src).src = src
         /\ \A dst \in Address : /\ create_transport_mip_header(src, dst) \in Header
                                 /\ create_transport_mip_header(src, dst).src = src
BY DEF create_arp_request_mip_header, create_transport_mip_header, Header

\* What MIP-ARP sends is a whole package, from the address it is made for.
LEMMA ArpPackages ==
  ASSUME NEW src \in Address
  PROVE  /\ LET p == MIPPackage_create_mip_arp_request_packet(src)
            IN p \in MIPPackage /\ Whole(p) /\ p.header.src = src
         /\ \A dst \in Address :
              LET p == MIPPackage_create_raw(src, dst, 0)
              IN p \in MIPPackage /\ Whole(p) /\ p.header.src = src
<1>1. /\ 0 <= MaxData /\ RecvMax - Struct \in Nat
  BY PackagesAssumption
<1>2. Min({0, RecvMax - Struct}) = 0
  BY <1>1, MinOfTwo
<1>3. ASSUME NEW header \in Header
      PROVE  LET p == MIPPackage_create(header, 0, 0)
             IN p \in MIPPackage /\ Whole(p) /\ p.header = header
  BY <1>1, <1>2, PackageIsWhole
<1>4. ASSUME NEW dst \in Address
      PROVE  LET header == [create_transport_mip_header(src, dst) EXCEPT !.tra = 0]
             IN header \in Header /\ header.src = src
  BY DEF create_arp_request_mip_header, create_transport_mip_header, Header
<1>5. LET p == MIPPackage_create_mip_arp_request_packet(src)
      IN p \in MIPPackage /\ Whole(p) /\ p.header.src = src
  BY <1>3, HeaderTypes DEF MIPPackage_create_mip_arp_request_packet
<1>6. ASSUME NEW dst \in Address
      PROVE  LET p == MIPPackage_create_raw(src, dst, 0)
             IN p \in MIPPackage /\ Whole(p) /\ p.header.src = src
  <2> DEFINE header == [create_transport_mip_header(src, dst) EXCEPT !.tra = 0]
  <2>1. header \in Header /\ header.src = src
    BY <1>4
  <2>2. MIPPackage_create_raw(src, dst, 0) = MIPPackage_create(header, 0, 0)
    BY DEF MIPPackage_create_raw
  <2> HIDE DEF header
  <2> QED
    BY <1>3, <2>1, <2>2
<1> QED
  BY <1>5, <1>6

\* A recv of some messages takes all of the first, as far as a package's receiver will
\* have room for it.
LEMMA FirstIsReceived ==
  ASSUME NEW ms \in Seq(MIPDMessage), ms # <<>>, Head(ms).kept = Head(ms).size
  PROVE  LET m == MIPDMessage_deserialize(ms)
         IN /\ m \in MIPDMessage
            /\ m.mip_address = Head(ms).mip_address /\ m.size = Head(ms).size
            /\ m.kept <= m.size
            /\ m.kept >= Min({m.size, RecvMax - Struct})
<1> DEFINE n == Len(ms)
           Sums(f) == f = [k \in 0 .. n |-> IF k = 0 THEN 0
                             ELSE f[k - 1] + calc_serialized_message_size(ms[k])]
           bytes == CHOOSE f : Sums(f)
<1>1. /\ n \in Nat /\ n > 0 /\ Head(ms) = ms[1]
      /\ \A k \in 1 .. n : ms[k] \in MIPDMessage
  OBVIOUS
<1>0. /\ Prefix \in Nat /\ MaxData \in Nat /\ RecvMax - Struct \in Nat
      /\ RecvMax - Struct <= MaxData - Prefix
  BY PackagesAssumption
<1>2. ASSUME NEW k \in 1 .. n
      PROVE  ms[k].size \in Nat /\ calc_serialized_message_size(ms[k]) \in Nat
  <2>1. ms[k].size \in Nat
    BY <1>1 DEF MIPDMessage
  <2> QED
    BY <1>0, <2>1 DEF calc_serialized_message_size
<1>3. \E f : Sums(f)
  <2> DEFINE SumsTo(f, m) == f = [k \in 0 .. m |-> IF k = 0 THEN 0
                               ELSE f[k - 1] + calc_serialized_message_size(ms[k])]
             Wrong == {m \in Nat : ~\E f : SumsTo(f, m)}
  <2>1. Wrong = {}
    <3>1. SUFFICES ASSUME Wrong # {} PROVE FALSE
      OBVIOUS
    <3> DEFINE m == Min(Wrong)
    <3>2. m \in Wrong /\ \A j \in Wrong : m <= j
      <4>1. Wrong \in SUBSET Nat
        OBVIOUS
      <4> HIDE DEF Wrong
      <4> QED
        BY <3>1, <4>1, MinIs
    <3> HIDE DEF m
    <3>3. m \in Nat /\ ~\E f : SumsTo(f, m)
      BY <3>2
    <3>4. CASE m = 0
      <4> DEFINE f == [k \in 0 .. m |-> 0]
      <4>1. 0 .. m = {0}
        BY <3>4
      <4>2. SumsTo(f, m)
        BY <4>1
      <4> QED
        BY <3>3, <4>2
    <3>5. CASE m > 0
      <4>1. PICK f : SumsTo(f, m - 1)
        <5>1. m - 1 \in Nat /\ m - 1 \notin Wrong
          <6> HIDE DEF Wrong
          <6> QED
            BY <3>2, <3>3, <3>5
        <5> HIDE DEF SumsTo
        <5> QED
          BY <5>1
      <4> DEFINE g == [k \in 0 .. m |-> IF k < m THEN f[k]
                         ELSE f[m - 1] + calc_serialized_message_size(ms[m])]
                 h == [k \in 0 .. m |-> IF k = 0 THEN 0
                         ELSE g[k - 1] + calc_serialized_message_size(ms[k])]
      <4>2. ASSUME NEW k \in 0 .. m PROVE g[k] = h[k]
        <5>1. k # 0 => k - 1 \in 0 .. m /\ g[k - 1] = f[k - 1]
          BY <3>3
        <5>2. CASE k < m
          <6>1. k \in 0 .. m - 1
            BY <3>3, <5>2
          <6>2. f[k] = IF k = 0 THEN 0 ELSE f[k - 1] + calc_serialized_message_size(ms[k])
            BY <4>1, <6>1
          <6> QED
            BY <5>1, <5>2, <6>2
        <5>3. CASE k = m
          BY <3>5, <5>1, <5>3
        <5> QED
          BY <3>3, <5>2, <5>3
      <4>3. g = h
        <5>1. g = [k \in 0 .. m |-> g[k]] /\ h = [k \in 0 .. m |-> h[k]]
          OBVIOUS
        <5> HIDE DEF g, h
        <5> QED
          BY <4>2, <5>1
      <4>4. SumsTo(g, m)
        <5> HIDE DEF g
        <5> QED
          BY <4>3
      <4> QED
        BY <3>3, <4>4
    <3> QED
      BY <3>3, <3>4, <3>5
  <2>2. n \notin Wrong
    BY <2>1
  <2>3. \E f : SumsTo(f, n)
    <3> HIDE DEF SumsTo
    <3> QED
      BY <1>1, <2>2
  <2> QED
    BY <2>3
<1>4. Sums(bytes)
  <2> HIDE DEF Sums
  <2> QED
    BY <1>3
<1>5. Received(ms) = Min({MaxData, bytes[n]})
  BY DEF Received
<1> HIDE DEF bytes
<1>6. bytes[0] = 0 /\ \A k \in 1 .. n :
        bytes[k] = bytes[k - 1] + calc_serialized_message_size(ms[k])
  BY <1>1, <1>4
<1> DEFINE first == Prefix + Head(ms).size
           Off == {k \in 1 .. n : ~(bytes[k] \in Nat /\ bytes[k] >= first)}
<1>7. Off = {}
  <2>1. SUFFICES ASSUME Off # {} PROVE FALSE
    OBVIOUS
  <2> DEFINE k == Min(Off)
  <2>2. k \in Off /\ \A j \in Off : k <= j
    <3>1. Off \in SUBSET Nat
      OBVIOUS
    <3> HIDE DEF Off
    <3> QED
      BY <2>1, <3>1, MinIs
  <2> HIDE DEF k
  <2>3. k \in 1 .. n /\ ~(bytes[k] \in Nat /\ bytes[k] >= first)
    BY <2>2
  <2>4. first \in Nat /\ first = calc_serialized_message_size(ms[1])
    BY <1>0, <1>1, <1>2 DEF calc_serialized_message_size
  <2>5. CASE k = 1
    BY <1>6, <2>3, <2>4, <2>5
  <2>6. CASE k # 1
    <3>1. k - 1 \in 1 .. n /\ k - 1 \notin Off
      <4> HIDE DEF Off
      <4> QED
        BY <1>1, <2>2, <2>3, <2>6
    <3>2. bytes[k - 1] \in Nat /\ bytes[k - 1] >= first
      BY <3>1
    <3> HIDE DEF first
    <3> QED
      BY <1>2, <1>6, <2>3, <2>4, <3>2
  <2> QED
    BY <2>5, <2>6
<1>8. bytes[n] \in Nat /\ bytes[n] >= first
  <2>1. n \in 1 .. n
    BY <1>1
  <2> QED
    BY <1>7, <2>1
<1> DEFINE size == Head(ms).size
           kept == Min({size, Received(ms) - Prefix})
<1>9. /\ size \in Nat /\ Prefix \in Nat /\ MaxData \in Nat
      /\ RecvMax - Struct \in Nat /\ RecvMax - Struct <= MaxData - Prefix
  BY <1>0, <1>1, <1>2
<1>10. Received(ms) \in Nat /\ Received(ms) = IF MaxData <= bytes[n] THEN MaxData ELSE bytes[n]
  BY <1>5, <1>8, <1>9, MinOfTwo
<1>11. Received(ms) - Prefix \in Nat
  BY <1>8, <1>9, <1>10
<1>12. kept = IF size <= Received(ms) - Prefix THEN size ELSE Received(ms) - Prefix
  BY <1>9, <1>11, MinOfTwo
<1>13. Min({size, RecvMax - Struct}) = IF size <= RecvMax - Struct THEN size ELSE RecvMax - Struct
  BY <1>9, MinOfTwo
<1>14. kept \in Nat /\ kept <= size /\ kept >= Min({size, RecvMax - Struct})
  BY <1>8, <1>9, <1>10, <1>11, <1>12, <1>13
<1>15. MIPDMessage_deserialize(ms) = [Head(ms) EXCEPT !.kept = kept]
  BY DEF MIPDMessage_deserialize
<1>16. Head(ms) \in [mip_address : Address, size : Nat, kept : Nat]
  BY <1>1 DEF MIPDMessage
<1> HIDE DEF kept
<1>17. MIPDMessage_deserialize(ms) \in [mip_address : Address, size : Nat, kept : Nat]
  BY <1>14, <1>15, <1>16
<1> QED
  BY <1>14, <1>15, <1>16, <1>17 DEF MIPDMessage

-----------------------------------------------------------------------------
(* The operations of the cache *)

\* A new cache is good.
LEMMA NewCache ==
  ASSUME NEW h \in Host
  PROVE  GoodCache(h, create_cache)
<1>1. create_cache = [entries |-> <<>>, last_arp |-> 0] /\ Freq \in Nat
  BY ArpCacheAssumption DEF create_cache
<1> QED
  BY <1>1 DEF GoodCache

\* An address that is known keeps its place, and any other gets a place of its own.
LEMMA AppendKeepsGood ==
  ASSUME NEW h \in Host, NEW c, GoodCache(h, c), NEW i \in Interfaces(h), NEW address \in Address
  PROVE  GoodCache(h, append_to_cache(c, i, address))
<1> DEFINE entry == [mip_address |-> address, src_socket |-> i, age |-> 0]
           n == Len(c.entries)
           d == append_to_cache(c, i, address)
<1>1. /\ c \in [entries : Seq(CacheEntry(h)), last_arp : 0 .. Freq + 1]
      /\ c.entries \in Seq(CacheEntry(h)) /\ n \in Nat /\ DOMAIN c.entries = 1 .. n
      /\ \A p, q \in 1 .. n : c.entries[p].mip_address = c.entries[q].mip_address => p = q
  BY DEF GoodCache
<1>2. entry \in CacheEntry(h) /\ entry.mip_address = address
  BY ArpCacheAssumption DEF CacheEntry
<1> HIDE DEF entry
<1>3. CASE InCache(c, address)
  <2> DEFINE pos == query_mip_address_pos(c, address)
  <2>1. pos \in 1 .. n /\ c.entries[pos].mip_address = address
    <3>1. Positions(c, address) \in SUBSET Nat /\ Positions(c, address) # {}
      BY <1>1, <1>3 DEF Positions, InCache
    <3>2. pos \in Positions(c, address)
      BY <3>1, MinIs DEF query_mip_address_pos
    <3> QED
      BY <1>1, <3>2 DEF Positions
  <2>2. d = [c EXCEPT !.entries[pos] = entry]
    BY <1>3 DEF append_to_cache, entry
  <2> DEFINE es == [c.entries EXCEPT ![pos] = entry]
  <2> HIDE DEF pos, d
  <2>3. es \in Seq(CacheEntry(h))
    BY <1>1, <1>2, <2>1
  <2>4. d = [c EXCEPT !.entries = es]
    BY <2>2
  <2> HIDE DEF es
  <2>5. d \in [entries : Seq(CacheEntry(h)), last_arp : 0 .. Freq + 1] /\ d.entries = es
    BY <1>1, <2>3, <2>4
  <2>6. /\ d \in [entries : Seq(CacheEntry(h)), last_arp : 0 .. Freq + 1]
        /\ d.entries = [c.entries EXCEPT ![pos] = entry]
    BY <2>5 DEF es
  <2>7. ASSUME NEW p \in 1 .. n PROVE d.entries[p].mip_address = c.entries[p].mip_address
    BY <1>1, <1>2, <2>1, <2>6
  <2>8. DOMAIN d.entries = 1 .. n
    BY <1>1, <2>6
  <2> QED
    BY <1>1, <2>6, <2>7, <2>8 DEF GoodCache, d
<1>4. CASE ~InCache(c, address)
  <2>1. d = [c EXCEPT !.entries = Append(@, entry)]
    BY <1>4 DEF append_to_cache, entry
  <2>2. \A p \in 1 .. n : c.entries[p].mip_address # address
    BY <1>1, <1>4 DEF InCache, Positions
  <2> DEFINE es == Append(c.entries, entry)
  <2> HIDE DEF d
  <2>3. es \in Seq(CacheEntry(h))
    BY <1>1, <1>2
  <2>4. d = [c EXCEPT !.entries = es]
    BY <2>1
  <2> HIDE DEF es
  <2>5. d \in [entries : Seq(CacheEntry(h)), last_arp : 0 .. Freq + 1] /\ d.entries = es
    BY <1>1, <2>3, <2>4
  <2>6. /\ d \in [entries : Seq(CacheEntry(h)), last_arp : 0 .. Freq + 1]
        /\ d.entries = Append(c.entries, entry)
    BY <2>5 DEF es
  <2>7. /\ DOMAIN d.entries = 1 .. n + 1
        /\ \A p \in 1 .. n : d.entries[p] = c.entries[p]
        /\ d.entries[n + 1] = entry
    BY <1>1, <1>2, <2>6
  <2>8. ASSUME NEW p \in 1 .. n + 1, NEW q \in 1 .. n + 1,
               d.entries[p].mip_address = d.entries[q].mip_address
        PROVE  p = q
    <3>1. CASE p \in 1 .. n /\ q \in 1 .. n
      BY <1>1, <2>7, <2>8, <3>1
    <3>2. CASE p = n + 1 \/ q = n + 1
      BY <1>1, <1>2, <2>2, <2>7, <2>8, <3>2
    <3> QED
      BY <1>1, <3>1, <3>2
  <2> QED
    BY <2>6, <2>7, <2>8 DEF GoodCache, d
<1> QED
  BY <1>3, <1>4

\* What is left of a cache without its expired entries.
LEMMA RemoveKeepsGood ==
  ASSUME NEW h \in Host, NEW c, GoodCache(h, c)
  PROVE  /\ GoodCache(h, RemoveExpired(c))
         /\ GoodCache(h, [RemoveExpired(c) EXCEPT !.last_arp = 0])
<1> DEFINE n == Len(c.entries)
           K == {p \in DOMAIN c.entries : ~is_cache_entry_expired(c.entries[p], 2 * Freq)}
           left == Picked(c.entries, K)
<1>1. /\ c \in [entries : Seq(CacheEntry(h)), last_arp : 0 .. Freq + 1]
      /\ c.entries \in Seq(CacheEntry(h)) /\ n \in Nat /\ DOMAIN c.entries = 1 .. n
      /\ \A p \in 1 .. n : c.entries[p] \in CacheEntry(h)
      /\ \A p, q \in 1 .. n : c.entries[p].mip_address = c.entries[q].mip_address => p = q
  BY DEF GoodCache
<1>2. RemoveExpired(c) = [c EXCEPT !.entries = left]
  BY DEF RemoveExpired
<1>3. K \in SUBSET (1 .. n)
  BY <1>1
<1> HIDE DEF K
<1>4. /\ Cardinality(K) \in Nat
      /\ left = [k \in 1 .. Cardinality(K) |-> left[k]]
      /\ TakesFrom(left, c.entries, K)
  <2>1. n \in Nat
    BY <1>1
  <2> HIDE DEF n
  <2> QED
    BY <1>3, <2>1, PickedIs
<1> HIDE DEF left
<1>5. DOMAIN left = 1 .. Cardinality(K)
  BY <1>4
<1>6. PICK at \in [1 .. Cardinality(K) -> K] :
        /\ \A k \in 1 .. Cardinality(K) : left[k] = c.entries[at[k]]
        /\ \A j, k \in 1 .. Cardinality(K) : at[j] = at[k] => j = k
  BY <1>4 DEF TakesFrom
<1>7. ASSUME NEW k \in 1 .. Cardinality(K) PROVE at[k] \in 1 .. n
  BY <1>3, <1>6
<1>8. left \in Seq(CacheEntry(h))
  <2>1. \A k \in 1 .. Cardinality(K) : left[k] \in CacheEntry(h)
    BY <1>1, <1>6, <1>7
  <2> QED
    BY <1>4, <2>1
<1>9. ASSUME NEW p \in DOMAIN left, NEW q \in DOMAIN left,
             left[p].mip_address = left[q].mip_address
      PROVE  p = q
  <2>1. p \in 1 .. Cardinality(K) /\ q \in 1 .. Cardinality(K)
    BY <1>5
  <2>2. at[p] = at[q]
    BY <1>1, <1>6, <1>7, <1>9, <2>1
  <2> QED
    BY <1>6, <2>1, <2>2
<1>10. Freq \in Nat
  BY ArpCacheAssumption
<1>11. ASSUME NEW d \in [entries : Seq(CacheEntry(h)), last_arp : 0 .. Freq + 1],
              d.entries = left
       PROVE  GoodCache(h, d)
  BY <1>9, <1>11 DEF GoodCache
<1>12. /\ RemoveExpired(c) \in [entries : Seq(CacheEntry(h)), last_arp : 0 .. Freq + 1]
       /\ RemoveExpired(c).entries = left
  BY <1>1, <1>2, <1>8
<1>13. LET d == [RemoveExpired(c) EXCEPT !.last_arp = 0]
       IN d \in [entries : Seq(CacheEntry(h)), last_arp : 0 .. Freq + 1] /\ d.entries = left
  BY <1>10, <1>12
<1> QED
  BY <1>11, <1>12, <1>13

\* Time leaves the addresses alone.
LEMMA OlderKeepsGood ==
  ASSUME NEW h \in Host, NEW c, GoodCache(h, c)
  PROVE  GoodCache(h, AllOlder(c))
<1> DEFINE n == Len(c.entries)
           d == AllOlder(c)
<1>1. /\ c \in [entries : Seq(CacheEntry(h)), last_arp : 0 .. Freq + 1]
      /\ n \in Nat /\ DOMAIN c.entries = 1 .. n
      /\ \A p \in 1 .. n : c.entries[p] \in CacheEntry(h)
      /\ \A p, q \in 1 .. n : c.entries[p].mip_address = c.entries[q].mip_address => p = q
  BY DEF GoodCache
<1>2. Freq \in Nat
  BY ArpCacheAssumption
<1>3. ASSUME NEW limit \in Nat, NEW age \in 0 .. limit + 1
      PROVE  Older(age, limit) \in 0 .. limit + 1
  BY <1>3, MinOfTwo DEF Older
<1>4. d = [entries  |-> [p \in 1 .. n |->
                           [c.entries[p] EXCEPT !.age = Older(c.entries[p].age, 2 * Freq)]],
           last_arp |-> Older(c.last_arp, Freq)]
  BY <1>1 DEF AllOlder
<1>5. ASSUME NEW p \in 1 .. n
      PROVE  /\ [c.entries[p] EXCEPT !.age = Older(c.entries[p].age, 2 * Freq)] \in CacheEntry(h)
             /\ [c.entries[p] EXCEPT !.age = Older(c.entries[p].age, 2 * Freq)].mip_address
                  = c.entries[p].mip_address
  <2>1. c.entries[p] \in [mip_address : Address, src_socket : Interfaces(h),
                           age : 0 .. 2 * Freq + 1]
    BY <1>1 DEF CacheEntry
  <2>2. Older(c.entries[p].age, 2 * Freq) \in 0 .. 2 * Freq + 1
    <3>1. 2 * Freq \in Nat /\ c.entries[p].age \in 0 .. 2 * Freq + 1
      BY <1>2, <2>1
    <3> QED
      BY <1>3, <3>1
  <2> QED
    BY <2>1, <2>2 DEF CacheEntry
<1>6. Older(c.last_arp, Freq) \in 0 .. Freq + 1
  BY <1>1, <1>2, <1>3
<1> HIDE DEF d
<1>7. /\ d \in [entries : Seq(CacheEntry(h)), last_arp : 0 .. Freq + 1]
      /\ DOMAIN d.entries = 1 .. n
      /\ \A p \in 1 .. n : d.entries[p].mip_address = c.entries[p].mip_address
  BY <1>1, <1>4, <1>5, <1>6
<1> QED
  BY <1>1, <1>7 DEF GoodCache, d

-----------------------------------------------------------------------------
(* What is sent, and what is read of it *)

\* The n messages ms of h are good ones, each on the link of the address it has as its
\* source.
GoodMessages(h, ms, n) ==
  /\ DOMAIN ms = 1 .. n
  /\ \A k \in 1 .. n :
       /\ ms[k].package \in MIPPackage /\ Whole(ms[k].package)
       /\ \E j \in Interfaces(h) : /\ j \in DOMAIN NIC[h] /\ ms[k].link = NIC[h][j]
                                   /\ ms[k].package.header.src = MipAddress(h, j)

\* An inbox has the frames of box, in front of others.
LongerBoxes(b, box) ==
  \A g \in Host : /\ DOMAIN b[g] = DOMAIN box[g]
                  /\ \A i \in DOMAIN b[g] : box[g][i] # <<>> => b[g][i] # <<>>

\* Only sockets on the link of a frame hear it once they are bound, and before that those
\* of a host that is on it: the frame's source is a neighbour's either way.
LEMMA HeardFromNeighbours ==
  ASSUME HostTypes, StartInv, NEW h \in Host, NEW g \in Host \ {h},
         NEW i \in DOMAIN socks[g], NEW link, NEW j \in Interfaces(h),
         j \in DOMAIN NIC[h], link = NIC[h][j], Hears(g, i, link)
  PROVE  OfNeighbour(g, MipAddress(h, j))
<1>1. NIC[g] \in Seq(Range(NIC[g]))
  BY LinkAssumption
<1>2. link \in Range(NIC[g])
  <2>1. CASE socks[g][i] = "bound"
    <3>1. daemon[g] # "down"
      BY DEF StartInv
    <3>2. ~TooManyAddresses(g) /\ i \in Interfaces(g)
      BY <3>1 DEF StartInv, HostTypes
    <3>3. i \in DOMAIN NIC[g]
      BY <3>2, InterfaceFacts
    <3> QED
      BY <2>1, <3>3 DEF Hears, Range
  <2>2. CASE socks[g][i] # "bound"
    BY <2>2 DEF Hears
  <2> QED
    BY <2>1, <2>2
<1> QED
  BY <1>2 DEF OfNeighbour

\* A step sends: the inboxes are those of box, with what is sent behind it.
Sent(box) == GoodBoxes(inbox') /\ LongerBoxes(inbox', box) /\ Bounds'

\* Sending leaves all inboxes good, with the frames they had.
LEMMA SendKeepsGood ==
  ASSUME HostTypes, Bounds, StartInv, NEW h \in Host,
         NEW box, GoodBoxes(box), \A g \in Host : DOMAIN box[g] = DOMAIN socks[g],
         NEW ms, NEW n \in Nat, GoodMessages(h, ms, n),
         sendto_raw_mip_package(h, ms, box)
  PROVE  Sent(box)
<1> DEFINE Heard(lost, g, i) == {k \in DOMAIN ms \ lost : Hears(g, i, ms[k].link)}
           New(lost, g, i) == [k \in 1 .. Cardinality(Heard(lost, g, i)) |->
                                 Picked(ms, Heard(lost, g, i))[k].package]
<1>1. PICK lost \in SUBSET DOMAIN ms :
        /\ used.losses + used.others + Cardinality(lost) <= MaxChances
        /\ used' = [used EXCEPT !.losses = @ + Cardinality(lost)]
        /\ inbox' = [g \in Host |->
                       IF g = h THEN box[h]
                       ELSE [i \in DOMAIN box[g] |-> box[g][i] \o New(lost, g, i)]]
  BY DEF sendto_raw_mip_package
<1>2. Cardinality(lost) \in Nat
  <2>1. IsFiniteSet(1 .. n) /\ lost \in SUBSET (1 .. n)
    <3>1. IsFiniteSet(1 .. n)
      BY FS_Interval
    <3> QED
      BY <3>1 DEF GoodMessages
  <2>2. IsFiniteSet(lost)
    BY <2>1, FS_Subset
  <2> QED
    BY <2>2, FS_CardinalityType
<1>3. Bounds'
  <2>1. /\ used \in [starts : 0 .. MaxStarts, losses : 0 .. MaxChances, others : 0 .. MaxChances]
        /\ MaxChances \in Nat
    BY LinkAssumption DEF Bounds
  <2> DEFINE c == Cardinality(lost)
  <2>2. /\ used.losses + used.others + c <= MaxChances /\ c \in Nat
        /\ used' = [used EXCEPT !.losses = @ + c]
    BY <1>1, <1>2
  <2> HIDE DEF c
  <2>3. /\ used.losses + c \in 0 .. MaxChances
        /\ used.losses + c + used.others <= MaxChances
    BY <2>1, <2>2
  <2> QED
    BY <2>1, <2>2, <2>3 DEF Bounds
<1>4. ASSUME NEW g \in Host \ {h}, NEW i \in DOMAIN socks[g]
      PROVE  /\ New(lost, g, i) \in Seq(MIPPackage)
             /\ \A k \in DOMAIN New(lost, g, i) : /\ Whole(New(lost, g, i)[k])
                                                  /\ OfNeighbour(g, New(lost, g, i)[k].header.src)
  <2> DEFINE K == Heard(lost, g, i)
             c == Cardinality(K)
             new == New(lost, g, i)
  <2>1. K \in SUBSET (1 .. n) /\ \A k \in K : Hears(g, i, ms[k].link)
    BY DEF GoodMessages
  <2> HIDE DEF K
  <2>2. c \in Nat /\ TakesFrom(Picked(ms, K), ms, K)
    BY <2>1, PickedIs
  <2>3. PICK at \in [1 .. c -> K] : \A k \in 1 .. c : Picked(ms, K)[k] = ms[at[k]]
    BY <2>2 DEF TakesFrom
  <2>4. new = [k \in 1 .. c |-> Picked(ms, K)[k].package]
    BY DEF K
  <2> HIDE DEF c, new
  <2>5. DOMAIN new = 1 .. c
    BY <2>4
  <2>6. ASSUME NEW k \in 1 .. c
        PROVE  new[k] \in MIPPackage /\ Whole(new[k]) /\ OfNeighbour(g, new[k].header.src)
    <3>1. at[k] \in K /\ at[k] \in 1 .. n /\ new[k] = ms[at[k]].package
      BY <2>1, <2>3, <2>4
    <3>2. PICK j \in Interfaces(h) : /\ j \in DOMAIN NIC[h] /\ ms[at[k]].link = NIC[h][j]
                                     /\ new[k].header.src = MipAddress(h, j)
      BY <3>1 DEF GoodMessages
    <3>3. Hears(g, i, ms[at[k]].link)
      BY <2>1, <3>1
    <3>4. OfNeighbour(g, MipAddress(h, j))
      BY <3>2, <3>3, HeardFromNeighbours
    <3> QED
      BY <3>1, <3>2, <3>4 DEF GoodMessages
  <2>7. new \in Seq(MIPPackage)
    BY <2>2, <2>4, <2>5, <2>6
  <2> QED
    BY <2>5, <2>6, <2>7 DEF new
<1> HIDE DEF Heard, New
<1>5. ASSUME NEW g \in Host
      PROVE  /\ inbox'[g] \in Seq(Seq(MIPPackage))
             /\ DOMAIN inbox'[g] = DOMAIN box[g]
             /\ \A i \in DOMAIN inbox'[g] :
                  /\ box[g][i] # <<>> => inbox'[g][i] # <<>>
                  /\ \A k \in DOMAIN inbox'[g][i] :
                       Whole(inbox'[g][i][k]) /\ OfNeighbour(g, inbox'[g][i][k].header.src)
  <2>1. /\ box[g] \in Seq(Seq(MIPPackage))
        /\ \A i \in DOMAIN box[g] : \A k \in DOMAIN box[g][i] :
             Whole(box[g][i][k]) /\ OfNeighbour(g, box[g][i][k].header.src)
    BY DEF GoodBoxes
  <2>2. CASE g = h
    BY <1>1, <2>1, <2>2
  <2>3. CASE g # h
    <3>1. inbox'[g] = [i \in DOMAIN box[g] |-> box[g][i] \o New(lost, g, i)]
      BY <1>1, <2>3
    <3>2. ASSUME NEW i \in DOMAIN box[g]
          PROVE  /\ inbox'[g][i] \in Seq(MIPPackage)
                 /\ box[g][i] # <<>> => inbox'[g][i] # <<>>
                 /\ \A k \in DOMAIN inbox'[g][i] :
                      Whole(inbox'[g][i][k]) /\ OfNeighbour(g, inbox'[g][i][k].header.src)
      <4> DEFINE old == box[g][i]
                 new == New(lost, g, i)
      <4>1. inbox'[g][i] = old \o new
        BY <3>1
      <4>2. /\ old \in Seq(MIPPackage)
            /\ \A k \in 1 .. Len(old) : Whole(old[k]) /\ OfNeighbour(g, old[k].header.src)
        BY <2>1
      <4>3. /\ new \in Seq(MIPPackage)
            /\ \A k \in 1 .. Len(new) : Whole(new[k]) /\ OfNeighbour(g, new[k].header.src)
        BY <1>4, <2>3
      <4> HIDE DEF old, new
      <4>4. /\ Len(old) \in Nat /\ Len(new) \in Nat
            /\ old \o new \in Seq(MIPPackage)
            /\ DOMAIN (old \o new) = 1 .. Len(old) + Len(new)
            /\ Len(old \o new) = Len(old) + Len(new)
        BY <4>2, <4>3
      <4>5. ASSUME NEW k \in 1 .. Len(old) + Len(new)
            PROVE  Whole((old \o new)[k]) /\ OfNeighbour(g, (old \o new)[k].header.src)
        <5>1. CASE k <= Len(old)
          <6>1. (old \o new)[k] = old[k] /\ k \in 1 .. Len(old)
            BY <4>2, <4>3, <4>4, <5>1
          <6> QED
            BY <4>2, <6>1
        <5>2. CASE k > Len(old)
          <6>1. (old \o new)[k] = new[k - Len(old)] /\ k - Len(old) \in 1 .. Len(new)
            BY <4>2, <4>3, <4>4, <5>2
          <6> QED
            BY <4>3, <6>1
        <5> QED
          BY <4>4, <5>1, <5>2
      <4>6. old # <<>> => old \o new # <<>>
        BY <4>2, <4>4
      <4> QED
        BY <4>1, <4>4, <4>5, <4>6 DEF old
    <3>3. inbox'[g] \in Seq(Seq(MIPPackage))
      <4>1. DOMAIN box[g] = 1 .. Len(box[g]) /\ Len(box[g]) \in Nat
        BY <2>1
      <4>2. inbox'[g] = [i \in 1 .. Len(box[g]) |-> inbox'[g][i]]
        BY <3>1, <4>1
      <4>3. \A i \in 1 .. Len(box[g]) : inbox'[g][i] \in Seq(MIPPackage)
        BY <3>2, <4>1
      <4> QED
        BY <4>1, <4>2, <4>3
    <3> QED
      BY <3>1, <3>2, <3>3
  <2> QED
    BY <2>2, <2>3
<1>6. inbox' = [g \in Host |-> inbox'[g]]
  BY <1>1
<1> QED
  BY <1>3, <1>5, <1>6 DEF Sent, GoodBoxes, LongerBoxes

\* What a raw socket hands over of a whole package of a neighbour is a message as a ping
\* server may be given it.
LEMMA ReadIsGood ==
  ASSUME NEW h \in Host, NEW p \in MIPPackage, Whole(p), OfNeighbour(h, p.header.src)
  PROVE  LET m == MIPDMessageOf(recv_raw_mip_package(p))
         IN m \in MIPDMessage /\ GoodHeard(h, m)
<1> DEFINE room == RecvMax - Struct
           size == p.words * Word
           q == recv_raw_mip_package(p)
           m == MIPDMessageOf(q)
<1>1. room \in Nat /\ Word \in Nat \ {0} /\ MaxWords \in Nat
  BY PackagesAssumption
<1>2. /\ p \in [header : Header, words : 0 .. MaxWords, size : Nat, kept : Nat]
      /\ p.header.src \in Address
  BY DEF MIPPackage, Header
<1>3. size \in Nat
  BY <1>1, <1>2
<1>4. Min({p.kept, room}) = IF p.kept <= room THEN p.kept ELSE room
  BY <1>1, <1>2, MinOfTwo
<1>5. m = [mip_address |-> p.header.src, size |-> size, kept |-> Min({p.kept, room})]
  BY <1>2 DEF MIPDMessageOf, recv_raw_mip_package
<1>6. /\ Min({p.size, room}) = IF p.size <= room THEN p.size ELSE room
      /\ Min({size, room}) = IF size <= room THEN size ELSE room
  BY <1>1, <1>2, <1>3, MinOfTwo
<1>7. /\ size - p.size \in 0 .. Word - 1
      /\ p.kept >= Min({p.size, room})
  BY DEF Whole
<1> HIDE DEF m, size, room
<1>8. m.kept >= Min({size, room}) - Word + 1
  BY <1>1, <1>2, <1>3, <1>4, <1>5, <1>6, <1>7
<1>9. m \in MIPDMessage
  BY <1>1, <1>2, <1>3, <1>4, <1>5 DEF MIPDMessage
<1>10. GoodHeard(h, m)
  BY <1>5, <1>8 DEF GoodHeard, room
<1> QED
  BY <1>9, <1>10 DEF m

-----------------------------------------------------------------------------
(* The steps that send *)

\* A daemon that is up sends from each of its addresses on the link that is its own.
LEMMA OwnLinks ==
  ASSUME StartInv, NEW h \in Host, daemon[h] # "down", NEW i \in Interfaces(h),
         NEW p, p.header.src = MipAddress(h, i)
  PROVE  /\ On(h, i, p).package = p
         /\ \E j \in Interfaces(h) : /\ j \in DOMAIN NIC[h] /\ On(h, i, p).link = NIC[h][j]
                                     /\ p.header.src = MipAddress(h, j)
<1>1. ~TooManyAddresses(h)
  BY DEF StartInv
<1> QED
  BY <1>1, InterfaceFacts DEF On

\* A request on every interface.
LEMMA RequestsSent ==
  ASSUME Inv, NEW h \in Host, daemon[h] # "down", sendto_raw_mip_package(h, Requests(h), inbox)
  PROVE  Sent(inbox)
<1>1. Len(Args[h]) \in Nat /\ Interfaces(h) = 1 .. Len(Args[h])
  BY InterfaceFacts
<1>2. ASSUME NEW k \in Interfaces(h)
      PROVE  /\ Requests(h)[k].package \in MIPPackage /\ Whole(Requests(h)[k].package)
             /\ \E j \in Interfaces(h) : /\ j \in DOMAIN NIC[h] /\ Requests(h)[k].link = NIC[h][j]
                                         /\ Requests(h)[k].package.header.src = MipAddress(h, j)
  <2> DEFINE p == MIPPackage_create_mip_arp_request_packet(MipAddress(h, k))
  <2>1. Requests(h)[k] = On(h, k, p)
    BY DEF Requests
  <2>2. MipAddress(h, k) \in Address
    BY InterfaceFacts
  <2>3. p \in MIPPackage /\ Whole(p) /\ p.header.src = MipAddress(h, k)
    BY <2>2, ArpPackages
  <2> HIDE DEF p
  <2> QED
    BY <2>1, <2>3, OwnLinks DEF Inv
<1>3. GoodMessages(h, Requests(h), Len(Args[h]))
  <2>1. DOMAIN Requests(h) = 1 .. Len(Args[h])
    BY <1>1 DEF Requests
  <2> QED
    BY <1>1, <1>2, <2>1 DEF GoodMessages
<1> QED
  BY <1>1, <1>3, SendKeepsGood DEF Inv, InboxInv

\* One package.
LEMMA OneSent ==
  ASSUME Inv, NEW h \in Host, daemon[h] # "down", NEW i \in Interfaces(h),
         NEW p \in MIPPackage, Whole(p), p.header.src = MipAddress(h, i),
         NEW box, GoodBoxes(box), \A g \in Host : DOMAIN box[g] = DOMAIN socks[g],
         sendto_raw_mip_package(h, <<On(h, i, p)>>, box)
  PROVE  Sent(box)
<1>1. GoodMessages(h, <<On(h, i, p)>>, 1)
  <2>1. DOMAIN <<On(h, i, p)>> = 1 .. 1
    OBVIOUS
  <2>2. ASSUME NEW k \in 1 .. 1 PROVE <<On(h, i, p)>>[k] = On(h, i, p)
    OBVIOUS
  <2> QED
    BY <2>1, <2>2, OwnLinks DEF GoodMessages, Inv
<1> QED
  BY <1>1, SendKeepsGood DEF Inv

\* The frame at the front of a socket that has one, and the inboxes without it.
LEMMA FrontFrame ==
  ASSUME Inv, NEW h \in Host, NEW i \in DOMAIN inbox[h], inbox[h][i] # <<>>
  PROVE  /\ i \in Interfaces(h)
         /\ Head(inbox[h][i]) \in MIPPackage /\ Whole(Head(inbox[h][i]))
         /\ OfNeighbour(h, Head(inbox[h][i]).header.src)
         /\ Read(h, i).header.src = Head(inbox[h][i]).header.src
         /\ Read(h, i).header.src \in Address
         /\ GoodBoxes(Rest(h, i))
         /\ \A g \in Host : /\ DOMAIN Rest(h, i)[g] = DOMAIN inbox[g]
                            /\ \A j \in DOMAIN inbox[g] :
                                 g # h \/ j # i => Rest(h, i)[g][j] = inbox[g][j]
<1> DEFINE s == inbox[h][i]
           b == Rest(h, i)
<1>1. /\ inbox \in [Host -> Seq(Seq(MIPPackage))]
      /\ inbox[h] \in Seq(Seq(MIPPackage))
      /\ s \in Seq(MIPPackage) /\ s # <<>>
      /\ \A k \in 1 .. Len(s) : Whole(s[k]) /\ OfNeighbour(h, s[k].header.src)
  BY DEF Inv, InboxInv, GoodBoxes
<1>2. i \in Interfaces(h)
  BY DEF Inv, InboxInv, HostTypes
<1>3. b = [inbox EXCEPT ![h] = [inbox[h] EXCEPT ![i] = Tail(s)]]
  BY DEF Rest
<1>4. Read(h, i) = [Head(s) EXCEPT !.kept = Min({Head(s).kept, RecvMax - Struct})]
  BY DEF Read, recv_raw_mip_package
<1> HIDE DEF s, b
<1>5. /\ Head(s) = s[1] /\ Head(s) \in MIPPackage /\ 1 \in 1 .. Len(s)
      /\ Tail(s) \in Seq(MIPPackage) /\ Len(Tail(s)) = Len(s) - 1 /\ Len(s) \in Nat
      /\ \A k \in 1 .. Len(Tail(s)) : Tail(s)[k] = s[k + 1] /\ k + 1 \in 1 .. Len(s)
  BY <1>1
<1>6. Read(h, i).header = Head(s).header /\ Head(s).header.src \in Address
  BY <1>4, <1>5 DEF MIPPackage, Header
<1> DEFINE bh == [inbox[h] EXCEPT ![i] = Tail(s)]
<1>7. /\ bh \in Seq(Seq(MIPPackage)) /\ DOMAIN bh = DOMAIN inbox[h] /\ bh[i] = Tail(s)
      /\ \A j \in DOMAIN inbox[h] : j # i => bh[j] = inbox[h][j]
  BY <1>1, <1>5
<1> HIDE DEF bh
<1>8. b \in [Host -> Seq(Seq(MIPPackage))] /\ b[h] = bh /\ \A g \in Host : g # h => b[g] = inbox[g]
  BY <1>1, <1>3, <1>7 DEF bh
<1>9. ASSUME NEW g \in Host, NEW j \in DOMAIN b[g], NEW k \in DOMAIN b[g][j]
      PROVE  Whole(b[g][j][k]) /\ OfNeighbour(g, b[g][j][k].header.src)
  <2>1. CASE g = h /\ j = i
    <3>1. b[g][j] = Tail(s) /\ k \in 1 .. Len(Tail(s))
      BY <1>5, <1>7, <1>8, <2>1
    <3> QED
      BY <1>1, <1>5, <2>1, <3>1
  <2>2. CASE g # h \/ j # i
    <3>1. j \in DOMAIN inbox[g] /\ b[g][j] = inbox[g][j]
      BY <1>7, <1>8, <2>2
    <3> QED
      BY <3>1 DEF Inv, InboxInv, GoodBoxes
  <2> QED
    BY <2>1, <2>2
<1>10. GoodBoxes(b)
  BY <1>8, <1>9 DEF GoodBoxes
<1>11. ASSUME NEW g \in Host
       PROVE  /\ DOMAIN b[g] = DOMAIN inbox[g]
              /\ \A j \in DOMAIN inbox[g] : g # h \/ j # i => b[g][j] = inbox[g][j]
  BY <1>7, <1>8
<1> QED
  BY <1>1, <1>2, <1>5, <1>6, <1>10, <1>11 DEF s, b

\* The answer to a request goes out where it came in.
LEMMA ResponseSent ==
  ASSUME Inv, NEW h \in Host, NEW i \in DOMAIN inbox[h], handle_mip_arp_request(h, i)
  PROVE  Sent(Rest(h, i))
<1> DEFINE p == MIPPackage_create_raw(MipAddress(h, i), Read(h, i).header.src, 0)
<1>1. /\ daemon[h] = "handling" /\ i \in events[h]
      /\ sendto_raw_mip_package(h, <<On(h, i, p)>>, Rest(h, i))
  BY DEF handle_mip_arp_request, HandleFrame, Handle
<1>2. inbox[h][i] # <<>>
  <2>1. i # 0
    BY InterfaceFacts DEF Inv, InboxInv, HostTypes
  <2> QED
    BY <1>1, <2>1 DEF Inv, EventInv
<1>3. /\ i \in Interfaces(h) /\ Read(h, i).header.src \in Address
      /\ GoodBoxes(Rest(h, i))
      /\ \A g \in Host : DOMAIN Rest(h, i)[g] = DOMAIN socks[g]
  BY <1>2, FrontFrame DEF Inv, InboxInv
<1>4. MipAddress(h, i) \in Address
  BY <1>3, InterfaceFacts
<1>5. p \in MIPPackage /\ Whole(p) /\ p.header.src = MipAddress(h, i)
  BY <1>3, <1>4, ArpPackages
<1> HIDE DEF p
<1> QED
  BY <1>1, <1>3, <1>5, OneSent

\* What an application has for a neighbour goes out on the neighbour's link, with all of
\* the payload that a receiver has room for.
LEMMA AskedSent ==
  ASSUME Inv, NEW h \in Host, AppMessage(h), <<inbox, used>>' # <<inbox, used>>
  PROVE  Sent(inbox)
<1> DEFINE ms == asked[h]
           m == MIPDMessage_deserialize(ms)
           i == query_mip_address_src_socket(cache[h], m.mip_address)
           header == create_transport_mip_header(MipAddress(h, i), m.mip_address)
           p == MIPPackage_create(header, m.size, m.kept)
<1>1. /\ daemon[h] = "handling" /\ 0 \in events[h]
      /\ ~DeserializeFails(Head(ms).size)
      /\ InCache(cache[h], m.mip_address)
      /\ sendto_raw_mip_package(h, <<On(h, i, p)>>, inbox)
  BY DEF AppMessage, Handle, handle_domain_socket_request
<1>2. ms \in Seq(MIPDMessage) /\ ms # <<>> /\ Head(ms).kept = Head(ms).size
  <2>1. ms \in Seq(MIPDMessage) /\ ms # <<>>
    BY <1>1 DEF Inv, AskedInv, EventInv
  <2>2. Head(ms) = ms[1] /\ 1 \in DOMAIN ms
    BY <2>1
  <2> QED
    BY <2>1, <2>2 DEF Inv, AskedInv
<1> HIDE DEF ms
<1>3. /\ m \in MIPDMessage /\ m.size = Head(ms).size /\ m.kept <= m.size
      /\ m.kept >= Min({m.size, RecvMax - Struct})
  BY <1>2, FirstIsReceived
<1> HIDE DEF m
<1>4. m.mip_address \in Address /\ m.size \in Nat /\ m.kept \in Nat
  BY <1>3 DEF MIPDMessage
<1>5. m.size <= MaxData
  BY <1>1, <1>3, <1>4, PackagesAssumption DEF DeserializeFails
<1>6. i \in Interfaces(h)
  <2> DEFINE c == cache[h]
             pos == query_mip_address_pos(c, m.mip_address)
  <2>1. c.entries \in Seq(CacheEntry(h))
    BY DEF Inv, CacheInv, GoodCache
  <2> HIDE DEF c
  <2>2. Positions(c, m.mip_address) \in SUBSET Nat /\ Positions(c, m.mip_address) # {}
    BY <1>1, <2>1 DEF Positions, InCache, c
  <2>3. pos \in Positions(c, m.mip_address)
    BY <2>2, MinIs DEF query_mip_address_pos
  <2>4. c.entries[pos] \in CacheEntry(h)
    BY <2>1, <2>3 DEF Positions
  <2> QED
    BY <2>4 DEF CacheEntry, query_mip_address_src_socket, c
<1> HIDE DEF i
<1>7. MipAddress(h, i) \in Address
  BY <1>6, InterfaceFacts
<1>8. header \in Header /\ header.src = MipAddress(h, i)
  BY <1>4, <1>7, HeaderTypes
<1> HIDE DEF header
<1>9. p \in MIPPackage /\ p.header = header /\ Whole(p)
  BY <1>3, <1>4, <1>5, <1>8, PackageIsWhole
<1> HIDE DEF p
<1> QED
  BY <1>1, <1>6, <1>8, <1>9, OneSent DEF Inv, InboxInv

-----------------------------------------------------------------------------
(* Every step keeps the invariant *)

\* At the start everything is down and empty.
LEMMA InitInv == Init => Inv
<1> SUFFICES ASSUME Init PROVE Inv
  OBVIOUS
<1>1. HostTypes /\ Bounds /\ StartInv
  BY LinkAssumption DEF Init, HostTypes, Bounds, StartInv
<1>2. CacheInv
  BY NewCache DEF Init, CacheInv
<1>3. InboxInv /\ EventInv
  BY DEF Init, InboxInv, GoodBoxes, EventInv
<1>4. AskedInv /\ HeardInv
  BY DEF Init, AskedInv, HeardInv
<1> QED
  BY <1>1, <1>2, <1>3, <1>4 DEF Inv

\* epoll_wait reports some of what is ready.
LEMMA Reported ==
  ASSUME NEW h \in Host, EpollWait(h)
  PROVE  \E ready \in SUBSET Ready(h) :
           /\ events' = [events EXCEPT ![h] = ready]
           /\ daemon' = [daemon EXCEPT ![h] = IF ready = {} THEN "top" ELSE "handling"]
<1>1. PICK ready \in IF Cardinality(Ready(h)) <= MaxEvents THEN {Ready(h)}
                     ELSE kSubset(MaxEvents, Ready(h)) :
        /\ events' = [events EXCEPT ![h] = ready]
        /\ daemon' = [daemon EXCEPT ![h] = IF ready = {} THEN "top" ELSE "handling"]
  BY DEF EpollWait
<1>2. ready \in SUBSET Ready(h)
  BY DEF kSubset
<1> QED
  BY <1>1, <1>2

\* Daemons, sockets and events.
LEMMA HostStep ==
  ASSUME Inv, [Next]_vars
  PROVE  HostTypes' /\ StartInv'
<1> DEFINE Goal == HostTypes' /\ StartInv'
<1> USE DEF HostTypes, StartInv
<1>1. HostTypes /\ StartInv
  BY DEF Inv
<1>2. ASSUME NEW h \in Host, setup_raw_socket(h) PROVE Goal
  <2>1. /\ daemon[h] = "opening" /\ Len(socks[h]) < Len(Args[h])
        /\ socks' = [socks EXCEPT ![h] = Append(socks[h], "unbound")]
        /\ UNCHANGED <<daemon, events, waited>>
    BY <1>2 DEF setup_raw_socket
  <2>2. Len(Args[h]) \in Nat /\ Interfaces(h) = 1 .. Len(Args[h])
    BY InterfaceFacts
  <2>3. Append(socks[h], "unbound") \in Seq({"unbound", "bound"})
    BY <1>1
  <2>4. DOMAIN Append(socks[h], "unbound") = 1 .. Len(socks[h]) + 1 /\ Len(socks[h]) \in Nat
    BY <1>1, <2>3
  <2>5. DOMAIN Append(socks[h], "unbound") \subseteq Interfaces(h)
    BY <2>1, <2>2, <2>4
  <2> QED
    BY <1>1, <2>1, <2>3, <2>5
<1>3. ASSUME NEW h \in Host, bind(h) PROVE Goal
  <2>1. PICK i \in DOMAIN socks[h] : socks' = [socks EXCEPT ![h] = [socks[h] EXCEPT ![i] = "bound"]]
    BY <1>3 DEF bind
  <2>2. daemon[h] = "opening" /\ UNCHANGED <<daemon, events, waited>>
    BY <1>3 DEF bind
  <2>3. /\ [socks[h] EXCEPT ![i] = "bound"] \in Seq({"unbound", "bound"})
        /\ DOMAIN [socks[h] EXCEPT ![i] = "bound"] = DOMAIN socks[h]
    BY <1>1
  <2> QED
    BY <1>1, <2>1, <2>2, <2>3
<1>4. ASSUME NEW h \in Host, Runs(h) PROVE Goal
  BY <1>1, <1>4 DEF Runs
<1>5. ASSUME NEW h \in Host, update_arp_cache(h) PROVE Goal
  BY <1>1, <1>5, LinkAssumption DEF update_arp_cache
<1>6. ASSUME NEW h \in Host, EpollWait(h) PROVE Goal
  <2>1. PICK ready \in SUBSET Ready(h) :
          /\ events' = [events EXCEPT ![h] = ready]
          /\ daemon' = [daemon EXCEPT ![h] = IF ready = {} THEN "top" ELSE "handling"]
    BY <1>6, Reported
  <2>2. Ready(h) \subseteq {0} \cup Interfaces(h)
    BY <1>1 DEF Ready, add_to_table_to_epoll
  <2>3. Interfaces(h) \subseteq Nat
    BY InterfaceFacts
  <2>4. daemon[h] = "waiting" /\ UNCHANGED <<socks, waited>>
    BY <1>6 DEF EpollWait
  <2> QED
    BY <1>1, <2>1, <2>2, <2>3, <2>4
<1>7. ASSUME NEW h \in Host, NEW i, Handle(h, i) PROVE Goal
  <2>1. /\ daemon[h] = "handling" /\ UNCHANGED <<socks, waited>>
        /\ events' = [events EXCEPT ![h] = events[h] \ {i}]
        /\ daemon' = [daemon EXCEPT ![h] = IF events[h] = {i} THEN "top" ELSE daemon[h]]
    BY <1>7 DEF Handle
  <2> QED
    BY <1>1, <2>1
<1>8. ASSUME NEW h \in Host, NEW i,
             ArpResponse(h, i) \/ handle_mip_arp_request(h, i) \/ TransportFrame(h, i)
      PROVE  Goal
  BY <1>7, <1>8 DEF ArpResponse, handle_mip_arp_request, TransportFrame, HandleFrame
<1>9. ASSUME NEW h \in Host, AppMessage(h) PROVE Goal
  BY <1>7, <1>9 DEF AppMessage
<1>10. ASSUME NEW h \in Host, Down(h) PROVE Goal
  <2>1. <<>> \in Seq({"unbound", "bound"}) /\ DOMAIN <<>> = {} /\ 0 \in 0 .. Timeout + Late
    BY LinkAssumption
  <2> QED
    BY <1>1, <1>10, <2>1 DEF Down, close_open_sockets_on_table_interface
<1>11. ASSUME NEW h \in Host, AppMessageTooLong(h) \/ Ends(h) PROVE Goal
  BY <1>10, <1>11 DEF AppMessageTooLong, Ends
<1>12. ASSUME NEW h \in Host, Starts(h) PROVE Goal
  BY <1>1, <1>12 DEF Starts
<1>13. ASSUME NEW h \in Host, Asks(h) \/ PingServerAnswers(h) PROVE Goal
  BY <1>1, <1>13 DEF Asks, PingServerAnswers, host
<1>14. ASSUME Tick PROVE Goal
  <2>1. \A h \in Host : waited'[h] \in 0 .. Timeout + Late
    BY <1>1, <1>14, LinkAssumption DEF Tick
  <2>2. waited' = [h \in Host |-> waited'[h]] /\ UNCHANGED <<daemon, socks, events>>
    BY <1>14 DEF Tick
  <2> QED
    BY <1>1, <2>1, <2>2
<1>15. ASSUME UNCHANGED vars PROVE Goal
  BY <1>1, <1>15 DEF vars, host
<1> HIDE DEF Goal
<1>16. Goal
  BY <1>2, <1>3, <1>4, <1>5, <1>6, <1>8, <1>9, <1>11, <1>12, <1>13, <1>14, <1>15
  DEF Next, DaemonNext
<1> QED
  BY <1>16 DEF Goal

\* The caches.
LEMMA CacheStep ==
  ASSUME Inv, [Next]_vars
  PROVE  CacheInv'
<1>1. cache = [h \in Host |-> cache[h]] /\ \A h \in Host : GoodCache(h, cache[h])
  BY DEF Inv, CacheInv
<1>2. ASSUME UNCHANGED cache PROVE CacheInv'
  BY <1>1, <1>2 DEF CacheInv
<1>3. ASSUME NEW h \in Host, NEW c, GoodCache(h, c), cache' = [cache EXCEPT ![h] = c]
      PROVE  CacheInv'
  BY <1>1, <1>3 DEF CacheInv
<1>4. ASSUME NEW h \in Host, Runs(h) \/ Down(h) PROVE CacheInv'
  BY <1>3, <1>4, NewCache DEF Runs, Down
<1>5. ASSUME NEW h \in Host, update_arp_cache(h) PROVE CacheInv'
  <2>1. \/ cache' = [cache EXCEPT ![h] = [RemoveExpired(cache[h]) EXCEPT !.last_arp = 0]]
        \/ cache' = [cache EXCEPT ![h] = RemoveExpired(cache[h])]
    BY <1>5 DEF update_arp_cache
  <2>2. /\ GoodCache(h, RemoveExpired(cache[h]))
        /\ GoodCache(h, [RemoveExpired(cache[h]) EXCEPT !.last_arp = 0])
    BY <1>1, RemoveKeepsGood
  <2> QED
    BY <1>3, <2>1, <2>2
<1>6. ASSUME NEW h \in Host, NEW i \in DOMAIN inbox[h], Handle(h, i), Learns(h, i, Read(h, i))
      PROVE  CacheInv'
  <2>1. inbox[h][i] # <<>>
    BY <1>6, InterfaceFacts DEF Inv, EventInv, InboxInv, HostTypes, Handle
  <2>2. i \in Interfaces(h) /\ Read(h, i).header.src \in Address
    BY <2>1, FrontFrame
  <2>3. GoodCache(h, append_to_cache(cache[h], i, Read(h, i).header.src))
    BY <1>1, <2>2, AppendKeepsGood
  <2>4. cache' = [cache EXCEPT ![h] = append_to_cache(cache[h], i, Read(h, i).header.src)]
    BY <1>6 DEF Learns
  <2> QED
    BY <1>3, <2>3, <2>4
<1>7. ASSUME NEW h \in Host, NEW i \in DOMAIN inbox[h],
             ArpResponse(h, i) \/ handle_mip_arp_request(h, i)
      PROVE  CacheInv'
  BY <1>6, <1>7 DEF ArpResponse, handle_mip_arp_request, HandleFrame
<1>8. CASE Tick
  <2>1. \A h \in Host : GoodCache(h, AllOlder(cache[h]))
    BY <1>1, OlderKeepsGood
  <2>2. cache' = [h \in Host |-> IF daemon[h] = "down" THEN cache[h] ELSE AllOlder(cache[h])]
    BY <1>8 DEF Tick
  <2> QED
    BY <1>1, <2>1, <2>2 DEF CacheInv
<1>9. ASSUME NEW h \in Host, AppMessageTooLong(h) \/ Ends(h) PROVE CacheInv'
  BY <1>4, <1>9 DEF AppMessageTooLong, Ends
<1>10. ASSUME NEW h \in Host,
              \/ setup_raw_socket(h) \/ bind(h) \/ EpollWait(h) \/ AppMessage(h)
              \/ Starts(h) \/ Asks(h) \/ PingServerAnswers(h)
       PROVE  CacheInv'
  BY <1>2, <1>10 DEF setup_raw_socket, bind, EpollWait, AppMessage, Starts, Asks,
                     PingServerAnswers, host
<1>11. ASSUME NEW h \in Host, NEW i, TransportFrame(h, i) PROVE CacheInv'
  BY <1>2, <1>11 DEF TransportFrame
<1>12. CASE UNCHANGED vars
  BY <1>2, <1>12 DEF vars, host
<1> QED
  BY <1>4, <1>5, <1>7, <1>8, <1>9, <1>10, <1>11, <1>12 DEF Next, DaemonNext

\* What a step does to the inboxes of every host.
LEMMA NetworkStep ==
  ASSUME Inv, [Next]_vars
  PROVE  InboxInv' /\ Bounds'
<1> DEFINE Goal == InboxInv' /\ Bounds'
<1>1. /\ GoodBoxes(inbox) /\ \A h \in Host : DOMAIN inbox[h] = DOMAIN socks[h]
      /\ inbox \in [Host -> Seq(Seq(MIPPackage))] /\ socks \in [Host -> Seq({"unbound", "bound"})]
      /\ Bounds
  BY DEF Inv, InboxInv, GoodBoxes, HostTypes
<1>2. ASSUME UNCHANGED <<inbox, socks>> PROVE InboxInv'
  BY <1>1, <1>2 DEF InboxInv, GoodBoxes
<1>3. ASSUME UNCHANGED used PROVE Bounds'
  BY <1>1, <1>3 DEF Bounds
<1>4. ASSUME NEW box, Sent(box), \A h \in Host : DOMAIN box[h] = DOMAIN socks[h], UNCHANGED socks
      PROVE  Goal
  BY <1>4 DEF Sent, LongerBoxes, InboxInv, GoodBoxes
<1>5. ASSUME NEW h \in Host, setup_raw_socket(h) PROVE Goal
  <2> DEFINE bh == Append(inbox[h], <<>>)
             sh == Append(socks[h], "unbound")
  <2>1. /\ inbox' = [inbox EXCEPT ![h] = bh] /\ socks' = [socks EXCEPT ![h] = sh]
        /\ UNCHANGED used
    BY <1>5 DEF setup_raw_socket
  <2>2. /\ inbox[h] \in Seq(Seq(MIPPackage)) /\ socks[h] \in Seq({"unbound", "bound"})
        /\ Len(inbox[h]) = Len(socks[h]) /\ DOMAIN inbox[h] = 1 .. Len(inbox[h])
    <3>1. /\ inbox[h] \in Seq(Seq(MIPPackage)) /\ socks[h] \in Seq({"unbound", "bound"})
          /\ DOMAIN inbox[h] = DOMAIN socks[h]
      BY <1>1
    <3> QED
      BY <3>1
  <2>3. /\ bh \in Seq(Seq(MIPPackage)) /\ sh \in Seq({"unbound", "bound"})
        /\ Len(bh) = Len(inbox[h]) + 1 /\ Len(sh) = Len(socks[h]) + 1
        /\ DOMAIN bh = 1 .. Len(inbox[h]) + 1 /\ DOMAIN sh = 1 .. Len(socks[h]) + 1
        /\ \A i \in 1 .. Len(inbox[h]) : bh[i] = inbox[h][i]
        /\ bh[Len(inbox[h]) + 1] = <<>>
    <3>1. <<>> \in Seq(MIPPackage) /\ "unbound" \in {"unbound", "bound"}
      OBVIOUS
    <3> QED
      BY <2>2, <3>1
  <2> HIDE DEF bh, sh
  <2>4. ASSUME NEW i \in DOMAIN bh, NEW k \in DOMAIN bh[i]
        PROVE  Whole(bh[i][k]) /\ OfNeighbour(h, bh[i][k].header.src)
    <3>1. CASE i \in 1 .. Len(inbox[h])
      <4>1. i \in DOMAIN inbox[h] /\ bh[i] = inbox[h][i]
        BY <2>2, <2>3, <3>1
      <4> QED
        BY <1>1, <4>1 DEF GoodBoxes
    <3>2. CASE i = Len(inbox[h]) + 1
      BY <2>3, <3>2
    <3> QED
      BY <2>2, <2>3, <3>1, <3>2
  <2>5. GoodBoxes(inbox')
    <3>1. inbox' \in [Host -> Seq(Seq(MIPPackage))]
      BY <1>1, <2>1, <2>3
    <3>2. ASSUME NEW g \in Host, NEW i \in DOMAIN inbox'[g], NEW k \in DOMAIN inbox'[g][i]
          PROVE  Whole(inbox'[g][i][k]) /\ OfNeighbour(g, inbox'[g][i][k].header.src)
      <4>1. CASE g = h
        BY <1>1, <2>1, <2>4, <4>1
      <4>2. CASE g # h
        BY <1>1, <2>1, <4>2 DEF GoodBoxes
      <4> QED
        BY <4>1, <4>2
    <3> QED
      BY <3>1, <3>2 DEF GoodBoxes
  <2>6. \A g \in Host : DOMAIN inbox'[g] = DOMAIN socks'[g]
    BY <1>1, <2>1, <2>2, <2>3
  <2> QED
    BY <1>3, <2>1, <2>5, <2>6 DEF InboxInv, GoodBoxes
<1>6. ASSUME NEW h \in Host, bind(h) PROVE Goal
  <2>1. /\ \E i \in DOMAIN socks[h] : socks' = [socks EXCEPT ![h][i] = "bound"]
        /\ UNCHANGED <<inbox, used>>
    BY <1>6 DEF bind
  <2>2. \A g \in Host : DOMAIN socks'[g] = DOMAIN socks[g]
    BY <1>1, <2>1
  <2> QED
    BY <1>1, <1>3, <2>1, <2>2 DEF InboxInv, GoodBoxes
<1>7. ASSUME NEW h \in Host, Runs(h) PROVE Goal
  <2>1. /\ daemon[h] # "down" /\ sendto_raw_mip_package(h, Requests(h), inbox)
        /\ UNCHANGED socks
    BY <1>7 DEF Runs
  <2> QED
    BY <1>1, <1>4, <2>1, RequestsSent
<1>8. ASSUME NEW h \in Host, update_arp_cache(h) PROVE Goal
  <2>1. /\ daemon[h] # "down" /\ UNCHANGED socks
        /\ sendto_raw_mip_package(h, Requests(h), inbox) \/ UNCHANGED <<inbox, used>>
    BY <1>8 DEF update_arp_cache
  <2> QED
    BY <1>1, <1>2, <1>3, <1>4, <2>1, RequestsSent
<1>9. ASSUME NEW h \in Host, NEW i \in DOMAIN inbox[h],
             ArpResponse(h, i) \/ TransportFrame(h, i)
      PROVE  Goal
  <2>1. i \in events[h] /\ inbox' = Rest(h, i) /\ UNCHANGED <<socks, used>>
    BY <1>9 DEF ArpResponse, TransportFrame, HandleFrame, Handle
  <2>2. inbox[h][i] # <<>>
    BY <2>1, InterfaceFacts DEF Inv, EventInv, InboxInv, HostTypes
  <2>3. GoodBoxes(Rest(h, i)) /\ \A g \in Host : DOMAIN Rest(h, i)[g] = DOMAIN inbox[g]
    BY <2>2, FrontFrame
  <2> QED
    BY <1>1, <1>3, <2>1, <2>3 DEF InboxInv, GoodBoxes
<1>10. ASSUME NEW h \in Host, NEW i \in DOMAIN inbox[h], handle_mip_arp_request(h, i)
       PROVE  Goal
  <2>1. i \in events[h] /\ UNCHANGED socks
    BY <1>10 DEF handle_mip_arp_request, HandleFrame, Handle
  <2>2. inbox[h][i] # <<>>
    BY <2>1, InterfaceFacts DEF Inv, EventInv, InboxInv, HostTypes
  <2>3. \A g \in Host : DOMAIN Rest(h, i)[g] = DOMAIN socks[g]
    BY <1>1, <2>2, FrontFrame
  <2> QED
    BY <1>4, <1>10, <2>1, <2>3, ResponseSent
<1>11. ASSUME NEW h \in Host, AppMessage(h) PROVE Goal
  <2>1. UNCHANGED socks
    BY <1>11 DEF AppMessage, Handle
  <2> QED
    BY <1>1, <1>2, <1>3, <1>4, <1>11, <2>1, AskedSent
<1>12. ASSUME NEW h \in Host, Down(h) PROVE InboxInv'
  <2>1. inbox' = [inbox EXCEPT ![h] = <<>>] /\ socks' = [socks EXCEPT ![h] = <<>>]
    BY <1>12 DEF Down, close_open_sockets_on_table_interface
  <2>2. inbox' \in [Host -> Seq(Seq(MIPPackage))]
    BY <1>1, <2>1
  <2>3. \A g \in Host : IF g = h THEN inbox'[g] = <<>> ELSE inbox'[g] = inbox[g]
    BY <1>1, <2>1
  <2>4. \A g \in Host : DOMAIN inbox'[g] = DOMAIN socks'[g]
    BY <1>1, <2>1
  <2> QED
    BY <1>1, <2>2, <2>3, <2>4 DEF InboxInv, GoodBoxes
<1>13. ASSUME Chance PROVE Bounds'
  <2>1. /\ used \in [starts : 0 .. MaxStarts, losses : 0 .. MaxChances, others : 0 .. MaxChances]
        /\ MaxChances \in Nat
        /\ used.losses + used.others < MaxChances /\ used' = [used EXCEPT !.others = @ + 1]
    BY <1>1, <1>13, LinkAssumption DEF Bounds, Chance
  <2>2. used.others + 1 \in 0 .. MaxChances /\ used.losses + (used.others + 1) <= MaxChances
    BY <2>1
  <2> QED
    BY <2>1, <2>2 DEF Bounds
<1>14. ASSUME NEW h \in Host, AppMessageTooLong(h) \/ Ends(h) PROVE Goal
  BY <1>3, <1>12, <1>13, <1>14 DEF AppMessageTooLong, Ends
<1>15. ASSUME NEW h \in Host, Starts(h) PROVE Goal
  <2>1. /\ used.starts < MaxStarts /\ used' = [used EXCEPT !.starts = used.starts + 1]
        /\ UNCHANGED <<inbox, socks>>
    BY <1>15 DEF Starts
  <2>2. Bounds'
    <3>1. /\ used \in [starts : 0 .. MaxStarts, losses : 0 .. MaxChances, others : 0 .. MaxChances]
          /\ MaxStarts \in Nat /\ used.losses + used.others <= MaxChances
      BY <1>1, LinkAssumption DEF Bounds
    <3>2. used.starts + 1 \in 0 .. MaxStarts
      BY <2>1, <3>1
    <3> QED
      BY <2>1, <3>1, <3>2 DEF Bounds
  <2> QED
    BY <1>2, <2>1, <2>2
<1>16. ASSUME NEW h \in Host, Asks(h) PROVE Goal
  BY <1>2, <1>13, <1>16 DEF Asks, host
<1>17. ASSUME NEW h \in Host, EpollWait(h) \/ PingServerAnswers(h) PROVE Goal
  BY <1>2, <1>3, <1>17 DEF EpollWait, PingServerAnswers, host
<1>18. ASSUME Tick PROVE Goal
  BY <1>2, <1>3, <1>18 DEF Tick
<1>19. ASSUME UNCHANGED vars PROVE Goal
  BY <1>2, <1>3, <1>19 DEF vars, host
<1> HIDE DEF Goal
<1>20. Goal
  BY <1>5, <1>6, <1>7, <1>8, <1>9, <1>10, <1>11, <1>14, <1>15, <1>16, <1>17, <1>18, <1>19
  DEF Next, DaemonNext
<1> QED
  BY <1>20 DEF Goal

\* The messages of the applications.
LEMMA AppStep ==
  ASSUME Inv, [Next]_vars
  PROVE  AskedInv' /\ HeardInv'
<1> DEFINE Goal == AskedInv' /\ HeardInv'
<1>1. /\ asked \in [Host -> Seq(MIPDMessage)] /\ heard \in [Host -> Seq(MIPDMessage)]
      /\ \A h \in Host : \A k \in DOMAIN asked[h] : asked[h][k].kept = asked[h][k].size
      /\ \A h \in Host : \A k \in DOMAIN heard[h] : GoodHeard(h, heard[h][k])
  BY DEF Inv, AskedInv, HeardInv
<1>2. ASSUME UNCHANGED asked PROVE AskedInv'
  BY <1>1, <1>2 DEF AskedInv
<1>3. ASSUME UNCHANGED heard PROVE HeardInv'
  BY <1>1, <1>3 DEF HeardInv
<1>4. ASSUME NEW h \in Host, NEW s \in Seq(MIPDMessage),
             \A k \in DOMAIN s : s[k].kept = s[k].size, asked' = [asked EXCEPT ![h] = s]
      PROVE  AskedInv'
  BY <1>1, <1>4 DEF AskedInv
<1>5. ASSUME NEW h \in Host, NEW s \in Seq(MIPDMessage),
             \A k \in DOMAIN s : GoodHeard(h, s[k]), heard' = [heard EXCEPT ![h] = s]
      PROVE  HeardInv'
  BY <1>1, <1>5 DEF HeardInv
<1>6. <<>> \in Seq(MIPDMessage) /\ DOMAIN <<>> = {}
  OBVIOUS
<1>7. ASSUME NEW h \in Host, Down(h) PROVE Goal
  BY <1>4, <1>5, <1>6, <1>7 DEF Down
<1>8. ASSUME NEW h \in Host, AppMessageTooLong(h) \/ Ends(h) PROVE Goal
  BY <1>7, <1>8 DEF AppMessageTooLong, Ends
<1>9. ASSUME NEW h \in Host, AppMessage(h) PROVE Goal
  BY <1>3, <1>4, <1>6, <1>9 DEF AppMessage
<1>10. ASSUME NEW address \in Address, NEW size \in Nat
       PROVE  LET m == MIPDMessage_create(address, size)
              IN m \in MIPDMessage /\ m.kept = m.size
  BY DEF MIPDMessage_create, MIPDMessage
<1>11. ASSUME NEW h \in Host, Asks(h) PROVE Goal
  <2>1. PICK m \in Message : asked' = [asked EXCEPT ![h] = <<MIPDMessage_create(m.dst, m.size)>>]
    BY <1>11 DEF Asks
  <2> DEFINE a == MIPDMessage_create(m.dst, m.size)
  <2>2. a \in MIPDMessage /\ a.kept = a.size
    BY <1>10, LinkAssumption
  <2> HIDE DEF a
  <2>3. <<a>> \in Seq(MIPDMessage) /\ \A k \in DOMAIN <<a>> : <<a>>[k] = a
    BY <2>2
  <2>4. AskedInv'
    BY <1>4, <2>1, <2>2, <2>3 DEF a
  <2> QED
    BY <1>3, <1>11, <2>4 DEF Asks
<1>12. ASSUME NEW h \in Host, PingServerAnswers(h) PROVE Goal
  <2> DEFINE a == MIPDMessage_create(Head(heard[h]).mip_address, Pong)
             new == MIPDMessage_serialize(a)
             old == asked[h]
  <2>1. /\ heard[h] # <<>> /\ heard' = [heard EXCEPT ![h] = <<>>]
        /\ asked' = [asked EXCEPT ![h] = old \o new]
    BY <1>12 DEF PingServerAnswers
  <2>2. Head(heard[h]).mip_address \in Address
    <3>1. heard[h] \in Seq(MIPDMessage)
      BY <1>1
    <3>2. Head(heard[h]) \in MIPDMessage
      BY <2>1, <3>1
    <3> QED
      BY <3>2 DEF MIPDMessage
  <2>3. a \in MIPDMessage /\ a.kept = a.size
    BY <1>10, <2>2, LinkAssumption
  <2>4. old \in Seq(MIPDMessage) /\ \A k \in DOMAIN old : old[k].kept = old[k].size
    BY <1>1
  <2> HIDE DEF a, old
  <2>5. new \in {<<a>>, <<>>}
    BY DEF MIPDMessage_serialize
  <2> HIDE DEF new
  <2>6. CASE new = <<>>
    <3>1. old \o new = old
      BY <2>4, <2>6
    <3> QED
      BY <1>4, <1>5, <1>6, <2>1, <2>4, <3>1
  <2>7. CASE new = <<a>>
    <3>1. /\ old \o new \in Seq(MIPDMessage)
          /\ DOMAIN (old \o new) = 1 .. Len(old) + 1 /\ Len(old) \in Nat
          /\ \A k \in 1 .. Len(old) : (old \o new)[k] = old[k] /\ k \in DOMAIN old
          /\ (old \o new)[Len(old) + 1] = a
      BY <2>3, <2>4, <2>7
    <3>2. ASSUME NEW k \in DOMAIN (old \o new)
          PROVE  (old \o new)[k].kept = (old \o new)[k].size
      <4>1. CASE k \in 1 .. Len(old)
        BY <2>4, <3>1, <4>1
      <4>2. CASE k = Len(old) + 1
        BY <2>3, <3>1, <4>2
      <4> QED
        BY <3>1, <4>1, <4>2
    <3> QED
      BY <1>4, <1>5, <1>6, <2>1, <3>1, <3>2
  <2> QED
    BY <2>5, <2>6, <2>7
<1>13. ASSUME NEW h \in Host, NEW i \in DOMAIN inbox[h], TransportFrame(h, i) PROVE Goal
  <2> DEFINE m == MIPDMessageOf(Read(h, i))
             s == heard[h]
  <2>1. /\ i \in events[h] /\ UNCHANGED asked
        /\ UNCHANGED heard \/ heard' = [heard EXCEPT ![h] = Append(s, m)]
    BY <1>13 DEF TransportFrame, HandleFrame, Handle
  <2>2. inbox[h][i] # <<>>
    BY <2>1, InterfaceFacts DEF Inv, EventInv, InboxInv, HostTypes
  <2>3. m \in MIPDMessage /\ GoodHeard(h, m)
    BY <2>2, FrontFrame, ReadIsGood DEF Read
  <2>4. s \in Seq(MIPDMessage) /\ \A k \in DOMAIN s : GoodHeard(h, s[k])
    BY <1>1
  <2> HIDE DEF m, s
  <2>5. /\ Append(s, m) \in Seq(MIPDMessage) /\ Len(s) \in Nat
        /\ DOMAIN Append(s, m) = 1 .. Len(s) + 1
        /\ \A k \in 1 .. Len(s) : Append(s, m)[k] = s[k] /\ k \in DOMAIN s
        /\ Append(s, m)[Len(s) + 1] = m
    BY <2>3, <2>4
  <2>6. ASSUME NEW k \in DOMAIN Append(s, m) PROVE GoodHeard(h, Append(s, m)[k])
    <3>1. CASE k \in 1 .. Len(s)
      BY <2>4, <2>5, <3>1
    <3>2. CASE k = Len(s) + 1
      BY <2>3, <2>5, <3>2
    <3> QED
      BY <2>5, <3>1, <3>2
  <2> QED
    BY <1>2, <1>3, <1>5, <2>1, <2>5, <2>6
<1>14. ASSUME NEW h \in Host, NEW i, ArpResponse(h, i) \/ handle_mip_arp_request(h, i) PROVE Goal
  BY <1>2, <1>3, <1>14 DEF ArpResponse, handle_mip_arp_request, HandleFrame
<1>15. ASSUME NEW h \in Host,
              \/ setup_raw_socket(h) \/ bind(h) \/ Runs(h) \/ update_arp_cache(h)
              \/ EpollWait(h) \/ Starts(h)
       PROVE  Goal
  BY <1>2, <1>3, <1>15 DEF setup_raw_socket, bind, Runs, update_arp_cache, EpollWait, Starts, apps
<1>16. ASSUME Tick PROVE Goal
  BY <1>2, <1>3, <1>16 DEF Tick, apps
<1>17. ASSUME UNCHANGED vars PROVE Goal
  BY <1>2, <1>3, <1>17 DEF vars, apps
<1> HIDE DEF Goal
<1>18. Goal
  BY <1>8, <1>9, <1>11, <1>12, <1>13, <1>14, <1>15, <1>16, <1>17 DEF Next, DaemonNext
<1> QED
  BY <1>18 DEF Goal

\* What epoll_wait has reported is not read by another, and not taken back: an event is
\* dealt with, or stays true.
LEMMA EventStep ==
  ASSUME Inv, [Next]_vars
  PROVE  EventInv'
<1> DEFINE Pending(h, i) == IF i = 0 THEN asked[h] # <<>>
                            ELSE i \in DOMAIN inbox[h] /\ inbox[h][i] # <<>>
           Stays(h, i) == Pending(h, i) => Pending(h, i)'
           AskedStays == \A g \in Host : asked[g] # <<>> => asked'[g] # <<>>
           Longer(box) == LongerBoxes(inbox', box)
<1>1. /\ events \in [Host -> SUBSET Nat] /\ \A g \in Host : \A i \in events[g] : Pending(g, i)
      /\ asked \in [Host -> Seq(MIPDMessage)]
      /\ inbox \in [Host -> Seq(Seq(MIPPackage))]
  BY DEF Inv, HostTypes, EventInv, AskedInv, InboxInv, GoodBoxes
<1>2. LongerBoxes(inbox, inbox)
  BY DEF LongerBoxes
\* A step that leaves the events alone.
<1>3. ASSUME UNCHANGED events, AskedStays, Longer(inbox) PROVE EventInv'
  BY <1>1, <1>3 DEF EventInv, LongerBoxes
\* A step that deals with the event of socket i.
<1>4. ASSUME NEW h \in Host, NEW i \in DOMAIN inbox[h], i # 0,
             events' = [events EXCEPT ![h] = events[h] \ {i}],
             AskedStays, Longer(Rest(h, i)),
             \A g \in Host : /\ DOMAIN Rest(h, i)[g] = DOMAIN inbox[g]
                             /\ \A j \in DOMAIN inbox[g] :
                                  g # h \/ j # i => Rest(h, i)[g][j] = inbox[g][j]
      PROVE  EventInv'
  <2>1. SUFFICES ASSUME NEW g \in Host, NEW j \in events'[g] PROVE Pending(g, j)'
    BY DEF EventInv
  <2>2. j \in events[g] /\ (g # h \/ j # i)
    BY <1>1, <1>4
  <2>3. Pending(g, j)
    BY <1>1, <2>2
  <2>4. CASE j = 0
    BY <1>4, <2>3, <2>4
  <2>5. CASE j # 0
    <3>1. j \in DOMAIN inbox[g] /\ inbox[g][j] # <<>>
      BY <2>3, <2>5
    <3>2. j \in DOMAIN Rest(h, i)[g] /\ Rest(h, i)[g][j] # <<>>
      BY <1>4, <2>2, <3>1
    <3>3. j \in DOMAIN inbox'[g] /\ inbox'[g][j] # <<>>
      BY <1>4, <3>2 DEF LongerBoxes
    <3> QED
      BY <2>5, <3>3
  <2> QED
    BY <2>4, <2>5
<1>5. ASSUME NEW h \in Host, setup_raw_socket(h) PROVE EventInv'
  <2>1. /\ UNCHANGED <<events, asked>>
        /\ inbox' = [inbox EXCEPT ![h] = Append(inbox[h], <<>>)]
    BY <1>5 DEF setup_raw_socket, apps
  <2>2. /\ inbox[h] \in Seq(Seq(MIPPackage)) /\ <<>> \in Seq(MIPPackage)
    BY <1>1
  <2>3. ASSUME NEW j \in DOMAIN inbox[h]
        PROVE  j \in DOMAIN Append(inbox[h], <<>>) /\ Append(inbox[h], <<>>)[j] = inbox[h][j]
    BY <2>2
  <2>4. ASSUME NEW g \in Host, NEW j \in DOMAIN inbox[g]
        PROVE  j \in DOMAIN inbox'[g] /\ inbox'[g][j] = inbox[g][j]
    BY <1>1, <2>1, <2>3
  <2> QED
    BY <1>1, <2>1, <2>4 DEF EventInv
<1>6. ASSUME NEW h \in Host, bind(h) \/ Starts(h) PROVE EventInv'
  BY <1>2, <1>3, <1>6 DEF bind, Starts, apps
<1>7. ASSUME NEW h \in Host, Runs(h) \/ update_arp_cache(h) PROVE EventInv'
  <2>1. /\ daemon[h] # "down" /\ UNCHANGED <<events, asked>>
        /\ \/ sendto_raw_mip_package(h, Requests(h), inbox)
           \/ UNCHANGED inbox
    BY <1>7 DEF Runs, update_arp_cache, apps
  <2>2. Longer(inbox)
    BY <1>2, <2>1, RequestsSent DEF Sent
  <2> QED
    BY <1>3, <2>1, <2>2
<1>8. ASSUME NEW h \in Host, EpollWait(h) PROVE EventInv'
  <2>1. PICK ready \in SUBSET Ready(h) : events' = [events EXCEPT ![h] = ready]
    BY <1>8, Reported
  <2>2. UNCHANGED <<inbox, asked>>
    BY <1>8 DEF EpollWait, apps
  <2>3. \A i \in Ready(h) : Pending(h, i)
    <3>1. DOMAIN socks[h] = DOMAIN inbox[h] /\ 0 \notin DOMAIN inbox[h]
      BY InterfaceFacts DEF Inv, InboxInv, HostTypes
    <3> QED
      BY <3>1 DEF Ready, add_to_table_to_epoll
  <2> QED
    BY <1>1, <2>1, <2>2, <2>3 DEF EventInv
<1>9. ASSUME NEW h \in Host, NEW i \in DOMAIN inbox[h],
             ArpResponse(h, i) \/ handle_mip_arp_request(h, i) \/ TransportFrame(h, i)
      PROVE  EventInv'
  <2>1. /\ i \in events[h] /\ events' = [events EXCEPT ![h] = events[h] \ {i}]
        /\ UNCHANGED asked
    BY <1>9 DEF ArpResponse, handle_mip_arp_request, TransportFrame, HandleFrame, Handle
  <2>2. i # 0
    BY InterfaceFacts DEF Inv, InboxInv, HostTypes
  <2>3. inbox[h][i] # <<>>
    BY <1>1, <2>1, <2>2
  <2>4. \A g \in Host : /\ DOMAIN Rest(h, i)[g] = DOMAIN inbox[g]
                        /\ \A j \in DOMAIN inbox[g] :
                             g # h \/ j # i => Rest(h, i)[g][j] = inbox[g][j]
    BY <2>3, FrontFrame
  <2>5. Longer(Rest(h, i))
    <3>1. CASE handle_mip_arp_request(h, i)
      BY <3>1, ResponseSent DEF Sent
    <3>2. CASE inbox' = Rest(h, i)
      BY <3>2 DEF LongerBoxes
    <3> QED
      BY <1>9, <3>1, <3>2 DEF ArpResponse, TransportFrame
  <2> QED
    BY <1>4, <2>1, <2>2, <2>4, <2>5
<1>10. ASSUME NEW h \in Host, AppMessage(h) PROVE EventInv'
  <2>1. /\ events' = [events EXCEPT ![h] = events[h] \ {0}]
        /\ asked' = [asked EXCEPT ![h] = <<>>]
    BY <1>10 DEF AppMessage, Handle
  <2>2. Longer(inbox)
    BY <1>2, <1>10, AskedSent DEF Sent
  <2>3. \A g \in Host : g # h => asked'[g] = asked[g] /\ events'[g] = events[g]
    BY <1>1, <2>1
  <2>4. events'[h] = events[h] \ {0}
    BY <1>1, <2>1
  <2> QED
    BY <1>1, <2>2, <2>3, <2>4 DEF EventInv, LongerBoxes
<1>11. ASSUME NEW h \in Host, Down(h) PROVE EventInv'
  <2>1. /\ events' = [events EXCEPT ![h] = {}] /\ asked' = [asked EXCEPT ![h] = <<>>]
        /\ inbox' = [inbox EXCEPT ![h] = <<>>]
    BY <1>11 DEF Down, close_open_sockets_on_table_interface
  <2> QED
    BY <1>1, <2>1 DEF EventInv
<1>12. ASSUME NEW h \in Host, AppMessageTooLong(h) \/ Ends(h) PROVE EventInv'
  BY <1>11, <1>12 DEF AppMessageTooLong, Ends
<1>13. ASSUME NEW h \in Host, Asks(h) \/ PingServerAnswers(h) PROVE EventInv'
  <2>1. UNCHANGED <<events, inbox>>
    BY <1>13 DEF Asks, PingServerAnswers, host
  <2>2. PICK s : asked' = [asked EXCEPT ![h] = s] /\ (asked[h] # <<>> => s # <<>>)
    <3>1. CASE Asks(h)
      BY <3>1 DEF Asks
    <3>2. CASE PingServerAnswers(h)
      <4> DEFINE m == MIPDMessage_create(Head(heard[h]).mip_address, Pong)
                 new == MIPDMessage_serialize(m)
      <4>1. asked' = [asked EXCEPT ![h] = asked[h] \o new]
        BY <3>2 DEF PingServerAnswers
      <4>2. new \in {<<m>>, <<>>}
        BY DEF MIPDMessage_serialize
      <4>3. asked[h] \in Seq(MIPDMessage)
        BY <1>1
      <4> HIDE DEF m, new
      <4>4. asked[h] # <<>> => asked[h] \o new # <<>>
        <5>1. CASE new = <<>>
          BY <4>3, <5>1
        <5>2. CASE new = <<m>>
          <6>1. Len(new) = 1 /\ Len(asked[h]) \in Nat /\ Len(asked[h] \o new) = Len(asked[h]) + 1
            BY <4>3, <5>2
          <6>2. Len(<<>>) = 0
            OBVIOUS
          <6> QED
            BY <6>1, <6>2
        <5> QED
          BY <4>2, <5>1, <5>2
      <4> QED
        BY <4>1, <4>4
    <3> QED
      BY <1>13, <3>1, <3>2
  <2>3. AskedStays
    BY <1>1, <2>2
  <2> QED
    BY <1>2, <1>3, <2>1, <2>3
<1>14. ASSUME Tick \/ UNCHANGED vars PROVE EventInv'
  BY <1>2, <1>3, <1>14 DEF Tick, vars, host, apps
<1> HIDE DEF Pending
<1> QED
  BY <1>5, <1>6, <1>7, <1>8, <1>9, <1>10, <1>12, <1>13, <1>14 DEF Next, DaemonNext

-----------------------------------------------------------------------------
(* The theorems *)

\* Hosts, sockets, inboxes, caches, events and messages belong together as Inv says,
\* whatever is started, ended, sent or lost.
THEOREM Invariant == Spec => []Inv
<1>1. Inv /\ [Next]_vars => Inv'
  BY HostStep, CacheStep, NetworkStep, EventStep, AppStep DEF Inv
<1> QED
  BY <1>1, InitInv, PTL DEF Spec

\* All of a daemon's state is of its type: what is in its table, its sockets, its cache
\* and its events fits the addresses of its command line.
THEOREM TypeCorrect == Spec => []TypeOK
<1>1. Inv => TypeOK
  <2> SUFFICES ASSUME Inv PROVE TypeOK
    OBVIOUS
  <2>1. ASSUME NEW h \in Host
        PROVE  /\ socks[h] \in Seq({"unbound", "bound"})
               /\ DOMAIN socks[h] \subseteq Interfaces(h)
               /\ inbox[h] \in Seq(Seq(MIPPackage))
               /\ DOMAIN inbox[h] = DOMAIN socks[h]
               /\ cache[h].entries \in Seq(CacheEntry(h))
               /\ cache[h].last_arp \in 0 .. Freq + 1
               /\ events[h] \subseteq {0} \cup Interfaces(h)
               /\ asked[h] \in Seq(MIPDMessage)
               /\ heard[h] \in Seq(MIPDMessage)
    BY DEF Inv, HostTypes, InboxInv, GoodBoxes, CacheInv, GoodCache, AskedInv, HeardInv
  <2> QED
    BY <2>1 DEF TypeOK, Inv, HostTypes, Bounds
<1> QED
  BY <1>1, Invariant, PTL

\* append_to_cache and the removal of what has expired never leave two entries of one
\* address in the array of the cache.
THEOREM OneEntryForEach == Spec => []OneEntryPerAddress
<1>1. Inv => OneEntryPerAddress
  BY DEF Inv, CacheInv, GoodCache, OneEntryPerAddress, IsInjective
<1> QED
  BY <1>1, Invariant, PTL

\* A package for a neighbour is in as many words as hold its payload, and of the payload
\* the receiver has exactly what its buffer has room for, whatever the daemons have read
\* and sent together with it; a ping server is told an address of a neighbour, never one
\* of its own host or of a host that is not on its links.
THEOREM FrontsArrive == Spec => []FrontArrives
<1>1. Inv => FrontArrives
  <2> SUFFICES ASSUME Inv PROVE FrontArrives
    OBVIOUS
  <2> DEFINE room == RecvMax - Struct
  <2>1. room \in Nat
    BY PackagesAssumption
  <2>2. ASSUME NEW h \in Host, NEW i \in DOMAIN inbox[h], NEW k \in DOMAIN inbox[h][i]
        PROVE  LET p == recv_raw_mip_package(inbox[h][i][k])
               IN /\ p.words * Word - p.size \in 0 .. Word - 1
                  /\ p.kept = Min({p.size, room})
    <3> DEFINE p == inbox[h][i][k]
               q == recv_raw_mip_package(p)
    <3>1. p \in MIPPackage /\ Whole(p)
      BY DEF Inv, InboxInv, GoodBoxes
    <3> HIDE DEF p
    <3>2. /\ p \in [header : Header, words : 0 .. MaxWords, size : Nat, kept : Nat]
          /\ p.kept <= p.size /\ p.kept >= Min({p.size, room})
          /\ p.words * Word - p.size \in 0 .. Word - 1
      BY <3>1 DEF MIPPackage, Whole
    <3> HIDE DEF room
    <3>3. /\ Min({p.size, room}) = IF p.size <= room THEN p.size ELSE room
          /\ Min({p.kept, room}) = IF p.kept <= room THEN p.kept ELSE room
      BY <2>1, <3>2, MinOfTwo
    <3>4. q.words = p.words /\ q.size = p.size /\ q.kept = Min({p.kept, room})
      BY <3>2 DEF recv_raw_mip_package, room
    <3> HIDE DEF q
    <3>5. q.kept = Min({q.size, room})
      BY <2>1, <3>2, <3>3, <3>4
    <3> QED
      BY <3>2, <3>4, <3>5 DEF p, q
  <2>3. ASSUME NEW h \in Host, NEW k \in DOMAIN heard[h] PROVE GoodHeard(h, heard[h][k])
    BY DEF Inv, HeardInv
  <2> QED
    BY <2>2, <2>3 DEF FrontArrives, GoodHeard, OfNeighbour
<1> QED
  BY <1>1, Invariant, PTL

=============================================================================
