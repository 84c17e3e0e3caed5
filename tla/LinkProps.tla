----------------------------- MODULE LinkProps ------------------------------
(***************************************************************************)
(* What a host knows of its neighbours, and what reaches them.             *)
(***************************************************************************)
EXTENDS Link

\* The array of the cache never holds an address twice, so that with no more than 64
\* neighbours append_to_cache, which does not look at its size, stays inside it.
OneEntryPerAddress ==
  \A h \in Host : IsInjective([p \in DOMAIN cache[h].entries |->
                                 cache[h].entries[p].mip_address])

Known(h) == {<<e.mip_address, e.src_socket>> : e \in Range(cache[h].entries)}

\* The interfaces of other hosts that a host can reach, and through which socket.
Reach ==
  [h \in Host |->
     {[host |-> x[1], mip_address |-> MipAddress(x[1], x[2]), socket |-> x[3]] :
        x \in {y \in (Host \ {h}) \X (UNION {Interfaces(k) : k \in Host}) \X Interfaces(h) :
                 /\ y[2] \in Interfaces(y[1])
                 /\ NIC[y[1]][y[2]] = NIC[h][y[3]]}}]

\* Those whose daemon runs.
Actual(h) == {<<n.mip_address, n.socket>> : n \in {m \in Reach[h] : Running(m.host)}}

\* How many daemons have ended.
Ended == used.starts - Cardinality({h \in Host : daemon[h] # "down"})

\* No single fault, be it a lost frame or the end of a daemon, makes a host drop a
\* neighbour that runs, although an entry ends at the age at which it may just be
\* renewed, unless news of the neighbour already wait to be read.
LiveNeighbourKept ==
  [][\A h \in Host :
       cache'[h] # cache[h] /\ daemon'[h] # "down" /\ used.losses + Ended <= 1 =>
       \A n \in Known(h) \cap Actual(h) :
       \/ \E e \in Range(cache'[h].entries) : e.mip_address = n[1]
       \/ \E i \in DOMAIN inbox[h] : \E p \in Range(inbox[h][i]) : p.header.src = n[1]]_vars

\* What an application sends to a neighbour travels in words that hold it all, and of
\* it arrives what fits the receiver's buffer, the first 162 bytes: nothing is lost
\* before, whatever is read with it, and everything after that is, although
\* mip_package.c:31 allows packages of 1500 bytes.  A ping server is told the address
\* of a neighbour, its answer's destination.
FrontArrives ==
  \A h \in Host :
    /\ \A i \in DOMAIN inbox[h] : \A k \in DOMAIN inbox[h][i] :
         LET p == recv_raw_mip_package(inbox[h][i][k])
         IN IsOwn(h, p.header.dst) =>
              /\ p.words * Word - p.size \in 0 .. Word - 1
              /\ p.kept = Min({p.size, RecvMax - Struct})
    /\ \A k \in DOMAIN heard[h] :
         /\ heard[h][k].kept >= Min({heard[h][k].size, RecvMax - Struct}) - Word + 1
         /\ \E g \in Host \ {h} : \E j \in Interfaces(g) :
              /\ MipAddress(g, j) = heard[h][k].mip_address
              /\ NIC[g][j] \in Range(NIC[h])

-----------------------------------------------------------------------------
(* Liveness *)

\* Daemons and ping servers are never kept from running, and time does not stop: while a
\* daemon is up, steps go on.  This is weak fairness of Next where a step can be taken,
\* which the check for deadlock shows; starts, ends and messages are finitely many, so it
\* is daemons, ping servers and time that go on.
Fairness == []<><<TRUE>>_vars \/ <>[](\A h \in Host : daemon[h] = "down")

FairSpec == Spec /\ Fairness

\* Once daemons no longer start, end or lose frames, every cache names exactly the live
\* neighbours, each at the interface it is on: entries learned through a socket that was
\* not bound yet, from lost frames' times, and of daemons that have ended, all go.
CachesConverge ==
  <>[](\A h \in Host : Running(h) => Known(h) = Actual(h))
=============================================================================
