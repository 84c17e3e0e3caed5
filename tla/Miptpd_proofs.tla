---------------------------- MODULE Miptpd_proofs ----------------------------
(***************************************************************************)
(* Proofs about the transport daemon, for every set of applications and    *)
(* of requests, every size of a batch, a window and a number that          *)
(* SendJobAssumption and JobsFit admit, and every bound of                 *)
(* MiptpdAssumption.                                                       *)
(***************************************************************************)
EXTENDS MiptpdProps, List_proofs, Jobs_proofs

-----------------------------------------------------------------------------
(* The list of connections *)

\* A list in the order of its own walk.
IsList(V, list) == ListOf(V, list, LIST_FOREACH(list))

\* A list is in the order of its own walk, which meets all nodes in memory.
LEMMA ListIs ==
  ASSUME NEW V, NEW list, NEW s, ListOf(V, list, s)
  PROVE  IsList(V, list) /\ DOMAIN list.nodes = Range(LIST_FOREACH(list))
<1>1. LIST_FOREACH(list) = s
  BY WalksMeetTheNodes
<1>2. s \in Seq(Address) /\ DOMAIN list.nodes = {s[k] : k \in 1 .. Len(s)}
  BY DEF ListOf, Represents
<1>3. DOMAIN s = 1 .. Len(s)
  BY <1>2
<1> QED
  BY <1>1, <1>2, <1>3 DEF IsList, Range

\* List_push adds a node and leaves the values of the others alone.
LEMMA Pushed ==
  ASSUME NEW V, NEW list, IsList(V, list), NEW v \in V
  PROVE  LET p == List_push(list, v)
         IN /\ IsList(V, p)
            /\ \E n \in Address \ DOMAIN list.nodes :
                 /\ DOMAIN p.nodes = DOMAIN list.nodes \cup {n}
                 /\ p.nodes[n].value = v
                 /\ \A m \in DOMAIN list.nodes : p.nodes[m].value = list.nodes[m].value
<1> DEFINE s == LIST_FOREACH(list)
           n == Calloc(list)
           p == List_push(list, v)
           t == Append(s, n)
<1>1. ListOf(V, list, s)
  BY DEF IsList
<1>2. n \in Address /\ n \notin DOMAIN list.nodes
  BY <1>1, CallocIsFresh
<1>3. /\ ListOf(V, p, t)
      /\ p.nodes[n].value = v
      /\ \A m \in DOMAIN list.nodes : p.nodes[m].value = list.nodes[m].value
  BY <1>1, PushAppends
<1>4. IsList(V, p)
  BY <1>3, ListIs
<1>5. DOMAIN p.nodes = DOMAIN list.nodes \cup {n}
  <2>1. /\ DOMAIN p.nodes = {t[k] : k \in 1 .. Len(t)}
        /\ DOMAIN list.nodes = {s[k] : k \in 1 .. Len(s)}
        /\ s \in Seq(Address)
    BY <1>1, <1>3 DEF ListOf, Represents
  <2>2. /\ Len(s) \in Nat /\ Len(t) = Len(s) + 1
        /\ \A k \in 1 .. Len(s) : t[k] = s[k]
        /\ t[Len(s) + 1] = n
    BY <2>1, <1>2
  <2> HIDE DEF p, s, n, t
  <2> QED
    BY <2>1, <2>2
<1> QED
  BY <1>2, <1>3, <1>4, <1>5

\* List_remove takes a node away and leaves the values of the others alone.
LEMMA Removed ==
  ASSUME NEW V, NEW list, IsList(V, list), NEW cur \in DOMAIN list.nodes
  PROVE  LET q == List_remove(list, cur)
         IN /\ IsList(V, q)
            /\ DOMAIN q.nodes = DOMAIN list.nodes \ {cur}
            /\ \A m \in DOMAIN q.nodes : q.nodes[m].value = list.nodes[m].value
<1> DEFINE s == LIST_FOREACH(list)
           q == List_remove(list, cur)
<1>1. /\ ListOf(V, list, s)
      /\ DOMAIN list.nodes = {s[k] : k \in 1 .. Len(s)}
      /\ \A j, k \in 1 .. Len(s) : s[j] = s[k] => j = k
      /\ s \in Seq(Address)
  BY DEF IsList, ListOf, Represents
<1>2. PICK i \in 1 .. Len(s) : s[i] = cur
  BY <1>1
<1> DEFINE t == Without(s, i)
<1>3. /\ ListOf(V, q, t)
      /\ \A m \in DOMAIN list.nodes \ {cur} : q.nodes[m].value = list.nodes[m].value
  BY <1>1, <1>2, RemoveTakesOut
<1>4. DOMAIN q.nodes = {t[k] : k \in 1 .. Len(t)} /\ t \in Seq(Address)
  BY <1>3 DEF ListOf, Represents
<1>5. /\ Len(s) \in Nat /\ Len(t) = Len(s) - 1
      /\ \A k \in 1 .. Len(s) - 1 : t[k] = IF k < i THEN s[k] ELSE s[k + 1]
  BY <1>1, <1>2 DEF Without
<1>6. DOMAIN q.nodes = DOMAIN list.nodes \ {cur}
  <2> HIDE DEF t, s, q
  <2>1. ASSUME NEW k \in 1 .. Len(t) PROVE t[k] \in DOMAIN list.nodes \ {cur}
    <3>1. \/ k # i /\ k \in 1 .. Len(s) /\ k < i
          \/ k + 1 # i /\ k + 1 \in 1 .. Len(s) /\ ~(k < i)
      BY <1>5, <1>2
    <3> QED
      BY <3>1, <1>1, <1>2, <1>5
  <2>2. ASSUME NEW m \in DOMAIN list.nodes \ {cur} PROVE m \in DOMAIN q.nodes
    <3>1. PICK j \in 1 .. Len(s) : s[j] = m
      BY <1>1
    <3>2. j # i
      BY <3>1, <1>2
    <3>3. CASE j < i
      BY <3>1, <3>3, <1>2, <1>4, <1>5
    <3>4. CASE j > i
      <4>1. j - 1 \in 1 .. Len(t) /\ t[j - 1] = s[j]
        BY <3>4, <1>2, <1>5
      <4> QED
        BY <3>1, <4>1, <1>4
    <3> QED
      BY <3>2, <3>3, <3>4, <1>2
  <2> QED
    BY <2>1, <2>2, <1>4
<1> QED
  BY <1>3, <1>6, ListIs

-----------------------------------------------------------------------------
(* Connections *)

\* The connections a daemon makes.
LEMMA ConnectionTypes ==
  /\ \A a \in App : AppConnection_create_not_ready(a) \in AppConnection
  /\ \A a \in App, r \in Request :
       ~CreateFails(r) => AppConnection_create(a, r) \in AppConnection
<1>1. /\ Window + 1 \in UInt16 /\ 0 \in UInt16
      /\ PortWidth \in Nat \ {0}
  BY SendJobAssumption, MiptpdAssumption DEF UInt16
<1>2. NoJob \in MIPTPSendJob
  BY <1>1 DEF NoJob, MIPTPSendJob, SlidingWindow
<1>3. PortWidth - 1 \in Port
  BY <1>1 DEF Port
<1>4. ASSUME NEW a \in App PROVE AppConnection_create_not_ready(a) \in AppConnection
  BY <1>2, <1>3 DEF AppConnection_create_not_ready, AppConnection
<1>5. ASSUME NEW a \in App, NEW r \in Request, ~CreateFails(r)
      PROVE  AppConnection_create(a, r) \in AppConnection
  <2>1. r \in ClientPackage
    BY MiptpdAssumption
  <2>2. r.port % PortWidth \in Port /\ r.dst \in Nat
    BY <1>1, <2>1 DEF ClientPackage, Port
  <2>3. MIPTPSendJob_create(r.size) \in MIPTPSendJob
    BY <1>1, <2>1
       DEF ClientPackage, MIPTPSendJob_create, SlidingWindow_create, MIPTPSendJob, SlidingWindow
  <2>4. connection_type(r.type) \in {"NOT_READY", "SENDER", "COMPLETE"}
    BY <1>5 DEF connection_type, CreateFails
  <2>5. (IF r.type = "sender" THEN MIPTPSendJob_create(r.size) ELSE NoJob) \in MIPTPSendJob
    BY <1>2, <2>3
  <2> QED
    BY <2>2, <2>4, <2>5 DEF AppConnection_create, AppConnection
<1> QED
  BY <1>4, <1>5

\* A connection that receives a package remains one of the same application.
LEMMA ReceivedTypes ==
  ASSUME NEW c \in AppConnection, NEW seq \in UInt16
  PROVE  LET d == AppConnection_receive_package(c, seq)
         IN /\ d \in AppConnection
            /\ d.socket = c.socket
            /\ d.job.window.base >= c.job.window.base
            /\ c.status = "COMPLETE" => d.status = "COMPLETE"
<1> DEFINE job == MIPTPSendJob_receive_package(c.job, seq)
<1>1. /\ c.job \in MIPTPSendJob /\ c.job.window \in SlidingWindow
      /\ c.status \in {"NOT_READY", "SENDER", "COMPLETE"}
  BY DEF AppConnection, MIPTPSendJob
<1>2. /\ job \in MIPTPSendJob
      /\ job.window.base >= c.job.window.base
  <2>1. job = [c.job EXCEPT !.window = SlidingWindow_update(c.job.window, seq)]
    BY DEF MIPTPSendJob_receive_package
  <2> QED
    BY <1>1, <2>1, WindowMovesForward DEF MIPTPSendJob
<1>3. c.job.window.base \in Nat
  BY <1>1, SendJobAssumption DEF SlidingWindow, UInt16
<1>4. CASE c.status # "SENDER"
  BY <1>3, <1>4 DEF AppConnection_receive_package
<1>5. CASE c.status = "SENDER"
  <2> DEFINE st == IF MIPTPSendJob_is_complete(job) THEN "COMPLETE" ELSE c.status
             d == [c EXCEPT !.job = job, !.status = st]
  <2>1. AppConnection_receive_package(c, seq) = d
    BY <1>5 DEF AppConnection_receive_package
  <2>2. st \in {"NOT_READY", "SENDER", "COMPLETE"}
    BY <1>1
  <2> HIDE DEF job, st
  <2>3. d \in AppConnection /\ d.socket = c.socket /\ d.job = job
    BY <1>2, <2>2 DEF AppConnection
  <2> QED
    BY <1>2, <1>5, <2>1, <2>3
<1> QED
  BY <1>4, <1>5

-----------------------------------------------------------------------------
(* The messages to send *)

\* Min is the least element.
LEMMA MinIs ==
  ASSUME NEW S \in SUBSET Nat, S # {}
  PROVE  Min(S) \in S /\ \A y \in S : Min(S) <= y
<1>1. PICK n \in S : \A m \in 0 .. n - 1 : m \notin S
  BY LeastNumber
<1>2. \A y \in S : n <= y
  BY <1>1
<1> QED
  BY <1>2 DEF Min

\* The numbers of the packages that are sent begin with the base of the window; they
\* end below its bound and before the first number there is no package of.
LEMMA WindowIsSent ==
  ASSUME NEW job \in MIPTPSendJob
  PROVE  LET w  == job.window
             ps == MIPTPSendJob_next_packages(job)
         IN /\ ps \in Seq(MIPTPPackage)
            /\ \A k \in 1 .. Len(ps) : ps[k] = MIPTPSendJob_next_package(job, w.base + k - 1)
            /\ \A n \in Nat :
                 /\ w.base + n <= w.max
                 /\ \A i \in w.base .. w.base + n - 1 : ~NextPackageIsNull(job, i)
                 => n <= Len(ps)
<1> DEFINE w    == job.window
           none == {i \in w.base .. w.max - 1 : NextPackageIsNull(job, i)}
           end  == IF none = {} THEN w.max ELSE Min(none)
           ps   == MIPTPSendJob_next_packages(job)
<1>1. /\ w.base \in Nat /\ w.max \in Nat /\ w.max < Width /\ w.max \in UInt16
      /\ w.base \in UInt16
  BY SendJobAssumption DEF MIPTPSendJob, SlidingWindow, UInt16
<1>2. /\ end \in Nat /\ end <= w.max
      /\ \A i \in w.base .. end - 1 : ~NextPackageIsNull(job, i)
      /\ end < w.max => w.base <= end /\ NextPackageIsNull(job, end)
  <2>1. CASE none = {}
    BY <1>1, <2>1
  <2>2. CASE none # {}
    <3>1. none \in SUBSET Nat
      BY <1>1
    <3>2. Min(none) \in none /\ \A y \in none : Min(none) <= y
      BY <2>2, <3>1, MinIs
    <3> QED
      BY <1>1, <2>2, <3>2
  <2> QED
    BY <2>1, <2>2
<1>3. ps = [k \in 1 .. end - w.base |-> MIPTPSendJob_next_package(job, w.base + k - 1)]
  BY DEF MIPTPSendJob_next_packages
<1> HIDE DEF ps, end
<1>4. ASSUME NEW k \in 1 .. end - w.base
      PROVE  MIPTPSendJob_next_package(job, w.base + k - 1) \in MIPTPPackage
  <2>1. w.base + k - 1 \in w.base .. end - 1 /\ w.base + k - 1 \in UInt16
    BY <1>1, <1>2, SendJobAssumption DEF UInt16
  <2> QED
    BY <1>2, <2>1, PackageInsideData
<1>5. CASE w.base <= end
  <2>1. end - w.base \in Nat
    BY <1>1, <1>2, <1>5
  <2>2. ps \in Seq(MIPTPPackage) /\ Len(ps) = end - w.base
    BY <1>3, <1>4, <2>1
  <2>3. ASSUME NEW n \in Nat, w.base + n <= w.max,
               \A i \in w.base .. w.base + n - 1 : ~NextPackageIsNull(job, i)
        PROVE  n <= Len(ps)
    BY <1>1, <1>2, <1>5, <2>2, <2>3
  <2> QED
    BY <1>3, <2>1, <2>2, <2>3 DEF ps
<1>6. CASE w.base > end
  <2>1. 1 .. end - w.base = {}
    BY <1>1, <1>2, <1>6
  <2>2. ps = <<>>
    BY <1>3, <2>1
  <2>3. ASSUME NEW n \in Nat, w.base + n <= w.max PROVE FALSE
    BY <1>1, <1>2, <1>6, <2>3
  <2> QED
    BY <2>2, <2>3 DEF ps
<1> QED
  BY <1>1, <1>2, <1>5, <1>6

\* What a connection has to send are messages of mipd's.
LEMMA MessagesType ==
  ASSUME NEW c \in AppConnection
  PROVE  Messages(c) \in Seq(MIPDMessage)
<1> DEFINE ps == AppConnection_next_packages(c)
<1>1. ps \in Seq(MIPTPPackage)
  <2>1. c.job \in MIPTPSendJob
    BY DEF AppConnection
  <2> QED
    BY <2>1, WindowIsSent DEF AppConnection_next_packages
<1>2. ASSUME NEW q \in MIPTPPackage PROVE MIPTPPackage_serialize(q) \in MIPTPPackage
  <2> DEFINE len == IF q.len > SizeField THEN q.len - SizeField ELSE 0
  <2>1. len \in 0 .. Batch
    BY SendJobAssumption DEF MIPTPPackage
  <2>2. MIPTPPackage_serialize(q) = [q EXCEPT !.len = len]
    BY DEF MIPTPPackage_serialize
  <2> HIDE DEF len
  <2> QED
    BY <2>1, <2>2 DEF MIPTPPackage
<1>3. c.dst \in Nat /\ c.port \in Port
  BY DEF AppConnection
<1> HIDE DEF ps
<1>4. \A i \in DOMAIN ps :
        [dst |-> c.dst, port |-> c.port, package |-> MIPTPPackage_serialize(ps[i])]
          \in MIPDMessage
  BY <1>1, <1>2, <1>3 DEF MIPDMessage
<1> QED
  BY <1>1, <1>4 DEF Messages, ps

\* FlattenSeq joins sequences of elements of a set to one.
LEMMA FlattenSeqType ==
  ASSUME NEW S, NEW seqs \in Seq(Seq(S))
  PROVE  FlattenSeq(seqs) \in Seq(S)
<1> DEFINE n == Len(seqs)
           Joins(f, m) == f = [i \in 1 .. m |-> IF i = 1 THEN seqs[i] ELSE f[i - 1] \o seqs[i]]
           Wrong == {m \in Nat : m <= n /\ ~\E f : Joins(f, m)}
<1>1. n \in Nat /\ \A i \in 1 .. n : seqs[i] \in Seq(S)
  OBVIOUS
<1>2. Wrong = {}
  <2>1. SUFFICES ASSUME Wrong # {} PROVE FALSE
    OBVIOUS
  <2>2. PICK m \in Wrong : \A j \in 0 .. m - 1 : j \notin Wrong
    BY <2>1, LeastNumber
  <2>3. m \in Nat /\ m <= n /\ ~\E f : Joins(f, m)
    OBVIOUS
  <2>4. CASE m = 0
    <3>1. 1 .. m = {}
      BY <2>4
    <3>2. Joins(<<>>, m)
      BY <3>1
    <3> QED
      BY <2>3, <3>2
  <2>5. CASE m > 0
    <3>1. PICK f : Joins(f, m - 1)
      <4>1. m - 1 \in Nat /\ m - 1 <= n /\ m - 1 \notin Wrong
        <5> HIDE DEF Wrong
        <5> QED
          BY <2>2, <2>3, <2>5, <1>1
      <4> HIDE DEF Joins
      <4> QED
        BY <4>1
    <3> DEFINE g == [i \in 1 .. m |->
                       IF i < m THEN f[i]
                       ELSE IF i = 1 THEN seqs[i] ELSE f[i - 1] \o seqs[i]]
    <3>2. ASSUME NEW i \in 1 .. m
          PROVE  g[i] = IF i = 1 THEN seqs[i] ELSE g[i - 1] \o seqs[i]
      <4>1. CASE i < m
        <5>1. i \in 1 .. m - 1 /\ f[i] = IF i = 1 THEN seqs[i] ELSE f[i - 1] \o seqs[i]
          <6>1. i \in 1 .. m - 1
            BY <2>3, <4>1
          <6> QED
            BY <3>1, <6>1
        <5>2. i # 1 => i - 1 \in 1 .. m /\ g[i - 1] = f[i - 1]
          BY <2>3, <4>1
        <5> QED
          BY <4>1, <5>1, <5>2
      <4>2. CASE i = m
        <5>1. i # 1 => i - 1 \in 1 .. m /\ g[i - 1] = f[i - 1]
          BY <2>3, <4>2
        <5> QED
          BY <4>2, <5>1
      <4> QED
        BY <2>3, <4>1, <4>2
    <3>3. Joins(g, m)
      <4> DEFINE h == [i \in 1 .. m |-> IF i = 1 THEN seqs[i] ELSE g[i - 1] \o seqs[i]]
      <4>1. \A i \in 1 .. m : g[i] = h[i]
        BY <3>2
      <4>2. g = [i \in 1 .. m |-> g[i]]
        OBVIOUS
      <4> HIDE DEF g
      <4>3. g = h
        BY <4>1, <4>2
      <4> QED
        BY <4>3
    <3> QED
      BY <2>3, <3>3
  <2> QED
    BY <2>3, <2>4, <2>5
<1>3. CASE n = 0
  BY <1>3 DEF FlattenSeq
<1>4. CASE n > 0
  <2> DEFINE Flattens(f) == Joins(f, n)
             flatten == CHOOSE f : Flattens(f)
  <2>1. \E f : Flattens(f)
    <3> HIDE DEF Joins
    <3> QED
      BY <1>1, <1>2
  <2>2. Flattens(flatten)
    <3> HIDE DEF Flattens
    <3> QED
      BY <2>1
  <2>3. FlattenSeq(seqs) = flatten[n]
    BY <1>1, <1>4 DEF FlattenSeq
  <2> HIDE DEF flatten
  <2> DEFINE Off == {k \in Nat : k \in 1 .. n /\ flatten[k] \notin Seq(S)}
  <2>4. Off = {}
    <3>1. SUFFICES ASSUME Off # {} PROVE FALSE
      OBVIOUS
    <3>2. PICK k \in Off : \A j \in 0 .. k - 1 : j \notin Off
      BY <3>1, LeastNumber
    <3>3. /\ k \in 1 .. n
          /\ flatten[k] = IF k = 1 THEN seqs[k] ELSE flatten[k - 1] \o seqs[k]
      BY <2>2
    <3>4. k # 1 => flatten[k - 1] \in Seq(S)
      BY <1>1, <3>2, <3>3
    <3>5. flatten[k] \in Seq(S)
      <4>1. seqs[k] \in Seq(S)
        BY <1>1, <3>3
      <4>2. CASE k = 1
        BY <3>3, <4>1, <4>2
      <4>3. CASE k # 1
        <5>1. \A u, v \in Seq(S) : u \o v \in Seq(S)
          OBVIOUS
        <5> QED
          BY <3>3, <3>4, <4>1, <4>3, <5>1
      <4> QED
        BY <4>2, <4>3
    <3> QED
      BY <3>2, <3>5
  <2> QED
    BY <1>1, <1>4, <2>3, <2>4
<1> QED
  BY <1>1, <1>3, <1>4

-----------------------------------------------------------------------------
(* The inductive invariant *)

\* Everything but the list has its type.
RestTypes ==
  /\ daemon \in {"down", "connected", "listening", "waiting", "sending", "handling",
                 "exited", "killed"}
  /\ running \in BOOLEAN
  /\ events \subseteq Descriptor
  /\ outbox \in Seq(MIPDMessage)
  /\ stage \in [App -> {"idle", "backlog", "accepted", "disconnected"}]
  /\ left \in [App -> BOOLEAN]
  /\ input \in [App -> Seq(Bytes \cup {Rest})]
  /\ typed \in BOOLEAN
  /\ mipd \in {"free", "writing", "gone"}
  /\ news \in BOOLEAN
  /\ toMipd \in Seq(MIPDMessage)
  /\ used \in [writes : 0 .. MaxWrites, news : 0 .. MaxNews, ends : 0 .. MaxEnds]

\* connections is a well-formed list of connections.
ListInv == IsList(AppConnection, connections)

Nodes    == DOMAIN connections.nodes
Value(n) == connections.nodes[n].value

\* The accepted applications and the connections belong to each other, one to one.
SocketInv ==
  /\ \A m, n \in Nodes : Value(m).socket = Value(n).socket => m = n
  /\ \A n \in Nodes : stage[Value(n).socket] = "accepted"
  /\ \A a \in App : stage[a] = "accepted" => \E n \in Nodes : Value(n).socket = a

\* The window of a job that is not complete begins at one of its packages before the
\* last, and is as wide as it was made.
JobInv ==
  \A n \in Nodes :
    LET job == Value(n).job
    IN Value(n).status = "SENDER" /\ job.size > 0 =>
         /\ job.window.base = 0 \/ job.window.base < NumPackages(job) - 1
         /\ job.window.max = job.window.base + Window + 1

\* The loop sends only while there is something to send.
SendInv == daemon = "sending" => outbox # <<>>

Inv == RestTypes /\ ListInv /\ SendInv /\ SocketInv /\ JobInv

\* What the form of the list says of its nodes.
LEMMA ListFacts ==
  ASSUME ListInv
  PROVE  /\ connections.count \in Nat /\ {connections.first, connections.last} \subseteq Nat
         /\ \A n \in Nodes : /\ connections.nodes[n] \in ListNode(AppConnection)
                             /\ Value(n) \in AppConnection
         /\ Nodes = Range(LIST_FOREACH(connections))
<1> DEFINE s == LIST_FOREACH(connections)
<1>1. ListOf(AppConnection, connections, s)
  BY DEF ListInv, IsList
<1>2. Nodes = Range(s)
  BY <1>1, ListIs DEF Nodes
<1>3. /\ Len(s) \in Nat
      /\ \A k \in 1 .. Len(s) : s[k] \in Nat
      /\ connections.count = Len(s)
      /\ connections.first = (IF Len(s) = 0 THEN NULL ELSE s[1])
      /\ connections.last = (IF Len(s) = 0 THEN NULL ELSE s[Len(s)])
      /\ connections.nodes \in [Nodes -> ListNode(AppConnection)]
  BY <1>1 DEF ListOf, Represents, Nodes, Address
<1>4. \A n \in Nodes : /\ connections.nodes[n] \in ListNode(AppConnection)
                       /\ Value(n) \in AppConnection
  BY <1>3 DEF ListNode, Value
<1> HIDE DEF s
<1>5. connections.count \in Nat /\ {connections.first, connections.last} \subseteq Nat
  BY <1>3 DEF NULL
<1> QED
  BY <1>2, <1>4, <1>5 DEF s

\* The type invariant is the types of the list and of the rest.
LEMMA TypeIs ==
  ASSUME RestTypes, ListInv
  PROVE  TypeOK
BY ListFacts DEF TypeOK, RestTypes, Nodes

-----------------------------------------------------------------------------
(* What a step does to the connections *)

\* The list, and who is accepted, stay.
Stays ==
  /\ UNCHANGED connections
  /\ \A a \in App : stage'[a] = "accepted" <=> stage[a] = "accepted"

\* Some connections receive a package with number seq.
Receives ==
  /\ UNCHANGED stage
  /\ Nodes' = Nodes
  /\ \E seq \in UInt16, S \in SUBSET Nodes :
       \A n \in Nodes :
         Value(n)' = IF n \in S THEN AppConnection_receive_package(Value(n), seq) ELSE Value(n)

\* An application is accepted.
Accepts ==
  \E a \in App, n \in Address \ Nodes :
    /\ stage[a] = "backlog"
    /\ stage' = [stage EXCEPT ![a] = "accepted"]
    /\ Nodes' = Nodes \cup {n}
    /\ Value(n)' = AppConnection_create_not_ready(a)
    /\ \A m \in Nodes : Value(m)' = Value(m)

\* The connection at cur is replaced, after a request of its application, by one at n.
Asks ==
  \E a \in App, r \in Request, cur \in Nodes :
    \E n \in Address \ (Nodes \ {cur}) :
      /\ UNCHANGED stage
      /\ input'[a] # input[a]
      /\ Value(cur).socket = a
      /\ ~CreateFails(r)
      /\ Nodes' = (Nodes \ {cur}) \cup {n}
      /\ Value(n)' = AppConnection_create(a, r)
      /\ \A m \in Nodes \ {cur} : Value(m)' = Value(m)

\* The connection at cur is removed.
Departs ==
  \E a \in App, cur \in Nodes :
    /\ stage' = [stage EXCEPT ![a] = "disconnected"]
    /\ Value(cur).socket = a
    /\ Nodes' = Nodes \ {cur}
    /\ \A m \in Nodes \ {cur} : Value(m)' = Value(m)

ConnStep == Stays \/ Receives \/ Accepts \/ Asks \/ Departs

\* The nodes of a's connection are nodes of the list.
LEMMA NodesOfAre ==
  ASSUME ListInv, NEW a
  PROVE  NodesOf(a) = {n \in Nodes : Value(n).socket = a}
BY ListFacts DEF NodesOf, Value

\* A package of mipd's is received by the connections of its port and leaves the list
\* as it is.
LEMMA ReceiveSteps ==
  ASSUME ListInv, NEW package \in MIPTPPackage_deserialize, ForEachOf(package),
         UNCHANGED stage
  PROVE  ListInv' /\ Receives
<1> DEFINE s == LIST_FOREACH(connections)
           S == {n \in Nodes : Value(n).port = package.port}
           after(n) == IF n \in S
                       THEN [connections.nodes[n] EXCEPT
                               !.value = AppConnection_receive_package(@, package.PSN)]
                       ELSE connections.nodes[n]
           nodes == [n \in Nodes |-> after(n)]
<1>1. package.PSN \in UInt16
  BY DEF MIPTPPackage_deserialize
<1>2. connections' = [connections EXCEPT !.nodes = nodes]
  <2>1. S = {n \in Range(s) : connections.nodes[n].value.port = package.port}
    BY ListFacts DEF Value
  <2> HIDE DEF S, s
  <2> QED
    BY <2>1 DEF ForEachOf, Nodes, s
<1>3. ListOf(AppConnection, connections, s)
  BY DEF ListInv, IsList
<1>4. /\ \A n \in Nodes : /\ connections.nodes[n] \in ListNode(AppConnection)
                          /\ Value(n) \in AppConnection
  BY ListFacts
<1>5. ASSUME NEW n \in Nodes
      PROVE  /\ after(n) \in ListNode(AppConnection)
             /\ after(n).next = connections.nodes[n].next
             /\ after(n).prev = connections.nodes[n].prev
             /\ after(n).value = IF n \in S
                                 THEN AppConnection_receive_package(Value(n), package.PSN)
                                 ELSE Value(n)
  <2>1. AppConnection_receive_package(Value(n), package.PSN) \in AppConnection
    BY <1>1, <1>4, ReceivedTypes
  <2> QED
    BY <1>4, <2>1 DEF ListNode, Value
<1> HIDE DEF after, S
<1>6. connections.nodes \in [Nodes -> ListNode(AppConnection)]
  BY <1>3 DEF ListOf, Nodes
<1>7. /\ connections'.count = connections.count
      /\ connections'.first = connections.first
      /\ connections'.last = connections.last
      /\ connections'.nodes = nodes
  BY <1>2 DEF ListOf
<1>8. nodes = [n \in Nodes |-> after(n)] /\ Nodes' = Nodes
  BY <1>7 DEF Nodes
<1>9. \A n \in Nodes : nodes[n] = after(n)
  OBVIOUS
<1> HIDE DEF nodes
<1>10. ListOf(AppConnection, connections', s)
  <2>1. s \in Seq(Address) /\ Represents(connections, s)
    BY <1>3 DEF ListOf
  <2>2. \A k \in 1 .. Len(s) : s[k] \in Nodes
    BY <2>1 DEF Represents, Nodes
  <2>3. connections'.nodes \in [DOMAIN connections'.nodes -> ListNode(AppConnection)]
    BY <1>5, <1>7, <1>8, <1>9
  <2>4. /\ DOMAIN connections'.nodes = DOMAIN connections.nodes
        /\ \A k \in 1 .. Len(s) :
             /\ connections'.nodes[s[k]].next = connections.nodes[s[k]].next
             /\ connections'.nodes[s[k]].prev = connections.nodes[s[k]].prev
    BY <1>5, <1>7, <1>8, <1>9, <2>2 DEF Nodes
  <2>5. Represents(connections', s)
    BY <1>7, <2>1, <2>4 DEF Represents
  <2> QED
    BY <2>1, <2>3, <2>5 DEF ListOf
<1>11. ListInv'
  BY <1>10, ListIs DEF ListInv
<1>12. \A n \in Nodes :
         Value(n)' = IF n \in S THEN AppConnection_receive_package(Value(n), package.PSN)
                     ELSE Value(n)
  BY <1>5, <1>7, <1>9 DEF Value
<1>13. S \in SUBSET Nodes
  BY DEF S
<1> QED
  BY <1>1, <1>8, <1>11, <1>12, <1>13 DEF Receives

\* An accepted application gets a node of its own.
LEMMA AcceptSteps ==
  ASSUME ListInv, RestTypes, SocketInv, handle_connection
  PROVE  ListInv' /\ Accepts
<1>1. PICK a \in App :
        /\ stage[a] = "backlog"
        /\ stage' = [stage EXCEPT ![a] = "accepted"]
        /\ connections' = List_push(connections, AppConnection_create_not_ready(a))
  BY DEF handle_connection
<1>2. AppConnection_create_not_ready(a) \in AppConnection
  BY ConnectionTypes
<1>3. /\ IsList(AppConnection, connections')
      /\ \E n \in Address \ Nodes :
           /\ DOMAIN connections'.nodes = Nodes \cup {n}
           /\ connections'.nodes[n].value = AppConnection_create_not_ready(a)
           /\ \A m \in Nodes : connections'.nodes[m].value = connections.nodes[m].value
  BY <1>1, <1>2, Pushed DEF ListInv, Nodes
<1> QED
  BY <1>1, <1>3 DEF Accepts, ListInv, Nodes, Value

\* What of input is left after a read differs from what was there: a request that is
\* read in two parts leaves a rest, but the rest of a rest is nothing.
LEMMA ReadChangesInput ==
  ASSUME RestTypes, NEW a \in App, AppRequest(a)
  PROVE  input'[a] # input[a] /\ input'[a] \in {<<>>, <<Rest>>}
<1>1. input[a] \in Seq(Bytes \cup {Rest}) /\ input[a] # <<>>
  BY DEF RestTypes, AppRequest
<1>2. PICK left_over \in AfterRead(Head(input[a])) : input' = [input EXCEPT ![a] = left_over]
  BY DEF AppRequest
<1>3. input'[a] = left_over
  BY <1>2 DEF RestTypes
<1>4. CASE left_over = <<>>
  BY <1>1, <1>3, <1>4
<1>5. CASE left_over # <<>>
  <2>1. Head(input[a]).length > Piece /\ left_over = <<Rest>>
    BY <1>2, <1>5 DEF AfterRead
  <2>2. input[a] # <<Rest>>
    <3>1. SUFFICES ASSUME input[a] = <<Rest>> PROVE FALSE
      OBVIOUS
    <3>2. Head(input[a]) = Rest
      BY <3>1
    <3>3. Rest.length = 0 /\ Piece \in Nat
      BY MiptpdAssumption DEF Rest
    <3> QED
      BY <2>1, <3>2, <3>3
  <2> QED
    BY <1>3, <2>1, <2>2
<1> QED
  BY <1>4, <1>5

\* A request replaces the connection of the application that asks, or ends the daemon.
LEMMA RequestSteps ==
  ASSUME ListInv, RestTypes, NEW a \in App, AppRequest(a)
  PROVE  ListInv' /\ (Stays \/ Asks)
<1>1. PICK r \in ClientPackage_deserialize(Head(input[a])) : handle_app_package(a, r)
  BY DEF AppRequest
<1>2. r \in Request
  <2>1. Head(input[a]) \in Bytes \cup {Rest}
    BY DEF AppRequest, RestTypes
  <2>2. ClientPackage_serialized_get(Head(input[a])) \subseteq Request
    BY <2>1 DEF ClientPackage_serialized_get, Bytes
  <2>3. PICK g \in Request : r = ClientPackage_create(g.port, g.dst, g.type, g.size)
    BY <2>2 DEF ClientPackage_deserialize
  <2>4. g \in ClientPackage
    BY MiptpdAssumption
  <2>5. r = g
    BY <2>3, <2>4 DEF ClientPackage_create, ClientPackage
  <2> QED
    BY <2>5
<1>3. UNCHANGED stage
  BY DEF AppRequest
<1>4. CASE r.port > 0 /\ r.dst > 0 /\ ~CreateFails(r)
  <2> DEFINE c == AppConnection_create(a, r)
  <2>1. PICK cur \in NodesOf(a) : connections' = List_push(List_remove(connections, cur), c)
    BY <1>1, <1>4 DEF handle_app_package, ReplacedIn
  <2>2. cur \in Nodes /\ Value(cur).socket = a
    BY <2>1, NodesOfAre
  <2>3. c \in AppConnection
    BY <1>2, <1>4, ConnectionTypes
  <2> DEFINE q == List_remove(connections, cur)
  <2>4. /\ IsList(AppConnection, q)
        /\ DOMAIN q.nodes = Nodes \ {cur}
        /\ \A m \in Nodes \ {cur} : q.nodes[m].value = connections.nodes[m].value
    BY <2>2, Removed DEF ListInv, Nodes
  <2> HIDE DEF q, c
  <2>5. /\ IsList(AppConnection, connections')
        /\ \E n \in Address \ (Nodes \ {cur}) :
             /\ DOMAIN connections'.nodes = (Nodes \ {cur}) \cup {n}
             /\ connections'.nodes[n].value = c
             /\ \A m \in Nodes \ {cur} : connections'.nodes[m].value = q.nodes[m].value
    BY <2>1, <2>3, <2>4, Pushed DEF q
  <2>6. input'[a] # input[a]
    BY ReadChangesInput
  <2>7. PICK n \in Address \ (Nodes \ {cur}) :
          /\ Nodes' = (Nodes \ {cur}) \cup {n}
          /\ Value(n)' = c
          /\ \A m \in Nodes \ {cur} : Value(m)' = Value(m)
    BY <2>4, <2>5 DEF Nodes, Value
  <2>8. Asks
    BY <1>2, <1>3, <1>4, <2>2, <2>6, <2>7 DEF Asks, c
  <2> QED
    BY <2>5, <2>8 DEF ListInv
<1>5. CASE ~(r.port > 0 /\ r.dst > 0 /\ ~CreateFails(r))
  <2>1. UNCHANGED connections
    BY <1>1, <1>5 DEF handle_app_package
  <2> QED
    BY <1>3, <2>1 DEF ListInv, Stays
<1> QED
  BY <1>4, <1>5

\* An application that was seen to leave loses its connection.
LEMMA DisconnectSteps ==
  ASSUME ListInv, NEW a \in App, Disconnect(a)
  PROVE  ListInv' /\ Departs
<1>1. /\ stage' = [stage EXCEPT ![a] = "disconnected"]
      /\ \E cur \in NodesOf(a) : connections' = List_remove(connections, cur)
  BY DEF Disconnect
<1>2. PICK cur \in NodesOf(a) : connections' = List_remove(connections, cur)
  BY <1>1
<1>3. cur \in Nodes /\ Value(cur).socket = a
  BY <1>2, NodesOfAre
<1>4. /\ IsList(AppConnection, connections')
      /\ Nodes' = Nodes \ {cur}
      /\ \A m \in Nodes \ {cur} : Value(m)' = Value(m)
  BY <1>2, <1>3, Removed DEF ListInv, Nodes, Value
<1> QED
  BY <1>1, <1>3, <1>4 DEF ListInv, Departs

\* Every step keeps the list, and does one of these things to the connections on it.
LEMMA ConnectionsStep ==
  ASSUME RestTypes, ListInv, SocketInv, [Next]_vars
  PROVE  ListInv' /\ ConnStep
<1> USE DEF ConnStep
<1>0. ASSUME UNCHANGED <<connections, stage>> PROVE ListInv' /\ Stays
  BY <1>0 DEF ListInv, Stays
<1>1. CASE \/ connect_to_domain_socket \/ BoundSocket_connect \/ setup_epoll
           \/ EpollWait \/ send_MIPDMessage \/ MipdDisconnects \/ StdinEvent
  BY <1>0, <1>1
     DEF connect_to_domain_socket, BoundSocket_connect, setup_epoll, EpollWait,
         send_MIPDMessage, MipdDisconnects, StdinEvent, clients
<1>2. CASE handle_mipd_package
  <2>1. UNCHANGED stage
    BY <1>2 DEF handle_mipd_package, clients
  <2>2. CASE UNCHANGED connections
    BY <1>0, <2>1, <2>2
  <2>3. CASE \E package \in MIPTPPackage_deserialize : ForEachOf(package)
    BY <2>1, <2>3, ReceiveSteps
  <2> QED
    BY <1>2, <2>2, <2>3 DEF handle_mipd_package
<1>3. CASE handle_connection
  BY <1>3, AcceptSteps
<1>4. ASSUME NEW a \in App, AppRequest(a) \/ Disconnect(a) \/ NobodysEvent(a)
      PROVE  ListInv' /\ ConnStep
  BY <1>0, <1>4, RequestSteps, DisconnectSteps DEF NobodysEvent, clients
<1>5. ASSUME NEW a \in App, Connects(a) \/ Writes(a) \/ Leaves(a)
      PROVE  ListInv' /\ ConnStep
  <2>1. CASE Connects(a)
    <3>1. /\ UNCHANGED connections
          /\ stage[a] = "idle"
          /\ stage' = [stage EXCEPT ![a] = "backlog"]
      BY <2>1 DEF Connects
    <3> QED
      BY <3>1 DEF ListInv, Stays, RestTypes
  <2> QED
    BY <1>0, <1>5, <2>1 DEF Writes, Leaves
<1>6. CASE TypesStop \/ MipdWrites \/ MipdWritten \/ MipdReads \/ MipdEnds
  BY <1>0, <1>6 DEF TypesStop, MipdWrites, MipdWritten, MipdReads, MipdEnds, clients
<1>7. CASE UNCHANGED vars
  BY <1>0, <1>7 DEF vars, clients
<1> QED
  BY <1>1, <1>2, <1>3, <1>4, <1>5, <1>6, <1>7 DEF Next, DaemonNext, PeerNext

-----------------------------------------------------------------------------
(* Types *)

\* The types hold at the start.
LEMMA InitTypes == Init => RestTypes /\ ListInv
<1> SUFFICES ASSUME Init PROVE RestTypes /\ ListInv
  OBVIOUS
<1>1. ListInv
  BY CreateIsEmpty, ListIs DEF Init, ListInv
<1>2. <<>> \in Seq(MIPDMessage) /\ <<>> \in Seq(Bytes \cup {Rest})
  OBVIOUS
<1>3. 0 \in 0 .. MaxWrites /\ 0 \in 0 .. MaxNews /\ 0 \in 0 .. MaxEnds
  BY MiptpdAssumption
<1>4. RestTypes
  BY <1>2, <1>3 DEF Init, RestTypes
<1> QED
  BY <1>1, <1>4

\* epoll_wait makes messages of the windows of all connections.
LEMMA WaitTypes ==
  ASSUME RestTypes, ListInv, EpollWait
  PROVE  outbox' \in Seq(MIPDMessage) /\ events' \subseteq Descriptor
<1> DEFINE s == LIST_FOREACH(connections)
<1>1. /\ s \in Seq(Address) /\ DOMAIN s = 1 .. Len(s) /\ Len(s) \in Nat
      /\ \A k \in DOMAIN s : s[k] \in Nodes
  BY ListFacts DEF ListInv, IsList, ListOf, Range
<1>2. conns = [k \in 1 .. Len(s) |-> Value(s[k])]
  BY <1>1 DEF conns, Values, ValuesAt, Value
<1> HIDE DEF s
<1>3. \A k \in 1 .. Len(s) : Value(s[k]) \in AppConnection
  BY <1>1, ListFacts
<1> DEFINE seqs == [i \in DOMAIN conns |-> Messages(conns[i])]
<1>4. DOMAIN conns = 1 .. Len(s) /\ \A i \in 1 .. Len(s) : conns[i] \in AppConnection
  BY <1>2, <1>3
<1>5. \A i \in 1 .. Len(s) : Messages(conns[i]) \in Seq(MIPDMessage)
  BY <1>4, MessagesType
<1>6. seqs \in Seq(Seq(MIPDMessage))
  BY <1>1, <1>4, <1>5
<1>7. outbox' = FlattenSeq(seqs)
  BY DEF EpollWait
<1>8. outbox' \in Seq(MIPDMessage)
  <2> HIDE DEF seqs
  <2> QED
    BY <1>6, <1>7, FlattenSeqType
<1>9. events' \subseteq Descriptor
  BY DEF EpollWait, kSubset
<1> QED
  BY <1>8, <1>9

\* Counting what has been used below a bound stays within it.
LEMMA UsedTypes ==
  ASSUME RestTypes
  PROVE  LET Used == [writes : 0 .. MaxWrites, news : 0 .. MaxNews, ends : 0 .. MaxEnds]
         IN /\ used.writes < MaxWrites => [used EXCEPT !.writes = @ + 1] \in Used
            /\ used.news < MaxNews => [used EXCEPT !.news = @ + 1] \in Used
            /\ AnEnd => used' \in Used
<1>1. /\ used \in [writes : 0 .. MaxWrites, news : 0 .. MaxNews, ends : 0 .. MaxEnds]
      /\ {MaxWrites, MaxNews, MaxEnds} \subseteq Nat
  BY MiptpdAssumption DEF RestTypes
<1>2. /\ used.writes < MaxWrites => used.writes + 1 \in 0 .. MaxWrites
      /\ used.news < MaxNews => used.news + 1 \in 0 .. MaxNews
      /\ used.ends < MaxEnds => used.ends + 1 \in 0 .. MaxEnds
  BY <1>1
<1> QED
  BY <1>1, <1>2 DEF AnEnd

\* Every step keeps the types.
LEMMA TypesStep ==
  ASSUME RestTypes, ListInv, SendInv, [Next]_vars
  PROVE  RestTypes'
<1> DEFINE Running == {"waiting", "sending", "handling", "exited"}
<1>0. \A ms, ds, go : GoesOn(ms, ds, go) => daemon' \in Running
  BY DEF GoesOn
<1>1. CASE connect_to_domain_socket \/ BoundSocket_connect \/ setup_epoll
  BY <1>1 DEF RestTypes, connect_to_domain_socket, BoundSocket_connect, setup_epoll,
     clients, peers
<1>2. CASE EpollWait
  BY <1>0, <1>2, WaitTypes DEF RestTypes, EpollWait, clients, peers
<1>3. CASE send_MIPDMessage
  <2>1. /\ UNCHANGED <<running, events, stage, left, input, typed, mipd, news, used>>
    BY <1>3 DEF send_MIPDMessage, clients
  <2>2. CASE mipd = "gone" /\ daemon' = "killed" /\ UNCHANGED <<outbox, toMipd>>
    BY <2>1, <2>2 DEF RestTypes
  <2>3. CASE /\ toMipd' = Append(toMipd, Head(outbox))
             /\ outbox' = Tail(outbox)
             /\ GoesOn(outbox', events, running)
    <3>1. outbox # <<>>
      BY <1>3 DEF send_MIPDMessage, SendInv
    <3>2. Head(outbox) \in MIPDMessage /\ Tail(outbox) \in Seq(MIPDMessage)
      BY <3>1 DEF RestTypes
    <3>3. toMipd' \in Seq(MIPDMessage)
      BY <2>3, <3>2 DEF RestTypes
    <3> QED
      BY <1>0, <2>1, <2>3, <3>2, <3>3 DEF RestTypes
  <2> QED
    BY <1>3, <2>2, <2>3 DEF send_MIPDMessage
<1>4. CASE handle_mipd_package \/ MipdDisconnects \/ StdinEvent
  BY <1>0, <1>4 DEF RestTypes, handle_mipd_package, MipdDisconnects, StdinEvent, Handle,
     Continues, clients, peers
<1>5. CASE handle_connection
  BY <1>0, <1>5 DEF RestTypes, handle_connection, Handle, Continues, peers
<1>6. ASSUME NEW a \in App, AppRequest(a)
      PROVE  RestTypes'
  <2>1. daemon' \in Running
    BY <1>0, <1>6 DEF AppRequest, handle_app_package, Continues, Exits
  <2>2. input' \in [App -> Seq(Bytes \cup {Rest})]
    <3>1. input'[a] \in {<<>>, <<Rest>>}
      BY <1>6, ReadChangesInput
    <3>2. input'[a] \in Seq(Bytes \cup {Rest})
      <4>1. <<>> \in Seq(Bytes \cup {Rest}) /\ <<Rest>> \in Seq(Bytes \cup {Rest})
        OBVIOUS
      <4> QED
        BY <3>1, <4>1
    <3>3. \E left_over : input' = [input EXCEPT ![a] = left_over]
      BY <1>6 DEF AppRequest
    <3> QED
      BY <3>2, <3>3 DEF RestTypes
  <2> QED
    BY <1>6, <2>1, <2>2 DEF RestTypes, AppRequest, Handle, peers
<1>7. ASSUME NEW a \in App, Disconnect(a) \/ NobodysEvent(a)
      PROVE  RestTypes'
  BY <1>0, <1>7 DEF RestTypes, Disconnect, NobodysEvent, Handle, Continues, clients, peers
<1>8. ASSUME NEW a \in App, Connects(a)
      PROVE  RestTypes'
  BY <1>8 DEF RestTypes, Connects, loop, peers
<1>9. ASSUME NEW a \in App, Writes(a)
      PROVE  RestTypes'
  <2>1. PICK r \in Request :
          input' = [input EXCEPT ![a] = Append(@, ClientPackage_serialize(r))]
    BY <1>9 DEF Writes
  <2>2. ClientPackage_serialize(r) \in Bytes
    BY MiptpdAssumption, SendJobAssumption
       DEF ClientPackage_serialize, calc_serialized_package_size, Bytes, ClientPackage, UInt16
  <2>3. Append(input[a], ClientPackage_serialize(r)) \in Seq(Bytes \cup {Rest})
    BY <2>2 DEF RestTypes
  <2>4. input' \in [App -> Seq(Bytes \cup {Rest})]
    BY <2>1, <2>3 DEF RestTypes
  <2> QED
    BY <1>9, <2>4, UsedTypes DEF RestTypes, Writes, loop, peers
<1>10. ASSUME NEW a \in App, Leaves(a)
       PROVE  RestTypes'
  BY <1>10, UsedTypes DEF RestTypes, Leaves, loop, peers
<1>11. CASE TypesStop
  BY <1>11, UsedTypes DEF RestTypes, TypesStop, loop, peers
<1>12. CASE MipdWrites
  <2>1. news' \in BOOLEAN /\ mipd' \in {"free", "writing", "gone"}
    BY <1>12 DEF MipdWrites, RestTypes
  <2>2. /\ used' \in [writes : 0 .. MaxWrites, news : 0 .. MaxNews, ends : 0 .. MaxEnds]
        /\ UNCHANGED <<daemon, running, events, outbox, stage, left, input, typed, toMipd>>
    BY <1>12, UsedTypes DEF MipdWrites, loop, clients
  <2> QED
    BY <2>1, <2>2 DEF RestTypes
<1>13. CASE MipdWritten \/ MipdReads
  <2>1. toMipd # <<>> => Tail(toMipd) \in Seq(MIPDMessage)
    BY DEF RestTypes
  <2> QED
    BY <1>13, <2>1 DEF RestTypes, MipdWritten, MipdReads, loop, clients
<1>14. CASE MipdEnds
  <2>1. <<>> \in Seq(MIPDMessage)
    OBVIOUS
  <2> QED
    BY <1>14, <2>1, UsedTypes DEF RestTypes, MipdEnds, loop, clients
<1>15. CASE UNCHANGED vars
  BY <1>15 DEF RestTypes, vars, loop, clients, peers
<1> QED
  BY <1>1, <1>2, <1>3, <1>4, <1>5, <1>6, <1>7, <1>8, <1>9, <1>10, <1>11, <1>12, <1>13,
     <1>14, <1>15 DEF Next, DaemonNext, PeerNext

\* The loop never waits to send nothing.
LEMMA SendStep ==
  ASSUME SendInv, [Next]_vars
  PROVE  SendInv'
<1>0. ASSUME UNCHANGED loop PROVE SendInv'
  BY <1>0 DEF SendInv, loop
<1>1. ASSUME NEW ds, NEW go, GoesOn(<<>>, ds, go) PROVE SendInv'
  BY <1>1 DEF SendInv, GoesOn
<1>2. CASE connect_to_domain_socket \/ BoundSocket_connect \/ setup_epoll
  BY <1>2 DEF SendInv, connect_to_domain_socket, BoundSocket_connect, setup_epoll
<1>3. CASE EpollWait
  BY <1>3 DEF SendInv, EpollWait, GoesOn
<1>4. CASE send_MIPDMessage
  BY <1>4 DEF SendInv, send_MIPDMessage, GoesOn
<1>5. CASE handle_mipd_package \/ MipdDisconnects \/ handle_connection \/ StdinEvent
  BY <1>1, <1>5 DEF SendInv, handle_mipd_package, MipdDisconnects, handle_connection,
     StdinEvent, Continues
<1>6. ASSUME NEW a \in App, AppRequest(a) \/ Disconnect(a) \/ NobodysEvent(a)
      PROVE  SendInv'
  BY <1>1, <1>6 DEF SendInv, AppRequest, handle_app_package, Exits, Disconnect,
     NobodysEvent, Continues
<1>7. CASE PeerNext
  BY <1>0, <1>7 DEF PeerNext, Connects, Writes, Leaves, TypesStop, MipdWrites,
     MipdWritten, MipdReads, MipdEnds
<1>8. CASE UNCHANGED vars
  BY <1>0, <1>8 DEF vars
<1> QED
  BY <1>2, <1>3, <1>4, <1>5, <1>6, <1>7, <1>8 DEF Next, DaemonNext

-----------------------------------------------------------------------------
(* Accepted applications and their connections *)

\* Every step keeps one connection for each accepted application and none for others.
LEMMA SocketStep ==
  ASSUME RestTypes, ListInv, SocketInv, ConnStep
  PROVE  SocketInv'
<1> DEFINE Unique == \A m, n \in Nodes : Value(m).socket = Value(n).socket => m = n
           Taken  == \A n \in Nodes : stage[Value(n).socket] = "accepted"
           Served == \A a \in App : stage[a] = "accepted" => \E n \in Nodes : Value(n).socket = a
<1>1. /\ Unique /\ Taken /\ Served
      /\ \A n \in Nodes : Value(n) \in AppConnection /\ Value(n).socket \in App
      /\ stage \in [App -> {"idle", "backlog", "accepted", "disconnected"}]
  BY ListFacts DEF SocketInv, AppConnection, RestTypes
<1>2. CASE Stays
  <2>1. Nodes' = Nodes /\ \A n \in Nodes : Value(n)' = Value(n)
    BY <1>2 DEF Stays, Nodes, Value
  <2> HIDE DEF Nodes, Value
  <2> QED
    BY <1>1, <1>2, <2>1 DEF Stays, SocketInv
<1>3. CASE Receives
  <2>1. \A n \in Nodes : Value(n)'.socket = Value(n).socket
    BY <1>1, <1>3, ReceivedTypes DEF Receives
  <2>2. Nodes' = Nodes /\ UNCHANGED stage
    BY <1>3 DEF Receives
  <2> QED
    BY <1>1, <2>1, <2>2 DEF SocketInv
<1>4. CASE Accepts
  <2>1. PICK a \in App, n \in Address \ Nodes :
          /\ stage[a] = "backlog"
          /\ stage' = [stage EXCEPT ![a] = "accepted"]
          /\ Nodes' = Nodes \cup {n}
          /\ Value(n)' = AppConnection_create_not_ready(a)
          /\ \A m \in Nodes : Value(m)' = Value(m)
    BY <1>4 DEF Accepts
  <2>2. Value(n)'.socket = a /\ \A m \in Nodes : Value(m).socket # a
    BY <1>1, <2>1 DEF AppConnection_create_not_ready
  <2>3. stage'[a] = "accepted" /\ \A b \in App \ {a} : stage'[b] = stage[b]
    BY <1>1, <2>1
  <2> QED
    BY <1>1, <2>1, <2>2, <2>3 DEF SocketInv
<1>5. CASE Asks
  <2>1. PICK a \in App, r \in Request, cur \in Nodes :
          \E n \in Address \ (Nodes \ {cur}) :
            /\ UNCHANGED stage
            /\ Value(cur).socket = a
            /\ Nodes' = (Nodes \ {cur}) \cup {n}
            /\ Value(n)' = AppConnection_create(a, r)
            /\ \A m \in Nodes \ {cur} : Value(m)' = Value(m)
    BY <1>5 DEF Asks
  <2>2. PICK n \in Address \ (Nodes \ {cur}) :
          /\ UNCHANGED stage
          /\ Value(cur).socket = a
          /\ Nodes' = (Nodes \ {cur}) \cup {n}
          /\ Value(n)' = AppConnection_create(a, r)
          /\ \A m \in Nodes \ {cur} : Value(m)' = Value(m)
    BY <2>1
  <2>3. Value(n)'.socket = a /\ \A m \in Nodes \ {cur} : Value(m).socket # a
    BY <1>1, <2>2 DEF AppConnection_create
  <2> QED
    BY <1>1, <2>2, <2>3 DEF SocketInv
<1>6. CASE Departs
  <2>1. PICK a \in App, cur \in Nodes :
          /\ stage' = [stage EXCEPT ![a] = "disconnected"]
          /\ Value(cur).socket = a
          /\ Nodes' = Nodes \ {cur}
          /\ \A m \in Nodes \ {cur} : Value(m)' = Value(m)
    BY <1>6 DEF Departs
  <2>2. \A m \in Nodes \ {cur} : Value(m).socket # a
    BY <1>1, <2>1
  <2>3. stage'[a] = "disconnected" /\ \A b \in App \ {a} : stage'[b] = stage[b]
    BY <1>1, <2>1
  <2> QED
    BY <1>1, <2>1, <2>2, <2>3 DEF SocketInv
<1> QED
  BY <1>2, <1>3, <1>4, <1>5, <1>6 DEF ConnStep

-----------------------------------------------------------------------------
(* Windows *)

\* NumPackages is the number of batches, rounded up: every package before the last
\* ends before the end of the data, and the largest job has room for its numbers.
LEMMA PackagesAre ==
  ASSUME NEW job \in MIPTPSendJob
  PROVE  /\ NumPackages(job) \in Nat
         /\ job.size > 0 => NumPackages(job) > 0
         /\ \A i \in Nat : i < NumPackages(job) => i * Batch < job.size
         /\ NumPackages(job) + Window <= Width
<1>1. /\ job.size \in Nat /\ job.size <= Width - 1
      /\ Batch \in Nat /\ Batch > 0 /\ Window \in Nat /\ Width \in Nat
  BY SendJobAssumption DEF MIPTPSendJob, UInt16
<1> DEFINE a == job.size + Batch - 1
           b == Width - 1 + Batch - 1
<1>2. a \in Nat /\ b \in Nat /\ a <= b
  BY <1>1, SendJobAssumption
<1>3. /\ a \div Batch \in Nat /\ b \div Batch \in Nat
      /\ a \div Batch <= b \div Batch
      /\ (a \div Batch) * Batch <= a /\ a < (a \div Batch + 1) * Batch
  BY <1>1, <1>2
<1>4. NumPackages(job) = a \div Batch
  BY DEF NumPackages
<1> DEFINE q == a \div Batch
<1>5. \A i \in Nat : i < q => i * Batch < job.size
  <2>1. SUFFICES ASSUME NEW i \in Nat, i < q PROVE i * Batch < job.size
    OBVIOUS
  <2>2. /\ q \in Nat /\ q * Batch <= job.size + Batch - 1
    BY <1>3
  <2> HIDE DEF q
  <2>3. (i + 1) * Batch <= q * Batch
    BY <1>1, <2>1, <2>2
  <2>4. (i + 1) * Batch = i * Batch + Batch
    BY <1>1
  <2>5. i * Batch \in Nat /\ q * Batch \in Nat
    BY <1>1, <2>2
  <2> QED
    BY <1>1, <2>2, <2>3, <2>4, <2>5
<1>6. job.size > 0 => q > 0
  <2>1. SUFFICES ASSUME job.size > 0, q = 0 PROVE FALSE
    BY <1>3
  <2>2. a < 1 * Batch
    BY <1>3, <2>1
  <2> QED
    BY <1>1, <2>1, <2>2
<1>7. q + Window <= Width
  <2>1. b \div Batch + Window <= Width
    BY JobsFit
  <2> HIDE DEF b, q
  <2>2. q <= b \div Batch /\ q \in Nat /\ b \div Batch \in Nat
    BY <1>3 DEF q
  <2> QED
    BY <1>1, <2>1, <2>2
<1> QED
  BY <1>3, <1>4, <1>5, <1>6, <1>7

\* What JobInv says of one connection.
Underway(c) ==
  c.status = "SENDER" /\ c.job.size > 0 =>
    /\ c.job.window.base = 0 \/ c.job.window.base < NumPackages(c.job) - 1
    /\ c.job.window.max = c.job.window.base + Window + 1

\* A job that is made is underway.
LEMMA MadeUnderway ==
  /\ \A a \in App : Underway(AppConnection_create_not_ready(a))
  /\ \A a \in App, r \in Request : Underway(AppConnection_create(a, r))
<1>1. ASSUME NEW a \in App PROVE Underway(AppConnection_create_not_ready(a))
  BY DEF Underway, AppConnection_create_not_ready
<1>2. ASSUME NEW a \in App, NEW r \in Request PROVE Underway(AppConnection_create(a, r))
  <2> DEFINE c == AppConnection_create(a, r)
  <2>1. c.status = connection_type(r.type)
    BY DEF AppConnection_create
  <2>2. c.status = "SENDER" => r.type = "sender"
    BY <2>1 DEF connection_type
  <2>3. r.type = "sender" => c.job.window = [base |-> 0, max |-> Window + 1]
    BY DEF AppConnection_create, MIPTPSendJob_create, SlidingWindow_create
  <2> HIDE DEF c
  <2> QED
    BY <2>2, <2>3, SendJobAssumption DEF Underway, c
<1> QED
  BY <1>1, <1>2

\* A job that receives a package is complete or remains underway.
LEMMA ReceivedUnderway ==
  ASSUME NEW c \in AppConnection, NEW seq \in UInt16, Underway(c)
  PROVE  Underway(AppConnection_receive_package(c, seq))
<1> DEFINE w   == c.job.window
           job == MIPTPSendJob_receive_package(c.job, seq)
           d   == AppConnection_receive_package(c, seq)
<1>1. /\ c.job \in MIPTPSendJob /\ w \in SlidingWindow
      /\ w.base \in Nat /\ w.max \in Nat /\ seq \in Nat
  BY SendJobAssumption DEF AppConnection, MIPTPSendJob, SlidingWindow, UInt16
<1>2. CASE c.status # "SENDER"
  BY <1>2 DEF AppConnection_receive_package, Underway
<1>3. CASE c.status = "SENDER"
  <2>1. /\ d.job = job
        /\ d.status = IF MIPTPSendJob_is_complete(job) THEN "COMPLETE" ELSE "SENDER"
    BY <1>3 DEF AppConnection_receive_package, AppConnection
  <2>2. /\ job.size = c.job.size
        /\ job.window = SlidingWindow_update(w, seq)
        /\ job \in MIPTPSendJob
    BY <1>1, WindowMovesForward DEF MIPTPSendJob_receive_package, MIPTPSendJob
  <2>3. NumPackages(job) = NumPackages(c.job)
    BY <2>2 DEF NumPackages
  <2> HIDE DEF d, job
  <2>4. SUFFICES ASSUME d.status = "SENDER", d.job.size > 0
        PROVE  /\ d.job.window.base = 0 \/ d.job.window.base < NumPackages(d.job) - 1
               /\ d.job.window.max = d.job.window.base + Window + 1
    BY DEF Underway, d
  <2>5. /\ job.size > 0 /\ ~(job.window.base >= NumPackages(job) - 1)
    BY <2>1, <2>4 DEF MIPTPSendJob_is_complete
  <2>6. /\ w.base = 0 \/ w.base < NumPackages(c.job) - 1
        /\ w.max = w.base + Window + 1
    BY <1>3, <2>2, <2>5 DEF Underway
  <2>7. CASE seq > w.base
    <3>1. job.window = [base |-> seq, max |-> Truncated(w.max - w.base + seq)]
      BY <2>2, <2>7 DEF SlidingWindow_update
    <3>2. /\ NumPackages(job) \in Nat /\ NumPackages(job) + Window <= Width
          /\ Window \in Nat /\ Width \in Nat
      BY <2>2, PackagesAre, SendJobAssumption
    <3>3. seq < NumPackages(job) - 1
      BY <1>1, <2>5, <3>1, <3>2
    <3>4. w.max - w.base + seq = seq + Window + 1 /\ seq + Window + 1 \in 0 .. Width - 1
      BY <1>1, <2>6, <3>2, <3>3
    <3>5. Truncated(w.max - w.base + seq) = seq + Window + 1
      BY <3>2, <3>4 DEF Truncated
    <3> QED
      BY <2>1, <3>1, <3>3, <3>5
  <2>8. CASE ~(seq > w.base)
    BY <2>1, <2>2, <2>3, <2>6, <2>8 DEF SlidingWindow_update
  <2> QED
    BY <2>7, <2>8
<1> QED
  BY <1>2, <1>3

\* Every step keeps the windows of the jobs that are not complete.
LEMMA JobStep ==
  ASSUME ListInv, JobInv, ConnStep
  PROVE  JobInv'
<1> DEFINE AllUnderway == \A n \in Nodes : Underway(Value(n))
<1>0. (JobInv <=> AllUnderway) /\ (JobInv' <=> AllUnderway')
  BY DEF JobInv, Underway
<1>1. AllUnderway /\ \A n \in Nodes : Value(n) \in AppConnection
  BY <1>0, ListFacts
<1>2. ASSUME Stays PROVE AllUnderway'
  BY <1>1, <1>2 DEF Stays, Nodes, Value
<1>3. ASSUME Receives PROVE AllUnderway'
  BY <1>1, <1>3, ReceivedUnderway DEF Receives
<1>4. ASSUME Accepts PROVE AllUnderway'
  BY <1>1, <1>4, MadeUnderway DEF Accepts
<1>5. ASSUME Asks PROVE AllUnderway'
  BY <1>1, <1>5, MadeUnderway DEF Asks
<1>6. ASSUME Departs PROVE AllUnderway'
  BY <1>1, <1>6 DEF Departs
<1> QED
  BY <1>0, <1>2, <1>3, <1>4, <1>5, <1>6 DEF ConnStep

-----------------------------------------------------------------------------
(* Theorems *)

\* The invariant holds at the start.
LEMMA InitInv == Init => Inv
<1> SUFFICES ASSUME Init PROVE Inv
  OBVIOUS
<1>1. Nodes = {}
  BY DEF Init, Nodes, List_create
<1>2. SocketInv /\ JobInv /\ SendInv
  BY <1>1 DEF Init, SocketInv, JobInv, SendInv
<1> QED
  BY <1>2, InitTypes DEF Inv

\* Every step keeps the invariant, and changes the connections in one of five ways.
LEMMA InvStep == Inv /\ [Next]_vars => Inv' /\ ConnStep
<1> SUFFICES ASSUME Inv, [Next]_vars PROVE Inv' /\ ConnStep
  OBVIOUS
<1>1. RestTypes /\ ListInv /\ SendInv /\ SocketInv /\ JobInv
  BY DEF Inv
<1>2. ListInv' /\ ConnStep
  BY <1>1, ConnectionsStep
<1>3. RestTypes' /\ SendInv' /\ SocketInv' /\ JobInv'
  BY <1>1, <1>2, TypesStep, SendStep, SocketStep, JobStep
<1> QED
  BY <1>2, <1>3 DEF Inv

\* The inductive invariant holds.
THEOREM Invariant == Spec => []Inv
<1>1. Inv /\ [Next]_vars => Inv'
  BY InvStep
<1> QED
  BY <1>1, InitInv, PTL DEF Spec

\* The variables, and the connections in the list with their jobs and windows, have
\* their types: no number, position, bound or port outgrows its field, no message is
\* longer than a batch, and no connection of a receiver comes to be.
THEOREM TypeCorrect == Spec => []TypeOK
<1>1. Inv => TypeOK
  BY TypeIs DEF Inv
<1> QED
  BY <1>1, Invariant, PTL

\* Whatever was pushed and removed in the middle of walks: the list is linked both ways,
\* a walk meets all nodes that are in memory, each once, and a walk from the other end
\* meets them in the opposite order.
THEOREM ListIsSound == Spec => []ListSound
<1>1. Inv => ListSound
  <2> SUFFICES ASSUME Inv PROVE ListSound
    OBVIOUS
  <2>1. ListOf(AppConnection, connections, LIST_FOREACH(connections))
    BY DEF Inv, ListInv, IsList
  <2>2. QUEUE_FOREACH(connections) = Reverse(LIST_FOREACH(connections))
    BY <2>1, WalksMeetTheNodes
  <2> QED
    BY <2>1, <2>2 DEF ListOf, ListSound
<1> QED
  BY <1>1, Invariant, PTL

\* An accepted application has exactly one connection, however often it asks anew, and
\* every other application has none.
THEOREM OneConnectionPerSocket == Spec => []ConnectionPerSocket
<1>1. Inv => ConnectionPerSocket
  <2> SUFFICES ASSUME Inv, NEW a \in App
      PROVE  Cardinality(NodesOf(a)) = IF stage[a] = "accepted" THEN 1 ELSE 0
    BY DEF ConnectionPerSocket
  <2>1. NodesOf(a) = {n \in Nodes : Value(n).socket = a}
    BY NodesOfAre DEF Inv
  <2>2. CASE stage[a] = "accepted"
    <3>1. PICK n \in Nodes : Value(n).socket = a
      BY <2>2 DEF Inv, SocketInv
    <3>2. NodesOf(a) = {n}
      BY <2>1, <3>1 DEF Inv, SocketInv
    <3> QED
      BY <2>2, <3>2, FS_Singleton
  <2>3. CASE stage[a] # "accepted"
    <3>1. NodesOf(a) = {}
      BY <2>1, <2>3 DEF Inv, SocketInv
    <3> QED
      BY <2>3, <3>1, FS_EmptySet
  <2> QED
    BY <2>2, <2>3
<1> QED
  BY <1>1, Invariant, PTL

\* Min of two numbers.
LEMMA MinOfTwo ==
  ASSUME NEW a \in Nat, NEW b \in Nat
  PROVE  Min({a, b}) = IF a <= b THEN a ELSE b
<1>1. Min({a, b}) \in {a, b} /\ \A y \in {a, b} : Min({a, b}) <= y
  BY MinIs
<1> QED
  BY <1>1

\* A job that is not complete has packages to send, and what its window sends begins
\* with all packages that are due, in order and with the bytes of their place: neither
\* a 16-bit position nor the bound of the window wraps before the job is complete.
THEOREM UnfinishedJobsSend == Spec => []UnfinishedJobSends
<1>1. Inv => UnfinishedJobSends
  <2> SUFFICES ASSUME Inv, NEW c \in Unfinished
      PROVE  Due(c.job) # <<>> /\ IsPrefix(Due(c.job), MIPTPSendJob_next_packages(c.job))
    BY DEF UnfinishedJobSends
  <2> DEFINE job  == c.job
             base == job.window.base
             size == job.size
             ps   == MIPTPSendJob_next_packages(job)
             np   == NumPackages(job)
             end  == Min({np, base + Window + 1})
  <2>1. PICK n \in Nodes : c = Value(n)
    BY DEF Unfinished, Held, Nodes, Value
  <2>2. /\ c \in AppConnection /\ c.status = "SENDER" /\ size > 0
        /\ base = 0 \/ base < np - 1
        /\ job.window.max = base + Window + 1
    BY <2>1, ListFacts DEF Inv, JobInv, Unfinished
  <2>3. /\ job \in MIPTPSendJob /\ base \in Nat /\ size \in Nat /\ size < Width
        /\ np \in Nat /\ np > 0
        /\ \A i \in Nat : i < np => i * Batch < size
        /\ np + Window <= Width
        /\ Window \in Nat /\ Batch \in Nat \ {0} /\ Width \in Nat \ {0}
    BY <2>2, PackagesAre, SendJobAssumption
       DEF AppConnection, MIPTPSendJob, SlidingWindow, UInt16
  <2> HIDE DEF job, np
  <2>4. /\ end \in Nat /\ base < end /\ end <= np /\ end <= job.window.max
    BY <2>2, <2>3, MinOfTwo
  <2>5. Due(job) = [k \in 1 .. end - base |->
                      [PSN |-> base + k - 1, from |-> (base + k - 1) * Batch,
                       len |-> Min({Batch, size - (base + k - 1) * Batch})]]
    BY DEF Due, np
  <2> HIDE DEF end, base, size, ps
  <2>6. ASSUME NEW i \in base .. end - 1
        PROVE  /\ Index(i) = i * Batch
               /\ ~NextPackageIsNull(job, i)
               /\ size - i * Batch \in Nat
               /\ MIPTPSendJob_next_package(job, i) =
                    [PSN |-> i, from |-> i * Batch, len |-> Min({Batch, size - i * Batch})]
    <3>1. i \in Nat /\ i * Batch < size /\ i * Batch \in Nat
      BY <2>3, <2>4
    <3> DEFINE m == i * Batch
    <3> HIDE DEF m
    <3>2. m \in Nat /\ m < size
      BY <3>1 DEF m
    <3>3. m % Width = m
      BY <2>3, <3>2
    <3>4. Index(i) = m
      BY <3>3 DEF Index, Truncated, m
    <3>5. ~NextPackageIsNull(job, i)
      BY <2>3, <3>2, <3>4 DEF NextPackageIsNull, size
    <3>6. size - m \in Nat /\ Min({Batch, size - m}) = IF Batch <= size - m THEN Batch ELSE size - m
      BY <2>3, <3>2, MinOfTwo
    <3>7. (IF size < m + Batch THEN size - m ELSE Batch) = Min({Batch, size - m})
      BY <2>3, <3>2, <3>6
    <3>8. MIPTPSendJob_next_package(job, i) =
            [PSN |-> i, from |-> m, len |-> IF size < m + Batch THEN size - m ELSE Batch]
      BY <3>4 DEF MIPTPSendJob_next_package, MIPTPPackage_create, size
    <3> QED
      BY <3>4, <3>5, <3>6, <3>7, <3>8 DEF m
  <2>7. /\ end - base \in Nat /\ end - base > 0
        /\ ps \in Seq(MIPTPPackage)
        /\ end - base <= Len(ps)
        /\ \A k \in 1 .. Len(ps) : ps[k] = MIPTPSendJob_next_package(job, base + k - 1)
    <3>1. end - base \in Nat /\ end - base > 0 /\ base + (end - base) = end
      BY <2>3, <2>4
    <3>2. base + (end - base) <= job.window.max
      BY <2>4, <3>1
    <3>3. \A i \in base .. base + (end - base) - 1 : ~NextPackageIsNull(job, i)
      <4>1. base + (end - base) - 1 = end - 1
        BY <2>3, <2>4
      <4> QED
        BY <2>6, <4>1
    <3> QED
      BY <2>3, <3>1, <3>2, <3>3, WindowIsSent DEF base, ps
  <2>8. /\ Due(job) = [k \in 1 .. end - base |-> Due(job)[k]]
        /\ \A k \in 1 .. end - base : Due(job)[k] = ps[k]
    <3>1. ASSUME NEW k \in 1 .. end - base PROVE Due(job)[k] = ps[k]
      <4>1. base + k - 1 \in base .. end - 1 /\ k \in 1 .. Len(ps)
        BY <2>3, <2>4, <2>7
      <4> QED
        BY <2>5, <2>6, <2>7, <4>1
    <3> QED
      BY <2>5, <3>1
  <2>9. Len(Due(job)) = end - base /\ Due(job) # <<>>
    BY <2>7, <2>8
  <2>10. IsPrefix(Due(job), ps)
    <3> DEFINE len == end - base
    <3>1. len \in Nat /\ len <= Len(ps) /\ Len(Due(job)) = len
      BY <2>7, <2>9
    <3> HIDE DEF len
    <3>2. SubSeq(Due(job), 1, len) = [k \in 1 .. len |-> Due(job)[k]]
      BY <3>1 DEF len
    <3>3. SubSeq(ps, 1, len) = [k \in 1 .. len |-> ps[k]]
      BY <3>1, <2>7
    <3>4. \A k \in 1 .. len : Due(job)[k] = ps[k]
      BY <2>8 DEF len
    <3>5. SubSeq(Due(job), 1, len) = SubSeq(ps, 1, len)
      BY <3>2, <3>3, <3>4
    <3> QED
      BY <3>1, <3>5 DEF IsPrefix
  <2> QED
    BY <2>9, <2>10 DEF job, ps
<1> QED
  BY <1>1, Invariant, PTL

\* As long as an application asks for nothing new, its window does not move back and a
\* completed job stays so, in whatever order and however often packages of mipd's come.
THEOREM WindowsGoForward == Spec => WindowsMoveForward
<1> DEFINE Forward ==
      \A c \in Held : \A d \in Held' :
        c.socket = d.socket /\ input'[c.socket] = input[c.socket] =>
          /\ d.job.window.base >= c.job.window.base
          /\ c.status = "COMPLETE" => d.status = "COMPLETE"
<1>1. ASSUME Inv, ConnStep PROVE Forward
  <2>1. SUFFICES ASSUME NEW m \in Nodes, NEW n \in Nodes',
                        Value(m).socket = Value(n)'.socket,
                        input'[Value(m).socket] = input[Value(m).socket]
        PROVE  /\ Value(n)'.job.window.base >= Value(m).job.window.base
               /\ Value(m).status = "COMPLETE" => Value(n)'.status = "COMPLETE"
    BY DEF Held, Nodes, Value
  <2>2. /\ \A j, k \in Nodes : Value(j).socket = Value(k).socket => j = k
        /\ \A k \in Nodes : stage[Value(k).socket] = "accepted"
        /\ \A k \in Nodes : Value(k) \in AppConnection
    BY <1>1, ListFacts DEF Inv, SocketInv
  <2>3. Value(m).job.window.base \in Nat
    BY <2>2, SendJobAssumption DEF AppConnection, MIPTPSendJob, SlidingWindow, UInt16
  <2>4. ASSUME n \in Nodes, Value(n)' = Value(n)
        PROVE  /\ Value(n)'.job.window.base >= Value(m).job.window.base
               /\ Value(m).status = "COMPLETE" => Value(n)'.status = "COMPLETE"
    BY <2>1, <2>2, <2>3, <2>4
  <2>5. CASE Stays
    BY <2>4, <2>5 DEF Stays, Nodes, Value
  <2>6. CASE Receives
    <3>1. PICK seq \in UInt16, S \in SUBSET Nodes :
            \A k \in Nodes :
              Value(k)' = IF k \in S THEN AppConnection_receive_package(Value(k), seq) ELSE Value(k)
      BY <2>6 DEF Receives
    <3>2. n \in Nodes
      BY <2>6 DEF Receives
    <3>3. CASE n \in S
      <4>1. Value(n)'.socket = Value(n).socket
        BY <2>2, <3>1, <3>2, <3>3, ReceivedTypes
      <4>2. m = n
        BY <2>1, <2>2, <3>2, <4>1
      <4> QED
        BY <2>2, <3>1, <3>2, <3>3, <4>2, ReceivedTypes
    <3>4. CASE n \notin S
      BY <2>4, <3>1, <3>2, <3>4
    <3> QED
      BY <3>3, <3>4
  <2>7. CASE Accepts
    <3>1. PICK a \in App, new \in Address \ Nodes :
            /\ stage[a] = "backlog"
            /\ Nodes' = Nodes \cup {new}
            /\ Value(new)' = AppConnection_create_not_ready(a)
            /\ \A k \in Nodes : Value(k)' = Value(k)
      BY <2>7 DEF Accepts
    <3>2. n # new
      BY <2>1, <2>2, <3>1 DEF AppConnection_create_not_ready
    <3> QED
      BY <2>4, <3>1, <3>2
  <2>8. CASE Asks
    <3>1. PICK a \in App, r \in Request, cur \in Nodes :
            \E new \in Address \ (Nodes \ {cur}) :
              /\ input'[a] # input[a]
              /\ Nodes' = (Nodes \ {cur}) \cup {new}
              /\ Value(new)' = AppConnection_create(a, r)
              /\ \A k \in Nodes \ {cur} : Value(k)' = Value(k)
      BY <2>8 DEF Asks
    <3>2. PICK new \in Address \ (Nodes \ {cur}) :
            /\ input'[a] # input[a]
            /\ Nodes' = (Nodes \ {cur}) \cup {new}
            /\ Value(new)' = AppConnection_create(a, r)
            /\ \A k \in Nodes \ {cur} : Value(k)' = Value(k)
      BY <3>1
    <3>3. n # new
      BY <2>1, <3>2 DEF AppConnection_create
    <3> QED
      BY <2>4, <3>2, <3>3
  <2>9. CASE Departs
    <3>1. PICK cur \in Nodes :
            /\ Nodes' = Nodes \ {cur}
            /\ \A k \in Nodes \ {cur} : Value(k)' = Value(k)
      BY <2>9 DEF Departs
    <3> QED
      BY <2>4, <3>1
  <2> QED
    BY <1>1, <2>5, <2>6, <2>7, <2>8, <2>9 DEF ConnStep
<1>2. Inv /\ [Next]_vars => [Forward]_vars
  BY <1>1, InvStep
<1> QED
  BY <1>2, Invariant, PTL DEF Spec, WindowsMoveForward
=============================================================================
