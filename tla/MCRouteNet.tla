----------------------------- MODULE MCRouteNet -----------------------------
(***************************************************************************)
(* Small networks for TLC.  Hosts are strings, MIP addresses the numbers   *)
(* the daemons would be given.                                             *)
(***************************************************************************)
EXTENDS RouteNetProps, TLC

\* A command line that gives these addresses; 266 is 10 in eight bits.
Given(addresses) == [debug |-> FALSE, mip_addresses |-> addresses]

\* Three hosts in a row: A (10) -- (20) B (21) -- (30) C.
LineHost == {"A", "B", "C"}
LineHop == {10, 20, 21, 30}
LineDest == {30}
LineIface == [A |-> [B |-> 10], B |-> [A |-> 20, C |-> 21], C |-> [B |-> 30]]
LineNeighbours == [A |-> {"B"}, B |-> {"A", "C"}, C |-> {"B"}]
LineArgs == [A |-> Given(<<266>>), B |-> Given(<<20, 21>>), C |-> Given(<<30>>)]
LineArp == 10 :> <<20>> @@ 20 :> <<10>> @@ 21 :> <<30>> @@ 30 :> <<21>>
LineDist == [A |-> (30 :> 2), B |-> (30 :> 1), C |-> (30 :> 0)]
LineToward == [A |-> (30 :> "B"), B |-> (30 :> "C"), C |-> (30 :> "C")]

\* Two hosts: A (10) -- (20) B.
PairHost == {"A", "B"}
PairHop == {10, 20}
PairDest == {10, 20}
PairIface == [A |-> [B |-> 10], B |-> [A |-> 20]]
PairNeighbours == [A |-> {"B"}, B |-> {"A"}]
PairArgs == [A |-> Given(<<10>>), B |-> Given(<<20>>)]
PairArp == 10 :> <<20>> @@ 20 :> <<10>>
PairDist == [A |-> (10 :> 0 @@ 20 :> 1), B |-> (10 :> 1 @@ 20 :> 0)]
PairToward == [A |-> (10 :> "A" @@ 20 :> "B"), B |-> (10 :> "A" @@ 20 :> "B")]

\* The same with an address that nobody has, and that only what is read from behind
\* a buffer can name.
FullHop == PairHop \cup {99}
FullArp == PairArp @@ 99 :> <<>>
FullDist == [A |-> PairDist["A"] @@ 99 :> 9, B |-> PairDist["B"] @@ 99 :> 9]
FullToward == [A |-> PairToward["A"] @@ 99 :> "B", B |-> PairToward["B"] @@ 99 :> "A"]

\* Three hosts, A (10), B (20) and C (30), on one shared link, and D behind C:
\* C (31) -- (40) D.
SharedHost == {"A", "B", "C", "D"}
SharedHop == {10, 20, 30, 31, 40}
SharedDest == {40}
SharedIface ==
  [A |-> [B |-> 10, C |-> 10], B |-> [A |-> 20, C |-> 20],
   C |-> [A |-> 30, B |-> 30, D |-> 31], D |-> [C |-> 40]]
SharedNeighbours == [A |-> {"B", "C"}, B |-> {"A", "C"}, C |-> {"A", "B", "D"}, D |-> {"C"}]
SharedArgs ==
  [A |-> Given(<<10>>), B |-> Given(<<20>>), C |-> Given(<<30, 31>>), D |-> Given(<<40>>)]
SharedArp == 10 :> <<20, 30>> @@ 20 :> <<10, 30>> @@ 30 :> <<10, 20>>
               @@ 31 :> <<40>> @@ 40 :> <<31>>
SharedDist == [A |-> (40 :> 2), B |-> (40 :> 2), C |-> (40 :> 1), D |-> (40 :> 0)]
SharedToward == [A |-> (40 :> "C"), B |-> (40 :> "C"), C |-> (40 :> "D"), D |-> (40 :> "D")]
=============================================================================
