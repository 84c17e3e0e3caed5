--------------------------- MODULE ForwardService ---------------------------
(***************************************************************************)
(* What a host promises of the packages it forwards.  They are looked up   *)
(* and leave in the order they were accepted, each to the next hop that    *)
(* was given for its own destination, or nowhere; a package for a cached   *)
(* neighbour needs no lookup and waits for nobody.                         *)
(***************************************************************************)
EXTENDS Integers, Sequences

CONSTANTS
  Package,    \* records with a field dst
  Answer,     \* records [hop, asked]
  Broadcast   \* the hop of the answer "no route"

VARIABLES
  pending,  \* the accepted packages, with their answers: <<>> or <<answer>>
  done      \* the packages that left: [pkg, hop, asked]

vars == <<pending, done>>

Init == pending = <<>> /\ done = {}

Left(p, a) == done' = done \cup {[pkg |-> p, hop |-> a.hop, asked |-> a.asked]}

Accept ==
  /\ \E p \in Package : pending' = Append(pending, [pkg |-> p, answers |-> <<>>])
  /\ UNCHANGED done

\* The oldest package without an answer gets the one for its destination.
Answered ==
  /\ \E i \in 1 .. Len(pending), a \in Answer :
       /\ pending[i].answers = <<>>
       /\ \A j \in 1 .. i - 1 : pending[j].answers # <<>>
       /\ a.asked = pending[i].pkg.dst
       /\ pending' = [pending EXCEPT ![i].answers = <<a>>]
  /\ UNCHANGED done

Forward ==
  /\ pending # <<>>
  /\ \E a \in Answer : /\ Head(pending).answers = <<a>>
                       /\ a.hop # Broadcast
                       /\ Left(Head(pending).pkg, a)
  /\ pending' = Tail(pending)

\* No next hop, or one that cannot be reached.
Drop ==
  /\ pending # <<>>
  /\ Head(pending).answers # <<>>
  /\ pending' = Tail(pending)
  /\ UNCHANGED done

Direct ==
  /\ \E p \in Package : Left(p, [hop |-> p.dst, asked |-> p.dst])
  /\ UNCHANGED pending

Next == Accept \/ Answered \/ Forward \/ Drop \/ Direct

Spec == Init /\ [][Next]_vars
=============================================================================
