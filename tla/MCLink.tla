------------------------------- MODULE MCLink -------------------------------
(***************************************************************************)
(* Two hosts with two links between them, which they name in different     *)
(* orders: a socket that is not bound yet hears both.                      *)
(***************************************************************************)
EXTENDS LinkProps

CONSTANTS A, B, ab, ba

PairHost == {A, B}
PairNIC == A :> <<ab, ba>> @@ B :> <<ba, ab>>
\* 277 is 21 in eight bits.
PairArgs == A :> <<10, 11>> @@ B :> <<20, 277>>
PairAddress == {10, 11, 20, 21}

\* With a last word that is not full, longer than the receiver's buffer, and too long
\* for a package.
PairMessage == [dst : {21}, size : {14, 201, 1497}]
=============================================================================
