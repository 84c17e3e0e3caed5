------------------------------ MODULE MCMiptpd ------------------------------
(***************************************************************************)
(* Two applications; a job of five bytes in three batches, with numbers so *)
(* narrow that the position of a fourth wraps.  The names of the sockets   *)
(* are of one length.                                                      *)
(***************************************************************************)
EXTENDS MiptpdProps

MCRequest == {ClientPackage_create(1, 1, "sender", 5), ClientPackage_create(1, 1, "receiver", 0)}
MCArgs == <<<<"-", "d">>, <<"m", "i">>, <<"t", "p">>>>
=============================================================================
