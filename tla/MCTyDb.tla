------------------------------- MODULE MCTyDb -------------------------------
(* A small instance of TyDbClient: two value types, S accepting U1.       *)
EXTENDS TyDbClient

CONSTANTS U1, S

MCTypes   == {U1, S}
MCAccepts == {<<U1, U1>>, <<S, S>>, <<S, U1>>}
MCStreams == {<< >>, <<U1>>, <<S, U1>>}
=============================================================================
