------------------------------ MODULE MCProxy ------------------------------
(* The calls of Pool are the attempts of the requests; symmetry of the      *)
(* model values.                                                           *)
EXTENDS Proxy, TLC

MCClients == Requests \X (1 .. N)

Symmetry == Permutations(IPs) \union Permutations(Requests) \union Permutations(Endpoints)
=============================================================================
