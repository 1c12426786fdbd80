------------------------------- MODULE MCPool -------------------------------
(* Symmetry of the model values of Pool, for the runs without liveness.    *)
EXTENDS Pool, TLC

Symmetry == Permutations(IPs) \union Permutations(Clients) \union Permutations(Endpoints)
=============================================================================
