------------------------------ MODULE ThrPoolMC ------------------------------
(***************************************************************************)
(* Model-checking instances of ThrPool.                                    *)
(***************************************************************************)
EXTENDS ThrPool, TLC

\* Threads and jobs are interchangeable; used by the runs without liveness.
Symmetry == Permutations(Workers) \union Permutations(Clients) \union Permutations(Jobs)
=============================================================================
