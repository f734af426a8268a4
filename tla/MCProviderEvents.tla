-------------------------- MODULE MCProviderEvents --------------------------
(* Model checking instances of ProviderEvents.                             *)
EXTENDS EventInvariant, TLC

Symmetry == Permutations(Providers)
=============================================================================
