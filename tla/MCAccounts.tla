------------------------------ MODULE MCAccounts ------------------------------
(* Keys, inboxes and requests are interchangeable.                          *)
EXTENDS AccountProperties, TLC

Symmetry == Permutations(Keys) \cup Permutations(Inboxes) \cup Permutations(Requests)

=============================================================================
