----------------------------- MODULE MCRegistry -----------------------------
(* Registry for TLC: everything but the keys is interchangeable.           *)
EXTENDS Registry, TLC

Symmetry ==
    Permutations(Companies) \union Permutations(Branches)
    \union Permutations(Technicians) \union Permutations(Customers)
    \union Permutations(Addresses) \union Permutations(Handlers)

=============================================================================
