-------------------------- MODULE MCCustomerDetails --------------------------
(* CustomerDetails for TLC: tabs and operations are interchangeable.       *)
EXTENDS CustomerDetails, TLC

Symmetry == Permutations(Tabs) \union Permutations(Operations)

=============================================================================
