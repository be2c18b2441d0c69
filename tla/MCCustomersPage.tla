--------------------------- MODULE MCCustomersPage ---------------------------
(* CustomersPage for TLC: the customers are interchangeable.               *)
EXTENDS CustomersPage, TLC

Symmetry == Permutations(Customers)

=============================================================================
