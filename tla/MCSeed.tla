------------------------------- MODULE MCSeed -------------------------------
(* Seed for TLC.                                                           *)
EXTENDS Seed, TLC

\* Of the tables the API inserts into at this commit, those the pilot has no
\* row of, and the users that they name.
WrittenByApi == {"users", "sessions", "audit_logs"}

\* Every table that names a company, the ones whose writers are yet to come
\* included.
WrittenByAnyone == Tables \ {"companies"}

Symmetry == Permutations(Seeds)

=============================================================================
