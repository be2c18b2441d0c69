---------------------------- MODULE MigrationGate ----------------------------
(***************************************************************************)
(* The two pure checks of packages/db/src/migrate-check.ts.  Both compare  *)
(* the checksums of the Drizzle journal, in apply order, with those of the *)
(* rows of drizzle.__drizzle_migrations, in id order, and report issues.   *)
(* An issue is modelled by its kind; its text is left out.                 *)
(***************************************************************************)
EXTENDS Naturals, Sequences

\* new Set(applied).size !== applied.length
HasDuplicates(applied) ==
    \E i, j \in DOMAIN applied : i # j /\ applied[i] = applied[j]

\* Some row differs from the journal entry at its position.
Mismatches(expected, applied) ==
    \E i \in DOMAIN applied \cap DOMAIN expected : applied[i] # expected[i]

\* Some row is nowhere in the journal.
HasUnknown(expected, applied) ==
    \E i \in DOMAIN applied : \A j \in DOMAIN expected : applied[i] # expected[j]

Issue(holds, kind) == IF holds THEN {kind} ELSE {}

\* Mutant: the histories are compared by length alone.
CompareIssuesByCount(expected, applied) ==
    Issue(Len(applied) # Len(expected), "count")

\* compareMigrations: is the database up to date?
CompareIssues(expected, applied) ==
    Issue(Len(applied) # Len(expected), "count")
      \union Issue(Mismatches(expected, applied), "mismatch")
      \union Issue(HasDuplicates(applied), "duplicate")
      \union Issue(HasUnknown(expected, applied), "unknown")

UpToDate(expected, applied) == CompareIssues(expected, applied) = {}

\* Mutant: "guessing a migration based purely on row count" (rollback.ts:26).
PrefixIssuesByCount(expected, applied) ==
    Issue(Len(applied) > Len(expected), "ahead")

\* validateAppliedPrefix: may a rollback trust the latest row?
PrefixIssues(expected, applied) ==
    Issue(Len(applied) > Len(expected), "ahead")
      \union Issue(Mismatches(expected, applied), "mismatch")
      \union Issue(HasDuplicates(applied), "duplicate")
      \union Issue(HasUnknown(expected, applied), "unknown")

ValidPrefix(expected, applied) == PrefixIssues(expected, applied) = {}

=============================================================================
