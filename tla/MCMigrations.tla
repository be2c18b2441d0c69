---------------------------- MODULE MCMigrations ----------------------------
(* Migrations for TLC, with the two migrations of packages/db/drizzle: `a` *)
(* is 0000, `b` is 0001, `bb` is 0001 edited after it was applied, and `c` *)
(* is a migration of another branch, older than `b`.                       *)
EXTENDS Migrations, TLC

At(hash, when) == [hash |-> hash, when |-> when]

OneJournal == {<<At("a", 1), At("b", 3)>>}

SomeJournals ==
    OneJournal \union {<<At("a", 1)>>, <<At("a", 1), At("bb", 3)>>,
                       <<At("a", 1), At("c", 2), At("b", 3)>>}

AllHashes == {"a", "b", "bb", "c"}

\* 0000 creates its tables and types on an empty schema; 0001 changes and drops
\* tables of 0000; c adds a table.
ScriptWorks(hash, s) ==
    \/ hash = "a" /\ s = <<>>
    \/ hash \in {"b", "bb"} /\ s \in {<<"a">>, <<"a", "c">>}
    \/ hash = "c" /\ s # <<>> /\ \A i \in DOMAIN s : s[i] # "c"

\* 0000.down.sql drops only what it finds, and without CASCADE, so it fails on
\* tables that later ones refer to.  0001.down.sql drops every table of 0001 it
\* finds and creates those of 0000: it fails when customer_addresses is there.
\* The down script of c drops a table if it exists.
DownOutcome(hash, s) ==
    IF hash = "a" /\ s = <<>> THEN <<>>
    ELSE IF hash \in {"b", "bb"} /\ s = <<>> THEN <<"a">>
    ELSE IF hash = "c" /\ \A i \in DOMAIN s : s[i] # "c" THEN s
    ELSE "fails"

=============================================================================
