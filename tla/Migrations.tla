----------------------------- MODULE Migrations -----------------------------
(***************************************************************************)
(* The development migration tools over one database: `db:migrate`         *)
(* (drizzle-kit, external) and `db:rollback` (rollback.ts), run by         *)
(* developers who each have a working tree with its own Drizzle journal.   *)
(*                                                                         *)
(* A migration is its checksum: the tools know it by nothing else.  The    *)
(* schema is the sequence of migrations in effect.  A tool reads the       *)
(* tracking table in one statement and changes the database in a later     *)
(* transaction, so tools that run at once interleave between the two.      *)
(***************************************************************************)
EXTENDS Integers, Sequences, MigrationGate

CONSTANTS
    Runners,          \* developers' machines, one tool at a time on each
    Journals,         \* journals a tree may hold: sequences of [hash, when]
    Hashes,           \* checksums of migrations
    UpWorks(_, _),    \* does a migration's script run on a schema?
    DownElsewhere(_, _), \* what a down script makes of a schema whose latest
                         \* migration is another one; no schema if it fails
    MaxId             \* bound: ids the tracking table hands out

Schemas == Seq(Hashes)
Entry == [hash : Hashes, when : Nat \ {0}]
Row == [id : Nat, hash : Hashes, when : Nat \ {0}]

\* drizzle-kit generate appends entries with growing timestamps.
ASSUME MigrationsAssumption ==
    /\ Journals \subseteq Seq(Entry)
    /\ \A j \in Journals : \A i, k \in DOMAIN j : i < k => j[i].when < j[k].when
    /\ MaxId \in Nat

VARIABLES
    tree,         \* tree[r]: the journal in r's working tree
    table,        \* drizzle.__drizzle_migrations, in id order
    nextId,       \* the next serial id
    schema,       \* migrations in effect
    runner        \* runner[r]: program counter and locals of the tool

vars == <<tree, table, nextId, schema, runner>>

PCs == {"idle", "rollbackTable", "rollbackRun", "migrateRun"}

\* plan: hashes of the journal that was read; seen: the rows that were read;
\* last: the latest timestamp that was read, 0 for an empty table.
Idle == [pc |-> "idle", plan |-> <<>>, seen |-> <<>>, last |-> 0]

TypeOK ==
    /\ tree \in [Runners -> Journals]
    /\ table \in Seq(Row)
    /\ nextId \in Nat
    /\ schema \in Schemas
    /\ runner \in [Runners -> [pc : PCs, plan : Seq(Hashes),
                               seen : Seq(Row), last : Nat]]

HashesOf(rows) == [i \in 1..Len(rows) |-> rows[i].hash]

Init ==
    /\ tree \in [Runners -> Journals]
    /\ table = <<>>
    /\ nextId = 1
    /\ schema = <<>>
    /\ runner = [r \in Runners |-> Idle]

Become(r, state) == runner' = [runner EXCEPT ![r] = state]

\* A developer checks out another revision, or regenerates a migration, while
\* no tool of theirs runs.
Checkout(r, journal) ==
    /\ runner[r].pc = "idle"
    /\ tree' = [tree EXCEPT ![r] = journal]
    /\ UNCHANGED <<table, nextId, schema, runner>>

-----------------------------------------------------------------------------
(* db:migrate.                                                             *)

\* The latest timestamp in the tracking table.
IsLatest(last, rows) ==
    IF rows = <<>> THEN last = 0
    ELSE /\ \E i \in DOMAIN rows : rows[i].when = last
         /\ \A i \in DOMAIN rows : rows[i].when <= last

MigrateRead(r) ==
    /\ runner[r].pc = "idle"
    /\ \E last \in {0} \union {table[i].when : i \in DOMAIN table} :
          /\ IsLatest(last, table)
          /\ Become(r, [Idle EXCEPT !.pc = "migrateRun", !.last = last])
    /\ UNCHANGED <<tree, table, nextId, schema>>

\* The entries of the journal after position k, applied in one transaction.
Applies(journal, k) ==
    LET n == Len(journal) - k
        new == [i \in 1..n |-> journal[k + i].hash] IN
    /\ nextId + n <= MaxId
    /\ \A i \in 1..n : UpWorks(new[i], schema \o SubSeq(new, 1, i - 1))
    /\ schema' = schema \o new
    /\ table' = table \o [i \in 1..n |-> [id   |-> nextId + i - 1,
                                          hash |-> new[i],
                                          when |-> journal[k + i].when]]
    /\ nextId' = nextId + n

\* Entries newer than the latest row that was read are pending.
MigrateRun(r) ==
    LET journal == tree[r] IN
    /\ runner[r].pc = "migrateRun"
    /\ \E k \in 0..Len(journal) :
          /\ \A i \in DOMAIN journal : i <= k <=> journal[i].when <= runner[r].last
          /\ Applies(journal, k)
    /\ Become(r, Idle)
    /\ UNCHANGED tree

-----------------------------------------------------------------------------
(* db:rollback, outside production.                                        *)

\* readJournalMigrations.
RollbackReadJournal(r) ==
    /\ runner[r].pc = "idle"
    /\ Become(r, [Idle EXCEPT !.pc = "rollbackTable",
                              !.plan = HashesOf(tree[r])])
    /\ UNCHANGED <<tree, table, nextId, schema>>

\* The SELECT, and the gate on the whole history.
RollbackReadTable(r) ==
    /\ runner[r].pc = "rollbackTable"
    /\ IF /\ table # <<>>
          /\ runner[r].plan # <<>>
          /\ ValidPrefix(runner[r].plan, HashesOf(table))
       THEN Become(r, [runner[r] EXCEPT !.pc = "rollbackRun", !.seen = table])
       ELSE Become(r, Idle)
    /\ UNCHANGED <<tree, table, nextId, schema>>

\* Mutant: the tracking row to delete is found by position, from the front.
DownOfFirst(plan, seen) == [hash |-> plan[Len(seen)], id |-> seen[1].id]

\* The down script to run and the id of the row to delete.
Target(plan, seen) == [hash |-> plan[Len(seen)], id |-> seen[Len(seen)].id]

\* What a down script makes of a schema.  It is written to revert its own
\* migration from the schema that has it as the latest.
Reverted(hash, s) ==
    IF s # <<>> /\ s[Len(s)] = hash THEN SubSeq(s, 1, Len(s) - 1)
    ELSE DownElsewhere(hash, s)

\* DELETE ... WHERE id = $1.
Without(rows, id) ==
    IF \E i \in DOMAIN rows : rows[i].id = id
    THEN LET i == CHOOSE i \in DOMAIN rows : rows[i].id = id IN
         SubSeq(rows, 1, i - 1) \o SubSeq(rows, i + 1, Len(rows))
    ELSE rows

\* Mutant: the row to delete is the latest one at the time of the DELETE.
RollbackRunOfLatestRow(r) ==
    LET target == Target(runner[r].plan, runner[r].seen)
        outcome == Reverted(target.hash, schema) IN
    /\ runner[r].pc = "rollbackRun"
    /\ outcome \in Schemas
    /\ schema' = outcome
    /\ table' = IF table = <<>> THEN table ELSE SubSeq(table, 1, Len(table) - 1)
    /\ Become(r, Idle)
    /\ UNCHANGED <<tree, nextId>>

\* Mutant: a failing down script does not stop the DELETE and the COMMIT.
RollbackRunThroughFailure(r) ==
    LET target == Target(runner[r].plan, runner[r].seen) IN
    /\ runner[r].pc = "rollbackRun"
    /\ schema' = Reverted(target.hash, schema)
    /\ table' = Without(table, target.id)
    /\ Become(r, Idle)
    /\ UNCHANGED <<tree, nextId>>

\* BEGIN, the down script, the DELETE, COMMIT.
RollbackRun(r) ==
    LET target == Target(runner[r].plan, runner[r].seen)
        outcome == Reverted(target.hash, schema) IN
    /\ runner[r].pc = "rollbackRun"
    /\ outcome \in Schemas
    /\ schema' = outcome
    /\ table' = Without(table, target.id)
    /\ Become(r, Idle)
    /\ UNCHANGED <<tree, nextId>>

\* A statement fails and its transaction is rolled back, or the tool dies.
Fail(r) ==
    /\ runner[r].pc # "idle"
    /\ Become(r, Idle)
    /\ UNCHANGED <<tree, table, nextId, schema>>

-----------------------------------------------------------------------------

Step(r) ==
    \/ \E journal \in Journals : Checkout(r, journal)
    \/ MigrateRead(r)
    \/ MigrateRun(r)
    \/ RollbackReadJournal(r)
    \/ RollbackReadTable(r)
    \/ RollbackRun(r)
    \/ Fail(r)

Next == \E r \in Runners : Step(r)

Spec == Init /\ [][Next]_vars

\* The tools take turns on the database, whatever the trees they run from.
Alone(r) == \A q \in Runners : q # r => runner[q].pc = "idle"
SerialNext == \E r \in Runners : Alone(r) /\ Step(r)

SerialSpec == Init /\ [][SerialNext]_vars

-----------------------------------------------------------------------------
(* Safety.                                                                 *)

\* The tracking table names exactly the migrations in effect, in order: with
\* the tools taking turns, no checkout of a diverging journal, no failed script
\* and no refused rollback separates the two.
TableTellsSchema == HashesOf(table) = schema

\* When `db:migrate:check` calls a tree's journal up to date, the schema is
\* exactly that journal's (migrate-check.ts, "rows exactly match the journal").
UpToDateIsTrue ==
    \A r \in Runners :
        UpToDate(HashesOf(tree[r]), HashesOf(table)) => schema = HashesOf(tree[r])

\* A rollback deletes no row but that of the migration its down script reverts,
\* even when other tools have changed the table since it was read.
RollbackDeletesItsOwnRow ==
    [][\A r \in Runners :
          (runner[r].pc = "rollbackRun" /\ runner'[r].pc = "idle" /\ table' # table) =>
              \E i \in DOMAIN table :
                  /\ table[i].hash = runner[r].plan[Len(runner[r].seen)]
                  /\ table' = SubSeq(table, 1, i - 1)
                                \o SubSeq(table, i + 1, Len(table))]_vars

\* With the tools taking turns they implement MigrationHistory.
History == INSTANCE MigrationHistory
               WITH history <- schema, record <- HashesOf(table)

ImplementsHistory == History!HistorySpec

=============================================================================
