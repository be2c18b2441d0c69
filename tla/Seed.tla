-------------------------------- MODULE Seed --------------------------------
(***************************************************************************)
(* `npm run db:seed`, with and without --reset: seedDatabase of            *)
(* packages/db/src/seed.ts, one transaction that either clears the tables  *)
(* one DELETE at a time or checks that there is no company, and then       *)
(* inserts the pilot rows.  Several may run at once, and the API (or a     *)
(* developer with psql) inserts rows meanwhile.                            *)
(*                                                                         *)
(* Transactions are READ COMMITTED, the default of Postgres: a statement   *)
(* sees what was committed when it started, and waits for a row that       *)
(* another transaction has deleted and not yet committed.  After the wait  *)
(* it deletes what is left of the rows it saw: rows committed meanwhile    *)
(* are not among them.                                                     *)
(***************************************************************************)
EXTENDS Schema, Naturals, Sequences, FiniteSets

CONSTANTS
    Seeds,        \* runs of the seed
    Written,      \* tables that other programs insert into
    MaxWrites     \* bound: rows they insert

\* The seed alone creates companies: no route of the API does.
ASSUME SeedAssumption ==
    Written \subseteq Tables \ {"companies"} /\ MaxWrites \in Nat

VARIABLES
    info,         \* every row ever committed: its table and the rows it names
    live,         \* the rows that are committed now, as indices of info
    tx,           \* tx[s]: the transaction of seed s
    writes        \* rows inserted by other programs

vars == <<info, live, tx, writes>>

Rows == DOMAIN info
PCs == {"idle", "check", "clear", "wait", "insert", "done", "failed"}
Running == {"check", "clear", "wait", "insert"}

NoTx == [pc |-> "idle", reset |-> FALSE,
         at |-> 1,              \* position in TABLES_TO_CLEAR
         gone |-> {},           \* rows deleted, not yet committed
         snapshot |-> {},       \* rows that a waiting DELETE saw
         why |-> "none",        \* of a failure
         old |-> {},            \* history: rows live at the BEGIN
         own |-> {},            \* history: rows inserted
         withSeed |-> FALSE,    \* history: another seed ran meanwhile
         withWriter |-> FALSE]  \* history: a row was inserted meanwhile

TypeOK ==
    /\ \A r \in Rows : /\ info[r].table \in Tables
                       /\ info[r].names \subseteq Rows
                       /\ \A p \in info[r].names :
                             <<info[r].table, info[p].table>> \in References
    /\ live \subseteq Rows
    /\ \A s \in Seeds :
          /\ tx[s].pc \in PCs /\ tx[s].reset \in BOOLEAN /\ tx[s].at \in Nat
          /\ tx[s].gone \union tx[s].snapshot \subseteq Rows
          /\ tx[s].gone # {} => tx[s].pc \in Running
          /\ tx[s].why \in {"none", "exists", "reference", "abort"}
    /\ writes \in 0..MaxWrites

-----------------------------------------------------------------------------
(* The rows of the pilot.                                                  *)

\* Mutant: the users are deleted before the sessions that name them.
UsersBeforeSessions ==
    <<"evidences", "technician_locations", "work_order_events", "sync_receipts",
      "dispatches", "audit_logs", "work_orders", "tickets", "files",
      "service_addresses", "customers", "technicians", "users", "sessions",
      "branches", "companies">>

\* Mutant: the last table, whose rows name no other, is forgotten.
WithoutCompanies ==
    <<"evidences", "technician_locations", "work_order_events", "sync_receipts",
      "dispatches", "audit_logs", "work_orders", "tickets", "sessions", "files",
      "service_addresses", "customers", "technicians", "users", "branches">>

TABLES_TO_CLEAR ==
    <<"evidences", "technician_locations", "work_order_events", "sync_receipts",
      "dispatches", "audit_logs", "work_orders", "tickets", "sessions", "files",
      "service_addresses", "customers", "technicians", "users", "branches",
      "companies">>

\* Company, branch, three users, the technician of the third, a customer and
\* its address, as rows n+1 to n+8.
Pilot(n) ==
    LET row(table, names) == [table |-> table, names |-> {n + i : i \in names}]
    IN << row("companies", {}), row("branches", {1}),
          row("users", {1, 2}), row("users", {1, 2}), row("users", {1, 2}),
          row("technicians", {1, 2, 5}), row("customers", {1, 2}),
          row("service_addresses", {1, 7}) >>

Init ==
    /\ info \in {<<>>, Pilot(0)}
    /\ live = Rows
    /\ tx = [s \in Seeds |-> NoTx]
    /\ writes = 0

-----------------------------------------------------------------------------
(* The seed.                                                               *)

Of(table) == {r \in live : info[r].table = table}

IsRunning(s) == tx[s].pc \in Running

\* Rows that another transaction has deleted and holds locked.
Locked(s) == UNION {tx[o].gone : o \in Seeds \ {s}}

SeedBegin(s) ==
    /\ tx[s].pc = "idle"
    /\ \E reset \in BOOLEAN :
       LET others == {o \in Seeds : IsRunning(o)} IN
       tx' = [o \in Seeds |->
                IF o = s
                THEN [NoTx EXCEPT !.pc = IF reset THEN "clear" ELSE "check",
                                  !.reset = reset, !.old = live,
                                  !.withSeed = others # {}]
                ELSE IF o \in others THEN [tx[o] EXCEPT !.withSeed = TRUE]
                ELSE tx[o]]
    /\ UNCHANGED <<info, live, writes>>

\* Mutant: no transaction, what was deleted stays deleted.
FailCommitted(s, why) ==
    /\ tx' = [tx EXCEPT ![s] = [@ EXCEPT !.pc = "failed", !.why = why,
                                         !.gone = {}, !.snapshot = {}]]
    /\ live' = live \ tx[s].gone
    /\ UNCHANGED <<info, writes>>

\* Mutant: no ROLLBACK, the connection keeps its locks.
FailHoldingLocks(s, why) ==
    /\ tx' = [tx EXCEPT ![s] = [@ EXCEPT !.pc = "failed", !.why = why]]
    /\ UNCHANGED <<info, live, writes>>

\* Rolls back: what was deleted is there again for the others.
Fail(s, why) ==
    /\ tx' = [tx EXCEPT ![s] = [@ EXCEPT !.pc = "failed", !.why = why,
                                         !.gone = {}, !.snapshot = {}]]
    /\ UNCHANGED <<info, live, writes>>

\* Mutant: the seed inserts whatever it finds.
SeedCheckNothing(s) ==
    /\ tx[s].pc = "check"
    /\ tx' = [tx EXCEPT ![s].pc = "insert"]
    /\ UNCHANGED <<info, live, writes>>

SeedCheck(s) ==
    /\ tx[s].pc = "check"
    /\ IF Of("companies") # {} THEN Fail(s, "exists")
       ELSE /\ tx' = [tx EXCEPT ![s].pc = "insert"]
            /\ UNCHANGED <<info, live, writes>>

\* The rows that keep the deletion of `doomed` from ending its statement.
Children(s, doomed) ==
    {c \in live \ (tx[s].gone \union doomed) : info[c].names \cap doomed # {}}

Blocked(s, doomed) == (doomed \union Children(s, doomed)) \cap Locked(s) # {}

\* Mutant: session_replication_role = replica, so that no order is needed.
ClearUnconstrained(s, doomed) ==
    /\ tx' = [tx EXCEPT ![s] =
          [tx[s] EXCEPT !.gone = @ \union doomed, !.snapshot = {},
                        !.at = @ + 1,
                        !.pc = IF tx[s].at = Len(TABLES_TO_CLEAR)
                               THEN "insert" ELSE "clear"]]
    /\ UNCHANGED <<info, live, writes>>

\* The DELETE of the current table ends, on the rows `doomed`.
Clear(s, doomed) ==
    IF Children(s, doomed) # {} THEN Fail(s, "reference")
    ELSE /\ tx' = [tx EXCEPT ![s] =
              [tx[s] EXCEPT !.gone = @ \union doomed, !.snapshot = {},
                            !.at = @ + 1,
                            !.pc = IF tx[s].at = Len(TABLES_TO_CLEAR)
                                   THEN "insert" ELSE "clear"]]
         /\ UNCHANGED <<info, live, writes>>

DeleteTable(s) ==
    LET doomed == Of(TABLES_TO_CLEAR[tx[s].at]) IN
    /\ tx[s].pc = "clear"
    /\ IF Blocked(s, doomed)
       THEN /\ tx' = [tx EXCEPT ![s].pc = "wait", ![s].snapshot = doomed]
            /\ UNCHANGED <<info, live, writes>>
       ELSE Clear(s, doomed)

Resume(s) ==
    LET doomed == tx[s].snapshot \cap live IN
    /\ tx[s].pc = "wait"
    /\ ~ Blocked(s, doomed)
    /\ Clear(s, doomed)

\* The inserts meet no key and no lock, and commit with the deletions.
SeedInsert(s) ==
    LET n == Len(info) IN
    /\ tx[s].pc = "insert"
    /\ info' = info \o Pilot(n)
    /\ live' = (live \ tx[s].gone) \union (n + 1 .. n + 8)
    /\ tx' = [tx EXCEPT ![s] = [@ EXCEPT !.pc = "done", !.gone = {},
                                         !.own = n + 1 .. n + 8]]
    /\ UNCHANGED writes

\* A statement fails, two transactions wait for each other, the process stops.
Abort(s) == IsRunning(s) /\ Fail(s, "abort")

-----------------------------------------------------------------------------
(* Other programs.                                                         *)

CompanyOf(r) ==
    IF info[r].table = "companies" THEN r
    ELSE CHOOSE p \in info[r].names : info[p].table = "companies"

\* A row of t under a company, that names at most one other row of it: none
\* that a seed has deleted, for whose end the insertion would wait.
Write(t) ==
    /\ writes < MaxWrites
    /\ \E k \in Of("companies") :
       \E more \in {{}} \union {{p} : p \in
             {p \in live : <<t, info[p].table>> \in References
                              /\ info[p].table # "companies"
                              /\ CompanyOf(p) = k}} :
          /\ ({k} \union more) \cap UNION {tx[s].gone : s \in Seeds} = {}
          /\ info' = Append(info, [table |-> t, names |-> {k} \union more])
    /\ live' = live \union {Len(info) + 1}
    /\ writes' = writes + 1
    /\ tx' = [s \in Seeds |->
                IF IsRunning(s) THEN [tx[s] EXCEPT !.withWriter = TRUE] ELSE tx[s]]

Next ==
    \/ \E s \in Seeds :
          \/ SeedBegin(s) \/ SeedCheck(s) \/ DeleteTable(s) \/ Resume(s)
          \/ SeedInsert(s) \/ Abort(s)
    \/ \E t \in Written : Write(t)

Spec == Init /\ [][Next]_vars

-----------------------------------------------------------------------------
(* Properties.                                                             *)

\* The order of TABLES_TO_CLEAR follows the foreign keys of the tables in use:
\* a reset is refused by one only when another seed or an insertion overlapped.
ResetFailureIsExplained ==
    \A s \in Seeds : tx[s].why = "reference"
                        => tx[s].withSeed \/ tx[s].withWriter

\* A reset that succeeds leaves none of the rows it found, however it had to
\* wait for another and whatever was inserted meanwhile.
ResetLeavesNothingOld ==
    \A s \in Seeds : tx[s].pc = "done" /\ tx[s].reset
                        => tx[s].old \cap live = {}

\* A second company comes only of two seeds that overlapped: a later seed
\* refuses, or clears the first.
SecondSeedRefuses ==
    Cardinality(Of("companies")) > 1 => \E s \in Seeds : tx[s].withSeed

\* The pilot of a seed that succeeded is there whole until a reset removes it
\* whole, although a waiting reset passes over rows committed meanwhile.
PilotIsWhole ==
    \A s \in Seeds : tx[s].own \subseteq live \/ tx[s].own \cap live = {}

\* No row names a row that is gone, although a reset deletes and the API
\* inserts at the same time.
ReferencesHold ==
    \A r \in live : info[r].names \subseteq live

\* "When true, deletes all rows before inserting" (seed.ts:13): a reset that
\* overlaps nothing succeeds, whatever tables hold rows.
LoneResetSucceeds ==
    \A s \in Seeds : tx[s].reset /\ tx[s].pc = "failed" /\ tx[s].why # "abort"
                        => tx[s].withSeed \/ tx[s].withWriter

=============================================================================
