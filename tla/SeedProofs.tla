----------------------------- MODULE SeedProofs -----------------------------
(***************************************************************************)
(* Theorems about Seed, for any number of seeds that overlap and of rows   *)
(* that other programs insert meanwhile.                                   *)
(*                                                                         *)
(* The rows of a transaction's DELETEs are closed under the foreign keys,  *)
(* and those of two transactions are disjoint: the rest follows from it.   *)
(***************************************************************************)
EXTENDS Seed, FiniteSetTheorems, SequenceTheorems, TLAPS

Last == Len(TABLES_TO_CLEAR)

Whys == {"none", "exists", "reference", "abort"}

TxRecord == [pc : PCs, reset : BOOLEAN, at : Nat, gone : SUBSET Nat,
             snapshot : SUBSET Nat, why : Whys, old : SUBSET Nat,
             own : SUBSET Nat, withSeed : BOOLEAN, withWriter : BOOLEAN]

RowRecord == [table : Tables, names : SUBSET Nat]

-----------------------------------------------------------------------------
(* The invariant.                                                          *)

RowsInv ==
    /\ info \in Seq(RowRecord) /\ live \subseteq Rows
    /\ \A r \in Rows : /\ info[r].names \subseteq Rows
                       /\ \A p \in info[r].names :
                             <<info[r].table, info[p].table>> \in References
    /\ ReferencesHold
    /\ writes \in 0..MaxWrites

\* What the program counter of a seed says of the rest of its transaction.
Shape(s) ==
    LET t == tx[s] IN
    /\ t.gone \subseteq live /\ t.snapshot \subseteq Rows
    /\ t.old \subseteq Rows /\ t.own \subseteq Rows
    /\ t.gone # {} => t.pc \in {"clear", "wait", "insert"}
    /\ t.own # {} => t.pc = "done"
    /\ t.pc = "idle" => ~ t.withSeed
    /\ t.pc = "check" => ~ t.reset
    /\ t.pc \in {"clear", "wait"} => t.reset /\ t.at \in 1..Last
    /\ t.pc = "insert" /\ t.reset => t.at = Last + 1
    /\ t.pc = "wait" =>
          /\ t.withSeed
          /\ \A r \in t.snapshot : info[r].table = TABLES_TO_CLEAR[t.at]

\* No row that a transaction leaves names one that it has deleted.
Closed(s) ==
    \A r \in live \ tx[s].gone : info[r].names \cap tx[s].gone = {}

\* Of the rows that a reset found, those of the tables it is past are deleted,
\* and those of the table it waits for were seen by its DELETE.
Clearing(s) ==
    LET t == tx[s]
        left == (t.old \cap live) \ t.gone
    IN t.reset =>
       /\ t.pc \in {"clear", "wait", "insert"} =>
             \A r \in left, i \in 1..(t.at - 1) :
                info[r].table # TABLES_TO_CLEAR[i]
       /\ t.pc = "wait" =>
             \A r \in left :
                info[r].table = TABLES_TO_CLEAR[t.at] => r \in t.snapshot
       /\ t.pc = "done" => t.old \cap live = {}

\* A seed that met no other finds no company when it inserts its own, and
\* without an insertion either it finds only what was there at its BEGIN.
Alone(s) ==
    LET t == tx[s] IN
    /\ t.pc = "insert" /\ ~ t.withSeed =>
          \A r \in live \ t.gone : info[r].table # "companies"
    /\ IsRunning(s) /\ ~ t.withSeed /\ ~ t.withWriter => live \subseteq t.old

\* The rows of a pilot are its company and rows that name it.
IsPilot(rows) ==
    rows = {} \/ \E k \in rows :
                    /\ info[k].table = "companies"
                    /\ \A r \in rows \ {k} : /\ k \in info[r].names
                                             /\ info[r].table # "companies"

Whole(o) ==
    LET rows == tx[o].own IN
    IsPilot(rows) /\ (rows \subseteq live \/ rows \cap live = {})

\* Two transactions hold different rows, and know of each other.
Apart(s, o) ==
    s # o => /\ tx[s].gone \cap tx[o].gone = {}
             /\ IsRunning(s) /\ IsRunning(o) => tx[s].withSeed

\* A reset that has deleted a row of a pilot will delete its company, and with
\* it the rest.
Taking(s, o) ==
    LET t == tx[s] IN
    t.gone \cap tx[o].own # {} =>
       \A k \in tx[o].own : info[k].table = "companies" =>
          /\ t.pc = "wait" /\ t.at = Last => k \in t.snapshot
          /\ t.pc = "insert" => k \in t.gone

OneCompany ==
    (\A s \in Seeds : ~ tx[s].withSeed) =>
       \A a, b \in Of("companies") : a = b

SeedInv ==
    /\ RowsInv
    /\ tx \in [Seeds -> TxRecord]
    /\ \A s \in Seeds : /\ Shape(s) /\ Closed(s) /\ Clearing(s) /\ Alone(s)
                        /\ Whole(s)
    /\ \A s, o \in Seeds : Apart(s, o) /\ Taking(s, o)
    /\ OneCompany

-----------------------------------------------------------------------------
(* The tables and the pilot.                                               *)

\* Every table names its company, and the reset clears every table once past
\* its list, the companies last.
LEMMA TablesFacts ==
    /\ "companies" \in Tables
    /\ \A t \in Tables \ {"companies"} : <<t, "companies">> \in References
    /\ Last \in Nat \ {0} /\ TABLES_TO_CLEAR[Last] = "companies"
    /\ \A t \in Tables : \E i \in 1..Last : TABLES_TO_CLEAR[i] = t
<1> DEFINE All == {TABLES_TO_CLEAR[i] : i \in 1..16}
           Others == {"branches", "users", "sessions", "technicians",
               "customers", "service_addresses", "tickets", "work_orders",
               "dispatches", "files", "technician_locations", "evidences",
               "work_order_events", "sync_receipts", "audit_logs"}
<1>1. \A r \in References : r[1] \in Others
  BY DEF References, Organization, Sessions, Technicians, Customers, Tickets,
         WorkOrders, Dispatches, Files, Locations, Evidences, Events, Receipts,
         AuditLogs, Lazy, To
<1>2. \A t \in Others : <<t, "companies">> \in References
  BY DEF References, Organization, Sessions, Technicians, Customers, Tickets,
         WorkOrders, Dispatches, Files, Locations, Evidences, Events, Receipts,
         AuditLogs, To
<1>3. Last = 16 /\ TABLES_TO_CLEAR[16] = "companies"
  BY DEF Last, TABLES_TO_CLEAR
<1>4. \A t \in Others : \E i \in 1..16 : TABLES_TO_CLEAR[i] = t
  BY DEF TABLES_TO_CLEAR
<1> HIDE DEF Others
<1>5. Tables \subseteq {"companies"} \union Others
  BY <1>1 DEF Tables
<1> QED
  BY <1>2, <1>3, <1>4, <1>5 DEF Tables

PilotTables == {"companies", "branches", "users", "technicians", "customers",
                "service_addresses"}

\* The references between the rows of a pilot.
LEMMA PilotReferences ==
    /\ PilotTables \subseteq Tables
    /\ <<"branches", "companies">> \in References
    /\ <<"users", "companies">> \in References
    /\ <<"users", "branches">> \in References
    /\ <<"technicians", "companies">> \in References
    /\ <<"technicians", "branches">> \in References
    /\ <<"technicians", "users">> \in References
    /\ <<"customers", "companies">> \in References
    /\ <<"customers", "branches">> \in References
    /\ <<"service_addresses", "companies">> \in References
    /\ <<"service_addresses", "customers">> \in References
<1>1. /\ <<"branches", "companies">> \in References
      /\ <<"users", "companies">> \in References
      /\ <<"users", "branches">> \in References
      /\ <<"technicians", "companies">> \in References
      /\ <<"technicians", "branches">> \in References
      /\ <<"technicians", "users">> \in References
      /\ <<"customers", "companies">> \in References
      /\ <<"customers", "branches">> \in References
      /\ <<"service_addresses", "companies">> \in References
      /\ <<"service_addresses", "customers">> \in References
  BY DEF References, Organization, Technicians, Customers, To
<1> HIDE DEF References
<1> QED
  BY <1>1 DEF Tables, PilotTables

\* The rows of a pilot are rows of the schema that name each other only, their
\* company all of them.
LEMMA PilotFacts ==
    ASSUME NEW n \in Nat
    PROVE  /\ Pilot(n) \in Seq(RowRecord) /\ Len(Pilot(n)) = 8
           /\ Pilot(n)[1].table = "companies"
           /\ \A i \in 1..8 : Pilot(n)[i].table \in PilotTables
           /\ \A i \in 1..8 :
                 /\ Pilot(n)[i].names \subseteq n + 1 .. n + 8
                 /\ i # 1 => /\ n + 1 \in Pilot(n)[i].names
                             /\ Pilot(n)[i].table # "companies"
                 /\ \A p \in Pilot(n)[i].names :
                       <<Pilot(n)[i].table, Pilot(n)[p - n].table>> \in References
<1> DEFINE row(table, names) == [table |-> table, names |-> {n + i : i \in names}]
           rows == << row("companies", {}), row("branches", {1}),
                      row("users", {1, 2}), row("users", {1, 2}),
                      row("users", {1, 2}), row("technicians", {1, 2, 5}),
                      row("customers", {1, 2}), row("service_addresses", {1, 7}) >>
           tables == << "companies", "branches", "users", "users", "users",
                        "technicians", "customers", "service_addresses" >>
           targets == << {}, {1}, {1, 2}, {1, 2}, {1, 2}, {1, 2, 5}, {1, 2},
                         {1, 7} >>
<1>1. Pilot(n) = rows
  BY DEF Pilot
<1>2. \A i \in 1..8 : rows[i] = row(tables[i], targets[i])
  <2>1. rows[1] = row(tables[1], targets[1])
    OBVIOUS
  <2>2. rows[2] = row(tables[2], targets[2])
    OBVIOUS
  <2>3. rows[3] = row(tables[3], targets[3])
    OBVIOUS
  <2>4. rows[4] = row(tables[4], targets[4])
    OBVIOUS
  <2>5. rows[5] = row(tables[5], targets[5])
    OBVIOUS
  <2>6. rows[6] = row(tables[6], targets[6])
    OBVIOUS
  <2>7. rows[7] = row(tables[7], targets[7])
    OBVIOUS
  <2>8. rows[8] = row(tables[8], targets[8])
    OBVIOUS
  <2> HIDE DEF rows, row, tables, targets
  <2>9. \A i \in 1..8 : i \in {1, 2, 3, 4, 5, 6, 7, 8}
    OBVIOUS
  <2> QED
    BY <2>1, <2>2, <2>3, <2>4, <2>5, <2>6, <2>7, <2>8, <2>9
<1>3. Len(rows) = 8 /\ DOMAIN rows = 1..8
  OBVIOUS
<1>4. \A i \in 1..8 : /\ tables[i] \in PilotTables /\ tables[i] \in Tables
                      /\ targets[i] \subseteq 1..8
                      /\ i # 1 => 1 \in targets[i] /\ tables[i] # "companies"
                      /\ \A p \in targets[i] : <<tables[i], tables[p]>> \in References
  <2>1. /\ tables[1] = "companies" /\ tables[2] = "branches"
        /\ tables[3] = "users" /\ tables[4] = "users" /\ tables[5] = "users"
        /\ tables[6] = "technicians" /\ tables[7] = "customers"
        /\ tables[8] = "service_addresses"
    OBVIOUS
  <2>2. /\ targets[1] = {} /\ targets[2] = {1} /\ targets[3] = {1, 2}
        /\ targets[4] = {1, 2} /\ targets[5] = {1, 2} /\ targets[6] = {1, 2, 5}
        /\ targets[7] = {1, 2} /\ targets[8] = {1, 7}
    OBVIOUS
  <2>3. \A i \in 1..8 : i \in {1, 2, 3, 4, 5, 6, 7, 8}
    OBVIOUS
  <2> HIDE DEF tables, targets
  <2>4. \A i \in {1, 2, 3, 4, 5, 6, 7, 8} :
           /\ tables[i] \in PilotTables /\ tables[i] \in Tables
           /\ targets[i] \subseteq 1..8
           /\ i # 1 => 1 \in targets[i] /\ tables[i] # "companies"
    BY <2>1, <2>2, PilotReferences DEF PilotTables
  <2>5. \A i \in {1, 2, 3, 4, 5, 6, 7, 8} : \A p \in targets[i] :
           <<tables[i], tables[p]>> \in References
    BY <2>1, <2>2, PilotReferences
  <2> QED
    BY <2>3, <2>4, <2>5
<1>5. tables[1] = "companies"
  OBVIOUS
<1> HIDE DEF rows, tables, targets
<1>6. \A i \in 1..8 : /\ rows[i].table = tables[i]
                      /\ rows[i].names = {n + j : j \in targets[i]}
                      /\ rows[i].names \subseteq n + 1 .. n + 8
                      /\ i # 1 => n + 1 \in rows[i].names
  BY <1>2, <1>4
<1>7. \A i \in 1..8 : rows[i] \in RowRecord
  BY <1>2, <1>4 DEF RowRecord
<1>8. rows \in Seq(RowRecord)
  BY <1>3, <1>7 DEF rows
<1>9. ASSUME NEW i \in 1..8, NEW p \in rows[i].names
      PROVE  <<rows[i].table, rows[p - n].table>> \in References
  <2>1. PICK j \in targets[i] : p = n + j
    BY <1>6, <1>9
  <2>2. j \in 1..8 /\ p - n = j
    BY <1>4, <2>1
  <2> QED
    BY <1>4, <1>6, <2>1, <2>2
<1>10. Pilot(n)[1].table = "companies"
  BY <1>1, <1>5, <1>6
<1>11. \A i \in 1..8 : /\ Pilot(n)[i].names \subseteq n + 1 .. n + 8
                       /\ i # 1 => /\ n + 1 \in Pilot(n)[i].names
                                   /\ Pilot(n)[i].table # "companies"
                       /\ Pilot(n)[i].table \in PilotTables
  BY <1>1, <1>4, <1>6
<1> QED
  BY <1>1, <1>3, <1>8, <1>9, <1>10, <1>11

-----------------------------------------------------------------------------
(* Steps of one seed that leave the rows as they are.                      *)

\* What of such a step has to be shown of its seed only.
LEMMA OneSeedKeeps ==
    ASSUME SeedInv, NEW s \in Seeds, NEW t \in TxRecord,
           tx' = [tx EXCEPT ![s] = t], UNCHANGED <<info, live, writes>>,
           t.own = tx[s].own, t.withSeed = tx[s].withSeed,
           t.pc \in Running => IsRunning(s),
           Shape(s)', Closed(s)', Clearing(s)', Alone(s)',
           \A o \in Seeds \ {s} : t.gone \cap tx[o].gone = {},
           \A o \in Seeds : Taking(s, o)'
    PROVE  SeedInv'
<1>1. /\ tx' \in [Seeds -> TxRecord] /\ tx'[s] = t
      /\ \A o \in Seeds \ {s} : tx'[o] = tx[o]
      /\ \A o \in Seeds : tx'[o].own = tx[o].own /\ tx'[o].withSeed = tx[o].withSeed
  BY DEF SeedInv
<1>2. RowsInv'
  BY DEF SeedInv, RowsInv, ReferencesHold, Rows
<1>3. ASSUME NEW o \in Seeds
      PROVE  Shape(o)' /\ Closed(o)' /\ Clearing(o)' /\ Alone(o)' /\ Whole(o)'
  <2>1. Whole(o)'
    BY <1>1 DEF SeedInv, Whole, IsPilot
  <2>2. CASE o = s
    BY <2>1, <2>2
  <2>3. CASE o # s
    <3>1. tx'[o] = tx[o] /\ Shape(o) /\ Closed(o) /\ Clearing(o) /\ Alone(o)
      BY <1>1, <2>3 DEF SeedInv
    <3>2. Shape(o)'
      BY <3>1 DEF Shape, Rows
    <3>3. Closed(o)'
      BY <3>1 DEF Closed
    <3>4. Clearing(o)'
      BY <3>1 DEF Clearing
    <3>5. Alone(o)'
      BY <3>1 DEF Alone, IsRunning
    <3> QED
      BY <2>1, <3>2, <3>3, <3>4, <3>5
  <2> QED
    BY <2>2, <2>3
<1>4. ASSUME NEW o \in Seeds, NEW q \in Seeds
      PROVE  Apart(o, q)' /\ Taking(o, q)'
  <2>1. Apart(o, q) /\ Apart(q, o) /\ Taking(o, q)
    BY DEF SeedInv
  <2>2. Apart(o, q)'
    BY <1>1, <2>1 DEF Apart, IsRunning
  <2>3. Taking(o, q)'
    <3>1. CASE o = s
      BY <3>1
    <3>2. CASE o # s
      BY <1>1, <2>1, <3>2 DEF Taking
    <3> QED
      BY <3>1, <3>2
  <2> QED
    BY <2>2, <2>3
<1>5. OneCompany'
  BY <1>1 DEF SeedInv, OneCompany, Of
<1> QED
  BY <1>1, <1>2, <1>3, <1>4, <1>5 DEF SeedInv

\* A rollback gives the rows back.
LEMMA FailKeeps ==
    ASSUME SeedInv, NEW s \in Seeds, NEW why \in Whys, IsRunning(s), Fail(s, why)
    PROVE  SeedInv'
<1> DEFINE old == tx[s]
           t == [old EXCEPT !.pc = "failed", !.why = why, !.gone = {},
                            !.snapshot = {}]
<1>1. /\ tx' = [tx EXCEPT ![s] = t] /\ UNCHANGED <<info, live, writes>>
      /\ tx'[s] = t /\ old \in TxRecord
  BY DEF Fail, SeedInv
<1>2. Shape(s)
  BY DEF SeedInv
<1> HIDE DEF old
<1>3. /\ t \in TxRecord /\ t.pc = "failed" /\ t.gone = {} /\ t.snapshot = {}
      /\ t.own = old.own /\ t.old = old.old /\ t.withSeed = old.withSeed
  BY <1>1 DEF TxRecord, PCs
<1> HIDE DEF t
<1>4. t.own = tx[s].own /\ t.old = tx[s].old /\ t.withSeed = tx[s].withSeed
  BY <1>3 DEF old
<1>5. Shape(s)'
  BY <1>1, <1>2, <1>3, <1>4 DEF Shape, IsRunning, Running, Rows
<1>6. Closed(s)' /\ Clearing(s)' /\ Alone(s)'
  BY <1>1, <1>3 DEF Closed, Clearing, Alone, IsRunning, Running
<1>7. \A o \in Seeds : Taking(s, o)'
  BY <1>1, <1>3 DEF Taking
<1>8. t.pc \notin Running
  BY <1>3 DEF Running
<1> QED
  BY <1>1, <1>3, <1>4, <1>5, <1>6, <1>7, <1>8, OneSeedKeeps

\* A check that finds no company finds none until the insertion, unless seeds
\* overlap.
LEMMA SeedCheckKeeps ==
    ASSUME SeedInv, NEW s \in Seeds, SeedCheck(s)
    PROVE  SeedInv'
<1>1. tx[s].pc = "check" /\ IsRunning(s)
  BY DEF SeedCheck, IsRunning, Running
<1>2. CASE Of("companies") # {}
  BY <1>1, <1>2, FailKeeps DEF SeedCheck, Whys
<1>3. CASE Of("companies") = {}
  <2> DEFINE old == tx[s]
             t == [old EXCEPT !.pc = "insert"]
  <2>1. /\ tx' = [tx EXCEPT ![s] = t] /\ UNCHANGED <<info, live, writes>>
        /\ tx'[s] = t /\ old \in TxRecord
    BY <1>3 DEF SeedCheck, SeedInv
  <2>2. Shape(s) /\ Closed(s) /\ Alone(s)
    BY DEF SeedInv
  <2> HIDE DEF old
  <2>3. /\ t \in TxRecord /\ t.pc = "insert" /\ t.gone = old.gone
        /\ t.own = old.own /\ t.old = old.old /\ t.snapshot = old.snapshot
        /\ t.reset = old.reset /\ t.withSeed = old.withSeed
        /\ t.withWriter = old.withWriter
    BY <2>1 DEF TxRecord, PCs
  <2> HIDE DEF t
  <2> USE DEF old
  <2>4. t.gone = {} /\ t.own = {} /\ ~ t.reset
    BY <1>1, <2>2, <2>3 DEF Shape
  <2>5. Shape(s)'
    BY <2>1, <2>2, <2>3, <2>4 DEF Shape, Rows
  <2>6. Closed(s)' /\ Clearing(s)'
    BY <2>1, <2>4 DEF Closed, Clearing
  <2>7. Alone(s)'
    BY <1>1, <1>3, <2>1, <2>2, <2>3 DEF Alone, IsRunning, Of
  <2>8. \A o \in Seeds : Taking(s, o)'
    BY <2>1, <2>4 DEF Taking
  <2> QED
    BY <1>1, <2>1, <2>3, <2>4, <2>5, <2>6, <2>7, <2>8, OneSeedKeeps
<1> QED
  BY <1>2, <1>3

\* The wait is for a row that another transaction has deleted.
LEMMA BlockedByAnother ==
    ASSUME SeedInv, NEW s \in Seeds, NEW doomed, Blocked(s, doomed), IsRunning(s)
    PROVE  tx[s].withSeed
<1>1. PICK o \in Seeds \ {s} : tx[o].gone # {}
  BY DEF Blocked, Locked
<1>2. IsRunning(o) /\ Apart(s, o)
  BY <1>1 DEF SeedInv, Shape, IsRunning, Running
<1> QED
  BY <1>1, <1>2 DEF Apart

\* A DELETE that waits has seen the rows of its table, the company of any pilot
\* that it began to delete among them.
LEMMA WaitKeeps ==
    ASSUME SeedInv, NEW s \in Seeds, tx[s].pc = "clear",
           NEW doomed, doomed = Of(TABLES_TO_CLEAR[tx[s].at]),
           Blocked(s, doomed),
           tx' = [tx EXCEPT ![s].pc = "wait", ![s].snapshot = doomed],
           UNCHANGED <<info, live, writes>>
    PROVE  SeedInv'
<1> DEFINE old == tx[s]
           t == [old EXCEPT !.pc = "wait", !.snapshot = doomed]
<1>1. tx' = [tx EXCEPT ![s] = t] /\ tx'[s] = t /\ old \in TxRecord
  BY DEF SeedInv
<1>2. doomed \subseteq live /\ doomed \subseteq Rows /\ doomed \in SUBSET Nat
  <2>1. doomed \subseteq live /\ live \subseteq Rows
    BY DEF SeedInv, RowsInv, Of
  <2>2. Rows \subseteq Nat
    BY DEF SeedInv, RowsInv, Rows
  <2> QED
    BY <2>1, <2>2
<1>3. IsRunning(s) /\ tx[s].withSeed
  BY BlockedByAnother DEF IsRunning, Running
<1>4. Shape(s) /\ Closed(s) /\ Clearing(s) /\ \A o \in Seeds : Apart(s, o)
  BY DEF SeedInv
<1> HIDE DEF old
<1>5. /\ t \in TxRecord /\ t.pc = "wait" /\ t.gone = old.gone
      /\ t.own = old.own /\ t.old = old.old /\ t.snapshot = doomed
      /\ t.reset = old.reset /\ t.withSeed = old.withSeed /\ t.at = old.at
      /\ t.withWriter = old.withWriter
  BY <1>1, <1>2 DEF TxRecord, PCs
<1> HIDE DEF t
<1> USE DEF old
<1>6. Shape(s)'
  <2>1. /\ tx[s].gone \subseteq live /\ tx[s].old \subseteq Rows
        /\ tx[s].own = {} /\ tx[s].reset /\ tx[s].at \in 1..Last
    BY <1>4 DEF Shape
  <2>2. \A r \in doomed : info[r].table = TABLES_TO_CLEAR[t.at]
    BY <1>5 DEF Of
  <2>3. /\ t.gone \subseteq live /\ t.old \subseteq Rows
        /\ t.own = {} /\ t.reset /\ t.at \in 1..Last /\ t.withSeed
    BY <1>3, <1>5, <2>1
  <2> QED
    BY <1>1, <1>2, <1>5, <2>2, <2>3 DEF Shape, Rows
<1>7. Closed(s)'
  BY <1>1, <1>4, <1>5 DEF Closed
<1>8. Clearing(s)'
  <2> DEFINE left == (old.old \cap live) \ old.gone
             table == TABLES_TO_CLEAR[old.at]
  <2>1. old.reset => \A r \in left, i \in 1..(old.at - 1) :
                        info[r].table # TABLES_TO_CLEAR[i]
    BY <1>4 DEF Clearing
  <2>2. \A r \in left : info[r].table = table => r \in doomed
    BY DEF Of
  <2>3. /\ t.old = old.old /\ t.gone = old.gone /\ t.at = old.at
        /\ t.reset = old.reset /\ t.snapshot = doomed /\ t.pc = "wait"
    BY <1>5
  <2> HIDE DEF old
  <2> DEFINE now == tx'[s]
  <2>4. /\ (now.old \cap live') \ now.gone = left /\ info' = info
        /\ now.at = old.at /\ now.reset = old.reset /\ now.snapshot = doomed
        /\ now.pc = "wait"
    BY <1>1, <2>3
  <2> HIDE DEF left
  <2>5. ASSUME now.reset, NEW r \in left, NEW i \in 1..(now.at - 1)
        PROVE  info'[r].table # TABLES_TO_CLEAR[i]
    <3>1. old.reset /\ i \in 1..(old.at - 1) /\ info'[r] = info[r]
      BY <2>4, <2>5
    <3> QED
      BY <2>1, <3>1
  <2>6. ASSUME NEW r \in left, info'[r].table = TABLES_TO_CLEAR[now.at]
        PROVE  r \in now.snapshot
    <3>1. info[r].table = table /\ now.snapshot = doomed
      BY <2>4, <2>6
    <3> QED
      BY <2>2, <3>1
  <2> HIDE DEF now, table
  <2> QED
    BY <2>4, <2>5, <2>6 DEF Clearing, now
<1>9. Alone(s)'
  BY <1>1, <1>3, <1>5 DEF Alone
<1>10. \A o \in Seeds : Taking(s, o)'
  <2> SUFFICES ASSUME NEW o \in Seeds, t.gone \cap tx'[o].own # {},
                      NEW k \in tx'[o].own, info[k].table = "companies",
                      t.at = Last
               PROVE  k \in doomed
    BY <1>1, <1>5 DEF Taking
  <2>1. tx'[o].own = tx[o].own
    BY <1>1, <1>5 DEF SeedInv
  <2>2. PICK r \in t.gone : r \in tx[o].own /\ r \in live
    BY <1>4, <1>5, <2>1 DEF Shape
  <2>3. tx[o].own \subseteq live
    BY <2>2 DEF SeedInv, Whole
  <2> QED
    BY <1>5, <2>1, <2>3, TablesFacts DEF Of
<1>11. \A o \in Seeds \ {s} : t.gone \cap tx[o].gone = {}
  BY <1>4, <1>5 DEF Apart
<1>12. t.own = tx[s].own /\ t.withSeed = tx[s].withSeed
  BY <1>5
<1> HIDE DEF old
<1> QED
  BY <1>1, <1>3, <1>5, <1>6, <1>7, <1>8, <1>9, <1>10, <1>11, <1>12, OneSeedKeeps

\* A DELETE that ends well.  Its rows are those of its table that are live, or
\* those that it saw before it had to wait and that still are.
LEMMA ClearKeeps ==
    ASSUME SeedInv, NEW s \in Seeds, NEW doomed,
           \/ /\ tx[s].pc = "clear"
              /\ doomed = Of(TABLES_TO_CLEAR[tx[s].at])
           \/ /\ tx[s].pc = "wait"
              /\ doomed = tx[s].snapshot \cap live,
           ~ Blocked(s, doomed), Clear(s, doomed)
    PROVE  SeedInv'
<1>1. IsRunning(s) /\ tx[s].pc \in {"clear", "wait"}
  BY DEF IsRunning, Running
<1>2. CASE Children(s, doomed) # {}
  BY <1>1, <1>2, FailKeeps DEF Clear, Whys
<1>3. CASE Children(s, doomed) = {}
  <2> DEFINE old == tx[s]
             gone == old.gone \union doomed
             at == old.at + 1
             pc == IF old.at = Last THEN "insert" ELSE "clear"
             t == [old EXCEPT !.gone = gone, !.snapshot = {}, !.at = at,
                              !.pc = pc]
  <2>1. /\ tx' = [tx EXCEPT ![s] = t] /\ UNCHANGED <<info, live, writes>>
        /\ tx'[s] = t /\ old \in TxRecord
    <3>1. tx' = [tx EXCEPT ![s] = t]
      BY <1>3 DEF Clear, Last
    <3> HIDE DEF t
    <3> QED
      BY <1>3, <3>1 DEF Clear, SeedInv
  <2>2. /\ Shape(s) /\ Closed(s) /\ Clearing(s) /\ Alone(s)
        /\ \A o \in Seeds : Apart(s, o)
    BY DEF SeedInv
  <2>3. /\ doomed \subseteq live /\ live \subseteq Rows /\ Rows \subseteq Nat
        /\ \A r \in doomed : info[r].table = TABLES_TO_CLEAR[old.at]
    BY <2>2 DEF SeedInv, RowsInv, Rows, Of, Shape
  <2>4. /\ old.gone \subseteq live /\ old.old \subseteq Rows /\ old.own = {}
        /\ old.reset /\ old.at \in 1..Last
    BY <1>1, <2>2 DEF Shape
  <2>5. /\ gone \in SUBSET Nat /\ gone \subseteq live
        /\ at \in Nat /\ pc \in {"clear", "insert"}
        /\ pc = "clear" => at \in 1..Last
        /\ pc = "insert" => at = Last + 1 /\ old.at = Last
    <3> HIDE DEF old
    <3>1. gone \in SUBSET Nat /\ gone \subseteq live
      BY <2>3, <2>4
    <3> QED
      BY <2>4, <3>1, TablesFacts
  <2> HIDE DEF old, gone, at, pc
  <2>6. /\ t \in TxRecord /\ t.pc = pc /\ t.gone = gone /\ t.snapshot = {}
        /\ t.at = at /\ t.own = old.own /\ t.old = old.old
        /\ t.reset = old.reset /\ t.withSeed = old.withSeed
        /\ t.withWriter = old.withWriter
    BY <2>1, <2>5 DEF TxRecord, PCs
  <2> HIDE DEF t
  <2>7. Shape(s)'
    BY <2>1, <2>4, <2>5, <2>6 DEF Shape, Rows
  <2>8. Closed(s)'
    <3> SUFFICES ASSUME NEW r \in live \ gone
                 PROVE  info[r].names \cap gone = {}
      BY <2>1, <2>6 DEF Closed
    <3>1. info[r].names \cap old.gone = {}
      BY <2>2 DEF Closed, gone, old
    <3>2. info[r].names \cap doomed = {}
      BY <1>3 DEF Children, gone, old
    <3> QED
      BY <3>1, <3>2 DEF gone
  <2>9. \A r \in (old.old \cap live) \ old.gone :
           info[r].table = TABLES_TO_CLEAR[old.at] => r \in doomed
    BY <1>1, <2>2, <2>4 DEF Clearing, Of, old
  <2>10. Clearing(s)'
    <3>1. \A r \in (old.old \cap live) \ old.gone, i \in 1..(old.at - 1) :
             info[r].table # TABLES_TO_CLEAR[i]
      BY <1>1, <2>2, <2>4 DEF Clearing, old
    <3>2. \A r \in (old.old \cap live) \ gone, i \in 1..(at - 1) :
             info[r].table # TABLES_TO_CLEAR[i]
      BY <2>4, <2>9, <3>1, TablesFacts DEF gone, at
    <3> QED
      BY <2>1, <2>5, <2>6, <3>2 DEF Clearing
  <2>11. Alone(s)'
    <3>1. ASSUME pc = "insert", ~ old.withSeed
          PROVE  \A r \in live \ gone : info[r].table # "companies"
      <4>1. doomed = Of("companies")
        BY <2>2, <2>5, <3>1, TablesFacts DEF Shape, old
      <4> QED
        BY <4>1 DEF Of, gone
    <3>2. ~ old.withSeed /\ ~ old.withWriter => live \subseteq old.old
      BY <1>1, <2>2 DEF Alone, old
    <3> QED
      BY <2>1, <2>6, <3>1, <3>2 DEF Alone
  <2>12. \A o \in Seeds \ {s} : t.gone \cap tx[o].gone = {}
    <3>1. doomed \cap Locked(s) = {}
      BY DEF Blocked
    <3> QED
      BY <2>2, <2>6, <3>1 DEF Locked, Apart, gone, old
  <2>13. ASSUME NEW o \in Seeds
         PROVE  Taking(s, o)'
    <3>1. tx'[o].own = tx[o].own
      BY <2>1, <2>6 DEF SeedInv, old
    <3> SUFFICES ASSUME gone \cap tx[o].own # {}, pc = "insert",
                        NEW k \in tx[o].own, info[k].table = "companies"
                 PROVE  k \in gone
      BY <2>1, <2>5, <2>6, <3>1 DEF Taking
    <3>2. CASE old.gone \cap tx[o].own # {}
      <4>1. tx[o].own \subseteq live
        BY <2>4, <3>2 DEF SeedInv, Whole
      <4>2. tx[s].at = Last /\ TABLES_TO_CLEAR[Last] = "companies"
        BY <2>5, TablesFacts DEF old
      <4>3. tx[s].pc = "wait" => k \in tx[s].snapshot
        BY <3>2, <4>2 DEF SeedInv, Taking, old
      <4>4. k \in doomed
        BY <1>1, <4>1, <4>2, <4>3 DEF Of
      <4> QED
        BY <4>4 DEF gone
    <3>3. CASE old.gone \cap tx[o].own = {}
      <4>1. PICK r \in doomed : r \in tx[o].own
        BY <3>3 DEF gone
      <4>2. info[r].table = "companies"
        BY <2>3, <2>5, <4>1, TablesFacts
      <4>3. r = k
        BY <4>1, <4>2 DEF SeedInv, Whole, IsPilot
      <4> QED
        BY <4>1, <4>3 DEF gone
    <3> QED
      BY <3>2, <3>3
  <2>14. t.own = tx[s].own /\ t.withSeed = tx[s].withSeed
    BY <2>6 DEF old
  <2> QED
    BY <1>1, <2>1, <2>6, <2>7, <2>8, <2>10, <2>11, <2>12, <2>13, <2>14,
       OneSeedKeeps
<1> QED
  BY <1>2, <1>3

\* A DELETE, the end of a wait and an abort keep the invariant.
LEMMA ResetKeeps ==
    ASSUME SeedInv, NEW s \in Seeds, DeleteTable(s) \/ Resume(s) \/ Abort(s)
    PROVE  SeedInv'
<1>1. CASE DeleteTable(s)
  BY <1>1, WaitKeeps, ClearKeeps DEF DeleteTable
<1>2. CASE Resume(s)
  BY <1>2, ClearKeeps DEF Resume
<1>3. CASE Abort(s)
  BY <1>3, FailKeeps DEF Abort, Whys
<1> QED
  BY <1>1, <1>2, <1>3

-----------------------------------------------------------------------------
(* The BEGIN of a seed, which every seed that runs has met from then on.   *)

\* A seed that has not begun has a transaction record.
LEMMA NoTxType == NoTx \in TxRecord
BY DEF NoTx, TxRecord, PCs, Whys

\* A BEGIN finds every row that is live, and makes itself known to the seeds
\* that run.
LEMMA SeedBeginKeeps ==
    ASSUME SeedInv, NEW s \in Seeds, SeedBegin(s)
    PROVE  SeedInv'
<1> DEFINE others == {o \in Seeds : IsRunning(o)}
           met == others # {}
<1>1. PICK reset \in BOOLEAN :
         tx' = [o \in Seeds |->
                  IF o = s
                  THEN [NoTx EXCEPT !.pc = IF reset THEN "clear" ELSE "check",
                                    !.reset = reset, !.old = live,
                                    !.withSeed = met]
                  ELSE IF o \in others THEN [tx[o] EXCEPT !.withSeed = TRUE]
                  ELSE tx[o]]
  BY DEF SeedBegin
<1>2. UNCHANGED <<info, live, writes>> /\ tx[s].pc = "idle"
  BY DEF SeedBegin
<1>3. live \subseteq Rows /\ Rows \subseteq Nat
  BY DEF SeedInv, RowsInv, Rows
<1> DEFINE pc == IF reset THEN "clear" ELSE "check"
           t == [NoTx EXCEPT !.pc = pc, !.reset = reset, !.old = live,
                             !.withSeed = met]
<1>4. tx'[s] = t
  BY <1>1
<1>5. /\ pc \in PCs /\ pc \in Running
      /\ reset => pc = "clear"
      /\ ~ reset => pc = "check"
      /\ reset \in BOOLEAN
  BY <1>1 DEF PCs, Running
<1>6. /\ t \in TxRecord /\ t.pc = pc /\ t.reset = reset /\ t.old = live
      /\ t.withSeed = met /\ t.gone = {} /\ t.snapshot = {} /\ t.own = {}
      /\ t.at = 1
  <2>1. NoTx.gone = {} /\ NoTx.snapshot = {} /\ NoTx.own = {} /\ NoTx.at = 1
    BY DEF NoTx
  <2>2. met \in BOOLEAN
    OBVIOUS
  <2> HIDE DEF met, pc
  <2>3. live \in SUBSET Nat /\ pc \in PCs /\ reset \in BOOLEAN
    BY <1>3, <1>5
  <2>4. /\ t.pc = pc /\ t.reset = reset /\ t.old = live
        /\ t.withSeed = met /\ t.gone = NoTx.gone
        /\ t.snapshot = NoTx.snapshot /\ t.own = NoTx.own /\ t.at = NoTx.at
    BY NoTxType DEF TxRecord
  <2>5. t \in TxRecord
    BY <2>2, <2>3, NoTxType DEF TxRecord
  <2> HIDE DEF t
  <2> QED
    BY <2>1, <2>4, <2>5
<1>7. ASSUME NEW o \in Seeds \ {s}
      PROVE  /\ tx'[o] \in TxRecord /\ tx'[o].pc = tx[o].pc
             /\ tx'[o].reset = tx[o].reset /\ tx'[o].at = tx[o].at
             /\ tx'[o].gone = tx[o].gone /\ tx'[o].snapshot = tx[o].snapshot
             /\ tx'[o].old = tx[o].old /\ tx'[o].own = tx[o].own
             /\ tx'[o].withWriter = tx[o].withWriter
             /\ IsRunning(o) => tx'[o].withSeed
             /\ tx'[o].withSeed => tx[o].withSeed \/ IsRunning(o)
             /\ tx[o].withSeed => tx'[o].withSeed
  <2>1. tx[o] \in TxRecord
    BY DEF SeedInv
  <2>2. CASE IsRunning(o)
    <3>1. tx'[o] = [tx[o] EXCEPT !.withSeed = TRUE]
      BY <1>1, <2>2
    <3> QED
      BY <2>1, <2>2, <3>1 DEF TxRecord
  <2>3. CASE ~ IsRunning(o)
    <3>1. tx'[o] = tx[o]
      BY <1>1, <2>3
    <3> QED
      BY <2>1, <2>3, <3>1
  <2> QED
    BY <2>2, <2>3
<1>8. tx' \in [Seeds -> TxRecord]
  <2>1. tx' = [o \in Seeds |-> tx'[o]]
    BY <1>1
  <2> HIDE DEF t
  <2> QED
    BY <1>4, <1>6, <1>7, <2>1
<1>9. RowsInv'
  BY <1>2 DEF SeedInv, RowsInv, ReferencesHold, Rows
<1> HIDE DEF t, met, pc
<1>10. Shape(s)' /\ Closed(s)' /\ Clearing(s)' /\ Alone(s)' /\ Whole(s)'
  <2>1. /\ t.pc \in {"clear", "check"} /\ 1 \in 1..Last
        /\ t.pc = "clear" => t.reset
        /\ t.pc = "check" => ~ t.reset
    BY <1>5, <1>6, TablesFacts
  <2>2. Shape(s)'
    BY <1>2, <1>3, <1>4, <1>6, <2>1 DEF Shape, Rows
  <2>3. Closed(s)' /\ Whole(s)'
    BY <1>2, <1>4, <1>6 DEF Closed, Whole, IsPilot
  <2>4. Clearing(s)'
    BY <1>2, <1>4, <1>6, <2>1 DEF Clearing
  <2>5. Alone(s)'
    BY <1>2, <1>4, <1>6, <2>1 DEF Alone
  <2> QED
    BY <2>2, <2>3, <2>4, <2>5
<1>11. ASSUME NEW o \in Seeds \ {s}
       PROVE  Shape(o)' /\ Closed(o)' /\ Clearing(o)' /\ Alone(o)' /\ Whole(o)'
  <2>1. Shape(o) /\ Closed(o) /\ Clearing(o) /\ Alone(o) /\ Whole(o)
    BY DEF SeedInv
  <2>2. Shape(o)'
    BY <1>2, <1>7, <2>1 DEF Shape, Rows, IsRunning, Running
  <2>3. Closed(o)' /\ Clearing(o)'
    BY <1>2, <1>7, <2>1 DEF Closed, Clearing
  <2>4. Alone(o)' /\ Whole(o)'
    BY <1>2, <1>7, <2>1 DEF Alone, Whole, IsPilot, IsRunning
  <2> QED
    BY <2>2, <2>3, <2>4
<1>12. ASSUME NEW o \in Seeds, NEW q \in Seeds
       PROVE  Apart(o, q)' /\ Taking(o, q)'
  <2>1. Apart(o, q) /\ Taking(o, q)
    BY DEF SeedInv
  <2>2. CASE o = s
    <3>1. ASSUME q # s, IsRunning(q)' PROVE met
      BY <1>7, <3>1 DEF IsRunning, met
    <3> QED
      BY <1>4, <1>6, <2>2, <3>1 DEF Apart, Taking
  <2>3. CASE o # s /\ q = s
    BY <1>4, <1>6, <1>7, <2>3 DEF Apart, Taking, IsRunning
  <2>4. CASE o # s /\ q # s
    BY <1>2, <1>7, <2>1, <2>4 DEF Apart, Taking, IsRunning
  <2> QED
    BY <2>2, <2>3, <2>4
<1>13. OneCompany'
  <2> SUFFICES ASSUME \A o \in Seeds : ~ tx'[o].withSeed
               PROVE  \A a, b \in Of("companies") : a = b
    BY <1>2 DEF OneCompany, Of
  <2>1. Shape(s)
    BY DEF SeedInv
  <2>2. \A o \in Seeds : ~ tx[o].withSeed
    BY <1>2, <1>7, <2>1 DEF Shape
  <2> QED
    BY <2>2 DEF SeedInv, OneCompany
<1> QED
  BY <1>8, <1>9, <1>10, <1>11, <1>12, <1>13 DEF SeedInv

-----------------------------------------------------------------------------
(* Rows come, and go with the transaction that deleted them.               *)

\* The rows `gone` are replaced by the rows `new`.
Replaces(gone, new) ==
    /\ Rows \subseteq Rows'
    /\ \A r \in Rows : info'[r] = info[r]
    /\ new \cap Rows = {} /\ new \subseteq Rows'
    /\ live' = (live \ gone) \union new

\* Transaction o is where it was, but for what it knows of others.
Stays(o) ==
    /\ tx'[o].pc = tx[o].pc /\ tx'[o].reset = tx[o].reset
    /\ tx'[o].at = tx[o].at /\ tx'[o].gone = tx[o].gone
    /\ tx'[o].snapshot = tx[o].snapshot /\ tx'[o].old = tx[o].old
    /\ tx'[o].own = tx[o].own /\ tx'[o].withSeed = tx[o].withSeed

\* Another transaction is not disturbed, when its deleted rows are neither among
\* those that go nor named by those that come.
LEMMA ReplacesKeeps ==
    ASSUME SeedInv, NEW gone, NEW new, Replaces(gone, new),
           NEW o \in Seeds, Stays(o), gone \cap tx[o].gone = {},
           \A r \in new : info'[r].names \cap tx[o].gone = {}
    PROVE  Shape(o)' /\ Closed(o)' /\ Clearing(o)'
<1>1. /\ Shape(o) /\ Closed(o) /\ Clearing(o) /\ live \subseteq Rows
  BY DEF SeedInv, RowsInv
<1>2. tx[o].gone \subseteq live /\ tx[o].old \subseteq Rows /\ tx[o].snapshot \subseteq Rows
  BY <1>1 DEF Shape
<1>3. Shape(o)'
  BY <1>1, <1>2 DEF Shape, Replaces, Stays
<1>4. Closed(o)'
  BY <1>1, <1>2 DEF Closed, Replaces, Stays
<1>5. tx[o].old \cap live' \subseteq tx[o].old \cap live
  BY <1>2 DEF Replaces
<1>6. Clearing(o)'
  BY <1>1, <1>2, <1>5 DEF Clearing, Replaces, Stays
<1> QED
  BY <1>3, <1>4, <1>6

\* Nor is a pilot that goes whole or not at all.
LEMMA WholeStays ==
    ASSUME SeedInv, NEW gone, NEW new, Replaces(gone, new),
           NEW o \in Seeds, tx'[o].own = tx[o].own,
           \/ tx[o].own \cap gone = {}
           \/ tx[o].own \cap live \subseteq gone
    PROVE  Whole(o)'
<1>1. Whole(o) /\ tx[o].own \subseteq Rows
  BY DEF SeedInv, Shape
<1>2. IsPilot(tx[o].own)'
  BY <1>1 DEF Whole, IsPilot, Replaces
<1>3. tx[o].own \subseteq live' \/ tx[o].own \cap live' = {}
  BY <1>1 DEF Whole, Replaces
<1> QED
  BY <1>2, <1>3 DEF Whole

\* Nor is a reset that has begun to delete a pilot.
LEMMA TakingStays ==
    ASSUME SeedInv, NEW gone, NEW new, Replaces(gone, new),
           NEW s \in Seeds, NEW o \in Seeds, Stays(s), Stays(o)
    PROVE  Taking(s, o)'
<1>1. Taking(s, o) /\ tx[o].own \subseteq Rows
  BY DEF SeedInv, Shape
<1> QED
  BY <1>1 DEF Taking, Replaces, Stays

\* A transaction that is about to commit has deleted all of a pilot or nothing.
LEMMA TakesWhole ==
    ASSUME SeedInv, NEW s \in Seeds, NEW o \in Seeds, tx[s].pc = "insert"
    PROVE  \/ tx[o].own \cap tx[s].gone = {}
           \/ tx[o].own \cap live \subseteq tx[s].gone
<1> SUFFICES ASSUME tx[s].gone \cap tx[o].own # {}
             PROVE  tx[o].own \cap live \subseteq tx[s].gone
  OBVIOUS
<1>1. Closed(s) /\ Taking(s, o) /\ Whole(o)
  BY DEF SeedInv
<1>2. PICK k \in tx[o].own : /\ info[k].table = "companies"
                             /\ \A r \in tx[o].own \ {k} : k \in info[r].names
  BY <1>1 DEF Whole, IsPilot
<1>3. k \in tx[s].gone
  BY <1>1, <1>2 DEF Taking
<1> QED
  BY <1>1, <1>2, <1>3 DEF Closed

\* The COMMIT of a seed replaces what it deleted by its pilot.
LEMMA SeedInsertKeeps ==
    ASSUME SeedInv, NEW s \in Seeds, SeedInsert(s)
    PROVE  SeedInv'
<1> DEFINE n == Len(info)
           new == n + 1 .. n + 8
           old == tx[s]
           gone == old.gone
           t == [old EXCEPT !.pc = "done", !.gone = {}, !.own = new]
<1>1. /\ tx' = [tx EXCEPT ![s] = t] /\ info' = info \o Pilot(n)
      /\ live' = (live \ gone) \union new /\ writes' = writes
      /\ old.pc = "insert"
  BY DEF SeedInsert
<1>2. /\ info \in Seq(RowRecord) /\ n \in Nat /\ Rows = 1..n
      /\ live \subseteq Rows /\ gone \subseteq live
      /\ \A r \in Rows : info[r] \in RowRecord
  BY DEF SeedInv, RowsInv, Rows, Shape
<1>3. /\ Pilot(n) \in Seq(RowRecord) /\ Len(Pilot(n)) = 8
  BY <1>2, PilotFacts
<1>4. /\ info' \in Seq(RowRecord) /\ Rows' = 1..(n + 8)
      /\ \A r \in Rows : info'[r] = info[r]
      /\ \A r \in new : r - n \in 1..8 /\ info'[r] = Pilot(n)[r - n]
  <2> DEFINE pilot == Pilot(n)
  <2>1. info' = info \o pilot /\ pilot \in Seq(RowRecord) /\ Len(pilot) = 8
    BY <1>1, <1>3
  <2>2. \A r \in new : r - n \in 1..8 /\ r > n /\ r \in 1..(n + 8)
    BY <1>2
  <2> HIDE DEF pilot
  <2> DEFINE both == info \o pilot
  <2>8. /\ both \in Seq(RowRecord) /\ Len(both) = n + Len(pilot)
        /\ \A r \in 1..(n + Len(pilot)) :
              both[r] = IF r <= n THEN info[r] ELSE pilot[r - n]
    <3> HIDE DEF n
    <3>1. Len(info) = n
      BY DEF n
    <3>2. /\ both \in Seq(RowRecord) /\ Len(both) = Len(info) + Len(pilot)
          /\ \A r \in 1..(Len(info) + Len(pilot)) :
                both[r] = IF r <= Len(info) THEN info[r] ELSE pilot[r - Len(info)]
      BY <1>2, <2>1, ConcatProperties
    <3> HIDE DEF both
    <3> QED
      BY <3>1, <3>2
  <2> HIDE DEF both
  <2>3. info' \in Seq(RowRecord) /\ Len(info') = n + 8
    BY <2>1, <2>8 DEF both
  <2>4. \A r \in 1..(n + 8) : info'[r] = IF r <= n THEN info[r]
                                         ELSE pilot[r - n]
    BY <2>1, <2>8 DEF both
  <2>5. Rows' = 1..(n + 8)
    BY <1>2, <2>3 DEF Rows
  <2>6. \A r \in Rows : info'[r] = info[r]
    BY <1>2, <2>4
  <2>7. \A r \in new : info'[r] = pilot[r - n]
    BY <1>2, <2>2, <2>4
  <2> QED
    BY <2>2, <2>3, <2>5, <2>6, <2>7 DEF pilot
<1>5. /\ new \cap Rows = {} /\ new \subseteq Rows' /\ Rows \subseteq Rows'
      /\ new \in SUBSET Nat
  BY <1>2, <1>4
<1>6. /\ \A r \in new : info'[r].names \subseteq new
      /\ n + 1 \in new /\ info'[n + 1].table = "companies"
      /\ \A r \in new \ {n + 1} : /\ n + 1 \in info'[r].names
                                  /\ info'[r].table # "companies"
      /\ \A r \in new : \A p \in info'[r].names :
            <<info'[r].table, info'[p].table>> \in References
  <2>1. n + 1 \in new /\ (n + 1) - n = 1
    BY <1>2
  <2>2. \A r \in new : r # n + 1 => r - n \in 1..8 /\ r - n # 1
    BY <1>2
  <2>3. \A r \in new : info'[r].names \subseteq new
    BY <1>2, <1>4, PilotFacts
  <2>4. info'[n + 1].table = "companies"
    <3>1. Pilot(n)[1].table = "companies"
      BY <1>2, PilotFacts
    <3> QED
      BY <1>4, <2>1, <3>1
  <2>5. ASSUME NEW r \in new, r # n + 1
        PROVE  n + 1 \in info'[r].names /\ info'[r].table # "companies"
    <3>1. r - n \in 1..8 /\ r - n # 1 /\ info'[r] = Pilot(n)[r - n]
      BY <1>4, <2>2, <2>5
    <3> HIDE DEF n
    <3> QED
      BY <1>2, <3>1, PilotFacts
  <2>6. ASSUME NEW r \in new, NEW p \in info'[r].names
        PROVE  <<info'[r].table, info'[p].table>> \in References
    <3>1. p \in new /\ r - n \in 1..8
      BY <1>4, <2>3
    <3>2. p \in Pilot(n)[r - n].names
      BY <1>4, <2>6
    <3> QED
      BY <1>2, <1>4, <3>1, <3>2, PilotFacts
  <2> QED
    BY <2>1, <2>3, <2>4, <2>5, <2>6
<1> HIDE DEF n, new
<1>7. old \in TxRecord
  BY DEF SeedInv
<1> HIDE DEF old
<1>8. /\ t \in TxRecord /\ t.pc = "done" /\ t.gone = {} /\ t.own = new
      /\ t.reset = old.reset /\ t.at = old.at /\ t.snapshot = old.snapshot
      /\ t.old = old.old /\ t.withSeed = old.withSeed
  BY <1>5, <1>7 DEF TxRecord, PCs
<1> HIDE DEF t
<1>9. /\ tx' \in [Seeds -> TxRecord] /\ tx'[s] = t
      /\ \A o \in Seeds \ {s} : tx'[o] = tx[o] /\ Stays(o)
  <2>1. /\ tx' \in [Seeds -> TxRecord] /\ tx'[s] = t
        /\ \A o \in Seeds \ {s} : tx'[o] = tx[o]
    BY <1>1, <1>8 DEF SeedInv
  <2> QED
    BY <2>1 DEF Stays
<1>10. Replaces(gone, new)
  BY <1>1, <1>4, <1>5 DEF Replaces
<1>11. Shape(s) /\ Closed(s) /\ Clearing(s) /\ Alone(s)
  BY DEF SeedInv
<1>12. RowsInv'
  <2>1. ASSUME NEW r \in Rows'
        PROVE  /\ info'[r].names \subseteq Rows'
               /\ \A p \in info'[r].names :
                     <<info'[r].table, info'[p].table>> \in References
    <3>1. CASE r \in Rows
      BY <1>4, <1>5, <3>1 DEF SeedInv, RowsInv
    <3>2. CASE r \in new
      BY <1>5, <1>6, <3>2
    <3>3. r \in Rows \/ r \in new
      BY <1>2, <1>4 DEF new
    <3> QED
      BY <3>1, <3>2, <3>3
  <2>2. ASSUME NEW r \in live'
        PROVE  info'[r].names \subseteq live'
    <3>1. CASE r \in live \ gone
      <4>1. info[r].names \cap gone = {} /\ info[r].names \subseteq live
        BY <1>11, <3>1 DEF Closed, SeedInv, RowsInv, ReferencesHold, old
      <4> QED
        BY <1>1, <1>2, <1>4, <3>1, <4>1
    <3>2. CASE r \in new
      BY <1>1, <1>6, <3>2
    <3> QED
      BY <1>1, <2>2, <3>1, <3>2
  <2>3. live' \subseteq Rows'
    BY <1>1, <1>2, <1>5
  <2> QED
    BY <1>1, <1>4, <2>1, <2>2, <2>3 DEF SeedInv, RowsInv, ReferencesHold
<1>13. Shape(s)' /\ Closed(s)' /\ Clearing(s)' /\ Alone(s)' /\ Whole(s)'
  <2>1. /\ old.snapshot \subseteq Rows /\ old.old \subseteq Rows
        /\ old.reset => old.at = Last + 1
    BY <1>1, <1>11 DEF Shape, old
  <2>2. Shape(s)'
    BY <1>5, <1>8, <1>9, <2>1 DEF Shape
  <2>3. Closed(s)'
    BY <1>8, <1>9 DEF Closed
  <2>4. old.reset => old.old \cap live \subseteq gone
    <3> SUFFICES ASSUME old.reset, NEW r \in (old.old \cap live) \ gone
                 PROVE  FALSE
      OBVIOUS
    <3>1. PICK i \in 1..Last : TABLES_TO_CLEAR[i] = info[r].table
      <4>1. info[r] \in RowRecord
        BY <1>2
      <4>2. info[r].table \in Tables
        BY <4>1 DEF RowRecord
      <4> QED
        BY <4>2, TablesFacts
    <3>2. i \in 1..(old.at - 1)
      BY <2>1, <3>1, TablesFacts
    <3> QED
      BY <1>1, <1>11, <3>1, <3>2 DEF Clearing, old
  <2>5. Clearing(s)'
    BY <1>1, <1>5, <1>8, <1>9, <2>1, <2>4 DEF Clearing
  <2>6. Alone(s)'
    BY <1>8, <1>9 DEF Alone, IsRunning, Running
  <2>7. IsPilot(tx[s].own)'
    BY <1>6, <1>8, <1>9 DEF IsPilot
  <2>8. Whole(s)'
    BY <1>1, <1>8, <1>9, <2>7 DEF Whole
  <2> QED
    BY <2>2, <2>3, <2>5, <2>6, <2>8
<1>14. ASSUME NEW o \in Seeds \ {s}
       PROVE  Shape(o)' /\ Closed(o)' /\ Clearing(o)' /\ Alone(o)' /\ Whole(o)'
  <2>2. gone \cap tx[o].gone = {} /\ tx[o].gone \subseteq Rows
    BY <1>2 DEF SeedInv, Apart, Shape, old
  <2>3. \A r \in new : info'[r].names \cap tx[o].gone = {}
    BY <1>5, <1>6, <2>2
  <2>4. Shape(o)' /\ Closed(o)' /\ Clearing(o)'
    BY <1>9, <1>10, <2>2, <2>3, ReplacesKeeps
  <2>5. Alone(o)'
    <3>1. IsRunning(o) => tx[o].withSeed
      <4>1. IsRunning(s) /\ Apart(o, s)
        BY <1>1 DEF SeedInv, IsRunning, Running, old
      <4> QED
        BY <4>1 DEF Apart
    <3> QED
      BY <1>9, <3>1 DEF Alone, IsRunning, Running
  <2>6. Whole(o)'
    BY <1>1, <1>9, <1>10, TakesWhole, WholeStays DEF Stays, old
  <2> QED
    BY <2>4, <2>5, <2>6
<1>15. ASSUME NEW o \in Seeds, NEW q \in Seeds
       PROVE  Apart(o, q)' /\ Taking(o, q)'
  <2>1. Apart(o, q) /\ Taking(o, q) /\ tx[o].gone \subseteq Rows
    BY <1>2 DEF SeedInv, Shape
  <2>2. Apart(o, q)'
    BY <1>8, <1>9, <2>1 DEF Apart, IsRunning, Running
  <2>3. CASE o = s
    BY <1>8, <1>9, <2>2, <2>3 DEF Taking
  <2>4. CASE o # s /\ q = s
    BY <1>5, <1>8, <1>9, <2>1, <2>2, <2>4 DEF Taking
  <2>5. CASE o # s /\ q # s
    BY <1>9, <1>10, <2>2, <2>5, TakingStays
  <2> QED
    BY <2>3, <2>4, <2>5
<1>16. OneCompany'
  <2> SUFFICES ASSUME ~ tx'[s].withSeed, NEW a \in Of("companies")'
               PROVE  a = n + 1
    BY DEF OneCompany
  <2>1. \A r \in live \ gone : info[r].table # "companies"
    BY <1>1, <1>8, <1>9, <1>11 DEF Alone, old
  <2>2. a \in new
    BY <1>1, <1>2, <1>4, <2>1 DEF Of
  <2> QED
    BY <1>6, <2>2 DEF Of
<1> QED
  BY <1>9, <1>12, <1>13, <1>14, <1>15, <1>16 DEF SeedInv

\* A row of another program names live rows that no transaction has deleted.
LEMMA WriteKeeps ==
    ASSUME SeedInv, NEW t \in Written, Write(t)
    PROVE  SeedInv'
<1> DEFINE n == Len(info)
           new == {n + 1}
<1> DEFINE others(k) == {p \in live : /\ <<t, info[p].table>> \in References
                                      /\ info[p].table # "companies"
                                      /\ CompanyOf(p) = k}
           joins(k, more) ==
              /\ ({k} \union more) \cap UNION {tx[s].gone : s \in Seeds} = {}
              /\ info' = Append(info, [table |-> t, names |-> {k} \union more])
<1>0. PICK k \in Of("companies") :
         \E more \in {{}} \union {{p} : p \in others(k)} : joins(k, more)
  BY DEF Write
<1>1. PICK more \in {{}} \union {{p} : p \in others(k)} : joins(k, more)
  BY <1>0
<1>2. /\ live' = live \union new /\ writes < MaxWrites /\ writes' = writes + 1
      /\ tx' = [s \in Seeds |-> IF IsRunning(s)
                                THEN [tx[s] EXCEPT !.withWriter = TRUE]
                                ELSE tx[s]]
  BY DEF Write
<1> DEFINE names == {k} \union more
           row == [table |-> t, names |-> names]
<1>3. /\ names \subseteq live
      /\ \A p \in names : <<t, info[p].table>> \in References
      /\ t \in Tables /\ t # "companies"
  <2>1. t \in Tables \ {"companies"} /\ <<t, "companies">> \in References
    BY TablesFacts, SeedAssumption
  <2>2. k \in live /\ info[k].table = "companies"
    BY <1>0 DEF Of
  <2>3. \A p \in more : p \in live /\ <<t, info[p].table>> \in References
    BY <1>1
  <2> QED
    BY <2>1, <2>2, <2>3
<1>4. \A s \in Seeds : names \cap tx[s].gone = {}
  BY <1>1
<1> HIDE DEF names
<1>5. /\ info \in Seq(RowRecord) /\ n \in Nat /\ Rows = 1..n
      /\ live \subseteq Rows
  BY DEF SeedInv, RowsInv, Rows
<1>6. row \in RowRecord /\ row.table = t /\ row.names = names
  BY <1>3, <1>5 DEF RowRecord
<1> HIDE DEF row
<1>7. info' = Append(info, row)
  BY <1>1 DEF row, names
<1>8. /\ info' \in Seq(RowRecord) /\ Rows' = 1..(n + 1)
      /\ \A r \in Rows : info'[r] = info[r]
      /\ info'[n + 1] = row
  <2>1. /\ info' \in Seq(RowRecord) /\ Len(info') = n + 1
        /\ \A r \in 1..n : info'[r] = info[r]
        /\ info'[n + 1] = row
    BY <1>5, <1>6, <1>7, AppendProperties
  <2> QED
    BY <1>5, <2>1 DEF Rows
<1>9. /\ new \cap Rows = {} /\ new \subseteq Rows' /\ Rows \subseteq Rows'
      /\ \A r \in Rows' : r \in Rows \/ r \in new
  BY <1>5, <1>8
<1>10. \A r \in new : info'[r].table = t /\ info'[r].names = names
  BY <1>6, <1>8
<1> HIDE DEF n, new
<1>11. Replaces({}, new)
  BY <1>2, <1>8, <1>9 DEF Replaces
<1>12. ASSUME NEW o \in Seeds
       PROVE  /\ tx'[o] \in TxRecord /\ Stays(o)
              /\ IsRunning(o) => tx'[o].withWriter
              /\ tx[o].withWriter => tx'[o].withWriter
  <2>1. tx[o] \in TxRecord
    BY DEF SeedInv
  <2>2. CASE IsRunning(o)
    <3>1. tx'[o] = [tx[o] EXCEPT !.withWriter = TRUE]
      BY <1>2, <2>2
    <3> QED
      BY <2>1, <2>2, <3>1 DEF TxRecord, Stays
  <2>3. CASE ~ IsRunning(o)
    <3>1. tx'[o] = tx[o]
      BY <1>2, <2>3
    <3> QED
      BY <2>1, <2>3, <3>1 DEF Stays
  <2> QED
    BY <2>2, <2>3
<1>13. tx' \in [Seeds -> TxRecord]
  BY <1>2, <1>12
<1>14. RowsInv'
  <2>1. ASSUME NEW r \in Rows'
        PROVE  /\ info'[r].names \subseteq Rows'
               /\ \A p \in info'[r].names :
                     <<info'[r].table, info'[p].table>> \in References
    <3>1. CASE r \in Rows
      BY <1>8, <1>9, <3>1 DEF SeedInv, RowsInv
    <3>2. CASE r \in new
      BY <1>3, <1>5, <1>8, <1>9, <1>10, <3>2
    <3> QED
      BY <1>9, <3>1, <3>2
  <2>2. ASSUME NEW r \in live'
        PROVE  info'[r].names \subseteq live'
    <3>1. CASE r \in live
      BY <1>2, <1>5, <1>8, <3>1 DEF SeedInv, RowsInv, ReferencesHold
    <3>2. CASE r \in new
      BY <1>2, <1>3, <1>10, <3>2
    <3> QED
      BY <1>2, <3>1, <3>2
  <2>3. live' \subseteq Rows' /\ writes' \in 0..MaxWrites
    BY <1>2, <1>5, <1>9, SeedAssumption DEF SeedInv, RowsInv
  <2> QED
    BY <1>8, <2>1, <2>2, <2>3 DEF RowsInv, ReferencesHold
<1>15. ASSUME NEW o \in Seeds
       PROVE  Shape(o)' /\ Closed(o)' /\ Clearing(o)' /\ Alone(o)' /\ Whole(o)'
  <2>1. Stays(o)
    BY <1>12
  <2>2. \A r \in new : info'[r].names \cap tx[o].gone = {}
    BY <1>4, <1>10
  <2>3. Shape(o)' /\ Closed(o)' /\ Clearing(o)'
    BY <1>11, <2>1, <2>2, ReplacesKeeps
  <2>4. Whole(o)'
    BY <1>11, <2>1, WholeStays DEF Stays
  <2>5. Alone(o)'
    <3>1. Alone(o) /\ (IsRunning(o)' <=> IsRunning(o))
      BY <2>1 DEF SeedInv, Stays, IsRunning
    <3>2. ASSUME tx[o].pc = "insert", ~ tx[o].withSeed,
                 NEW r \in live' \ tx[o].gone
          PROVE  info'[r].table # "companies"
      BY <1>2, <1>3, <1>5, <1>8, <1>10, <3>1, <3>2 DEF Alone
    <3> QED
      BY <1>12, <2>1, <3>1, <3>2 DEF Alone, Stays
  <2> QED
    BY <2>3, <2>4, <2>5
<1>16. ASSUME NEW o \in Seeds, NEW q \in Seeds
       PROVE  Apart(o, q)' /\ Taking(o, q)'
  <2>1. Apart(o, q) /\ Stays(o) /\ Stays(q)
    BY <1>12 DEF SeedInv
  <2>2. Apart(o, q)'
    BY <2>1 DEF Apart, Stays, IsRunning
  <2>3. Taking(o, q)'
    BY <1>11, <2>1, TakingStays
  <2> QED
    BY <2>2, <2>3
<1>17. OneCompany'
  <2>1. Of("companies")' \subseteq Of("companies")
    BY <1>2, <1>3, <1>5, <1>8, <1>10 DEF Of
  <2> QED
    BY <1>12, <2>1 DEF SeedInv, OneCompany, Stays
<1> QED
  BY <1>13, <1>14, <1>15, <1>16, <1>17 DEF SeedInv

-----------------------------------------------------------------------------
(* The theorems.                                                           *)

\* The invariant holds in an empty database and in one with a pilot,
LEMMA InitSeed == Init => SeedInv
<1> SUFFICES ASSUME Init PROVE SeedInv
  OBVIOUS
<1>1. /\ tx = [s \in Seeds |-> NoTx] /\ live = Rows /\ writes = 0
      /\ info = <<>> \/ info = Pilot(0)
  BY DEF Init
<1>2. /\ NoTx.gone = {} /\ NoTx.snapshot = {} /\ NoTx.own = {}
      /\ NoTx.old = {} /\ NoTx.pc = "idle" /\ NoTx.withSeed = FALSE
  BY DEF NoTx
<1>3. tx \in [Seeds -> TxRecord] /\ \A s \in Seeds : tx[s] = NoTx
  BY <1>1, NoTxType
<1>4. /\ RowsInv
      /\ \A a, b \in Of("companies") : a = b
  <2>1. CASE info = <<>>
    BY <1>1, <2>1, SeedAssumption DEF RowsInv, ReferencesHold, Rows, Of
  <2>2. CASE info = Pilot(0)
    <3>1. info \in Seq(RowRecord) /\ Rows = 1..8
      BY <2>2, PilotFacts DEF Rows
    <3>2. \A r \in Rows : /\ info[r].names \subseteq Rows
                          /\ r # 1 => info[r].table # "companies"
                          /\ \A p \in info[r].names :
                                <<info[r].table, info[p].table>> \in References
      <4>1. /\ \A i \in 1..8 :
                  /\ Pilot(0)[i].names \subseteq 0 + 1 .. 0 + 8
                  /\ i # 1 => Pilot(0)[i].table # "companies"
                  /\ \A p \in Pilot(0)[i].names :
                        <<Pilot(0)[i].table, Pilot(0)[p - 0].table>> \in References
        BY PilotFacts
      <4>2. 0 + 1 = 1 /\ 0 + 8 = 8 /\ \A p \in 1..8 : p - 0 = p
        OBVIOUS
      <4> HIDE DEF Pilot
      <4> QED
        BY <2>2, <3>1, <4>1, <4>2
    <3>3. live = 1..8 /\ writes \in 0..MaxWrites
      BY <1>1, <3>1, SeedAssumption
    <3>4. RowsInv
      BY <3>1, <3>2, <3>3 DEF RowsInv, ReferencesHold
    <3> QED
      BY <1>1, <3>2, <3>4 DEF Of
  <2> QED
    BY <1>1, <2>1, <2>2
<1>5. ASSUME NEW s \in Seeds
      PROVE  Shape(s) /\ Closed(s) /\ Clearing(s) /\ Alone(s) /\ Whole(s)
  <2>1. Shape(s)
    BY <1>2, <1>3 DEF Shape
  <2>2. Closed(s) /\ Clearing(s) /\ Whole(s)
    BY <1>2, <1>3 DEF Closed, Clearing, Whole, IsPilot
  <2>3. Alone(s)
    BY <1>2, <1>3 DEF Alone, IsRunning, Running
  <2> QED
    BY <2>1, <2>2, <2>3
<1>6. \A s, o \in Seeds : Apart(s, o) /\ Taking(s, o)
  BY <1>2, <1>3 DEF Apart, Taking, IsRunning, Running
<1>7. OneCompany
  BY <1>4 DEF OneCompany
<1> QED
  BY <1>3, <1>4, <1>5, <1>6, <1>7 DEF SeedInv

\* and every step keeps it.
LEMMA NextSeed == SeedInv /\ [Next]_vars => SeedInv'
<1> SUFFICES ASSUME SeedInv, [Next]_vars PROVE SeedInv'
  OBVIOUS
<1>1. ASSUME NEW s \in Seeds,
             \/ SeedBegin(s) \/ SeedCheck(s) \/ DeleteTable(s) \/ Resume(s)
             \/ SeedInsert(s) \/ Abort(s)
      PROVE  SeedInv'
  BY <1>1, SeedBeginKeeps, SeedCheckKeeps, ResetKeeps, SeedInsertKeeps
<1>2. ASSUME NEW t \in Written, Write(t)
      PROVE  SeedInv'
  BY <1>2, WriteKeeps
<1>3. CASE UNCHANGED vars
  BY <1>3 DEF vars, SeedInv, RowsInv, ReferencesHold, Rows, Shape, Closed,
              Clearing, Alone, Whole, IsPilot, Apart, Taking, OneCompany, Of,
              IsRunning
<1> QED
  BY <1>1, <1>2, <1>3 DEF Next

\* The invariant of the rows and the transactions always holds.
THEOREM SeedInvariant == Spec => []SeedInv
<1> QED
  BY InitSeed, NextSeed, PTL DEF Spec

\* The database has its shape, and every row names rows that the foreign keys of
\* its table allow.
THEOREM SeedTyped == Spec => []TypeOK
<1>1. SeedInv => TypeOK
  <2> SUFFICES ASSUME SeedInv PROVE TypeOK
    OBVIOUS
  <2>1. \A r \in Rows : info[r].table \in Tables
    <3>1. \A r \in Rows : info[r] \in RowRecord
      BY DEF SeedInv, RowsInv, Rows
    <3> QED
      BY <3>1 DEF RowRecord
  <2>2. ASSUME NEW s \in Seeds
        PROVE  /\ tx[s].pc \in PCs /\ tx[s].reset \in BOOLEAN /\ tx[s].at \in Nat
               /\ tx[s].gone \union tx[s].snapshot \subseteq Rows
               /\ tx[s].gone # {} => tx[s].pc \in Running
               /\ tx[s].why \in {"none", "exists", "reference", "abort"}
    <3>1. tx[s] \in TxRecord /\ Shape(s) /\ live \subseteq Rows
      BY DEF SeedInv, RowsInv
    <3>2. /\ tx[s].pc \in PCs /\ tx[s].reset \in BOOLEAN /\ tx[s].at \in Nat
          /\ tx[s].why \in Whys
      BY <3>1 DEF TxRecord
    <3> QED
      BY <3>1, <3>2 DEF Shape, Running, Whys
  <2> QED
    BY <2>1, <2>2 DEF TypeOK, SeedInv, RowsInv
<1> QED
  BY <1>1, SeedInvariant, PTL

\* However many resets delete and programs insert at the same time, no committed
\* row names one that is gone.
THEOREM SeedKeepsReferences == Spec => []ReferencesHold
<1>1. SeedInv => ReferencesHold
  BY DEF SeedInv, RowsInv
<1> QED
  BY <1>1, SeedInvariant, PTL

\* A reset that succeeds has removed every row that it found, whatever it had to
\* wait for.
THEOREM ResetTakesAll == Spec => []ResetLeavesNothingOld
<1>1. SeedInv => ResetLeavesNothingOld
  BY DEF SeedInv, Clearing, ResetLeavesNothingOld
<1> QED
  BY <1>1, SeedInvariant, PTL

\* A pilot is committed and removed whole, although a waiting reset passes over
\* what was committed meanwhile.
THEOREM PilotStaysWhole == Spec => []PilotIsWhole
<1>1. SeedInv => PilotIsWhole
  BY DEF SeedInv, Whole, PilotIsWhole
<1> QED
  BY <1>1, SeedInvariant, PTL

\* Only seeds that overlapped leave two companies.
THEOREM SecondSeedRefused == Spec => []SecondSeedRefuses
<1>1. SeedInv => SecondSeedRefuses
  <2> SUFFICES ASSUME SeedInv, \A s \in Seeds : ~ tx[s].withSeed
               PROVE  ~ (Cardinality(Of("companies")) > 1)
    BY DEF SecondSeedRefuses
  <2>1. \A a, b \in Of("companies") : a = b
    BY DEF SeedInv, OneCompany
  <2>2. CASE Of("companies") = {}
    BY <2>2, FS_EmptySet
  <2>3. CASE Of("companies") # {}
    <3>1. PICK a \in Of("companies") : TRUE
      BY <2>3
    <3>2. Of("companies") = {a}
      BY <2>1, <3>1
    <3>3. Cardinality(Of("companies")) = 1
      BY <3>2, FS_Singleton
    <3> QED
      BY <3>3
  <2> QED
    BY <2>2, <2>3
<1> QED
  BY <1>1, SeedInvariant, PTL

-----------------------------------------------------------------------------
(* Why a reset fails.  The order of TABLES_TO_CLEAR follows the foreign    *)
(* keys of the tables that hold rows at this commit, those of the seed and *)
(* of the routes of the API; of all tables it does not.                    *)

InUse == PilotTables \union {"sessions", "audit_logs"}

\* A table in use that names rows of another is cleared before it.
LEMMA OrderFollowsReferences ==
    ASSUME NEW t \in InUse, NEW i \in 1..Last, TABLES_TO_CLEAR[i] \in InUse,
           <<t, TABLES_TO_CLEAR[i]>> \in References
    PROVE  \E j \in 1..(i - 1) : TABLES_TO_CLEAR[j] = t
<1>1. /\ Last = 16 /\ TABLES_TO_CLEAR[6] = "audit_logs"
      /\ TABLES_TO_CLEAR[9] = "sessions"
      /\ TABLES_TO_CLEAR[11] = "service_addresses"
      /\ TABLES_TO_CLEAR[12] = "customers"
      /\ TABLES_TO_CLEAR[13] = "technicians"
      /\ TABLES_TO_CLEAR[14] = "users" /\ TABLES_TO_CLEAR[15] = "branches"
      /\ TABLES_TO_CLEAR[16] = "companies"
  BY DEF Last, TABLES_TO_CLEAR
<1>2. \A k \in 1..16 :
         TABLES_TO_CLEAR[k] \in InUse => k \in {6, 9, 11, 12, 13, 14, 15, 16}
  BY DEF TABLES_TO_CLEAR, InUse, PilotTables
<1>3. \A u \in InUse :
         /\ <<"companies", u>> \notin References
         /\ <<"branches", u>> \in References => u = "companies"
         /\ <<"users", u>> \in References => u \in {"companies", "branches"}
         /\ <<"technicians", u>> \in References =>
               u \in {"companies", "branches", "users"}
         /\ <<"customers", u>> \in References => u \in {"companies", "branches"}
         /\ <<"service_addresses", u>> \in References =>
               u \in {"companies", "customers"}
         /\ <<"sessions", u>> \in References =>
               u \in {"companies", "branches", "users"}
         /\ <<"audit_logs", u>> \in References => u \in {"companies", "users"}
  BY DEF References, Organization, Sessions, Technicians, Customers, Tickets,
         WorkOrders, Dispatches, Files, Locations, Evidences, Events, Receipts,
         AuditLogs, Lazy, To
<1>4. i \in {6, 9, 11, 12, 13, 14, 15, 16}
  BY <1>1, <1>2
<1>5. t \in {"companies", "branches", "users", "technicians", "customers",
             "service_addresses", "sessions", "audit_logs"}
  BY DEF InUse, PilotTables
<1>6. PICK k \in {6, 9, 11, 12, 13, 14, 15, 16} : TABLES_TO_CLEAR[k] = t
  BY <1>1, <1>5
<1> DEFINE u == TABLES_TO_CLEAR[i]
<1>7. u \in InUse /\ <<t, u>> \in References
  OBVIOUS
<1>8. k < i
  <2>1. CASE k = 6
    <3>1. t = "audit_logs"
      BY <1>1, <1>6, <2>1
    <3>2. u \in {"companies", "users"}
      BY <1>3, <1>7, <3>1
    <3> QED
      BY <1>1, <1>4, <2>1, <3>2
  <2>2. CASE k = 9
    <3>1. t = "sessions"
      BY <1>1, <1>6, <2>2
    <3>2. u \in {"companies", "branches", "users"}
      BY <1>3, <1>7, <3>1
    <3> QED
      BY <1>1, <1>4, <2>2, <3>2
  <2>3. CASE k = 11
    <3>1. t = "service_addresses"
      BY <1>1, <1>6, <2>3
    <3>2. u \in {"companies", "customers"}
      BY <1>3, <1>7, <3>1
    <3> QED
      BY <1>1, <1>4, <2>3, <3>2
  <2>4. CASE k = 12
    <3>1. t = "customers"
      BY <1>1, <1>6, <2>4
    <3>2. u \in {"companies", "branches"}
      BY <1>3, <1>7, <3>1
    <3> QED
      BY <1>1, <1>4, <2>4, <3>2
  <2>5. CASE k = 13
    <3>1. t = "technicians"
      BY <1>1, <1>6, <2>5
    <3>2. u \in {"companies", "branches", "users"}
      BY <1>3, <1>7, <3>1
    <3> QED
      BY <1>1, <1>4, <2>5, <3>2
  <2>6. CASE k = 14
    <3>1. t = "users"
      BY <1>1, <1>6, <2>6
    <3>2. u \in {"companies", "branches"}
      BY <1>3, <1>7, <3>1
    <3> QED
      BY <1>1, <1>4, <2>6, <3>2
  <2>7. CASE k = 15
    <3>1. t = "branches"
      BY <1>1, <1>6, <2>7
    <3>2. u = "companies"
      BY <1>3, <1>7, <3>1
    <3> QED
      BY <1>1, <1>4, <2>7, <3>2
  <2>8. CASE k = 16
    <3>1. t = "companies"
      BY <1>1, <1>6, <2>8
    <3>2. FALSE
      BY <1>3, <1>7, <3>1
    <3> QED
      BY <1>1, <1>4, <2>8, <3>2
  <2> QED
    BY <1>6, <2>1, <2>2, <2>3, <2>4, <2>5, <2>6, <2>7, <2>8
<1> QED
  BY <1>1, <1>4, <1>6, <1>8

Met(s) == tx[s].withSeed \/ tx[s].withWriter

ExplainedInv ==
    /\ SeedInv /\ ResetFailureIsExplained
    /\ \A r \in Rows : info[r].table \in InUse

\* The DELETE that a reference stops has met another program.
LEMMA RefusedHasMet ==
    ASSUME ExplainedInv, NEW s \in Seeds, NEW doomed,
           \/ /\ tx[s].pc = "clear"
              /\ doomed = Of(TABLES_TO_CLEAR[tx[s].at])
           \/ tx[s].pc = "wait",
           Children(s, doomed) # {}
    PROVE  Met(s)
<1> SUFFICES ASSUME ~ Met(s) PROVE FALSE
  OBVIOUS
<1>1. /\ SeedInv /\ Shape(s) /\ Clearing(s) /\ Alone(s) /\ live \subseteq Rows
      /\ IsRunning(s)
  BY DEF ExplainedInv, SeedInv, RowsInv, IsRunning, Running
<1>2. /\ tx[s].pc = "clear" /\ doomed = Of(TABLES_TO_CLEAR[tx[s].at])
      /\ tx[s].reset /\ tx[s].at \in 1..Last /\ live \subseteq tx[s].old
  BY <1>1 DEF Met, Shape, Alone
<1> DEFINE at == tx[s].at
           table == TABLES_TO_CLEAR[at]
<1>3. PICK c \in live \ (tx[s].gone \union doomed) :
         info[c].names \cap doomed # {}
  BY DEF Children
<1>4. PICK p \in doomed : p \in info[c].names
  BY <1>3
<1>5. info[p].table = table /\ p \in Rows
  BY <1>1, <1>2, <1>4 DEF Of
<1>6. /\ <<info[c].table, table>> \in References
      /\ info[c].table \in InUse /\ table \in InUse
  BY <1>1, <1>3, <1>4, <1>5 DEF SeedInv, RowsInv, ExplainedInv
<1>7. PICK j \in 1..(at - 1) : TABLES_TO_CLEAR[j] = info[c].table
  BY <1>2, <1>6, OrderFollowsReferences
<1> QED
  BY <1>1, <1>2, <1>3, <1>7 DEF Clearing

\* What a step of a seed does to the histories of that seed, once it has begun.
LEMMA FailHistories ==
    ASSUME SeedInv, NEW s \in Seeds, NEW why, Fail(s, why)
    PROVE  /\ tx'[s].why = why /\ (Met(s)' <=> Met(s))
           /\ \A o \in Seeds \ {s} : tx'[o] = tx[o]
           /\ UNCHANGED info
<1> DEFINE old == tx[s]
           t == [old EXCEPT !.pc = "failed", !.why = why, !.gone = {},
                            !.snapshot = {}]
<1>1. old \in TxRecord /\ tx \in [Seeds -> TxRecord]
  BY DEF SeedInv
<1>2. tx' = [tx EXCEPT ![s] = t] /\ UNCHANGED info
  BY DEF Fail
<1> HIDE DEF old
<1>3. t.why = why /\ t.withSeed = old.withSeed /\ t.withWriter = old.withWriter
  BY <1>1 DEF TxRecord
<1> HIDE DEF t
<1>4. tx'[s] = t /\ \A o \in Seeds \ {s} : tx'[o] = tx[o]
  BY <1>1, <1>2
<1> QED
  BY <1>2, <1>3, <1>4 DEF Met, old

\* A transaction that goes on keeps them.
LEMMA GoesOn ==
    ASSUME SeedInv, NEW s \in Seeds,
           \/ SeedCheck(s) /\ Of("companies") = {}
           \/ /\ tx[s].pc = "clear"
              /\ tx' = [tx EXCEPT ![s].pc = "wait",
                           ![s].snapshot = Of(TABLES_TO_CLEAR[tx[s].at])]
           \/ \E doomed : Children(s, doomed) = {} /\ Clear(s, doomed)
           \/ SeedInsert(s)
    PROVE  /\ tx'[s].why = tx[s].why /\ (Met(s)' <=> Met(s))
           /\ \A o \in Seeds \ {s} : tx'[o] = tx[o]
<1> DEFINE old == tx[s]
           Same(t) == /\ t.why = old.why /\ t.withSeed = old.withSeed
                      /\ t.withWriter = old.withWriter
<1>1. old \in TxRecord /\ tx \in [Seeds -> TxRecord]
  BY DEF SeedInv
<1>2. ASSUME NEW t, tx' = [tx EXCEPT ![s] = t], Same(t)
      PROVE  /\ tx'[s].why = tx[s].why /\ (Met(s)' <=> Met(s))
             /\ \A o \in Seeds \ {s} : tx'[o] = tx[o]
  BY <1>1, <1>2 DEF Met
<1>3. CASE SeedCheck(s) /\ Of("companies") = {}
  <2> DEFINE t == [old EXCEPT !.pc = "insert"]
  <2>1. tx' = [tx EXCEPT ![s] = t]
    BY <1>3 DEF SeedCheck
  <2> HIDE DEF old
  <2>2. Same(t)
    BY <1>1 DEF TxRecord
  <2> HIDE DEF t
  <2> QED
    BY <1>2, <2>1, <2>2 DEF old
<1>4. CASE /\ tx[s].pc = "clear"
           /\ tx' = [tx EXCEPT ![s].pc = "wait",
                        ![s].snapshot = Of(TABLES_TO_CLEAR[tx[s].at])]
  <2> DEFINE doomed == Of(TABLES_TO_CLEAR[tx[s].at])
             t == [old EXCEPT !.pc = "wait", !.snapshot = doomed]
  <2>1. tx' = [tx EXCEPT ![s] = t]
    BY <1>1, <1>4
  <2> HIDE DEF old, doomed
  <2>2. Same(t)
    BY <1>1 DEF TxRecord
  <2> HIDE DEF t
  <2> QED
    BY <1>2, <2>1, <2>2 DEF old
<1>5. ASSUME NEW doomed, Children(s, doomed) = {}, Clear(s, doomed)
      PROVE  /\ tx'[s].why = tx[s].why /\ (Met(s)' <=> Met(s))
             /\ \A o \in Seeds \ {s} : tx'[o] = tx[o]
  <2> DEFINE gone == old.gone \union doomed
             at == old.at + 1
             pc == IF old.at = Len(TABLES_TO_CLEAR) THEN "insert" ELSE "clear"
             t == [old EXCEPT !.gone = gone, !.snapshot = {}, !.at = at,
                              !.pc = pc]
  <2>1. tx' = [tx EXCEPT ![s] = t]
    BY <1>5 DEF Clear
  <2> HIDE DEF old, gone, at, pc
  <2>2. Same(t)
    BY <1>1 DEF TxRecord
  <2> HIDE DEF t
  <2> QED
    BY <1>2, <2>1, <2>2 DEF old
<1>6. CASE SeedInsert(s)
  <2> DEFINE new == Len(info) + 1 .. Len(info) + 8
             t == [old EXCEPT !.pc = "done", !.gone = {}, !.own = new]
  <2>1. tx' = [tx EXCEPT ![s] = t]
    BY <1>6 DEF SeedInsert
  <2> HIDE DEF old, new
  <2>2. Same(t)
    BY <1>1 DEF TxRecord
  <2> HIDE DEF t
  <2> QED
    BY <1>2, <2>1, <2>2 DEF old
<1> QED
  BY <1>3, <1>4, <1>5, <1>6

\* The rows of a pilot are of tables in use.
LEMMA InUseStays ==
    ASSUME ExplainedInv, NEW s \in Seeds, SeedInsert(s)
    PROVE  \A r \in Rows' : info'[r].table \in InUse
<1> DEFINE n == Len(info)
           pilot == Pilot(n)
<1>1. /\ info \in Seq(RowRecord) /\ n \in Nat /\ Rows = 1..n
      /\ info' = info \o pilot
  BY DEF ExplainedInv, SeedInv, RowsInv, Rows, SeedInsert
<1>2. /\ pilot \in Seq(RowRecord) /\ Len(pilot) = 8
      /\ \A i \in 1..8 : pilot[i].table \in InUse
  BY <1>1, PilotFacts DEF InUse
<1> HIDE DEF pilot
<1> DEFINE both == info \o pilot
<1>3. /\ both \in Seq(RowRecord) /\ Len(both) = Len(info) + Len(pilot)
      /\ \A r \in 1..(Len(info) + Len(pilot)) :
            both[r] = IF r <= Len(info) THEN info[r] ELSE pilot[r - Len(info)]
  BY <1>1, <1>2, ConcatProperties
<1>4. Rows' = 1..(n + 8) /\ info' = both
  BY <1>1, <1>2, <1>3 DEF Rows
<1> HIDE DEF both
<1>5. \A r \in 1..(n + 8) : both[r] = IF r <= n THEN info[r] ELSE pilot[r - n]
  BY <1>1, <1>2, <1>3
<1> HIDE DEF n
<1>6. ASSUME NEW r \in 1..(n + 8)
      PROVE  both[r].table \in InUse
  <2>1. CASE r <= n
    BY <1>1, <1>5, <2>1 DEF ExplainedInv
  <2>2. CASE ~ (r <= n)
    <3>1. r - n \in 1..8
      BY <1>1, <2>2
    <3>2. both[r] = pilot[r - n]
      BY <1>1, <1>5, <2>2
    <3> QED
      BY <1>2, <3>1, <3>2
  <2> QED
    BY <2>1, <2>2
<1> QED
  BY <1>4, <1>6

\* The tables in use are those that the seed and the routes of the API insert
\* into: the users, their sessions and the audit trail, and what a branch has.
LEMMA NextExplained ==
    ASSUME Written \subseteq InUse, ExplainedInv, [Next]_vars
    PROVE  ExplainedInv'
<1>1. SeedInv /\ SeedInv'
  BY NextSeed DEF ExplainedInv
<1>2. ASSUME NEW s \in Seeds,
             tx'[s].why = "reference" => tx[s].why = "reference" \/ Met(s),
             Met(s) => Met(s)',
             \A o \in Seeds \ {s} : tx'[o] = tx[o],
             \A r \in Rows' : info'[r].table \in InUse
      PROVE  ExplainedInv'
  BY <1>1, <1>2 DEF ExplainedInv, ResetFailureIsExplained, Met
<1>3. \A r \in Rows : info[r].table \in InUse
  BY DEF ExplainedInv
<1>4. ASSUME NEW s \in Seeds, NEW why \in {"exists", "abort", "reference"},
             Fail(s, why), why = "reference" => Met(s)
      PROVE  ExplainedInv'
  <2>1. /\ tx'[s].why = why /\ (Met(s)' <=> Met(s))
        /\ \A o \in Seeds \ {s} : tx'[o] = tx[o]
        /\ UNCHANGED info
    BY <1>1, <1>4, FailHistories
  <2> QED
    BY <1>2, <1>3, <1>4, <2>1 DEF Rows
<1>5. ASSUME NEW s \in Seeds, SeedCheck(s)
      PROVE  ExplainedInv'
  <2>1. CASE Of("companies") # {}
    BY <1>4, <1>5, <2>1 DEF SeedCheck
  <2>2. CASE Of("companies") = {}
    <3>1. UNCHANGED info
      BY <1>5, <2>2 DEF SeedCheck
    <3> QED
      BY <1>1, <1>2, <1>3, <1>5, <2>2, <3>1, GoesOn DEF Rows
  <2> QED
    BY <2>1, <2>2
<1>6. ASSUME NEW s \in Seeds, NEW doomed, Clear(s, doomed),
             \/ /\ tx[s].pc = "clear"
                /\ doomed = Of(TABLES_TO_CLEAR[tx[s].at])
             \/ tx[s].pc = "wait"
      PROVE  ExplainedInv'
  <2>1. CASE Children(s, doomed) # {}
    BY <1>4, <1>6, <2>1, RefusedHasMet DEF Clear
  <2>2. CASE Children(s, doomed) = {}
    <3>1. UNCHANGED info
      BY <1>6, <2>2 DEF Clear
    <3> QED
      BY <1>1, <1>2, <1>3, <1>6, <2>2, <3>1, GoesOn DEF Rows
  <2> QED
    BY <2>1, <2>2
<1>7. ASSUME NEW s \in Seeds, DeleteTable(s)
      PROVE  ExplainedInv'
  <2> DEFINE doomed == Of(TABLES_TO_CLEAR[tx[s].at])
  <2>1. CASE Blocked(s, doomed)
    <3>1. /\ tx[s].pc = "clear" /\ UNCHANGED info
          /\ tx' = [tx EXCEPT ![s].pc = "wait", ![s].snapshot = doomed]
      BY <1>7, <2>1 DEF DeleteTable
    <3> QED
      BY <1>1, <1>2, <1>3, <3>1, GoesOn DEF Rows
  <2>2. CASE ~ Blocked(s, doomed)
    BY <1>6, <1>7, <2>2 DEF DeleteTable
  <2> QED
    BY <2>1, <2>2
<1>8. ASSUME NEW s \in Seeds, SeedInsert(s)
      PROVE  ExplainedInv'
  BY <1>1, <1>2, <1>8, GoesOn, InUseStays
<1>9. ASSUME NEW s \in Seeds, SeedBegin(s)
      PROVE  ExplainedInv'
  <2> DEFINE others == {o \in Seeds : IsRunning(o)}
             met == others # {}
  <2>1. PICK reset \in BOOLEAN :
           tx' = [o \in Seeds |->
                    IF o = s
                    THEN [NoTx EXCEPT !.pc = IF reset THEN "clear" ELSE "check",
                                      !.reset = reset, !.old = live,
                                      !.withSeed = met]
                    ELSE IF o \in others THEN [tx[o] EXCEPT !.withSeed = TRUE]
                    ELSE tx[o]]
    BY <1>9 DEF SeedBegin
  <2>2. UNCHANGED info
    BY <1>9 DEF SeedBegin
  <2>3. tx'[s].why = "none"
    <3> DEFINE pc == IF reset THEN "clear" ELSE "check"
               t == [NoTx EXCEPT !.pc = pc, !.reset = reset, !.old = live,
                                 !.withSeed = met]
    <3>1. tx'[s] = t /\ NoTx.why = "none"
      BY <2>1 DEF NoTx
    <3> HIDE DEF pc, met
    <3>2. t.why = NoTx.why
      BY NoTxType DEF TxRecord
    <3> QED
      BY <3>1, <3>2
  <2>4. ASSUME NEW o \in Seeds \ {s}
        PROVE  tx'[o].why = tx[o].why /\ (Met(o) => Met(o)')
    <3>1. tx[o] \in TxRecord
      BY <1>1 DEF SeedInv
    <3>2. CASE o \in others
      <4>1. tx'[o] = [tx[o] EXCEPT !.withSeed = TRUE]
        BY <2>1, <3>2
      <4> QED
        BY <3>1, <4>1 DEF TxRecord, Met
    <3>3. CASE o \notin others
      <4>1. tx'[o] = tx[o]
        BY <2>1, <3>3
      <4> QED
        BY <4>1 DEF Met
    <3> QED
      BY <3>2, <3>3
  <2> QED
    BY <1>1, <1>3, <2>2, <2>3, <2>4
       DEF ExplainedInv, ResetFailureIsExplained, Met, Rows
<1>10. ASSUME NEW t \in Written, Write(t)
       PROVE  ExplainedInv'
  <2>1. tx' = [s \in Seeds |-> IF IsRunning(s)
                               THEN [tx[s] EXCEPT !.withWriter = TRUE]
                               ELSE tx[s]]
    BY <1>10 DEF Write
  <2>2. ASSUME NEW o \in Seeds
        PROVE  tx'[o].why = tx[o].why /\ (Met(o) => Met(o)')
    <3>1. tx[o] \in TxRecord
      BY <1>1 DEF SeedInv
    <3>2. CASE IsRunning(o)
      <4>1. tx'[o] = [tx[o] EXCEPT !.withWriter = TRUE]
        BY <2>1, <3>2
      <4> QED
        BY <3>1, <4>1 DEF TxRecord, Met
    <3>3. CASE ~ IsRunning(o)
      <4>1. tx'[o] = tx[o]
        BY <2>1, <3>3
      <4> QED
        BY <4>1 DEF Met
    <3> QED
      BY <3>2, <3>3
  <2>3. PICK names : info' = Append(info, [table |-> t, names |-> names])
    BY <1>10 DEF Write
  <2>4. \A r \in Rows' : info'[r].table \in InUse
    <3> DEFINE row == [table |-> t, names |-> names]
    <3>1. row.table = t /\ info' = Append(info, row)
      BY <2>3
    <3> HIDE DEF row
    <3>2. /\ info \in Seq(RowRecord) /\ info' \in Seq(RowRecord)
      BY <1>1 DEF SeedInv, RowsInv
    <3>3. /\ Rows = 1..Len(info) /\ Rows' = 1..(Len(info) + 1)
          /\ \A r \in Rows : info'[r] = info[r]
          /\ info'[Len(info) + 1] = row /\ Len(info) \in Nat
      BY <3>1, <3>2 DEF Rows
    <3>4. t \in InUse
      BY <1>10
    <3> QED
      BY <1>3, <3>1, <3>3, <3>4
  <2> QED
    BY <1>1, <2>2, <2>4 DEF ExplainedInv, ResetFailureIsExplained, Met
<1>11. ASSUME UNCHANGED vars
       PROVE  ExplainedInv'
  BY <1>1, <1>3, <1>11
     DEF vars, ExplainedInv, ResetFailureIsExplained, Rows
<1>12. ASSUME NEW s \in Seeds, Resume(s)
       PROVE  ExplainedInv'
  BY <1>6, <1>12 DEF Resume
<1>13. ASSUME NEW s \in Seeds, Abort(s)
       PROVE  ExplainedInv'
  BY <1>4, <1>13 DEF Abort
<1> QED
  BY <1>5, <1>7, <1>8, <1>9, <1>10, <1>11, <1>12, <1>13 DEF Next

\* While programs insert only into the tables that they insert into at this
\* commit, a foreign key stops a reset only when it met another seed or an
\* insertion.
THEOREM ResetFailureExplained ==
    ASSUME Written \subseteq InUse
    PROVE  Spec => []ResetFailureIsExplained
<1>1. Init => ExplainedInv
  <2> SUFFICES ASSUME Init PROVE ExplainedInv
    OBVIOUS
  <2>1. SeedInv
    BY InitSeed
  <2>2. ResetFailureIsExplained
    BY DEF Init, ResetFailureIsExplained, NoTx
  <2>3. \A r \in Rows : info[r].table \in InUse
    <3>1. CASE info = <<>>
      BY <3>1 DEF Rows
    <3>2. CASE info = Pilot(0)
      <4>1. Rows = 1..8
        BY <3>2, PilotFacts DEF Rows
      <4> QED
        BY <3>2, <4>1, PilotFacts DEF InUse
    <3> QED
      BY <3>1, <3>2 DEF Init
  <2> QED
    BY <2>1, <2>2, <2>3 DEF ExplainedInv
<1>2. ExplainedInv /\ [Next]_vars => ExplainedInv'
  BY NextExplained
<1>3. ExplainedInv => ResetFailureIsExplained
  BY DEF ExplainedInv
<1> QED
  BY <1>1, <1>2, <1>3, PTL DEF Spec

=============================================================================
