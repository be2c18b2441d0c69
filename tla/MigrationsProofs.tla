-------------------------- MODULE MigrationsProofs --------------------------
(***************************************************************************)
(* Proofs about the migration gate and the migration tools.                *)
(***************************************************************************)
EXTENDS Migrations, SequenceTheorems, TLAPS

-----------------------------------------------------------------------------
(* Sequences.                                                              *)

LEMMA FunctionIsSeq ==
    ASSUME NEW S, NEW n \in Nat, NEW f \in [1..n -> S]
    PROVE  f \in Seq(S) /\ Len(f) = n /\ DOMAIN f = 1..n
  OBVIOUS

\* A sequence that agrees with the front of another is a prefix of it.
LEMMA PrefixByPositions ==
    ASSUME NEW S, NEW e \in Seq(S), NEW a \in Seq(S), Len(a) <= Len(e),
           \A i \in 1..Len(a) : a[i] = e[i]
    PROVE  a = SubSeq(e, 1, Len(a))
  <1>1. Len(a) \in Nat /\ Len(e) \in Nat
    BY LenProperties
  <1>2. \A i \in 1..Len(a) : e[i] \in S
    BY <1>1, ElementOfSeq
  <1>3. /\ SubSeq(e, 1, Len(a)) \in Seq(S)
        /\ Len(SubSeq(e, 1, Len(a))) = Len(a)
        /\ \A i \in 1..Len(a) : SubSeq(e, 1, Len(a))[i] = e[i]
    BY <1>1, <1>2, SubSeqProperties
  <1> QED BY <1>3, SeqEqual

-----------------------------------------------------------------------------
(* The gate.                                                               *)

\* compareMigrations (migrate-check.ts) accepts a history exactly when it is the
\* journal and names no migration twice, whatever the two lists are.
THEOREM UpToDateMeansEqual ==
    ASSUME NEW S, NEW e \in Seq(S), NEW a \in Seq(S)
    PROVE  UpToDate(e, a) <=> a = e /\ ~HasDuplicates(a)
  <1>0. /\ DOMAIN a = 1..Len(a) /\ Len(a) \in Nat
        /\ DOMAIN e = 1..Len(e) /\ Len(e) \in Nat
    BY LenProperties
  <1>1. UpToDate(e, a) <=> /\ Len(a) = Len(e)
                           /\ ~Mismatches(e, a)
                           /\ ~HasDuplicates(a)
                           /\ ~HasUnknown(e, a)
    BY DEF UpToDate, CompareIssues, Issue
  <1>2. ASSUME Len(a) = Len(e), ~Mismatches(e, a)
        PROVE  a = e
    <2>1. \A i \in 1..Len(a) : a[i] = e[i]
      BY <1>0, <1>2 DEF Mismatches
    <2> QED BY <1>2, <2>1, SeqEqual
  <1>3. ASSUME a = e
        PROVE  Len(a) = Len(e) /\ ~Mismatches(e, a) /\ ~HasUnknown(e, a)
    BY <1>3 DEF Mismatches, HasUnknown
  <1> QED BY <1>1, <1>2, <1>3

\* validateAppliedPrefix (migrate-check.ts) accepts a history exactly when it is
\* a prefix of the journal and names no migration twice.
THEOREM ValidMeansPrefix ==
    ASSUME NEW S, NEW e \in Seq(S), NEW a \in Seq(S)
    PROVE  ValidPrefix(e, a) <=> /\ Len(a) <= Len(e)
                                 /\ a = SubSeq(e, 1, Len(a))
                                 /\ ~HasDuplicates(a)
  <1>0. /\ DOMAIN a = 1..Len(a) /\ Len(a) \in Nat
        /\ DOMAIN e = 1..Len(e) /\ Len(e) \in Nat
    BY LenProperties
  <1>1. ValidPrefix(e, a) <=> /\ ~(Len(a) > Len(e))
                              /\ ~Mismatches(e, a)
                              /\ ~HasDuplicates(a)
                              /\ ~HasUnknown(e, a)
    BY DEF ValidPrefix, PrefixIssues, Issue
  <1>2. ASSUME Len(a) <= Len(e), ~Mismatches(e, a)
        PROVE  a = SubSeq(e, 1, Len(a))
    <2>1. \A i \in 1..Len(a) : a[i] = e[i]
      BY <1>0, <1>2 DEF Mismatches
    <2> QED BY <1>2, <2>1, PrefixByPositions
  <1>3. ASSUME Len(a) <= Len(e), a = SubSeq(e, 1, Len(a))
        PROVE  ~Mismatches(e, a) /\ ~HasUnknown(e, a)
    <2>1. \A i \in 1..Len(a) : e[i] \in S
      BY <1>0, <1>3, ElementOfSeq
    <2>2. \A i \in 1..Len(a) : SubSeq(e, 1, Len(a))[i] = e[i]
      BY <1>0, <2>1, SubSeqProperties
    <2>3. \A i \in 1..Len(a) : a[i] = e[i]
      BY <1>3, <2>2
    <2> QED BY <1>0, <1>3, <2>3 DEF Mismatches, HasUnknown
  <1> QED BY <1>0, <1>1, <1>2, <1>3

-----------------------------------------------------------------------------
(* Journals, rows and their hashes.                                        *)

LEMMA HashesOfTyped ==
    ASSUME NEW R, NEW rows \in Seq(R), \A x \in R : x.hash \in Hashes
    PROVE  /\ HashesOf(rows) \in Seq(Hashes)
           /\ Len(HashesOf(rows)) = Len(rows)
           /\ Len(rows) \in Nat
           /\ DOMAIN rows = 1..Len(rows)
           /\ \A i \in 1..Len(rows) : HashesOf(rows)[i] = rows[i].hash
  <1>1. Len(rows) \in Nat /\ DOMAIN rows = 1..Len(rows)
    BY LenProperties
  <1>2. \A i \in 1..Len(rows) : rows[i] \in R
    BY <1>1, ElementOfSeq
  <1>3. HashesOf(rows) \in [1..Len(rows) -> Hashes]
    BY <1>2 DEF HashesOf
  <1>4. \A i \in 1..Len(rows) : HashesOf(rows)[i] = rows[i].hash
    BY DEF HashesOf
  <1> QED BY <1>1, <1>3, <1>4, FunctionIsSeq

LEMMA JournalHashes ==
    ASSUME NEW j \in Journals
    PROVE  /\ HashesOf(j) \in Seq(Hashes)
           /\ Len(HashesOf(j)) = Len(j)
           /\ Len(j) \in Nat
           /\ DOMAIN j = 1..Len(j)
           /\ \A i \in 1..Len(j) : j[i] \in Entry
  <1>1. j \in Seq(Entry)
    BY MigrationsAssumption
  <1>2. \A x \in Entry : x.hash \in Hashes
    BY DEF Entry
  <1> QED BY <1>1, <1>2, HashesOfTyped, ElementOfSeq

LEMMA TableHashes ==
    ASSUME NEW rows \in Seq(Row)
    PROVE  /\ HashesOf(rows) \in Seq(Hashes)
           /\ Len(HashesOf(rows)) = Len(rows)
           /\ Len(rows) \in Nat
           /\ DOMAIN rows = 1..Len(rows)
           /\ \A i \in 1..Len(rows) : /\ HashesOf(rows)[i] = rows[i].hash
                                      /\ rows[i] \in Row
  <1>1. \A x \in Row : x.hash \in Hashes
    BY DEF Row
  <1> QED BY <1>1, HashesOfTyped, ElementOfSeq

\* What a migration transaction adds: new rows with fresh ids, and the same
\* hashes at the end of the schema.
LEMMA AppliesAppends ==
    ASSUME TypeOK, NEW j \in Journals, NEW k \in 0..Len(j), Applies(j, k)
    PROVE  \E new \in Seq(Hashes), rows \in Seq(Row) :
              /\ Len(new) = Len(j) - k
              /\ Len(rows) = Len(new)
              /\ schema' = schema \o new
              /\ table' = table \o rows
              /\ nextId' = nextId + Len(new)
              /\ \A i \in 1..Len(new) : /\ rows[i].hash = new[i]
                                        /\ rows[i].id = nextId + i - 1
  <1> DEFINE n == Len(j) - k
             new == [i \in 1..n |-> j[k + i].hash]
             rows == [i \in 1..n |-> [id   |-> nextId + i - 1,
                                      hash |-> new[i],
                                      when |-> j[k + i].when]]
  <1>1. Len(j) \in Nat /\ \A i \in 1..Len(j) : j[i] \in Entry
    BY JournalHashes
  <1>2. n \in Nat /\ \A i \in 1..n : k + i \in 1..Len(j)
    BY <1>1
  <1>3. \A i \in 1..n : j[k + i].hash \in Hashes /\ j[k + i].when \in Nat \ {0}
    BY <1>1, <1>2 DEF Entry
  <1>4. new \in [1..n -> Hashes]
    BY <1>3
  <1>5. new \in Seq(Hashes) /\ Len(new) = n
    BY <1>2, <1>4, FunctionIsSeq
  <1>6. nextId \in Nat
    BY DEF TypeOK
  <1>7. \A i \in 1..n : rows[i] \in Row
    <2> TAKE i \in 1..n
    <2>1. nextId + i - 1 \in Nat
      BY <1>2, <1>6
    <2>2. new[i] \in Hashes /\ j[k + i].when \in Nat \ {0}
      BY <1>3
    <2>3. rows[i] = [id |-> nextId + i - 1, hash |-> new[i], when |-> j[k + i].when]
      OBVIOUS
    <2> HIDE DEF new, rows, n
    <2> QED BY <2>1, <2>2, <2>3 DEF Row
  <1>8. rows \in [1..n -> Row]
    BY <1>7
  <1>9. rows \in Seq(Row) /\ Len(rows) = n
    BY <1>2, <1>8, FunctionIsSeq
  <1>10. schema' = schema \o new /\ table' = table \o rows /\ nextId' = nextId + n
    BY DEF Applies
  <1>11. \A i \in 1..n : rows[i].hash = new[i] /\ rows[i].id = nextId + i - 1
    OBVIOUS
  <1> HIDE DEF new, rows
  <1> QED BY <1>5, <1>9, <1>10, <1>11

\* Deleting the row at position i.
LEMMA CutTyped ==
    ASSUME NEW S, NEW rows \in Seq(S), NEW i \in 1..Len(rows)
    PROVE  LET cut == SubSeq(rows, 1, i - 1) \o SubSeq(rows, i + 1, Len(rows)) IN
           /\ cut \in Seq(S)
           /\ Len(cut) = Len(rows) - 1
           /\ \A p \in 1..Len(cut) : cut[p] = rows[IF p < i THEN p ELSE p + 1]
  <1> DEFINE front == SubSeq(rows, 1, i - 1)
             back == SubSeq(rows, i + 1, Len(rows))
  <1>1. Len(rows) \in Nat /\ \A p \in 1..Len(rows) : rows[p] \in S
    BY LenProperties, ElementOfSeq
  <1>2. /\ front \in Seq(S)
        /\ Len(front) = i - 1
        /\ \A p \in 1..(i - 1) : front[p] = rows[p]
    <2>1. \A p \in 1..(i - 1) : rows[p] \in S
      BY <1>1
    <2> QED BY <1>1, <2>1, SubSeqProperties
  <1>3. /\ back \in Seq(S)
        /\ Len(back) = Len(rows) - i
        /\ \A p \in 1..(Len(rows) - i) : back[p] = rows[i + p]
    <2>1. \A p \in (i + 1)..Len(rows) : rows[p] \in S
      BY <1>1
    <2>2. /\ back \in Seq(S)
          /\ Len(back) = IF i + 1 <= Len(rows) THEN Len(rows) - (i + 1) + 1 ELSE 0
          /\ \A p \in 1..(Len(rows) - (i + 1) + 1) : back[p] = rows[i + 1 + p - 1]
      BY <1>1, <2>1, SubSeqProperties
    <2> HIDE DEF back
    <2> QED BY <1>1, <2>2
  <1> HIDE DEF front, back
  <1>4. /\ front \o back \in Seq(S)
        /\ Len(front \o back) = Len(rows) - 1
        /\ \A p \in 1..(Len(rows) - 1) :
              (front \o back)[p] = IF p <= i - 1 THEN front[p] ELSE back[p - (i - 1)]
    <2>1. Len(front) + Len(back) = Len(rows) - 1
      BY <1>1, <1>2, <1>3
    <2>2. /\ front \o back \in Seq(S)
          /\ Len(front \o back) = Len(front) + Len(back)
          /\ \A p \in 1..(Len(front) + Len(back)) :
                (front \o back)[p] =
                    IF p <= Len(front) THEN front[p] ELSE back[p - Len(front)]
      BY <1>2, <1>3, ConcatProperties
    <2> QED BY <1>2, <2>1, <2>2
  <1>5. \A p \in 1..(Len(rows) - 1) :
           (front \o back)[p] = rows[IF p < i THEN p ELSE p + 1]
    <2> TAKE p \in 1..(Len(rows) - 1)
    <2>1. CASE p < i
      BY <1>1, <1>2, <1>4, <2>1
    <2>2. CASE ~(p < i)
      <3>1. p - (i - 1) \in 1..(Len(rows) - i) /\ i + (p - (i - 1)) = p + 1
        BY <1>1, <2>2
      <3>2. (front \o back)[p] = back[p - (i - 1)]
        BY <1>1, <1>4, <2>2
      <3> QED BY <1>3, <2>2, <3>1, <3>2
    <2> QED BY <2>1, <2>2
  <1> QED BY <1>4, <1>5 DEF front, back

\* A deletion by id removes the row at some position, or nothing.
LEMMA WithoutCases ==
    ASSUME NEW rows \in Seq(Row), NEW id
    PROVE  \/ Without(rows, id) = rows
           \/ \E i \in 1..Len(rows) :
                 /\ rows[i].id = id
                 /\ Without(rows, id) = SubSeq(rows, 1, i - 1)
                                          \o SubSeq(rows, i + 1, Len(rows))
  <1>1. DOMAIN rows = 1..Len(rows)
    BY LenProperties
  <1>2. CASE \E i \in DOMAIN rows : rows[i].id = id
    <2> DEFINE i == CHOOSE i \in DOMAIN rows : rows[i].id = id
    <2>1. i \in 1..Len(rows) /\ rows[i].id = id
      BY <1>1, <1>2
    <2>2. Without(rows, id) = SubSeq(rows, 1, i - 1) \o SubSeq(rows, i + 1, Len(rows))
      BY <1>2 DEF Without
    <2> QED BY <2>1, <2>2
  <1>3. CASE ~\E i \in DOMAIN rows : rows[i].id = id
    BY <1>3 DEF Without
  <1> QED BY <1>2, <1>3

-----------------------------------------------------------------------------
(* Types.                                                                  *)

Locals == [pc : PCs, plan : Seq(Hashes), seen : Seq(Row), last : Nat]

LEMMA BecomeTyped ==
    ASSUME TypeOK, NEW r \in Runners, NEW state \in Locals, Become(r, state)
    PROVE  /\ runner' \in [Runners -> Locals]
           /\ runner'[r] = state
           /\ \A q \in Runners : q # r => runner'[q] = runner[q]
  <1>1. runner \in [Runners -> Locals]
    BY DEF TypeOK, Locals
  <1> QED BY <1>1 DEF Become

LEMMA IdleTyped == Idle \in Locals
  <1>1. <<>> \in Seq(Hashes) /\ <<>> \in Seq(Row)
    OBVIOUS
  <1> QED BY <1>1 DEF Idle, Locals, PCs

\* Each step leaves the database alone or changes it in one transaction, and
\* writes at most the locals of its own runner.  The steps are told apart by
\* what the theorems need to know of them.
MigratesAs(r, new, rows) ==
    /\ runner[r].pc = "migrateRun"
    /\ runner'[r] = Idle
    /\ Len(rows) = Len(new)
    /\ Len(new) \in Nat
    /\ schema' = schema \o new
    /\ table' = table \o rows
    /\ nextId' = nextId + Len(new)
    /\ \A i \in 1..Len(new) : rows[i].hash = new[i] /\ rows[i].id = nextId + i - 1

RollsBack(r) ==
    /\ runner[r].pc = "rollbackRun"
    /\ runner'[r] = Idle
    /\ schema' = Reverted(Target(runner[r].plan, runner[r].seen).hash, schema)
    /\ schema' \in Schemas
    /\ table' = Without(table, Target(runner[r].plan, runner[r].seen).id)
    /\ nextId' = nextId

LooksAround(r) ==
    /\ UNCHANGED <<table, nextId, schema>>
    /\ \/ runner'[r].pc # "rollbackRun"
       \/ runner'[r] = runner[r]
       \/ /\ runner[r].pc = "rollbackTable"
          /\ runner'[r].seen = table
          /\ runner'[r].plan = runner[r].plan
          /\ table # <<>>
          /\ ValidPrefix(runner[r].plan, HashesOf(table))

LEMMA StepCases ==
    ASSUME TypeOK, NEW r \in Runners, Step(r)
    PROVE  /\ tree' \in [Runners -> Journals]
           /\ runner' \in [Runners -> Locals]
           /\ \A q \in Runners : q # r => runner'[q] = runner[q]
           /\ \/ \E new \in Seq(Hashes), rows \in Seq(Row) : MigratesAs(r, new, rows)
              \/ RollsBack(r)
              \/ LooksAround(r)
  <1>0. /\ tree \in [Runners -> Journals]
        /\ runner \in [Runners -> Locals]
        /\ runner[r] \in Locals
        /\ table \in Seq(Row)
    BY DEF TypeOK, Locals
  <1>1. ASSUME NEW journal \in Journals, Checkout(r, journal)
        PROVE  tree' \in [Runners -> Journals] /\ LooksAround(r)
                 /\ UNCHANGED runner
    BY <1>0, <1>1 DEF Checkout, LooksAround
  <1>2. ASSUME MigrateRead(r)
        PROVE  \E state \in Locals : Become(r, state) /\ state.pc # "rollbackRun"
                 /\ UNCHANGED <<tree, table, nextId, schema>>
    <2>1. PICK last \in {0} \union {table[i].when : i \in DOMAIN table} :
              Become(r, [Idle EXCEPT !.pc = "migrateRun", !.last = last])
      BY <1>2 DEF MigrateRead
    <2>2. last \in Nat
      <3>1. \A i \in DOMAIN table : table[i] \in Row
        BY <1>0, TableHashes
      <3> QED BY <3>1 DEF Row
    <2>3. [Idle EXCEPT !.pc = "migrateRun", !.last = last] \in Locals
      BY <2>2, IdleTyped DEF Locals, PCs
    <2>4. [Idle EXCEPT !.pc = "migrateRun", !.last = last].pc = "migrateRun"
      BY DEF Idle
    <2> QED BY <1>2, <2>1, <2>3, <2>4 DEF MigrateRead
  <1>3. ASSUME MigrateRun(r)
        PROVE  /\ Become(r, Idle)
               /\ UNCHANGED tree
               /\ runner[r].pc = "migrateRun"
               /\ \E k \in 0..Len(tree[r]) : Applies(tree[r], k)
    BY <1>3 DEF MigrateRun
  <1>4. ASSUME RollbackReadJournal(r)
        PROVE  \E state \in Locals : Become(r, state) /\ state.pc # "rollbackRun"
                 /\ UNCHANGED <<tree, table, nextId, schema>>
    <2> DEFINE state == [Idle EXCEPT !.pc = "rollbackTable",
                                     !.plan = HashesOf(tree[r])]
    <2>1. HashesOf(tree[r]) \in Seq(Hashes)
      BY <1>0, JournalHashes
    <2>2. state \in Locals
      BY <2>1, IdleTyped DEF Locals, PCs
    <2>3. state.pc = "rollbackTable"
      BY DEF Idle
    <2> QED BY <1>4, <2>2, <2>3 DEF RollbackReadJournal
  <1>5. ASSUME RollbackReadTable(r)
        PROVE  /\ UNCHANGED <<tree, table, nextId, schema>>
               /\ \/ Become(r, Idle)
                  \/ \E state \in Locals :
                        /\ Become(r, state)
                        /\ runner[r].pc = "rollbackTable"
                        /\ state.seen = table
                        /\ state.plan = runner[r].plan
                        /\ table # <<>>
                        /\ ValidPrefix(runner[r].plan, HashesOf(table))
    <2> DEFINE state == [runner[r] EXCEPT !.pc = "rollbackRun", !.seen = table]
    <2>1. state \in Locals /\ state.seen = table /\ state.plan = runner[r].plan
      BY <1>0 DEF Locals, PCs
    <2> HIDE DEF state
    <2>2. \/ Become(r, Idle)
          \/ /\ Become(r, state)
             /\ table # <<>>
             /\ ValidPrefix(runner[r].plan, HashesOf(table))
      BY <1>5 DEF RollbackReadTable, state
    <2> QED BY <1>5, <2>1, <2>2 DEF RollbackReadTable
  <1>6. ASSUME RollbackRun(r)
        PROVE  Become(r, Idle) /\ UNCHANGED tree
    BY <1>6 DEF RollbackRun
  <1>7. ASSUME Fail(r)
        PROVE  Become(r, Idle) /\ UNCHANGED <<tree, table, nextId, schema>>
    BY <1>7 DEF Fail
  <1>8. Idle.pc # "rollbackRun"
    BY DEF Idle
  <1>9. CASE \E journal \in Journals : Checkout(r, journal)
    BY <1>0, <1>1, <1>9
  <1>10. CASE MigrateRead(r) \/ RollbackReadJournal(r)
    BY <1>0, <1>2, <1>4, <1>10, BecomeTyped DEF LooksAround
  <1>11. CASE MigrateRun(r)
    <2>1. PICK k \in 0..Len(tree[r]) : Applies(tree[r], k)
      BY <1>3, <1>11
    <2>2. tree[r] \in Journals
      BY <1>0
    <2>3. PICK new \in Seq(Hashes), rows \in Seq(Row) :
              /\ Len(rows) = Len(new)
              /\ schema' = schema \o new
              /\ table' = table \o rows
              /\ nextId' = nextId + Len(new)
              /\ \A i \in 1..Len(new) : /\ rows[i].hash = new[i]
                                        /\ rows[i].id = nextId + i - 1
      BY <2>1, <2>2, AppliesAppends
    <2>4. runner' \in [Runners -> Locals] /\ runner'[r] = Idle
            /\ \A q \in Runners : q # r => runner'[q] = runner[q]
      BY <1>3, <1>11, BecomeTyped, IdleTyped
    <2>5. Len(new) \in Nat
      BY LenProperties
    <2>6. MigratesAs(r, new, rows)
      BY <1>3, <1>11, <2>3, <2>4, <2>5 DEF MigratesAs
    <2> QED BY <1>0, <1>3, <1>11, <2>4, <2>6
  <1>12. CASE RollbackReadTable(r)
    BY <1>0, <1>5, <1>8, <1>12, BecomeTyped, IdleTyped DEF LooksAround
  <1>13. CASE RollbackRun(r)
    <2>1. runner' \in [Runners -> Locals] /\ runner'[r] = Idle
            /\ \A q \in Runners : q # r => runner'[q] = runner[q]
      BY <1>6, <1>13, BecomeTyped, IdleTyped
    <2>2. RollsBack(r)
      BY <1>13, <2>1 DEF RollbackRun, RollsBack
    <2> QED BY <1>0, <1>6, <1>13, <2>1, <2>2
  <1>14. CASE Fail(r)
    BY <1>0, <1>7, <1>8, <1>14, BecomeTyped, IdleTyped DEF LooksAround
  <1> QED BY <1>9, <1>10, <1>11, <1>12, <1>13, <1>14 DEF Step

LEMMA TypedInitially == Init => TypeOK
  <1> SUFFICES ASSUME Init PROVE TypeOK
    OBVIOUS
  <1>1. <<>> \in Seq(Row) /\ <<>> \in Seq(Hashes)
    OBVIOUS
  <1>2. runner \in [Runners -> Locals]
    BY IdleTyped DEF Init
  <1> QED BY <1>1, <1>2 DEF Init, TypeOK, Schemas, Locals

LEMMA TypedByStep ==
    ASSUME TypeOK, NEW r \in Runners, Step(r)
    PROVE  TypeOK'
  <1>0. table \in Seq(Row) /\ nextId \in Nat /\ schema \in Seq(Hashes)
    BY DEF TypeOK, Schemas
  <1>1. tree' \in [Runners -> Journals] /\ runner' \in [Runners -> Locals]
    BY StepCases
  <1>2. table' \in Seq(Row) /\ nextId' \in Nat /\ schema' \in Seq(Hashes)
    <2>1. ASSUME NEW new \in Seq(Hashes), NEW rows \in Seq(Row), MigratesAs(r, new, rows)
          PROVE  table' \in Seq(Row) /\ nextId' \in Nat /\ schema' \in Seq(Hashes)
      BY <1>0, <2>1, ConcatProperties DEF MigratesAs
    <2>2. CASE RollsBack(r)
      <3>1. Without(table, Target(runner[r].plan, runner[r].seen).id) \in Seq(Row)
        <4>1. \A i \in 1..Len(table) :
                 SubSeq(table, 1, i - 1) \o SubSeq(table, i + 1, Len(table)) \in Seq(Row)
          BY <1>0, CutTyped
        <4> QED BY <1>0, <4>1, WithoutCases
      <3> QED BY <1>0, <2>2, <3>1 DEF RollsBack, Schemas
    <2>3. CASE LooksAround(r)
      BY <1>0, <2>3 DEF LooksAround
    <2> QED BY <2>1, <2>2, <2>3, StepCases
  <1> QED BY <1>1, <1>2 DEF TypeOK, Locals, Schemas

LEMMA TypedByStutter == TypeOK /\ UNCHANGED vars => TypeOK'
  BY DEF TypeOK, vars

\* The tools keep the types of their state however they interleave; above all, no
\* failed down script is committed as a schema.
THEOREM MigrationsTyped == Spec => []TypeOK
  <1>1. TypeOK /\ [Next]_vars => TypeOK'
    BY TypedByStep, TypedByStutter DEF Next
  <1> QED BY TypedInitially, <1>1, PTL DEF Spec

-----------------------------------------------------------------------------
(* Rows are found again by their id.                                       *)

\* Ids are never handed out twice, so a row read before other tools ran is still
\* the only one with its id, or is gone.
FreshIds == \A i \in DOMAIN table : table[i].id < nextId

DistinctIds == \A i, j \in DOMAIN table : table[i].id = table[j].id => i = j

\* The row a rollback means to delete.
LatestSeen(r) == runner[r].seen[Len(runner[r].seen)]

TargetKnown ==
    \A r \in Runners : runner[r].pc = "rollbackRun" =>
        /\ LatestSeen(r) \in Row
        /\ LatestSeen(r).id < nextId
        /\ runner[r].plan[Len(runner[r].seen)] = LatestSeen(r).hash
        /\ \A i \in DOMAIN table :
              table[i].id = LatestSeen(r).id => table[i].hash = LatestSeen(r).hash

RowsInv == FreshIds /\ DistinctIds /\ TargetKnown

\* Rows a migration adds.
LEMMA AddedRows ==
    ASSUME TypeOK, NEW r \in Runners, NEW new \in Seq(Hashes), NEW rows \in Seq(Row),
           MigratesAs(r, new, rows)
    PROVE  /\ DOMAIN table = 1..Len(table) /\ Len(table) \in Nat
           /\ DOMAIN table' = 1..(Len(table) + Len(new))
           /\ \A i \in DOMAIN table : table'[i] = table[i]
           /\ \A i \in DOMAIN table' : i \notin DOMAIN table =>
                 table'[i].id = nextId + (i - Len(table)) - 1
  <1>1. table \in Seq(Row) /\ DOMAIN table = 1..Len(table) /\ Len(table) \in Nat
    BY TableHashes DEF TypeOK
  <1>2. /\ Len(rows) = Len(new) /\ Len(new) \in Nat
        /\ table' = table \o rows
        /\ \A i \in 1..Len(new) : rows[i].id = nextId + i - 1
    BY DEF MigratesAs
  <1>3. /\ table' \in Seq(Row)
        /\ Len(table') = Len(table) + Len(new)
        /\ \A i \in 1..(Len(table) + Len(new)) :
              table'[i] = IF i <= Len(table) THEN table[i] ELSE rows[i - Len(table)]
    BY <1>1, <1>2, ConcatProperties
  <1>4. DOMAIN table' = 1..(Len(table) + Len(new))
    BY <1>3, LenProperties
  <1>5. \A i \in DOMAIN table : table'[i] = table[i]
    BY <1>1, <1>2, <1>3
  <1>6. ASSUME NEW i \in DOMAIN table', i \notin DOMAIN table
        PROVE  table'[i].id = nextId + (i - Len(table)) - 1
    <2>1. i - Len(table) \in 1..Len(new) /\ ~(i <= Len(table))
      BY <1>1, <1>2, <1>4, <1>6
    <2>2. table'[i] = rows[i - Len(table)]
      BY <1>3, <1>4, <2>1
    <2> QED BY <1>2, <2>1, <2>2
  <1> QED BY <1>1, <1>4, <1>5, <1>6

\* Rows after a rollback are rows of before, at distinct positions.
LEMMA KeptRows ==
    ASSUME TypeOK, NEW r \in Runners, RollsBack(r)
    PROVE  \E at \in [DOMAIN table' -> DOMAIN table] :
              /\ \A i \in DOMAIN table' : table'[i] = table[at[i]]
              /\ \A i, j \in DOMAIN table' : at[i] = at[j] => i = j
  <1>0. /\ table \in Seq(Row) /\ DOMAIN table = 1..Len(table) /\ Len(table) \in Nat
        /\ table' = Without(table, Target(runner[r].plan, runner[r].seen).id)
    BY TableHashes DEF TypeOK, RollsBack
  <1>1. CASE table' = table
    <2>1. [i \in DOMAIN table' |-> i] \in [DOMAIN table' -> DOMAIN table]
      BY <1>1
    <2> QED BY <1>1, <2>1
  <1>2. ASSUME NEW c \in 1..Len(table),
               table' = SubSeq(table, 1, c - 1) \o SubSeq(table, c + 1, Len(table))
        PROVE  \E at \in [DOMAIN table' -> DOMAIN table] :
                  /\ \A i \in DOMAIN table' : table'[i] = table[at[i]]
                  /\ \A i, j \in DOMAIN table' : at[i] = at[j] => i = j
    <2> DEFINE at == [i \in DOMAIN table' |-> IF i < c THEN i ELSE i + 1]
    <2>1. /\ table' \in Seq(Row)
          /\ Len(table') = Len(table) - 1
          /\ \A p \in 1..Len(table') : table'[p] = table[IF p < c THEN p ELSE p + 1]
      BY <1>0, <1>2, CutTyped
    <2>2. DOMAIN table' = 1..(Len(table) - 1)
      BY <2>1, LenProperties
    <2>3. at \in [DOMAIN table' -> DOMAIN table]
      BY <1>0, <2>2
    <2>4. \A i \in DOMAIN table' : table'[i] = table[at[i]]
      BY <2>1, <2>2
    <2>5. \A i, j \in DOMAIN table' : at[i] = at[j] => i = j
      BY <1>0, <2>2
    <2> HIDE DEF at
    <2> QED BY <2>3, <2>4, <2>5
  <1> QED BY <1>0, <1>1, <1>2, WithoutCases

\* The row a passed gate points at is the latest, and the journal agrees on it.
LEMMA GateAgrees ==
    ASSUME NEW plan \in Seq(Hashes), NEW rows \in Seq(Row), rows # <<>>,
           ValidPrefix(plan, HashesOf(rows))
    PROVE  /\ Len(rows) \in DOMAIN rows
           /\ plan[Len(rows)] = rows[Len(rows)].hash
  <1>1. /\ HashesOf(rows) \in Seq(Hashes) /\ Len(HashesOf(rows)) = Len(rows)
        /\ DOMAIN rows = 1..Len(rows)
        /\ \A i \in 1..Len(rows) : HashesOf(rows)[i] = rows[i].hash
    BY TableHashes
  <1>2. Len(rows) \in Nat \ {0} /\ Len(plan) \in Nat
    BY EmptySeq, LenProperties
  <1>3. Len(rows) <= Len(plan) /\ HashesOf(rows) = SubSeq(plan, 1, Len(rows))
    BY <1>1, ValidMeansPrefix
  <1>4. SubSeq(plan, 1, Len(rows))[Len(rows)] = plan[Len(rows)]
    <2>1. \A i \in 1..Len(rows) : plan[i] \in Hashes
      BY <1>2, <1>3, ElementOfSeq
    <2>2. Len(rows) \in 1..(Len(rows) - 1 + 1) /\ 1 + Len(rows) - 1 = Len(rows)
      BY <1>2
    <2>3. \A i \in 1..(Len(rows) - 1 + 1) :
             SubSeq(plan, 1, Len(rows))[i] = plan[1 + i - 1]
      BY <1>2, <2>1, SubSeqProperties
    <2> QED BY <2>2, <2>3
  <1> QED BY <1>1, <1>2, <1>3, <1>4

LEMMA RowsInitially == Init => RowsInv
  <1> SUFFICES ASSUME Init PROVE RowsInv
    OBVIOUS
  <1>1. DOMAIN table = {}
    BY DEF Init
  <1>2. \A r \in Runners : runner[r].pc # "rollbackRun"
    BY DEF Init, Idle
  <1> QED BY <1>1, <1>2 DEF RowsInv, FreshIds, DistinctIds, TargetKnown

LEMMA RowsByStep ==
    ASSUME TypeOK, RowsInv, NEW r \in Runners, Step(r)
    PROVE  RowsInv'
  <1>0. /\ table \in Seq(Row) /\ DOMAIN table = 1..Len(table) /\ Len(table) \in Nat
        /\ nextId \in Nat
        /\ \A i \in DOMAIN table : table[i] \in Row
    BY TableHashes DEF TypeOK
  <1>1. \A q \in Runners : q # r => runner'[q] = runner[q]
    BY StepCases
  <1>2. ASSUME NEW new \in Seq(Hashes), NEW rows \in Seq(Row), MigratesAs(r, new, rows)
        PROVE  RowsInv'
    <2>0. /\ DOMAIN table' = 1..(Len(table) + Len(new))
          /\ \A i \in DOMAIN table : table'[i] = table[i]
          /\ \A i \in DOMAIN table' : i \notin DOMAIN table =>
                table'[i].id = nextId + (i - Len(table)) - 1
      BY <1>2, AddedRows
    <2>1. Len(new) \in Nat /\ nextId' = nextId + Len(new)
      BY <1>2 DEF MigratesAs
    <2>2. \A i \in DOMAIN table' :
             \/ i \in DOMAIN table /\ table[i].id \in Nat /\ table'[i].id < nextId
             \/ i \notin DOMAIN table /\ table'[i].id >= nextId
                  /\ table'[i].id < nextId + Len(new)
      BY <1>0, <2>0, <2>1 DEF RowsInv, FreshIds, Row
    <2>3. FreshIds'
      BY <1>0, <2>0, <2>1, <2>2 DEF FreshIds, Row
    <2>4. DistinctIds'
      <3>1. ASSUME NEW i \in DOMAIN table', NEW j \in DOMAIN table',
                   table'[i].id = table'[j].id
            PROVE  i = j
        <4>1. CASE i \in DOMAIN table /\ j \in DOMAIN table
          BY <2>0, <3>1, <4>1 DEF RowsInv, DistinctIds
        <4>2. CASE i \notin DOMAIN table /\ j \notin DOMAIN table
          <5>1. nextId + (i - Len(table)) - 1 = nextId + (j - Len(table)) - 1
            BY <2>0, <3>1, <4>2
          <5>2. i \in Int /\ j \in Int
            BY <2>0, <2>1, <1>0
          <5> QED BY <1>0, <5>1, <5>2
        <4>3. CASE (i \in DOMAIN table) # (j \in DOMAIN table)
          <5>1. table'[i].id < nextId <=> i \in DOMAIN table
            BY <1>0, <2>0, <2>2 DEF Row
          <5>2. table'[j].id < nextId <=> j \in DOMAIN table
            BY <1>0, <2>0, <2>2 DEF Row
          <5> QED BY <3>1, <4>3, <5>1, <5>2
        <4> QED BY <4>1, <4>2, <4>3
      <3> QED BY <3>1 DEF DistinctIds
    <2>5. TargetKnown'
      <3> SUFFICES ASSUME NEW q \in Runners, runner'[q].pc = "rollbackRun"
                   PROVE  /\ LatestSeen(q)' \in Row
                          /\ LatestSeen(q)'.id < nextId'
                          /\ runner'[q].plan[Len(runner'[q].seen)] = LatestSeen(q)'.hash
                          /\ \A i \in DOMAIN table' :
                                table'[i].id = LatestSeen(q)'.id =>
                                    table'[i].hash = LatestSeen(q)'.hash
        BY DEF TargetKnown
      <3>1. runner'[q] = runner[q]
        BY <1>1, <1>2 DEF MigratesAs, Idle
      <3>2. LatestSeen(q)' = LatestSeen(q) /\ runner[q].pc = "rollbackRun"
        BY <3>1 DEF LatestSeen
      <3>3. /\ LatestSeen(q) \in Row
            /\ LatestSeen(q).id < nextId
            /\ runner[q].plan[Len(runner[q].seen)] = LatestSeen(q).hash
            /\ \A i \in DOMAIN table :
                  table[i].id = LatestSeen(q).id => table[i].hash = LatestSeen(q).hash
        BY <3>2 DEF RowsInv, TargetKnown
      <3>4. \A i \in DOMAIN table' :
               table'[i].id = LatestSeen(q).id => i \in DOMAIN table
        BY <1>0, <2>2, <3>3 DEF Row
      <3>5. \A i \in DOMAIN table' : table'[i].id = LatestSeen(q).id =>
                                      table'[i].hash = LatestSeen(q).hash
        BY <2>0, <3>3, <3>4
      <3>6. LatestSeen(q).id < nextId'
        BY <1>0, <2>1, <3>3 DEF Row
      <3> QED BY <3>1, <3>2, <3>3, <3>5, <3>6
    <2> QED BY <2>3, <2>4, <2>5 DEF RowsInv
  <1>3. CASE RollsBack(r)
    <2>0. PICK at \in [DOMAIN table' -> DOMAIN table] :
              /\ \A i \in DOMAIN table' : table'[i] = table[at[i]]
              /\ \A i, j \in DOMAIN table' : at[i] = at[j] => i = j
      BY <1>3, KeptRows
    <2>1. nextId' = nextId
      BY <1>3 DEF RollsBack
    <2>2. FreshIds' /\ DistinctIds'
      BY <2>0, <2>1 DEF RowsInv, FreshIds, DistinctIds
    <2>3. ASSUME NEW q \in Runners, runner'[q].pc = "rollbackRun"
          PROVE  runner'[q] = runner[q]
      BY <1>1, <1>3, <2>3 DEF RollsBack, Idle
    <2>4. TargetKnown'
      BY <2>0, <2>1, <2>3 DEF RowsInv, TargetKnown, LatestSeen
    <2> QED BY <2>2, <2>4 DEF RowsInv
  <1>4. CASE LooksAround(r)
    <2>1. UNCHANGED <<table, nextId>>
      BY <1>4 DEF LooksAround
    <2>2. FreshIds' /\ DistinctIds'
      BY <2>1 DEF RowsInv, FreshIds, DistinctIds
    <2>3. ASSUME NEW q \in Runners, runner'[q].pc = "rollbackRun"
          PROVE  \/ runner'[q] = runner[q]
                 \/ /\ runner'[q].seen = table
                    /\ runner'[q].plan = runner[q].plan
                    /\ table # <<>>
                    /\ ValidPrefix(runner[q].plan, HashesOf(table))
      BY <1>1, <1>4, <2>3 DEF LooksAround
    <2>4. ASSUME NEW q \in Runners, runner'[q].seen = table,
                 runner'[q].plan = runner[q].plan, table # <<>>,
                 ValidPrefix(runner[q].plan, HashesOf(table))
          PROVE  /\ LatestSeen(q)' \in Row
                 /\ LatestSeen(q)'.id < nextId
                 /\ runner'[q].plan[Len(runner'[q].seen)] = LatestSeen(q)'.hash
                 /\ \A i \in DOMAIN table :
                       table[i].id = LatestSeen(q)'.id =>
                           table[i].hash = LatestSeen(q)'.hash
      <3>1. runner[q].plan \in Seq(Hashes)
        BY DEF TypeOK
      <3>2. /\ Len(table) \in DOMAIN table
            /\ runner[q].plan[Len(table)] = table[Len(table)].hash
        BY <1>0, <2>4, <3>1, GateAgrees
      <3>3. LatestSeen(q)' = table[Len(table)]
        BY <2>4 DEF LatestSeen
      <3> QED BY <1>0, <2>4, <3>2, <3>3 DEF RowsInv, FreshIds, DistinctIds
    <2>5. TargetKnown'
      <3> SUFFICES ASSUME NEW q \in Runners, runner'[q].pc = "rollbackRun"
                   PROVE  /\ LatestSeen(q)' \in Row
                          /\ LatestSeen(q)'.id < nextId'
                          /\ runner'[q].plan[Len(runner'[q].seen)] = LatestSeen(q)'.hash
                          /\ \A i \in DOMAIN table' :
                                table'[i].id = LatestSeen(q)'.id =>
                                    table'[i].hash = LatestSeen(q)'.hash
        BY DEF TargetKnown
      <3>1. CASE runner'[q] = runner[q]
        BY <2>1, <3>1 DEF RowsInv, TargetKnown, LatestSeen
      <3>2. CASE runner'[q] # runner[q]
        BY <2>1, <2>3, <2>4, <3>2
      <3> QED BY <3>1, <3>2
    <2> QED BY <2>2, <2>5 DEF RowsInv
  <1> QED BY <1>2, <1>3, <1>4, StepCases

LEMMA RowsByStutter == RowsInv /\ UNCHANGED vars => RowsInv'
  <1> SUFFICES ASSUME RowsInv, UNCHANGED vars PROVE RowsInv'
    OBVIOUS
  <1>1. UNCHANGED <<table, nextId, runner>>
    BY DEF vars
  <1>2. FreshIds' /\ DistinctIds'
    BY <1>1 DEF RowsInv, FreshIds, DistinctIds
  <1>3. TargetKnown'
    BY <1>1 DEF RowsInv, TargetKnown, LatestSeen
  <1> QED BY <1>2, <1>3 DEF RowsInv

LEMMA RowsAlways == Spec => [](TypeOK /\ RowsInv)
  <1>1. Init => TypeOK /\ RowsInv
    BY TypedInitially, RowsInitially
  <1>2. TypeOK /\ RowsInv /\ [Next]_vars => (TypeOK /\ RowsInv)'
    BY TypedByStep, TypedByStutter, RowsByStep, RowsByStutter DEF Next
  <1> QED BY <1>1, <1>2, PTL DEF Spec

\* However many tools run at once, a rollback deletes at most one row, and that is
\* one of the migration whose down script it runs: rows are deleted by the id that
\* was read, and ids are not reused.
THEOREM RollbackExact == Spec => RollbackDeletesItsOwnRow
  <1> DEFINE Exact(r) ==
        (runner[r].pc = "rollbackRun" /\ runner'[r].pc = "idle" /\ table' # table) =>
            \E i \in DOMAIN table :
                /\ table[i].hash = runner[r].plan[Len(runner[r].seen)]
                /\ table' = SubSeq(table, 1, i - 1) \o SubSeq(table, i + 1, Len(table))
  <1>1. ASSUME TypeOK, RowsInv, NEW q \in Runners, Step(q), NEW r \in Runners
        PROVE  Exact(r)
    <2> SUFFICES ASSUME runner[r].pc = "rollbackRun", runner'[r].pc = "idle",
                        table' # table
                 PROVE  \E i \in DOMAIN table :
                           /\ table[i].hash = runner[r].plan[Len(runner[r].seen)]
                           /\ table' = SubSeq(table, 1, i - 1)
                                         \o SubSeq(table, i + 1, Len(table))
      OBVIOUS
    <2>1. q = r
      BY <1>1, StepCases
    <2>2. RollsBack(r)
      BY <1>1, <2>1, StepCases DEF MigratesAs, LooksAround
    <2>3. table' = Without(table, LatestSeen(r).id)
      BY <2>2 DEF RollsBack, Target, LatestSeen
    <2>4. table \in Seq(Row) /\ DOMAIN table = 1..Len(table)
      BY <1>1, TableHashes DEF TypeOK
    <2>5. PICK i \in 1..Len(table) :
              /\ table[i].id = LatestSeen(r).id
              /\ table' = SubSeq(table, 1, i - 1) \o SubSeq(table, i + 1, Len(table))
      BY <2>3, <2>4, WithoutCases
    <2>6. table[i].hash = runner[r].plan[Len(runner[r].seen)]
      BY <1>1, <2>4, <2>5 DEF RowsInv, TargetKnown
    <2> QED BY <2>4, <2>5, <2>6
  <1>2. TypeOK /\ RowsInv /\ [Next]_vars => [\A r \in Runners : Exact(r)]_vars
    BY <1>1 DEF Next
  <1> QED BY RowsAlways, <1>2, PTL DEF Spec, RollbackDeletesItsOwnRow

-----------------------------------------------------------------------------
(* The tools taking turns.                                                 *)

\* Nobody changes the database between the reads of a tool and its transaction.
SerialInv ==
    /\ TableTellsSchema
    /\ \A q, r \in Runners :
          q # r => runner[q].pc = "idle" \/ runner[r].pc = "idle"
    /\ \A r \in Runners :
          runner[r].pc = "rollbackRun" => runner[r].seen = table /\ table # <<>>

LEMMA HashesOfConcat ==
    ASSUME NEW s \in Seq(Row), NEW rows \in Seq(Row), NEW new \in Seq(Hashes),
           Len(rows) = Len(new), \A i \in 1..Len(new) : rows[i].hash = new[i]
    PROVE  HashesOf(s \o rows) = HashesOf(s) \o new
  <1>1. /\ s \o rows \in Seq(Row)
        /\ Len(s \o rows) = Len(s) + Len(new)
        /\ \A i \in 1..(Len(s) + Len(new)) :
              (s \o rows)[i] = IF i <= Len(s) THEN s[i] ELSE rows[i - Len(s)]
    <2>1. /\ s \o rows \in Seq(Row)
          /\ Len(s \o rows) = Len(s) + Len(rows)
          /\ \A i \in 1..(Len(s) + Len(rows)) :
                (s \o rows)[i] = IF i <= Len(s) THEN s[i] ELSE rows[i - Len(s)]
      BY ConcatProperties
    <2> QED BY <2>1
  <1>2. /\ HashesOf(s) \in Seq(Hashes)
        /\ Len(HashesOf(s)) = Len(s)
        /\ \A i \in 1..Len(s) : HashesOf(s)[i] = s[i].hash
    BY TableHashes
  <1>3. /\ HashesOf(s) \o new \in Seq(Hashes)
        /\ Len(HashesOf(s) \o new) = Len(s) + Len(new)
        /\ \A i \in 1..(Len(s) + Len(new)) :
              (HashesOf(s) \o new)[i] =
                  IF i <= Len(s) THEN HashesOf(s)[i] ELSE new[i - Len(s)]
    BY <1>2, ConcatProperties
  <1>4. /\ HashesOf(s \o rows) \in Seq(Hashes)
        /\ Len(HashesOf(s \o rows)) = Len(s) + Len(new)
        /\ \A i \in 1..(Len(s) + Len(new)) :
              HashesOf(s \o rows)[i] = (s \o rows)[i].hash
    BY <1>1, TableHashes
  <1>5. Len(s) \in Nat /\ Len(new) \in Nat
    BY LenProperties
  <1>6. ASSUME NEW i \in 1..(Len(s) + Len(new))
        PROVE  HashesOf(s \o rows)[i] = (HashesOf(s) \o new)[i]
    <2>1. CASE i <= Len(s)
      <3>1. i \in 1..Len(s)
        BY <1>5, <2>1
      <3> QED BY <1>1, <1>2, <1>3, <1>4, <2>1, <3>1
    <2>2. CASE ~(i <= Len(s))
      <3>1. i - Len(s) \in 1..Len(new)
        BY <1>5, <2>2
      <3>2. HashesOf(s \o rows)[i] = rows[i - Len(s)].hash
        BY <1>1, <1>4, <2>2
      <3>3. (HashesOf(s) \o new)[i] = new[i - Len(s)]
        BY <1>3, <2>2
      <3> QED BY <3>1, <3>2, <3>3
    <2> QED BY <2>1, <2>2
  <1> HIDE DEF HashesOf
  <1>7. \A i \in 1..Len(HashesOf(s \o rows)) :
           HashesOf(s \o rows)[i] = (HashesOf(s) \o new)[i]
    BY <1>4, <1>6
  <1>8. Len(HashesOf(s \o rows)) = Len(HashesOf(s) \o new)
    BY <1>3, <1>4
  <1> QED BY <1>3, <1>4, <1>7, <1>8, SeqEqual

\* Deleting the latest row, and reverting the latest migration.
LEMMA FrontOfRows ==
    ASSUME NEW s \in Seq(Row), s # <<>>,
           \A i, j \in DOMAIN s : s[i].id = s[j].id => i = j
    PROVE  /\ Without(s, s[Len(s)].id) = SubSeq(s, 1, Len(s) - 1)
           /\ HashesOf(SubSeq(s, 1, Len(s) - 1)) =
                  SubSeq(HashesOf(s), 1, Len(s) - 1)
  <1> DEFINE front == SubSeq(s, 1, Len(s) - 1)
  <1>0. /\ Len(s) \in Nat \ {0}
        /\ DOMAIN s = 1..Len(s)
        /\ HashesOf(s) \in Seq(Hashes)
        /\ Len(HashesOf(s)) = Len(s)
        /\ \A i \in 1..Len(s) : s[i] \in Row /\ HashesOf(s)[i] = s[i].hash
    BY EmptySeq, TableHashes
  <1>1. /\ front \in Seq(Row)
        /\ Len(front) = Len(s) - 1
        /\ \A i \in 1..(Len(s) - 1) : front[i] = s[i]
    <2>1. \A i \in 1..(Len(s) - 1) : s[i] \in Row
      BY <1>0
    <2> QED BY <1>0, <2>1, SubSeqProperties
  <1>2. Without(s, s[Len(s)].id) = front
    <2>1. Len(s) \in DOMAIN s
      BY <1>0
    <2>2. (CHOOSE i \in DOMAIN s : s[i].id = s[Len(s)].id) = Len(s)
      BY <2>1
    <2>3. Without(s, s[Len(s)].id) = front \o SubSeq(s, Len(s) + 1, Len(s))
      BY <2>1, <2>2 DEF Without
    <2>4. SubSeq(s, Len(s) + 1, Len(s)) = <<>>
      BY <1>0, SubSeqEmpty
    <2> HIDE DEF front
    <2> QED BY <1>1, <2>3, <2>4, ConcatEmptySeq
  <1>3. HashesOf(front) = SubSeq(HashesOf(s), 1, Len(s) - 1)
    <2> HIDE DEF front
    <2>1. /\ HashesOf(front) \in Seq(Hashes)
          /\ Len(HashesOf(front)) = Len(s) - 1
          /\ \A i \in 1..(Len(s) - 1) : HashesOf(front)[i] = s[i].hash
      <3>1. /\ HashesOf(front) \in Seq(Hashes)
            /\ Len(HashesOf(front)) = Len(front)
            /\ \A i \in 1..Len(front) : HashesOf(front)[i] = front[i].hash
        BY <1>1, TableHashes
      <3> QED BY <1>1, <3>1
    <2>2. /\ SubSeq(HashesOf(s), 1, Len(s) - 1) \in Seq(Hashes)
          /\ Len(SubSeq(HashesOf(s), 1, Len(s) - 1)) = Len(s) - 1
          /\ \A i \in 1..(Len(s) - 1) :
                SubSeq(HashesOf(s), 1, Len(s) - 1)[i] = s[i].hash
      <3>1. \A i \in 1..(Len(s) - 1) : HashesOf(s)[i] \in Hashes
        BY <1>0, ElementOfSeq
      <3>2. \A i \in 1..(Len(s) - 1) :
               SubSeq(HashesOf(s), 1, Len(s) - 1)[i] = HashesOf(s)[i]
        BY <1>0, <3>1, SubSeqProperties
      <3> QED BY <1>0, <3>1, <3>2, SubSeqProperties
    <2>3. \A i \in 1..(Len(s) - 1) :
             HashesOf(front)[i] = SubSeq(HashesOf(s), 1, Len(s) - 1)[i]
      BY <2>1, <2>2
    <2> QED BY <2>1, <2>2, <2>3, SeqEqual
  <1> QED BY <1>2, <1>3

\* What a step in turn does to the schema and to the record of it.
LEMMA SerialStep ==
    ASSUME TypeOK, RowsInv, SerialInv, NEW r \in Runners, Alone(r), Step(r)
    PROVE  /\ TableTellsSchema'
           /\ \/ UNCHANGED <<schema, HashesOf(table)>>
              \/ History!Extend
              \/ History!RevertLatest
  <1>0. /\ table \in Seq(Row) /\ Len(table) \in Nat
        /\ schema \in Seq(Hashes) /\ Len(schema) \in Nat
        /\ HashesOf(table) = schema /\ Len(table) = Len(schema)
        /\ \A i \in 1..Len(table) : schema[i] = table[i].hash
        /\ DOMAIN table = 1..Len(table)
    BY TableHashes, LenProperties DEF TypeOK, Schemas, SerialInv, TableTellsSchema
  <1>1. ASSUME NEW new \in Seq(Hashes), NEW rows \in Seq(Row), MigratesAs(r, new, rows)
        PROVE  /\ HashesOf(table') = schema'
               /\ schema' = schema \/ History!Extend
    <2>1. /\ Len(rows) = Len(new) /\ Len(new) \in Nat
          /\ schema' = schema \o new /\ table' = table \o rows
          /\ \A i \in 1..Len(new) : rows[i].hash = new[i]
      BY <1>1 DEF MigratesAs
    <2>2. HashesOf(table') = schema'
      BY <1>0, <2>1, HashesOfConcat
    <2>3. CASE new = <<>>
      BY <1>0, <2>1, <2>2, <2>3, ConcatEmptySeq
    <2>4. CASE new # <<>>
      <3>1. Len(new) > 0
        BY <2>4, EmptySeq
      <3>2. /\ schema' \in Seq(Hashes)
            /\ Len(schema') = Len(schema) + Len(new)
            /\ \A i \in 1..Len(schema) : schema'[i] = schema[i]
        BY <1>0, <2>1, ConcatProperties
      <3>3. Len(schema') > Len(schema)
        BY <1>0, <2>1, <3>1, <3>2
      <3>4. SubSeq(schema', 1, Len(schema)) = schema
        BY <1>0, <3>2, <3>3, PrefixByPositions
      <3> QED BY <2>2, <3>3, <3>4 DEF History!Extend
    <2> QED BY <2>3, <2>4, <2>2
  <1>2. ASSUME RollsBack(r)
        PROVE  HashesOf(table') = schema' /\ History!RevertLatest
    <2>1. runner[r].pc = "rollbackRun" /\ runner[r].seen = table /\ table # <<>>
      BY <1>2 DEF RollsBack, SerialInv
    <2>2. Len(table) \in 1..Len(table) /\ schema # <<>>
      BY <1>0, <2>1, EmptySeq
    <2>3. Target(runner[r].plan, runner[r].seen) =
              [hash |-> schema[Len(schema)], id |-> table[Len(table)].id]
      BY <1>0, <2>1, <2>2 DEF RowsInv, TargetKnown, LatestSeen, Target
    <2>4. schema' = SubSeq(schema, 1, Len(schema) - 1)
      BY <1>2, <2>2, <2>3 DEF RollsBack, Reverted
    <2>5. /\ table' = SubSeq(table, 1, Len(table) - 1)
          /\ HashesOf(table') = SubSeq(HashesOf(table), 1, Len(table) - 1)
      <3>1. table' = Without(table, table[Len(table)].id)
        BY <1>2, <2>3 DEF RollsBack
      <3>2. \A i, j \in DOMAIN table : table[i].id = table[j].id => i = j
        BY DEF RowsInv, DistinctIds
      <3>3. /\ Without(table, table[Len(table)].id) = SubSeq(table, 1, Len(table) - 1)
            /\ HashesOf(SubSeq(table, 1, Len(table) - 1)) =
                   SubSeq(HashesOf(table), 1, Len(table) - 1)
        BY <1>0, <2>1, <3>2, FrontOfRows
      <3> QED BY <3>1, <3>3
    <2>6. HashesOf(table') = schema'
      BY <1>0, <2>4, <2>5
    <2> QED BY <2>2, <2>4, <2>6 DEF History!RevertLatest
  <1>3. ASSUME LooksAround(r)
        PROVE  HashesOf(table') = schema' /\ schema' = schema
    BY <1>0, <1>3 DEF LooksAround
  <1> QED BY <1>0, <1>1, <1>2, <1>3, StepCases DEF TableTellsSchema

LEMMA SerialByStep ==
    ASSUME TypeOK, RowsInv, SerialInv, NEW r \in Runners, Alone(r), Step(r)
    PROVE  SerialInv'
  <1>1. TableTellsSchema'
    BY SerialStep
  <1>2. \A q \in Runners : q # r => runner'[q].pc = "idle"
    BY StepCases DEF Alone
  <1>3. ASSUME runner'[r].pc = "rollbackRun"
        PROVE  runner'[r].seen = table' /\ table' # <<>>
    <2>1. LooksAround(r)
      BY <1>3, StepCases DEF MigratesAs, RollsBack, Idle
    <2> QED BY <1>3, <2>1 DEF LooksAround, SerialInv
  <1>4. \A q \in Runners :
           runner'[q].pc = "rollbackRun" => runner'[q].seen = table' /\ table' # <<>>
    BY <1>2, <1>3
  <1>5. \A q, p \in Runners : q # p => runner'[q].pc = "idle" \/ runner'[p].pc = "idle"
    BY <1>2
  <1> QED BY <1>1, <1>4, <1>5 DEF SerialInv

LEMMA SerialInitially == Init => SerialInv
  <1> SUFFICES ASSUME Init PROVE SerialInv
    OBVIOUS
  <1>1. HashesOf(<<>>) = <<>>
    <2>1. <<>> \in Seq(Row) /\ Len(<<>>) = 0 /\ <<>> \in Seq(Hashes)
      OBVIOUS
    <2>2. HashesOf(<<>>) \in Seq(Hashes) /\ Len(HashesOf(<<>>)) = 0
      BY <2>1, TableHashes
    <2> QED BY <2>2, EmptySeq
  <1> QED BY <1>1 DEF Init, SerialInv, TableTellsSchema, Idle

LEMMA SerialAlways == SerialSpec => [](TypeOK /\ RowsInv /\ SerialInv)
  <1>1. Init => TypeOK /\ RowsInv /\ SerialInv
    BY TypedInitially, RowsInitially, SerialInitially
  <1>2. TypeOK /\ RowsInv /\ SerialInv /\ [SerialNext]_vars
          => (TypeOK /\ RowsInv /\ SerialInv)'
    <2>1. CASE SerialNext
      BY <2>1, TypedByStep, RowsByStep, SerialByStep DEF SerialNext
    <2>2. ASSUME SerialInv, UNCHANGED vars
          PROVE  SerialInv'
      BY <2>2 DEF SerialInv, TableTellsSchema, vars
    <2> QED BY <2>1, <2>2, TypedByStutter, RowsByStutter
  <1> QED BY <1>1, <1>2, PTL DEF SerialSpec

\* With the tools taking turns, the tracking table names exactly the migrations in
\* effect, for any journals, scripts and failures.
THEOREM SerialTableTells == SerialSpec => []TableTellsSchema
  <1>1. SerialInv => TableTellsSchema
    BY DEF SerialInv
  <1> QED BY SerialAlways, <1>1, PTL

\* ... so that a journal `db:migrate:check` calls up to date is the schema.
THEOREM SerialUpToDate == SerialSpec => []UpToDateIsTrue
  <1>1. ASSUME TypeOK, SerialInv, NEW r \in Runners,
               UpToDate(HashesOf(tree[r]), HashesOf(table))
        PROVE  schema = HashesOf(tree[r])
    <2>1. HashesOf(tree[r]) \in Seq(Hashes)
      BY <1>1, JournalHashes DEF TypeOK
    <2>2. HashesOf(table) \in Seq(Hashes)
      BY <1>1, TableHashes DEF TypeOK
    <2>3. HashesOf(table) = HashesOf(tree[r])
      BY <1>1, <2>1, <2>2, UpToDateMeansEqual
    <2> QED BY <1>1, <2>3 DEF SerialInv, TableTellsSchema
  <1>2. TypeOK /\ SerialInv => UpToDateIsTrue
    BY <1>1 DEF UpToDateIsTrue
  <1> QED BY SerialAlways, <1>2, PTL

\* With the tools taking turns they implement MigrationHistory: each change of the
\* database extends the history at its end or reverts its latest migration, and
\* the tracking table follows.
THEOREM SerialImplements == SerialSpec => ImplementsHistory
  <1>1. Init => History!HistoryInit
    <2> SUFFICES ASSUME Init PROVE History!HistoryInit
      OBVIOUS
    <2> QED BY SerialInitially DEF Init, History!HistoryInit, SerialInv, TableTellsSchema
  <1>2. TypeOK /\ RowsInv /\ SerialInv /\ [SerialNext]_vars
          => [History!Extend \/ History!RevertLatest]_(History!historyVars)
    <2>1. CASE SerialNext
      BY <2>1, SerialStep DEF SerialNext, History!historyVars
    <2>2. CASE UNCHANGED vars
      BY <2>2 DEF vars, History!historyVars
    <2> QED BY <2>1, <2>2
  <1> QED BY SerialAlways, <1>1, <1>2, PTL DEF SerialSpec, ImplementsHistory, History!HistorySpec

=============================================================================
