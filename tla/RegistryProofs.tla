---------------------------- MODULE RegistryProofs ----------------------------
(***************************************************************************)
(* Theorems about Registry, for any number of companies, rows, keys and    *)
(* requests.                                                               *)
(*                                                                         *)
(* Every step is first shown to be one of six kinds: a write of one row of *)
(* one of the five tables, or a change of one handler's locals (Kinds).    *)
(* What a kind says of the row or of the locals is all that the invariants *)
(* need, so each of them is proved over the kinds and not over the         *)
(* actions.                                                                *)
(***************************************************************************)
EXTENDS Registry, TLAPS

-----------------------------------------------------------------------------
(* The invariant.                                                          *)

\* The locals are those that the next statement of the handler needs.
WiredLocal(l) ==
    /\ l.pc # "idle" => l.company \in Companies
    /\ l.pc = "customerInsert" => l.branch # Keep
    /\ l.pc \in {"customerCheck", "customerUpdate", "addressInsert"}
          => l.id \in Customers
    /\ l.pc = "addressUpdate" => l.id \in Addresses

\* A branch that was checked when it had been closed `seen` times.
Checked(b, seen) ==
    /\ branches[b].closings >= seen
    /\ ~ Open(b) => branches[b].closings > seen

\* What the statements before have established for the next one.
EarnedLocal(l) ==
    /\ l.pc \in {"customerInsert", "customerUpdate"} /\ l.branch \in Branches
          => Stored(branches, l.branch) /\ Checked(l.branch, l.seen)
    /\ l.pc \in {"customerInsert", "customerCheck", "customerUpdate"}
          /\ l.branch \in Branches => l.byAdmin
    /\ l.pc = "addressInsert" => l.seenLive

Wired == \A h \in Handlers : WiredLocal(handler[h])

Earned == \A h \in Handlers : EarnedLocal(handler[h])

CheckedRows ==
    /\ \A c \in Customers :
          Stored(customers, c) /\ customers[c].branch # None
          => Checked(customers[c].branch, customers[c].seen)
    /\ \A a \in Addresses : Stored(addresses, a) => addresses[a].seenLive

Inv == /\ TypeOK /\ Wired /\ Earned /\ CheckedRows
       /\ ReferencesStayInCompany

-----------------------------------------------------------------------------
(* The kinds of steps.                                                     *)

BranchWritten ==
    \E b \in Branches, row \in BranchRow :
       /\ branches' = [branches EXCEPT ![b] = row]
       /\ Stored(branches, b) =>
             /\ ~ branches[b].deleted
             /\ row.company = branches[b].company
             /\ row.closings >= branches[b].closings
             /\ Open(b) /\ ~ (row.active /\ ~ row.deleted)
                   => row.closings > branches[b].closings
       /\ UNCHANGED <<users, technicians, customers, addresses, handler>>

UserWritten ==
    \E u \in Users, row \in UserRow :
       /\ users' = [users EXCEPT ![u] = row]
       /\ Stored(users, u) => row.company = users[u].company
       /\ Refers(branches, row.branch, row.company)
       /\ UNCHANGED <<branches, technicians, customers, addresses, handler>>

TechnicianWritten ==
    \E t \in Technicians, row \in TechnicianRow :
       /\ technicians' = [technicians EXCEPT ![t] = row]
       /\ Stored(technicians, t) => row.company = technicians[t].company
       /\ \/ /\ Refers(users, row.user, row.company)
             /\ Refers(branches, row.branch, row.company)
          \/ /\ Stored(technicians, t)
             /\ row.user = technicians[t].user
             /\ row.branch = technicians[t].branch
       /\ UNCHANGED <<branches, users, customers, addresses, handler>>

\* The write of a row by a statement of h, or by a request of one statement.
Finished(h) == handler' = [handler EXCEPT ![h] = Idle]

CustomerWritten ==
    \E c \in Customers, row \in CustomerRow :
       /\ customers' = [customers EXCEPT ![c] = row]
       /\ Stored(customers, c) => /\ ~ customers[c].deleted
                                  /\ row.company = customers[c].company
       /\ \/ /\ Stored(customers, c)
             /\ row.branch = customers[c].branch /\ row.seen = customers[c].seen
             /\ handler' = handler \/ \E h \in Handlers : Finished(h)
          \/ \E h \in Handlers :
                /\ handler[h].pc \in {"customerInsert", "customerUpdate"}
                /\ row.branch = handler[h].branch /\ row.seen = handler[h].seen
                /\ Refers(branches, row.branch, row.company)
                /\ Finished(h)
       /\ UNCHANGED <<branches, users, technicians, addresses>>

AddressWritten ==
    \E a \in Addresses, row \in AddressRow :
       /\ addresses' = [addresses EXCEPT ![a] = row]
       /\ Stored(addresses, a) => /\ ~ addresses[a].deleted
                                  /\ row.company = addresses[a].company
       /\ \/ /\ Stored(addresses, a)
             /\ row.customer = addresses[a].customer
             /\ row.seenLive = addresses[a].seenLive
          \/ /\ Refers(customers, row.customer, row.company)
             /\ row.seenLive
       /\ handler' = handler \/ \E h \in Handlers : Finished(h)
       /\ UNCHANGED <<branches, users, technicians, customers>>

LocalsWritten ==
    \E h \in Handlers, local \in HandlerState :
       /\ handler' = [handler EXCEPT ![h] = local]
       /\ WiredLocal(local) /\ EarnedLocal(local)
       /\ UNCHANGED tables

Kinds == \/ BranchWritten \/ UserWritten \/ TechnicianWritten
         \/ CustomerWritten \/ AddressWritten \/ LocalsWritten
         \/ UNCHANGED vars

-----------------------------------------------------------------------------
(* Every step is of one of these kinds.                                    *)

\* A request on a branch writes one row: a new one, or one that is not deleted
\* and counts the closing if it closes.
LEMMA BranchSteps ==
    ASSUME TypeOK, NEW b \in Branches, NEW k \in Companies,
           BranchCreate(b, k) \/ BranchUpdate(b, k) \/ BranchDeactivate(b, k)
    PROVE  BranchWritten
<1>1. CASE BranchCreate(b, k)
  <2>1. PICK code \in Keys, active \in BOOLEAN :
           branches' = [branches EXCEPT ![b] =
              [company |-> k, code |-> code, active |-> active,
               deleted |-> FALSE, closings |-> IF active THEN 0 ELSE 1]]
    BY <1>1 DEF BranchCreate
  <2> DEFINE row == [company |-> k, code |-> code, active |-> active,
                     deleted |-> FALSE, closings |-> IF active THEN 0 ELSE 1]
  <2>2. row \in BranchRow
    BY DEF BranchRow
  <2>3. ~ Stored(branches, b)
    BY <1>1 DEF BranchCreate, Insertable
  <2>4. UNCHANGED <<users, technicians, customers, addresses, handler>>
    BY <1>1 DEF BranchCreate
  <2> QED
    BY <2>1, <2>2, <2>3, <2>4 DEF BranchWritten
<1>2. CASE BranchUpdate(b, k)
  <2>1. /\ branches[b] \in BranchRow /\ ~ branches[b].deleted
        /\ Stored(branches, b)
    BY <1>2 DEF TypeOK, BranchUpdate, Reaches, Stored
  <2>2. PICK code \in Keys, active \in BOOLEAN :
           branches' = [branches EXCEPT ![b] =
              IF active
              THEN [branches[b] EXCEPT !.code = code, !.active = active]
              ELSE Closed(b, [branches[b] EXCEPT !.code = code,
                                                 !.active = active])]
    BY <1>2 DEF BranchUpdate
  <2> DEFINE edited == [branches[b] EXCEPT !.code = code, !.active = active]
             row == IF active THEN edited ELSE Closed(b, edited)
  <2>3. /\ edited \in BranchRow /\ edited.company = branches[b].company
        /\ edited.closings = branches[b].closings
        /\ edited.active = active /\ ~ edited.deleted
    BY <2>1 DEF BranchRow
  <2>4. /\ row \in BranchRow /\ row.company = branches[b].company
        /\ row.closings >= branches[b].closings
        /\ Open(b) /\ ~ (row.active /\ ~ row.deleted)
              => row.closings > branches[b].closings
    <3> HIDE DEF edited
    <3>1. CASE active \/ ~ Open(b)
      BY <2>1, <2>3, <3>1 DEF Closed, BranchRow
    <3>2. CASE ~ active /\ Open(b)
      <4>1. row = [edited EXCEPT !.closings = @ + 1]
        BY <3>2 DEF Closed
      <4> QED
        BY <4>1, <2>1, <2>3 DEF BranchRow
    <3> QED
      BY <3>1, <3>2
  <2>5. UNCHANGED <<users, technicians, customers, addresses, handler>>
    BY <1>2 DEF BranchUpdate
  <2>6. branches' = [branches EXCEPT ![b] = row]
    BY <2>2
  <2> HIDE DEF row, edited
  <2> QED
    BY <2>1, <2>4, <2>5, <2>6 DEF BranchWritten
<1>3. CASE BranchDeactivate(b, k)
  <2>1. /\ branches[b] \in BranchRow /\ ~ branches[b].deleted
        /\ Stored(branches, b)
    BY <1>3 DEF TypeOK, BranchDeactivate, Reaches, Stored
  <2> DEFINE edited == [branches[b] EXCEPT !.active = FALSE, !.deleted = TRUE]
             row == Closed(b, edited)
  <2>2. /\ edited \in BranchRow /\ edited.company = branches[b].company
        /\ edited.closings = branches[b].closings
    BY <2>1 DEF BranchRow
  <2>3. /\ row \in BranchRow /\ row.company = branches[b].company
        /\ row.closings >= branches[b].closings
        /\ Open(b) => row.closings > branches[b].closings
    <3> HIDE DEF edited
    <3>1. CASE ~ Open(b)
      BY <2>1, <2>2, <3>1 DEF Closed, BranchRow
    <3>2. CASE Open(b)
      <4>1. row = [edited EXCEPT !.closings = @ + 1]
        BY <3>2 DEF Closed
      <4> QED
        BY <4>1, <2>1, <2>2 DEF BranchRow
    <3> QED
      BY <3>1, <3>2
  <2>4. UNCHANGED <<users, technicians, customers, addresses, handler>>
    BY <1>3 DEF BranchDeactivate
  <2>5. branches' = [branches EXCEPT ![b] = row]
    BY <1>3 DEF BranchDeactivate
  <2> HIDE DEF row, edited
  <2> QED
    BY <2>1, <2>3, <2>4, <2>5 DEF BranchWritten
<1> QED
  BY <1>1, <1>2, <1>3

\* A user is written with a branch of its company.
LEMMA UserSteps ==
    ASSUME TypeOK, NEW u \in Users, NEW k \in Companies,
           UserCreate(u, k) \/ UserUpdate(u, k)
    PROVE  UserWritten
<1>1. Stored(users, u) => users[u].company = k
  BY DEF UserCreate, UserUpdate, Insertable
<1>2. PICK email \in Keys, branch \in Branches \union {None} :
         UserWrite(u, k, email, branch)
  BY DEF UserCreate, UserUpdate
<1> DEFINE row == [company |-> k, email |-> email, branch |-> branch]
<1>3. row \in UserRow
  BY DEF UserRow
<1> QED
  BY <1>1, <1>2, <1>3 DEF UserWritten, UserWrite

\* A technician is written with a user and a branch that the keys let through,
\* or keeps those it had.
LEMMA TechnicianSteps ==
    ASSUME TypeOK, NEW t \in Technicians, NEW k \in Companies,
           \/ TechnicianCreate(t, k) \/ TechnicianUpdate(t, k)
           \/ TechnicianDeactivate(t, k)
    PROVE  TechnicianWritten
<1>1. CASE TechnicianCreate(t, k) \/ TechnicianUpdate(t, k)
  <2>1. Stored(technicians, t) => technicians[t].company = k
    BY <1>1 DEF TechnicianCreate, TechnicianUpdate, Insertable, Reaches
  <2>2. PICK user \in Users \union {None}, branch \in Branches \union {None} :
           TechnicianWrite(t, k, user, branch)
    BY <1>1 DEF TechnicianCreate, TechnicianUpdate
  <2> DEFINE row == [company |-> k, user |-> user, branch |-> branch,
                     deleted |-> FALSE]
  <2>3. row \in TechnicianRow
    BY DEF TechnicianRow
  <2> QED
    BY <2>1, <2>2, <2>3 DEF TechnicianWritten, TechnicianWrite
<1>2. CASE TechnicianDeactivate(t, k)
  <2>1. technicians[t] \in TechnicianRow /\ Stored(technicians, t)
    BY <1>2 DEF TypeOK, TechnicianDeactivate, Reaches, Stored
  <2> DEFINE row == [technicians[t] EXCEPT !.deleted = TRUE]
  <2>2. /\ row \in TechnicianRow /\ row.company = technicians[t].company
        /\ row.user = technicians[t].user /\ row.branch = technicians[t].branch
    BY <2>1 DEF TechnicianRow
  <2>3. /\ technicians' = [technicians EXCEPT ![t] = row]
        /\ UNCHANGED <<branches, users, customers, addresses, handler>>
    BY <1>2 DEF TechnicianDeactivate
  <2> HIDE DEF row
  <2> QED
    BY <2>1, <2>2, <2>3 DEF TechnicianWritten
<1> QED
  BY <1>1, <1>2

\* A PATCH that leaves branchId out keeps the branch and its check.
LEMMA CustomerEdits ==
    ASSUME NEW row \in CustomerRow, NEW l \in HandlerState,
           NEW document \in Keys \union {None}
    PROVE  /\ CustomerEdited(row, l, document) \in CustomerRow
           /\ CustomerEdited(row, l, document).company = row.company
           /\ l.branch = Keep =>
                 /\ CustomerEdited(row, l, document).branch = row.branch
                 /\ CustomerEdited(row, l, document).seen = row.seen
           /\ l.branch # Keep =>
                 /\ CustomerEdited(row, l, document).branch = l.branch
                 /\ CustomerEdited(row, l, document).seen = l.seen
<1> DEFINE edited == [row EXCEPT !.document = document, !.edits = @ + 1]
<1>1. /\ edited \in CustomerRow /\ edited.company = row.company
      /\ edited.branch = row.branch /\ edited.seen = row.seen
  <2> DEFINE named == [row EXCEPT !.document = document]
             n == row.edits + 1
  <2>1. /\ named \in CustomerRow /\ named.company = row.company
        /\ named.branch = row.branch /\ named.seen = row.seen
    BY DEF CustomerRow
  <2>2. n \in Nat
    BY DEF CustomerRow
  <2>3. edited = [named EXCEPT !.edits = n]
    BY Zenon
  <2> HIDE DEF edited, named, n
  <2> QED
    BY <2>1, <2>2, <2>3 DEF CustomerRow
<1>2. /\ l.branch \in Branches \union {None, Keep} /\ l.seen \in Nat
  BY DEF HandlerState
<1>3. CASE l.branch = Keep
  <2>1. CustomerEdited(row, l, document) = edited
    BY <1>3 DEF CustomerEdited
  <2> HIDE DEF edited
  <2> QED
    BY <2>1, <1>1, <1>3
<1>4. CASE l.branch # Keep
  <2>1. CustomerEdited(row, l, document)
           = [edited EXCEPT !.branch = l.branch, !.seen = l.seen]
    BY <1>4 DEF CustomerEdited
  <2> HIDE DEF edited
  <2>2. [edited EXCEPT !.branch = l.branch, !.seen = l.seen] \in CustomerRow
    BY <1>1, <1>2, <1>4 DEF CustomerRow
  <2> QED
    BY <2>1, <2>2, <1>1, <1>4 DEF CustomerRow
<1> QED
  BY <1>3, <1>4

\* The writes of customers, of one statement or at the end of a handler.
LEMMA CustomerSteps ==
    ASSUME TypeOK, Wired,
           \/ \E c \in Customers, k \in Companies : CustomerDeactivate(c, k)
           \/ \E h \in Handlers : CustomerInsert(h) \/ CustomerUpdate(h)
    PROVE  CustomerWritten
<1>1. ASSUME NEW c \in Customers, NEW k \in Companies, CustomerDeactivate(c, k)
      PROVE  CustomerWritten
  <2>1. /\ customers[c] \in CustomerRow /\ ~ customers[c].deleted
        /\ Stored(customers, c)
    BY <1>1 DEF TypeOK, CustomerDeactivate, Reaches, Stored
  <2> DEFINE row == [customers[c] EXCEPT !.deleted = TRUE]
  <2>2. /\ row \in CustomerRow /\ row.company = customers[c].company
        /\ row.branch = customers[c].branch /\ row.seen = customers[c].seen
    BY <2>1 DEF CustomerRow
  <2>3. /\ customers' = [customers EXCEPT ![c] = row]
        /\ UNCHANGED <<branches, users, technicians, addresses, handler>>
    BY <1>1 DEF CustomerDeactivate
  <2> HIDE DEF row
  <2> QED
    BY <2>1, <2>2, <2>3 DEF CustomerWritten
<1>2. ASSUME NEW h \in Handlers, CustomerInsert(h)
      PROVE  CustomerWritten
  <2> DEFINE l == handler[h]
  <2>1. /\ l.pc = "customerInsert" /\ l.company \in Companies
        /\ l.branch \in Branches \union {None} /\ l.seen \in Nat
    BY <1>2 DEF CustomerInsert, TypeOK, Wired, WiredLocal, HandlerState
  <2>2. PICK c \in Customers, document \in Keys \union {None} :
           /\ Insertable(customers, c)
           /\ Refers(branches, l.branch, l.company)
           /\ customers' = [customers EXCEPT ![c] =
                 [company |-> l.company, document |-> document,
                  branch |-> l.branch, deleted |-> FALSE, edits |-> 0,
                  seen |-> l.seen]]
    BY <1>2 DEF CustomerInsert
  <2> DEFINE row == [company |-> l.company, document |-> document,
                     branch |-> l.branch, deleted |-> FALSE, edits |-> 0,
                     seen |-> l.seen]
  <2>3. /\ row \in CustomerRow /\ row.company = l.company
        /\ row.branch = l.branch /\ row.seen = l.seen
    BY <2>1 DEF CustomerRow
  <2>4. ~ Stored(customers, c)
    BY <2>2 DEF Insertable
  <2>5. Finished(h) /\ UNCHANGED <<branches, users, technicians, addresses>>
    BY <1>2 DEF CustomerInsert, Finished
  <2> HIDE DEF row
  <2>6. customers' = [customers EXCEPT ![c] = row]
    BY <2>2 DEF row
  <2> QED
    BY <2>1, <2>2, <2>3, <2>4, <2>5, <2>6 DEF CustomerWritten
<1>3. ASSUME NEW h \in Handlers, CustomerUpdate(h)
      PROVE  CustomerWritten
  <2> DEFINE l == handler[h]
             c == l.id
  <2>1. /\ l.pc = "customerUpdate" /\ c \in Customers /\ l \in HandlerState
    BY <1>3 DEF CustomerUpdate, TypeOK, Wired, WiredLocal
  <2>2. /\ customers[c] \in CustomerRow /\ ~ customers[c].deleted
        /\ Stored(customers, c) /\ customers[c].company = l.company
    BY <1>3, <2>1 DEF TypeOK, CustomerUpdate, Reaches, Stored
  <2>3. PICK document \in Keys \union {None} :
           /\ l.branch # Keep => Refers(branches, l.branch, l.company)
           /\ customers' = [customers EXCEPT
                               ![c] = CustomerEdited(customers[c], l, document)]
    BY <1>3 DEF CustomerUpdate
  <2> DEFINE row == CustomerEdited(customers[c], l, document)
  <2>4. Finished(h) /\ UNCHANGED <<branches, users, technicians, addresses>>
    BY <1>3 DEF CustomerUpdate, Finished
  <2>5. /\ row \in CustomerRow /\ row.company = customers[c].company
        /\ l.branch = Keep => /\ row.branch = customers[c].branch
                              /\ row.seen = customers[c].seen
        /\ l.branch # Keep => row.branch = l.branch /\ row.seen = l.seen
    BY <2>1, <2>2, CustomerEdits
  <2> HIDE DEF row, c, l
  <2>6. customers' = [customers EXCEPT ![c] = row]
    BY <2>3 DEF row
  <2>7. CASE l.branch = Keep
    BY <2>1, <2>2, <2>4, <2>5, <2>6, <2>7 DEF CustomerWritten
  <2>8. CASE l.branch # Keep
    <3>1. /\ handler[h].pc \in {"customerInsert", "customerUpdate"}
          /\ row.branch = handler[h].branch /\ row.seen = handler[h].seen
          /\ Refers(branches, row.branch, row.company)
      BY <2>1, <2>2, <2>3, <2>5, <2>8 DEF l
    <3> QED
      BY <3>1, <2>1, <2>2, <2>4, <2>5, <2>6 DEF CustomerWritten
  <2> QED
    BY <2>7, <2>8
<1> QED
  BY <1>1, <1>2, <1>3

\* The writes of addresses, of one statement or at the end of a handler.
LEMMA AddressSteps ==
    ASSUME TypeOK, Wired, Earned,
           \/ \E a \in Addresses, k \in Companies : AddressRemove(a, k)
           \/ \E h \in Handlers : AddressInsert(h) \/ AddressUpdate(h)
    PROVE  AddressWritten
<1>1. ASSUME NEW a \in Addresses, NEW k \in Companies, AddressRemove(a, k)
      PROVE  AddressWritten
  <2>1. /\ addresses[a] \in AddressRow /\ ~ addresses[a].deleted
        /\ Stored(addresses, a)
    BY <1>1 DEF TypeOK, AddressRemove, Reaches, Stored
  <2> DEFINE row == [addresses[a] EXCEPT !.deleted = TRUE]
  <2>2. /\ row \in AddressRow /\ row.company = addresses[a].company
        /\ row.customer = addresses[a].customer
        /\ row.seenLive = addresses[a].seenLive
    BY <2>1 DEF AddressRow
  <2>3. /\ addresses' = [addresses EXCEPT ![a] = row]
        /\ UNCHANGED <<branches, users, technicians, customers, handler>>
    BY <1>1 DEF AddressRemove
  <2> HIDE DEF row
  <2> QED
    BY <2>1, <2>2, <2>3 DEF AddressWritten
<1>2. ASSUME NEW h \in Handlers, AddressInsert(h)
      PROVE  AddressWritten
  <2> DEFINE l == handler[h]
  <2>1. /\ l.pc = "addressInsert" /\ l.company \in Companies
        /\ l.id \in Customers /\ l.seenLive = TRUE
    BY <1>2 DEF AddressInsert, TypeOK, Wired, WiredLocal, Earned, EarnedLocal,
                HandlerState
  <2>2. PICK a \in Addresses :
           /\ Insertable(addresses, a)
           /\ addresses' = [addresses EXCEPT ![a] =
                 [company |-> l.company, customer |-> l.id, deleted |-> FALSE,
                  edits |-> 0, seenLive |-> l.seenLive]]
    BY <1>2 DEF AddressInsert
  <2> DEFINE row == [company |-> l.company, customer |-> l.id,
                     deleted |-> FALSE, edits |-> 0, seenLive |-> l.seenLive]
  <2>3. /\ row \in AddressRow /\ row.company = l.company
        /\ row.customer = l.id /\ row.seenLive
    BY <2>1 DEF AddressRow
  <2>4. ~ Stored(addresses, a)
    BY <2>2 DEF Insertable
  <2>5. /\ Refers(customers, l.id, l.company) /\ Finished(h)
        /\ UNCHANGED <<branches, users, technicians, customers>>
    BY <1>2 DEF AddressInsert, Finished
  <2> HIDE DEF row
  <2>6. addresses' = [addresses EXCEPT ![a] = row]
    BY <2>2 DEF row
  <2> QED
    BY <2>3, <2>4, <2>5, <2>6 DEF AddressWritten
<1>3. ASSUME NEW h \in Handlers, AddressUpdate(h)
      PROVE  AddressWritten
  <2> DEFINE a == handler[h].id
             row == [addresses[a] EXCEPT !.edits = @ + 1]
  <2>1. a \in Addresses
    BY <1>3 DEF AddressUpdate, Wired, WiredLocal
  <2>2. /\ addresses[a] \in AddressRow /\ ~ addresses[a].deleted
        /\ Stored(addresses, a)
    BY <1>3, <2>1 DEF TypeOK, AddressUpdate, Reaches, Stored
  <2>3. /\ row \in AddressRow /\ row.company = addresses[a].company
        /\ row.customer = addresses[a].customer
        /\ row.seenLive = addresses[a].seenLive
    BY <2>2 DEF AddressRow
  <2>4. /\ addresses' = [addresses EXCEPT ![a] = row] /\ Finished(h)
        /\ UNCHANGED <<branches, users, technicians, customers>>
    BY <1>3 DEF AddressUpdate, Finished
  <2> HIDE DEF row, a
  <2> QED
    BY <2>1, <2>2, <2>3, <2>4 DEF AddressWritten
<1> QED
  BY <1>1, <1>2, <1>3

\* A free handler owes nothing.
LEMMA IdleLocal ==
    /\ Idle \in HandlerState /\ WiredLocal(Idle) /\ EarnedLocal(Idle)
    /\ Idle.id = None /\ Idle.branch = None
BY DEF Idle, HandlerState, PCs, WiredLocal, EarnedLocal

\* assertBranch passes: the branch is there, and open at its present count.
LEMMA UsableBranch ==
    ASSUME TypeOK, NEW b, NEW k, BranchUsable(b, k)
    PROVE  /\ Closings(b) \in Nat
           /\ b \in Branches => Stored(branches, b) /\ Checked(b, Closings(b))
<1>1. CASE b \in Branches
  <2>1. /\ Stored(branches, b) /\ branches[b] \in BranchRow /\ Open(b)
    BY <1>1 DEF BranchUsable, Reaches, Open, Stored, TypeOK
  <2> QED
    BY <1>1, <2>1 DEF Closings, Checked, BranchRow
<1>2. CASE b \notin Branches
  BY <1>2 DEF Closings
<1> QED
  BY <1>1, <1>2

\* The locals of a request that has passed its first statement.
LEMMA LocalsSteps ==
    ASSUME TypeOK, Wired, Earned,
           \/ \E h \in Handlers, k \in Companies, role \in Roles :
                 PanelRequest(h, k, role)
           \/ \E h \in Handlers : CustomerCheck(h) \/ Abort(h)
    PROVE  LocalsWritten
<1>1. ASSUME NEW h \in Handlers, NEW k \in Companies, NEW role \in Roles,
             CustomerCreate(h, k, role)
      PROVE  LocalsWritten
  <2>1. PICK own \in Branches \union {None}, named \in Branches \union {None} :
           /\ BranchGuard(role, own, named)
           /\ BranchUsable(named, k)
           /\ Begin(h, [Idle EXCEPT !.pc = "customerInsert", !.company = k,
                           !.branch = named, !.seen = Closings(named),
                           !.byAdmin = (role = "admin")])
    BY <1>1 DEF CustomerCreate
  <2> DEFINE n == Closings(named)
             admin == role = "admin"
             local == [Idle EXCEPT !.pc = "customerInsert", !.company = k,
                           !.branch = named, !.seen = n, !.byAdmin = admin]
  <2>2. n \in Nat
    BY <2>1, UsableBranch
  <2>3. named \in Branches => Stored(branches, named) /\ Checked(named, n)
    BY <2>1, UsableBranch
  <2>4. n \in Nat /\ admin \in BOOLEAN
    BY <2>2
  <2>5. named \in Branches => admin
    BY <2>1 DEF BranchGuard
  <2>6. handler' = [handler EXCEPT ![h] = local] /\ UNCHANGED tables
    BY <2>1 DEF Begin
  <2> HIDE DEF n, admin
  <2>7. /\ local \in HandlerState /\ local.pc = "customerInsert"
        /\ local.company = k /\ local.branch = named
        /\ local.seen = n /\ local.byAdmin = admin
    BY <2>4, IdleLocal DEF HandlerState, PCs
  <2> HIDE DEF local
  <2>8. WiredLocal(local)
    BY <2>7, RegistryAssumption DEF WiredLocal
  <2>9. EarnedLocal(local)
    BY <2>3, <2>5, <2>7 DEF EarnedLocal
  <2> QED
    BY <2>6, <2>7, <2>8, <2>9 DEF LocalsWritten
<1>2. ASSUME NEW h \in Handlers, NEW k \in Companies, NEW role \in Roles,
             CustomerGet(h, k, role)
      PROVE  LocalsWritten
  <2>1. PICK c \in Customers, own \in Branches \union {None},
             named \in Branches \union {None, Keep} :
           /\ BranchGuard(role, own, named)
           /\ Begin(h, [Idle EXCEPT !.pc = "customerCheck", !.company = k,
                           !.id = c, !.branch = named,
                           !.byAdmin = (role = "admin")])
    BY <1>2 DEF CustomerGet
  <2> DEFINE admin == role = "admin"
             local == [Idle EXCEPT !.pc = "customerCheck", !.company = k,
                           !.id = c, !.branch = named, !.byAdmin = admin]
  <2>2. admin \in BOOLEAN /\ (named \in Branches => admin)
    BY <2>1 DEF BranchGuard
  <2>3. handler' = [handler EXCEPT ![h] = local] /\ UNCHANGED tables
    BY <2>1 DEF Begin
  <2> HIDE DEF admin
  <2>4. /\ local \in HandlerState /\ local.pc = "customerCheck"
        /\ local.company = k /\ local.id = c /\ local.branch = named
        /\ local.byAdmin = admin
    BY <2>2, IdleLocal DEF HandlerState, PCs
  <2> HIDE DEF local
  <2>5. WiredLocal(local)
    BY <2>4 DEF WiredLocal
  <2>6. EarnedLocal(local)
    BY <2>2, <2>4 DEF EarnedLocal
  <2> QED
    BY <2>3, <2>4, <2>5, <2>6 DEF LocalsWritten
<1>3. ASSUME NEW h \in Handlers, NEW k \in Companies, NEW role \in Roles,
             AddressCreate(h, k, role)
      PROVE  LocalsWritten
  <2>1. PICK c \in Customers :
           /\ Reaches(customers, c, k)
           /\ Begin(h, [Idle EXCEPT !.pc = "addressInsert", !.company = k,
                           !.id = c, !.seenLive = ~ customers[c].deleted])
    BY <1>3 DEF AddressCreate
  <2> DEFINE live == ~ customers[c].deleted
             local == [Idle EXCEPT !.pc = "addressInsert", !.company = k,
                           !.id = c, !.seenLive = live]
  <2>2. live = TRUE
    BY <2>1 DEF Reaches
  <2>3. handler' = [handler EXCEPT ![h] = local] /\ UNCHANGED tables
    BY <2>1 DEF Begin
  <2> HIDE DEF live
  <2>4. /\ local \in HandlerState /\ local.pc = "addressInsert"
        /\ local.company = k /\ local.id = c /\ local.seenLive = TRUE
    BY <2>2, IdleLocal DEF HandlerState, PCs
  <2> HIDE DEF local
  <2>5. WiredLocal(local) /\ EarnedLocal(local)
    BY <2>4 DEF WiredLocal, EarnedLocal
  <2> QED
    BY <2>3, <2>4, <2>5 DEF LocalsWritten
<1>4. ASSUME NEW h \in Handlers, NEW k \in Companies, NEW role \in Roles,
             AddressGet(h, k, role)
      PROVE  LocalsWritten
  <2>1. PICK a \in Addresses :
           Begin(h, [Idle EXCEPT !.pc = "addressUpdate", !.company = k,
                        !.id = a])
    BY <1>4 DEF AddressGet
  <2> DEFINE local == [Idle EXCEPT !.pc = "addressUpdate", !.company = k,
                           !.id = a]
  <2>2. handler' = [handler EXCEPT ![h] = local] /\ UNCHANGED tables
    BY <2>1 DEF Begin
  <2>3. /\ local \in HandlerState /\ local.pc = "addressUpdate"
        /\ local.company = k /\ local.id = a
    BY IdleLocal DEF HandlerState, PCs
  <2> HIDE DEF local
  <2>4. WiredLocal(local) /\ EarnedLocal(local)
    BY <2>3 DEF WiredLocal, EarnedLocal
  <2> QED
    BY <2>2, <2>3, <2>4 DEF LocalsWritten
<1>5. ASSUME NEW h \in Handlers, CustomerCheck(h)
      PROVE  LocalsWritten
  <2> DEFINE l == handler[h]
             n == Closings(l.branch)
             local == [l EXCEPT !.pc = "customerUpdate", !.seen = n]
  <2>1. /\ l \in HandlerState /\ l.pc = "customerCheck"
        /\ WiredLocal(l) /\ EarnedLocal(l)
    BY <1>5 DEF TypeOK, Wired, Earned, CustomerCheck
  <2>2. BranchUsable(l.branch, l.company)
    BY <1>5 DEF CustomerCheck
  <2>3. handler' = [handler EXCEPT ![h] = local] /\ UNCHANGED tables
    BY <1>5 DEF CustomerCheck, Continue
  <2> HIDE DEF l
  <2>4. /\ n \in Nat
        /\ l.branch \in Branches => /\ Stored(branches, l.branch)
                                    /\ Checked(l.branch, n)
    BY <2>2, UsableBranch
  <2> HIDE DEF n
  <2>5. /\ local \in HandlerState /\ local.pc = "customerUpdate"
        /\ local.company = l.company /\ local.id = l.id
        /\ local.branch = l.branch /\ local.seen = n
        /\ local.byAdmin = l.byAdmin
    BY <2>1, <2>4 DEF HandlerState, PCs
  <2> HIDE DEF local
  <2>6. WiredLocal(local)
    BY <2>1, <2>5 DEF WiredLocal
  <2>7. EarnedLocal(local)
    BY <2>1, <2>4, <2>5 DEF EarnedLocal
  <2> QED
    BY <2>3, <2>5, <2>6, <2>7 DEF LocalsWritten
<1>6. ASSUME NEW h \in Handlers, Abort(h)
      PROVE  LocalsWritten
  BY <1>6, IdleLocal DEF Abort, LocalsWritten
<1> QED
  BY <1>1, <1>2, <1>3, <1>4, <1>5, <1>6 DEF PanelRequest

\* No step is of any other kind.
LEMMA StepsHaveKinds ==
    ASSUME TypeOK, Wired, Earned, [Next]_vars
    PROVE  Kinds
<1>1. ASSUME NEW k \in Companies, AdminRequest(k)
      PROVE  Kinds
  BY <1>1, BranchSteps, UserSteps, TechnicianSteps DEF AdminRequest, Kinds
<1>2. ASSUME NEW k \in Companies, ManagerRequest(k)
      PROVE  Kinds
  BY <1>2, CustomerSteps, AddressSteps DEF ManagerRequest, Kinds
<1>3. ASSUME NEW h \in Handlers, NEW k \in Companies, NEW role \in Roles,
             PanelRequest(h, k, role)
      PROVE  Kinds
  BY <1>3, LocalsSteps DEF Kinds
<1>4. ASSUME NEW h \in Handlers, Step(h) \/ Abort(h)
      PROVE  Kinds
  BY <1>4, CustomerSteps, AddressSteps, LocalsSteps DEF Step, Kinds
<1>5. CASE UNCHANGED vars
  BY <1>5 DEF Kinds
<1> QED
  BY <1>1, <1>2, <1>3, <1>4, <1>5 DEF Next

-----------------------------------------------------------------------------
(* What every kind keeps.                                                  *)

\* Empty tables and free handlers satisfy the invariant.
LEMMA InitInv == Init => Inv
<1> SUFFICES ASSUME Init PROVE Inv
  OBVIOUS
<1>1. TypeOK
  BY IdleLocal DEF Init, TypeOK
<1>2. Wired /\ Earned
  BY IdleLocal DEF Init, Wired, Earned
<1>3. CheckedRows /\ ReferencesStayInCompany
  BY DEF Init, CheckedRows, ReferencesStayInCompany, Stored
<1> QED
  BY <1>1, <1>2, <1>3 DEF Inv

\* No kind of step leaves the types.
LEMMA TypesKept ==
    ASSUME TypeOK, Kinds
    PROVE  TypeOK'
<1>1. CASE BranchWritten
  BY <1>1 DEF TypeOK, BranchWritten
<1>2. CASE UserWritten
  BY <1>2 DEF TypeOK, UserWritten
<1>3. CASE TechnicianWritten
  BY <1>3 DEF TypeOK, TechnicianWritten
<1>4. CASE CustomerWritten
  <2>1. customers' \in [Customers -> CustomerRow \union {None}]
    BY <1>4 DEF TypeOK, CustomerWritten
  <2>2. handler' \in [Handlers -> HandlerState]
    BY <1>4, IdleLocal DEF TypeOK, CustomerWritten, Finished
  <2> QED
    BY <1>4, <2>1, <2>2 DEF TypeOK, CustomerWritten
<1>5. CASE AddressWritten
  <2>1. addresses' \in [Addresses -> AddressRow \union {None}]
    BY <1>5 DEF TypeOK, AddressWritten
  <2>2. handler' \in [Handlers -> HandlerState]
    BY <1>5, IdleLocal DEF TypeOK, AddressWritten, Finished
  <2> QED
    BY <1>5, <2>1, <2>2 DEF TypeOK, AddressWritten
<1>6. CASE LocalsWritten
  BY <1>6 DEF TypeOK, LocalsWritten, tables
<1>7. CASE UNCHANGED vars
  BY <1>7 DEF TypeOK, vars
<1> QED
  BY <1>1, <1>2, <1>3, <1>4, <1>5, <1>6, <1>7 DEF Kinds

\* Branches stay, in their company, and count every closing.
LEMMA BranchesKept ==
    ASSUME TypeOK, Kinds, NEW b \in Branches, Stored(branches, b)
    PROVE  /\ Stored(branches, b)'
           /\ branches'[b].company = branches[b].company
           /\ branches[b].deleted => branches'[b] = branches[b]
           /\ \A n \in Nat : Checked(b, n) => Checked(b, n)'
<1>1. CASE UNCHANGED branches
  BY <1>1 DEF Stored, Checked, Open
<1>2. CASE BranchWritten
  <2>1. PICK d \in Branches, row \in BranchRow :
           /\ branches' = [branches EXCEPT ![d] = row]
           /\ Stored(branches, d) =>
                 /\ ~ branches[d].deleted
                 /\ row.company = branches[d].company
                 /\ row.closings >= branches[d].closings
                 /\ Open(d) /\ ~ (row.active /\ ~ row.deleted)
                       => row.closings > branches[d].closings
    BY <1>2 DEF BranchWritten
  <2>2. CASE d # b
    <3>1. branches'[b] = branches[b]
      BY <2>1, <2>2 DEF TypeOK
    <3> QED
      BY <3>1 DEF Stored, Checked, Open
  <2>3. CASE d = b
    <3>1. branches'[b] = row
      BY <2>1, <2>3 DEF TypeOK
    <3>2. /\ branches[b] \in BranchRow /\ row # None
      BY <2>3, RegistryAssumption DEF TypeOK, Stored
    <3>3. ASSUME NEW n \in Nat, Checked(b, n)
          PROVE  Checked(b, n)'
      BY <2>1, <2>3, <3>1, <3>2, <3>3 DEF Checked, Open, BranchRow
    <3> QED
      BY <2>1, <2>3, <3>1, <3>2, <3>3 DEF Stored
  <2> QED
    BY <2>2, <2>3
<1> QED
  BY <1>1, <1>2 DEF Kinds, UserWritten, TechnicianWritten, CustomerWritten,
                    AddressWritten, LocalsWritten, tables, vars

\* What a handler has established stays true whatever the others do.
LEMMA LocalsKept ==
    ASSUME TypeOK, Kinds, Wired, Earned
    PROVE  Wired' /\ Earned'
<1>1. ASSUME NEW h \in Handlers
      PROVE  WiredLocal(handler[h])' /\ EarnedLocal(handler[h])'
  <2>1. CASE handler'[h] = handler[h]
    <3>1. WiredLocal(handler[h]) /\ EarnedLocal(handler[h])
      BY DEF Wired, Earned
    <3>2. handler[h].seen \in Nat
      BY DEF TypeOK, HandlerState
    <3> QED
      BY <2>1, <3>1, <3>2, BranchesKept DEF WiredLocal, EarnedLocal
  <2>2. CASE handler'[h] = Idle
    <3>1. handler'[h].pc = "idle"
      BY <2>2 DEF Idle
    <3> QED
      BY <3>1 DEF WiredLocal, EarnedLocal
  <2>3. CASE LocalsWritten
    <3>1. PICK g \in Handlers, local \in HandlerState :
             /\ handler' = [handler EXCEPT ![g] = local]
             /\ WiredLocal(local) /\ EarnedLocal(local)
             /\ UNCHANGED tables
      BY <2>3 DEF LocalsWritten
    <3>2. CASE g # h
      BY <3>1, <3>2, <2>1 DEF TypeOK
    <3>3. CASE g = h
      <4>1. handler'[h] = local /\ branches' = branches
        BY <3>1, <3>3 DEF TypeOK, tables
      <4> QED
        BY <4>1, <3>1 DEF WiredLocal, EarnedLocal, Stored, Checked, Open
    <3> QED
      BY <3>2, <3>3
  <2>4. handler'[h] = handler[h] \/ handler'[h] = Idle \/ LocalsWritten
    BY DEF Kinds, BranchWritten, UserWritten, TechnicianWritten,
           CustomerWritten, AddressWritten, Finished, TypeOK, vars
  <2> QED
    BY <2>1, <2>2, <2>3, <2>4
<1> QED
  BY <1>1 DEF Wired, Earned

\* Users stay too, in their company.
LEMMA UsersKept ==
    ASSUME TypeOK, Kinds, NEW u \in Users, Stored(users, u)
    PROVE  Stored(users, u)' /\ users'[u].company = users[u].company
<1>1. CASE UNCHANGED users
  BY <1>1 DEF Stored
<1>2. CASE UserWritten
  <2>1. PICK d \in Users, row \in UserRow :
           /\ users' = [users EXCEPT ![d] = row]
           /\ Stored(users, d) => row.company = users[d].company
    BY <1>2 DEF UserWritten
  <2>2. row # None
    BY RegistryAssumption
  <2> QED
    BY <2>1, <2>2 DEF TypeOK, Stored
<1> QED
  BY <1>1, <1>2 DEF Kinds, BranchWritten, TechnicianWritten, CustomerWritten,
                    AddressWritten, LocalsWritten, tables, vars

\* The same of customers, and a deleted one does not change.
LEMMA CustomersKept ==
    ASSUME TypeOK, Kinds, NEW c \in Customers, Stored(customers, c)
    PROVE  /\ Stored(customers, c)'
           /\ customers'[c].company = customers[c].company
           /\ customers[c].deleted => customers'[c] = customers[c]
<1>1. CASE UNCHANGED customers
  BY <1>1 DEF Stored
<1>2. CASE CustomerWritten
  <2>1. PICK d \in Customers, row \in CustomerRow :
           /\ customers' = [customers EXCEPT ![d] = row]
           /\ Stored(customers, d) => /\ ~ customers[d].deleted
                                      /\ row.company = customers[d].company
    BY <1>2 DEF CustomerWritten
  <2>2. row # None
    BY RegistryAssumption
  <2> QED
    BY <2>1, <2>2 DEF TypeOK, Stored
<1> QED
  BY <1>1, <1>2 DEF Kinds, BranchWritten, UserWritten, TechnicianWritten,
                    AddressWritten, LocalsWritten, tables, vars

\* A deleted address does not change.
LEMMA DeletedAddressesKept ==
    ASSUME TypeOK, Kinds, NEW a \in Addresses, Stored(addresses, a),
           addresses[a].deleted
    PROVE  addresses'[a] = addresses[a]
<1>1. CASE AddressWritten
  BY <1>1 DEF AddressWritten, TypeOK, Stored
<1> QED
  BY <1>1 DEF Kinds, BranchWritten, UserWritten, TechnicianWritten,
              CustomerWritten, LocalsWritten, tables, vars

\* So a reference, once it holds, goes on to hold.
LEMMA RefersKept ==
    ASSUME TypeOK, Kinds, NEW k
    PROVE  /\ \A b \in Branches \union {None} :
                 Refers(branches, b, k) => Refers(branches, b, k)'
           /\ \A u \in Users \union {None} :
                 Refers(users, u, k) => Refers(users, u, k)'
           /\ \A c \in Customers :
                 Refers(customers, c, k) => Refers(customers, c, k)'
<1>1. ASSUME NEW b \in Branches \union {None}, Refers(branches, b, k)
      PROVE  Refers(branches, b, k)'
  BY <1>1, BranchesKept DEF Refers
<1>2. ASSUME NEW u \in Users \union {None}, Refers(users, u, k)
      PROVE  Refers(users, u, k)'
  BY <1>2, UsersKept DEF Refers
<1>3. ASSUME NEW c \in Customers, Refers(customers, c, k)
      PROVE  Refers(customers, c, k)'
  BY <1>3, CustomersKept DEF Refers
<1> QED
  BY <1>1, <1>2, <1>3

\* A row was checked, and closings of its branch since then are counted.
LEMMA CheckedRowsKept ==
    ASSUME TypeOK, Kinds, Earned, CheckedRows, ReferencesStayInCompany
    PROVE  CheckedRows'
<1>1. ASSUME NEW c \in Customers, Stored(customers, c)',
             customers'[c].branch # None
      PROVE  Checked(customers[c].branch, customers[c].seen)'
  <2>1. CASE Stored(customers, c) /\ customers'[c].branch = customers[c].branch
             /\ customers'[c].seen = customers[c].seen
    <3>1. /\ Checked(customers[c].branch, customers[c].seen)
          /\ customers[c].branch \in Branches
          /\ Stored(branches, customers[c].branch)
          /\ customers[c].seen \in Nat
      BY <1>1, <2>1 DEF CheckedRows, ReferencesStayInCompany, Refers, TypeOK,
                        CustomerRow, Stored
    <3>2. Checked(customers[c].branch, customers[c].seen)
             => /\ branches'[customers[c].branch].closings >= customers[c].seen
                /\ ~ (/\ branches'[customers[c].branch].active
                      /\ ~ branches'[customers[c].branch].deleted)
                      => branches'[customers[c].branch].closings
                            > customers[c].seen
      BY <3>1, BranchesKept DEF Checked, Open
    <3> QED
      BY <2>1, <3>1, <3>2 DEF Checked, Open
  <2>2. ASSUME NEW h \in Handlers, UNCHANGED branches,
               handler[h].pc \in {"customerInsert", "customerUpdate"},
               customers'[c].branch = handler[h].branch,
               customers'[c].seen = handler[h].seen,
               customers'[c] \in CustomerRow
        PROVE  Checked(customers[c].branch, customers[c].seen)'
    <3>1. EarnedLocal(handler[h]) /\ handler[h].branch \in Branches
      BY <1>1, <2>2 DEF Earned, CustomerRow
    <3> QED
      BY <3>1, <2>2 DEF EarnedLocal, Checked, Open
  <2>3. CASE CustomerWritten
    <3>1. PICK d \in Customers, row \in CustomerRow :
             /\ customers' = [customers EXCEPT ![d] = row]
             /\ \/ /\ Stored(customers, d)
                   /\ row.branch = customers[d].branch
                   /\ row.seen = customers[d].seen
                \/ \E h \in Handlers :
                      /\ handler[h].pc \in {"customerInsert", "customerUpdate"}
                      /\ row.branch = handler[h].branch
                      /\ row.seen = handler[h].seen
             /\ UNCHANGED branches
      BY <2>3 DEF CustomerWritten
    <3>2. CASE d # c
      BY <1>1, <2>1, <3>1, <3>2 DEF TypeOK, Stored
    <3>3. CASE d = c
      <4>1. customers'[c] = row
        BY <3>1, <3>3 DEF TypeOK
      <4> QED
        BY <2>1, <2>2, <3>1, <3>3, <4>1
    <3> QED
      BY <3>2, <3>3
  <2>4. CASE UNCHANGED customers
    BY <1>1, <2>1, <2>4 DEF Stored
  <2> QED
    BY <2>3, <2>4 DEF Kinds, BranchWritten, UserWritten, TechnicianWritten,
                      AddressWritten, LocalsWritten, tables, vars
<1>2. ASSUME NEW a \in Addresses, Stored(addresses, a)'
      PROVE  addresses'[a].seenLive
  <2>1. CASE UNCHANGED addresses
    BY <1>2, <2>1 DEF CheckedRows, Stored
  <2>2. CASE AddressWritten
    BY <1>2, <2>2 DEF AddressWritten, CheckedRows, TypeOK, Stored
  <2> QED
    BY <2>1, <2>2 DEF Kinds, BranchWritten, UserWritten, TechnicianWritten,
                      CustomerWritten, LocalsWritten, tables, vars
<1> QED
  BY <1>1, <1>2 DEF CheckedRows

\* Table by table: a row that is written refers rightly, the others go on to.
LEMMA ReferencesKept ==
    ASSUME TypeOK, Kinds, ReferencesStayInCompany
    PROVE  ReferencesStayInCompany'
<1>1. ASSUME NEW u \in Users, Stored(users, u)'
      PROVE  Refers(branches, users[u].branch, users[u].company)'
  <2>1. CASE Stored(users, u) /\ users'[u] = users[u]
    <3>1. /\ Refers(branches, users[u].branch, users[u].company)
          /\ users[u].branch \in Branches \union {None}
      BY <2>1 DEF ReferencesStayInCompany, TypeOK, UserRow, Stored
    <3> QED
      BY <2>1, <3>1, RefersKept DEF Refers, Stored
  <2>2. CASE UserWritten
    <3>1. PICK d \in Users, row \in UserRow :
             /\ users' = [users EXCEPT ![d] = row]
             /\ Refers(branches, row.branch, row.company)
             /\ UNCHANGED branches
      BY <2>2 DEF UserWritten
    <3>2. CASE d # u
      BY <1>1, <2>1, <3>1, <3>2 DEF TypeOK, Stored
    <3>3. CASE d = u
      BY <3>1, <3>3 DEF TypeOK, Refers, Stored
    <3> QED
      BY <3>2, <3>3
  <2> QED
    BY <1>1, <2>1, <2>2 DEF Kinds, BranchWritten, TechnicianWritten,
       CustomerWritten, AddressWritten, LocalsWritten, tables, vars, Stored
<1>2. ASSUME NEW t \in Technicians, Stored(technicians, t)'
      PROVE  /\ Refers(users, technicians[t].user, technicians[t].company)'
             /\ Refers(branches, technicians[t].branch, technicians[t].company)'
  <2>1. CASE /\ Stored(technicians, t)
             /\ technicians'[t].user = technicians[t].user
             /\ technicians'[t].branch = technicians[t].branch
             /\ technicians'[t].company = technicians[t].company
    <3>1. /\ Refers(users, technicians[t].user, technicians[t].company)
          /\ Refers(branches, technicians[t].branch, technicians[t].company)
          /\ technicians[t].user \in Users \union {None}
          /\ technicians[t].branch \in Branches \union {None}
      BY <2>1 DEF ReferencesStayInCompany, TypeOK, TechnicianRow, Stored
    <3> QED
      BY <2>1, <3>1, RefersKept DEF Refers, Stored
  <2>2. CASE TechnicianWritten
    <3>1. PICK d \in Technicians, row \in TechnicianRow :
             /\ technicians' = [technicians EXCEPT ![d] = row]
             /\ Stored(technicians, d) => row.company = technicians[d].company
             /\ \/ /\ Refers(users, row.user, row.company)
                   /\ Refers(branches, row.branch, row.company)
                \/ /\ Stored(technicians, d)
                   /\ row.user = technicians[d].user
                   /\ row.branch = technicians[d].branch
             /\ UNCHANGED <<branches, users>>
      BY <2>2 DEF TechnicianWritten
    <3>2. CASE d # t
      BY <1>2, <2>1, <3>1, <3>2 DEF TypeOK, Stored
    <3>3. CASE d = t
      <4>1. technicians'[t] = row
        BY <3>1, <3>3 DEF TypeOK
      <4> QED
        BY <2>1, <3>1, <3>3, <4>1 DEF Refers, Stored
    <3> QED
      BY <3>2, <3>3
  <2> QED
    BY <1>2, <2>1, <2>2 DEF Kinds, BranchWritten, UserWritten,
       CustomerWritten, AddressWritten, LocalsWritten, tables, vars, Stored
<1>3. ASSUME NEW c \in Customers, Stored(customers, c)'
      PROVE  Refers(branches, customers[c].branch, customers[c].company)'
  <2>1. CASE /\ Stored(customers, c)
             /\ customers'[c].branch = customers[c].branch
             /\ customers'[c].company = customers[c].company
    <3>1. /\ Refers(branches, customers[c].branch, customers[c].company)
          /\ customers[c].branch \in Branches \union {None}
      BY <2>1 DEF ReferencesStayInCompany, TypeOK, CustomerRow, Stored
    <3> QED
      BY <2>1, <3>1, RefersKept DEF Refers, Stored
  <2>2. CASE CustomerWritten
    <3>1. PICK d \in Customers, row \in CustomerRow :
             /\ customers' = [customers EXCEPT ![d] = row]
             /\ Stored(customers, d) => row.company = customers[d].company
             /\ \/ Stored(customers, d) /\ row.branch = customers[d].branch
                \/ Refers(branches, row.branch, row.company)
             /\ UNCHANGED branches
      BY <2>2 DEF CustomerWritten
    <3>2. CASE d # c
      BY <1>3, <2>1, <3>1, <3>2 DEF TypeOK, Stored
    <3>3. CASE d = c
      <4>1. customers'[c] = row
        BY <3>1, <3>3 DEF TypeOK
      <4> QED
        BY <2>1, <3>1, <3>3, <4>1 DEF Refers, Stored
    <3> QED
      BY <3>2, <3>3
  <2> QED
    BY <1>3, <2>1, <2>2 DEF Kinds, BranchWritten, UserWritten,
       TechnicianWritten, AddressWritten, LocalsWritten, tables, vars, Stored
<1>4. ASSUME NEW a \in Addresses, Stored(addresses, a)'
      PROVE  Refers(customers, addresses[a].customer, addresses[a].company)'
  <2>1. CASE /\ Stored(addresses, a)
             /\ addresses'[a].customer = addresses[a].customer
             /\ addresses'[a].company = addresses[a].company
    <3>1. /\ Refers(customers, addresses[a].customer, addresses[a].company)
          /\ addresses[a].customer \in Customers
      BY <2>1 DEF ReferencesStayInCompany, TypeOK, AddressRow, Stored
    <3> QED
      BY <2>1, <3>1, RefersKept DEF Refers, Stored
  <2>2. CASE AddressWritten
    <3>1. PICK d \in Addresses, row \in AddressRow :
             /\ addresses' = [addresses EXCEPT ![d] = row]
             /\ Stored(addresses, d) => row.company = addresses[d].company
             /\ \/ /\ Stored(addresses, d)
                   /\ row.customer = addresses[d].customer
                \/ Refers(customers, row.customer, row.company)
             /\ UNCHANGED customers
      BY <2>2 DEF AddressWritten
    <3>2. CASE d # a
      BY <1>4, <2>1, <3>1, <3>2 DEF TypeOK, Stored
    <3>3. CASE d = a
      <4>1. addresses'[a] = row
        BY <3>1, <3>3 DEF TypeOK
      <4> QED
        BY <2>1, <3>1, <3>3, <4>1 DEF Refers, Stored
    <3> QED
      BY <3>2, <3>3
  <2> QED
    BY <1>4, <2>1, <2>2 DEF Kinds, BranchWritten, UserWritten,
       TechnicianWritten, CustomerWritten, LocalsWritten, tables, vars, Stored
<1> QED
  BY <1>1, <1>2, <1>3, <1>4 DEF ReferencesStayInCompany

\* The invariant is inductive.
LEMMA InvKept == Inv /\ [Next]_vars => Inv'
<1> SUFFICES ASSUME Inv, [Next]_vars PROVE Inv'
  OBVIOUS
<1>1. Kinds
  BY StepsHaveKinds DEF Inv
<1> QED
  BY <1>1, TypesKept, LocalsKept, CheckedRowsKept, ReferencesKept DEF Inv

\* What every reachable state satisfies.
LEMMA Invariance == Spec => []Inv
BY InitInv, InvKept, PTL DEF Spec

-----------------------------------------------------------------------------
(* The theorems.                                                           *)

\* Whatever the requests of any number of companies and handlers do, the tables
\* hold rows of their type and a handler the locals of its program counter.
THEOREM RegistryTyped == Spec => []TypeOK
<1>1. Inv => TypeOK
  BY DEF Inv
<1> QED
  BY <1>1, Invariance, PTL

\* No request of one company, in any interleaving with those of others, leaves
\* a row that refers to a row of another company.
THEOREM ReferencesInCompany == Spec => []ReferencesStayInCompany
<1>1. Inv => ReferencesStayInCompany
  BY DEF Inv
<1> QED
  BY <1>1, Invariance, PTL

\* A customer under a closed branch was checked before that closing, and an
\* address was given to a customer that was not deleted when it was checked.
THEOREM OrphansExplained == Spec => []OrphansAreExplained
<1>1. Inv => OrphansAreExplained
  BY DEF Inv, CheckedRows, Checked, OrphansAreExplained
<1> QED
  BY <1>1, Invariance, PTL

\* A deleted branch, customer or address stays as it was when it was deleted.
THEOREM DeletedFrozen == Spec => DeletedIsFrozen
<1>1. Inv /\ [Next]_vars =>
         [/\ \A b \in Branches : Stored(branches, b) /\ branches[b].deleted
               => branches'[b] = branches[b]
          /\ \A c \in Customers : Stored(customers, c) /\ customers[c].deleted
               => customers'[c] = customers[c]
          /\ \A a \in Addresses : Stored(addresses, a) /\ addresses[a].deleted
               => addresses'[a] = addresses[a]]_vars
  <2> SUFFICES ASSUME Inv, [Next]_vars
               PROVE  /\ \A b \in Branches :
                            Stored(branches, b) /\ branches[b].deleted
                               => branches'[b] = branches[b]
                      /\ \A c \in Customers :
                            Stored(customers, c) /\ customers[c].deleted
                               => customers'[c] = customers[c]
                      /\ \A a \in Addresses :
                            Stored(addresses, a) /\ addresses[a].deleted
                               => addresses'[a] = addresses[a]
    OBVIOUS
  <2>1. TypeOK /\ Kinds
    BY StepsHaveKinds DEF Inv
  <2> QED
    BY <2>1, BranchesKept, CustomersKept, DeletedAddressesKept
<1> QED
  BY <1>1, Invariance, PTL DEF Spec, DeletedIsFrozen

\* The step that brings a customer under a branch ends a request that BranchGuard
\* let through for an admin.
LEMMA BranchNamedByAdmin ==
    ASSUME TypeOK, Earned, Kinds, NEW c \in Customers, customers'[c] # None,
           customers'[c].branch # None,
           Stored(customers, c) => customers'[c].branch # customers[c].branch
    PROVE  \E h \in Handlers : handler[h].byAdmin /\ handler'[h] # handler[h]
<1>1. customers'[c] # customers[c]
  BY DEF Stored
<1>2. CustomerWritten
  BY <1>1 DEF Kinds, BranchWritten, UserWritten, TechnicianWritten,
              AddressWritten, LocalsWritten, tables, vars
<1>3. PICK d \in Customers, row \in CustomerRow :
         /\ customers' = [customers EXCEPT ![d] = row]
         /\ \/ Stored(customers, d) /\ row.branch = customers[d].branch
            \/ \E h \in Handlers :
                  /\ handler[h].pc \in {"customerInsert", "customerUpdate"}
                  /\ row.branch = handler[h].branch
                  /\ Finished(h)
  BY <1>2 DEF CustomerWritten
<1>4. d = c /\ customers'[c] = row
  BY <1>1, <1>3 DEF TypeOK
<1>5. PICK h \in Handlers :
         /\ handler[h].pc \in {"customerInsert", "customerUpdate"}
         /\ row.branch = handler[h].branch
         /\ Finished(h)
  BY <1>3, <1>4
<1>6. handler[h].branch \in Branches
  BY <1>4, <1>5 DEF CustomerRow
<1>7. handler[h].byAdmin
  BY <1>5, <1>6 DEF Earned, EarnedLocal
<1>8. handler'[h].pc = "idle"
  BY <1>5 DEF Finished, Idle, TypeOK
<1> QED
  BY <1>5, <1>7, <1>8

\* A customer comes under a branch only by the request of an admin.
THEOREM AdminsNameBranches == Spec => OnlyAdminsNameBranches
<1>1. Inv /\ [Next]_vars =>
         [\A c \in Customers :
            LET before == IF Stored(customers, c) THEN customers[c].branch
                                                  ELSE None
            IN customers'[c] # None
                  /\ customers'[c].branch \notin {None, before}
               => \E h \in Handlers : /\ handler[h].byAdmin
                                      /\ handler'[h] # handler[h]]_vars
  <2> SUFFICES ASSUME Inv, [Next]_vars, NEW c \in Customers,
                      customers'[c] # None, customers'[c].branch # None,
                      customers'[c].branch #
                         (IF Stored(customers, c) THEN customers[c].branch
                                                  ELSE None)
               PROVE  \E h \in Handlers : /\ handler[h].byAdmin
                                          /\ handler'[h] # handler[h]
    OBVIOUS
  <2>1. TypeOK /\ Earned /\ Kinds
    BY StepsHaveKinds DEF Inv
  <2> QED
    BY <2>1, BranchNamedByAdmin
<1> QED
  BY <1>1, Invariance, PTL DEF Spec, OnlyAdminsNameBranches

=============================================================================
