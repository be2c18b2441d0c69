------------------------------ MODULE Registry ------------------------------
(***************************************************************************)
(* The registry of the CrewOps API: BranchesService, UsersService.create,  *)
(* TechniciansService, CustomersService and ServiceAddressesService over   *)
(* their five tables, with the guards their controllers put in front.      *)
(*                                                                         *)
(* A request of one statement is one action.  A request that checks in one *)
(* statement and writes in another keeps a handler in between, and other   *)
(* requests interleave: no service opens a transaction.  Rows are never    *)
(* removed, only marked deleted.  The constraints of the schema (unique    *)
(* keys, composite foreign keys) decide with the statement that writes.    *)
(*                                                                         *)
(* A row keeps what the constraints and the checks look at, and `edits`    *)
(* for the columns that only change.  "history" fields are read by no      *)
(* action: they let a property speak about the past.                       *)
(***************************************************************************)
EXTENDS Integers, FiniteSets

CONSTANTS
    Companies,    \* rows of `companies`
    Branches, Users, Technicians, Customers, Addresses,
                  \* ids of the rows each table may come to hold (bound)
    Keys,         \* values of code, email and document
    Handlers,     \* slots for requests that take several statements (bound)
    None,         \* SQL NULL, an absent row, an unset local
    Keep,         \* a field the body of a PATCH leaves out
    MaxRows,      \* bound: rows inserted, over all tables
    MaxEdits,     \* bound: edits of one customer or address
    MaxClosings   \* bound: times one branch is closed

Roles ==
    {"admin", "gestor_operacional", "atendente", "despachante", "tecnico"}

BranchRow == [company : Companies, code : Keys, active : BOOLEAN,
              deleted : BOOLEAN,
              closings : Nat]      \* history: times it stopped being open
UserRow == [company : Companies, email : Keys, branch : Branches \union {None}]
TechnicianRow == [company : Companies, user : Users \union {None},
                  branch : Branches \union {None}, deleted : BOOLEAN]
CustomerRow == [company : Companies, document : Keys \union {None},
                branch : Branches \union {None}, deleted : BOOLEAN,
                edits : Nat,
                seen : Nat]        \* history: closings of the branch when it
                                   \* was checked for this row
AddressRow == [company : Companies, customer : Customers, deleted : BOOLEAN,
               edits : Nat,
               seenLive : BOOLEAN] \* history: the customer was not deleted
                                   \* when it was checked for this row

ASSUME RegistryAssumption ==
    /\ MaxRows \in Nat /\ MaxEdits \in Nat /\ MaxClosings \in Nat
    /\ None \notin Branches \union Users \union Customers \union Keys
    /\ Keep \notin Branches \union Keys \union {None}
    /\ None \notin BranchRow \union UserRow \union TechnicianRow
    /\ None \notin CustomerRow \union AddressRow

VARIABLES
    branches, users, technicians, customers, addresses,   \* id -> row or None
    handler       \* handler[h]: program counter and locals of a request

tables == <<branches, users, technicians, customers, addresses>>
vars == <<branches, users, technicians, customers, addresses, handler>>

PCs == {"idle", "customerInsert", "customerCheck", "customerUpdate",
        "addressInsert", "addressUpdate"}

Idle == [pc |-> "idle", company |-> None, id |-> None,
         branch |-> None, seen |-> 0, seenLive |-> FALSE,
         byAdmin |-> FALSE]         \* history: the role past the guards

HandlerState ==
    [pc : PCs, company : Companies \union {None},
     id : Customers \union Addresses \union {None},
     branch : Branches \union {None, Keep}, seen : Nat, seenLive : BOOLEAN,
     byAdmin : BOOLEAN]

TypeOK ==
    /\ branches \in [Branches -> BranchRow \union {None}]
    /\ users \in [Users -> UserRow \union {None}]
    /\ technicians \in [Technicians -> TechnicianRow \union {None}]
    /\ customers \in [Customers -> CustomerRow \union {None}]
    /\ addresses \in [Addresses -> AddressRow \union {None}]
    /\ handler \in [Handlers -> HandlerState]

-----------------------------------------------------------------------------
(* What the statements look at.                                            *)

Stored(table, id) == table[id] # None

\* The filter of every read and write by id: own company, not deleted.
Reaches(table, id, k) ==
    Stored(table, id) /\ table[id].company = k /\ ~ table[id].deleted

Open(b) == branches[b].active /\ ~ branches[b].deleted

\* A composite foreign key: NULL, or a row of the same company, deleted or not.
Refers(table, id, k) ==
    id # None => Stored(table, id) /\ table[id].company = k

\* A unique key (company_id, column): rows of NULL do not meet, deleted rows do.
Free(table, column, k, value, self) ==
    value # None =>
       \A id \in DOMAIN table \ {self} :
          Stored(table, id) /\ table[id].company = k => table[id][column] # value

RowsInserted ==
    Cardinality({b \in Branches : Stored(branches, b)})
    + Cardinality({u \in Users : Stored(users, u)})
    + Cardinality({t \in Technicians : Stored(technicians, t)})
    + Cardinality({c \in Customers : Stored(customers, c)})
    + Cardinality({a \in Addresses : Stored(addresses, a)})

Insertable(table, id) == ~ Stored(table, id) /\ RowsInserted < MaxRows

-----------------------------------------------------------------------------
(* The guards before a handler.                                            *)

Panel == {"admin", "gestor_operacional", "atendente", "despachante"}
Managers == {"admin", "gestor_operacional"}

\* BranchGuard on a write: `named` is body.branchId, which may be null or left
\* out, and `own` the branch of the user.
\* Mutant: the guard stops at the scope of the branch and lets every write in
\* it through.
BranchGuardByScope(role, own, named) ==
    named \in Branches => (named = own \/ role \in Managers)

BranchGuard(role, own, named) ==
    named \in Branches => /\ (named = own \/ role \in Managers)
                          /\ role = "admin"

-----------------------------------------------------------------------------
(* Branches, users and technicians: one statement each, by an admin.       *)

BranchCreate(b, k) ==
    /\ Insertable(branches, b)
    /\ \E code \in Keys, active \in BOOLEAN :
          /\ Free(branches, "code", k, code, b)
          /\ branches' = [branches EXCEPT ![b] =
                [company |-> k, code |-> code, active |-> active,
                 deleted |-> FALSE, closings |-> IF active THEN 0 ELSE 1]]
    /\ UNCHANGED <<users, technicians, customers, addresses, handler>>

\* Closes b, or leaves it closed, and counts a closing of an open branch.
Closed(b, row) ==
    IF Open(b) THEN [row EXCEPT !.closings = @ + 1] ELSE row

BranchUpdate(b, k) ==
    /\ Reaches(branches, b, k)
    /\ \E code \in Keys, active \in BOOLEAN :
          LET row == [branches[b] EXCEPT !.code = code, !.active = active] IN
          /\ Free(branches, "code", k, code, b)
          /\ ~ active => branches[b].closings < MaxClosings
          /\ branches' = [branches EXCEPT ![b] =
                             IF active THEN row ELSE Closed(b, row)]
    /\ UNCHANGED <<users, technicians, customers, addresses, handler>>

BranchDeactivate(b, k) ==
    /\ Reaches(branches, b, k)
    /\ branches[b].closings < MaxClosings
    /\ branches' = [branches EXCEPT ![b] =
          Closed(b, [@ EXCEPT !.active = FALSE, !.deleted = TRUE])]
    /\ UNCHANGED <<users, technicians, customers, addresses, handler>>

\* The columns of a user that other tables or constraints look at; role, status
\* and password are those of Sessions.
UserWrite(u, k, email, branch) ==
    /\ Free(users, "email", k, email, u)
    /\ Refers(branches, branch, k)
    /\ users' = [users EXCEPT ![u] =
                    [company |-> k, email |-> email, branch |-> branch]]
    /\ UNCHANGED <<branches, technicians, customers, addresses, handler>>

UserCreate(u, k) ==
    /\ Insertable(users, u)
    /\ \E email \in Keys, branch \in Branches \union {None} :
          UserWrite(u, k, email, branch)

UserUpdate(u, k) ==
    /\ Stored(users, u) /\ users[u].company = k
    /\ \E email \in Keys, branch \in Branches \union {None} :
          UserWrite(u, k, email, branch)

\* Mutant: the foreign key to users is on the id alone.
TechnicianWriteById(t, k, user, branch) ==
    /\ Free(technicians, "user", k, user, t)
    /\ user # None => Stored(users, user)
    /\ Refers(branches, branch, k)
    /\ technicians' = [technicians EXCEPT ![t] =
          [company |-> k, user |-> user, branch |-> branch, deleted |-> FALSE]]
    /\ UNCHANGED <<branches, users, customers, addresses, handler>>

TechnicianWrite(t, k, user, branch) ==
    /\ Free(technicians, "user", k, user, t)
    /\ Refers(users, user, k)
    /\ Refers(branches, branch, k)
    /\ technicians' = [technicians EXCEPT ![t] =
          [company |-> k, user |-> user, branch |-> branch, deleted |-> FALSE]]
    /\ UNCHANGED <<branches, users, customers, addresses, handler>>

TechnicianCreate(t, k) ==
    /\ Insertable(technicians, t)
    /\ \E user \in Users \union {None}, branch \in Branches \union {None} :
          TechnicianWrite(t, k, user, branch)

TechnicianUpdate(t, k) ==
    /\ Reaches(technicians, t, k)
    /\ \E user \in Users \union {None}, branch \in Branches \union {None} :
          TechnicianWrite(t, k, user, branch)

TechnicianDeactivate(t, k) ==
    /\ Reaches(technicians, t, k)
    /\ technicians' = [technicians EXCEPT ![t].deleted = TRUE]
    /\ UNCHANGED <<branches, users, customers, addresses, handler>>

-----------------------------------------------------------------------------
(* Customers: a check of the branch, then the write.                       *)

Begin(h, local) ==
    /\ handler[h].pc = "idle"
    /\ handler' = [handler EXCEPT ![h] = local]
    /\ UNCHANGED tables

Continue(h, local) ==
    /\ handler' = [handler EXCEPT ![h] = local]
    /\ UNCHANGED tables

\* assertBranch: only a branch that is named is looked up.
BranchUsable(b, k) ==
    b \in Branches => Reaches(branches, b, k) /\ branches[b].active

Closings(b) == IF b \in Branches THEN branches[b].closings ELSE 0

CustomerCreate(h, k, role) ==
    \E own \in Branches \union {None}, named \in Branches \union {None} :
       /\ role \in Panel
       /\ BranchGuard(role, own, named)
       /\ BranchUsable(named, k)
       /\ Begin(h, [Idle EXCEPT !.pc = "customerInsert", !.company = k,
                       !.branch = named, !.seen = Closings(named),
                       !.byAdmin = (role = "admin")])

CustomerInsert(h) ==
    LET l == handler[h] IN
    /\ l.pc = "customerInsert"
    /\ \E c \in Customers, document \in Keys \union {None} :
          /\ Insertable(customers, c)
          /\ Free(customers, "document", l.company, document, c)
          /\ Refers(branches, l.branch, l.company)
          /\ customers' = [customers EXCEPT ![c] =
                [company |-> l.company, document |-> document,
                 branch |-> l.branch, deleted |-> FALSE, edits |-> 0,
                 seen |-> l.seen]]
    /\ handler' = [handler EXCEPT ![h] = Idle]
    /\ UNCHANGED <<branches, users, technicians, addresses>>

CustomerGet(h, k, role) ==
    \E c \in Customers, own \in Branches \union {None},
       named \in Branches \union {None, Keep} :
       /\ role \in Panel
       /\ BranchGuard(role, own, named)
       /\ Reaches(customers, c, k)
       /\ Begin(h, [Idle EXCEPT !.pc = "customerCheck", !.company = k,
                       !.id = c, !.branch = named,
                       !.byAdmin = (role = "admin")])

\* Mutant: the branch is asserted for new customers only.
CustomerCheckNothing(h) ==
    LET l == handler[h] IN
    /\ l.pc = "customerCheck"
    /\ l.branch \in Branches => Stored(branches, l.branch)
    /\ Continue(h, [l EXCEPT !.pc = "customerUpdate",
                       !.seen = Closings(l.branch)])

CustomerCheck(h) ==
    LET l == handler[h] IN
    /\ l.pc = "customerCheck"
    /\ BranchUsable(l.branch, l.company)
    /\ Continue(h, [l EXCEPT !.pc = "customerUpdate",
                       !.seen = Closings(l.branch)])

\* Mutant: a branchId left out of the body is written like any other value.
CustomerEditedInFull(row, l, document) ==
    [row EXCEPT !.document = document, !.edits = @ + 1,
                !.branch = l.branch, !.seen = l.seen]

\* The row after an UPDATE that leaves out branchId, or names one.
CustomerEdited(row, l, document) ==
    LET edited == [row EXCEPT !.document = document, !.edits = @ + 1] IN
    IF l.branch = Keep THEN edited
    ELSE [edited EXCEPT !.branch = l.branch, !.seen = l.seen]

\* Mutant: the UPDATE trusts the row that `get` found.
CustomerUpdateById(h) ==
    LET l == handler[h] IN
    /\ l.pc = "customerUpdate"
    /\ customers[l.id].edits < MaxEdits
    /\ \E document \in Keys \union {None} :
          /\ Free(customers, "document", l.company, document, l.id)
          /\ customers' = [customers EXCEPT
                              ![l.id] = CustomerEdited(@, l, document)]
    /\ handler' = [handler EXCEPT ![h] = Idle]
    /\ UNCHANGED <<branches, users, technicians, addresses>>

CustomerUpdate(h) ==
    LET l == handler[h] IN
    /\ l.pc = "customerUpdate"
    /\ Reaches(customers, l.id, l.company)
    /\ customers[l.id].edits < MaxEdits
    /\ \E document \in Keys \union {None} :
          /\ Free(customers, "document", l.company, document, l.id)
          /\ l.branch # Keep => Refers(branches, l.branch, l.company)
          /\ customers' = [customers EXCEPT
                              ![l.id] = CustomerEdited(@, l, document)]
    /\ handler' = [handler EXCEPT ![h] = Idle]
    /\ UNCHANGED <<branches, users, technicians, addresses>>

CustomerDeactivate(c, k) ==
    /\ Reaches(customers, c, k)
    /\ customers' = [customers EXCEPT ![c].deleted = TRUE]
    /\ UNCHANGED <<branches, users, technicians, addresses, handler>>

-----------------------------------------------------------------------------
(* Service addresses: a check of the customer, then the write.             *)

AddressCreate(h, k, role) ==
    \E c \in Customers :
       /\ role \in Panel
       /\ Reaches(customers, c, k)
       /\ Begin(h, [Idle EXCEPT !.pc = "addressInsert", !.company = k,
                       !.id = c, !.seenLive = ~ customers[c].deleted])

AddressInsert(h) ==
    LET l == handler[h] IN
    /\ l.pc = "addressInsert"
    /\ Refers(customers, l.id, l.company)
    /\ \E a \in Addresses :
          /\ Insertable(addresses, a)
          /\ addresses' = [addresses EXCEPT ![a] =
                [company |-> l.company, customer |-> l.id, deleted |-> FALSE,
                 edits |-> 0, seenLive |-> l.seenLive]]
    /\ handler' = [handler EXCEPT ![h] = Idle]
    /\ UNCHANGED <<branches, users, technicians, customers>>

AddressGet(h, k, role) ==
    \E a \in Addresses :
       /\ role \in Panel
       /\ Reaches(addresses, a, k)
       /\ Begin(h, [Idle EXCEPT !.pc = "addressUpdate", !.company = k,
                       !.id = a])

AddressUpdate(h) ==
    LET l == handler[h] IN
    /\ l.pc = "addressUpdate"
    /\ Reaches(addresses, l.id, l.company)
    /\ addresses[l.id].edits < MaxEdits
    /\ addresses' = [addresses EXCEPT ![l.id].edits = @ + 1]
    /\ handler' = [handler EXCEPT ![h] = Idle]
    /\ UNCHANGED <<branches, users, technicians, customers>>

AddressRemove(a, k) ==
    /\ Reaches(addresses, a, k)
    /\ addresses' = [addresses EXCEPT ![a].deleted = TRUE]
    /\ UNCHANGED <<branches, users, technicians, customers, handler>>

\* A check finds no row, a constraint refuses the write, a statement fails or
\* the process stops: the request ends and no table changes.
Abort(h) ==
    /\ handler[h].pc # "idle"
    /\ handler' = [handler EXCEPT ![h] = Idle]
    /\ UNCHANGED tables

-----------------------------------------------------------------------------
Init ==
    /\ branches = [b \in Branches |-> None]
    /\ users = [u \in Users |-> None]
    /\ technicians = [t \in Technicians |-> None]
    /\ customers = [c \in Customers |-> None]
    /\ addresses = [a \in Addresses |-> None]
    /\ handler = [h \in Handlers |-> Idle]

\* The requests of one statement; all are refused to other roles.
AdminRequest(k) ==
    \/ \E b \in Branches :
          BranchCreate(b, k) \/ BranchUpdate(b, k) \/ BranchDeactivate(b, k)
    \/ \E u \in Users : UserCreate(u, k) \/ UserUpdate(u, k)
    \/ \E t \in Technicians :
          \/ TechnicianCreate(t, k) \/ TechnicianUpdate(t, k)
          \/ TechnicianDeactivate(t, k)

ManagerRequest(k) ==
    \/ \E c \in Customers : CustomerDeactivate(c, k)
    \/ \E a \in Addresses : AddressRemove(a, k)

PanelRequest(h, k, role) ==
    \/ CustomerCreate(h, k, role) \/ CustomerGet(h, k, role)
    \/ AddressCreate(h, k, role) \/ AddressGet(h, k, role)

Step(h) ==
    \/ CustomerInsert(h) \/ CustomerCheck(h) \/ CustomerUpdate(h)
    \/ AddressInsert(h) \/ AddressUpdate(h)

Next ==
    \/ \E k \in Companies : AdminRequest(k) \/ ManagerRequest(k)
    \/ \E h \in Handlers, k \in Companies, role \in Roles :
          PanelRequest(h, k, role)
    \/ \E h \in Handlers : Step(h) \/ Abort(h)

Spec == Init /\ [][Next]_vars

-----------------------------------------------------------------------------
(* Properties.                                                             *)

\* Every reference stays in the company of the row that holds it, however the
\* requests of two companies interleave: technicians.service.ts and
\* users.service.ts check no reference themselves and rely on the composite
\* keys, and a reference checked in one statement is used in another.
ReferencesStayInCompany ==
    /\ \A u \in Users : Stored(users, u) =>
          Refers(branches, users[u].branch, users[u].company)
    /\ \A t \in Technicians : Stored(technicians, t) =>
          /\ Refers(users, technicians[t].user, technicians[t].company)
          /\ Refers(branches, technicians[t].branch, technicians[t].company)
    /\ \A c \in Customers : Stored(customers, c) =>
          Refers(branches, customers[c].branch, customers[c].company)
    /\ \A a \in Addresses : Stored(addresses, a) =>
          Refers(customers, addresses[a].customer, addresses[a].company)

\* A customer hangs on a closed branch, or an address on a deleted customer,
\* only when the closing came after the check made for that row: the window
\* between assertBranch or assertCustomer and the write, or any time later.
OrphansAreExplained ==
    /\ \A c \in Customers :
          Stored(customers, c) /\ customers[c].branch # None
             /\ ~ Open(customers[c].branch)
          => branches[customers[c].branch].closings > customers[c].seen
    /\ \A a \in Addresses : Stored(addresses, a) => addresses[a].seenLive

\* A deleted row never changes again, although `get` and the UPDATE are two
\* statements and a deletion may come in between.
DeletedIsFrozen ==
    [][/\ \A b \in Branches : Stored(branches, b) /\ branches[b].deleted
             => branches'[b] = branches[b]
       /\ \A c \in Customers : Stored(customers, c) /\ customers[c].deleted
             => customers'[c] = customers[c]
       /\ \A a \in Addresses : Stored(addresses, a) /\ addresses[a].deleted
             => addresses'[a] = addresses[a]]_vars

\* A customer comes under a branch only by the request of an admin
\* (branch.guard.ts), even when the request that changes the row started while
\* the customer was under another branch, or under none.
OnlyAdminsNameBranches ==
    [][\A c \in Customers :
         LET before == IF Stored(customers, c) THEN customers[c].branch ELSE None
         IN customers'[c] # None
               /\ customers'[c].branch \notin {None, before}
            => \E h \in Handlers : /\ handler[h].byAdmin
                                   /\ handler'[h] # handler[h]]_vars

=============================================================================
