---------------------------- MODULE CustomersPage ----------------------------
(***************************************************************************)
(* The list of customers of the panel (CustomersPage.tsx) over             *)
(* CustomersService.list: filters, pages by offset, requests that overlap  *)
(* and are never cancelled, and other users who add, remove and edit       *)
(* customers meanwhile.                                                    *)
(*                                                                         *)
(* The search, status and branch of the page are one filter here: a set of *)
(* customers that an edit may enter or leave, or no filter at all.  A page *)
(* is the set of its customers: those whose rank in the list falls between *)
(* its offset and the next.  A page and its total come from two statements *)
(* that run at the same time.                                              *)
(***************************************************************************)
EXTENDS Integers, Sequences, FiniteSets

CONSTANTS
    Customers,    \* ids
    PageSize,     \* customers of a page (20)
    MaxInFlight,  \* bound: requests not yet answered
    MaxInitial,   \* bound: customers there at first
    MaxChanges,   \* bound: changes made by other users
    None          \* nothing shown, not yet read

Filters == {"all", "narrow"}
Totals == 0 .. Cardinality(Customers)
Pages == 1 .. (1 + Cardinality(Customers))
ShownRecord == [filter : Filters, page : Pages, total : Totals, late : BOOLEAN]

ASSUME PageAssumption ==
    /\ PageSize \in Nat \ {0} /\ MaxInFlight \in Nat
    /\ MaxInitial \in Nat /\ MaxChanges \in Nat
    /\ IsFiniteSet(Customers)      \* uuids
    /\ None \notin Nat /\ None \notin ShownRecord /\ \A page \in SUBSET Customers : page # None

VARIABLES
    list,         \* the customers not deleted, newest first
    matching,     \* those of them that the narrow filter lets through
    changes,      \* changes made so far
    view,         \* the state of the page: ready, filter, page, error
    requests,     \* in the order they were sent
    shown,        \* the answer on the screen without its items, or None
    walk          \* history: the pages 1, 2, ... shown one after the other

vars == <<list, matching, changes, view, requests, shown, walk>>

Through(filter, c) == filter = "all" \/ c \in matching

ToSet(s) == {s[i] : i \in DOMAIN s}

\* The WHERE of both statements.
Rows(filter) == {c \in ToSet(list) : Through(filter, c)}

\* The ORDER BY: c comes no later than d.
Precedes(c, d) ==
    \E i, j \in DOMAIN list : i <= j /\ list[i] = c /\ list[j] = d

\* The place of a customer among the rows of a filter, from 1.
Rank(filter, c) == Cardinality({d \in Rows(filter) : Precedes(d, c)})

\* What happened to the list of a filter since some page of it was read.
NoHistory == [stay |-> {},       \* customers in it all the time; {} once `left`
              left |-> FALSE, entered |-> FALSE]

Request(filter, page) ==
    [filter |-> filter, page |-> page, items |-> None, total |-> None,
     since |-> NoHistory,
     split |-> FALSE,            \* history: a change between its statements
     turned |-> shown # None /\ shown.filter = filter /\ shown.page = page - 1,
                                 \* history: sent from the page before it, which
                                 \* is still shown
     late |-> FALSE]             \* history: a later request was answered before

NoWalk == [filter |-> "all", pages |-> 0, seen |-> {}, repeats |-> FALSE,
           split |-> FALSE, since |-> NoHistory]

SinceRecord == [stay : SUBSET Customers, left : BOOLEAN, entered : BOOLEAN]

RequestRecord ==
    [filter : Filters, page : Pages,
     items : {p \in SUBSET Customers : Cardinality(p) <= PageSize} \union {None},
     total : Totals \union {None},
     since : SinceRecord, split : BOOLEAN, turned : BOOLEAN, late : BOOLEAN]

TypeOK ==
    /\ list \in Seq(Customers) /\ matching \subseteq ToSet(list)
    /\ \A i, j \in DOMAIN list : list[i] = list[j] => i = j
    /\ changes \in 0..MaxChanges
    /\ view \in [ready : {"no", "yes", "left"}, filter : Filters, page : Pages,
                 error : BOOLEAN]
    /\ requests \in Seq(RequestRecord) /\ Len(requests) <= MaxInFlight
    /\ shown \in ShownRecord \union {None}
    /\ walk \in [filter : Filters, pages : {0} \union Pages,
                 seen : SUBSET Customers, repeats : BOOLEAN, split : BOOLEAN,
                 since : SinceRecord]

Init ==
    /\ \E n \in 0..MaxInitial :
          list \in {s \in [1..n -> Customers] :
                       \A i, j \in 1..n : s[i] = s[j] => i = j}
    /\ matching \in SUBSET ToSet(list)
    /\ changes = 0
    /\ view = [ready |-> "no", filter |-> "all", page |-> 1, error |-> FALSE]
    /\ requests = <<>>
    /\ shown = None
    /\ walk = NoWalk

-----------------------------------------------------------------------------
(* The page.                                                               *)

\* Mutant: the effect does not depend on the page.
SendForFilter(v) ==
    /\ Len(requests) < MaxInFlight
    /\ view' = v
    /\ requests' = IF v.filter = view.filter /\ view.ready = "yes" THEN requests
                   ELSE Append(requests, Request(v.filter, v.page))

\* The effect on [ready, search, status, branchId, page].
Send(v) ==
    /\ Len(requests) < MaxInFlight
    /\ view' = v
    /\ requests' = Append(requests, Request(v.filter, v.page))

\* useAuth lets the page through.
Ready ==
    /\ view.ready = "no"
    /\ Send([view EXCEPT !.ready = "yes"])
    /\ UNCHANGED <<list, matching, changes, shown, walk>>

\* Any filter change goes back to the first page.
ChangeFilter(filter) ==
    /\ view.ready = "yes" /\ filter # view.filter
    /\ Send([view EXCEPT !.filter = filter, !.page = 1])
    /\ UNCHANGED <<list, matching, changes, shown, walk>>

Previous ==
    /\ view.ready = "yes" /\ view.page # 1
    /\ Send([view EXCEPT !.page = @ - 1])
    /\ UNCHANGED <<list, matching, changes, shown, walk>>

\* Mutant: "next" looks at nothing but the presence of an answer.
MoreAlways(page) == shown # None

More(page) == shown # None /\ page * PageSize < shown.total

Following ==
    /\ view.ready = "yes" /\ More(view.page)
    /\ Send([view EXCEPT !.page = @ + 1])
    /\ UNCHANGED <<list, matching, changes, shown, walk>>

\* The walk goes on when the next page of the same list arrives, and begins
\* anew with a first page.
Walked(r) ==
    IF r.page = 1
    THEN [filter |-> r.filter, pages |-> 1, seen |-> r.items, repeats |-> FALSE,
          split |-> r.split, since |-> r.since]
    ELSE IF r.page = walk.pages + 1 /\ r.filter = walk.filter /\ r.turned
    THEN [walk EXCEPT !.pages = @ + 1, !.seen = @ \union r.items,
                      !.repeats = @ \/ r.items \cap walk.seen # {},
                      !.split = @ \/ r.split]
    ELSE NoWalk

Removed(s, i) == [j \in 1 .. (Len(s) - 1) |-> s[IF j < i THEN j ELSE j + 1]]

\* An answer is shown, whichever request it is the answer to.
Receive(i) ==
    LET r == requests[i]
        others == [j \in DOMAIN requests |->
                     [requests[j] EXCEPT !.late = @ \/ j < i, !.turned = FALSE]]
    IN /\ view.ready = "yes" /\ r.items # None /\ r.total # None
       /\ requests' = Removed(others, i)
       /\ shown' = [filter |-> r.filter, page |-> r.page, total |-> r.total,
                    late |-> r.late]
       /\ walk' = Walked(r)
       /\ UNCHANGED <<list, matching, changes, view>>

\* The request fails: the error is shown, for good, beside what was there.
Fail(i) ==
    /\ view.ready = "yes"
    /\ requests' = Removed(requests, i)
    /\ view' = [view EXCEPT !.error = TRUE]
    /\ UNCHANGED <<list, matching, changes, shown, walk>>

\* The session is over (401), or the user goes elsewhere.
Leave ==
    /\ view.ready = "yes"
    /\ view' = [view EXCEPT !.ready = "left"]
    /\ requests' = <<>>
    /\ UNCHANGED <<list, matching, changes, shown, walk>>

-----------------------------------------------------------------------------
(* CustomersService.list: its two statements.                              *)

\* Mutant: pages counted from 0.
OffsetFromZero(page) == page * PageSize

Offset(page) == (page - 1) * PageSize

PageOf(filter, page) ==
    {c \in Rows(filter) :
        Rank(filter, c) \in (Offset(page) + 1) .. (Offset(page) + PageSize)}

ReadItems(i) ==
    LET r == requests[i] IN
    /\ r.items = None
    /\ requests' = [requests EXCEPT
          ![i].items = PageOf(r.filter, r.page),
          ![i].since = [stay |-> Rows(r.filter), left |-> FALSE, entered |-> FALSE]]
    /\ UNCHANGED <<list, matching, changes, view, shown, walk>>

ReadTotal(i) ==
    /\ requests[i].total = None
    /\ requests' = [requests EXCEPT ![i].total =
                                          Cardinality(Rows(requests[i].filter))]
    /\ UNCHANGED <<list, matching, changes, view, shown, walk>>

-----------------------------------------------------------------------------
(* Other users.                                                            *)

\* The history of a filter whose list was `before` and is `after`.
Aged(since, before, after) ==
    [stay |-> IF before \ after # {} THEN {} ELSE since.stay,
     left |-> since.left \/ before \ after # {},
     entered |-> since.entered \/ after \ before # {}]

Change(newList, newMatching) ==
    LET after(filter) == IF filter = "all" THEN ToSet(newList) ELSE newMatching
        aged(since, filter) == Aged(since, Rows(filter), after(filter))
    IN /\ changes < MaxChanges
       /\ changes' = changes + 1
       /\ view.ready # "left"
       /\ list' = newList
       /\ matching' = newMatching
       /\ requests' = [i \in DOMAIN requests |->
             LET r == requests[i] IN
             [r EXCEPT !.since = IF r.items = None THEN @ ELSE aged(r.since, r.filter),
                       !.split = @ \/ (r.items = None) # (r.total = None)]]
       /\ walk' = IF walk.pages = 0 THEN walk
                  ELSE [walk EXCEPT !.since = aged(walk.since, walk.filter)]
       /\ UNCHANGED <<view, shown>>

Add(c) ==
    /\ c \notin ToSet(list)
    /\ \E into \in BOOLEAN :
          Change(<<c>> \o list, IF into THEN matching \union {c} ELSE matching)

Remove(c) ==
    \E i \in DOMAIN list :
       /\ list[i] = c
       /\ Change(Removed(list, i), matching \ {c})

\* An edit that takes the customer into the filter, or out of it.
Edit(c) ==
    /\ c \in ToSet(list)
    /\ Change(list, IF c \in matching THEN matching \ {c} ELSE matching \union {c})

Next ==
    \/ Ready \/ Previous \/ Following \/ Leave
    \/ \E filter \in Filters : ChangeFilter(filter)
    \/ \E i \in DOMAIN requests :
          Receive(i) \/ Fail(i) \/ ReadItems(i) \/ ReadTotal(i)
    \/ \E c \in Customers : Add(c) \/ Remove(c) \/ Edit(c)

Spec == Init /\ [][Next]_vars

-----------------------------------------------------------------------------
(* Properties.                                                             *)

\* A page at rest shows the list its filter and page number ask for, unless a
\* request failed or the answer on the screen came after that of a later one:
\* the only two ways in which CustomersPage.tsx:29-41 goes wrong.
StaleIsExplained ==
    view.ready = "yes" /\ requests = <<>> /\ ~ view.error
       /\ (shown.filter # view.filter \/ shown.page # view.page)
    => shown.late

\* The user reads page after page.  No customer comes twice, unless another
\* entered the list meanwhile.  By the last page every customer that was in the
\* list all the time has come, unless another left the list, or a change fell
\* between the two statements of a page.
PagesTileTheList ==
    /\ walk.repeats => walk.since.entered
    /\ walk.pages > 0 /\ shown.page = walk.pages /\ shown.filter = walk.filter
          /\ ~ More(walk.pages) /\ ~ walk.since.left /\ ~ walk.split
       => walk.since.stay \subseteq walk.seen

=============================================================================
