------------------------- MODULE CustomersPageProofs -------------------------
(***************************************************************************)
(* Theorems about CustomersPage, for any number of customers, page size,   *)
(* requests in flight and changes.                                         *)
(*                                                                         *)
(* The pages tile the list because of where the customers stand while it   *)
(* changes: as long as none leaves the list no rank gets smaller, so the   *)
(* customers still to come stay behind the pages that were shown; as long  *)
(* as none enters it no rank gets larger, so those that came stay in them. *)
(***************************************************************************)
EXTENDS CustomersPage, FiniteSetTheorems, SequenceTheorems, TLAPS

-----------------------------------------------------------------------------
(* The invariant.                                                          *)

\* After pages 1..k of a filter, which showed S: what is still to come.
Ahead(filter, k, S, since) ==
    ~ since.left => \A c \in since.stay \ S :
                       c \in Rows(filter) /\ Rank(filter, c) > k * PageSize

\* And what has come.
Behind(filter, k, S, since) ==
    ~ since.entered => \A c \in S \cap Rows(filter) :
                          Rank(filter, c) <= k * PageSize

\* The total that came with page k says that more is to come.
Counted(k, S, since, total) ==
    ~ since.left /\ ~ (since.stay \subseteq S) => total > k * PageSize

\* The answer to r begins a walk, or is the next page of the walk w under way.
Extends(r, w) ==
    \/ r.page = 1
    \/ r.page = w.pages + 1 /\ r.filter = w.filter /\ r.turned

SeenBefore(r, w) == IF r.page = 1 THEN {} ELSE w.seen

SinceOf(r, w) == IF r.page = 1 THEN r.since ELSE w.since

Covers(r, w) ==
    LET S == SeenBefore(r, w) \union r.items IN
    /\ Ahead(r.filter, r.page, S, SinceOf(r, w))
    /\ Behind(r.filter, r.page, S, SinceOf(r, w))
    /\ ~ SinceOf(r, w).entered => r.items \cap SeenBefore(r, w) = {}
    /\ r.total # None /\ ~ r.split => Counted(r.page, S, SinceOf(r, w), r.total)

RequestHolds(r, w) ==
    /\ r.items = None /\ r.total # None /\ ~ r.split
          => r.total = Cardinality(Rows(r.filter))
    /\ r.items # None /\ Extends(r, w) => Covers(r, w)

WalkHolds(w) ==
    /\ w.repeats => w.since.entered
    /\ w.pages > 0 =>
          /\ Ahead(w.filter, w.pages, w.seen, w.since)
          /\ Behind(w.filter, w.pages, w.seen, w.since)
          /\ shown # None /\ shown.page = w.pages /\ shown.filter = w.filter
          /\ ~ w.split => Counted(w.pages, w.seen, w.since, shown.total)

\* What the page asks for is the last request, or it was answered.
Asked(r) == r.filter = view.filter /\ r.page = view.page

AskedLast ==
    view.ready = "yes" /\ ~ view.error =>
       \/ requests # <<>> /\ Asked(requests[Len(requests)])
       \/ /\ \A i \in DOMAIN requests : requests[i].late
          /\ shown # None
          /\ shown.late \/ Asked(shown)

PageInv ==
    /\ TypeOK
    /\ AskedLast
    /\ \A w \in {walk} :
          /\ WalkHolds(w)
          /\ \A r \in ToSet(requests) : RequestHolds(r, w)

-----------------------------------------------------------------------------
(* The rank of a customer.                                                 *)

UpTo(filter, c) == {d \in Rows(filter) : Precedes(d, c)}

\* The list has each customer once.
Listing ==
    /\ list \in Seq(Customers) /\ matching \subseteq ToSet(list)
    /\ \A i, j \in DOMAIN list : list[i] = list[j] => i = j

\* Ranks need no more of the types than this.
LEMMA TypedListing == TypeOK => Listing
BY DEF TypeOK, Listing

\* The rows of a filter are finitely many customers.
LEMMA RowsFinite ==
    ASSUME Listing, NEW filter
    PROVE  /\ Rows(filter) \subseteq ToSet(list)
           /\ ToSet(list) \subseteq Customers
           /\ IsFiniteSet(Rows(filter))
           /\ Cardinality(Rows(filter)) \in Totals
           /\ Cardinality(Customers) \in Nat
<1>1. ToSet(list) \subseteq Customers
  BY DEF Listing, ToSet
<1>2. Rows(filter) \subseteq ToSet(list)
  BY DEF Rows
<1>3. IsFiniteSet(Customers) /\ Cardinality(Customers) \in Nat
  BY PageAssumption, FS_CardinalityType
<1>4. /\ IsFiniteSet(Rows(filter))
      /\ Cardinality(Rows(filter)) <= Cardinality(Customers)
  BY <1>1, <1>2, <1>3, FS_Subset
<1> QED
  BY <1>1, <1>2, <1>3, <1>4, FS_CardinalityType DEF Totals

\* Ranks count from 1 to the number of rows.
LEMMA RankRange ==
    ASSUME Listing, NEW filter, NEW c \in Rows(filter)
    PROVE  /\ c \in UpTo(filter, c) /\ IsFiniteSet(UpTo(filter, c))
           /\ Rank(filter, c) \in 1 .. Cardinality(Rows(filter))
           /\ Cardinality(Rows(filter)) \in Nat
<1>1. /\ IsFiniteSet(Rows(filter)) /\ UpTo(filter, c) \subseteq Rows(filter)
      /\ Cardinality(Rows(filter)) \in Nat
  BY RowsFinite, FS_CardinalityType DEF UpTo
<1>2. /\ IsFiniteSet(UpTo(filter, c))
      /\ Cardinality(UpTo(filter, c)) <= Cardinality(Rows(filter))
  BY <1>1, FS_Subset
<1>3. c \in UpTo(filter, c)
  BY DEF UpTo, Precedes, Rows, ToSet, Listing
<1>4. Cardinality(UpTo(filter, c)) \in Nat /\ Cardinality(UpTo(filter, c)) # 0
  BY <1>2, <1>3, FS_EmptySet, FS_CardinalityType
<1>5. Rank(filter, c) = Cardinality(UpTo(filter, c))
  BY DEF Rank, UpTo
<1> QED
  BY <1>1, <1>2, <1>3, <1>4, <1>5

\* The one before has the smaller rank.
LEMMA RankOrder ==
    ASSUME Listing, NEW filter, NEW c \in Rows(filter), NEW d \in Rows(filter),
           c # d, Precedes(c, d)
    PROVE  Rank(filter, c) # Rank(filter, d)
<1>1. ~ Precedes(d, c)
  BY DEF Precedes, Listing
<1>2. UpTo(filter, c) \subseteq UpTo(filter, d)
  BY DEF UpTo, Precedes, Listing
<1>3. d \in UpTo(filter, d) /\ d \notin UpTo(filter, c)
  BY <1>1, RankRange DEF UpTo
<1>4. IsFiniteSet(UpTo(filter, d))
  BY RankRange
<1>5. Cardinality(UpTo(filter, d)) # Cardinality(UpTo(filter, c))
  BY <1>2, <1>3, <1>4, FS_Subset
<1> QED
  BY <1>5 DEF Rank, UpTo

\* No two rows have the same rank.
LEMMA RankInjective ==
    ASSUME Listing, NEW filter, NEW c \in Rows(filter), NEW d \in Rows(filter),
           c # d
    PROVE  Rank(filter, c) # Rank(filter, d)
<1>1. PICK i \in DOMAIN list, j \in DOMAIN list : list[i] = c /\ list[j] = d
  BY DEF Rows, ToSet
<1>2. i \in Nat /\ j \in Nat
  BY <1>1 DEF Listing
<1>3. Precedes(c, d) \/ Precedes(d, c)
  BY <1>1, <1>2 DEF Precedes
<1> QED
  BY <1>3, RankOrder

\* A page has at most PageSize customers.
LEMMA PageFits ==
    ASSUME Listing, NEW filter, NEW page \in Pages
    PROVE  /\ PageOf(filter, page) \in SUBSET Customers
           /\ Cardinality(PageOf(filter, page)) <= PageSize
<1> DEFINE P == PageOf(filter, page)
           lo == Offset(page) + 1
           hi == Offset(page) + PageSize
           T == lo .. hi
<1>1. /\ P \subseteq Rows(filter) /\ \A c \in P : Rank(filter, c) \in T
  BY DEF PageOf
<1>2. IsFiniteSet(P) /\ Cardinality(P) \in Nat /\ P \subseteq Customers
  BY <1>1, RowsFinite, FS_Subset, FS_CardinalityType
<1>3. page \in Nat /\ PageSize \in Nat /\ PageSize >= 1
  BY PageAssumption, FS_CardinalityType DEF Pages
<1>4. Offset(page) \in Int
  BY <1>3 DEF Offset
<1>5. IsFiniteSet(T) /\ Cardinality(T) = PageSize
  <2>1. lo \in Int /\ hi \in Int /\ ~ (lo > hi) /\ hi - lo + 1 = PageSize
    BY <1>3, <1>4
  <2> HIDE DEF lo, hi
  <2> QED
    BY <2>1, FS_Interval
<1> DEFINE f == [c \in P |-> Rank(filter, c)]
<1> HIDE DEF P, T
<1>6. f \in [P -> T]
  BY <1>1
<1>7. ~ \E c, d \in P : c # d /\ f[c] = f[d]
  BY <1>1, RankInjective
<1>8. ~ (Cardinality(T) < Cardinality(P))
  <2> HIDE DEF f
  <2> QED
    BY <1>2, <1>5, <1>6, <1>7, FS_PigeonHole
<1> QED
  BY <1>2, <1>3, <1>5, <1>8 DEF P

-----------------------------------------------------------------------------
(* Steps that leave the list alone.                                        *)

WalkRecord == [filter : Filters, pages : {0} \union Pages,
               seen : SUBSET Customers, repeats : BOOLEAN, split : BOOLEAN,
               since : SinceRecord]

\* An item of a sequence is removed.
LEMMA RemovedProperties ==
    ASSUME NEW S, NEW s \in Seq(S), NEW i \in DOMAIN s
    PROVE  /\ Removed(s, i) \in Seq(S) /\ Len(s) \in Nat \ {0}
           /\ DOMAIN Removed(s, i) = 1 .. (Len(s) - 1)
           /\ Len(Removed(s, i)) = Len(s) - 1
           /\ \A j \in 1 .. (Len(s) - 1) :
                 Removed(s, i)[j] = IF j < i THEN s[j] ELSE s[j + 1]
           /\ ToSet(Removed(s, i)) \subseteq ToSet(s)
<1>1. DOMAIN s = 1..Len(s) /\ Len(s) \in Nat \ {0} /\ i \in 1..Len(s)
  BY LenProperties
<1>2. \A j \in 1..Len(s) : s[j] \in S
  BY ElementOfSeq
<1>3. \A j \in 1 .. (Len(s) - 1) :
         /\ (IF j < i THEN j ELSE j + 1) \in 1..Len(s)
         /\ Removed(s, i)[j] = s[IF j < i THEN j ELSE j + 1]
  BY <1>1 DEF Removed
<1>4. Removed(s, i) \in [1 .. (Len(s) - 1) -> S]
  BY <1>2, <1>3 DEF Removed
<1>5. Len(s) - 1 \in Nat
  BY <1>1
<1>6. Removed(s, i) \in Seq(S) /\ Len(Removed(s, i)) = Len(s) - 1
  <2> HIDE DEF Removed
  <2> QED
    BY <1>4, <1>5, SeqDef, LenProperties
<1>7. DOMAIN Removed(s, i) = 1 .. (Len(s) - 1)
  BY <1>4
<1>8. ToSet(Removed(s, i)) \subseteq ToSet(s)
  BY <1>1, <1>3, <1>7 DEF ToSet
<1> QED
  BY <1>1, <1>3, <1>6, <1>7, <1>8

\* What is known of the page, and of a request.
LEMMA KnownPage ==
    ASSUME PageInv
    PROVE  /\ Listing /\ PageSize \in Nat \ {0}
           /\ Cardinality(Customers) \in Nat
           /\ requests \in Seq(RequestRecord) /\ Len(requests) \in Nat
           /\ DOMAIN requests = 1..Len(requests)
           /\ \A r \in ToSet(requests) :
                 r \in RequestRecord /\ RequestHolds(r, walk)
           /\ walk \in WalkRecord /\ WalkHolds(walk)
<1>1. TypeOK
  BY DEF PageInv
<1>2. Listing /\ requests \in Seq(RequestRecord) /\ walk \in WalkRecord
  BY <1>1, TypedListing DEF TypeOK, WalkRecord
<1>3. DOMAIN requests = 1..Len(requests) /\ Len(requests) \in Nat
  BY <1>2, LenProperties
<1>4. \A r \in ToSet(requests) : r \in RequestRecord
  BY <1>2, <1>3, ElementOfSeq DEF ToSet
<1>5. Cardinality(Customers) \in Nat /\ PageSize \in Nat \ {0}
  BY PageAssumption, FS_CardinalityType
<1>6. \A r \in ToSet(requests) : RequestHolds(r, walk)
  BY DEF PageInv
<1>7. WalkHolds(walk)
  BY DEF PageInv
<1> QED
  BY <1>2, <1>3, <1>4, <1>5, <1>6, <1>7

\* Ranks do not move, and what holds of them goes on.
LEMMA ListRests ==
    ASSUME UNCHANGED <<list, matching>>, NEW r, NEW w
    PROVE  /\ \A filter : Rows(filter)' = Rows(filter)
           /\ RequestHolds(r, w) => RequestHolds(r, w)'
           /\ shown' = shown => (WalkHolds(w) => WalkHolds(w)')
           /\ Listing => Listing'
<1>1. ASSUME NEW filter
      PROVE  /\ Rows(filter)' = Rows(filter)
             /\ \A c : Rank(filter, c)' = Rank(filter, c)
  BY DEF Rows, Rank, Through, Precedes
<1>2. ASSUME NEW filter, NEW k, NEW S, NEW since
      PROVE  /\ Ahead(filter, k, S, since)' <=> Ahead(filter, k, S, since)
             /\ Behind(filter, k, S, since)' <=> Behind(filter, k, S, since)
  BY <1>1 DEF Ahead, Behind
<1>3. Covers(r, w) => Covers(r, w)'
  BY <1>2 DEF Covers
<1>4. RequestHolds(r, w) => RequestHolds(r, w)'
  BY <1>1, <1>3 DEF RequestHolds
<1>5. shown' = shown => (WalkHolds(w) => WalkHolds(w)')
  BY <1>2 DEF WalkHolds
<1> QED
  BY <1>1, <1>4, <1>5 DEF Listing

\* What the user does sends a request, for what the page is to show.
LEMMA SendKeeps ==
    ASSUME PageInv, NEW ready \in {"no", "yes", "left"}, NEW filter \in Filters,
           NEW page \in Pages, NEW v, Send(v),
           v = [ready |-> ready, filter |-> filter, page |-> page,
                error |-> view.error],
           UNCHANGED <<list, matching, changes, shown, walk>>
    PROVE  PageInv'
<1> DEFINE q == Request(v.filter, v.page)
<1>1. /\ q \in RequestRecord /\ q.items = None /\ q.total = None
      /\ q.filter = filter /\ q.page = page
  <2>1. v.filter = filter /\ v.page = page
    OBVIOUS
  <2> DEFINE b == shown # None /\ shown.filter = filter /\ shown.page = page - 1
  <2>2. b \in BOOLEAN
    OBVIOUS
  <2>3. q = [filter |-> filter, page |-> page, items |-> None, total |-> None,
             since |-> NoHistory, split |-> FALSE, turned |-> b, late |-> FALSE]
    BY <2>1 DEF Request
  <2> HIDE DEF b, q
  <2>4. NoHistory \in SinceRecord
    BY DEF NoHistory, SinceRecord
  <2> QED
    BY <2>2, <2>3, <2>4 DEF RequestRecord
<1> HIDE DEF q
<1>2. requests' = Append(requests, q) /\ view' = v
  BY DEF Send, q
<1>3. /\ requests \in Seq(RequestRecord) /\ Len(requests) \in Nat
      /\ Len(requests) < MaxInFlight /\ MaxInFlight \in Nat
  BY KnownPage, PageAssumption DEF Send
<1>4. /\ requests' \in Seq(RequestRecord) /\ requests' # <<>>
      /\ Len(requests') = Len(requests) + 1
      /\ \A i \in 1..Len(requests) : requests'[i] = requests[i]
      /\ requests'[Len(requests) + 1] = q
      /\ DOMAIN requests' = 1 .. (Len(requests) + 1)
  BY <1>1, <1>2, <1>3, AppendProperties, LenProperties
<1>5. ToSet(requests)' \subseteq ToSet(requests) \union {q}
  BY <1>3, <1>4, LenProperties DEF ToSet
<1>6. TypeOK'
  <2>1. Listing'
    BY KnownPage, ListRests
  <2>2. TypeOK
    BY DEF PageInv
  <2>3. Len(requests') <= MaxInFlight
    BY <1>3, <1>4
  <2>4. view' \in [ready : {"no", "yes", "left"}, filter : Filters,
                   page : Pages, error : BOOLEAN]
    BY <1>2, <2>2 DEF TypeOK
  <2> QED
    BY <1>4, <2>1, <2>2, <2>3, <2>4 DEF TypeOK, Listing
<1>7. AskedLast'
  <2>1. requests'[Len(requests')] = q
    BY <1>4
  <2> QED
    BY <1>1, <1>2, <1>4, <2>1 DEF AskedLast, Asked
<1>8. PICK w : w = walk
  OBVIOUS
<1>9. WalkHolds(w)'
  BY <1>8, KnownPage, ListRests
<1>10. ASSUME NEW r \in ToSet(requests)'
       PROVE  RequestHolds(r, w)'
  <2>1. CASE r \in ToSet(requests)
    BY <1>8, <2>1, KnownPage, ListRests
  <2>2. CASE r = q
    BY <1>1, <2>2 DEF RequestHolds
  <2> QED
    BY <1>5, <2>1, <2>2
<1> QED
  BY <1>6, <1>7, <1>8, <1>9, <1>10 DEF PageInv

\* "next" is enabled only before the last page.
LEMMA FollowingTyped ==
    ASSUME TypeOK, More(view.page)
    PROVE  view.page + 1 \in Pages
<1>1. /\ view.page \in Pages /\ shown.total \in Totals
      /\ view.page * PageSize < shown.total
      /\ PageSize \in Nat \ {0} /\ Cardinality(Customers) \in Nat
  BY PageAssumption, FS_CardinalityType DEF TypeOK, More, ShownRecord
<1> DEFINE k == view.page
           n == Cardinality(Customers)
<1> HIDE DEF k, n
<1>2. /\ k \in Nat /\ k >= 1 /\ shown.total \in Nat /\ shown.total <= n
      /\ n \in Nat /\ k * PageSize < shown.total
  BY <1>1 DEF Pages, Totals, k, n
<1>3. k <= k * PageSize
  BY <1>1, <1>2
<1>4. k * PageSize \in Nat
  BY <1>1, <1>2
<1>5. k + 1 \in 1 .. (1 + n)
  BY <1>2, <1>3, <1>4
<1> QED
  BY <1>5 DEF Pages, k, n

\* The clicks of the user, and the page that opens.
LEMMA ClicksKeep ==
    ASSUME PageInv,
           \/ Ready \/ Previous \/ Following
           \/ \E filter \in Filters : ChangeFilter(filter)
    PROVE  PageInv'
<1>1. /\ view \in [ready : {"no", "yes", "left"}, filter : Filters,
                   page : Pages, error : BOOLEAN]
      /\ Cardinality(Customers) \in Nat /\ TypeOK
  BY KnownPage DEF PageInv, TypeOK
<1> DEFINE v(ready, filter, page) ==
              [ready |-> ready, filter |-> filter, page |-> page,
               error |-> view.error]
<1>2. CASE Ready
  <2>1. [view EXCEPT !.ready = "yes"] = v("yes", view.filter, view.page)
    BY <1>1
  <2> QED
    BY <1>1, <1>2, <2>1, SendKeeps DEF Ready
<1>3. CASE Previous
  <2>1. [view EXCEPT !.page = view.page - 1]
           = v(view.ready, view.filter, view.page - 1)
    BY <1>1
  <2>2. view.page - 1 \in Pages
    BY <1>1, <1>3 DEF Previous, Pages
  <2>3. Send([view EXCEPT !.page = view.page - 1])
    BY <1>3 DEF Previous
  <2> QED
    BY <1>1, <1>3, <2>1, <2>2, <2>3, SendKeeps DEF Previous
<1>4. CASE Following
  <2>1. [view EXCEPT !.page = view.page + 1]
           = v(view.ready, view.filter, view.page + 1)
    BY <1>1
  <2>2. view.page + 1 \in Pages
    BY <1>1, <1>4, FollowingTyped DEF Following
  <2>3. Send([view EXCEPT !.page = view.page + 1])
    BY <1>4 DEF Following
  <2> QED
    BY <1>1, <1>4, <2>1, <2>2, <2>3, SendKeeps DEF Following
<1>5. ASSUME NEW filter \in Filters, ChangeFilter(filter)
      PROVE  PageInv'
  <2> DEFINE x == [view EXCEPT !.filter = filter, !.page = 1]
  <2>0. 1 \in Pages
    BY <1>1 DEF Pages
  <2>1. /\ x \in [ready : {"no", "yes", "left"}, filter : Filters,
                  page : Pages, error : BOOLEAN]
        /\ x.ready = view.ready /\ x.filter = filter /\ x.page = 1
        /\ x.error = view.error
    BY <1>1, <2>0
  <2> HIDE DEF x
  <2>2. x = v(view.ready, filter, 1)
    BY <2>1
  <2>3. view.ready \in {"no", "yes", "left"}
    BY <1>1
  <2>4. /\ Send(v(view.ready, filter, 1))
        /\ UNCHANGED <<list, matching, changes, shown, walk>>
    BY <1>5, <2>2 DEF ChangeFilter, x
  <2> QED
    BY <2>0, <2>3, <2>4, SendKeeps
<1> QED
  BY <1>2, <1>3, <1>4, <1>5

\* A request fails, or the page is left.
LEMMA FailKeeps ==
    ASSUME PageInv, (\E i \in DOMAIN requests : Fail(i)) \/ Leave
    PROVE  PageInv'
<1>1. /\ TypeOK /\ Listing' /\ requests \in Seq(RequestRecord)
      /\ Len(requests) \in Nat
      /\ UNCHANGED <<list, matching, changes, shown, walk>>
  BY KnownPage, ListRests DEF PageInv, Fail, Leave
<1>2. /\ requests' \in Seq(RequestRecord) /\ Len(requests') <= Len(requests)
      /\ ToSet(requests)' \subseteq ToSet(requests)
      /\ view'.ready = "left" \/ view'.error
      /\ view' \in [ready : {"no", "yes", "left"}, filter : Filters,
                    page : Pages, error : BOOLEAN]
  <2>1. CASE Leave
    <3>1. requests' = <<>> /\ view' = [view EXCEPT !.ready = "left"]
      BY <2>1 DEF Leave
    <3> QED
      BY <1>1, <3>1 DEF TypeOK, ToSet
  <2>2. ASSUME NEW i \in DOMAIN requests, Fail(i)
        PROVE  /\ requests' \in Seq(RequestRecord)
               /\ Len(requests') <= Len(requests)
               /\ ToSet(requests)' \subseteq ToSet(requests)
               /\ view'.error
               /\ view' \in [ready : {"no", "yes", "left"}, filter : Filters,
                             page : Pages, error : BOOLEAN]
    <3>1. requests' = Removed(requests, i) /\ view' = [view EXCEPT !.error = TRUE]
      BY <2>2 DEF Fail
    <3>2. /\ Removed(requests, i) \in Seq(RequestRecord)
          /\ Len(Removed(requests, i)) = Len(requests) - 1
          /\ ToSet(Removed(requests, i)) \subseteq ToSet(requests)
      BY <1>1, RemovedProperties
    <3>3. ToSet(requests)' = ToSet(requests')
      BY DEF ToSet
    <3> QED
      <4>1. view'.error
            /\ view' \in [ready : {"no", "yes", "left"}, filter : Filters,
                          page : Pages, error : BOOLEAN]
        BY <1>1, <3>1 DEF TypeOK
      <4> HIDE DEF Removed
      <4> QED
        BY <1>1, <3>1, <3>2, <3>3, <4>1
  <2> QED
    BY <2>1, <2>2
<1>3. TypeOK'
  BY <1>1, <1>2, PageAssumption DEF TypeOK, Listing
<1>4. AskedLast'
  BY <1>2 DEF AskedLast
<1>5. PICK w : w = walk
  OBVIOUS
<1>6. WalkHolds(w)'
  BY <1>1, <1>5, KnownPage, ListRests
<1>7. \A r \in ToSet(requests)' : RequestHolds(r, w)'
  BY <1>1, <1>2, <1>5, KnownPage, ListRests
<1> QED
  BY <1>1, <1>3, <1>4, <1>5, <1>6, <1>7 DEF PageInv

-----------------------------------------------------------------------------
(* The two statements.                                                     *)

\* Request i becomes q, for the same page of the same filter.
LEMMA RequestStep ==
    ASSUME PageInv, NEW i \in DOMAIN requests, NEW q \in RequestRecord,
           requests' = [requests EXCEPT ![i] = q],
           q.filter = requests[i].filter, q.page = requests[i].page,
           q.late = requests[i].late,
           UNCHANGED <<list, matching, changes, view, shown, walk>>,
           RequestHolds(q, walk)
    PROVE  PageInv'
<1>1. /\ TypeOK /\ AskedLast /\ Listing' /\ requests \in Seq(RequestRecord)
      /\ DOMAIN requests = 1..Len(requests) /\ Len(requests) \in Nat
  BY KnownPage, ListRests DEF PageInv
<1>2. /\ requests' \in Seq(RequestRecord) /\ Len(requests') = Len(requests)
      /\ DOMAIN requests' = DOMAIN requests
      /\ \A j \in DOMAIN requests :
            requests'[j] = IF j = i THEN q ELSE requests[j]
  BY <1>1, ExceptSeq
<1>3. ToSet(requests)' \subseteq ToSet(requests) \union {q}
  BY <1>2 DEF ToSet
<1>4. TypeOK'
  BY <1>1, <1>2 DEF TypeOK, Listing
<1>5. AskedLast'
  <2>1. \A j \in DOMAIN requests :
           /\ requests'[j].filter = requests[j].filter
           /\ requests'[j].page = requests[j].page
           /\ requests'[j].late = requests[j].late
    BY <1>2
  <2>2. CASE requests = <<>>
    BY <1>1, <1>2, <2>1, <2>2 DEF AskedLast, Asked
  <2>3. CASE requests # <<>>
    <3>1. Len(requests) \in DOMAIN requests /\ requests' # <<>>
      BY <1>1, <1>2, <2>3, EmptySeq
    <3> QED
      BY <1>1, <1>2, <2>1, <3>1 DEF AskedLast, Asked
  <2> QED
    BY <2>2, <2>3
<1>6. PICK w : w = walk
  OBVIOUS
<1>7. WalkHolds(w)'
  BY <1>6, KnownPage, ListRests
<1>8. ASSUME NEW r \in ToSet(requests)'
      PROVE  RequestHolds(r, w)'
  <2>1. RequestHolds(r, w)
    BY <1>3, <1>6, KnownPage
  <2> QED
    BY <2>1, ListRests
<1> QED
  BY <1>4, <1>5, <1>6, <1>7, <1>8 DEF PageInv

\* The rows of a page are those whose rank follows the pages before it.
LEMMA PageRanks ==
    ASSUME Listing, NEW filter, NEW page \in Pages, NEW c \in Rows(filter)
    PROVE  /\ c \in PageOf(filter, page) <=>
                 /\ Rank(filter, c) > (page - 1) * PageSize
                 /\ Rank(filter, c) <= page * PageSize
           /\ Rank(filter, c) \in Nat /\ Rank(filter, c) >= 1
           /\ Rank(filter, c) <= Cardinality(Rows(filter))
           /\ (page - 1) * PageSize \in Nat /\ page * PageSize \in Nat
           /\ (page - 1) * PageSize <= page * PageSize
<1>1. page \in Nat /\ page >= 1 /\ PageSize \in Nat /\ PageSize >= 1
  BY PageAssumption, FS_CardinalityType DEF Pages
<1>2. (page - 1) * PageSize \in Nat /\ page * PageSize \in Nat
  BY <1>1
<1>3. page * PageSize = (page - 1) * PageSize + PageSize
  BY <1>1
<1>4. /\ Rank(filter, c) \in 1 .. Cardinality(Rows(filter))
      /\ Cardinality(Rows(filter)) \in Nat
  BY RankRange
<1> DEFINE n == Rank(filter, c)
           a == (page - 1) * PageSize
           b == page * PageSize
<1>5. c \in PageOf(filter, page) <=> n \in (a + 1) .. (a + PageSize)
  BY DEF PageOf, Offset
<1> HIDE DEF n, a, b
<1>6. n \in Nat /\ a \in Nat /\ b \in Nat /\ b = a + PageSize
  BY <1>2, <1>3, <1>4 DEF n, a, b
<1>7. c \in PageOf(filter, page) <=> n > a /\ n <= b
  BY <1>1, <1>5, <1>6
<1>8. a <= b
  BY <1>1, <1>6
<1> QED
  BY <1>2, <1>4, <1>6, <1>7, <1>8 DEF n, a, b

\* The page is read: it goes on where the pages before it ended.
LEMMA ReadCovers ==
    ASSUME PageInv, NEW r \in RequestRecord,
           r.items = PageOf(r.filter, r.page),
           r.since = [stay |-> Rows(r.filter), left |-> FALSE, entered |-> FALSE],
           r.total # None /\ ~ r.split => r.total = Cardinality(Rows(r.filter)),
           Extends(r, walk)
    PROVE  Covers(r, walk)
<1> DEFINE f == r.filter
           S == SeenBefore(r, walk) \union r.items
           z == SinceOf(r, walk)
           a == (r.page - 1) * PageSize
           b == r.page * PageSize
<1>1. /\ Listing /\ r.page \in Pages /\ walk \in WalkRecord
      /\ r.page \in Nat /\ PageSize \in Nat
  BY KnownPage, FS_CardinalityType DEF RequestRecord, Pages
<1>2. \A c \in Rows(f) :
         /\ c \in r.items <=> Rank(f, c) > a /\ Rank(f, c) <= b
         /\ Rank(f, c) \in Nat /\ Rank(f, c) >= 1
         /\ Rank(f, c) <= Cardinality(Rows(f))
         /\ a \in Nat /\ b \in Nat /\ a <= b
  BY <1>1, PageRanks
<1>3. r.items \subseteq Rows(f)
  BY DEF PageOf
<1>4. /\ ~ z.left => \A c \in z.stay \ SeenBefore(r, walk) :
                        c \in Rows(f) /\ Rank(f, c) > a
      /\ ~ z.entered => \A c \in SeenBefore(r, walk) \cap Rows(f) :
                           Rank(f, c) <= a
  <2>1. CASE r.page = 1
    <3>1. a = 0
      BY <1>1, <2>1
    <3>2. z.stay = Rows(f) /\ SeenBefore(r, walk) = {}
      BY <2>1 DEF SinceOf, SeenBefore
    <3> HIDE DEF a, z
    <3> QED
      BY <1>2, <3>1, <3>2
  <2>2. CASE r.page # 1
    <3>1. /\ r.page = walk.pages + 1 /\ f = walk.filter
          /\ z = walk.since /\ SeenBefore(r, walk) = walk.seen
      BY <2>2 DEF Extends, SinceOf, SeenBefore
    <3>2. walk.pages \in Nat
      BY <1>1, FS_CardinalityType, PageAssumption DEF WalkRecord, Pages
    <3>3. walk.pages > 0 /\ a = walk.pages * PageSize
      BY <1>1, <2>2, <3>1, <3>2
    <3>4. /\ Ahead(f, walk.pages, walk.seen, walk.since)
          /\ Behind(f, walk.pages, walk.seen, walk.since)
      BY <3>1, <3>3, KnownPage DEF WalkHolds
    <3> HIDE DEF a, z
    <3> QED
      BY <3>1, <3>3, <3>4 DEF Ahead, Behind
  <2> QED
    BY <2>1, <2>2
<1> HIDE DEF a, b, z
<1>5. Ahead(f, r.page, S, z)
  <2> SUFFICES ASSUME ~ z.left, NEW c \in z.stay \ S
               PROVE  c \in Rows(f) /\ Rank(f, c) > b
    BY DEF Ahead, b
  <2>1. c \in Rows(f) /\ Rank(f, c) > a /\ c \notin r.items
    BY <1>4
  <2> QED
    BY <1>2, <2>1
<1>6. Behind(f, r.page, S, z)
  <2> SUFFICES ASSUME ~ z.entered, NEW c \in S \cap Rows(f)
               PROVE  Rank(f, c) <= b
    BY DEF Behind, b
  <2>1. CASE c \in r.items
    BY <1>2, <2>1
  <2>2. CASE c \in SeenBefore(r, walk)
    BY <1>2, <1>4, <2>2
  <2> QED
    BY <2>1, <2>2
<1>7. ~ z.entered => r.items \cap SeenBefore(r, walk) = {}
  <2> SUFFICES ASSUME ~ z.entered, NEW c \in r.items,
                      c \in SeenBefore(r, walk)
               PROVE  FALSE
    OBVIOUS
  <2>1. c \in Rows(f) /\ Rank(f, c) > a /\ Rank(f, c) <= a
    BY <1>2, <1>3, <1>4
  <2> QED
    BY <1>2, <2>1
<1>8. ASSUME r.total # None /\ ~ r.split
      PROVE  Counted(r.page, S, z, r.total)
  <2> SUFFICES ASSUME ~ z.left, NEW c \in z.stay \ S
               PROVE  r.total > b
    BY DEF Counted, b
  <2>1. c \in Rows(f) /\ Rank(f, c) > b
    BY <1>5 DEF Ahead, b
  <2>2. r.total = Cardinality(Rows(f)) /\ Cardinality(Rows(f)) \in Nat
    BY <1>1, <1>8, RowsFinite, FS_CardinalityType
  <2> QED
    BY <1>2, <2>1, <2>2
<1> QED
  BY <1>5, <1>6, <1>7, <1>8 DEF Covers, z

\* A total counted now counts what is still to come.
LEMMA CountedNow ==
    ASSUME Listing, NEW filter, NEW k \in Nat, NEW S, NEW since,
           Ahead(filter, k, S, since)
    PROVE  Counted(k, S, since, Cardinality(Rows(filter)))
<1> SUFFICES ASSUME ~ since.left, NEW c \in since.stay \ S
             PROVE  Cardinality(Rows(filter)) > k * PageSize
  BY DEF Counted
<1>1. c \in Rows(filter) /\ Rank(filter, c) > k * PageSize
  BY DEF Ahead
<1>2. /\ Rank(filter, c) \in 1 .. Cardinality(Rows(filter))
      /\ Cardinality(Rows(filter)) \in Nat
  BY <1>1, RankRange
<1>3. k * PageSize \in Nat
  BY PageAssumption
<1> QED
  BY <1>1, <1>2, <1>3

\* What a statement of a request changes.
LEMMA ReadsKeep ==
    ASSUME PageInv, NEW i \in DOMAIN requests, ReadItems(i) \/ ReadTotal(i)
    PROVE  PageInv'
<1>0. PICK r \in RequestRecord : r = requests[i] /\ RequestHolds(r, walk)
  BY KnownPage DEF ToSet
<1>1. /\ requests \in Seq(RequestRecord) /\ Listing
      /\ r.page \in Pages /\ r.page \in Nat
      /\ Cardinality(Rows(r.filter)) \in Totals
      /\ Rows(r.filter) \in SUBSET Customers
      /\ None \notin Totals
  BY KnownPage, RowsFinite, PageAssumption, FS_CardinalityType
     DEF RequestRecord, Pages, Totals
<1>2. UNCHANGED <<list, matching, changes, view, shown, walk>>
  BY DEF ReadItems, ReadTotal
<1>3. CASE ReadItems(i)
  <2> DEFINE p == PageOf(r.filter, r.page)
             z == [stay |-> Rows(r.filter), left |-> FALSE, entered |-> FALSE]
             q == [r EXCEPT !.items = p, !.since = z]
  <2>1. /\ p \in {b \in SUBSET Customers : Cardinality(b) <= PageSize}
        /\ z \in SinceRecord
    BY <1>1, PageFits DEF SinceRecord
  <2>2. requests' = [requests EXCEPT ![i] = q]
    BY <1>0, <1>1, <1>3 DEF ReadItems
  <2> HIDE DEF p, z
  <2>3. /\ q \in RequestRecord /\ q.items = p /\ q.since = z
        /\ q.filter = r.filter /\ q.page = r.page /\ q.total = r.total
        /\ q.split = r.split /\ q.turned = r.turned /\ q.late = r.late
    BY <2>1 DEF RequestRecord
  <2> HIDE DEF q
  <2>4. p # None
    BY <2>1, PageAssumption
  <2>5. r.items = None
    BY <1>0, <1>3 DEF ReadItems
  <2>6. q.total # None /\ ~ q.split => q.total = Cardinality(Rows(q.filter))
    BY <1>0, <2>3, <2>5 DEF RequestHolds
  <2>7. Extends(q, walk) => Covers(q, walk)
    BY <2>3, <2>6, ReadCovers DEF p, z
  <2>8. RequestHolds(q, walk)
    BY <2>3, <2>4, <2>7 DEF RequestHolds
  <2> QED
    BY <1>0, <1>2, <2>2, <2>3, <2>8, RequestStep
<1>4. CASE ReadTotal(i)
  <2> DEFINE n == Cardinality(Rows(r.filter))
             q == [r EXCEPT !.total = n]
  <2>1. requests' = [requests EXCEPT ![i] = q]
    BY <1>0, <1>1, <1>4 DEF ReadTotal
  <2>2. n \in Totals
    BY <1>1
  <2> HIDE DEF n
  <2>3. /\ q \in RequestRecord /\ q.items = r.items /\ q.since = r.since
        /\ q.filter = r.filter /\ q.page = r.page /\ q.total = n
        /\ q.split = r.split /\ q.turned = r.turned /\ q.late = r.late
    BY <2>2 DEF RequestRecord
  <2> HIDE DEF q
  <2>4. ASSUME q.items # None, Extends(q, walk)
        PROVE  Covers(q, walk)
    <3>1. Covers(r, walk)
      BY <1>0, <2>3, <2>4 DEF RequestHolds, Extends
    <3>2. /\ SeenBefore(q, walk) = SeenBefore(r, walk)
          /\ SinceOf(q, walk) = SinceOf(r, walk)
      BY <2>3 DEF SeenBefore, SinceOf
    <3> DEFINE S == SeenBefore(r, walk) \union r.items
               z == SinceOf(r, walk)
    <3>3. Counted(r.page, S, z, n)
      BY <1>1, <3>1, CountedNow DEF Covers, n
    <3> QED
      BY <2>3, <3>1, <3>2, <3>3 DEF Covers
  <2>5. RequestHolds(q, walk)
    BY <2>3, <2>4 DEF RequestHolds, n
  <2> QED
    BY <1>0, <1>2, <2>1, <2>3, <2>5, RequestStep
<1> QED
  BY <1>3, <1>4

-----------------------------------------------------------------------------
(* The answers.                                                            *)

\* The walk after the answer to r.
LEMMA WalkedHolds ==
    ASSUME PageInv, NEW r \in RequestRecord, RequestHolds(r, walk),
           r.items # None, r.total # None,
           NEW shownNow, shownNow # None,
           shownNow.filter = r.filter, shownNow.page = r.page,
           shownNow.total = r.total,
           UNCHANGED <<list, matching>>, shown' = shownNow,
           NEW w, w = Walked(r)
    PROVE  w \in WalkRecord /\ WalkHolds(w)'
<1>1. /\ walk \in WalkRecord /\ WalkHolds(walk) /\ walk.pages \in Nat
      /\ r.items \in SUBSET Customers /\ r.since \in SinceRecord
      /\ r.page \in Pages /\ r.page \in Nat /\ r.filter \in Filters
      /\ r.split \in BOOLEAN /\ 1 \in Pages
  BY KnownPage, FS_CardinalityType, PageAssumption
     DEF RequestRecord, WalkRecord, Pages
<1>2. ASSUME NEW filter, NEW k, NEW S, NEW since
      PROVE  /\ Ahead(filter, k, S, since) => Ahead(filter, k, S, since)'
             /\ Behind(filter, k, S, since) => Behind(filter, k, S, since)'
  BY DEF Ahead, Behind, Rows, Rank, Through, Precedes
<1>3. CASE r.page = 1
  <2>1. w = [filter |-> r.filter, pages |-> 1, seen |-> r.items,
             repeats |-> FALSE, split |-> r.split, since |-> r.since]
    BY <1>3 DEF Walked
  <2>2. w \in WalkRecord
    BY <1>1, <2>1 DEF WalkRecord
  <2>3. /\ w.filter = r.filter /\ w.pages = 1 /\ w.seen = r.items
        /\ w.repeats = FALSE /\ w.split = r.split /\ w.since = r.since
    BY <2>1
  <2>4. Covers(r, walk) /\ SeenBefore(r, walk) \union r.items = r.items
        /\ SinceOf(r, walk) = r.since
    BY <1>3 DEF RequestHolds, Extends, SeenBefore, SinceOf
  <2>5. /\ Ahead(w.filter, w.pages, w.seen, w.since)
        /\ Behind(w.filter, w.pages, w.seen, w.since)
        /\ ~ w.split => Counted(w.pages, w.seen, w.since, shownNow.total)
    BY <1>3, <2>3, <2>4 DEF Covers
  <2> QED
    BY <1>2, <1>3, <2>2, <2>3, <2>5 DEF WalkHolds
<1>4. CASE r.page # 1 /\ Extends(r, walk)
  <2> DEFINE S == walk.seen \union r.items
             rep == walk.repeats \/ r.items \cap walk.seen # {}
             spl == walk.split \/ r.split
  <2>1. r.page = walk.pages + 1 /\ r.filter = walk.filter /\ r.turned
    BY <1>4 DEF Extends
  <2>2. w = [walk EXCEPT !.pages = walk.pages + 1, !.seen = S,
                         !.repeats = rep, !.split = spl]
    BY <1>4, <2>1 DEF Walked
  <2>3. /\ S \in SUBSET Customers /\ rep \in BOOLEAN /\ spl \in BOOLEAN
        /\ walk.pages + 1 \in Pages
    BY <1>1, <2>1 DEF WalkRecord
  <2> HIDE DEF S, rep, spl
  <2>4. /\ w \in WalkRecord
        /\ w.filter = r.filter /\ w.pages = r.page /\ w.seen = S
        /\ w.repeats = rep /\ w.split = spl /\ w.since = walk.since
    BY <1>1, <2>1, <2>2, <2>3 DEF WalkRecord
  <2>5. Covers(r, walk) /\ SeenBefore(r, walk) = walk.seen
        /\ SinceOf(r, walk) = walk.since
    BY <1>4 DEF RequestHolds, SeenBefore, SinceOf
  <2>6. /\ Ahead(w.filter, w.pages, w.seen, w.since)
        /\ Behind(w.filter, w.pages, w.seen, w.since)
        /\ ~ w.split => Counted(w.pages, w.seen, w.since, shownNow.total)
    BY <2>4, <2>5 DEF Covers, S, spl
  <2>7. w.repeats => w.since.entered
    BY <1>1, <2>4, <2>5 DEF Covers, WalkHolds, rep
  <2> QED
    BY <1>2, <2>4, <2>6, <2>7 DEF WalkHolds
<1>5. CASE ~ Extends(r, walk)
  <2>1. w = NoWalk
    BY <1>5 DEF Extends, Walked
  <2>2. w \in WalkRecord /\ w.pages = 0 /\ w.repeats = FALSE
    BY <2>1 DEF NoWalk, NoHistory, WalkRecord, SinceRecord, Filters
  <2> QED
    BY <2>2 DEF WalkHolds
<1> QED
  BY <1>3, <1>4, <1>5

\* The requests that an answer does not answer, as it leaves them.
LEMMA OthersHold ==
    ASSUME PageInv, NEW i \in DOMAIN requests, Receive(i)
    PROVE  /\ requests' \in Seq(RequestRecord)
           /\ Len(requests') = Len(requests) - 1
           /\ DOMAIN requests' = 1 .. (Len(requests) - 1)
           /\ \A j \in 1 .. (Len(requests) - 1) :
                 LET q == requests[IF j < i THEN j ELSE j + 1] IN
                 /\ requests'[j].filter = q.filter /\ requests'[j].page = q.page
                 /\ requests'[j].late = (q.late \/ j < i)
           /\ \A q \in ToSet(requests)' :
                 \E r \in ToSet(requests) :
                    /\ q.filter = r.filter /\ q.page = r.page
                    /\ q.items = r.items /\ q.total = r.total
                    /\ q.since = r.since /\ q.split = r.split
                    /\ q.turned = FALSE
<1> DEFINE late(j) == requests[j].late \/ j < i
           other(j) == [requests[j] EXCEPT !.late = late(j), !.turned = FALSE]
           others == [j \in DOMAIN requests |-> other(j)]
<1>1. /\ requests \in Seq(RequestRecord) /\ DOMAIN requests = 1..Len(requests)
      /\ Len(requests) \in Nat
      /\ \A j \in DOMAIN requests :
            requests[j] \in RequestRecord /\ requests[j] \in ToSet(requests)
  BY KnownPage DEF ToSet
<1>2. requests' = Removed(others, i)
  BY DEF Receive
<1>3. ASSUME NEW j \in DOMAIN requests
      PROVE  /\ other(j) \in RequestRecord
             /\ other(j).filter = requests[j].filter
             /\ other(j).page = requests[j].page
             /\ other(j).items = requests[j].items
             /\ other(j).total = requests[j].total
             /\ other(j).since = requests[j].since
             /\ other(j).split = requests[j].split
             /\ other(j).turned = FALSE
             /\ other(j).late = late(j)
  <2>1. late(j) \in BOOLEAN /\ requests[j] \in RequestRecord
    BY <1>1
  <2> HIDE DEF late
  <2> QED
    BY <2>1 DEF RequestRecord
<1> HIDE DEF other, late
<1>4. /\ others \in Seq(RequestRecord) /\ Len(others) = Len(requests)
      /\ DOMAIN others = DOMAIN requests
  <2>1. others \in [1..Len(requests) -> RequestRecord]
    BY <1>1, <1>3
  <2> HIDE DEF others
  <2> QED
    BY <1>1, <2>1, SeqDef, LenProperties
<1>5. \A j \in DOMAIN requests : others[j] = other(j)
  OBVIOUS
<1> HIDE DEF others
<1>6. /\ requests' \in Seq(RequestRecord) /\ Len(requests') = Len(requests) - 1
      /\ DOMAIN requests' = 1 .. (Len(requests) - 1)
      /\ \A j \in 1 .. (Len(requests) - 1) :
            requests'[j] = IF j < i THEN others[j] ELSE others[j + 1]
      /\ ToSet(requests') \subseteq ToSet(others)
  <2> DEFINE rest == Removed(others, i)
  <2>1. /\ rest \in Seq(RequestRecord) /\ DOMAIN rest = 1 .. (Len(others) - 1)
        /\ Len(rest) = Len(others) - 1
        /\ \A j \in 1 .. (Len(others) - 1) :
              rest[j] = IF j < i THEN others[j] ELSE others[j + 1]
        /\ ToSet(rest) \subseteq ToSet(others)
    BY <1>4, RemovedProperties
  <2>2. requests' = rest
    BY <1>2
  <2> HIDE DEF rest
  <2> QED
    BY <1>4, <2>1, <2>2
<1>7. ASSUME NEW j \in 1 .. (Len(requests) - 1)
      PROVE  LET q == requests[IF j < i THEN j ELSE j + 1] IN
             /\ requests'[j].filter = q.filter /\ requests'[j].page = q.page
             /\ requests'[j].late = (q.late \/ j < i)
  <2>1. j \in Nat /\ i \in Nat /\ j \in DOMAIN requests /\ j + 1 \in DOMAIN requests
    BY <1>1
  <2>2. CASE j < i
    <3>1. requests'[j] = other(j)
      BY <1>5, <1>6, <2>1, <2>2
    <3>2. requests[j].late \in BOOLEAN
      BY <1>1, <2>1 DEF RequestRecord
    <3> QED
      BY <1>3, <2>1, <2>2, <3>1, <3>2 DEF late
  <2>3. CASE ~ (j < i)
    <3>1. ~ (j + 1 < i)
      BY <2>1, <2>3
    <3>2. requests'[j] = other(j + 1)
      BY <1>5, <1>6, <2>1, <2>3
    <3>3. requests[j + 1].late \in BOOLEAN
      BY <1>1, <2>1 DEF RequestRecord
    <3> QED
      BY <1>3, <2>1, <2>3, <3>1, <3>2, <3>3 DEF late
  <2> QED
    BY <2>2, <2>3
<1>8. ASSUME NEW q \in ToSet(requests)'
      PROVE  \E r \in ToSet(requests) :
                /\ q.filter = r.filter /\ q.page = r.page
                /\ q.items = r.items /\ q.total = r.total
                /\ q.since = r.since /\ q.split = r.split
                /\ q.turned = FALSE
  <2>1. q \in ToSet(others)
    BY <1>6 DEF ToSet
  <2>2. PICK j \in DOMAIN requests : q = other(j)
    BY <1>4, <1>5, <2>1 DEF ToSet
  <2> QED
    BY <1>1, <1>3, <2>2
<1> QED
  BY <1>6, <1>7, <1>8

\* An answer is shown.
LEMMA ReceiveKeeps ==
    ASSUME PageInv, NEW i \in DOMAIN requests, Receive(i)
    PROVE  PageInv'
<1>1. PICK r \in RequestRecord : r = requests[i] /\ RequestHolds(r, walk)
  BY KnownPage DEF ToSet
<1>2. PICK w0, w : w0 = walk /\ w = Walked(r)
  OBVIOUS
<1> DEFINE now == [filter |-> r.filter, page |-> r.page, total |-> r.total,
                   late |-> r.late]
<1>3. /\ view.ready = "yes" /\ r.items # None /\ r.total # None
      /\ shown' = now /\ walk' = w
      /\ UNCHANGED <<list, matching, changes, view>>
  BY <1>1, <1>2 DEF Receive
<1>4. now \in ShownRecord /\ now # None
  BY <1>1, <1>3, PageAssumption DEF RequestRecord, ShownRecord
<1>5. w \in WalkRecord /\ WalkHolds(w)'
  BY <1>1, <1>2, <1>3, <1>4, WalkedHolds
<1>6. /\ requests \in Seq(RequestRecord) /\ DOMAIN requests = 1..Len(requests)
      /\ Len(requests) \in Nat /\ TypeOK /\ AskedLast /\ Listing'
      /\ i \in Nat /\ i >= 1 /\ i <= Len(requests)
  BY <1>3, KnownPage, ListRests DEF PageInv
<1>7. /\ requests' \in Seq(RequestRecord) /\ Len(requests') = Len(requests) - 1
      /\ DOMAIN requests' = 1 .. (Len(requests) - 1)
      /\ \A j \in 1 .. (Len(requests) - 1) :
            LET q == requests[IF j < i THEN j ELSE j + 1] IN
            /\ requests'[j].filter = q.filter /\ requests'[j].page = q.page
            /\ requests'[j].late = (q.late \/ j < i)
  BY OthersHold
<1>8. TypeOK'
  <2>1. Len(requests') <= MaxInFlight
    BY <1>6, <1>7, PageAssumption DEF TypeOK
  <2> QED
    BY <1>3, <1>4, <1>5, <1>6, <1>7, <2>1 DEF TypeOK, Listing, WalkRecord
<1>9. AskedLast'
  <2> SUFFICES ASSUME ~ view.error
               PROVE  \/ requests' # <<>> /\ Asked(requests[Len(requests)])'
                      \/ /\ \A j \in DOMAIN requests' : requests'[j].late
                         /\ shown' # None
                         /\ shown'.late \/ Asked(shown)'
    BY <1>3 DEF AskedLast
  <2>1. CASE Asked(requests[Len(requests)]) /\ i = Len(requests)
    <3>1. \A j \in DOMAIN requests' : requests'[j].late
      <4> TAKE j \in DOMAIN requests'
      <4>1. j \in 1 .. (Len(requests) - 1) /\ j < i
        BY <1>6, <1>7, <2>1
      <4> QED
        BY <1>7, <4>1
    <3>2. Asked(shown)'
      BY <1>1, <1>3, <2>1 DEF Asked
    <3> QED
      BY <1>3, <1>4, <3>1, <3>2
  <2>2. CASE Asked(requests[Len(requests)]) /\ i # Len(requests)
    <3> DEFINE j == Len(requests) - 1
    <3>1. j \in 1 .. (Len(requests) - 1) /\ ~ (j < i) /\ j + 1 = Len(requests)
      BY <1>6, <2>2
    <3>2. /\ requests'[j].filter = requests[Len(requests)].filter
          /\ requests'[j].page = requests[Len(requests)].page
      BY <1>7, <3>1
    <3>3. requests' # <<>> /\ Len(requests') = j
      BY <1>7, <3>1, EmptySeq
    <3> QED
      BY <1>3, <2>2, <3>2, <3>3 DEF Asked
  <2>3. CASE \A j \in DOMAIN requests : requests[j].late
    <3>1. \A j \in DOMAIN requests' : requests'[j].late
      <4> TAKE j \in DOMAIN requests'
      <4> DEFINE m == IF j < i THEN j ELSE j + 1
      <4>1. j \in 1 .. (Len(requests) - 1) /\ m \in DOMAIN requests
        BY <1>6, <1>7
      <4>2. requests[m].late /\ requests'[j].late = (requests[m].late \/ j < i)
        BY <1>7, <2>3, <4>1
      <4> QED
        BY <4>2
    <3>2. shown'.late
      BY <1>1, <1>3, <2>3
    <3> QED
      BY <1>3, <1>4, <3>1, <3>2
  <2> QED
    BY <1>3, <1>6, <2>1, <2>2, <2>3 DEF AskedLast
<1>10. ASSUME NEW q \in ToSet(requests)'
       PROVE  RequestHolds(q, w)'
  <2>1. PICK p \in ToSet(requests) :
           /\ q.filter = p.filter /\ q.page = p.page
           /\ q.items = p.items /\ q.total = p.total
           /\ q.since = p.since /\ q.split = p.split
           /\ q.turned = FALSE
    BY OthersHold
  <2>2. RequestHolds(p, w0)
    BY <1>2, KnownPage
  <2>3. ASSUME q.items # None, Extends(q, w)
        PROVE  Covers(q, w)
    <3>1. q.page = 1 /\ Covers(p, w0)
      BY <2>1, <2>2, <2>3 DEF Extends, RequestHolds
    <3> QED
      BY <2>1, <3>1 DEF Covers, SeenBefore, SinceOf
  <2>4. RequestHolds(q, w)
    BY <2>1, <2>2, <2>3 DEF RequestHolds
  <2> QED
    BY <1>3, <2>4, ListRests
<1> QED
  BY <1>3, <1>5, <1>8, <1>9, <1>10 DEF PageInv

-----------------------------------------------------------------------------
(* The changes of other users.                                             *)

\* Customers that stay in the list keep their order.
OrderKept ==
    \A c, d \in ToSet(list) \cap ToSet(list') : Precedes(c, d) <=> Precedes(c, d)'

\* The rank of a row when no row is lost, and when none is new.
LEMMA RankMoves ==
    ASSUME Listing, Listing', OrderKept, NEW filter,
           NEW c \in Rows(filter), c \in Rows(filter)'
    PROVE  /\ Rows(filter) \subseteq Rows(filter)'
                 => Rank(filter, c) <= Rank(filter, c)'
           /\ Rows(filter)' \subseteq Rows(filter)
                 => Rank(filter, c)' <= Rank(filter, c)
           /\ Rank(filter, c) \in Nat /\ Rank(filter, c)' \in Nat
<1> DEFINE now == UpTo(filter, c)
           next == UpTo(filter, c)'
<1>1. /\ IsFiniteSet(now) /\ Rank(filter, c) = Cardinality(now)
      /\ Rows(filter) \subseteq ToSet(list)
  BY RankRange, RowsFinite DEF Rank, UpTo
<1>2. /\ IsFiniteSet(next) /\ Rank(filter, c)' = Cardinality(next)
      /\ Rows(filter)' \subseteq ToSet(list)'
  <2>1. next \subseteq Customers /\ Rows(filter)' \subseteq ToSet(list)'
    BY DEF UpTo, Rows, ToSet, Listing
  <2>2. IsFiniteSet(next)
    <3> HIDE DEF next
    <3> QED
      BY <2>1, PageAssumption, FS_Subset
  <2>3. Rank(filter, c)' = Cardinality(next)
    BY DEF Rank, UpTo
  <2> QED
    BY <2>1, <2>2, <2>3
<1>3. ToSet(list)' = ToSet(list')
  BY DEF ToSet
<1>4. ASSUME Rows(filter) \subseteq Rows(filter)'
      PROVE  now \subseteq next
  <2> SUFFICES ASSUME NEW d \in now PROVE d \in next
    BY DEF UpTo
  <2>1. d \in Rows(filter) /\ Precedes(d, c)
    BY DEF UpTo
  <2>2. Precedes(d, c)'
    BY <1>1, <1>2, <1>3, <1>4, <2>1 DEF OrderKept
  <2> QED
    BY <1>4, <2>1, <2>2 DEF UpTo
<1>5. ASSUME Rows(filter)' \subseteq Rows(filter)
      PROVE  next \subseteq now
  <2> SUFFICES ASSUME NEW d \in next PROVE d \in now
    BY DEF UpTo
  <2>1. d \in Rows(filter)' /\ Precedes(d, c)'
    BY DEF UpTo
  <2>2. Precedes(d, c)
    BY <1>1, <1>2, <1>3, <1>5, <2>1 DEF OrderKept
  <2> QED
    BY <1>5, <2>1, <2>2 DEF UpTo
<1> HIDE DEF now, next
<1> QED
  BY <1>1, <1>2, <1>4, <1>5, FS_Subset, FS_CardinalityType

\* What was known of the pages read so far, after a change.
LEMMA AgedKeeps ==
    ASSUME Listing, Listing', OrderKept, NEW filter, NEW k \in Nat, NEW S,
           NEW since \in SinceRecord,
           NEW aged, aged = Aged(since, Rows(filter), Rows(filter)')
    PROVE  /\ aged \in SinceRecord
           /\ Ahead(filter, k, S, since) => Ahead(filter, k, S, aged)'
           /\ Behind(filter, k, S, since) => Behind(filter, k, S, aged)'
           /\ \A total : Counted(k, S, since, total) => Counted(k, S, aged, total)
           /\ since.entered => aged.entered
<1> DEFINE gone == Rows(filter) \ Rows(filter)' # {}
           came == Rows(filter)' \ Rows(filter) # {}
<1>1. /\ aged.stay = IF gone THEN {} ELSE since.stay
      /\ aged.left = (since.left \/ gone)
      /\ aged.entered = (since.entered \/ came)
  BY DEF Aged
<1>2. aged \in SinceRecord
  <2>1. (since.left \/ gone) \in BOOLEAN /\ (since.entered \/ came) \in BOOLEAN
        /\ (IF gone THEN {} ELSE since.stay) \in SUBSET Customers
    BY DEF SinceRecord
  <2> QED
    BY <2>1 DEF Aged, SinceRecord
<1>3. k * PageSize \in Nat
  BY PageAssumption
<1>4. ASSUME Ahead(filter, k, S, since)
      PROVE  Ahead(filter, k, S, aged)'
  <2> SUFFICES ASSUME ~ aged.left, NEW c \in aged.stay \ S
               PROVE  c \in Rows(filter)' /\ Rank(filter, c)' > k * PageSize
    BY DEF Ahead
  <2>1. ~ gone /\ c \in since.stay \ S /\ ~ since.left
    BY <1>1
  <2>2. c \in Rows(filter) /\ Rank(filter, c) > k * PageSize
    BY <1>4, <2>1 DEF Ahead
  <2>3. c \in Rows(filter)' /\ Rows(filter) \subseteq Rows(filter)'
    BY <2>1, <2>2
  <2>4. /\ Rank(filter, c) \in Nat /\ Rank(filter, c)' \in Nat
        /\ Rank(filter, c) <= Rank(filter, c)'
    BY <2>2, <2>3, RankMoves
  <2> QED
    BY <1>3, <2>2, <2>3, <2>4
<1>5. ASSUME Behind(filter, k, S, since)
      PROVE  Behind(filter, k, S, aged)'
  <2> SUFFICES ASSUME ~ aged.entered, NEW c \in S, c \in Rows(filter)'
               PROVE  Rank(filter, c)' <= k * PageSize
    BY DEF Behind
  <2>1. ~ came /\ ~ since.entered
    BY <1>1
  <2>2. c \in Rows(filter) /\ Rows(filter)' \subseteq Rows(filter)
    BY <2>1
  <2>3. Rank(filter, c) <= k * PageSize
    BY <1>5, <2>1, <2>2 DEF Behind
  <2>4. /\ Rank(filter, c) \in Nat /\ Rank(filter, c)' \in Nat
        /\ Rank(filter, c)' <= Rank(filter, c)
    BY <2>2, RankMoves
  <2> QED
    BY <1>3, <2>3, <2>4
<1>6. ASSUME NEW total, Counted(k, S, since, total)
      PROVE  Counted(k, S, aged, total)
  BY <1>1, <1>6 DEF Counted
<1> QED
  BY <1>1, <1>2, <1>4, <1>5, <1>6

\* A change of the list.
LEMMA ChangeKeeps ==
    ASSUME PageInv, NEW newList \in Seq(Customers),
           NEW newMatching \in SUBSET ToSet(newList),
           \A i, j \in DOMAIN newList : newList[i] = newList[j] => i = j,
           Change(newList, newMatching), OrderKept
    PROVE  PageInv'
<1> DEFINE after(filter) == IF filter = "all" THEN ToSet(newList) ELSE newMatching
           aged(since, filter) == Aged(since, Rows(filter), after(filter))
           since(r) == IF r.items = None THEN r.since ELSE aged(r.since, r.filter)
           split(r) == r.split \/ (r.items = None) # (r.total = None)
           next(r) == [r EXCEPT !.since = since(r), !.split = split(r)]
<1>1. /\ list' = newList /\ matching' = newMatching
      /\ changes < MaxChanges /\ changes' = changes + 1
      /\ requests' = [i \in DOMAIN requests |-> next(requests[i])]
      /\ walk' = IF walk.pages = 0 THEN walk
                 ELSE [walk EXCEPT !.since = aged(walk.since, walk.filter)]
      /\ UNCHANGED <<view, shown>>
  BY DEF Change
<1>2. /\ TypeOK /\ AskedLast /\ Listing /\ requests \in Seq(RequestRecord)
      /\ DOMAIN requests = 1..Len(requests) /\ Len(requests) \in Nat
      /\ \A r \in ToSet(requests) : r \in RequestRecord /\ RequestHolds(r, walk)
      /\ \A i \in DOMAIN requests : requests[i] \in ToSet(requests)
      /\ walk \in WalkRecord /\ WalkHolds(walk)
  BY KnownPage DEF PageInv, ToSet
<1>3. Listing'
  BY <1>1 DEF Listing, ToSet
<1>4. \A filter \in Filters : after(filter) = Rows(filter)'
  BY <1>1 DEF Filters, Rows, Through, ToSet
<1> HIDE DEF after
<1>5. ASSUME NEW r \in RequestRecord
      PROVE  /\ next(r) \in RequestRecord
             /\ next(r).filter = r.filter /\ next(r).page = r.page
             /\ next(r).items = r.items /\ next(r).total = r.total
             /\ next(r).turned = r.turned /\ next(r).late = r.late
             /\ next(r).since = since(r) /\ next(r).split = split(r)
             /\ r.items # None =>
                   since(r) = Aged(r.since, Rows(r.filter), Rows(r.filter)')
  <2>1. r.filter \in Filters /\ r.since \in SinceRecord
    BY DEF RequestRecord
  <2>2. aged(r.since, r.filter) = Aged(r.since, Rows(r.filter), Rows(r.filter)')
    BY <1>4, <2>1
  <2>3. since(r) \in SinceRecord /\ split(r) \in BOOLEAN
    <3>1. Aged(r.since, Rows(r.filter), Rows(r.filter)') \in SinceRecord
      BY <1>2, <1>3, <2>1, AgedKeeps
    <3> QED
      BY <2>1, <2>2, <3>1
  <2>4. r.items # None => since(r) = aged(r.since, r.filter)
    OBVIOUS
  <2> HIDE DEF since, split, aged
  <2> QED
    BY <2>2, <2>3, <2>4 DEF RequestRecord
<1> HIDE DEF next
<1>6. /\ requests' \in Seq(RequestRecord) /\ Len(requests') = Len(requests)
      /\ DOMAIN requests' = DOMAIN requests
      /\ \A i \in DOMAIN requests : requests'[i] = next(requests[i])
  <2>1. requests' \in [1..Len(requests) -> RequestRecord]
    BY <1>1, <1>2, <1>5
  <2> QED
    BY <1>1, <1>2, <2>1, SeqDef, LenProperties
<1>7. PICK w0, w : w0 = walk /\ w = walk'
  OBVIOUS
<1>8. /\ w \in WalkRecord /\ w.filter = w0.filter /\ w.pages = w0.pages
      /\ w.seen = w0.seen /\ w.repeats = w0.repeats /\ w.split = w0.split
      /\ w0.pages # 0 =>
            w.since = Aged(w0.since, Rows(w0.filter), Rows(w0.filter)')
      /\ w0.pages = 0 => w = w0
      /\ w0.pages \in Nat /\ w0.since \in SinceRecord
  <2>1. w0.filter \in Filters /\ w0.since \in SinceRecord /\ w0.pages \in Nat
    BY <1>2, <1>7, PageAssumption, FS_CardinalityType DEF WalkRecord, Pages
  <2> DEFINE z == aged(w0.since, w0.filter)
  <2>2. z = Aged(w0.since, Rows(w0.filter), Rows(w0.filter)')
    BY <1>4, <2>1
  <2>3. z \in SinceRecord
    BY <1>2, <1>3, <2>1, <2>2, AgedKeeps
  <2>4. w = IF w0.pages = 0 THEN w0 ELSE [w0 EXCEPT !.since = z]
    BY <1>1, <1>7
  <2> HIDE DEF z
  <2>5. w0 \in WalkRecord
    BY <1>2, <1>7
  <2> QED
    BY <2>1, <2>2, <2>3, <2>4, <2>5 DEF WalkRecord
<1>9. TypeOK'
  <2>1. changes' \in 0..MaxChanges
    BY <1>1, <1>2, PageAssumption DEF TypeOK
  <2>2. walk' \in WalkRecord
    BY <1>7, <1>8
  <2> QED
    BY <1>1, <1>2, <1>3, <1>6, <2>1, <2>2 DEF TypeOK, Listing, WalkRecord
<1>10. AskedLast'
  <2>1. \A j \in DOMAIN requests :
           /\ requests'[j].filter = requests[j].filter
           /\ requests'[j].page = requests[j].page
           /\ requests'[j].late = requests[j].late
    BY <1>2, <1>5, <1>6
  <2>2. requests # <<>> => Len(requests) \in DOMAIN requests /\ requests' # <<>>
    BY <1>2, <1>6, EmptySeq
  <2> HIDE DEF aged, since, split
  <2> QED
    BY <1>1, <1>2, <1>6, <2>1, <2>2 DEF AskedLast, Asked
<1>11. WalkHolds(w)'
  <2>1. CASE w0.pages = 0
    BY <1>2, <1>7, <1>8, <2>1 DEF WalkHolds
  <2>2. CASE w0.pages # 0
    <3>1. WalkHolds(w0) /\ w0.pages > 0
      BY <1>2, <1>7, <1>8, <2>2
    <3>2. w.since = Aged(w0.since, Rows(w0.filter), Rows(w0.filter)')
      BY <1>8, <2>2
    <3>3. /\ Ahead(w0.filter, w0.pages, w0.seen, w0.since)
                => Ahead(w0.filter, w0.pages, w0.seen, w.since)'
          /\ Behind(w0.filter, w0.pages, w0.seen, w0.since)
                => Behind(w0.filter, w0.pages, w0.seen, w.since)'
          /\ \A total : Counted(w0.pages, w0.seen, w0.since, total)
                           => Counted(w0.pages, w0.seen, w.since, total)
          /\ w0.since.entered => w.since.entered
      <4>1. Listing /\ w0.pages \in Nat /\ w0.since \in SinceRecord
        BY <1>2, <1>8
      <4> QED
        BY <1>3, <3>2, <4>1, AgedKeeps
    <3> QED
      BY <1>1, <1>8, <3>1, <3>3 DEF WalkHolds
  <2> QED
    BY <2>1, <2>2
<1>12. ASSUME NEW q \in ToSet(requests)'
       PROVE  RequestHolds(q, w)'
  <2>1. PICK r \in RequestRecord : RequestHolds(r, w0) /\ q = next(r)
    BY <1>2, <1>6, <1>7 DEF ToSet
  <2>2. /\ q.filter = r.filter /\ q.page = r.page
        /\ q.items = r.items /\ q.total = r.total
        /\ q.turned = r.turned /\ q.since = since(r) /\ q.split = split(r)
        /\ r.items # None =>
              since(r) = Aged(r.since, Rows(r.filter), Rows(r.filter)')
    BY <1>5, <2>1
  <2>3. q.items = None /\ q.total # None => q.split
    BY <2>2
  <2>4. ~ q.split => ~ r.split
    BY <2>2
  <2> HIDE DEF since, split, aged
  <2>5. ASSUME q.items # None, Extends(q, w)
        PROVE  Covers(q, w)'
    <3>1. Covers(r, w0)
      BY <1>8, <2>1, <2>2, <2>5 DEF Extends, RequestHolds
    <3> DEFINE z0 == SinceOf(r, w0)
               z == SinceOf(q, w)
               S == SeenBefore(r, w0) \union r.items
    <3>2. z = Aged(z0, Rows(r.filter), Rows(r.filter)') /\ z0 \in SinceRecord
      <4>1. CASE r.page = 1
        BY <2>2, <2>5, <4>1 DEF SinceOf, RequestRecord
      <4>2. CASE r.page # 1
        <5>1. r.page = w0.pages + 1 /\ r.filter = w0.filter /\ r.page \in Nat
          BY <1>8, <2>2, <2>5, <4>2, PageAssumption, FS_CardinalityType
             DEF Extends, RequestRecord, Pages
        <5>2. w0.pages # 0
          BY <4>2, <5>1
        <5> QED
          BY <1>8, <2>2, <4>2, <5>1, <5>2 DEF SinceOf
      <4> QED
        BY <4>1, <4>2
    <3>3. SeenBefore(q, w) = SeenBefore(r, w0) /\ S = SeenBefore(q, w) \union q.items
      BY <1>8, <2>2 DEF SeenBefore
    <3>4. r.page \in Nat
      BY PageAssumption, FS_CardinalityType DEF RequestRecord, Pages
    <3> HIDE DEF z0, z, S
    <3>5. /\ Ahead(r.filter, r.page, S, z0) => Ahead(r.filter, r.page, S, z)'
          /\ Behind(r.filter, r.page, S, z0) => Behind(r.filter, r.page, S, z)'
          /\ \A total : Counted(r.page, S, z0, total)
                           => Counted(r.page, S, z, total)
          /\ z0.entered => z.entered
      BY <1>2, <1>3, <3>2, <3>4, AgedKeeps
    <3> QED
      BY <2>2, <2>4, <3>1, <3>3, <3>5 DEF Covers, z0, z, S
  <2> QED
    BY <2>3, <2>5 DEF RequestHolds
<1> QED
  BY <1>7, <1>9, <1>10, <1>11, <1>12 DEF PageInv

\* A customer is added, in front of all.
LEMMA AddOrder ==
    ASSUME Listing, NEW c \in Customers, c \notin ToSet(list),
           list' = <<c>> \o list
    PROVE  /\ <<c>> \o list \in Seq(Customers)
           /\ ToSet(list) \subseteq ToSet(<<c>> \o list)
           /\ c \in ToSet(<<c>> \o list)
           /\ \A i, j \in DOMAIN (<<c>> \o list) :
                 (<<c>> \o list)[i] = (<<c>> \o list)[j] => i = j
           /\ OrderKept
<1> DEFINE s == <<c>> \o list
           n == Len(list)
<1>1. /\ list \in Seq(Customers) /\ n \in Nat /\ DOMAIN list = 1..n
      /\ <<c>> \in Seq(Customers) /\ Len(<<c>>) = 1 /\ <<c>>[1] = c
      /\ \A i \in 1..n : list[i] # c
  BY LenProperties DEF Listing, ToSet
<1>2. /\ s \in Seq(Customers) /\ Len(s) = 1 + n
      /\ \A i \in 1 .. (1 + n) :
            s[i] = IF i <= 1 THEN <<c>>[i] ELSE list[i - 1]
  BY <1>1, ConcatProperties
<1>3. DOMAIN s = 1 .. (1 + n)
  BY <1>1, <1>2, LenProperties
<1>4. list' = s
  OBVIOUS
<1> HIDE DEF s, n
<1>5. /\ s[1] = c
      /\ \A i \in 1..n : i + 1 \in 1 .. (1 + n) /\ s[i + 1] = list[i]
      /\ \A i \in 1 .. (1 + n) : i # 1 => i - 1 \in 1..n /\ s[i] = list[i - 1]
      /\ 1 \in 1 .. (1 + n)
  BY <1>1, <1>2
<1>6. ToSet(list) \subseteq ToSet(s) /\ c \in ToSet(s)
  <2>1. ASSUME NEW i \in 1..n
        PROVE  list[i] \in ToSet(s)
    <3>1. i + 1 \in DOMAIN s /\ s[i + 1] = list[i]
      BY <1>3, <1>5
    <3> QED
      BY <3>1 DEF ToSet
  <2>2. c \in ToSet(s)
    BY <1>3, <1>5 DEF ToSet
  <2> QED
    BY <1>1, <2>1, <2>2 DEF ToSet
<1>7. \A i, j \in DOMAIN s : s[i] = s[j] => i = j
  <2> SUFFICES ASSUME NEW i \in 1 .. (1 + n), NEW j \in 1 .. (1 + n),
                      s[i] = s[j]
               PROVE  i = j
    BY <1>3
  <2>1. CASE i = 1 \/ j = 1
    BY <1>1, <1>5, <2>1
  <2>2. CASE i # 1 /\ j # 1
    <3>1. list[i - 1] = list[j - 1] /\ i - 1 \in 1..n /\ j - 1 \in 1..n
      BY <1>5, <2>2
    <3>2. i - 1 = j - 1
      BY <1>1, <3>1 DEF Listing
    <3> QED
      BY <1>1, <3>2
  <2> QED
    BY <2>1, <2>2
<1>8. OrderKept
  <2> SUFFICES ASSUME NEW a \in ToSet(list), NEW b \in ToSet(list)
               PROVE  Precedes(a, b) <=> Precedes(a, b)'
    BY DEF OrderKept
  <2>1. a # c /\ b # c
    OBVIOUS
  <2>2. ASSUME Precedes(a, b)
        PROVE  Precedes(a, b)'
    <3>1. PICK i \in 1..n, j \in 1..n : i <= j /\ list[i] = a /\ list[j] = b
      BY <1>1, <2>2 DEF Precedes
    <3>2. /\ i + 1 \in DOMAIN s /\ j + 1 \in DOMAIN s /\ i + 1 <= j + 1
          /\ s[i + 1] = a /\ s[j + 1] = b
      BY <1>1, <1>3, <1>5, <3>1
    <3> QED
      BY <1>4, <3>2 DEF Precedes
  <2>3. ASSUME Precedes(a, b)'
        PROVE  Precedes(a, b)
    <3>1. PICK i \in 1 .. (1 + n), j \in 1 .. (1 + n) :
             i <= j /\ s[i] = a /\ s[j] = b
      BY <1>3, <1>4, <2>3 DEF Precedes
    <3>2. /\ i - 1 \in DOMAIN list /\ j - 1 \in DOMAIN list
          /\ list[i - 1] = a /\ list[j - 1] = b
      BY <1>1, <1>5, <2>1, <3>1
    <3>3. i - 1 <= j - 1
      BY <1>1, <3>1
    <3> QED
      BY <3>2, <3>3 DEF Precedes
  <2> QED
    BY <2>2, <2>3
<1> QED
  BY <1>2, <1>6, <1>7, <1>8 DEF s

\* A customer is removed.
LEMMA RemoveOrder ==
    ASSUME Listing, NEW k \in DOMAIN list, list' = Removed(list, k)
    PROVE  /\ Removed(list, k) \in Seq(Customers)
           /\ ToSet(list) \ {list[k]} \subseteq ToSet(Removed(list, k))
           /\ \A i, j \in DOMAIN Removed(list, k) :
                 Removed(list, k)[i] = Removed(list, k)[j] => i = j
           /\ OrderKept
<1> DEFINE s == Removed(list, k)
           n == Len(list)
           old(i) == IF i < k THEN i ELSE i + 1
<1>1. /\ list \in Seq(Customers) /\ n \in Nat /\ DOMAIN list = 1..n
      /\ k \in 1..n
  BY LenProperties DEF Listing
<1>2. /\ s \in Seq(Customers) /\ DOMAIN s = 1 .. (n - 1)
      /\ \A i \in 1 .. (n - 1) : s[i] = list[old(i)]
  <2>1. /\ s \in Seq(Customers) /\ DOMAIN s = 1 .. (n - 1)
        /\ \A i \in 1 .. (n - 1) :
              s[i] = IF i < k THEN list[i] ELSE list[i + 1]
    BY <1>1, RemovedProperties
  <2> HIDE DEF s, n
  <2> QED
    BY <2>1
<1>3. list' = s
  OBVIOUS
<1> HIDE DEF s, n
<1>4. \A i \in 1 .. (n - 1) : old(i) \in 1..n /\ old(i) # k /\ i \in Nat
  BY <1>1
<1>5. \A i, j \in 1 .. (n - 1) : /\ i <= j <=> old(i) <= old(j)
                                 /\ old(i) = old(j) => i = j
  BY <1>1
<1>6. \A m \in 1..n : m # k => \E i \in 1 .. (n - 1) : old(i) = m
  <2> SUFFICES ASSUME NEW m \in 1..n, m # k
               PROVE  \E i \in 1 .. (n - 1) : old(i) = m
    OBVIOUS
  <2>1. CASE m < k
    <3>1. m \in 1 .. (n - 1) /\ old(m) = m
      BY <1>1, <2>1
    <3> QED
      BY <3>1
  <2>2. CASE m > k
    <3>1. m - 1 \in 1 .. (n - 1) /\ old(m - 1) = m
      BY <1>1, <2>2
    <3> QED
      BY <3>1
  <2> QED
    BY <1>1, <2>1, <2>2
<1> HIDE DEF old
<1>7. \A m \in 1..n : m # k => \E i \in 1 .. (n - 1) : old(i) = m /\ s[i] = list[m]
  BY <1>2, <1>6
<1>8. ToSet(list) \ {list[k]} \subseteq ToSet(s)
  <2>1. ASSUME NEW m \in 1..n, m # k
        PROVE  list[m] \in ToSet(s)
    <3>1. PICK i \in 1 .. (n - 1) : s[i] = list[m]
      BY <1>7, <2>1
    <3> QED
      BY <1>2, <3>1 DEF ToSet
  <2> QED
    BY <1>1, <2>1 DEF ToSet
<1>9. \A i, j \in DOMAIN s : s[i] = s[j] => i = j
  BY <1>1, <1>2, <1>4, <1>5 DEF Listing
<1>10. OrderKept
  <2> SUFFICES ASSUME NEW a \in ToSet(s), NEW b \in ToSet(s)
               PROVE  Precedes(a, b) <=> Precedes(a, b)'
    BY <1>3 DEF OrderKept
  <2>1. a # list[k] /\ b # list[k]
    BY <1>1, <1>2, <1>4 DEF ToSet, Listing
  <2>2. ASSUME Precedes(a, b)
        PROVE  Precedes(a, b)'
    <3>1. PICK p \in 1..n, q \in 1..n : p <= q /\ list[p] = a /\ list[q] = b
      BY <1>1, <2>2 DEF Precedes
    <3>2. PICK i \in 1 .. (n - 1) : old(i) = p /\ s[i] = a
      BY <1>7, <2>1, <3>1
    <3>3. PICK j \in 1 .. (n - 1) : old(j) = q /\ s[j] = b
      BY <1>7, <2>1, <3>1
    <3>4. i <= j
      BY <1>5, <3>1, <3>2, <3>3
    <3> QED
      BY <1>2, <1>3, <3>2, <3>3, <3>4 DEF Precedes
  <2>3. ASSUME Precedes(a, b)'
        PROVE  Precedes(a, b)
    <3>1. PICK i \in 1 .. (n - 1), j \in 1 .. (n - 1) :
             i <= j /\ s[i] = a /\ s[j] = b
      BY <1>2, <1>3, <2>3 DEF Precedes
    <3>2. /\ old(i) \in DOMAIN list /\ old(j) \in DOMAIN list
          /\ list[old(i)] = a /\ list[old(j)] = b /\ old(i) <= old(j)
      BY <1>1, <1>2, <1>4, <1>5, <3>1
    <3> QED
      BY <3>2 DEF Precedes
  <2> QED
    BY <2>2, <2>3
<1> QED
  BY <1>2, <1>8, <1>9, <1>10 DEF s

\* What other users do.
LEMMA OthersKeep ==
    ASSUME PageInv, NEW c \in Customers, Add(c) \/ Remove(c) \/ Edit(c)
    PROVE  PageInv'
<1>1. Listing /\ matching \subseteq ToSet(list)
  BY KnownPage DEF Listing
<1>2. CASE Add(c)
  <2>1. PICK into \in BOOLEAN :
           Change(<<c>> \o list, IF into THEN matching \union {c} ELSE matching)
    BY <1>2 DEF Add
  <2> DEFINE s == <<c>> \o list
             m == IF into THEN matching \union {c} ELSE matching
  <2>2. c \notin ToSet(list) /\ list' = s
    BY <1>2, <2>1 DEF Add, Change
  <2>3. /\ s \in Seq(Customers) /\ ToSet(list) \subseteq ToSet(s)
        /\ c \in ToSet(s) /\ OrderKept
        /\ \A i, j \in DOMAIN s : s[i] = s[j] => i = j
    BY <1>1, <2>2, AddOrder
  <2>4. m \in SUBSET ToSet(s)
    BY <1>1, <2>3
  <2>5. Change(s, m)
    BY <2>1
  <2> HIDE DEF s, m
  <2> QED
    BY <2>3, <2>4, <2>5, ChangeKeeps
<1>3. CASE Remove(c)
  <2>1. PICK k \in DOMAIN list :
           list[k] = c /\ Change(Removed(list, k), matching \ {c})
    BY <1>3 DEF Remove
  <2> DEFINE s == Removed(list, k)
             m == matching \ {c}
  <2>2. list' = s
    BY <2>1 DEF Change
  <2>3. /\ s \in Seq(Customers) /\ ToSet(list) \ {c} \subseteq ToSet(s)
        /\ OrderKept /\ \A i, j \in DOMAIN s : s[i] = s[j] => i = j
    BY <1>1, <2>1, <2>2, RemoveOrder
  <2>4. m \in SUBSET ToSet(s)
    BY <1>1, <2>3
  <2>5. Change(s, m)
    BY <2>1
  <2> HIDE DEF s, m
  <2> QED
    BY <2>3, <2>4, <2>5, ChangeKeeps
<1>4. CASE Edit(c)
  <2> DEFINE m == IF c \in matching THEN matching \ {c} ELSE matching \union {c}
  <2>1. Change(list, m) /\ m \in SUBSET ToSet(list)
    BY <1>1, <1>4 DEF Edit
  <2> HIDE DEF m
  <2>2. list' = list
    BY <2>1 DEF Change
  <2>3. OrderKept
    BY <2>2 DEF OrderKept, Precedes
  <2>4. /\ list \in Seq(Customers)
        /\ \A i, j \in DOMAIN list : list[i] = list[j] => i = j
    BY <1>1 DEF Listing
  <2> QED
    BY <2>1, <2>3, <2>4, ChangeKeeps
<1> QED
  BY <1>2, <1>3, <1>4

-----------------------------------------------------------------------------
(* The theorems.                                                           *)

\* Nothing was asked, nothing is shown.
LEMMA InitPage == Init => PageInv
<1> SUFFICES ASSUME Init PROVE PageInv
  OBVIOUS
<1>1. PICK n \in 0..MaxInitial :
         list \in {s \in [1..n -> Customers] :
                      \A i, j \in 1..n : s[i] = s[j] => i = j}
  BY DEF Init
<1>2. /\ list \in [1..n -> Customers] /\ n \in Nat
      /\ \A i, j \in 1..n : list[i] = list[j] => i = j
  BY <1>1, PageAssumption
<1>3. list \in Seq(Customers) /\ DOMAIN list = 1..n
  BY <1>2, SeqDef
<1>4. /\ requests \in Seq(RequestRecord) /\ Len(requests) = 0
      /\ ToSet(requests) = {}
  BY DEF Init, ToSet
<1>5. /\ Cardinality(Customers) \in Nat /\ 1 \in Pages
      /\ MaxChanges \in Nat /\ MaxInFlight \in Nat
  BY PageAssumption, FS_CardinalityType DEF Pages
<1>6. walk \in WalkRecord /\ walk.repeats = FALSE /\ walk.pages = 0
  BY DEF Init, NoWalk, NoHistory, WalkRecord, SinceRecord, Filters
<1>7. view \in [ready : {"no", "yes", "left"}, filter : Filters, page : Pages,
                error : BOOLEAN] /\ view.ready = "no"
  BY <1>5 DEF Init, Filters
<1>8. TypeOK
  BY <1>2, <1>3, <1>4, <1>5, <1>6, <1>7 DEF Init, TypeOK, WalkRecord
<1>9. AskedLast
  BY <1>7 DEF AskedLast
<1>10. WalkHolds(walk)
  BY <1>6 DEF WalkHolds
<1> QED
  BY <1>4, <1>8, <1>9, <1>10 DEF PageInv

\* Every step keeps the invariant.
LEMMA NextPage == PageInv /\ [Next]_vars => PageInv'
<1> SUFFICES ASSUME PageInv, [Next]_vars PROVE PageInv'
  OBVIOUS
<1>1. CASE UNCHANGED vars
  <2>1. /\ UNCHANGED <<list, matching, changes, view, requests, shown, walk>>
    BY <1>1 DEF vars
  <2>2. TypeOK' /\ AskedLast'
    BY <2>1 DEF PageInv, TypeOK, AskedLast, Asked, ToSet
  <2>3. PICK w : w = walk
    OBVIOUS
  <2>4. WalkHolds(w)' /\ \A r \in ToSet(requests) : RequestHolds(r, w)'
    BY <2>1, <2>3, KnownPage, ListRests
  <2>5. ToSet(requests)' = ToSet(requests)
    BY <2>1 DEF ToSet
  <2> QED
    BY <2>1, <2>2, <2>3, <2>4, <2>5 DEF PageInv
<1>2. CASE \/ Ready \/ Previous \/ Following
           \/ \E filter \in Filters : ChangeFilter(filter)
  BY <1>2, ClicksKeep
<1>3. CASE Leave
  BY <1>3, FailKeeps
<1>4. ASSUME NEW i \in DOMAIN requests,
             \/ Receive(i) \/ Fail(i) \/ ReadItems(i) \/ ReadTotal(i)
      PROVE  PageInv'
  BY <1>4, ReceiveKeeps, FailKeeps, ReadsKeep
<1>5. ASSUME NEW c \in Customers, Add(c) \/ Remove(c) \/ Edit(c)
      PROVE  PageInv'
  BY <1>5, OthersKeep
<1> QED
  BY <1>1, <1>2, <1>3, <1>4, <1>5 DEF Next

\* How the requests, the answers and the list stand to each other, always.
THEOREM PageInvariant == Spec => []PageInv
BY InitPage, NextPage, PTL DEF Spec

\* The values have their types; a page of the API holds at most PageSize
\* customers, however the list changes between the pages.
THEOREM PageTyped == Spec => []TypeOK
<1>1. PageInv => TypeOK
  BY DEF PageInv
<1> QED
  BY <1>1, PageInvariant, PTL

\* When nothing is on its way, CustomersPage shows what its filter and page
\* number ask for, or shows an error, or the answer of a request that a later
\* one overtook: its effect never cancels a request.
THEOREM StaleExplained == Spec => []StaleIsExplained
<1>1. ASSUME PageInv, requests = <<>>, view.ready = "yes", ~ view.error,
             shown.filter # view.filter \/ shown.page # view.page
      PROVE  shown.late
  BY <1>1 DEF PageInv, AskedLast, Asked
<1>2. PageInv => StaleIsExplained
  BY <1>1 DEF StaleIsExplained
<1> QED
  BY <1>2, PageInvariant, PTL

\* Who pages through the list by LIMIT and OFFSET sees no customer twice and
\* misses none that was there all the time, but for the customers that entered
\* or left it meanwhile, and for a change between the two statements of a page.
THEOREM PagesTile == Spec => []PagesTileTheList
<1>1. ASSUME PageInv, walk.pages > 0, ~ More(walk.pages), ~ walk.since.left,
             ~ walk.split
      PROVE  walk.since.stay \subseteq walk.seen
  <2>1. /\ shown # None
        /\ Counted(walk.pages, walk.seen, walk.since, shown.total)
    BY <1>1, KnownPage DEF WalkHolds
  <2>2. shown.total \in Nat /\ walk.pages * PageSize \in Nat
    <3>1. shown.total \in Totals /\ walk.pages \in {0} \union Pages
      BY <1>1, <2>1 DEF PageInv, TypeOK, ShownRecord
    <3> QED
      BY <3>1, PageAssumption, FS_CardinalityType DEF Totals, Pages
  <2>3. ~ (walk.pages * PageSize < shown.total)
    BY <1>1, <2>1 DEF More
  <2> QED
    BY <1>1, <2>1, <2>2, <2>3 DEF Counted
<1>2. PageInv => (walk.repeats => walk.since.entered)
  BY KnownPage DEF WalkHolds
<1>3. PageInv => PagesTileTheList
  BY <1>1, <1>2 DEF PagesTileTheList
<1> QED
  BY <1>3, PageInvariant, PTL

=============================================================================
