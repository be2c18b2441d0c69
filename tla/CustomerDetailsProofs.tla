------------------------ MODULE CustomerDetailsProofs ------------------------
(***************************************************************************)
(* Theorems about CustomerDetails, for any number of tabs, of operations,  *)
(* of changes and of logins.                                               *)
(*                                                                         *)
(* Each step is about one operation, or one tab that is left.  What it may *)
(* do to the other operations is said once (Kept), and that none of them   *)
(* is then disturbed is proved once (OtherKept).                           *)
(***************************************************************************)
EXTENDS CustomerDetails, TLAPS

TabRecord == [page : {"details", "login"}, ready : BOOLEAN,
              next : Destinations \union {"none"}, shows : Shown,
              wrote : 0..MaxSaves, saved : 0..MaxSaves, outdated : BOOLEAN]

OpRecord == [pc : PCs, kind : Kinds, tab : Tabs \union {None},
             mounted : BOOLEAN, under : 0..MaxLogins, as : 0..MaxLogins,
             matches : BOOLEAN, answer : Answers, made : Nat,
             overtaken : BOOLEAN, read : Shown, stale : BOOLEAN]

-----------------------------------------------------------------------------
(* The invariant.                                                          *)

\* Where an operation is, and what it has made.
OpPlace(p) ==
    LET r == op[p] IN
    /\ r.pc \in {"me", "csrf", "send", "load"} \/ r.mounted => r.tab # None
    /\ r.pc \in {"csrf", "send", "sent", "answered"} => r.kind # "page"
    /\ r.pc = "answered" => r.answer # "none"
    /\ r.pc = "me" => r.read = None
    /\ r.pc = "me" /\ r.mounted => tab[r.tab].page = "details"
    /\ r.kind \in Changes => r.made <= stored
    /\ r.kind = "login" => r.made <= logins

\* Its CSRF token against the cookie, and what came of it.
OpToken(p) ==
    LET r == op[p] IN
    /\ r.pc = "send" /\ ~ r.overtaken => cookie = p
    /\ r.pc = "sent" /\ ~ r.overtaken => r.matches
    /\ r.answer = "403" => r.overtaken
    /\ r.pc = "send" /\ cookie = p => r.under = session
    /\ r.pc = "sent" /\ r.matches => r.under = r.as

\* A load that no change of its page overtook has read them all.
OpLoad(p) ==
    LET r == op[p] IN
    r.pc = "load" /\ r.mounted /\ ~ r.stale /\ r.read # None
    => tab[r.tab].wrote <= r.read

OpGood(p) == OpPlace(p) /\ OpToken(p) /\ OpLoad(p)

TabGood(t) ==
    LET u == tab[t] IN
    /\ u.wrote <= stored
    /\ u.ready /\ Loading(t) = {} /\ ~ u.outdated =>
          u.shows # None /\ u.wrote <= u.shows

DetailsInv ==
    /\ TypeOK
    /\ \A p \in Operations : OpGood(p)
    /\ \A t \in Tabs : TabGood(t)

-----------------------------------------------------------------------------
(* Kinds of steps.                                                         *)

Typed ==
    /\ tab \in [Tabs -> TabRecord] /\ op \in [Operations -> OpRecord]
    /\ \A t \in Tabs : tab[t].ready => tab[t].page = "details"

\* What a step may do to what the tabs share.
Shared ==
    /\ session' \in 0..logins' /\ logins' \in 1..MaxLogins
    /\ live' \subseteq 1..logins'
    /\ cookie' \in Operations \union {None} /\ stored' \in 0..MaxSaves
    /\ stored <= stored' /\ logins <= logins'

SameRequest(r, s) ==
    /\ s.pc = r.pc /\ s.kind = r.kind /\ s.under = r.under /\ s.as = r.as
    /\ s.matches = r.matches /\ s.answer = r.answer /\ s.made = r.made
    /\ s.read = r.read
    /\ r.overtaken => s.overtaken
    /\ r.stale => s.stale

\* The cookie against an operation r of slot p that becomes s.
SameToken(p, r, s) ==
    r.pc = "send" =>
       /\ cookie = p /\ cookie' # p => s.overtaken
       /\ cookie' = p => cookie = p /\ session' = session

SamePlace(r, s) ==
    /\ s.tab # r.tab => s.tab = None /\ r.pc \in {"idle", "sent", "answered"}
    /\ s.mounted =>
          /\ r.mounted /\ s.tab = r.tab
          /\ tab'[r.tab].page = tab[r.tab].page
          /\ r.pc = "load" /\ ~ s.stale => tab'[r.tab].wrote = tab[r.tab].wrote

\* What a step may do to the operations that it is not about.
Kept(p) ==
    \/ op'[p] = Idle
    \/ /\ op'[p] \in OpRecord
       /\ SameRequest(op[p], op'[p]) /\ SameToken(p, op[p], op'[p])
       /\ SamePlace(op[p], op'[p])

\* The invariant types the tabs and the operations.
LEMMA DetailsTyped == DetailsInv => Typed
BY DEF DetailsInv, TypeOK, Typed, TabRecord, OpRecord

\* The slots and the pages begin with these.
LEMMA IdleFresh ==
    /\ Idle \in OpRecord /\ Fresh \in TabRecord
    /\ None \notin Nat /\ None \notin Tabs /\ None \notin Operations
    /\ MaxSaves \in Nat /\ MaxLogins \in Nat \ {0}
BY DetailsAssumption
   DEF Idle, Fresh, OpRecord, TabRecord, PCs, Kinds, Answers, Shown, Destinations

\* What the tabs share has its types.
LEMMA SharedTyped ==
    ASSUME DetailsInv
    PROVE  /\ session \in 0..logins /\ logins \in 1..MaxLogins
           /\ live \subseteq 1..logins
           /\ cookie \in Operations \union {None} /\ stored \in 0..MaxSaves
           /\ session \in Nat /\ logins \in Nat /\ stored \in Nat
<1>1. /\ session \in 0..logins /\ logins \in 1..MaxLogins
      /\ live \subseteq 1..logins
      /\ cookie \in Operations \union {None} /\ stored \in 0..MaxSaves
  BY DEF DetailsInv, TypeOK
<1> QED
  BY <1>1, IdleFresh

\* A step that leaves alone what the tabs share.
LEMMA SharedRests ==
    ASSUME DetailsInv, UNCHANGED <<browser, api>>
    PROVE  Shared
<1>1. UNCHANGED <<session, cookie, logins, live, stored>>
  BY DEF browser, api
<1> QED
  BY <1>1, SharedTyped DEF Shared

\* A freed slot.
LEMMA IdleGood ==
    ASSUME DetailsInv, Shared, NEW p \in Operations, op'[p] = Idle
    PROVE  OpGood(p)'
<1>1. OpPlace(p)'
  BY IdleFresh DEF OpPlace, Idle, Changes
<1>2. OpToken(p)'
  BY DEF OpToken, Idle
<1>3. OpLoad(p)'
  BY DEF OpLoad, Idle
<1> QED
  BY <1>1, <1>2, <1>3 DEF OpGood

\* The operations that a step is not about stay what they are.
LEMMA OtherKept ==
    ASSUME DetailsInv, Shared, NEW p \in Operations, Kept(p)
    PROVE  op'[p] \in OpRecord /\ OpGood(p)'
<1>1. CASE op'[p] = Idle
  BY <1>1, IdleGood, IdleFresh
<1>2. CASE op'[p] # Idle
  <2> DEFINE r == op[p]
             s == op'[p]
  <2>1. /\ r \in OpRecord /\ s \in OpRecord
        /\ OpPlace(p) /\ OpToken(p) /\ OpLoad(p)
        /\ SameRequest(r, s) /\ SameToken(p, r, s) /\ SamePlace(r, s)
    BY <1>2, DetailsTyped DEF Kept, DetailsInv, OpGood, Typed
  <2>2. /\ r.made \in Nat /\ stored \in Nat /\ stored' \in Nat
        /\ logins \in Nat /\ logins' \in Nat
        /\ stored <= stored' /\ logins <= logins'
    <3>1. stored' \in Nat /\ logins' \in Nat
      BY IdleFresh DEF Shared
    <3> QED
      BY <2>1, <3>1, SharedTyped DEF OpRecord, Shared
  <2>3. OpPlace(p)'
    <3>1. s.pc \in {"me", "csrf", "send", "load"} \/ s.mounted => s.tab # None
      BY <2>1 DEF OpPlace, SameRequest, SamePlace
    <3>2. s.pc = "me" => s.read = None
      BY <2>1 DEF OpPlace, SameRequest
    <3>6. /\ s.pc \in {"csrf", "send", "sent", "answered"} => s.kind # "page"
          /\ s.pc = "answered" => s.answer # "none"
      BY <2>1 DEF OpPlace, SameRequest
    <3>3. s.pc = "me" /\ s.mounted => tab'[s.tab].page = "details"
      BY <2>1 DEF OpPlace, SameRequest, SamePlace
    <3>4. s.kind \in Changes => s.made <= stored'
      BY <2>1, <2>2 DEF OpPlace, SameRequest
    <3>5. s.kind = "login" => s.made <= logins'
      BY <2>1, <2>2 DEF OpPlace, SameRequest
    <3> QED
      BY <3>1, <3>2, <3>3, <3>4, <3>5, <3>6 DEF OpPlace
  <2>4. OpToken(p)'
    BY <2>1 DEF OpToken, SameRequest, SameToken
  <2>5. OpLoad(p)'
    BY <2>1 DEF OpLoad, SameRequest, SamePlace
  <2> QED
    BY <2>1, <2>3, <2>4, <2>5 DEF OpGood
<1> QED
  BY <1>1, <1>2

\* Nor is a tab disturbed by what goes on in others.
LEMMA TabRests ==
    ASSUME DetailsInv, Shared, NEW t \in Tabs, tab'[t] = tab[t],
           Loading(t) \subseteq Loading(t)'
    PROVE  TabGood(t)'
<1>1. TabGood(t) /\ tab[t] \in TabRecord
  BY DetailsTyped DEF DetailsInv, Typed
<1>2. /\ tab[t].wrote \in Nat /\ stored \in Nat /\ stored' \in Nat
      /\ stored <= stored'
  BY <1>1, IdleFresh, SharedTyped DEF TabRecord, Shared
<1>3. Loading(t)' = {} => Loading(t) = {}
  OBVIOUS
<1> HIDE DEF Loading
<1> QED
  BY <1>1, <1>2, <1>3 DEF TabGood

\* The invariant, put together.
LEMMA Joined ==
    ASSUME Shared, DOMAIN op' = Operations, op' = [p \in Operations |-> op'[p]],
           \A p \in Operations : op'[p] \in OpRecord /\ OpGood(p)',
           tab' \in [Tabs -> TabRecord],
           \A t \in Tabs : tab'[t].ready => tab'[t].page = "details",
           \A t \in Tabs : TabGood(t)'
    PROVE  DetailsInv'
<1>1. op' \in [Operations -> OpRecord]
  OBVIOUS
<1>2. TypeOK'
  BY <1>1 DEF TypeOK, Shared, OpRecord, TabRecord
<1> QED
  BY <1>2 DEF DetailsInv

\* An operation that stays as it is, on a page that does.
LEMMA Rests ==
    ASSUME DetailsInv, UNCHANGED browser, NEW p \in Operations, op'[p] = op[p],
           op[p].mounted => /\ tab'[op[p].tab].page = tab[op[p].tab].page
                            /\ tab'[op[p].tab].wrote = tab[op[p].tab].wrote
    PROVE  Kept(p)
<1>1. op[p] \in OpRecord
  BY DetailsTyped DEF Typed
<1>2. cookie' = cookie /\ session' = session
  BY DEF browser
<1>3. SameRequest(op[p], op'[p])
  BY DEF SameRequest
<1>4. SameToken(p, op[p], op'[p])
  BY <1>2 DEF SameToken
<1>5. SamePlace(op[p], op'[p])
  BY DEF SamePlace
<1> QED
  BY <1>1, <1>3, <1>4, <1>5 DEF Kept

\* A step of operation o that leaves the tabs alone.
LEMMA LocalKeeps ==
    ASSUME DetailsInv, Shared, UNCHANGED <<browser, tab>>,
           NEW o \in Operations, NEW r \in OpRecord, op' = [op EXCEPT ![o] = r],
           op[o].pc = "load" /\ op[o].mounted =>
              r.pc = "load" /\ r.mounted /\ r.tab = op[o].tab,
           OpGood(o)'
    PROVE  DetailsInv'
<1>1. Typed
  BY DetailsTyped
<1>2. /\ op' = [p \in Operations |-> op'[p]] /\ DOMAIN op' = Operations
      /\ op'[o] = r
      /\ \A p \in Operations \ {o} : op'[p] = op[p]
  BY <1>1 DEF Typed
<1>3. \A p \in Operations : op'[p] \in OpRecord /\ OpGood(p)'
  <2> TAKE p \in Operations
  <2>1. CASE p = o
    BY <1>2, <2>1
  <2>2. CASE p # o
    BY <1>2, <2>2, Rests, OtherKept
  <2> QED
    BY <2>1, <2>2
<1>4. \A t \in Tabs : TabGood(t)'
  <2> TAKE t \in Tabs
  <2>1. \A p \in Loading(t) : p \in Loading(t)'
    <3> TAKE p \in Loading(t)
    <3>1. CASE p = o
      BY <1>2, <3>1 DEF Loading, Mounted, Of
    <3>2. CASE p # o
      BY <1>2, <3>2 DEF Loading, Mounted, Of
    <3> QED
      BY <3>1, <3>2
  <2>2. Loading(t) \subseteq Loading(t)'
    BY <2>1
  <2> QED
    BY <2>2, TabRests
<1> QED
  BY <1>1, <1>2, <1>3, <1>4, Joined DEF Typed

\* A step of operation o that changes tab t.
LEMMA TabKeeps ==
    ASSUME DetailsInv, Shared, NEW o \in Operations, NEW t \in Tabs,
           DOMAIN op' = Operations, op' = [p \in Operations |-> op'[p]],
           \A p \in Operations \ {o} :
              /\ Kept(p)
              /\ op'[p].pc = op[p].pc /\ op'[p].tab = op[p].tab
              /\ op'[p].mounted = op[p].mounted,
           op'[o] \in OpRecord, OpGood(o)',
           op[o].tab = t,
           NEW v \in TabRecord, tab' = [tab EXCEPT ![t] = v],
           v.ready => v.page = "details",
           TabGood(t)'
    PROVE  DetailsInv'
<1>1. Typed
  BY DetailsTyped
<1>2. /\ tab' \in [Tabs -> TabRecord] /\ tab'[t] = v
      /\ \A u \in Tabs \ {t} : tab'[u] = tab[u]
  BY <1>1 DEF Typed
<1>3. \A p \in Operations : op'[p] \in OpRecord /\ OpGood(p)'
  <2> TAKE p \in Operations
  <2>1. CASE p = o
    BY <2>1
  <2>2. CASE p # o
    BY <2>2, OtherKept
  <2> QED
    BY <2>1, <2>2
<1>4. \A u \in Tabs : tab'[u].ready => tab'[u].page = "details"
  BY <1>1, <1>2 DEF Typed
<1>5. \A u \in Tabs : TabGood(u)'
  <2> TAKE u \in Tabs
  <2>1. CASE u = t
    BY <2>1
  <2>2. CASE u # t
    <3>1. \A p \in Loading(u) : p \in Loading(u)'
      BY <2>2 DEF Loading, Mounted, Of
    <3>2. Loading(u) \subseteq Loading(u)'
      BY <3>1
    <3> QED
      BY <1>2, <2>2, <3>2, TabRests
  <2> QED
    BY <2>1, <2>2
<1> QED
  BY <1>2, <1>3, <1>4, <1>5, Joined

-----------------------------------------------------------------------------
(* The steps of one operation.                                             *)

\* An operation begins.
LEMMA StartsKeeps ==
    ASSUME DetailsInv, NEW o \in Operations, NEW t \in Tabs,
           NEW kind \in Kinds, NEW pc \in {"me", "csrf"}, Starts(o, t, kind, pc),
           IF pc = "me" THEN tab[t].page = "details" ELSE kind # "page"
    PROVE  DetailsInv'
<1> DEFINE r == [Idle EXCEPT !.pc = pc, !.kind = kind, !.tab = t, !.mounted = TRUE]
<1>1. /\ r \in OpRecord /\ r.pc = pc /\ r.tab = t /\ r.tab # None /\ r.made = 0
      /\ r.kind = kind
      /\ r.read = None /\ r.answer = "none"
  BY IdleFresh DEF Idle, OpRecord, PCs
<1> HIDE DEF r
<1>2. /\ op[o].pc = "idle" /\ op' = [op EXCEPT ![o] = r] /\ op'[o] = r
      /\ UNCHANGED <<browser, api, tab>>
  BY DetailsTyped DEF Starts, r, Typed
<1>3. Shared
  BY <1>2, SharedRests
<1>4. OpPlace(o)'
  <2>1. 0 <= stored' /\ 0 <= logins'
    BY <1>3, IdleFresh DEF Shared
  <2> QED
    BY <1>1, <1>2, <2>1 DEF OpPlace
<1>5. OpToken(o)' /\ OpLoad(o)'
  BY <1>1, <1>2 DEF OpToken, OpLoad
<1>6. OpGood(o)'
  BY <1>4, <1>5 DEF OpGood
<1> QED
  BY <1>1, <1>2, <1>3, <1>6, LocalKeeps

\* An operation that is not a load ends.
LEMMA EndsKeeps ==
    ASSUME DetailsInv, NEW o \in Operations, Ends(o),
           op[o].pc # "load" \/ ~ op[o].mounted,
           UNCHANGED <<browser, api, tab>>
    PROVE  DetailsInv'
<1>1. Shared
  BY SharedRests
<1>2. op' = [op EXCEPT ![o] = Idle] /\ op'[o] = Idle
  BY DetailsTyped DEF Ends, Typed
<1>3. OpGood(o)'
  BY <1>1, <1>2, IdleGood
<1> QED
  BY <1>1, <1>2, <1>3, IdleFresh, LocalKeeps

\* The change leaves for the API.
LEMMA SendKeeps ==
    ASSUME DetailsInv, NEW o \in Operations, Send(o)
    PROVE  DetailsInv'
<1> DEFINE q == op[o]
           r == [q EXCEPT !.pc = "sent", !.as = session, !.matches = (cookie = o)]
<1>1. /\ q \in OpRecord /\ q.pc = "send" /\ OpPlace(o) /\ OpToken(o)
  BY DetailsTyped DEF Send, DetailsInv, OpGood, Typed
<1>2. session \in 0..MaxLogins
  BY SharedTyped, IdleFresh
<1>3. op' = [op EXCEPT ![o] = r] /\ UNCHANGED <<browser, api, tab>>
  BY DEF Send
<1> HIDE DEF q
<1>4. /\ r \in OpRecord /\ r.pc = "sent" /\ r.as = session
      /\ r.matches = (cookie = o)
      /\ r.kind = q.kind /\ r.tab = q.tab /\ r.mounted = q.mounted
      /\ r.under = q.under /\ r.answer = q.answer /\ r.made = q.made
      /\ r.overtaken = q.overtaken
  BY <1>1, <1>2 DEF OpRecord, PCs
<1> HIDE DEF r
<1>5. op'[o] = r /\ Shared
  BY <1>3, DetailsTyped, SharedRests DEF Typed
<1>6. stored' = stored /\ logins' = logins
  BY <1>3 DEF api
<1>7. OpPlace(o)'
  BY <1>1, <1>4, <1>5, <1>6 DEF OpPlace, q
<1>8. OpToken(o)'
  BY <1>1, <1>4, <1>5 DEF OpToken, q
<1>9. OpLoad(o)'
  BY <1>4, <1>5 DEF OpLoad
<1>10. OpGood(o)'
  BY <1>7, <1>8, <1>9 DEF OpGood
<1> QED
  BY <1>1, <1>3, <1>4, <1>5, <1>10, LocalKeeps DEF q

\* The API answers an operation.
LEMMA AnsweredKeeps ==
    ASSUME DetailsInv, Shared, NEW o \in Operations,
           NEW answer \in Answers, NEW made \in Nat,
           op[o].pc = "sent", Answered(o, answer, made), answer # "none",
           answer = "403" => ~ op[o].matches,
           op[o].kind \in Changes => made <= stored',
           op[o].kind = "login" => made <= logins',
           UNCHANGED <<browser, tab>>
    PROVE  DetailsInv'
<1> DEFINE q == op[o]
           r == [Idle EXCEPT !.pc = "answered", !.kind = q.kind, !.tab = q.tab,
                             !.mounted = q.mounted, !.answer = answer,
                             !.made = made, !.overtaken = q.overtaken]
<1>1. q \in OpRecord /\ q.pc = "sent" /\ OpPlace(o) /\ OpToken(o)
  BY DetailsTyped DEF DetailsInv, OpGood, Typed
<1>2. op' = [op EXCEPT ![o] = r] /\ op'[o] = r
  BY DetailsTyped DEF Answered, Typed
<1> HIDE DEF q
<1>3. /\ r \in OpRecord /\ r.pc = "answered" /\ r.kind = q.kind
      /\ r.tab = q.tab /\ r.mounted = q.mounted /\ r.answer = answer
      /\ r.made = made /\ r.overtaken = q.overtaken
  BY <1>1, IdleFresh DEF OpRecord, PCs
<1> HIDE DEF r
<1>4. OpPlace(o)'
  BY <1>1, <1>2, <1>3 DEF OpPlace, q
<1>5. OpToken(o)'
  BY <1>1, <1>2, <1>3 DEF OpToken, q
<1>6. OpLoad(o)'
  BY <1>2, <1>3 DEF OpLoad
<1>7. OpGood(o)'
  BY <1>4, <1>5, <1>6 DEF OpGood
<1> QED
  BY <1>1, <1>2, <1>3, <1>7, LocalKeeps DEF q

\* The API serves or refuses an operation.
LEMMA ServeKeeps ==
    ASSUME DetailsInv, NEW o \in Operations, Serve(o)
    PROVE  DetailsInv'
<1>1. /\ op[o].pc = "sent" /\ op[o] \in OpRecord /\ UNCHANGED <<browser, tab>>
  BY DetailsTyped DEF Serve, Typed
<1>2. UNCHANGED <<session, cookie>>
  BY <1>1 DEF browser
<1>3. "ok" \in Answers /\ "401" \in Answers /\ "403" \in Answers
  BY DEF Answers
<1>4. /\ session \in 0..logins /\ logins \in 1..MaxLogins /\ live \subseteq 1..logins
      /\ cookie \in Operations \union {None} /\ stored \in 0..MaxSaves
      /\ MaxSaves \in Nat /\ MaxLogins \in Nat
  BY SharedTyped, IdleFresh
<1>5. CASE UNCHANGED api /\ \E answer \in {"401", "403"} :
              Answered(o, answer, 0) /\ (answer = "403" => ~ op[o].matches)
  <2>1. PICK answer \in {"401", "403"} :
           Answered(o, answer, 0) /\ (answer = "403" => ~ op[o].matches)
    BY <1>5
  <2>2. Shared
    BY <1>1, <1>5, SharedRests
  <2>3. 0 <= stored' /\ 0 <= logins'
    BY <1>4, <1>5 DEF api
  <2> QED
    BY <1>1, <1>3, <2>1, <2>2, <2>3, AnsweredKeeps
<1>6. CASE /\ op[o].kind \in Changes
           /\ stored < MaxSaves /\ stored' = stored + 1
           /\ Answered(o, "ok", stored') /\ UNCHANGED <<logins, live>>
  <2>1. Shared
    BY <1>2, <1>4, <1>6 DEF Shared
  <2>2. stored' \in Nat /\ stored' <= stored' /\ op[o].kind # "login"
    BY <1>4, <1>6 DEF Changes
  <2> QED
    BY <1>1, <1>3, <1>6, <2>1, <2>2, AnsweredKeeps
<1>7. CASE /\ op[o].kind = "logout" /\ live' = live \ {op[o].as}
           /\ Answered(o, "ok", 0) /\ UNCHANGED <<logins, stored>>
  <2>1. Shared
    <3>1. live' \subseteq 1..logins /\ logins' = logins /\ stored' = stored
      BY <1>4, <1>7
    <3>2. logins <= logins /\ stored <= stored
      BY <1>4
    <3> QED
      BY <1>2, <1>4, <3>1, <3>2 DEF Shared
  <2>2. op[o].kind \notin Changes /\ op[o].kind # "login"
    BY <1>7 DEF Changes
  <2> QED
    BY <1>1, <1>3, <1>7, <2>1, <2>2, AnsweredKeeps
<1>8. CASE /\ op[o].kind = "login"
           /\ logins < MaxLogins /\ logins' = logins + 1
           /\ live' = live \union {logins'}
           /\ Answered(o, "ok", logins') /\ UNCHANGED stored
  <2>1. Shared
    BY <1>2, <1>4, <1>8 DEF Shared
  <2>2. logins' \in Nat /\ logins' <= logins' /\ op[o].kind \notin Changes
    BY <1>4, <1>8 DEF Changes
  <2> QED
    BY <1>1, <1>3, <1>8, <2>1, <2>2, AnsweredKeeps
<1>9. Refusal(o) \in {"none", "401", "403"}
  BY DEF Refusal
<1>10. CASE Refusal(o) # "none"
  <2>1. Answered(o, Refusal(o), 0) /\ UNCHANGED api
    BY <1>10 DEF Serve
  <2>2. Refusal(o) = "403" => ~ op[o].matches
    BY DEF Refusal
  <2> QED
    BY <1>5, <1>9, <1>10, <2>1, <2>2
<1>11. CASE Refusal(o) = "none"
  <2>1. CASE op[o].kind \in Changes
    <3>1. /\ stored < MaxSaves /\ stored' = stored + 1
          /\ Answered(o, "ok", stored') /\ UNCHANGED <<logins, live>>
      BY <1>11, <2>1 DEF Serve, Changes
    <3> QED
      BY <1>6, <2>1, <3>1
  <2>2. CASE op[o].kind = "logout"
    <3>1. /\ live' = live \ {op[o].as}
          /\ Answered(o, "ok", 0) /\ UNCHANGED <<logins, stored>>
      BY <1>11, <2>2 DEF Serve, Changes
    <3> QED
      BY <1>7, <2>2, <3>1
  <2>3. CASE op[o].kind = "login"
    <3>1. \/ Answered(o, "401", 0) /\ UNCHANGED api
          \/ /\ logins < MaxLogins /\ logins' = logins + 1
             /\ live' = live \union {logins'}
             /\ Answered(o, "ok", logins') /\ UNCHANGED stored
      BY <1>11, <2>3 DEF Serve, Changes
    <3> QED
      BY <1>5, <1>8, <2>3, <3>1
  <2>4. op[o].kind \in Changes \union {"logout", "login"}
    BY <1>1 DEF DetailsInv, OpGood, OpPlace, OpRecord, Kinds, Changes
  <2> QED
    BY <2>1, <2>2, <2>3, <2>4
<1> QED
  BY <1>10, <1>11

\* A load reads what is stored.
LEMMA ReadKeeps ==
    ASSUME DetailsInv, NEW o \in Operations, Read(o)
    PROVE  DetailsInv'
<1> DEFINE q == op[o]
           r == [q EXCEPT !.read = stored]
<1>1. q \in OpRecord /\ q.pc = "load" /\ OpPlace(o) /\ OpToken(o)
  BY DetailsTyped DEF Read, DetailsInv, OpGood, Typed
<1>2. stored \in Shown
  BY SharedTyped DEF Shown
<1>3. op' = [op EXCEPT ![o] = r] /\ UNCHANGED <<browser, api, tab>>
  BY DEF Read
<1> HIDE DEF q
<1>4. /\ r \in OpRecord /\ r.pc = "load" /\ r.read = stored
      /\ r.kind = q.kind /\ r.tab = q.tab /\ r.mounted = q.mounted
      /\ r.under = q.under /\ r.answer = q.answer /\ r.made = q.made
      /\ r.overtaken = q.overtaken /\ r.as = q.as /\ r.matches = q.matches
  BY <1>1, <1>2 DEF OpRecord
<1> HIDE DEF r
<1>5. op'[o] = r /\ Shared
  BY <1>3, DetailsTyped, SharedRests DEF Typed
<1>6. stored' = stored /\ logins' = logins
  BY <1>3 DEF api
<1>7. OpPlace(o)'
  BY <1>1, <1>4, <1>5, <1>6 DEF OpPlace, q
<1>8. OpToken(o)'
  BY <1>1, <1>4, <1>5 DEF OpToken, q
<1>9. OpLoad(o)'
  <2>1. r.mounted => r.tab \in Tabs
    BY <1>1, <1>4 DEF OpPlace, OpRecord, q
  <2>2. r.mounted => tab[r.tab].wrote <= stored
    BY <2>1 DEF DetailsInv, TabGood
  <2> QED
    BY <1>3, <1>4, <1>5, <2>2 DEF OpLoad
<1>10. OpGood(o)'
  BY <1>7, <1>8, <1>9 DEF OpGood
<1> QED
  BY <1>3, <1>4, <1>5, <1>10, LocalKeeps DEF q

-----------------------------------------------------------------------------
(* The steps that change a tab, or the cookies.                            *)

\* The loads of a tab go on, but for operation o.
LEMMA LoadsGoOn ==
    ASSUME NEW o \in Operations, NEW t \in Tabs, o \notin Loading(t),
           \A p \in Operations \ {o} :
              /\ op'[p].pc = op[p].pc /\ op'[p].tab = op[p].tab
              /\ op'[p].mounted = op[p].mounted
    PROVE  Loading(t)' = {} => Loading(t) = {}
<1>1. \A p \in Loading(t) : p \in Loading(t)'
  BY DEF Loading, Mounted, Of
<1> QED
  BY <1>1

\* The tab of an operation that has one.
LEMMA PlaceOf ==
    ASSUME DetailsInv, NEW p \in Operations,
           op[p].mounted \/ op[p].pc \in {"me", "csrf", "send", "load"}
    PROVE  op[p].tab \in Tabs /\ tab[op[p].tab] \in TabRecord /\ TabGood(op[p].tab)
BY DetailsTyped DEF DetailsInv, OpGood, OpPlace, Typed, OpRecord

\* Who the user is, for the page that asked.
LEMMA MeEndsKeeps ==
    ASSUME DetailsInv, NEW o \in Operations,
           NEW to \in Destinations \union {"none"},
           NEW t \in Tabs, op[o].tab = t,
           op[o].pc = "me", op[o].mounted, MeEnds(o, to)
    PROVE  DetailsInv'
<1> DEFINE q == op[o]
           u == tab[t]
           r == [q EXCEPT !.pc = "load"]
           v == [u EXCEPT !.ready = TRUE, !.next = to]
<1>1. /\ q \in OpRecord /\ q.pc = "me" /\ q.mounted /\ OpPlace(o) /\ OpToken(o)
      /\ u \in TabRecord /\ TabGood(t) /\ q.tab = t
      /\ u.page = "details" /\ q.read = None
  BY DetailsTyped, PlaceOf DEF DetailsInv, OpGood, OpPlace, Typed
<1>2. /\ op' = [op EXCEPT ![o] = r] /\ tab' = [tab EXCEPT ![t] = v]
      /\ UNCHANGED <<browser, api>>
  <2>1. UNCHANGED <<browser, api>> /\ op' = [op EXCEPT ![o] = r]
    BY DEF MeEnds
  <2>2. tab' = [tab EXCEPT ![t] = v]
    BY <1>1, DetailsTyped DEF MeEnds, Typed
  <2> QED
    BY <2>1, <2>2
<1> HIDE DEF q, u
<1>3. /\ r \in OpRecord /\ r.pc = "load" /\ r.read = None
      /\ r.kind = q.kind /\ r.tab = t /\ r.mounted
      /\ r.answer = q.answer /\ r.made = q.made /\ r.overtaken = q.overtaken
  BY <1>1 DEF OpRecord, PCs
<1>4. /\ v \in TabRecord /\ v.page = "details" /\ v.wrote = u.wrote
      /\ v.ready
  BY <1>1 DEF TabRecord
<1> HIDE DEF r, v
<1>5. /\ op'[o] = r /\ Shared /\ tab'[t] = v
      /\ op' = [p \in Operations |-> op'[p]] /\ DOMAIN op' = Operations
      /\ \A p \in Operations \ {o} : op'[p] = op[p]
      /\ \A w \in Tabs \ {t} : tab'[w] = tab[w]
  BY <1>1, <1>2, DetailsTyped, SharedRests DEF Typed
<1>6. stored' = stored /\ logins' = logins
  BY <1>2 DEF api
<1>7. OpGood(o)'
  <2>1. OpPlace(o)'
    BY <1>1, <1>3, <1>5, <1>6, IdleFresh DEF OpPlace, q
  <2>2. OpToken(o)'
    BY <1>1, <1>3, <1>5 DEF OpToken, q
  <2>3. OpLoad(o)'
    BY <1>3, <1>5 DEF OpLoad
  <2> QED
    BY <2>1, <2>2, <2>3 DEF OpGood
<1>8. TabGood(t)'
  <2>1. o \in Loading(t)'
    BY <1>3, <1>5 DEF Loading, Mounted, Of
  <2> QED
    BY <1>1, <1>4, <1>5, <1>6, <2>1 DEF TabGood, u
<1>9. \A p \in Operations \ {o} : Kept(p)
  <2> TAKE p \in Operations \ {o}
  <2>1. op[p].mounted => /\ tab'[op[p].tab].page = tab[op[p].tab].page
                         /\ tab'[op[p].tab].wrote = tab[op[p].tab].wrote
    BY <1>1, <1>4, <1>5, PlaceOf DEF u
  <2> QED
    BY <1>2, <1>5, <2>1, Rests
<1> QED
  BY <1>1, <1>2, <1>3, <1>4, <1>5, <1>7, <1>8, <1>9, TabKeeps DEF q

\* A load ends, for the page that is still there.
LEMMA LoadOverKeeps ==
    ASSUME DetailsInv, NEW o \in Operations, op[o].pc = "load",
           NEW t \in Tabs, op[o].tab = t,
           NEW shows \in Shown, NEW outdated \in BOOLEAN,
           ~ outdated /\ op[o].mounted => shows = op[o].read /\ shows # None
                                          /\ ~ op[o].stale,
           ~ op[o].mounted => shows = tab[t].shows /\ outdated = tab[t].outdated,
           tab' = [tab EXCEPT ![t] =
                      [tab[t] EXCEPT !.shows = shows, !.outdated = outdated]],
           Ends(o), UNCHANGED <<browser, api>>
    PROVE  DetailsInv'
<1> DEFINE q == op[o]
           u == tab[t]
           v == [u EXCEPT !.shows = shows, !.outdated = outdated]
<1>1. /\ q \in OpRecord /\ q.pc = "load" /\ OpLoad(o)
      /\ q.tab = t /\ u \in TabRecord /\ TabGood(t)
      /\ u.ready => u.page = "details"
  BY DetailsTyped, PlaceOf DEF DetailsInv, OpGood, Typed
<1>2. tab' = [tab EXCEPT ![t] = v]
  OBVIOUS
<1>3. /\ v \in TabRecord /\ v.page = u.page /\ v.wrote = u.wrote
      /\ v.ready = u.ready /\ v.shows = shows /\ v.outdated = outdated
  BY <1>1 DEF TabRecord
<1> HIDE DEF v
<1>4. /\ op'[o] = Idle /\ Shared /\ tab'[t] = v
      /\ op' = [p \in Operations |-> op'[p]] /\ DOMAIN op' = Operations
      /\ \A p \in Operations \ {o} : op'[p] = op[p]
      /\ \A w \in Tabs \ {t} : tab'[w] = tab[w]
  BY <1>1, <1>2, DetailsTyped, SharedRests DEF Typed, Ends
<1>5. OpGood(o)'
  BY <1>4, IdleGood
<1>6. stored' = stored
  BY DEF api
<1>7. TabGood(t)'
  <2>1. v.wrote <= stored'
    BY <1>1, <1>3, <1>6 DEF TabGood
  <2>2. ASSUME v.ready, Loading(t)' = {}, ~ v.outdated
        PROVE  v.shows # None /\ v.wrote <= v.shows
    <3>1. CASE q.mounted
      BY <1>1, <1>3, <2>2, <3>1 DEF OpLoad
    <3>2. CASE ~ q.mounted
      <4>1. o \notin Loading(t)
        BY <3>2 DEF Loading, Mounted
      <4>2. Loading(t) = {}
        BY <1>1, <1>4, <2>2, <4>1, LoadsGoOn
      <4> QED
        BY <1>1, <1>3, <2>2, <3>2, <4>2 DEF TabGood
    <3> QED
      BY <3>1, <3>2
  <2> QED
    BY <1>4, <2>1, <2>2 DEF TabGood
<1>8. \A p \in Operations \ {o} : Kept(p)
  <2> TAKE p \in Operations \ {o}
  <2>1. op[p].mounted => /\ tab'[op[p].tab].page = tab[op[p].tab].page
                         /\ tab'[op[p].tab].wrote = tab[op[p].tab].wrote
    BY <1>1, <1>3, <1>4, PlaceOf
  <2> QED
    BY <1>4, <2>1, Rests
<1>9. v.ready => v.page = "details"
  BY <1>1, <1>3
<1>10. op'[o] \in OpRecord
  BY <1>4, IdleFresh
<1>11. \A p \in Operations \ {o} :
          /\ Kept(p)
          /\ op'[p].pc = op[p].pc /\ op'[p].tab = op[p].tab
          /\ op'[p].mounted = op[p].mounted
  BY <1>4, <1>8
<1> HIDE DEF q, u
<1> QED
  BY <1>2, <1>3, <1>4, <1>5, <1>7, <1>9, <1>10, <1>11, TabKeeps

\* load() shows what it read.
LEMMA LoadEndsKeeps ==
    ASSUME DetailsInv, NEW o \in Operations, LoadEnds(o)
    PROVE  DetailsInv'
<1>1. /\ op[o].pc = "load" /\ op[o].read # None /\ op[o] \in OpRecord
      /\ Ends(o) /\ UNCHANGED <<browser, api>>
      /\ op[o].tab \in Tabs /\ tab[op[o].tab] \in TabRecord
  BY DetailsTyped, PlaceOf DEF LoadEnds, Typed
<1>2. CASE op[o].mounted
  <2> DEFINE q == op[o]
  <2>3. PICK t \in Tabs : t = q.tab
    BY <1>1
  <2>1. q.read \in Shown /\ q.stale \in BOOLEAN
    BY <1>1 DEF OpRecord
  <2>2. tab' = [tab EXCEPT ![t] =
                  [tab[t] EXCEPT !.shows = q.read, !.outdated = q.stale]]
    BY <1>1, <1>2, <2>3, DetailsTyped DEF LoadEnds, Typed
  <2> QED
    BY <1>1, <1>2, <2>1, <2>2, <2>3, LoadOverKeeps
<1>3. CASE ~ op[o].mounted
  BY <1>1, <1>3, EndsKeeps DEF LoadEnds
<1> QED
  BY <1>2, <1>3

\* What an acknowledged change does to the other operations.
LEMMA NotedIs ==
    ASSUME Typed, NEW o \in Operations, NEW p \in Operations
    PROVE  /\ Noted(o)[p] \in OpRecord
           /\ SameRequest(op[p], Noted(o)[p])
           /\ Noted(o)[p].tab = op[p].tab /\ Noted(o)[p].mounted = op[p].mounted
           /\ op[o].mounted /\ p \in Loading(op[o].tab) => Noted(o)[p].stale
           /\ Noted(o)[p].overtaken = op[p].overtaken
<1> DEFINE q == op[p]
<1>1. q \in OpRecord
  BY DEF Typed
<1>2. Noted(o)[p] = IF op[o].mounted /\ p \in Loading(op[o].tab)
                    THEN [q EXCEPT !.stale = TRUE] ELSE q
  BY DEF Noted
<1> HIDE DEF q, Noted, Loading
<1>3. CASE op[o].mounted /\ p \in Loading(op[o].tab)
  <2> DEFINE s == [q EXCEPT !.stale = TRUE]
  <2>1. Noted(o)[p] = s
    BY <1>2, <1>3
  <2>2. /\ s \in OpRecord /\ s.stale /\ SameRequest(q, s)
        /\ s.tab = q.tab /\ s.mounted = q.mounted /\ s.overtaken = q.overtaken
    BY <1>1 DEF OpRecord, SameRequest
  <2> HIDE DEF s
  <2> QED
    BY <2>1, <2>2 DEF q
<1>4. CASE ~ (op[o].mounted /\ p \in Loading(op[o].tab))
  <2>1. Noted(o)[p] = q
    BY <1>2, <1>4
  <2>2. SameRequest(q, q)
    BY DEF SameRequest
  <2> QED
    BY <1>1, <1>4, <2>1, <2>2 DEF q
<1> QED
  BY <1>3, <1>4

\* A change is acknowledged: r is what goes on, v the state of its page.
LEMMA SavedKeeps ==
    ASSUME DetailsInv, NEW o \in Operations, op[o].pc = "answered",
           NEW t \in Tabs, op[o].tab = t, UNCHANGED <<browser, api>>,
           NEW r \in OpRecord, op' = [Noted(o) EXCEPT ![o] = r], OpGood(o)',
           NEW v \in TabRecord, tab' = [tab EXCEPT ![t] = v],
           v.page = tab[t].page, v.ready = tab[t].ready,
           v.shows = tab[t].shows, v.outdated = tab[t].outdated,
           v.wrote <= stored,
           v.wrote # tab[t].wrote =>
              op[o].mounted /\ r.pc = "load" /\ r.mounted /\ r.tab = t
    PROVE  DetailsInv'
<1>1. /\ Typed /\ Shared /\ TabGood(t)
      /\ cookie' = cookie /\ session' = session /\ stored' = stored
  BY DetailsTyped, SharedRests DEF DetailsInv, browser, api
<1>2. /\ op' = [p \in Operations |-> op'[p]] /\ DOMAIN op' = Operations
      /\ op'[o] = r /\ tab'[t] = v
      /\ \A p \in Operations \ {o} : op'[p] = Noted(o)[p]
      /\ \A u \in Tabs \ {t} : tab'[u] = tab[u]
  BY <1>1 DEF Typed, Noted
<1>3. ASSUME NEW p \in Operations \ {o}
      PROVE  /\ Kept(p)
             /\ op'[p].pc = op[p].pc /\ op'[p].tab = op[p].tab
             /\ op'[p].mounted = op[p].mounted
  <2> DEFINE q == op[p]
             s == op'[p]
  <2>1. /\ s \in OpRecord /\ SameRequest(q, s)
        /\ s.tab = q.tab /\ s.mounted = q.mounted
        /\ op[o].mounted /\ p \in Loading(t) => s.stale
    BY <1>1, <1>2, NotedIs
  <2>2. SameToken(p, q, s)
    BY <1>1 DEF SameToken
  <2>3. SamePlace(q, s)
    <3>1. CASE q.mounted
      <4>1. q.tab \in Tabs
        BY <3>1, PlaceOf
      <4>2. tab'[q.tab].page = tab[q.tab].page
        BY <1>2, <4>1
      <4>3. q.pc = "load" /\ ~ s.stale => tab'[q.tab].wrote = tab[q.tab].wrote
        <5>1. CASE q.tab = t /\ q.pc = "load"
          <6>1. p \in Loading(t)
            BY <3>1, <5>1 DEF Loading, Mounted, Of
          <6> QED
            BY <1>2, <2>1, <5>1, <6>1
        <5>2. CASE q.tab # t
          BY <1>2, <4>1, <5>2
        <5> QED
          BY <5>1, <5>2
      <4> QED
        BY <2>1, <3>1, <4>2, <4>3 DEF SamePlace
    <3>2. CASE ~ q.mounted
      BY <2>1, <3>2 DEF SamePlace
    <3> QED
      BY <3>1, <3>2
  <2>4. s.pc = q.pc
    BY <2>1 DEF SameRequest
  <2> QED
    BY <2>1, <2>2, <2>3, <2>4 DEF Kept
<1>4. TabGood(t)'
  <2>1. ASSUME v.ready, Loading(t)' = {}, ~ v.outdated
        PROVE  v.shows # None /\ v.wrote <= v.shows
    <3>1. v.wrote = tab[t].wrote
      <4>1. ~ (r.pc = "load" /\ r.mounted /\ r.tab = t)
        BY <1>2, <2>1 DEF Loading, Mounted, Of
      <4> QED
        BY <4>1
    <3>2. o \notin Loading(t)
      BY DEF Loading
    <3>3. Loading(t) = {}
      BY <1>3, <2>1, <3>2, LoadsGoOn
    <3> QED
      BY <1>1, <2>1, <3>1, <3>3 DEF TabGood
  <2> QED
    BY <1>1, <1>2, <2>1 DEF TabGood
<1>5. v.ready => v.page = "details"
  BY <1>1 DEF Typed
<1>6. op'[o] \in OpRecord /\ Shared
  BY <1>1, <1>2
<1>7. /\ op' = [p \in Operations |-> op'[p]] /\ DOMAIN op' = Operations
      /\ \A p \in Operations \ {o} :
            /\ Kept(p)
            /\ op'[p].pc = op[p].pc /\ op'[p].tab = op[p].tab
            /\ op'[p].mounted = op[p].mounted
  BY <1>2, <1>3
<1> QED
  BY <1>4, <1>5, <1>6, <1>7, TabKeeps

\* updateCustomer goes on.
LEMMA UpdateSavedKeeps ==
    ASSUME DetailsInv, NEW o \in Operations, NEW t \in Tabs, op[o].tab = t,
           op[o].pc = "answered", op[o].kind = "update",
           UpdateSaved(o, t), UNCHANGED <<browser, api>>
    PROVE  DetailsInv'
<1> DEFINE q == op[o]
           u == tab[t]
           wrote == IF q.mounted THEN Latest(u.wrote, q.made) ELSE u.wrote
           v == [u EXCEPT !.wrote = wrote]
           r == [Idle EXCEPT !.pc = "load", !.tab = t, !.mounted = q.mounted]
<1>1. /\ q \in OpRecord /\ u \in TabRecord /\ Typed
      /\ q.made <= stored /\ u.wrote <= stored /\ stored \in 0..MaxSaves
  BY DetailsTyped, SharedTyped
     DEF DetailsInv, OpGood, OpPlace, TabGood, Typed, Changes
<1>2. /\ tab' = [tab EXCEPT ![t] = v] /\ op' = [Noted(o) EXCEPT ![o] = r]
      /\ op'[o] = r
  <2>1. tab' = [tab EXCEPT ![t] = v]
    BY <1>1 DEF UpdateSaved, Typed
  <2>2. op' = [Noted(o) EXCEPT ![o] = r]
    BY DEF UpdateSaved
  <2> QED
    BY <2>1, <2>2 DEF Noted
<1> HIDE DEF q, u
<1>3. wrote \in 0..MaxSaves /\ wrote <= stored
  BY <1>1, IdleFresh DEF Latest, OpRecord, TabRecord
<1>4. wrote # u.wrote => q.mounted
  OBVIOUS
<1> HIDE DEF wrote
<1>5. /\ v \in TabRecord /\ v.wrote = wrote /\ v.page = u.page
      /\ v.ready = u.ready /\ v.shows = u.shows /\ v.outdated = u.outdated
  BY <1>1, <1>3 DEF TabRecord
<1>6. /\ r \in OpRecord /\ r.pc = "load" /\ r.tab = t /\ r.mounted = q.mounted
      /\ r.made = 0 /\ r.read = None /\ r.kind = "page" /\ r.answer = "none"
  <2>1. /\ Idle.made = 0 /\ Idle.read = None /\ Idle.kind = "page"
        /\ Idle.answer = "none"
    BY DEF Idle
  <2> QED
    BY <1>1, <2>1, IdleFresh DEF OpRecord, PCs
<1> HIDE DEF v, r
<1>7. OpGood(o)'
  BY <1>2, <1>6, IdleFresh
     DEF OpGood, OpPlace, OpToken, OpLoad, Changes
<1> QED
  BY <1>2, <1>3, <1>4, <1>5, <1>6, <1>7, SavedKeeps DEF q, u

\* saveAddress goes on.
LEMMA AddressSavedKeeps ==
    ASSUME DetailsInv, NEW o \in Operations, NEW t \in Tabs, op[o].tab = t,
           op[o].pc = "answered", op[o].kind = "address",
           AddressSaved(o, t), UNCHANGED <<browser, api>>
    PROVE  DetailsInv'
<1> DEFINE q == op[o]
           u == tab[t]
           saved == IF q.mounted THEN Latest(u.saved, q.made) ELSE u.saved
           v == [u EXCEPT !.saved = saved]
<1>1. /\ q \in OpRecord /\ u \in TabRecord /\ Typed /\ Shared
      /\ q.made <= stored /\ u.wrote <= stored /\ stored \in 0..MaxSaves
  BY DetailsTyped, SharedTyped, SharedRests
     DEF DetailsInv, OpGood, OpPlace, TabGood, Typed, Changes
<1>2. /\ tab' = [tab EXCEPT ![t] = v] /\ op' = [Noted(o) EXCEPT ![o] = Idle]
      /\ op'[o] = Idle
  <2>1. tab' = [tab EXCEPT ![t] = v]
    BY <1>1 DEF AddressSaved, Typed
  <2>2. op' = [Noted(o) EXCEPT ![o] = Idle]
    BY DEF AddressSaved
  <2> QED
    BY <2>1, <2>2 DEF Noted
<1> HIDE DEF q, u
<1>3. saved \in 0..MaxSaves
  BY <1>1, IdleFresh DEF Latest, OpRecord, TabRecord
<1> HIDE DEF saved
<1>4. /\ v \in TabRecord /\ v.wrote = u.wrote /\ v.page = u.page
      /\ v.ready = u.ready /\ v.shows = u.shows /\ v.outdated = u.outdated
  BY <1>1, <1>3 DEF TabRecord
<1> HIDE DEF v
<1>5. OpGood(o)'
  BY <1>1, <1>2, IdleGood
<1> QED
  BY <1>1, <1>2, <1>4, <1>5, IdleFresh, SavedKeeps DEF u

\* What a new CSRF cookie does to the operations.
LEMMA OvertakenIs ==
    ASSUME Typed, NEW o \in Operations, NEW p \in Operations
    PROVE  /\ Overtaken(o)[p] \in OpRecord
           /\ SameRequest(op[p], Overtaken(o)[p])
           /\ Overtaken(o)[p].tab = op[p].tab
           /\ Overtaken(o)[p].mounted = op[p].mounted
           /\ Overtaken(o)[p].stale = op[p].stale
           /\ p # o /\ op[p].pc = "send" /\ cookie = p => Overtaken(o)[p].overtaken
<1> DEFINE q == op[p]
           hit == q.overtaken \/ (p # o /\ q.pc = "send" /\ cookie = p)
           s == [q EXCEPT !.overtaken = hit]
<1>1. q \in OpRecord
  BY DEF Typed
<1>2. Overtaken(o)[p] = s
  BY DEF Overtaken
<1>3. hit \in BOOLEAN
  BY <1>1 DEF OpRecord
<1>4. p # o /\ op[p].pc = "send" /\ cookie = p => hit
  OBVIOUS
<1>5. q.overtaken => hit
  OBVIOUS
<1> HIDE DEF q, hit
<1>6. /\ s \in OpRecord /\ SameRequest(q, s) /\ s.overtaken = hit
      /\ s.tab = q.tab /\ s.mounted = q.mounted /\ s.stale = q.stale
  BY <1>1, <1>3, <1>5 DEF OpRecord, SameRequest
<1> HIDE DEF s
<1> QED
  BY <1>2, <1>4, <1>6 DEF q

\* The token of operation o becomes the cookie.
LEMMA CsrfKeeps ==
    ASSUME DetailsInv, NEW o \in Operations, CsrfAnswers(o)
    PROVE  DetailsInv'
<1> DEFINE q == Overtaken(o)[o]
           r == [q EXCEPT !.pc = "send", !.under = session]
<1>1. /\ Typed /\ op[o].pc = "csrf" /\ OpPlace(o) /\ OpToken(o)
      /\ cookie' = o /\ UNCHANGED <<session, api, tab>>
      /\ session \in 0..logins /\ logins \in 1..MaxLogins
      /\ live \subseteq 1..logins /\ stored \in 0..MaxSaves
  BY DetailsTyped, SharedTyped DEF CsrfAnswers, DetailsInv, OpGood
<1>2. /\ session' = session /\ logins' = logins /\ live' = live
      /\ stored' = stored /\ tab' = tab
      /\ logins <= logins /\ stored <= stored /\ session \in 0..MaxLogins
  BY <1>1, IdleFresh DEF api
<1>3. PICK t \in Tabs : op[o].tab = t
  BY <1>1, PlaceOf
<1>4. /\ q \in OpRecord /\ SameRequest(op[o], q) /\ q.tab = t
      /\ q.mounted = op[o].mounted
  BY <1>1, <1>3, OvertakenIs
<1>5. op' = [Overtaken(o) EXCEPT ![o] = r]
  BY DEF CsrfAnswers
<1>6. /\ op' = [p \in Operations |-> op'[p]] /\ DOMAIN op' = Operations
      /\ op'[o] = r
      /\ \A p \in Operations \ {o} : op'[p] = Overtaken(o)[p]
  BY <1>5 DEF Overtaken
<1> HIDE DEF q
<1>7. /\ r \in OpRecord /\ r.pc = "send" /\ r.under = session
      /\ r.kind = q.kind /\ r.tab = q.tab /\ r.made = q.made
      /\ r.answer = q.answer /\ r.overtaken = q.overtaken
  BY <1>2, <1>4 DEF OpRecord, PCs
<1> HIDE DEF r
<1>8. Shared
  BY <1>1, <1>2 DEF Shared
<1>9. OpGood(o)'
  <2>1. OpPlace(o)'
    BY <1>1, <1>2, <1>3, <1>4, <1>6, <1>7, IdleFresh DEF OpPlace, SameRequest
  <2>2. OpToken(o)'
    BY <1>1, <1>2, <1>4, <1>6, <1>7 DEF OpToken, SameRequest
  <2>3. OpLoad(o)'
    BY <1>6, <1>7 DEF OpLoad
  <2> QED
    BY <2>1, <2>2, <2>3 DEF OpGood
<1>10. ASSUME NEW p \in Operations \ {o}
       PROVE  /\ Kept(p)
              /\ op'[p].pc = op[p].pc /\ op'[p].tab = op[p].tab
              /\ op'[p].mounted = op[p].mounted
  <2> DEFINE s == op'[p]
  <2>1. /\ s \in OpRecord /\ SameRequest(op[p], s)
        /\ s.tab = op[p].tab /\ s.mounted = op[p].mounted
        /\ op[p].pc = "send" /\ cookie = p => s.overtaken
    BY <1>1, <1>6, OvertakenIs
  <2>2. SameToken(p, op[p], s)
    BY <1>1, <2>1 DEF SameToken
  <2>3. SamePlace(op[p], s)
    BY <1>2, <2>1 DEF SamePlace
  <2>4. s.pc = op[p].pc
    BY <2>1 DEF SameRequest
  <2> QED
    BY <2>1, <2>2, <2>3, <2>4 DEF Kept
<1>11. TabGood(t)'
  <2>1. o \notin Loading(t)
    BY <1>1 DEF Loading
  <2>2. Loading(t)' = {} => Loading(t) = {}
    BY <1>10, <2>1, LoadsGoOn
  <2>3. TabGood(t)
    BY DEF DetailsInv
  <2> HIDE DEF Loading
  <2> QED
    BY <1>2, <2>2, <2>3 DEF TabGood
<1>12. /\ tab[t] \in TabRecord /\ tab' = [tab EXCEPT ![t] = tab[t]]
       /\ tab[t].ready => tab[t].page = "details"
  BY <1>1, <1>2 DEF Typed
<1> QED
  BY <1>3, <1>6, <1>7, <1>8, <1>9, <1>10, <1>11, <1>12, TabKeeps

\* What the operations of a tab that is left have become before.
Remains(p, s) ==
    \/ s = Idle
    \/ /\ s \in OpRecord /\ SameRequest(op[p], s) /\ SameToken(p, op[p], s)
       /\ s.tab = op[p].tab /\ s.mounted = op[p].mounted

\* A tab is left, whatever for.
LEMMA GoesKeeps ==
    ASSUME DetailsInv, Shared, NEW t \in Tabs \union {None},
           NEW to \in Destinations, NEW ops,
           DOMAIN ops = Operations, ops = [p \in Operations |-> ops[p]],
           \A p \in Operations : Remains(p, ops[p]),
           \A p \in Operations :
              op[p].pc = "load" /\ op[p].mounted =>
                 ops[p] # Idle \/ (op[p].tab = t /\ to = "unload"),
           Goes(t, to, ops)
    PROVE  DetailsInv'
<1>1. Typed
  BY DetailsTyped
<1>2. CASE Stays(t, to)
  <2>1. tab' = tab /\ op' = ops
    BY <1>2 DEF Goes
  <2>2. \A p \in Operations : Kept(p)
    BY <2>1 DEF Kept, Remains, SamePlace
  <2>3. \A p \in Operations : op'[p] \in OpRecord /\ OpGood(p)'
    BY <2>2, OtherKept
  <2>4. ASSUME NEW u \in Tabs
        PROVE  TabGood(u)'
    <3>1. ASSUME NEW p \in Loading(u)
          PROVE  p \in Loading(u)'
      <4>1. /\ p \in Operations /\ op[p].pc = "load" /\ op[p].mounted
            /\ op[p].tab = u
        BY DEF Loading, Mounted, Of
      <4>2. u # None
        BY IdleFresh
      <4>3. ops[p] # Idle
        BY <1>2, <4>1, <4>2 DEF Stays
      <4>4. op'[p].pc = "load" /\ op'[p].mounted /\ op'[p].tab = u
        BY <2>1, <4>1, <4>3 DEF Remains, SameRequest
      <4> QED
        BY <4>1, <4>4 DEF Loading, Mounted, Of
    <3>2. Loading(u) \subseteq Loading(u)'
      BY <3>1
    <3> QED
      BY <2>1, <3>2, TabRests
  <2> QED
    BY <1>1, <2>1, <2>3, <2>4, Joined DEF Typed
<1>3. CASE ~ Stays(t, to)
  <2> DEFINE v == [Fresh EXCEPT !.page =
                      IF to = "details" THEN "details" ELSE "login"]
  <2>1. /\ t \in Tabs /\ t # None
        /\ tab' = [tab EXCEPT ![t] = v] /\ op' = Departed(t, to, ops)
    BY <1>3 DEF Goes, Stays
  <2>2. v \in TabRecord /\ ~ v.ready /\ v.wrote = 0
    BY IdleFresh DEF TabRecord, Fresh
  <2> HIDE DEF v
  <2>3. /\ tab' \in [Tabs -> TabRecord] /\ tab'[t] = v
        /\ \A u \in Tabs \ {t} : tab'[u] = tab[u]
        /\ op' = [p \in Operations |-> op'[p]] /\ DOMAIN op' = Operations
    BY <1>1, <2>1, <2>2 DEF Typed, Departed
  <2>4. ASSUME NEW p \in Operations
        PROVE  Kept(p)
    <3> DEFINE s == ops[p]
    <3>1. op'[p] = IF s.tab # t THEN s
                   ELSE IF to # "unload" THEN [s EXCEPT !.mounted = FALSE]
                   ELSE IF s.pc \in {"sent", "answered"}
                   THEN [s EXCEPT !.tab = None, !.mounted = FALSE]
                   ELSE Idle
      BY <2>1 DEF Departed
    <3>2. Remains(p, s)
      OBVIOUS
    <3> HIDE DEF s
    <3>3. CASE s = Idle
      <4>1. s.tab = None
        BY <3>3 DEF Idle
      <4> QED
        BY <2>1, <3>1, <3>3, <4>1 DEF Kept
    <3>4. CASE s # Idle
      <4>1. /\ s \in OpRecord /\ SameRequest(op[p], s) /\ SameToken(p, op[p], s)
            /\ s.tab = op[p].tab /\ s.mounted = op[p].mounted
        BY <3>2, <3>4 DEF Remains
      <4>2. CASE s.tab # t
        <5>1. op[p].mounted => tab'[op[p].tab] = tab[op[p].tab]
          BY <2>3, <4>1, <4>2, PlaceOf
        <5>2. SamePlace(op[p], s)
          BY <4>1, <5>1 DEF SamePlace
        <5> QED
          BY <3>1, <4>1, <4>2, <5>2 DEF Kept
      <4>3. CASE s.tab = t /\ to # "unload"
        <5> DEFINE w == [s EXCEPT !.mounted = FALSE]
        <5>1. /\ w \in OpRecord /\ ~ w.mounted /\ w.tab = s.tab
              /\ SameRequest(op[p], w) /\ SameToken(p, op[p], w)
          BY <4>1 DEF OpRecord, SameRequest, SameToken
        <5>2. op'[p] = w
          BY <3>1, <4>3
        <5> HIDE DEF w
        <5>3. SamePlace(op[p], w)
          BY <4>1, <5>1 DEF SamePlace
        <5> QED
          BY <5>1, <5>2, <5>3 DEF Kept
      <4>4. CASE s.tab = t /\ to = "unload" /\ s.pc \in {"sent", "answered"}
        <5> DEFINE w == [s EXCEPT !.tab = None, !.mounted = FALSE]
        <5>1. /\ w \in OpRecord /\ ~ w.mounted /\ w.tab = None
              /\ SameRequest(op[p], w) /\ SameToken(p, op[p], w)
          BY <4>1 DEF OpRecord, SameRequest, SameToken
        <5>2. op'[p] = w
          BY <3>1, <4>4
        <5> HIDE DEF w
        <5>3. op[p].pc \in {"sent", "answered"}
          BY <4>1, <4>4 DEF SameRequest
        <5>4. SamePlace(op[p], w)
          BY <5>1, <5>3 DEF SamePlace
        <5> QED
          BY <5>1, <5>2, <5>4 DEF Kept
      <4>5. CASE s.tab = t /\ to = "unload" /\ s.pc \notin {"sent", "answered"}
        BY <3>1, <4>5 DEF Kept
      <4> QED
        BY <4>2, <4>3, <4>4, <4>5
    <3> QED
      BY <3>3, <3>4
  <2>5. \A p \in Operations : op'[p] \in OpRecord /\ OpGood(p)'
    BY <2>4, OtherKept
  <2>6. \A u \in Tabs : tab'[u].ready => tab'[u].page = "details"
    BY <1>1, <2>2, <2>3 DEF Typed
  <2>7. ASSUME NEW u \in Tabs
        PROVE  TabGood(u)'
    <3>1. CASE u = t
      <4>1. 0 <= stored'
        BY IdleFresh DEF Shared
      <4> QED
        BY <2>2, <2>3, <3>1, <4>1 DEF TabGood
    <3>2. CASE u # t
      <4>1. ASSUME NEW p \in Loading(u)
            PROVE  p \in Loading(u)'
        <5>1. /\ p \in Operations /\ op[p].pc = "load" /\ op[p].mounted
              /\ op[p].tab = u
          BY DEF Loading, Mounted, Of
        <5>2. ops[p] # Idle
          BY <3>2, <5>1
        <5>3. ops[p].pc = "load" /\ ops[p].mounted /\ ops[p].tab = u
          BY <5>1, <5>2 DEF Remains, SameRequest
        <5>4. op'[p] = ops[p]
          BY <2>1, <3>2, <5>1, <5>3 DEF Departed
        <5> QED
          BY <5>1, <5>3, <5>4 DEF Loading, Mounted, Of
      <4>2. Loading(u) \subseteq Loading(u)'
        BY <4>1
      <4> QED
        BY <2>3, <3>2, <4>2, TabRests
    <3> QED
      BY <3>1, <3>2
  <2> QED
    BY <2>3, <2>5, <2>6, <2>7, Joined
<1> QED
  BY <1>2, <1>3

\* A tab is left by what operation o, which ends, was told.
LEMMA FreedKeeps ==
    ASSUME DetailsInv, NEW o \in Operations, NEW to \in Destinations,
           Goes(op[o].tab, to, [op EXCEPT ![o] = Idle]),
           op[o].pc # "load" \/ to = "unload",
           UNCHANGED <<browser, api>>
    PROVE  DetailsInv'
<1> DEFINE ops == [op EXCEPT ![o] = Idle]
<1>1. /\ Typed /\ Shared /\ cookie' = cookie /\ session' = session
  BY DetailsTyped, SharedRests DEF browser
<1>2. PICK t \in Tabs \union {None} : op[o].tab = t
  BY <1>1 DEF Typed, OpRecord
<1>3. /\ ops = [p \in Operations |-> ops[p]] /\ DOMAIN ops = Operations
      /\ ops[o] = Idle /\ \A p \in Operations \ {o} : ops[p] = op[p]
  BY <1>1 DEF Typed
<1>4. Goes(t, to, ops)
  BY <1>2
<1> HIDE DEF ops
<1>5. \A p \in Operations : Remains(p, ops[p])
  <2> TAKE p \in Operations
  <2>1. CASE p = o
    BY <1>3, <2>1 DEF Remains
  <2>2. CASE p # o
    <3>1. op[p] \in OpRecord /\ SameRequest(op[p], op[p])
      BY <1>1 DEF Typed, SameRequest
    <3>2. SameToken(p, op[p], op[p])
      BY <1>1 DEF SameToken
    <3> QED
      BY <1>3, <2>2, <3>1, <3>2 DEF Remains
  <2> QED
    BY <2>1, <2>2
<1>6. \A p \in Operations :
         op[p].pc = "load" /\ op[p].mounted =>
            ops[p] # Idle \/ (op[p].tab = t /\ to = "unload")
  <2> TAKE p \in Operations
  <2>1. CASE p = o
    BY <1>2, <2>1
  <2>2. CASE p # o
    <3>1. ops[p].pc = op[p].pc
      BY <1>3, <2>2
    <3> QED
      BY <3>1 DEF Idle
  <2> QED
    BY <2>1, <2>2
<1> QED
  BY <1>1, <1>3, <1>4, <1>5, <1>6, GoesKeeps

\* A tab is left, and the CSRF cookie is removed.
LEMMA ClearedKeeps ==
    ASSUME DetailsInv, Shared, NEW o \in Operations, NEW to \in Destinations,
           GoesOn(o, to),
           op[o].pc = "answered", cookie' = None
    PROVE  DetailsInv'
<1> DEFINE ops == [Overtaken(o) EXCEPT ![o] = Idle]
<1>1. Typed
  BY DetailsTyped
<1>2. PICK t \in Tabs \union {None} : op[o].tab = t
  BY <1>1 DEF Typed, OpRecord
<1>3. /\ ops = [p \in Operations |-> ops[p]] /\ DOMAIN ops = Operations
      /\ ops[o] = Idle /\ \A p \in Operations \ {o} : ops[p] = Overtaken(o)[p]
  BY DEF Overtaken
<1>4. Goes(t, to, ops)
  BY <1>2 DEF GoesOn
<1> HIDE DEF ops
<1>5. \A p \in Operations \ {o} :
         /\ ops[p] \in OpRecord /\ SameRequest(op[p], ops[p])
         /\ ops[p].tab = op[p].tab /\ ops[p].mounted = op[p].mounted
         /\ op[p].pc = "send" /\ cookie = p => ops[p].overtaken
  BY <1>1, <1>3, OvertakenIs
<1>6. \A p \in Operations : Remains(p, ops[p])
  <2> TAKE p \in Operations
  <2>1. CASE p = o
    BY <1>3, <2>1 DEF Remains
  <2>2. CASE p # o
    <3>1. SameToken(p, op[p], ops[p])
      BY <1>5, <2>2, IdleFresh DEF SameToken
    <3> QED
      BY <1>5, <2>2, <3>1 DEF Remains
  <2> QED
    BY <2>1, <2>2
<1>7. \A p \in Operations :
         op[p].pc = "load" /\ op[p].mounted =>
            ops[p] # Idle \/ (op[p].tab = t /\ to = "unload")
  <2> TAKE p \in Operations
  <2>1. CASE p = o
    BY <2>1
  <2>2. CASE p # o
    <3>1. ops[p].pc = op[p].pc
      BY <1>5, <2>2 DEF SameRequest
    <3> QED
      BY <3>1 DEF Idle
  <2> QED
    BY <2>1, <2>2
<1> QED
  BY <1>3, <1>4, <1>6, <1>7, GoesKeeps

\* The answer of /auth/me, or none.
LEMMA MeKeeps ==
    ASSUME DetailsInv, NEW o \in Operations, MeAnswers(o) \/ MeFails(o)
    PROVE  DetailsInv'
<1>1. PICK to \in {"none", "unload", "login"} :
         IF op[o].mounted THEN MeEnds(o, to) ELSE MeEndsLate(o, to)
  <2>1. CASE MeFails(o)
    BY <2>1 DEF MeFails
  <2>2. CASE MeAnswers(o)
    <3>1. CASE session \in live
      BY <2>2, <3>1 DEF MeAnswers
    <3>2. CASE session \notin live
      BY <2>2, <3>2 DEF MeAnswers
    <3> QED
      BY <3>1, <3>2
  <2> QED
    BY <2>1, <2>2
<1>2. op[o].pc = "me"
  BY DEF MeAnswers, MeFails
<1>3. PICK t \in Tabs : op[o].tab = t
  BY <1>2, PlaceOf
<1>4. CASE op[o].mounted
  <2>1. to \in Destinations \union {"none"} /\ MeEnds(o, to)
    BY <1>1, <1>4 DEF Destinations
  <2> QED
    BY <1>2, <1>3, <1>4, <2>1, MeEndsKeeps
<1>5. CASE ~ op[o].mounted /\ to = "none"
  <2>1. Ends(o) /\ UNCHANGED tab /\ UNCHANGED <<browser, api>>
    BY <1>1, <1>5 DEF MeEndsLate
  <2> QED
    BY <1>5, <2>1, EndsKeeps
<1>6. CASE ~ op[o].mounted /\ to # "none"
  <2>1. /\ Goes(op[o].tab, to, [op EXCEPT ![o] = Idle])
        /\ UNCHANGED <<browser, api>> /\ to \in Destinations
    BY <1>1, <1>6 DEF MeEndsLate, Destinations
  <2> QED
    BY <1>2, <2>1, FreedKeeps
<1> QED
  BY <1>4, <1>5, <1>6

\* load() fails, or finds the session over.
LEMMA LoadFailsKeeps ==
    ASSUME DetailsInv, NEW o \in Operations, LoadFails(o)
    PROVE  DetailsInv'
<1>1. op[o].pc = "load" /\ UNCHANGED <<browser, api>>
  BY DEF LoadFails
<1>2. PICK t \in Tabs : op[o].tab = t
  BY <1>1, PlaceOf
<1> DEFINE u == tab[t]
           outdated == u.outdated \/ op[o].mounted
<1>3. CASE Ends(o) /\ tab' = [tab EXCEPT ![t].outdated = @ \/ op[o].mounted]
  <2>1. /\ Typed /\ u \in TabRecord /\ op[o] \in OpRecord
    BY DetailsTyped DEF Typed
  <2>2. outdated \in BOOLEAN /\ u.shows \in Shown
    BY <2>1 DEF TabRecord, OpRecord
  <2>3. tab' = [tab EXCEPT ![t] = [u EXCEPT !.outdated = outdated]]
    BY <1>3, <2>1 DEF Typed
  <2>4. ~ op[o].mounted => outdated = u.outdated
    BY <2>1 DEF TabRecord
  <2>5. ~ outdated /\ op[o].mounted =>
           u.shows = op[o].read /\ u.shows # None /\ ~ op[o].stale
    OBVIOUS
  <2>9. Ends(o)
    BY <1>3
  <2> HIDE DEF u, outdated
  <2>6. [u EXCEPT !.outdated = outdated]
        = [u EXCEPT !.shows = u.shows, !.outdated = outdated]
    BY <2>1 DEF TabRecord
  <2>7. tab' = [tab EXCEPT ![t] =
                  [tab[t] EXCEPT !.shows = u.shows, !.outdated = outdated]]
    BY <2>3, <2>6 DEF u
  <2>8. ~ op[o].mounted => u.shows = tab[t].shows /\ outdated = tab[t].outdated
    BY <2>4 DEF u
  <2> QED
    BY <1>1, <1>2, <2>2, <2>5, <2>7, <2>8, <2>9, LoadOverKeeps
<1>4. CASE Goes(t, "unload", [op EXCEPT ![o] = Idle])
  <2>1. "unload" \in Destinations
    BY DEF Destinations
  <2> QED
    BY <1>1, <1>2, <1>4, <2>1, FreedKeeps
<1> QED
  BY <1>2, <1>3, <1>4 DEF LoadFails

\* The answer arrives at the browser.
LEMMA ReceiveKeeps ==
    ASSUME DetailsInv, NEW o \in Operations, Receive(o)
    PROVE  DetailsInv'
<1>1. /\ op[o].pc = "answered" /\ op[o] \in OpRecord /\ OpPlace(o)
      /\ UNCHANGED api
  BY DetailsTyped DEF Receive, DetailsInv, OpGood, Typed
<1>2. /\ op[o].answer \in {"ok", "401", "403"}
      /\ op[o].kind \in {"update", "address", "logout", "login"}
  BY <1>1 DEF OpPlace, OpRecord, Answers, Kinds
<1>3. "details" \in Destinations /\ "login" \in Destinations
      /\ "unload" \in Destinations
  BY DEF Destinations
<1>4. CASE op[o].answer = "401"
  <2>1. Goes(op[o].tab, "unload", [op EXCEPT ![o] = Idle]) /\ UNCHANGED browser
    BY <1>4 DEF Receive
  <2> QED
    BY <1>1, <1>3, <2>1, FreedKeeps
<1>5. CASE op[o].answer = "403"
  BY <1>1, <1>5, EndsKeeps DEF Receive
<1>6. ASSUME SessionCookies(o), op[o].kind \in {"login", "logout"}
      PROVE  Shared /\ cookie' = None
  <2>1. /\ session \in 0..logins /\ logins \in 1..MaxLogins
        /\ live \subseteq 1..logins /\ stored \in 0..MaxSaves
        /\ MaxLogins \in Nat /\ MaxSaves \in Nat
    BY SharedTyped, IdleFresh
  <2>2. logins' = logins /\ live' = live /\ stored' = stored
    BY <1>1 DEF api
  <2>3. session' \in 0..logins
    BY <1>1, <1>6, <2>1 DEF SessionCookies, OpPlace, OpRecord
  <2>4. cookie' = None
    BY <1>6 DEF SessionCookies
  <2>5. logins <= logins /\ stored <= stored
    BY <2>1
  <2> QED
    BY <2>1, <2>2, <2>3, <2>4, <2>5 DEF Shared
<1>7. CASE op[o].answer = "ok" /\ op[o].kind = "login"
  <2>1. /\ SessionCookies(o)
        /\ GoesOn(o, "details")
    BY <1>7 DEF Receive, Changes
  <2>2. Shared /\ cookie' = None
    BY <1>6, <1>7, <2>1
  <2> QED
    BY <1>1, <1>3, <2>1, <2>2, ClearedKeeps
<1>8. CASE op[o].answer = "ok" /\ op[o].kind = "logout"
  <2>1. /\ SessionCookies(o)
        /\ GoesOn(o, "login")
    BY <1>8 DEF Receive, Changes
  <2>2. Shared /\ cookie' = None
    BY <1>6, <1>8, <2>1
  <2> QED
    BY <1>1, <1>3, <2>1, <2>2, ClearedKeeps
<1>9. CASE op[o].answer = "ok" /\ op[o].kind \in Changes /\ op[o].tab = None
  <2>1. Ends(o) /\ UNCHANGED <<browser, tab>>
    BY <1>9 DEF Receive, Changes
  <2> QED
    BY <1>1, <2>1, EndsKeeps
<1>10. CASE op[o].answer = "ok" /\ op[o].kind = "update" /\ op[o].tab # None
  <2>1. PICK t \in Tabs : op[o].tab = t
    BY <1>1, <1>10 DEF OpRecord
  <2>2. UpdateSaved(o, t) /\ UNCHANGED browser
    BY <1>10, <2>1 DEF Receive, Changes
  <2> QED
    BY <1>1, <1>10, <2>1, <2>2, UpdateSavedKeeps
<1>11. CASE op[o].answer = "ok" /\ op[o].kind = "address" /\ op[o].tab # None
  <2>1. PICK t \in Tabs : op[o].tab = t
    BY <1>1, <1>11 DEF OpRecord
  <2>2. AddressSaved(o, t) /\ UNCHANGED browser
    BY <1>11, <2>1 DEF Receive, Changes
  <2> QED
    BY <1>1, <1>11, <2>1, <2>2, AddressSavedKeeps
<1> QED
  BY <1>2, <1>4, <1>5, <1>7, <1>8, <1>9, <1>10, <1>11 DEF Changes

\* The navigation that useAuth asked for.
LEMMA NavigateKeeps ==
    ASSUME DetailsInv, NEW t \in Tabs, Navigate(t)
    PROVE  DetailsInv'
<1>1. /\ Typed /\ Shared /\ cookie' = cookie /\ session' = session
  BY DetailsTyped, SharedRests DEF Navigate, browser
<1>2. /\ tab[t].next \in Destinations /\ Goes(t, tab[t].next, op)
  BY <1>1 DEF Navigate, Typed, TabRecord
<1>3. \A p \in Operations : Remains(p, op[p])
  <2> TAKE p \in Operations
  <2>1. op[p] \in OpRecord /\ SameRequest(op[p], op[p])
    BY <1>1 DEF Typed, SameRequest
  <2>2. SameToken(p, op[p], op[p])
    BY <1>1 DEF SameToken
  <2> QED
    BY <2>1, <2>2 DEF Remains
<1>4. \A p \in Operations : op[p].pc = "load" => op[p] # Idle
  BY DEF Idle
<1>5. op = [p \in Operations |-> op[p]] /\ DOMAIN op = Operations
  BY <1>1 DEF Typed
<1> QED
  BY <1>1, <1>2, <1>3, <1>4, <1>5, GoesKeeps

\* Steps that only the API takes part in, or that change nothing.
LEMMA QuietKeeps ==
    ASSUME DetailsInv, Shared, UNCHANGED <<browser, tab, op>>
    PROVE  DetailsInv'
<1>1. Typed
  BY DetailsTyped
<1>2. \A p \in Operations : op'[p] \in OpRecord /\ OpGood(p)'
  BY Rests, OtherKept
<1>3. \A t \in Tabs : TabGood(t)'
  <2> TAKE t \in Tabs
  <2>1. Loading(t)' = Loading(t)
    BY DEF Loading, Mounted, Of
  <2> QED
    BY <2>1, TabRests
<1> QED
  BY <1>1, <1>2, <1>3, Joined DEF Typed

\* A session is over.
LEMMA SessionEndsKeeps == DetailsInv /\ SessionEnds => DetailsInv'
<1> SUFFICES ASSUME DetailsInv, SessionEnds PROVE DetailsInv'
  OBVIOUS
<1>1. /\ session \in 0..logins /\ logins \in 1..MaxLogins
      /\ live \subseteq 1..logins /\ stored \in 0..MaxSaves
      /\ cookie \in Operations \union {None}
      /\ logins <= logins /\ stored <= stored
  BY SharedTyped
<1>2. /\ session' = session /\ cookie' = cookie /\ logins' = logins
      /\ stored' = stored /\ live' \subseteq live /\ tab' = tab /\ op' = op
      /\ UNCHANGED browser
  BY DEF SessionEnds, browser
<1>3. Shared
  BY <1>1, <1>2 DEF Shared
<1> QED
  BY <1>2, <1>3, QuietKeeps

-----------------------------------------------------------------------------
(* The theorems.                                                           *)

\* The pages are opened, and nothing runs.
LEMMA InitDetails == Init => DetailsInv
<1> SUFFICES ASSUME Init PROVE DetailsInv
  OBVIOUS
<1>1. /\ \A t \in Tabs : tab[t] = Fresh
      /\ \A o \in Operations : op[o] = Idle
      /\ tab \in [Tabs -> TabRecord] /\ op \in [Operations -> OpRecord]
  BY IdleFresh DEF Init
<1>2. /\ session = 1 /\ logins = 1 /\ live = {1} /\ cookie = None /\ stored = 0
      /\ MaxSaves \in Nat /\ MaxLogins \in Nat \ {0}
  BY IdleFresh DEF Init
<1>3. TypeOK
  BY <1>1, <1>2 DEF TypeOK, Fresh, TabRecord, OpRecord
<1>4. \A t \in Tabs : TabGood(t)
  BY <1>1, <1>2 DEF TabGood, Fresh
<1>5. \A o \in Operations : OpGood(o)
  BY <1>1, <1>2 DEF OpGood, OpPlace, OpToken, OpLoad, Idle
<1> QED
  BY <1>3, <1>4, <1>5 DEF DetailsInv

\* Every step keeps the invariant.
LEMMA NextDetails == DetailsInv /\ [Next]_vars => DetailsInv'
<1> SUFFICES ASSUME DetailsInv, [Next]_vars PROVE DetailsInv'
  OBVIOUS
<1>1. CASE UNCHANGED vars
  <2>1. UNCHANGED <<browser, api, tab, op>>
    BY <1>1 DEF vars
  <2> QED
    BY <2>1, SharedRests, QuietKeeps
<1>2. ASSUME NEW o \in Operations, NEW t \in Tabs,
             \/ Mount(o, t) \/ UpdateCustomer(o, t)
             \/ SaveAddress(o, t) \/ Logout(o, t) \/ Login(o, t)
      PROVE  DetailsInv'
  <2>1. CASE Mount(o, t)
    BY <2>1, StartsKeeps DEF Mount, Kinds
  <2>2. CASE UpdateCustomer(o, t)
    BY <2>2, StartsKeeps DEF UpdateCustomer, Kinds
  <2>3. CASE SaveAddress(o, t)
    BY <2>3, StartsKeeps DEF SaveAddress, Kinds
  <2>4. CASE Logout(o, t)
    BY <2>4, StartsKeeps DEF Logout, Kinds
  <2>5. CASE Login(o, t)
    BY <2>5, StartsKeeps DEF Login, Kinds
  <2> QED
    BY <1>2, <2>1, <2>2, <2>3, <2>4, <2>5
<1>3. ASSUME NEW o \in Operations, Lose(o)
      PROVE  DetailsInv'
  BY <1>3, EndsKeeps DEF Lose
<1>4. ASSUME NEW o \in Operations,
             \/ MeAnswers(o) \/ MeFails(o) \/ CsrfAnswers(o) \/ Send(o)
             \/ Serve(o) \/ Receive(o) \/ Lose(o)
             \/ Read(o) \/ LoadEnds(o) \/ LoadFails(o)
      PROVE  DetailsInv'
  BY <1>3, <1>4, MeKeeps, CsrfKeeps, SendKeeps, ServeKeeps, ReceiveKeeps,
     ReadKeeps, LoadEndsKeeps, LoadFailsKeeps
<1>5. ASSUME NEW t \in Tabs, Navigate(t)
      PROVE  DetailsInv'
  BY <1>5, NavigateKeeps
<1> QED
  BY <1>1, <1>2, <1>4, <1>5, SessionEndsKeeps DEF Next

\* What holds between the pages, their operations and the cookies, always.
THEOREM DetailsInvariant == Spec => []DetailsInv
BY InitDetails, NextDetails, PTL DEF Spec

\* The values have their types, and only a page of the customer is ready:
\* the state of a page that router.replace removes goes with it.
THEOREM PagesTyped == Spec => []TypeOK
<1>1. DetailsInv => TypeOK
  BY DEF DetailsInv
<1> QED
  BY <1>1, DetailsInvariant, PTL

\* A change is refused for its token only after another answer replaced or
\* removed the cookie between its token and its sending: csrfToken and
\* apiFetch of session.ts send what CsrfGuard compares.
THEOREM RefusedByAnotherOnly == Spec => []RefusedOnlyWhenOvertaken
<1>1. DetailsInv => RefusedOnlyWhenOvertaken
  BY DEF DetailsInv, OpGood, OpToken, RefusedOnlyWhenOvertaken
<1> QED
  BY <1>1, DetailsInvariant, PTL

\* A change that the guards let pass was sent under the login under which its
\* token came, however late: login and logout set the token cookie aside.
THEOREM ServedUnderToken == Spec => []ServedUnderItsToken
<1>1. ASSUME DetailsInv, NEW o \in Operations, op[o].pc = "sent",
             Refusal(o) = "none"
      PROVE  op[o].as = op[o].under
  <2>1. op[o].matches
    BY <1>1 DEF Refusal
  <2> QED
    BY <1>1, <2>1 DEF DetailsInv, OpGood, OpToken
<1>2. DetailsInv => ServedUnderItsToken
  BY <1>1 DEF ServedUnderItsToken
<1> QED
  BY <1>2, DetailsInvariant, PTL

\* A page that loads nothing, and whose last load neither failed nor had begun
\* before one of its acknowledged changes, shows the customer as its own updates
\* left it, or newer: load() follows every PATCH, whatever else the page runs.
THEOREM OwnUpdateShown == Spec => []OwnUpdateIsShown
<1>1. ASSUME DetailsInv, NEW t \in Tabs,
             tab[t].ready, Loading(t) = {}, ~ tab[t].outdated
      PROVE  tab[t].shows >= tab[t].wrote
  <2>1. TabGood(t) /\ tab[t] \in TabRecord /\ MaxSaves \in Nat
    BY DetailsTyped, IdleFresh, <1>1 DEF DetailsInv, Typed
  <2>2. tab[t].shows # None /\ tab[t].wrote <= tab[t].shows
    BY <1>1, <2>1 DEF TabGood
  <2>3. tab[t].shows \in Nat /\ tab[t].wrote \in Nat
    BY <2>1, <2>2 DEF TabRecord, Shown
  <2> QED
    BY <2>2, <2>3
<1>2. DetailsInv => OwnUpdateIsShown
  BY <1>1 DEF OwnUpdateIsShown
<1> QED
  BY <1>2, DetailsInvariant, PTL

=============================================================================
