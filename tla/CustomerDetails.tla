--------------------------- MODULE CustomerDetails ---------------------------
(***************************************************************************)
(* One browser with several tabs on the page of a customer                 *)
(* (CustomerDetails.tsx), and what they share: the cookies.  The session   *)
(* client (session.ts, useAuth.ts, LogoutButton, the login page) asks for  *)
(* a CSRF token before every change: the answer puts it in the cookie of   *)
(* all tabs, and the change then carries it in a header; CsrfGuard         *)
(* compares the two.                                                       *)
(*                                                                         *)
(* An operation is what one click starts.  Nothing disables the buttons of *)
(* the page, so a tab may run several.  A request may be lost, and so may  *)
(* its answer.  A tab is left in two ways: router.replace removes the page *)
(* and lets its operations run on; window.location.assign ends its scripts *)
(* as well.  Both follow the answer that causes them in one step: what the *)
(* page could still start in between it could have started just before.    *)
(* Only after a failed /auth/me is the page not ready before, and then the *)
(* tab is left in a step of its own.                                       *)
(***************************************************************************)
EXTENDS Naturals, FiniteSets

CONSTANTS
    Tabs,
    Operations,   \* slots for operations that have not ended (bound)
    MaxSaves,     \* bound: changes stored of the customer and its addresses
    MaxLogins,    \* bound: logins of this browser, the first one included
    None          \* nothing shown, no cookie, no tab

ASSUME DetailsAssumption ==
    /\ MaxSaves \in Nat
    /\ MaxLogins \in Nat \ {0}
    /\ None \notin Nat \union Tabs \union Operations

VARIABLES
    session,      \* the login whose session cookies the browser holds, or 0
    logins,       \* logins so far
    live,         \* those whose sessions are not over
    cookie,       \* the operation whose CSRF token the cookie holds
    stored,       \* times the customer or its addresses were changed
    tab,          \* tab[t]: the page and its React state
    op            \* op[o]: an operation

api == <<logins, live, stored>>
browser == <<session, cookie>>
vars == <<browser, api, tab, op>>

Kinds == {"page", "update", "address", "logout", "login"}
Changes == {"update", "address"}
PCs == {"idle", "me", "csrf", "send", "sent", "answered", "load"}
Answers == {"none", "ok", "401", "403"}
Destinations == {"details", "login", "unload"}   \* "unload": a new /login

Fresh == [page |-> "details", ready |-> FALSE,
          next |-> "none",                      \* where useAuth sends it
          shows |-> None,                       \* the changes it shows
          wrote |-> 0, saved |-> 0,             \* history: its own updates and
                                                \* addresses acknowledged
          outdated |-> FALSE]                   \* history: its last load failed
                                                \* or was a stale one

Idle == [pc |-> "idle", kind |-> "page", tab |-> None,
         mounted |-> FALSE,                     \* its page is still there
         under |-> 0, as |-> 0,                 \* the session cookie when its
                                                \* token came, and as it was sent
         matches |-> FALSE, answer |-> "none", made |-> 0,
         overtaken |-> FALSE,                   \* history: the cookie was
                                                \* replaced in between
         read |-> None,                         \* what a load found
         stale |-> FALSE]                       \* history: a change of its page
                                                \* was acknowledged since the
                                                \* load began

Shown == 0..MaxSaves \union {None}

TypeOK ==
    /\ session \in 0..logins /\ logins \in 1..MaxLogins /\ live \subseteq 1..logins
    /\ cookie \in Operations \union {None}
    /\ stored \in 0..MaxSaves
    /\ tab \in [Tabs -> [page : {"details", "login"}, ready : BOOLEAN,
                         next : Destinations \union {"none"}, shows : Shown,
                         wrote : 0..MaxSaves, saved : 0..MaxSaves,
                         outdated : BOOLEAN]]
    /\ op \in [Operations -> [pc : PCs, kind : Kinds, tab : Tabs \union {None},
                              mounted : BOOLEAN, under : 0..MaxLogins,
                              as : 0..MaxLogins, matches : BOOLEAN,
                              answer : Answers, made : Nat,
                              overtaken : BOOLEAN, read : Shown,
                              stale : BOOLEAN]]
    /\ \A t \in Tabs : tab[t].ready => tab[t].page = "details"

Init ==
    /\ session = 1 /\ logins = 1 /\ live = {1} /\ cookie = None
    /\ stored = 0
    /\ tab = [t \in Tabs |-> Fresh]
    /\ op = [o \in Operations |-> Idle]

-----------------------------------------------------------------------------
Of(t) == {o \in Operations : op[o].pc # "idle" /\ op[o].tab = t}

\* The operations of the page that the tab shows.
Mounted(t) == {o \in Of(t) : op[o].mounted}

Loading(t) == {o \in Mounted(t) : op[o].pc = "load"}

Ends(o) == op' = [op EXCEPT ![o] = Idle]

\* The CSRF cookie changes by the answer to o: another operation that is about
\* to send its token to the API has been overtaken.
Overtaken(o) ==
    [p \in Operations |->
        [op[p] EXCEPT !.overtaken =
            @ \/ (p # o /\ op[p].pc = "send" /\ cookie = p)]]

\* A route replaced by itself stays, and a document that is being left is left.
Stays(t, to) ==
    \/ t = None
    \/ to = "login" /\ tab[t].page = "login"
    \/ to # "unload" /\ tab[t].next = "unload"

\* What becomes of the operations `ops` when a tab is left.  After
\* router.replace they run on without their page.  window.location.assign ends
\* the scripts where they are, but a request already sent is still served, and
\* its cookies are kept.
Departed(t, to, ops) ==
    [p \in Operations |->
        IF ops[p].tab # t THEN ops[p]
        ELSE IF to # "unload" THEN [ops[p] EXCEPT !.mounted = FALSE]
        ELSE IF ops[p].pc \in {"sent", "answered"}
        THEN [ops[p] EXCEPT !.tab = None, !.mounted = FALSE]
        ELSE Idle]

\* Mutant: the state of the page outlives it.
GoesKeeping(t, to, ops) ==
    IF Stays(t, to) THEN UNCHANGED tab /\ op' = ops
    ELSE /\ tab' = [tab EXCEPT ![t].next = "none",
                        ![t].page = IF to = "details" THEN "details" ELSE "login"]
         /\ op' = Departed(t, to, ops)

Goes(t, to, ops) ==
    IF Stays(t, to) THEN UNCHANGED tab /\ op' = ops
    ELSE /\ tab' = [tab EXCEPT ![t] =
                [Fresh EXCEPT !.page = IF to = "details" THEN "details" ELSE "login"]]
         /\ op' = Departed(t, to, ops)

-----------------------------------------------------------------------------
(* What the user starts.                                                   *)

Starts(o, t, kind, pc) ==
    /\ op[o].pc = "idle"
    /\ op' = [op EXCEPT ![o] = [Idle EXCEPT !.pc = pc, !.kind = kind, !.tab = t,
                                            !.mounted = TRUE]]
    /\ UNCHANGED <<browser, api, tab>>

\* The page is opened: useAuth asks who the user is.
Mount(o, t) ==
    /\ tab[t].page = "details" /\ ~ tab[t].ready /\ Mounted(t) = {}
    /\ Starts(o, t, "page", "me")

UpdateCustomer(o, t) ==
    /\ tab[t].ready /\ tab[t].shows # None
    /\ Starts(o, t, "update", "csrf")

SaveAddress(o, t) ==
    /\ tab[t].ready
    /\ Starts(o, t, "address", "csrf")

Logout(o, t) ==
    /\ tab[t].ready
    /\ Starts(o, t, "logout", "csrf")

\* The button of the login page is disabled meanwhile.
Login(o, t) ==
    /\ tab[t].page = "login" /\ Mounted(t) = {}
    /\ Starts(o, t, "login", "csrf")

-----------------------------------------------------------------------------
(* The requests.                                                           *)

\* useAuth goes on for the page that asked: it is ready in any case, and its
\* effect loads, although the tab is about to go `to`.
MeEnds(o, to) ==
    /\ tab' = [tab EXCEPT ![op[o].tab].ready = TRUE,
                          ![op[o].tab].next = to]
    /\ op' = [op EXCEPT ![o].pc = "load"]
    /\ UNCHANGED <<browser, api>>

\* A page that is gone takes no notice, but the tab goes.
MeEndsLate(o, to) ==
    /\ IF to = "none" THEN Ends(o) /\ UNCHANGED tab
       ELSE Goes(op[o].tab, to, [op EXCEPT ![o] = Idle])
    /\ UNCHANGED <<browser, api>>

MeAnswers(o) ==
    LET to == IF session \in live THEN "none" ELSE "unload" IN
    /\ op[o].pc = "me"
    /\ IF op[o].mounted THEN MeEnds(o, to) ELSE MeEndsLate(o, to)

\* Any failure of /auth/me is taken for the end of the session.
MeFails(o) ==
    /\ op[o].pc = "me"
    /\ IF op[o].mounted THEN MeEnds(o, "login") ELSE MeEndsLate(o, "login")

\* The navigation that useAuth asked for takes place.
Navigate(t) ==
    /\ tab[t].next # "none"
    /\ Goes(t, tab[t].next, op)
    /\ UNCHANGED <<browser, api>>

\* Mutant: the answer of /auth/csrf leaves a cookie that is there alone.
CsrfAnswersOnce(o) ==
    /\ op[o].pc = "csrf"
    /\ cookie' = IF cookie = None THEN o ELSE cookie
    /\ op' = [Overtaken(o) EXCEPT ![o].pc = "send", ![o].under = session]
    /\ UNCHANGED <<session, api, tab>>

\* csrfToken: the cookie of all tabs is the token of this operation from now on.
CsrfAnswers(o) ==
    /\ op[o].pc = "csrf"
    /\ cookie' = o
    /\ op' = [Overtaken(o) EXCEPT ![o].pc = "send", ![o].under = session]
    /\ UNCHANGED <<session, api, tab>>

\* The change leaves with the header, and with whatever cookies there are now.
Send(o) ==
    /\ op[o].pc = "send"
    /\ op' = [op EXCEPT ![o].pc = "sent", ![o].as = session,
                        ![o].matches = (cookie = o)]
    /\ UNCHANGED <<browser, api, tab>>

Answered(o, answer, made) ==
    op' = [op EXCEPT ![o] = [Idle EXCEPT !.pc = "answered", !.kind = op[o].kind,
                                         !.tab = op[o].tab, !.mounted = op[o].mounted,
                                         !.answer = answer, !.made = made,
                                         !.overtaken = op[o].overtaken]]

\* AuthenticatedGuard comes before CsrfGuard; login and logout have only that.
Refusal(o) ==
    IF op[o].kind \in Changes /\ op[o].as \notin live THEN "401"
    ELSE IF ~ op[o].matches THEN "403"
    ELSE "none"

Serve(o) ==
    /\ op[o].pc = "sent"
    /\ CASE Refusal(o) # "none" ->
              Answered(o, Refusal(o), 0) /\ UNCHANGED api
         [] Refusal(o) = "none" /\ op[o].kind \in Changes ->
              /\ stored < MaxSaves /\ stored' = stored + 1
              /\ Answered(o, "ok", stored')
              /\ UNCHANGED <<logins, live>>
         [] Refusal(o) = "none" /\ op[o].kind = "logout" ->
              /\ live' = live \ {op[o].as}
              /\ Answered(o, "ok", 0)
              /\ UNCHANGED <<logins, stored>>
         [] Refusal(o) = "none" /\ op[o].kind = "login" ->
              \/ Answered(o, "401", 0) /\ UNCHANGED api
              \/ /\ logins < MaxLogins /\ logins' = logins + 1
                 /\ live' = live \union {logins'}
                 /\ Answered(o, "ok", logins')
                 /\ UNCHANGED stored
    /\ UNCHANGED <<browser, tab>>

\* A session expires, or is revoked from elsewhere.
SessionEnds ==
    /\ \E s \in live : live' = live \ {s}
    /\ UNCHANGED <<browser, logins, stored, tab, op>>

-----------------------------------------------------------------------------
(* The answers, as session.ts and the handlers of the page take them.      *)

\* A change of the page was acknowledged: the loads that it runs began too early.
Noted(o) ==
    [p \in Operations |->
        IF op[o].mounted /\ p \in Loading(op[o].tab) THEN [op[p] EXCEPT !.stale = TRUE]
        ELSE op[p]]

Latest(a, b) == IF a < b THEN b ELSE a

\* Mutant: after the PATCH the form closes and nothing is loaded.
UpdateSavedOnly(o, t) ==
    /\ tab' = [tab EXCEPT ![t].wrote =
                  IF op[o].mounted THEN Latest(@, op[o].made) ELSE @]
    /\ op' = [Noted(o) EXCEPT ![o] = Idle]

\* updateCustomer goes on: the form closes, and load() asks again, although the
\* page may be gone.
UpdateSaved(o, t) ==
    /\ tab' = [tab EXCEPT ![t].wrote =
                  IF op[o].mounted THEN Latest(@, op[o].made) ELSE @]
    /\ op' = [Noted(o) EXCEPT ![o] = [Idle EXCEPT !.pc = "load", !.tab = t,
                                                  !.mounted = op[o].mounted]]

\* saveAddress goes on with event.currentTarget.reset().  React has cleared
\* currentTarget when the handler first awaited: a TypeError, shown like any
\* error, and load() is not reached.
AddressSaved(o, t) ==
    /\ tab' = [tab EXCEPT ![t].saved =
                  IF op[o].mounted THEN Latest(@, op[o].made) ELSE @]
    /\ op' = [Noted(o) EXCEPT ![o] = Idle]

\* Mutant: login sets the session cookies and no CSRF token of its own.
SessionCookiesOnly(o) ==
    /\ session' = IF op[o].kind = "login" THEN op[o].made ELSE 0
    /\ UNCHANGED cookie

\* Set-Cookie: login brings a session and a token of its own, logout removes
\* both, whoever they belong to by now.
SessionCookies(o) ==
    /\ session' = IF op[o].kind = "login" THEN op[o].made ELSE 0
    /\ cookie' = None

\* The page goes on to another; the CSRF cookie has changed meanwhile.
GoesOn(o, to) == Goes(op[o].tab, to, [Overtaken(o) EXCEPT ![o] = Idle])

\* apiFetch throws for what is not ok, and a 401 leaves the document too, whatever
\* was asked for: the login page is loaded anew by wrong credentials, and the
\* message about them is lost.
Receive(o) ==
    LET t == op[o].tab IN
    /\ op[o].pc = "answered"
    /\ UNCHANGED api
    /\ CASE op[o].answer = "401" ->
              Goes(t, "unload", [op EXCEPT ![o] = Idle]) /\ UNCHANGED browser
         [] op[o].answer = "403" -> Ends(o) /\ UNCHANGED <<browser, tab>>
         [] op[o].answer = "ok" /\ op[o].kind = "login" ->
              SessionCookies(o) /\ GoesOn(o, "details")
         [] op[o].answer = "ok" /\ op[o].kind = "logout" ->
              SessionCookies(o) /\ GoesOn(o, "login")
         [] op[o].answer = "ok" /\ op[o].kind \in Changes /\ t = None ->
              Ends(o) /\ UNCHANGED <<browser, tab>>
         [] op[o].answer = "ok" /\ op[o].kind = "update" /\ t # None ->
              UpdateSaved(o, t) /\ UNCHANGED browser
         [] op[o].answer = "ok" /\ op[o].kind = "address" /\ t # None ->
              AddressSaved(o, t) /\ UNCHANGED browser

\* No answer comes, from the request or its way back: fetch rejects.  An error
\* of the API that changes nothing (422, 404, 409) looks the same to the page.
Lose(o) ==
    /\ op[o].pc \in {"csrf", "send", "sent", "answered"}
    /\ Ends(o)
    /\ UNCHANGED <<browser, api, tab>>

-----------------------------------------------------------------------------
(* load(): the customer and its addresses, by two requests at a time.  What *)
(* it shows is as old as the older of the two answers.                     *)

Read(o) ==
    /\ op[o].pc = "load" /\ op[o].read = None /\ session \in live
    /\ op' = [op EXCEPT ![o].read = stored]
    /\ UNCHANGED <<browser, api, tab>>

LoadEnds(o) ==
    /\ op[o].pc = "load" /\ op[o].read # None
    /\ IF op[o].mounted
       THEN tab' = [tab EXCEPT ![op[o].tab].shows = op[o].read,
                               ![op[o].tab].outdated = op[o].stale]
       ELSE UNCHANGED tab
    /\ Ends(o)
    /\ UNCHANGED <<browser, api>>

LoadFails(o) ==
    LET t == op[o].tab IN
    /\ op[o].pc = "load"
    /\ \/ /\ tab' = [tab EXCEPT ![t].outdated = @ \/ op[o].mounted]
          /\ Ends(o)
       \/ session \notin live /\ Goes(t, "unload", [op EXCEPT ![o] = Idle])
    /\ UNCHANGED <<browser, api>>

Next ==
    \/ \E o \in Operations :
          \/ \E t \in Tabs : \/ Mount(o, t) \/ UpdateCustomer(o, t)
                             \/ SaveAddress(o, t) \/ Logout(o, t) \/ Login(o, t)
          \/ MeAnswers(o) \/ MeFails(o) \/ CsrfAnswers(o) \/ Send(o) \/ Serve(o)
          \/ Receive(o) \/ Lose(o)
          \/ Read(o) \/ LoadEnds(o) \/ LoadFails(o)
    \/ \E t \in Tabs : Navigate(t)
    \/ SessionEnds

Spec == Init /\ [][Next]_vars

-----------------------------------------------------------------------------
(* Properties.                                                             *)

\* A change is refused for its CSRF token only when the answer to another
\* operation of the browser replaced or removed the cookie between the token
\* and the change.
RefusedOnlyWhenOvertaken ==
    \A o \in Operations : op[o].answer = "403" => op[o].overtaken

\* A change that the guards let pass is sent under the login under which its
\* CSRF token came.  Operations outlive their page and its session, and one that
\* was started under a login may ask for its token, and be served, under a later
\* one; but a login between the token and the change, in any tab, refuses it.
ServedUnderItsToken ==
    \A o \in Operations :
       op[o].pc = "sent" /\ op[o].kind \in Changes /\ Refusal(o) = "none"
       => op[o].as = op[o].under

\* A page that is loading nothing shows the changes it made to the customer
\* and that were acknowledged, unless the load that ended last had failed or
\* had begun before one of them, and so overtook the load of that change.
OwnUpdateIsShown ==
    \A t \in Tabs :
       tab[t].ready /\ Loading(t) = {} /\ ~ tab[t].outdated
       => tab[t].shows >= tab[t].wrote

\* The same of the addresses: a page that added or edited one shows it
\* (docs/plans/group-07-clientes-enderecos.md:62).
SavedAddressIsShown ==
    \A t \in Tabs :
       tab[t].ready /\ Loading(t) = {} /\ ~ tab[t].outdated
       => tab[t].shows >= tab[t].saved

=============================================================================
