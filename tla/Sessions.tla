------------------------------ MODULE Sessions ------------------------------
(***************************************************************************)
(* The session subsystem of the CrewOps API: AuthService (login, refresh,  *)
(* logout), SessionRepository, TokenService, AuthenticatedGuard and the    *)
(* part of UsersService that revokes sessions, over the tables `users` and *)
(* `sessions` that they share.                                             *)
(*                                                                         *)
(* The API is one Node process: handlers interleave at every await, and an *)
(* await is a statement on its own Postgres connection (no handler opens a *)
(* transaction).  So an action below runs a handler from one await to the  *)
(* next: what the statement reads or writes, plus the code that follows.   *)
(*                                                                         *)
(* Data is kept to what the properties tell apart.  A password is right or *)
(* wrong for the hash that was read; an access token is its session and    *)
(* its expiry; time is a counter.  The fields marked "history" are read by *)
(* no action: they only let a property speak about the past.               *)
(***************************************************************************)
EXTENDS Integers

CONSTANTS
    Users,        \* rows of `users`, all of one company
    Roles,        \* userRoles
    SessionIds,   \* rows of `sessions` that may be inserted (bound)
    Handlers,     \* slots for requests in progress (bound)
    None,         \* SQL NULL, an absent row, an unset local
    SessionTTL,   \* SESSION_TTL_MS = REFRESH_TTL_MS, in ticks
    AccessTTL,    \* lifetime of an access token, in ticks
    MaxTime,      \* bound: the clock stops here
    MaxChanges,   \* bound: security changes per user
    Tracked       \* audit actions whose rows the model keeps

Statuses == {"active", "inactive"}   \* "blocked" is treated as "inactive"
AuditActions == {"login", "denied", "refresh", "logout", "user"}

SessionRow == [user : Users, role : Roles, expiresAt : Nat,
               revokedAt : Nat \union {None},
               gen : Nat,      \* history: users[user].gen that login read
               born : Nat]     \* history: users[user].gen at the INSERT

ASSUME SessionsAssumption ==
    /\ SessionTTL \in Nat \ {0}
    /\ AccessTTL \in Nat \ {0}
    /\ MaxTime \in Nat
    /\ MaxChanges \in Nat
    /\ Tracked \subseteq AuditActions
    /\ None \notin Nat
    /\ None \notin SessionRow
    /\ None \notin SessionIds

VARIABLES
    now,          \* Date.now(), the same for the API and Postgres
    users,        \* users[u]: status, role, and gen, the number of security
                  \* changes (role, status or password) committed so far
    sessions,     \* sessions[s]: the row, or None before the INSERT
    audit,        \* rows of `audit_logs`, as <<action, subject>>
    held,         \* sessions whose refresh_token cookie a client received
    accessExp,    \* latest exp of the access tokens received for a session
    handler,      \* handler[h]: program counter and locals of a request
    missed        \* history: users with a committed change whose revocation
                  \* was cut short and not made good since

dbVars == <<users, sessions, audit>>
clientVars == <<held, accessExp>>
vars == <<now, users, sessions, audit, held, accessExp, handler, missed>>

PCs == {"idle", "loginVerify", "loginInsert", "refreshUser", "refreshRevoke",
        "refreshExtend", "logoutRevoke", "updateRevoke", "audit",
        "guardSession", "guardUser", "serving"}

Idle == [pc |-> "idle", user |-> None, session |-> None, role |-> None,
         gen |-> 0, exp |-> 0, action |-> None,
         revokedBefore |-> FALSE]    \* history: see RequestArrives

HandlerState ==
    [pc : PCs, user : Users \union {None}, session : SessionIds \union {None},
     role : Roles \union {None}, gen : Nat, exp : Nat,
     action : AuditActions \union {None}, revokedBefore : BOOLEAN]

TypeOK ==
    /\ now \in Nat
    /\ users \in [Users -> [status : Statuses, role : Roles, gen : Nat]]
    /\ sessions \in [SessionIds -> SessionRow \union {None}]
    /\ audit \subseteq AuditActions \X (Users \union SessionIds)
    /\ held \subseteq SessionIds
    /\ accessExp \in [SessionIds -> Nat]
    /\ handler \in [Handlers -> HandlerState]
    /\ missed \subseteq Users

-----------------------------------------------------------------------------
(* State functions.                                                        *)

Stored(s) == sessions[s] # None
Unrevoked(s) == Stored(s) /\ sessions[s].revokedAt = None
Revoked(s) == Stored(s) /\ sessions[s].revokedAt # None

\* How a handler's locals are tied to the tables.  A login holds a session
\* that is not stored and that no other handler holds; the other handlers of a
\* session hold a stored one and its user.
LoginPCs == {"loginVerify", "loginInsert"}
SessionPCs == {"refreshUser", "refreshRevoke", "refreshExtend",
               "logoutRevoke", "guardSession", "guardUser", "serving"}

HandlerIsWired(h) ==
    LET l == handler[h] IN
    /\ l.pc \in LoginPCs =>
          /\ l.user \in Users /\ l.role \in Roles
          /\ l.session \in SessionIds /\ ~ Stored(l.session)
    /\ l.pc \in SessionPCs =>
          /\ l.session \in SessionIds /\ Stored(l.session)
          /\ l.user = sessions[l.session].user
    /\ l.pc = "updateRevoke" =>
          l.user \in Users /\ l.session = None /\ l.action = "user"
    /\ l.pc = "audit" =>
          \/ /\ l.action \in {"login", "refresh", "logout"}
             /\ l.session \in SessionIds /\ Stored(l.session)
          \/ /\ l.action \in {"denied", "user"}
             /\ l.user \in Users /\ l.session = None

Wiring ==
    /\ \A h \in Handlers : HandlerIsWired(h)
    /\ \A g, h \in Handlers :
          (g # h /\ handler[g].pc \in LoginPCs) =>
              handler[h].session # handler[g].session
    /\ \A s \in held : Stored(s)

Init ==
    /\ now = 0
    /\ users \in [Users -> [status : {"active"}, role : Roles, gen : {0}]]
    /\ sessions = [s \in SessionIds |-> None]
    /\ audit = {}
    /\ held = {}
    /\ accessExp = [s \in SessionIds |-> 0]
    /\ handler = [h \in Handlers |-> Idle]
    /\ missed = {}

Become(h, state) == handler' = [handler EXCEPT ![h] = state]
Return(h) == Become(h, Idle)

\* Mutant: without `revoked_at IS NULL` in the WHERE, a second revocation
\* overwrites the time of the first.
RevokeRowsAgain(rows) ==
    sessions' = [s \in SessionIds |->
                    IF s \in rows /\ Stored(s)
                    THEN [sessions[s] EXCEPT !.revokedAt = now]
                    ELSE sessions[s]]

\* SessionRepository.revoke and revokeForUser: one UPDATE that skips the rows
\* already revoked, so the time of the first revocation stays.
RevokeRows(rows) ==
    sessions' = [s \in SessionIds |->
                    IF s \in rows /\ Unrevoked(s)
                    THEN [sessions[s] EXCEPT !.revokedAt = now]
                    ELSE sessions[s]]

\* AuditService.write: an INSERT whose failure is logged and swallowed.
AuditInsert(action, subject) ==
    \/ /\ action \in Tracked
       /\ audit' = audit \union {<<action, subject>>}
    \/ UNCHANGED audit

-----------------------------------------------------------------------------
(* POST /auth/login.  Session s stands for the refresh token that will be  *)
(* generated; it is fresh because the token is 256 random bits.            *)

\* Mutant: the user's role is not kept for the session row.
LoginFindWithoutRole(h, u, s) ==
    /\ handler[h].pc = "idle"
    /\ ~ Stored(s)
    /\ \A g \in Handlers : handler[g].session # s
    /\ users[u].status = "active"
    /\ Become(h, [Idle EXCEPT !.pc = "loginVerify", !.user = u,
                              !.session = s, !.gen = users[u].gen])
    /\ UNCHANGED <<now, dbVars, clientVars, missed>>

\* findUserForLogin: the row of an inactive user is no candidate.
LoginFind(h, u, s) ==
    /\ handler[h].pc = "idle"
    /\ ~ Stored(s)
    /\ \A g \in Handlers : handler[g].session # s
    /\ \/ /\ users[u].status = "active"
          /\ Become(h, [Idle EXCEPT !.pc = "loginVerify", !.user = u,
                                    !.session = s, !.role = users[u].role,
                                    !.gen = users[u].gen])
       \/ /\ users[u].status # "active"
          /\ Become(h, [Idle EXCEPT !.pc = "audit", !.user = u,
                                    !.action = "denied"])
    /\ UNCHANGED <<now, dbVars, clientVars, missed>>

\* verifyPassword against the hash that was read; then the token and its
\* expiry are computed.
LoginVerify(h) ==
    /\ handler[h].pc = "loginVerify"
    /\ \/ Become(h, [handler[h] EXCEPT !.pc = "loginInsert",
                                       !.exp = now + SessionTTL])
       \/ Become(h, [Idle EXCEPT !.pc = "audit", !.user = handler[h].user,
                                 !.action = "denied"])
    /\ UNCHANGED <<now, dbVars, clientVars, missed>>

\* sessions.create, then signAccessToken.
LoginInsert(h) ==
    LET l == handler[h] IN
    /\ l.pc = "loginInsert"
    /\ sessions' = [sessions EXCEPT ![l.session] =
                      [user |-> l.user, role |-> l.role, expiresAt |-> l.exp,
                       revokedAt |-> None, gen |-> l.gen,
                       born |-> users[l.user].gen]]
    /\ Become(h, [Idle EXCEPT !.pc = "audit", !.action = "login",
                              !.user = l.user, !.session = l.session,
                              !.exp = now + AccessTTL])
    /\ UNCHANGED <<now, users, audit, clientVars, missed>>

-----------------------------------------------------------------------------
(* POST /auth/refresh.  A client may present any refresh token it ever     *)
(* received, in several requests at once.                                  *)

RefreshFind(h, s) ==
    /\ handler[h].pc = "idle"
    /\ s \in held
    /\ Unrevoked(s)
    /\ sessions[s].expiresAt >= now
    /\ Become(h, [Idle EXCEPT !.pc = "refreshUser", !.session = s,
                              !.user = sessions[s].user])
    /\ UNCHANGED <<now, dbVars, clientVars, missed>>

\* findUserForLoginById, then the new expiry is computed.
RefreshUser(h) ==
    LET l == handler[h] IN
    /\ l.pc = "refreshUser"
    /\ \/ /\ users[l.user].status = "active"
          /\ Become(h, [l EXCEPT !.pc = "refreshExtend",
                                 !.exp = now + SessionTTL])
       \/ /\ users[l.user].status # "active"
          /\ Become(h, [l EXCEPT !.pc = "refreshRevoke"])
    /\ UNCHANGED <<now, dbVars, clientVars, missed>>

RefreshRevoke(h) ==
    /\ handler[h].pc = "refreshRevoke"
    /\ RevokeRows({handler[h].session})
    /\ Return(h)
    /\ UNCHANGED <<now, users, audit, clientVars, missed>>

\* Mutant: the window grows from its old end instead of from now.
RefreshExtendFromEnd(h) ==
    LET l == handler[h] IN
    /\ l.pc = "refreshExtend"
    /\ sessions' = [sessions EXCEPT ![l.session].expiresAt = @ + SessionTTL]
    /\ Become(h, [l EXCEPT !.pc = "audit", !.action = "refresh"])
    /\ UNCHANGED <<now, users, audit, clientVars, missed>>

\* Mutant: the whole row read by findByRefreshTokenHash is written back.
RefreshExtendSavingRow(h) ==
    LET l == handler[h] IN
    /\ l.pc = "refreshExtend"
    /\ sessions' = [sessions EXCEPT ![l.session].expiresAt = l.exp,
                                    ![l.session].revokedAt = None]
    /\ Become(h, [l EXCEPT !.pc = "audit", !.action = "refresh"])
    /\ UNCHANGED <<now, users, audit, clientVars, missed>>

\* extendExpiry: by id alone, whatever has happened to the row since it was
\* read.
RefreshExtend(h) ==
    LET l == handler[h] IN
    /\ l.pc = "refreshExtend"
    /\ sessions' = [sessions EXCEPT ![l.session].expiresAt = l.exp]
    /\ Become(h, [l EXCEPT !.pc = "audit", !.action = "refresh"])
    /\ UNCHANGED <<now, users, audit, clientVars, missed>>

-----------------------------------------------------------------------------
(* POST /auth/logout.                                                      *)

LogoutFind(h, s) ==
    /\ handler[h].pc = "idle"
    /\ s \in held
    /\ Unrevoked(s)
    /\ Become(h, [Idle EXCEPT !.pc = "logoutRevoke", !.session = s,
                              !.user = sessions[s].user])
    /\ UNCHANGED <<now, dbVars, clientVars, missed>>

\* Mutant: the logout is audited and answered without ending the session.
LogoutRevokeNothing(h) ==
    /\ handler[h].pc = "logoutRevoke"
    /\ Become(h, [handler[h] EXCEPT !.pc = "audit", !.action = "logout"])
    /\ UNCHANGED <<now, dbVars, clientVars, missed>>

LogoutRevoke(h) ==
    /\ handler[h].pc = "logoutRevoke"
    /\ RevokeRows({handler[h].session})
    /\ Become(h, [handler[h] EXCEPT !.pc = "audit", !.action = "logout"])
    /\ UNCHANGED <<now, users, audit, clientVars, missed>>

-----------------------------------------------------------------------------
(* PATCH and DELETE /users/:id.  A patch that names role, status or        *)
(* password is a security change, even when it names the current value.    *)

\* Mutant: only a deactivation revokes the user's sessions.
UpdateUserRevokingLess(h, u, status, role, security) ==
    /\ handler[h].pc = "idle"
    /\ security \/ (status = users[u].status /\ role = users[u].role)
    /\ security => users[u].gen < MaxChanges
    /\ users' = [users EXCEPT ![u] =
                   [status |-> status, role |-> role,
                    gen |-> IF security THEN @.gen + 1 ELSE @.gen]]
    /\ Become(h, [Idle EXCEPT
                    !.pc = IF security /\ status # "active"
                           THEN "updateRevoke" ELSE "audit",
                    !.user = u, !.action = "user"])
    /\ UNCHANGED <<now, sessions, audit, clientVars, missed>>

UpdateUser(h, u, status, role, security) ==
    /\ handler[h].pc = "idle"
    /\ security \/ (status = users[u].status /\ role = users[u].role)
    /\ security => users[u].gen < MaxChanges
    /\ users' = [users EXCEPT ![u] =
                   [status |-> status, role |-> role,
                    gen |-> IF security THEN @.gen + 1 ELSE @.gen]]
    /\ Become(h, [Idle EXCEPT
                    !.pc = IF security THEN "updateRevoke" ELSE "audit",
                    !.user = u, !.action = "user"])
    /\ UNCHANGED <<now, sessions, audit, clientVars, missed>>

UpdateRevoke(h) ==
    LET u == handler[h].user IN
    /\ handler[h].pc = "updateRevoke"
    /\ RevokeRows({s \in SessionIds : Stored(s) /\ sessions[s].user = u})
    /\ Become(h, [handler[h] EXCEPT !.pc = "audit"])
    /\ missed' = missed \ {u}
    /\ UNCHANGED <<now, users, audit, clientVars>>

-----------------------------------------------------------------------------
(* The audit record, and the response that follows it.  The client may not *)
(* receive the response.                                                   *)

Subject(l) == IF l.session = None THEN l.user ELSE l.session

Receive(s, exp) ==
    /\ held' = held \union {s}
    /\ accessExp' = [accessExp EXCEPT ![s] = IF exp > @ THEN exp ELSE @]

AuditAndRespond(h) ==
    LET l == handler[h] IN
    /\ l.pc = "audit"
    /\ AuditInsert(l.action, Subject(l))
    /\ \/ l.action = "login" /\ Receive(l.session, l.exp)
       \/ l.action = "refresh" /\ Receive(l.session, now + AccessTTL)
       \/ UNCHANGED clientVars
    /\ Return(h)
    /\ UNCHANGED <<now, users, sessions, missed>>

-----------------------------------------------------------------------------
(* A request to a route behind AuthenticatedGuard, made with an access     *)
(* token.  The history fields gen and revokedBefore record what was true   *)
(* when it arrived.                                                        *)

RequestArrives(h, s) ==
    /\ handler[h].pc = "idle"
    /\ s \in held
    /\ Become(h, [Idle EXCEPT !.pc = "guardSession", !.session = s,
                              !.user = sessions[s].user,
                              !.exp = accessExp[s],
                              !.gen = users[sessions[s].user].gen,
                              !.revokedBefore = Revoked(s)])
    /\ UNCHANGED <<now, dbVars, clientVars, missed>>

\* Mutant: the guard trusts the token and the expiry of the session.
GuardSessionWithoutRevocation(h) ==
    LET l == handler[h] IN
    /\ l.pc = "guardSession"
    /\ IF l.exp > now /\ sessions[l.session].expiresAt > now
       THEN Become(h, [l EXCEPT !.pc = "guardUser"])
       ELSE Return(h)
    /\ UNCHANGED <<now, dbVars, clientVars, missed>>

\* verifyAccessToken and the query on `sessions`.
GuardSession(h) ==
    LET l == handler[h]
        row == sessions[l.session] IN
    /\ l.pc = "guardSession"
    /\ IF /\ l.exp > now
          /\ row.revokedAt = None
          /\ row.expiresAt > now
       THEN Become(h, [l EXCEPT !.pc = "guardUser"])
       ELSE Return(h)
    /\ UNCHANGED <<now, dbVars, clientVars, missed>>

\* Mutant: req.user takes its role from the session row.
GuardUserFromSession(h) ==
    LET l == handler[h] IN
    /\ l.pc = "guardUser"
    /\ IF users[l.user].status = "active"
       THEN Become(h, [l EXCEPT !.pc = "serving",
                                !.role = sessions[l.session].role])
       ELSE Return(h)
    /\ UNCHANGED <<now, dbVars, clientVars, missed>>

\* Mutant: the user's status is not looked at.
GuardUserOfAnyStatus(h) ==
    LET l == handler[h] IN
    /\ l.pc = "guardUser"
    /\ Become(h, [l EXCEPT !.pc = "serving", !.role = users[l.user].role])
    /\ UNCHANGED <<now, dbVars, clientVars, missed>>

\* The query on `users`; req.user takes its role from the row found.
GuardUser(h) ==
    LET l == handler[h] IN
    /\ l.pc = "guardUser"
    /\ IF users[l.user].status = "active"
       THEN Become(h, [l EXCEPT !.pc = "serving",
                                !.role = users[l.user].role])
       ELSE Return(h)
    /\ UNCHANGED <<now, dbVars, clientVars, missed>>

\* The guarded route answers.  The routes' own effects are other modules'.
Served(h) ==
    /\ handler[h].pc = "serving"
    /\ Return(h)
    /\ UNCHANGED <<now, dbVars, clientVars, missed>>

-----------------------------------------------------------------------------
(* The environment.                                                        *)

\* A statement fails, or the process dies: the handler goes no further and
\* what it has committed stays.  A crash is an Abort of every handler.
Abort(h) ==
    /\ handler[h].pc # "idle"
    /\ missed' = IF handler[h].pc = "updateRevoke"
                 THEN missed \union {handler[h].user} ELSE missed
    /\ Return(h)
    /\ UNCHANGED <<now, dbVars, clientVars>>

Tick ==
    /\ now < MaxTime
    /\ now' = now + 1
    /\ UNCHANGED <<dbVars, clientVars, handler, missed>>

-----------------------------------------------------------------------------

\* A handler that has begun: its next statement.
Continue(h) ==
    \/ LoginVerify(h)
    \/ LoginInsert(h)
    \/ RefreshUser(h)
    \/ RefreshRevoke(h)
    \/ RefreshExtend(h)
    \/ LogoutRevoke(h)
    \/ UpdateRevoke(h)
    \/ AuditAndRespond(h)
    \/ GuardSession(h)
    \/ GuardUser(h)
    \/ Served(h)

\* A request that arrives.
Begin(h) ==
    \/ \E u \in Users, s \in SessionIds : LoginFind(h, u, s)
    \/ \E s \in SessionIds : RefreshFind(h, s)
    \/ \E s \in SessionIds : LogoutFind(h, s)
    \/ \E s \in SessionIds : RequestArrives(h, s)
    \/ \E u \in Users, status \in Statuses, role \in Roles, security \in BOOLEAN :
          UpdateUser(h, u, status, role, security)

Next ==
    \/ \E h \in Handlers : Begin(h) \/ Continue(h) \/ Abort(h)
    \/ Tick

Spec == Init /\ [][Next]_vars

\* Postgres answers and the event loop runs every continuation: a handler that
\* has begun goes on.  Nothing makes a client call, or the clock reach a value.
Fairness == \A h \in Handlers : WF_vars(Continue(h))

FairSpec == Spec /\ Fairness

-----------------------------------------------------------------------------
(* Safety.                                                                 *)

\* A request that arrives after its session was revoked never reaches the
\* route, however the guard's two queries, refreshes of the same session and
\* further revocations interleave (AuthenticatedGuard, "a revoked or expired
\* session is rejected immediately").
NoServiceAfterRevocation ==
    \A h \in Handlers : handler[h].pc = "serving" => ~ handler[h].revokedBefore

\* While a request is served, either its user's record has changed since the
\* request arrived, or the user is active and the request runs with exactly
\* the role of the record: a deactivation or role change that came before the
\* request is never missed, even for a session created by a login that
\* overlapped the change.
AuthorityIsCurrent ==
    \A h \in Handlers :
        LET l == handler[h] IN
        (l.pc = "serving" /\ users[l.user].gen = l.gen) =>
            users[l.user].status = "active" /\ l.role = users[l.user].role

\* Every session that is still usable although its login read the user's
\* record before the last security change is accounted for: the revocation is
\* still to come, or it was cut short, or the login overlapped a change.  The
\* UPDATE of revokeForUser leaves no other survivor.
SurvivorsAreExplained ==
    \A s \in SessionIds :
        (Unrevoked(s) /\ sessions[s].gen < users[sessions[s].user].gen) =>
            \/ \E h \in Handlers : /\ handler[h].pc = "updateRevoke"
                                   /\ handler[h].user = sessions[s].user
            \/ sessions[s].user \in missed
            \/ sessions[s].gen < sessions[s].born

\* No statement, however late it lands, gives a session or an access token
\* more than its time to live, counted from now.
WindowsAreBounded ==
    \A s \in SessionIds :
        /\ Stored(s) => sessions[s].expiresAt <= now + SessionTTL
        /\ accessExp[s] <= now + AccessTTL

\* The audit trail tells nothing that did not happen: a login or a refresh in
\* it has its session row, a logout in it has ended its session.
AuditIsTruthful ==
    \A s \in SessionIds :
        /\ (<<"login", s>> \in audit \/ <<"refresh", s>> \in audit) => Stored(s)
        /\ <<"logout", s>> \in audit => Revoked(s)

\* A revocation is final: its time is never changed or cleared, not by a
\* refresh that read the row before it, nor by a second revocation.
RevocationIsFinal ==
    [][\A s \in SessionIds :
          Revoked(s) => /\ sessions'[s] # None
                        /\ sessions'[s].revokedAt = sessions[s].revokedAt]_vars

-----------------------------------------------------------------------------
(* Refinement: the handlers implement SessionLifecycle.                    *)

lifeBar == [s \in SessionIds |->
              IF ~ Stored(s) THEN "unborn"
              ELSE IF Revoked(s) THEN "closed" ELSE "open"]

callBar == [h \in Handlers |->
              IF handler[h].pc \in {"guardSession", "guardUser", "serving"}
              THEN [at       |-> IF handler[h].pc = "serving"
                                 THEN "inside" ELSE "waiting",
                    session  |-> handler[h].session,
                    entitled |-> ~ handler[h].revokedBefore]
              ELSE [at |-> "outside", session |-> None, entitled |-> FALSE]]

Lifecycle == INSTANCE SessionLifecycle
                 WITH Calls <- Handlers, Nobody <- None,
                      life <- lifeBar, call <- callBar

\* Every behaviour of the handlers is, seen through the rows and the guarded
\* requests, a behaviour of the abstract life cycle.
ImplementsLifecycle == Lifecycle!LifecycleSpec

-----------------------------------------------------------------------------
(* Liveness.                                                               *)

\* Once a session is revoked, a moment comes after which nothing is ever
\* served under it: requests already past the guard finish, later ones fail.
RevokedSessionDrains ==
    \A s \in SessionIds :
        [](Revoked(s) => <>[](\A h \in Handlers :
              ~ (handler[h].pc = "serving" /\ handler[h].session = s)))

\* If a user stays deactivated, service to that user stops for good, whatever
\* sessions and access tokens still exist.
DeactivatedUserDrains ==
    \A u \in Users :
        <>[](users[u].status # "active") =>
            <>[](\A h \in Handlers :
                    ~ (handler[h].pc = "serving" /\ handler[h].user = u))

-----------------------------------------------------------------------------
(* What the documentation says and the handlers do not keep.               *)

\* session.repository.ts:149, "Revokes every non-revoked session of a user (on
\* deactivation/role change)": once no revocation is due or cut short, no
\* session is usable whose login came before the last security change.
ChangeEndsOlderSessions ==
    \A s \in SessionIds :
        (Unrevoked(s) /\ sessions[s].gen < users[sessions[s].user].gen) =>
            \/ \E h \in Handlers : /\ handler[h].pc = "updateRevoke"
                                   /\ handler[h].user = sessions[s].user
            \/ sessions[s].user \in missed

=============================================================================
