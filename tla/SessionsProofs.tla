--------------------------- MODULE SessionsProofs ---------------------------
(* Theorems about Sessions, for every value of its constants.              *)
EXTENDS Sessions, TLAPS

USE SessionsAssumption

-----------------------------------------------------------------------------
(* Facts about the operators the actions are built from.                   *)

LEMMA RowOfStored ==
    ASSUME TypeOK, NEW s \in SessionIds, Stored(s)
    PROVE  sessions[s] \in SessionRow
BY DEF TypeOK, Stored

\* The UPDATE of revoke and revokeForUser keeps the table well typed, creates
\* and deletes no row, and changes nothing of a row but its revokedAt.
LEMMA RevokeRowsFacts ==
    ASSUME TypeOK, NEW rows, RevokeRows(rows)
    PROVE  /\ sessions' \in [SessionIds -> SessionRow \union {None}]
           /\ \A s \in SessionIds :
                /\ Stored(s)' <=> Stored(s)
                /\ Stored(s) => /\ sessions'[s].user = sessions[s].user
                                /\ sessions'[s].gen = sessions[s].gen
                                /\ sessions'[s].born = sessions[s].born
                                /\ sessions'[s].expiresAt = sessions[s].expiresAt
                /\ (Stored(s) /\ s \in rows) => Revoked(s)'
                /\ (s \notin rows \/ ~ Unrevoked(s)) => sessions'[s] = sessions[s]
<1> SUFFICES ASSUME NEW s \in SessionIds
             PROVE  /\ sessions'[s] \in SessionRow \union {None}
                    /\ Stored(s)' <=> Stored(s)
                    /\ Stored(s) => /\ sessions'[s].user = sessions[s].user
                                    /\ sessions'[s].gen = sessions[s].gen
                                    /\ sessions'[s].born = sessions[s].born
                                    /\ sessions'[s].expiresAt = sessions[s].expiresAt
                    /\ (Stored(s) /\ s \in rows) => Revoked(s)'
                    /\ (s \notin rows \/ ~ Unrevoked(s)) => sessions'[s] = sessions[s]
  BY DEF RevokeRows
<1>1. CASE s \in rows /\ Unrevoked(s)
  <2>1. sessions[s] \in SessionRow
    BY <1>1, RowOfStored DEF Unrevoked
  <2>2. sessions'[s] = [sessions[s] EXCEPT !.revokedAt = now]
    BY <1>1 DEF RevokeRows
  <2>3. now \in Nat
    BY DEF TypeOK
  <2>4. sessions'[s] \in SessionRow
    BY <2>1, <2>2, <2>3 DEF SessionRow
  <2> QED
    BY <1>1, <2>1, <2>2, <2>3, <2>4 DEF Stored, Revoked, Unrevoked, SessionRow
<1>2. CASE ~ (s \in rows /\ Unrevoked(s))
  <2>1. sessions'[s] = sessions[s]
    BY <1>2 DEF RevokeRows
  <2> QED
    BY <1>2, <2>1 DEF Stored, Revoked, Unrevoked, TypeOK
<1> QED
  BY <1>1, <1>2

LEMMA BecomeFacts ==
    ASSUME TypeOK, NEW h \in Handlers, NEW state \in HandlerState,
           Become(h, state)
    PROVE  /\ handler' \in [Handlers -> HandlerState]
           /\ handler'[h] = state
           /\ \A g \in Handlers \ {h} : handler'[g] = handler[g]
BY DEF TypeOK, Become

LEMMA IdleTyped == Idle \in HandlerState
BY DEF Idle, HandlerState, PCs

\* A step of one handler keeps the wiring of all, if it keeps the rows and
\* takes no session that another login holds.
LEMMA WiringStep ==
    ASSUME TypeOK, Wiring, NEW h \in Handlers, NEW state \in HandlerState,
           Become(h, state),
           \A s \in SessionIds :
               Stored(s) => Stored(s)' /\ sessions'[s].user = sessions[s].user,
           \A s \in SessionIds :
               Stored(s)' => \/ Stored(s)
                             \/ handler[h].pc \in LoginPCs /\ s = handler[h].session,
           \A s \in held' : Stored(s)',
           \A g \in Handlers \ {h} :
               /\ handler[g].pc \in LoginPCs => state.session # handler[g].session
               /\ state.pc \in LoginPCs => state.session # handler[g].session,
           HandlerIsWired(h)'
    PROVE  Wiring'
<1>1. ASSUME NEW g \in Handlers \ {h}
      PROVE  HandlerIsWired(g)'
  <2>1. handler'[g] = handler[g] /\ HandlerIsWired(g)
    BY BecomeFacts DEF Wiring
  <2>2. handler[g].session \in SessionIds \union {None}
    BY DEF TypeOK, HandlerState
  <2>3. handler[g].pc \in LoginPCs => ~ Stored(handler[g].session)'
    BY <2>1, <2>2 DEF HandlerIsWired, Wiring
  <2> QED
    BY <2>1, <2>2, <2>3 DEF HandlerIsWired
<1>2. ASSUME NEW f \in Handlers, NEW g \in Handlers, f # g,
             handler'[f].pc \in LoginPCs
      PROVE  handler'[g].session # handler'[f].session
  <2>1. CASE f = h
    BY <1>2, <2>1, BecomeFacts
  <2>2. CASE g = h
    BY <1>2, <2>2, BecomeFacts
  <2>3. CASE f # h /\ g # h
    BY <1>2, <2>3, BecomeFacts DEF Wiring
  <2> QED
    BY <2>1, <2>2, <2>3
<1> QED
  BY <1>1, <1>2 DEF Wiring

-----------------------------------------------------------------------------
(* Type correctness and wiring.                                            *)

TypeInv == TypeOK /\ Wiring

LEMMA InitTyped == Init => TypeInv
<1> SUFFICES ASSUME Init PROVE TypeInv
  OBVIOUS
<1>1. TypeOK
  BY IdleTyped DEF Init, TypeOK, Statuses
<1>2. Wiring
  BY DEF Init, Wiring, HandlerIsWired, LoginPCs, SessionPCs, Idle
<1> QED
  BY <1>1, <1>2 DEF TypeInv

LEMMA ExpiriesTyped ==
    ASSUME TypeOK
    PROVE  now + SessionTTL \in Nat /\ now + AccessTTL \in Nat
BY DEF TypeOK

\* A handler that is not logging in may keep its session, drop it, or take one
\* that is stored, without meeting the session of a login.
LEMMA Unshared ==
    ASSUME TypeInv, NEW h \in Handlers, NEW state,
           state.pc \notin LoginPCs,
           \/ state.session = None
           \/ state.session = handler[h].session
           \/ state.session \in SessionIds /\ Stored(state.session)
    PROVE  \A g \in Handlers \ {h} :
               /\ handler[g].pc \in LoginPCs => state.session # handler[g].session
               /\ state.pc \in LoginPCs => state.session # handler[g].session
<1> SUFFICES ASSUME NEW g \in Handlers \ {h}, handler[g].pc \in LoginPCs
             PROVE  state.session # handler[g].session
  OBVIOUS
<1>1. handler[g].session \in SessionIds /\ ~ Stored(handler[g].session)
  BY DEF TypeInv, Wiring, HandlerIsWired
<1>2. handler[h].session # handler[g].session
  BY DEF TypeInv, Wiring
<1> QED
  BY <1>1, <1>2

\* A step that changes nothing but its handler's own state.
LEMMA LocalStep ==
    ASSUME TypeInv, NEW h \in Handlers, NEW state \in HandlerState,
           Become(h, state),
           UNCHANGED <<now, dbVars, clientVars, missed>>,
           \A g \in Handlers \ {h} :
               /\ handler[g].pc \in LoginPCs => state.session # handler[g].session
               /\ state.pc \in LoginPCs => state.session # handler[g].session,
           HandlerIsWired(h)'
    PROVE  TypeInv'
<1>1. TypeOK'
  BY BecomeFacts DEF TypeInv, TypeOK, dbVars, clientVars
<1>2. Wiring'
  BY WiringStep DEF TypeInv, Wiring, Stored, dbVars, clientVars
<1> QED
  BY <1>1, <1>2 DEF TypeInv

LEMMA LoginFindTyped ==
    ASSUME TypeInv, NEW h \in Handlers, NEW u \in Users, NEW s \in SessionIds,
           LoginFind(h, u, s)
    PROVE  TypeInv'
<1>1. /\ UNCHANGED <<now, dbVars, clientVars, missed>>
      /\ handler[h].pc = "idle" /\ ~ Stored(s)
      /\ \A g \in Handlers : handler[g].session # s
  BY DEF LoginFind
<1>2. ~ Stored(s)'
  BY <1>1 DEF Stored, dbVars
<1>3. users[u].role \in Roles /\ users[u].gen \in Nat
  BY DEF TypeInv, TypeOK
<1>4. CASE users[u].status = "active"
  <2> DEFINE found == [Idle EXCEPT !.pc = "loginVerify", !.user = u,
                                   !.session = s, !.role = users[u].role,
                                   !.gen = users[u].gen]
  <2>1. found \in HandlerState
    BY <1>3 DEF Idle, HandlerState, PCs
  <2>2. Become(h, found)
    BY <1>4 DEF LoginFind
  <2>3. handler'[h] = found
    BY <2>1, <2>2, BecomeFacts DEF TypeInv
  <2>4. HandlerIsWired(h)'
    BY <1>2, <1>3, <2>3 DEF HandlerIsWired, LoginPCs, SessionPCs, Idle
  <2>5. \A g \in Handlers \ {h} : found.session # handler[g].session
    BY <1>1 DEF Idle
  <2> QED
    BY <1>1, <2>1, <2>2, <2>4, <2>5, LocalStep
<1>5. CASE users[u].status # "active"
  <2> DEFINE refused == [Idle EXCEPT !.pc = "audit", !.user = u,
                                     !.action = "denied"]
  <2>1. refused \in HandlerState
    BY DEF Idle, HandlerState, PCs, AuditActions
  <2>2. Become(h, refused)
    BY <1>5 DEF LoginFind
  <2>3. handler'[h] = refused
    BY <2>1, <2>2, BecomeFacts DEF TypeInv
  <2>4. HandlerIsWired(h)'
    BY <2>3 DEF HandlerIsWired, LoginPCs, SessionPCs, Idle
  <2>5. refused.pc \notin LoginPCs /\ refused.session = None
    BY DEF Idle, LoginPCs
  <2> QED
    BY <1>1, <2>1, <2>2, <2>4, <2>5, LocalStep, Unshared
<1> QED
  BY <1>4, <1>5

LEMMA LoginVerifyTyped ==
    ASSUME TypeInv, NEW h \in Handlers, LoginVerify(h)
    PROVE  TypeInv'
<1>0. UNCHANGED <<now, dbVars, clientVars, missed>> /\ handler[h].pc = "loginVerify"
  BY DEF LoginVerify
<1>1. /\ UNCHANGED <<now, dbVars, clientVars, missed>>
      /\ handler[h] \in HandlerState /\ handler[h].pc \in LoginPCs
      /\ now + SessionTTL \in Nat
  <2>1. handler[h] \in HandlerState
    BY DEF TypeInv, TypeOK
  <2>2. now + SessionTTL \in Nat
    BY ExpiriesTyped DEF TypeInv
  <2> QED
    BY <1>0, <2>1, <2>2 DEF LoginPCs
<1>2. /\ handler[h].user \in Users /\ handler[h].role \in Roles
      /\ handler[h].session \in SessionIds
      /\ sessions'[handler[h].session] = None
  BY <1>1 DEF TypeInv, Wiring, HandlerIsWired, Stored, dbVars
<1> DEFINE verified == [handler[h] EXCEPT !.pc = "loginInsert",
                                          !.exp = now + SessionTTL]
           refused == [Idle EXCEPT !.pc = "audit", !.user = handler[h].user,
                                   !.action = "denied"]
<1>3. CASE Become(h, verified)
  <2>1. verified \in HandlerState
    BY <1>1 DEF HandlerState, PCs
  <2>2. handler'[h] = verified
    BY <1>3, <2>1, BecomeFacts DEF TypeInv
  <2>3. HandlerIsWired(h)'
    BY <1>1, <1>2, <2>2
       DEF HandlerIsWired, LoginPCs, SessionPCs, HandlerState, Stored
  <2>4. \A g \in Handlers \ {h} : verified.session # handler[g].session
    BY <1>1 DEF TypeInv, Wiring, HandlerState
  <2> QED
    BY <1>1, <1>3, <2>1, <2>3, <2>4, LocalStep
<1>4. CASE Become(h, refused)
  <2>1. refused \in HandlerState
    BY <1>2 DEF Idle, HandlerState, PCs, AuditActions
  <2>2. handler'[h] = refused
    BY <1>4, <2>1, BecomeFacts DEF TypeInv
  <2>3. HandlerIsWired(h)'
    BY <1>2, <2>2 DEF HandlerIsWired, LoginPCs, SessionPCs, Idle
  <2>4. refused.pc \notin LoginPCs /\ refused.session = None
    BY DEF Idle, LoginPCs
  <2> QED
    BY <1>1, <1>4, <2>1, <2>3, <2>4, LocalStep, Unshared
<1> QED
  BY <1>3, <1>4 DEF LoginVerify

LEMMA LoginInsertTyped ==
    ASSUME TypeInv, NEW h \in Handlers, LoginInsert(h)
    PROVE  TypeInv'
<1> DEFINE l == handler[h]
           inserted == [Idle EXCEPT !.pc = "audit", !.action = "login",
                                    !.user = l.user, !.session = l.session,
                                    !.exp = now + AccessTTL]
           row == [user |-> l.user, role |-> l.role, expiresAt |-> l.exp,
                   revokedAt |-> None, gen |-> l.gen,
                   born |-> users[l.user].gen]
<1>1. /\ l.pc = "loginInsert" /\ Become(h, inserted)
      /\ sessions' = [sessions EXCEPT ![l.session] = row]
      /\ UNCHANGED <<now, users, audit, clientVars, missed>>
  BY DEF LoginInsert
<1>2. /\ l \in HandlerState /\ l.pc \in LoginPCs
      /\ l.user \in Users /\ l.role \in Roles
      /\ l.session \in SessionIds /\ ~ Stored(l.session)
  BY <1>1 DEF TypeInv, TypeOK, LoginPCs, Wiring, HandlerIsWired
<1>3. inserted \in HandlerState
  BY <1>2, ExpiriesTyped DEF Idle, HandlerState, PCs, AuditActions, TypeInv
<1>4. row \in SessionRow
  BY <1>2 DEF SessionRow, HandlerState, TypeInv, TypeOK
<1>5. /\ sessions' \in [SessionIds -> SessionRow \union {None}]
      /\ sessions'[l.session] = row /\ row # None
      /\ \A s \in SessionIds \ {l.session} : sessions'[s] = sessions[s]
  BY <1>1, <1>2, <1>4 DEF TypeInv, TypeOK
<1>6. handler'[h] = inserted
  BY <1>1, <1>3, BecomeFacts DEF TypeInv
<1>7. TypeOK'
  BY <1>1, <1>3, <1>5, BecomeFacts DEF TypeInv, TypeOK, clientVars
<1>8. HandlerIsWired(h)'
  BY <1>2, <1>5, <1>6 DEF HandlerIsWired, LoginPCs, SessionPCs, Idle, Stored
<1>9. inserted.pc \notin LoginPCs /\ inserted.session = l.session
  BY DEF Idle, LoginPCs
<1>10. \A s \in held' : Stored(s)'
  BY <1>1, <1>5 DEF TypeInv, TypeOK, Wiring, Stored, clientVars
<1>11. \A s \in SessionIds :
          /\ Stored(s) => Stored(s)' /\ sessions'[s].user = sessions[s].user
          /\ Stored(s)' => Stored(s) \/ s = l.session
  BY <1>2, <1>5 DEF Stored
<1>12. \A g \in Handlers \ {h} :
          /\ handler[g].pc \in LoginPCs => inserted.session # handler[g].session
          /\ inserted.pc \in LoginPCs => inserted.session # handler[g].session
  BY <1>9, Unshared
<1>13. Wiring'
  BY <1>1, <1>2, <1>3, <1>8, <1>10, <1>11, <1>12, WiringStep DEF TypeInv
<1> QED
  BY <1>7, <1>13 DEF TypeInv

\* A step of a handler that inserts no session: it may update rows.
LEMMA UpdateStep ==
    ASSUME TypeInv, NEW h \in Handlers, NEW state \in HandlerState,
           Become(h, state),
           UNCHANGED <<now, audit, clientVars>>,
           users' \in [Users -> [status : Statuses, role : Roles, gen : Nat]],
           sessions' \in [SessionIds -> SessionRow \union {None}],
           missed' \subseteq Users,
           \A s \in SessionIds :
               /\ Stored(s)' <=> Stored(s)
               /\ Stored(s) => sessions'[s].user = sessions[s].user,
           state.pc \notin LoginPCs,
           \/ state.session = None
           \/ state.session = handler[h].session
           \/ state.session \in SessionIds /\ Stored(state.session),
           HandlerIsWired(h)'
    PROVE  TypeInv'
<1>0. now' = now /\ audit' = audit /\ held' = held /\ accessExp' = accessExp
  BY DEF clientVars
<1>1. TypeOK'
  BY <1>0, BecomeFacts DEF TypeInv, TypeOK
<1>2. \A s \in held' : Stored(s)'
  BY <1>0 DEF TypeInv, TypeOK, Wiring
<1>3. Wiring'
  BY <1>2, WiringStep, Unshared DEF TypeInv
<1> QED
  BY <1>1, <1>3 DEF TypeInv

\* A handler that returns, fails or is killed.
LEMMA ReturnStep ==
    ASSUME TypeInv, NEW h \in Handlers, Return(h),
           UNCHANGED <<now, users, audit, clientVars>>,
           sessions' \in [SessionIds -> SessionRow \union {None}],
           missed' \subseteq Users,
           \A s \in SessionIds :
               /\ Stored(s)' <=> Stored(s)
               /\ Stored(s) => sessions'[s].user = sessions[s].user
    PROVE  TypeInv'
<1>1. handler'[h] = Idle
  BY BecomeFacts, IdleTyped DEF TypeInv, Return
<1>2. HandlerIsWired(h)'
  BY <1>1 DEF HandlerIsWired, LoginPCs, SessionPCs, Idle
<1>3. Idle.pc \notin LoginPCs /\ Idle.session = None
  BY DEF Idle, LoginPCs
<1>4. users' \in [Users -> [status : Statuses, role : Roles, gen : Nat]]
  BY DEF TypeInv, TypeOK
<1> QED
  BY <1>2, <1>3, <1>4, IdleTyped, UpdateStep DEF Return

\* A request that has found its session, or goes on with it.
LEMMA SessionStep ==
    ASSUME TypeInv, NEW h \in Handlers, NEW state \in HandlerState,
           Become(h, state),
           UNCHANGED <<now, users, audit, clientVars, missed>>,
           sessions' \in [SessionIds -> SessionRow \union {None}],
           \A s \in SessionIds :
               /\ Stored(s)' <=> Stored(s)
               /\ Stored(s) => sessions'[s].user = sessions[s].user,
           state.session \in SessionIds, Stored(state.session),
           \/ state.pc \in SessionPCs /\ state.user = sessions[state.session].user
           \/ state.pc = "audit" /\ state.action \in {"login", "refresh", "logout"}
    PROVE  TypeInv'
<1>1. handler'[h] = state
  BY BecomeFacts DEF TypeInv
<1>2. state.pc \notin LoginPCs /\ state.pc # "updateRevoke"
  BY DEF LoginPCs, SessionPCs
<1>3. HandlerIsWired(h)'
  BY <1>1, <1>2 DEF HandlerIsWired, SessionPCs
<1>4. users' \in [Users -> [status : Statuses, role : Roles, gen : Nat]]
  BY DEF TypeInv, TypeOK
<1>5. missed' \subseteq Users
  BY DEF TypeInv, TypeOK
<1> QED
  BY <1>2, <1>3, <1>4, <1>5, UpdateStep

\* What a handler that holds a stored session knows.
LEMMA HoldsSession ==
    ASSUME TypeInv, NEW h \in Handlers, handler[h].pc \in SessionPCs
    PROVE  /\ handler[h] \in HandlerState
           /\ handler[h].session \in SessionIds
           /\ Stored(handler[h].session)
           /\ sessions[handler[h].session] \in SessionRow
           /\ handler[h].user = sessions[handler[h].session].user
           /\ handler[h].user \in Users
<1>1. /\ handler[h] \in HandlerState
      /\ handler[h].session \in SessionIds
      /\ Stored(handler[h].session)
      /\ handler[h].user = sessions[handler[h].session].user
  BY DEF TypeInv, TypeOK, Wiring, HandlerIsWired
<1>2. sessions[handler[h].session] \in SessionRow
  BY <1>1, RowOfStored DEF TypeInv
<1> QED
  BY <1>1, <1>2 DEF SessionRow

LEMMA TableUnchanged ==
    ASSUME TypeInv, sessions' = sessions
    PROVE  /\ sessions' \in [SessionIds -> SessionRow \union {None}]
           /\ \A s \in SessionIds :
                /\ Stored(s)' <=> Stored(s)
                /\ Stored(s) => sessions'[s].user = sessions[s].user
BY DEF TypeInv, TypeOK, Stored

LEMMA FindTyped ==
    ASSUME TypeInv, NEW h \in Handlers, NEW s \in SessionIds,
           RefreshFind(h, s) \/ LogoutFind(h, s) \/ RequestArrives(h, s)
    PROVE  TypeInv'
<1>1. UNCHANGED <<now, dbVars, clientVars, missed>> /\ s \in held
  BY DEF RefreshFind, LogoutFind, RequestArrives
<1>2. /\ Stored(s) /\ sessions[s] \in SessionRow
      /\ sessions' = sessions /\ UNCHANGED <<users, audit>>
  BY <1>1, RowOfStored DEF TypeInv, Wiring, dbVars
<1>3. sessions[s].user \in Users /\ users[sessions[s].user].gen \in Nat
  BY <1>2 DEF SessionRow, TypeInv, TypeOK
<1>4. accessExp[s] \in Nat /\ Revoked(s) \in BOOLEAN
  BY DEF TypeInv, TypeOK, Revoked
<1> DEFINE found(pc) == [Idle EXCEPT !.pc = pc, !.session = s,
                                     !.user = sessions[s].user]
           arrived == [Idle EXCEPT !.pc = "guardSession", !.session = s,
                                   !.user = sessions[s].user,
                                   !.exp = accessExp[s],
                                   !.gen = users[sessions[s].user].gen,
                                   !.revokedBefore = Revoked(s)]
<1>5. CASE RequestArrives(h, s)
  <2>1. /\ arrived \in HandlerState /\ arrived.pc \in SessionPCs
        /\ arrived.session = s /\ arrived.user = sessions[s].user
    BY <1>3, <1>4 DEF Idle, HandlerState, PCs, SessionPCs
  <2>2. Become(h, arrived)
    BY <1>5 DEF RequestArrives
  <2> QED
    BY <1>1, <1>2, <2>1, <2>2, SessionStep, TableUnchanged
<1>6. CASE RefreshFind(h, s) \/ LogoutFind(h, s)
  <2>1. PICK pc \in {"refreshUser", "logoutRevoke"} : Become(h, found(pc))
    BY <1>6 DEF RefreshFind, LogoutFind
  <2>2. /\ found(pc) \in HandlerState /\ found(pc).pc \in SessionPCs
        /\ found(pc).session = s /\ found(pc).user = sessions[s].user
    BY <1>3 DEF Idle, HandlerState, PCs, SessionPCs
  <2> QED
    BY <1>1, <1>2, <2>1, <2>2, SessionStep, TableUnchanged
<1> QED
  BY <1>5, <1>6

LEMMA RefreshTyped ==
    ASSUME TypeInv, NEW h \in Handlers,
           RefreshUser(h) \/ RefreshRevoke(h) \/ RefreshExtend(h)
    PROVE  TypeInv'
<1> DEFINE l == handler[h]
<1>1. l.pc \in SessionPCs
  BY DEF RefreshUser, RefreshRevoke, RefreshExtend, SessionPCs
<1>2. /\ l \in HandlerState /\ l.session \in SessionIds /\ Stored(l.session)
      /\ sessions[l.session] \in SessionRow
      /\ l.user = sessions[l.session].user
  BY <1>1, HoldsSession
<1>3. now + SessionTTL \in Nat
  BY ExpiriesTyped DEF TypeInv
<1>4. CASE RefreshUser(h)
  <2> DEFINE active == [l EXCEPT !.pc = "refreshExtend",
                                 !.exp = now + SessionTTL]
             inactive == [l EXCEPT !.pc = "refreshRevoke"]
  <2>1. /\ active \in HandlerState /\ active.pc \in SessionPCs
        /\ active.session = l.session /\ active.user = l.user
    BY <1>2, <1>3 DEF HandlerState, PCs, SessionPCs
  <2>2. /\ inactive \in HandlerState /\ inactive.pc \in SessionPCs
        /\ inactive.session = l.session /\ inactive.user = l.user
    BY <1>2 DEF HandlerState, PCs, SessionPCs
  <2>3. UNCHANGED <<now, users, audit, clientVars, missed>> /\ sessions' = sessions
    BY <1>4 DEF RefreshUser, dbVars
  <2>4. Become(h, active) \/ Become(h, inactive)
    BY <1>4 DEF RefreshUser
  <2>5. CASE Become(h, active)
    BY <1>2, <2>1, <2>3, <2>5, SessionStep, TableUnchanged
  <2>6. CASE Become(h, inactive)
    BY <1>2, <2>2, <2>3, <2>6, SessionStep, TableUnchanged
  <2> QED
    BY <2>4, <2>5, <2>6
<1>5. CASE RefreshRevoke(h)
  <2>1. /\ RevokeRows({l.session}) /\ Return(h)
        /\ UNCHANGED <<now, users, audit, clientVars>> /\ missed' = missed
    BY <1>5 DEF RefreshRevoke
  <2>2. missed' \subseteq Users
    BY <2>1 DEF TypeInv, TypeOK
  <2> QED
    BY <2>1, <2>2, RevokeRowsFacts, ReturnStep DEF TypeInv
<1>6. CASE RefreshExtend(h)
  <2> DEFINE extended == [l EXCEPT !.pc = "audit", !.action = "refresh"]
             row == [sessions[l.session] EXCEPT !.expiresAt = l.exp]
  <2>1. /\ Become(h, extended)
        /\ sessions' = [sessions EXCEPT ![l.session] = row]
        /\ UNCHANGED <<now, users, audit, clientVars, missed>>
    BY <1>6 DEF RefreshExtend
  <2>2. row \in SessionRow /\ row.user = sessions[l.session].user
    BY <1>2 DEF SessionRow, HandlerState
  <2>3. /\ sessions' \in [SessionIds -> SessionRow \union {None}]
        /\ \A s \in SessionIds :
             /\ Stored(s)' <=> Stored(s)
             /\ Stored(s) => sessions'[s].user = sessions[s].user
    BY <1>2, <2>1, <2>2 DEF TypeInv, TypeOK, Stored
  <2>4. /\ extended \in HandlerState /\ extended.session = l.session
        /\ extended.pc = "audit" /\ extended.action = "refresh"
    BY <1>2 DEF HandlerState, PCs, AuditActions
  <2> QED
    BY <1>2, <2>1, <2>3, <2>4, SessionStep
<1> QED
  BY <1>4, <1>5, <1>6

LEMMA LogoutTyped ==
    ASSUME TypeInv, NEW h \in Handlers, LogoutRevoke(h)
    PROVE  TypeInv'
<1> DEFINE l == handler[h]
           revoked == [l EXCEPT !.pc = "audit", !.action = "logout"]
<1>1. /\ RevokeRows({l.session}) /\ Become(h, revoked)
      /\ UNCHANGED <<now, users, audit, clientVars, missed>>
      /\ l.pc \in SessionPCs
  BY DEF LogoutRevoke, SessionPCs
<1>2. l \in HandlerState /\ l.session \in SessionIds /\ Stored(l.session)
  BY <1>1, HoldsSession
<1>3. /\ revoked \in HandlerState /\ revoked.session = l.session
      /\ revoked.pc = "audit" /\ revoked.action = "logout"
  BY <1>2 DEF HandlerState, PCs, AuditActions
<1> QED
  BY <1>1, <1>2, <1>3, RevokeRowsFacts, SessionStep DEF TypeInv

LEMMA UpdateUserTyped ==
    ASSUME TypeInv, NEW h \in Handlers, NEW u \in Users,
           NEW status \in Statuses, NEW role \in Roles, NEW security \in BOOLEAN,
           UpdateUser(h, u, status, role, security)
    PROVE  TypeInv'
<1> DEFINE record == [status |-> status, role |-> role,
                      gen |-> IF security THEN users[u].gen + 1 ELSE users[u].gen]
           next == [Idle EXCEPT
                      !.pc = IF security THEN "updateRevoke" ELSE "audit",
                      !.user = u, !.action = "user"]
<1>1. /\ users' = [users EXCEPT ![u] = record]
      /\ Become(h, next)
      /\ UNCHANGED <<now, audit, clientVars>>
      /\ sessions' = sessions /\ missed' = missed
  BY DEF UpdateUser
<1>2. record \in [status : Statuses, role : Roles, gen : Nat]
  BY DEF TypeInv, TypeOK
<1>3. users' \in [Users -> [status : Statuses, role : Roles, gen : Nat]]
  BY <1>1, <1>2 DEF TypeInv, TypeOK
<1>4. /\ next \in HandlerState /\ next.session = None /\ next.user = u
      /\ next.pc \in {"updateRevoke", "audit"} /\ next.action = "user"
  BY DEF Idle, HandlerState, PCs, AuditActions
<1>5. handler'[h] = next
  BY <1>1, <1>4, BecomeFacts DEF TypeInv
<1>6. HandlerIsWired(h)'
  BY <1>4, <1>5 DEF HandlerIsWired, LoginPCs, SessionPCs
<1>7. missed' \subseteq Users
  BY <1>1 DEF TypeInv, TypeOK
<1>8. next.pc \notin LoginPCs
  BY <1>4 DEF LoginPCs
<1> QED
  BY <1>1, <1>3, <1>4, <1>6, <1>7, <1>8, TableUnchanged, UpdateStep

LEMMA UpdateRevokeTyped ==
    ASSUME TypeInv, NEW h \in Handlers, UpdateRevoke(h)
    PROVE  TypeInv'
<1> DEFINE l == handler[h]
           revoked == [l EXCEPT !.pc = "audit"]
           rows == {s \in SessionIds : Stored(s) /\ sessions[s].user = l.user}
<1>1. /\ l.pc = "updateRevoke" /\ RevokeRows(rows) /\ Become(h, revoked)
      /\ UNCHANGED <<now, users, audit, clientVars>>
      /\ missed' \subseteq missed
  BY DEF UpdateRevoke
<1>2. /\ l \in HandlerState /\ l.user \in Users
      /\ l.session = None /\ l.action = "user"
  BY <1>1 DEF TypeInv, TypeOK, Wiring, HandlerIsWired
<1>3. /\ revoked \in HandlerState /\ revoked.session = None
      /\ revoked.pc = "audit" /\ revoked.action = "user" /\ revoked.user = l.user
  BY <1>2 DEF HandlerState, PCs
<1>4. handler'[h] = revoked
  BY <1>1, <1>3, BecomeFacts DEF TypeInv
<1>5. HandlerIsWired(h)'
  BY <1>2, <1>3, <1>4 DEF HandlerIsWired, LoginPCs, SessionPCs
<1>6. revoked.pc \notin LoginPCs
  BY <1>3 DEF LoginPCs
<1>7. /\ users' \in [Users -> [status : Statuses, role : Roles, gen : Nat]]
      /\ missed' \subseteq Users
  BY <1>1 DEF TypeInv, TypeOK
<1> QED
  BY <1>1, <1>3, <1>5, <1>6, <1>7, RevokeRowsFacts, UpdateStep DEF TypeInv

LEMMA AuditTyped ==
    ASSUME TypeInv, NEW h \in Handlers, AuditAndRespond(h)
    PROVE  TypeInv'
<1> DEFINE l == handler[h]
<1>1. /\ l.pc = "audit" /\ AuditInsert(l.action, Subject(l)) /\ Return(h)
      /\ now' = now /\ users' = users /\ sessions' = sessions /\ missed' = missed
  BY DEF AuditAndRespond
<1>2. /\ l \in HandlerState
      /\ \/ /\ l.action \in {"login", "refresh", "logout"}
            /\ l.session \in SessionIds /\ Stored(l.session)
         \/ /\ l.action \in {"denied", "user"}
            /\ l.user \in Users /\ l.session = None
  BY <1>1 DEF TypeInv, TypeOK, Wiring, HandlerIsWired
<1>3. Subject(l) \in Users \union SessionIds
  BY <1>2 DEF Subject
<1>4. audit' \subseteq AuditActions \X (Users \union SessionIds)
  BY <1>1, <1>2, <1>3 DEF AuditInsert, AuditActions, TypeInv, TypeOK
<1>5. now + AccessTTL \in Nat
  BY ExpiriesTyped DEF TypeInv
<1>6. /\ held' \subseteq SessionIds
      /\ accessExp' \in [SessionIds -> Nat]
      /\ \A s \in held' : Stored(s)
  <2>1. ASSUME NEW exp \in Nat, Receive(l.session, exp),
               l.action \in {"login", "refresh"}
        PROVE  /\ held' \subseteq SessionIds
               /\ accessExp' \in [SessionIds -> Nat]
               /\ \A s \in held' : Stored(s)
    BY <1>2, <2>1 DEF Receive, TypeInv, TypeOK, Wiring
  <2>2. CASE UNCHANGED clientVars
    BY <2>2 DEF clientVars, TypeInv, TypeOK, Wiring
  <2>3. l.exp \in Nat
    BY <1>2 DEF HandlerState
  <2> QED
    BY <1>5, <2>1, <2>2, <2>3 DEF AuditAndRespond
<1>7. handler'[h] = Idle
  BY <1>1, BecomeFacts, IdleTyped DEF TypeInv, Return
<1>8. TypeOK'
  BY <1>1, <1>4, <1>6, BecomeFacts, IdleTyped DEF TypeInv, TypeOK, Return
<1>9. HandlerIsWired(h)'
  BY <1>7 DEF HandlerIsWired, LoginPCs, SessionPCs, Idle
<1>10. Idle.pc \notin LoginPCs /\ Idle.session = None
  BY DEF Idle, LoginPCs
<1>11. \A s \in held' : Stored(s)'
  BY <1>1, <1>6 DEF Stored
<1>12. \A g \in Handlers \ {h} :
          /\ handler[g].pc \in LoginPCs => Idle.session # handler[g].session
          /\ Idle.pc \in LoginPCs => Idle.session # handler[g].session
  BY <1>10, Unshared
<1>13. Wiring'
  BY <1>1, <1>9, <1>11, <1>12, IdleTyped, TableUnchanged, WiringStep
     DEF TypeInv, Return
<1> QED
  BY <1>8, <1>13 DEF TypeInv

LEMMA GuardTyped ==
    ASSUME TypeInv, NEW h \in Handlers,
           GuardSession(h) \/ GuardUser(h) \/ Served(h)
    PROVE  TypeInv'
<1> DEFINE l == handler[h]
           passed == [l EXCEPT !.pc = "guardUser"]
           admitted == [l EXCEPT !.pc = "serving", !.role = users[l.user].role]
<1>1. /\ UNCHANGED <<now, users, audit, clientVars, missed>> /\ sessions' = sessions
      /\ l.pc \in SessionPCs
  BY DEF GuardSession, GuardUser, Served, dbVars, SessionPCs
<1>2. /\ l \in HandlerState /\ l.session \in SessionIds /\ Stored(l.session)
      /\ l.user = sessions[l.session].user /\ l.user \in Users
  BY <1>1, HoldsSession
<1>3. users[l.user].role \in Roles
  BY <1>2 DEF TypeInv, TypeOK
<1>4. CASE Become(h, passed)
  <2>1. /\ passed \in HandlerState /\ passed.pc \in SessionPCs
        /\ passed.session = l.session /\ passed.user = l.user
    BY <1>2 DEF HandlerState, PCs, SessionPCs
  <2> QED
    BY <1>1, <1>2, <1>4, <2>1, SessionStep, TableUnchanged
<1>5. CASE Become(h, admitted)
  <2>1. /\ admitted \in HandlerState /\ admitted.pc \in SessionPCs
        /\ admitted.session = l.session /\ admitted.user = l.user
    BY <1>2, <1>3 DEF HandlerState, PCs, SessionPCs
  <2> QED
    BY <1>1, <1>2, <1>5, <2>1, SessionStep, TableUnchanged
<1>6. CASE Return(h)
  <2>1. UNCHANGED <<now, users, audit, clientVars>> /\ missed' \subseteq Users
    BY <1>1 DEF TypeInv, TypeOK
  <2> QED
    BY <1>1, <1>6, <2>1, ReturnStep, TableUnchanged
<1> QED
  BY <1>4, <1>5, <1>6 DEF GuardSession, GuardUser, Served

LEMMA AbortTyped ==
    ASSUME TypeInv, NEW h \in Handlers, Abort(h)
    PROVE  TypeInv'
<1>1. /\ Return(h) /\ UNCHANGED <<now, users, audit, clientVars>>
      /\ sessions' = sessions
  BY DEF Abort, dbVars
<1>2. missed' \subseteq Users
  BY DEF Abort, TypeInv, TypeOK, Wiring, HandlerIsWired
<1> QED
  BY <1>1, <1>2, ReturnStep, TableUnchanged

LEMMA NextTyped == TypeInv /\ [Next]_vars => TypeInv'
<1> SUFFICES ASSUME TypeInv, [Next]_vars PROVE TypeInv'
  OBVIOUS
<1>1. ASSUME NEW h \in Handlers, Begin(h) PROVE TypeInv'
  BY <1>1, LoginFindTyped, FindTyped, UpdateUserTyped DEF Begin
<1>2. ASSUME NEW h \in Handlers, Continue(h) PROVE TypeInv'
  BY <1>2, LoginVerifyTyped, LoginInsertTyped, RefreshTyped, LogoutTyped,
     UpdateRevokeTyped, AuditTyped, GuardTyped DEF Continue
<1>3. ASSUME NEW h \in Handlers, Abort(h) PROVE TypeInv'
  BY <1>3, AbortTyped
<1>4. CASE Tick
  <2>1. /\ now' \in Nat
        /\ UNCHANGED <<users, sessions, audit, held, accessExp, handler, missed>>
    BY <1>4 DEF Tick, TypeInv, TypeOK, dbVars, clientVars
  <2> QED
    BY <2>1 DEF TypeInv, TypeOK, Wiring, HandlerIsWired, Stored
<1>5. CASE UNCHANGED vars
  BY <1>5 DEF vars, TypeInv, TypeOK, Wiring, HandlerIsWired, Stored
<1> QED
  BY <1>1, <1>2, <1>3, <1>4, <1>5 DEF Next

\* Every state of the session subsystem is well typed, and every handler's
\* locals agree with the tables.
THEOREM SessionsTyped == Spec => [](TypeOK /\ Wiring)
<1>1. Init => TypeInv
  BY InitTyped
<1>2. TypeInv /\ [Next]_vars => TypeInv'
  BY NextTyped
<1> QED
  BY <1>1, <1>2, PTL DEF Spec, TypeInv

-----------------------------------------------------------------------------
(* Revocation is final.                                                    *)

\* What no step does to a stored session: delete it, give it to another user,
\* rewrite its history, or touch the time of its revocation.
LEMMA RowsPersist ==
    ASSUME TypeInv, [Next]_vars, NEW s \in SessionIds, Stored(s)
    PROVE  /\ Stored(s)'
           /\ sessions'[s].user = sessions[s].user
           /\ sessions'[s].gen = sessions[s].gen
           /\ sessions'[s].born = sessions[s].born
           /\ Revoked(s) => Revoked(s)' /\ sessions'[s].revokedAt = sessions[s].revokedAt
<1> DEFINE Persists == /\ Stored(s)'
                       /\ sessions'[s].user = sessions[s].user
                       /\ sessions'[s].gen = sessions[s].gen
                       /\ sessions'[s].born = sessions[s].born
                       /\ Revoked(s) =>
                            Revoked(s)' /\ sessions'[s].revokedAt = sessions[s].revokedAt
<1>0. sessions[s] \in SessionRow
  BY RowOfStored DEF TypeInv
<1>1. CASE sessions' = sessions
  BY <1>1 DEF Stored, Revoked
<1>2. ASSUME NEW rows, RevokeRows(rows) PROVE Persists
  <2>1. Revoked(s) => ~ Unrevoked(s)
    BY DEF Revoked, Unrevoked
  <2>2. Revoked(s) => sessions'[s] = sessions[s]
    BY <1>2, <2>1, RevokeRowsFacts DEF TypeInv
  <2> QED
    BY <1>2, <2>2, RevokeRowsFacts DEF TypeInv, Revoked, Stored
<1>3. ASSUME NEW h \in Handlers, LoginInsert(h) PROVE Persists
  <2>1. handler[h].session # s
    BY <1>3 DEF LoginInsert, TypeInv, Wiring, HandlerIsWired, LoginPCs
  <2>2. sessions'[s] = sessions[s]
    BY <1>3, <2>1 DEF LoginInsert, TypeInv, TypeOK
  <2> QED
    BY <2>2 DEF Stored, Revoked
<1>4. ASSUME NEW h \in Handlers, RefreshExtend(h) PROVE Persists
  <2>1. /\ handler[h].session \in SessionIds /\ handler[h].exp \in Nat
        /\ sessions' = [sessions EXCEPT ![handler[h].session].expiresAt = handler[h].exp]
    BY <1>4, HoldsSession DEF RefreshExtend, SessionPCs, HandlerState
  <2>2. sessions'[s] = IF s = handler[h].session
                       THEN [sessions[s] EXCEPT !.expiresAt = handler[h].exp]
                       ELSE sessions[s]
    BY <2>1 DEF TypeInv, TypeOK
  <2>3. /\ sessions'[s] \in SessionRow
        /\ sessions'[s].user = sessions[s].user
        /\ sessions'[s].gen = sessions[s].gen
        /\ sessions'[s].born = sessions[s].born
        /\ sessions'[s].revokedAt = sessions[s].revokedAt
    BY <1>0, <2>1, <2>2 DEF SessionRow
  <2> QED
    BY <2>3 DEF Stored, Revoked
<1>5. ASSUME NEW h \in Handlers, Begin(h) PROVE sessions' = sessions
  BY <1>5 DEF Begin, LoginFind, RefreshFind, LogoutFind, RequestArrives,
              UpdateUser, dbVars
<1>6. ASSUME NEW h \in Handlers, Continue(h) PROVE Persists
  <2>1. CASE LoginVerify(h) \/ RefreshUser(h) \/ AuditAndRespond(h)
               \/ GuardSession(h) \/ GuardUser(h) \/ Served(h)
    BY <1>1, <2>1 DEF LoginVerify, RefreshUser, AuditAndRespond, GuardSession,
                      GuardUser, Served, dbVars
  <2>2. CASE RefreshRevoke(h) \/ LogoutRevoke(h) \/ UpdateRevoke(h)
    BY <1>2, <2>2 DEF RefreshRevoke, LogoutRevoke, UpdateRevoke
  <2> QED
    BY <1>3, <1>4, <1>6, <2>1, <2>2 DEF Continue
<1>7. ASSUME NEW h \in Handlers, Abort(h) PROVE sessions' = sessions
  BY <1>7 DEF Abort, dbVars
<1>8. CASE Tick \/ UNCHANGED vars
  BY <1>1, <1>8 DEF Tick, vars, dbVars
<1> QED
  BY <1>1, <1>5, <1>6, <1>7, <1>8 DEF Next

\* The time of a revocation is never cleared or overwritten, for any number of
\* users, sessions and concurrent handlers.
THEOREM RevocationFinal == Spec => RevocationIsFinal
<1>1. TypeInv /\ [Next]_vars =>
        [\A s \in SessionIds :
            Revoked(s) => /\ sessions'[s] # None
                          /\ sessions'[s].revokedAt = sessions[s].revokedAt]_vars
  BY RowsPersist DEF Revoked, Stored
<1>2. Spec => []TypeInv
  BY SessionsTyped DEF TypeInv
<1> QED
  BY <1>1, <1>2, PTL DEF Spec, RevocationIsFinal

-----------------------------------------------------------------------------
(* No service after revocation.                                            *)

\* A request that came after the revocation of its session gets no further
\* than the guard's first query, because the row is still revoked there.
RevokedRequestsWait ==
    \A h \in Handlers :
        handler[h].revokedBefore =>
            /\ handler[h].pc = "guardSession"
            /\ handler[h].session \in SessionIds
            /\ Revoked(handler[h].session)

LEMMA HandlerFrame ==
    ASSUME TypeInv, NEW h \in Handlers, Begin(h) \/ Continue(h) \/ Abort(h)
    PROVE  \A g \in Handlers \ {h} : handler'[g] = handler[g]
<1>1. ASSUME NEW state, Become(h, state)
      PROVE  \A g \in Handlers \ {h} : handler'[g] = handler[g]
  BY <1>1 DEF Become, TypeInv, TypeOK
<1>2. CASE Begin(h)
  BY <1>1, <1>2 DEF Begin, LoginFind, RefreshFind, LogoutFind, RequestArrives,
                    UpdateUser
<1>3. CASE Continue(h)
  BY <1>1, <1>3 DEF Continue, LoginVerify, LoginInsert, RefreshUser,
       RefreshRevoke, RefreshExtend, LogoutRevoke, UpdateRevoke,
       AuditAndRespond, GuardSession, GuardUser, Served, Return
<1>4. CASE Abort(h)
  BY <1>1, <1>4 DEF Abort, Return
<1> QED
  BY <1>2, <1>3, <1>4

\* Only an arrival sets the flag, and the guard's first query clears it.
LEMMA OwnFlag ==
    ASSUME TypeInv, RevokedRequestsWait, NEW h \in Handlers,
           Begin(h) \/ Continue(h) \/ Abort(h), handler'[h].revokedBefore
    PROVE  /\ handler'[h].pc = "guardSession"
           /\ handler'[h].session \in SessionIds
           /\ Revoked(handler'[h].session)
<1> DEFINE l == handler[h]
<1>0. ASSUME NEW state, Become(h, state) PROVE handler'[h] = state
  BY <1>0 DEF Become, TypeInv, TypeOK
<1>1. l \in HandlerState /\ (l.revokedBefore => l.pc = "guardSession")
  BY DEF TypeInv, TypeOK, RevokedRequestsWait
<1>2. ASSUME NEW u \in Users, NEW s \in SessionIds, LoginFind(h, u, s)
      PROVE  ~ handler'[h].revokedBefore
  BY <1>0, <1>2 DEF LoginFind, Idle
<1>3. ASSUME NEW s \in SessionIds, RefreshFind(h, s) \/ LogoutFind(h, s)
      PROVE  ~ handler'[h].revokedBefore
  BY <1>0, <1>3 DEF RefreshFind, LogoutFind, Idle
<1>4. ASSUME NEW s \in SessionIds, RequestArrives(h, s)
      PROVE  /\ handler'[h].pc = "guardSession" /\ handler'[h].session = s
             /\ handler'[h].revokedBefore = Revoked(s)
  <2> DEFINE flag == Revoked(s)
             arrived(b) == [Idle EXCEPT !.pc = "guardSession", !.session = s,
                                        !.user = sessions[s].user,
                                        !.exp = accessExp[s],
                                        !.gen = users[sessions[s].user].gen,
                                        !.revokedBefore = b]
  <2>1. handler'[h] = arrived(flag)
    BY <1>0, <1>4 DEF RequestArrives
  <2> HIDE DEF flag
  <2>2. /\ handler'[h].pc = "guardSession" /\ handler'[h].session = s
        /\ handler'[h].revokedBefore = flag
    BY <2>1 DEF Idle
  <2> QED
    BY <2>2 DEF flag
<1>5. ASSUME NEW u \in Users, NEW status \in Statuses, NEW role \in Roles,
             NEW security \in BOOLEAN, UpdateUser(h, u, status, role, security)
      PROVE  ~ handler'[h].revokedBefore
  BY <1>0, <1>5 DEF UpdateUser, Idle
<1>6. ASSUME LoginVerify(h) \/ LoginInsert(h) PROVE ~ handler'[h].revokedBefore
  BY <1>0, <1>1, <1>6 DEF LoginVerify, LoginInsert, Idle, HandlerState
<1>7. ASSUME RefreshUser(h) \/ RefreshExtend(h) \/ LogoutRevoke(h) \/ UpdateRevoke(h)
      PROVE  ~ handler'[h].revokedBefore
  BY <1>0, <1>1, <1>7
     DEF RefreshUser, RefreshExtend, LogoutRevoke, UpdateRevoke, HandlerState
<1>8. ASSUME Return(h) PROVE ~ handler'[h].revokedBefore
  BY <1>0, <1>8 DEF Return, Idle
<1>9. ASSUME GuardSession(h) PROVE ~ handler'[h].revokedBefore
  <2>1. CASE l.revokedBefore
    <3>1. Revoked(l.session)
      BY <2>1 DEF RevokedRequestsWait
    <3> QED
      BY <1>8, <1>9, <3>1 DEF GuardSession, Revoked
  <2>2. CASE ~ l.revokedBefore
    BY <1>0, <1>1, <1>8, <1>9, <2>2 DEF GuardSession, HandlerState
  <2> QED
    BY <2>1, <2>2
<1>10. ASSUME GuardUser(h) PROVE ~ handler'[h].revokedBefore
  BY <1>0, <1>1, <1>8, <1>10 DEF GuardUser, HandlerState
<1>11. Continue(h) \/ Abort(h) => ~ handler'[h].revokedBefore
  BY <1>6, <1>7, <1>8, <1>9, <1>10
     DEF Continue, RefreshRevoke, AuditAndRespond, Served, Abort
<1> QED
  BY <1>2, <1>3, <1>4, <1>5, <1>11 DEF Begin

LEMMA RevokedRequestsWaitStep ==
    TypeInv /\ RevokedRequestsWait /\ [Next]_vars => RevokedRequestsWait'
<1> SUFFICES ASSUME TypeInv, RevokedRequestsWait, [Next]_vars,
                    NEW g \in Handlers, handler'[g].revokedBefore
             PROVE  /\ handler'[g].pc = "guardSession"
                    /\ handler'[g].session \in SessionIds
                    /\ Revoked(handler[g].session)'
  BY DEF RevokedRequestsWait, Revoked, Stored
<1>1. /\ handler'[g].pc = "guardSession"
      /\ handler'[g].session \in SessionIds
      /\ Revoked(handler'[g].session)
  <2>1. CASE handler'[g] = handler[g]
    BY <2>1 DEF RevokedRequestsWait
  <2>2. CASE handler'[g] # handler[g]
    <3>1. PICK h \in Handlers : Begin(h) \/ Continue(h) \/ Abort(h)
      BY <2>2 DEF Next, Tick, vars
    <3>2. h = g
      BY <2>2, <3>1, HandlerFrame
    <3> QED
      BY <3>1, <3>2, OwnFlag
  <2> QED
    BY <2>1, <2>2
<1>2. ASSUME NEW s \in SessionIds, Revoked(s) PROVE Revoked(s)'
  BY <1>2, RowsPersist DEF Revoked
<1> QED
  BY <1>1, <1>2 DEF Revoked, Stored

\* A request that arrives after its session was revoked is never served.
THEOREM NoLateService == Spec => []NoServiceAfterRevocation
<1>1. Init => RevokedRequestsWait
  BY DEF Init, RevokedRequestsWait, Idle
<1>2. TypeInv /\ RevokedRequestsWait /\ [Next]_vars => RevokedRequestsWait'
  BY RevokedRequestsWaitStep
<1>3. RevokedRequestsWait => NoServiceAfterRevocation
  BY DEF RevokedRequestsWait, NoServiceAfterRevocation
<1>4. Spec => []TypeInv
  BY SessionsTyped DEF TypeInv
<1> QED
  BY <1>1, <1>2, <1>3, <1>4, PTL DEF Spec

-----------------------------------------------------------------------------
(* Requests are served with current authority.                             *)

GuardPCs == {"guardSession", "guardUser", "serving"}

\* The invariant behind AuthorityIsCurrent: the count of security changes that
\* a request saw on arrival is never ahead of the user's.
AuthorityOf(h) ==
    handler[h].pc \in GuardPCs =>
        /\ handler[h].gen <= users[handler[h].user].gen
        /\ (handler[h].pc = "serving" /\ users[handler[h].user].gen = handler[h].gen) =>
              /\ users[handler[h].user].status = "active"
              /\ handler[h].role = users[handler[h].user].role

AuthorityInv == \A h \in Handlers : AuthorityOf(h)

\* A user's record changes only together with its count of security changes.
LEMMA UsersEvolve ==
    ASSUME TypeInv, [Next]_vars, NEW u \in Users
    PROVE  users'[u] = users[u] \/ users'[u].gen > users[u].gen
<1>1. ASSUME NEW h \in Handlers, NEW v \in Users, NEW status \in Statuses,
             NEW role \in Roles, NEW security \in BOOLEAN,
             UpdateUser(h, v, status, role, security)
      PROVE  users'[u] = users[u] \/ users'[u].gen > users[u].gen
  <2>1. users' = [users EXCEPT ![v] =
                    [status |-> status, role |-> role,
                     gen |-> IF security THEN users[v].gen + 1 ELSE users[v].gen]]
    BY <1>1 DEF UpdateUser
  <2>2. users[v] \in [status : Statuses, role : Roles, gen : Nat]
    BY DEF TypeInv, TypeOK
  <2>3. CASE u = v /\ security
    BY <2>1, <2>2, <2>3 DEF TypeInv, TypeOK
  <2>4. CASE u = v /\ ~ security
    <3>1. status = users[v].status /\ role = users[v].role
      BY <1>1, <2>4 DEF UpdateUser
    <3>2. users'[u] = [status |-> status, role |-> role, gen |-> users[v].gen]
      BY <2>1, <2>4 DEF TypeInv, TypeOK
    <3> QED
      BY <2>2, <2>4, <3>1, <3>2
  <2>5. CASE u # v
    BY <2>1, <2>5 DEF TypeInv, TypeOK
  <2> QED
    BY <2>3, <2>4, <2>5
<1>2. ASSUME NEW h \in Handlers, Begin(h) PROVE users'[u] = users[u] \/ users'[u].gen > users[u].gen
  BY <1>1, <1>2 DEF Begin, LoginFind, RefreshFind, LogoutFind, RequestArrives, dbVars
<1>3. ASSUME NEW h \in Handlers, Continue(h) \/ Abort(h) PROVE users' = users
  BY <1>3 DEF Continue, LoginVerify, LoginInsert, RefreshUser, RefreshRevoke,
       RefreshExtend, LogoutRevoke, UpdateRevoke, AuditAndRespond,
       GuardSession, GuardUser, Served, Abort, dbVars
<1>4. CASE Tick \/ UNCHANGED vars
  BY <1>4 DEF Tick, vars, dbVars
<1> QED
  BY <1>2, <1>3, <1>4 DEF Next

\* The step that moves a request along the guard.
LEMMA OwnAuthority ==
    ASSUME TypeInv, AuthorityInv, NEW h \in Handlers,
           Begin(h) \/ Continue(h) \/ Abort(h),
           handler'[h].pc \in GuardPCs
    PROVE  users' = users /\ AuthorityOf(h)'
<1> DEFINE l == handler[h]
<1>0. ASSUME NEW state, Become(h, state) PROVE handler'[h] = state
  BY <1>0 DEF Become, TypeInv, TypeOK
<1>1. l \in HandlerState
  BY DEF TypeInv, TypeOK
<1>2. ASSUME NEW u \in Users, NEW s \in SessionIds, LoginFind(h, u, s)
      PROVE  FALSE
  BY <1>0, <1>2 DEF LoginFind, Idle, GuardPCs
<1>3. ASSUME NEW s \in SessionIds, RefreshFind(h, s) \/ LogoutFind(h, s)
      PROVE  FALSE
  BY <1>0, <1>3 DEF RefreshFind, LogoutFind, Idle, GuardPCs
<1>4. ASSUME NEW s \in SessionIds, RequestArrives(h, s)
      PROVE  users' = users /\ AuthorityOf(h)'
  <2> DEFINE flag == Revoked(s)
             arrived(b) == [Idle EXCEPT !.pc = "guardSession", !.session = s,
                                        !.user = sessions[s].user,
                                        !.exp = accessExp[s],
                                        !.gen = users[sessions[s].user].gen,
                                        !.revokedBefore = b]
  <2>1. handler'[h] = arrived(flag) /\ users' = users /\ s \in held
    BY <1>0, <1>4 DEF RequestArrives, dbVars
  <2> HIDE DEF flag
  <2>2. /\ handler'[h].pc = "guardSession" /\ handler'[h].user = sessions[s].user
        /\ handler'[h].gen = users[sessions[s].user].gen
    BY <2>1 DEF Idle
  <2>3. sessions[s].user \in Users
    BY <2>1, RowOfStored DEF TypeInv, Wiring, SessionRow
  <2>4. users[sessions[s].user].gen \in Nat
    BY <2>3 DEF TypeInv, TypeOK
  <2> QED
    BY <2>1, <2>2, <2>4 DEF AuthorityOf
<1>5. ASSUME NEW u \in Users, NEW status \in Statuses, NEW role \in Roles,
             NEW security \in BOOLEAN, UpdateUser(h, u, status, role, security)
      PROVE  FALSE
  BY <1>0, <1>5 DEF UpdateUser, Idle, GuardPCs
<1>6. ASSUME LoginVerify(h) \/ LoginInsert(h) PROVE FALSE
  <2>1. ASSUME NEW exp, Become(h, [l EXCEPT !.pc = "loginInsert", !.exp = exp])
        PROVE  FALSE
    <3>1. handler'[h].pc = "loginInsert"
      BY <1>0, <1>1, <2>1 DEF HandlerState
    <3> QED
      BY <3>1 DEF GuardPCs
  <2>2. CASE LoginVerify(h)
    BY <1>0, <2>1, <2>2 DEF LoginVerify, Idle, GuardPCs
  <2>3. CASE LoginInsert(h)
    BY <1>0, <2>3 DEF LoginInsert, Idle, GuardPCs
  <2> QED
    BY <1>6, <2>2, <2>3
<1>7. ASSUME RefreshUser(h) \/ RefreshExtend(h) \/ LogoutRevoke(h) \/ UpdateRevoke(h)
      PROVE  FALSE
  BY <1>0, <1>1, <1>7
     DEF RefreshUser, RefreshExtend, LogoutRevoke, UpdateRevoke, HandlerState, GuardPCs
<1>8. ASSUME Return(h) PROVE FALSE
  BY <1>0, <1>8 DEF Return, Idle, GuardPCs
<1>9. ASSUME GuardSession(h) PROVE users' = users /\ AuthorityOf(h)'
  <2>1. /\ Become(h, [l EXCEPT !.pc = "guardUser"]) /\ users' = users
        /\ l.pc = "guardSession"
    BY <1>8, <1>9 DEF GuardSession, dbVars
  <2>2. /\ handler'[h].pc = "guardUser" /\ handler'[h].user = l.user
        /\ handler'[h].gen = l.gen
    BY <1>0, <1>1, <2>1 DEF HandlerState
  <2> QED
    BY <2>1, <2>2 DEF AuthorityInv, AuthorityOf, GuardPCs
<1>10. ASSUME GuardUser(h) PROVE users' = users /\ AuthorityOf(h)'
  <2>1. /\ Become(h, [l EXCEPT !.pc = "serving", !.role = users[l.user].role])
        /\ users' = users /\ l.pc = "guardUser" /\ users[l.user].status = "active"
    BY <1>8, <1>10 DEF GuardUser, dbVars
  <2>2. /\ handler'[h].pc = "serving" /\ handler'[h].user = l.user
        /\ handler'[h].gen = l.gen /\ handler'[h].role = users[l.user].role
    BY <1>0, <1>1, <2>1 DEF HandlerState
  <2> QED
    BY <2>1, <2>2 DEF AuthorityInv, AuthorityOf, GuardPCs
<1>11. Begin(h) => users' = users /\ AuthorityOf(h)'
  BY <1>2, <1>3, <1>4, <1>5 DEF Begin
<1>12. Continue(h) \/ Abort(h) => users' = users /\ AuthorityOf(h)'
  BY <1>6, <1>7, <1>8, <1>9, <1>10
     DEF Continue, RefreshRevoke, AuditAndRespond, Served, Abort
<1> QED
  BY <1>11, <1>12

LEMMA AuthorityStep == TypeInv /\ AuthorityInv /\ [Next]_vars => AuthorityInv'
<1> SUFFICES ASSUME TypeInv, AuthorityInv, [Next]_vars, NEW g \in Handlers,
                    handler'[g].pc \in GuardPCs
             PROVE  AuthorityOf(g)'
  BY DEF AuthorityInv, AuthorityOf
<1>1. CASE handler'[g] = handler[g]
  <2> DEFINE u == handler[g].user
  <2>1. u \in Users /\ handler[g].gen \in Nat
    BY <1>1, HoldsSession DEF GuardPCs, SessionPCs, HandlerState
  <2>2. users[u].gen \in Nat
    BY <2>1 DEF TypeInv, TypeOK
  <2>3. users'[u] = users[u] \/ users'[u].gen > users[u].gen
    BY <2>1, UsersEvolve
  <2>4. AuthorityOf(g)
    BY DEF AuthorityInv
  <2>5. users'[u].gen \in Nat
    BY <2>1, NextTyped DEF TypeInv, TypeOK
  <2> QED
    BY <1>1, <2>1, <2>2, <2>3, <2>4, <2>5 DEF AuthorityOf
<1>2. CASE handler'[g] # handler[g]
  <2>1. PICK h \in Handlers : Begin(h) \/ Continue(h) \/ Abort(h)
    BY <1>2 DEF Next, Tick, vars
  <2>2. h = g
    BY <1>2, <2>1, HandlerFrame
  <2> QED
    BY <2>1, <2>2, OwnAuthority
<1> QED
  BY <1>1, <1>2

\* A request is served either with the authority its user now has, or while
\* overlapping the change that took it away.
THEOREM AuthorityCurrent == Spec => []AuthorityIsCurrent
<1>1. Init => AuthorityInv
  BY DEF Init, AuthorityInv, AuthorityOf, Idle, GuardPCs
<1>2. TypeInv /\ AuthorityInv /\ [Next]_vars => AuthorityInv'
  BY AuthorityStep
<1>3. AuthorityInv => AuthorityIsCurrent
  BY DEF AuthorityInv, AuthorityOf, AuthorityIsCurrent, GuardPCs
<1>4. Spec => []TypeInv
  BY SessionsTyped DEF TypeInv
<1> QED
  BY <1>1, <1>2, <1>3, <1>4, PTL DEF Spec

-----------------------------------------------------------------------------
(* Which sessions survive a security change.                               *)

LEMMA RowsAreInserted ==
    ASSUME TypeInv, [Next]_vars, NEW s \in SessionIds, ~ Stored(s), Stored(s)'
    PROVE  \E h \in Handlers : LoginInsert(h) /\ handler[h].session = s
<1>1. ASSUME NEW rows, RevokeRows(rows) PROVE FALSE
  BY <1>1, RevokeRowsFacts DEF TypeInv
<1>2. sessions' # sessions
  BY DEF Stored
<1>3. ASSUME NEW h \in Handlers, RefreshExtend(h) PROVE FALSE
  <2>1. /\ Stored(handler[h].session) /\ handler[h].session \in SessionIds
        /\ sessions' = [sessions EXCEPT ![handler[h].session].expiresAt = handler[h].exp]
    BY <1>3, HoldsSession DEF RefreshExtend, SessionPCs
  <2>2. sessions'[s] = sessions[s]
    BY <2>1 DEF TypeInv, TypeOK, Stored
  <2> QED
    BY <2>2 DEF Stored
<1>4. ASSUME NEW h \in Handlers, LoginInsert(h) PROVE handler[h].session = s
  <2>1. CASE handler[h].session # s
    <3>1. sessions'[s] = sessions[s]
      BY <1>4, <2>1 DEF LoginInsert, TypeInv, TypeOK
    <3> QED
      BY <3>1 DEF Stored
  <2> QED
    BY <2>1
<1>5. ASSUME NEW h \in Handlers, Begin(h) \/ Abort(h) PROVE FALSE
  BY <1>2, <1>5 DEF Begin, LoginFind, RefreshFind, LogoutFind, RequestArrives,
                    UpdateUser, Abort, dbVars
<1>6. ASSUME NEW h \in Handlers, Continue(h) PROVE LoginInsert(h)
  <2>1. CASE LoginVerify(h) \/ RefreshUser(h) \/ AuditAndRespond(h)
               \/ GuardSession(h) \/ GuardUser(h) \/ Served(h)
    BY <1>2, <2>1 DEF LoginVerify, RefreshUser, AuditAndRespond, GuardSession,
                      GuardUser, Served, dbVars
  <2>2. CASE RefreshRevoke(h) \/ LogoutRevoke(h) \/ UpdateRevoke(h)
    BY <1>1, <2>2 DEF RefreshRevoke, LogoutRevoke, UpdateRevoke
  <2> QED
    BY <1>3, <1>6, <2>1, <2>2 DEF Continue
<1> QED
  BY <1>2, <1>4, <1>5, <1>6 DEF Next, Tick, vars, dbVars

\* A handler that owes a revocation pays it, or is cut short.
LEMMA DueIsPaidOrMissed ==
    ASSUME TypeInv, [Next]_vars, NEW s \in SessionIds, Stored(s),
           NEW h \in Handlers, handler[h].pc = "updateRevoke",
           handler[h].user = sessions[s].user
    PROVE  \/ handler'[h] = handler[h]
           \/ sessions[s].user \in missed'
           \/ Revoked(s)'
<1>1. CASE Continue(h)
  <2>1. UpdateRevoke(h)
    BY <1>1 DEF Continue, LoginVerify, LoginInsert, RefreshUser, RefreshRevoke,
         RefreshExtend, LogoutRevoke, AuditAndRespond, GuardSession, GuardUser,
         Served
  <2>2. RevokeRows({r \in SessionIds : Stored(r) /\ sessions[r].user = handler[h].user})
    BY <2>1 DEF UpdateRevoke
  <2> QED
    BY <2>2, RevokeRowsFacts DEF TypeInv
<1>2. CASE Abort(h)
  BY <1>2 DEF Abort
<1>3. CASE Begin(h)
  BY <1>3 DEF Begin, LoginFind, RefreshFind, LogoutFind, RequestArrives, UpdateUser
<1>4. ASSUME NEW g \in Handlers \ {h}, Begin(g) \/ Continue(g) \/ Abort(g)
      PROVE  handler'[h] = handler[h]
  BY <1>4, HandlerFrame
<1> QED
  BY <1>1, <1>2, <1>3, <1>4 DEF Next, Tick, vars

\* Only a revocation makes good one that was cut short.
LEMMA MissedUntilRevoked ==
    ASSUME TypeInv, [Next]_vars, NEW s \in SessionIds, Stored(s),
           sessions[s].user \in missed
    PROVE  sessions[s].user \in missed' \/ Revoked(s)'
<1>1. ASSUME NEW h \in Handlers, UpdateRevoke(h)
      PROVE  sessions[s].user \in missed' \/ Revoked(s)'
  <2>1. RevokeRows({r \in SessionIds : Stored(r) /\ sessions[r].user = handler[h].user})
    BY <1>1 DEF UpdateRevoke
  <2>2. CASE handler[h].user = sessions[s].user
    BY <2>1, <2>2, RevokeRowsFacts DEF TypeInv
  <2>3. CASE handler[h].user # sessions[s].user
    BY <1>1, <2>3 DEF UpdateRevoke
  <2> QED
    BY <2>2, <2>3
<1>2. ASSUME NEW h \in Handlers, Abort(h) PROVE missed \subseteq missed'
  BY <1>2 DEF Abort
<1>3. ASSUME NEW h \in Handlers, Begin(h) PROVE missed' = missed
  BY <1>3 DEF Begin, LoginFind, RefreshFind, LogoutFind, RequestArrives, UpdateUser
<1>4. ASSUME NEW h \in Handlers, Continue(h), ~ UpdateRevoke(h)
      PROVE  missed' = missed
  BY <1>4 DEF Continue, LoginVerify, LoginInsert, RefreshUser, RefreshRevoke,
       RefreshExtend, LogoutRevoke, AuditAndRespond, GuardSession, GuardUser,
       Served
<1> QED
  BY <1>1, <1>2, <1>3, <1>4 DEF Next, Tick, vars

\* A change of a user's record leaves a revocation due.
LEMMA ChangeIsDue ==
    ASSUME TypeInv, [Next]_vars, NEW u \in Users, users'[u] # users[u]
    PROVE  \E h \in Handlers : /\ handler'[h].pc = "updateRevoke"
                               /\ handler'[h].user = u
<1>1. ASSUME NEW h \in Handlers, NEW v \in Users, NEW status \in Statuses,
             NEW role \in Roles, NEW security \in BOOLEAN,
             UpdateUser(h, v, status, role, security)
      PROVE  handler'[h].pc = "updateRevoke" /\ handler'[h].user = u
  <2>1. u = v
    BY <1>1 DEF UpdateUser, TypeInv, TypeOK
  <2>2. CASE ~ security
    <3>1. users' = [users EXCEPT ![u] =
                      [status |-> users[u].status, role |-> users[u].role,
                       gen |-> users[u].gen]]
      BY <1>1, <2>1, <2>2 DEF UpdateUser
    <3>2. users[u] \in [status : Statuses, role : Roles, gen : Nat]
      BY DEF TypeInv, TypeOK
    <3>3. users'[u] = [status |-> users[u].status, role |-> users[u].role,
                       gen |-> users[u].gen]
      BY <3>1 DEF TypeInv, TypeOK
    <3> QED
      BY <3>2, <3>3
  <2>3. CASE security
    <3>1. handler' = [handler EXCEPT ![h] =
                        [Idle EXCEPT !.pc = "updateRevoke", !.user = u,
                                     !.action = "user"]]
      BY <1>1, <2>1, <2>3 DEF UpdateUser, Become
    <3>2. handler'[h] = [Idle EXCEPT !.pc = "updateRevoke", !.user = u,
                                     !.action = "user"]
      BY <3>1 DEF TypeInv, TypeOK
    <3> QED
      BY <3>2 DEF Idle
  <2> QED
    BY <2>2, <2>3
<1>2. ASSUME NEW h \in Handlers, Begin(h)
      PROVE  handler'[h].pc = "updateRevoke" /\ handler'[h].user = u
  BY <1>1, <1>2 DEF Begin, LoginFind, RefreshFind, LogoutFind, RequestArrives, dbVars
<1>3. ASSUME NEW h \in Handlers, Continue(h) \/ Abort(h) PROVE FALSE
  BY <1>3 DEF Continue, LoginVerify, LoginInsert, RefreshUser, RefreshRevoke,
       RefreshExtend, LogoutRevoke, UpdateRevoke, AuditAndRespond,
       GuardSession, GuardUser, Served, Abort, dbVars
<1> QED
  BY <1>2, <1>3 DEF Next, Tick, vars, dbVars

\* The three ways a session may outlive a change, as SurvivorsAreExplained
\* has them.
Explained(s) ==
    \/ \E h \in Handlers : /\ handler[h].pc = "updateRevoke"
                           /\ handler[h].user = sessions[s].user
    \/ sessions[s].user \in missed
    \/ sessions[s].gen < sessions[s].born

LEMMA SurvivorsStep ==
    TypeInv /\ SurvivorsAreExplained /\ [Next]_vars => SurvivorsAreExplained'
<1> SUFFICES ASSUME TypeInv, SurvivorsAreExplained, [Next]_vars,
                    NEW s \in SessionIds, Unrevoked(s)',
                    sessions'[s].gen < users'[sessions'[s].user].gen
             PROVE  Explained(s)'
  BY DEF SurvivorsAreExplained, Explained
<1>0. Stored(s)' /\ ~ Revoked(s)'
  BY DEF Unrevoked, Revoked, Stored
<1>1. CASE ~ Stored(s)
  <2>1. PICK h \in Handlers : LoginInsert(h) /\ handler[h].session = s
    BY <1>0, <1>1, RowsAreInserted
  <2>2. /\ sessions'[s].user = handler[h].user
        /\ sessions'[s].gen = handler[h].gen
        /\ sessions'[s].born = users[handler[h].user].gen
        /\ users' = users
    BY <2>1 DEF LoginInsert, TypeInv, TypeOK
  <2> QED
    BY <2>2 DEF Explained
<1>2. CASE Stored(s)
  <2> DEFINE u == sessions[s].user
  <2>1. /\ sessions'[s].user = u
        /\ sessions'[s].gen = sessions[s].gen
        /\ sessions'[s].born = sessions[s].born
        /\ ~ Revoked(s)
    BY <1>0, <1>2, RowsPersist
  <2>2. u \in Users
    BY <1>2, RowOfStored DEF TypeInv, SessionRow
  <2>3. CASE users'[u] # users[u]
    BY <2>1, <2>2, <2>3, ChangeIsDue DEF Explained
  <2>4. CASE users'[u] = users[u]
    <3>1. Explained(s)
      BY <1>2, <2>1, <2>4 DEF SurvivorsAreExplained, Explained, Unrevoked, Revoked
    <3>2. ASSUME NEW h \in Handlers, handler[h].pc = "updateRevoke",
                 handler[h].user = u
          PROVE  Explained(s)'
      BY <1>0, <1>2, <2>1, <3>2, DueIsPaidOrMissed DEF Explained
    <3>3. ASSUME u \in missed PROVE Explained(s)'
      BY <1>0, <1>2, <2>1, <3>3, MissedUntilRevoked DEF Explained
    <3>4. ASSUME sessions[s].gen < sessions[s].born PROVE Explained(s)'
      BY <2>1, <3>4 DEF Explained
    <3> QED
      BY <3>1, <3>2, <3>3, <3>4 DEF Explained
  <2> QED
    BY <2>3, <2>4
<1> QED
  BY <1>1, <1>2

\* However logins, refreshes, changes and crashes interleave, a session whose
\* login read an older record of its user is usable only while its revocation
\* is due, or was cut short, or because the login overlapped the change.
THEOREM SurvivorsExplained == Spec => []SurvivorsAreExplained
<1>1. Init => SurvivorsAreExplained
  BY DEF Init, SurvivorsAreExplained, Unrevoked, Stored
<1>2. TypeInv /\ SurvivorsAreExplained /\ [Next]_vars => SurvivorsAreExplained'
  BY SurvivorsStep
<1>3. Spec => []TypeInv
  BY SessionsTyped DEF TypeInv
<1> QED
  BY <1>1, <1>2, <1>3, PTL DEF Spec

-----------------------------------------------------------------------------
(* Windows are bounded.                                                    *)

\* An expiry that a handler has computed and not yet stored or sent.
PromiseOf(h) ==
    /\ handler[h].pc \in {"loginInsert", "refreshExtend"} =>
          handler[h].exp <= now + SessionTTL
    /\ (handler[h].pc = "audit" /\ handler[h].action = "login") =>
          handler[h].exp <= now + AccessTTL

WindowsInv == WindowsAreBounded /\ \A h \in Handlers : PromiseOf(h)

LEMMA ClockMoves ==
    ASSUME TypeInv, [Next]_vars
    PROVE  now \in Nat /\ now' \in Nat /\ now' >= now
<1>1. now \in Nat
  BY DEF TypeInv, TypeOK
<1>2. ASSUME NEW h \in Handlers, Begin(h) \/ Continue(h) \/ Abort(h)
      PROVE  now' = now
  BY <1>2 DEF Begin, LoginFind, RefreshFind, LogoutFind, RequestArrives,
       UpdateUser, Continue, LoginVerify, LoginInsert, RefreshUser,
       RefreshRevoke, RefreshExtend, LogoutRevoke, UpdateRevoke,
       AuditAndRespond, GuardSession, GuardUser, Served, Abort
<1> QED
  BY <1>1, <1>2 DEF Next, Tick, vars

\* An expiry in the table was there before, or a handler had promised it.
LEMMA ExpiryMoves ==
    ASSUME TypeInv, [Next]_vars, NEW s \in SessionIds, Stored(s)'
    PROVE  \/ Stored(s) /\ sessions'[s].expiresAt = sessions[s].expiresAt
           \/ \E h \in Handlers :
                 /\ handler[h].pc \in {"loginInsert", "refreshExtend"}
                 /\ sessions'[s].expiresAt = handler[h].exp
<1> DEFINE Same == Stored(s) /\ sessions'[s].expiresAt = sessions[s].expiresAt
<1>1. CASE ~ Stored(s)
  <2>1. PICK h \in Handlers : LoginInsert(h) /\ handler[h].session = s
    BY <1>1, RowsAreInserted
  <2> QED
    BY <2>1 DEF LoginInsert, TypeInv, TypeOK
<1>2. CASE Stored(s)
  <2>1. CASE sessions' = sessions
    BY <1>2, <2>1
  <2>2. ASSUME NEW rows, RevokeRows(rows) PROVE Same
    BY <1>2, <2>2, RevokeRowsFacts DEF TypeInv
  <2>3. ASSUME NEW h \in Handlers, LoginInsert(h) PROVE Same
    <3>1. handler[h].session # s
      BY <1>2, <2>3 DEF LoginInsert, TypeInv, Wiring, HandlerIsWired, LoginPCs
    <3> QED
      BY <1>2, <2>3, <3>1 DEF LoginInsert, TypeInv, TypeOK
  <2>4. ASSUME NEW h \in Handlers, RefreshExtend(h)
        PROVE  Same \/ sessions'[s].expiresAt = handler[h].exp
    <3>1. /\ handler[h].session \in SessionIds /\ handler[h].exp \in Nat
          /\ sessions' = [sessions EXCEPT ![handler[h].session].expiresAt = handler[h].exp]
      BY <2>4, HoldsSession DEF RefreshExtend, SessionPCs, HandlerState
    <3>2. sessions[s] \in SessionRow
      BY <1>2, RowOfStored DEF TypeInv
    <3>3. sessions'[s] = IF s = handler[h].session
                         THEN [sessions[s] EXCEPT !.expiresAt = handler[h].exp]
                         ELSE sessions[s]
      BY <3>1 DEF TypeInv, TypeOK
    <3> QED
      BY <1>2, <3>2, <3>3 DEF SessionRow
  <2>5. ASSUME NEW h \in Handlers, Begin(h) \/ Abort(h) PROVE sessions' = sessions
    BY <2>5 DEF Begin, LoginFind, RefreshFind, LogoutFind, RequestArrives,
                UpdateUser, Abort, dbVars
  <2>6. ASSUME NEW h \in Handlers, Continue(h)
        PROVE  Same \/ (RefreshExtend(h) /\ sessions'[s].expiresAt = handler[h].exp)
    <3>1. CASE LoginVerify(h) \/ RefreshUser(h) \/ AuditAndRespond(h)
                 \/ GuardSession(h) \/ GuardUser(h) \/ Served(h)
      BY <2>1, <1>2, <3>1 DEF LoginVerify, RefreshUser, AuditAndRespond,
                        GuardSession, GuardUser, Served, dbVars
    <3>2. CASE RefreshRevoke(h) \/ LogoutRevoke(h) \/ UpdateRevoke(h)
      BY <2>2, <3>2 DEF RefreshRevoke, LogoutRevoke, UpdateRevoke
    <3> QED
      BY <2>3, <2>4, <2>6, <3>1, <3>2 DEF Continue
  <2>7. ASSUME NEW h \in Handlers, RefreshExtend(h)
        PROVE  handler[h].pc \in {"loginInsert", "refreshExtend"}
    BY <2>7 DEF RefreshExtend
  <2> QED
    BY <1>2, <2>5, <2>6, <2>7 DEF Next, Tick, vars, dbVars
<1> QED
  BY <1>1, <1>2

\* An access token a client holds was held before, or is new, or had been
\* signed by a login.
LEMMA AccessMoves ==
    ASSUME TypeInv, [Next]_vars, NEW s \in SessionIds
    PROVE  \/ accessExp'[s] = accessExp[s]
           \/ accessExp'[s] = now + AccessTTL
           \/ \E h \in Handlers :
                 /\ handler[h].pc = "audit" /\ handler[h].action = "login"
                 /\ accessExp'[s] = handler[h].exp
<1>1. ASSUME NEW r, NEW exp, Receive(r, exp)
      PROVE  accessExp'[s] = accessExp[s] \/ accessExp'[s] = exp
  BY <1>1 DEF Receive, TypeInv, TypeOK
<1>2. ASSUME NEW h \in Handlers, AuditAndRespond(h)
      PROVE  \/ accessExp'[s] = accessExp[s]
             \/ accessExp'[s] = now + AccessTTL
             \/ /\ handler[h].pc = "audit" /\ handler[h].action = "login"
                /\ accessExp'[s] = handler[h].exp
  BY <1>1, <1>2 DEF AuditAndRespond, clientVars
<1>3. ASSUME NEW h \in Handlers, Begin(h) \/ Abort(h) PROVE accessExp' = accessExp
  BY <1>3 DEF Begin, LoginFind, RefreshFind, LogoutFind, RequestArrives,
              UpdateUser, Abort, clientVars
<1>4. ASSUME NEW h \in Handlers, Continue(h), ~ AuditAndRespond(h)
      PROVE  accessExp' = accessExp
  BY <1>4 DEF Continue, LoginVerify, LoginInsert, RefreshUser, RefreshRevoke,
       RefreshExtend, LogoutRevoke, UpdateRevoke, GuardSession, GuardUser,
       Served, clientVars
<1> QED
  BY <1>2, <1>3, <1>4 DEF Next, Tick, vars, clientVars

\* A handler promises only what lies within the time to live.
LEMMA OwnPromise ==
    ASSUME TypeInv, NEW h \in Handlers, Begin(h) \/ Continue(h) \/ Abort(h)
    PROVE  \/ /\ handler'[h].pc \in {"loginInsert", "refreshExtend"}
              /\ handler'[h].exp = now + SessionTTL
           \/ /\ handler'[h].pc = "audit" /\ handler'[h].action = "login"
              /\ handler'[h].exp = now + AccessTTL
           \/ /\ handler'[h].pc \notin {"loginInsert", "refreshExtend"}
              /\ ~ (handler'[h].pc = "audit" /\ handler'[h].action = "login")
<1> DEFINE l == handler[h]
           Safe == /\ handler'[h].pc \notin {"loginInsert", "refreshExtend"}
                   /\ ~ (handler'[h].pc = "audit" /\ handler'[h].action = "login")
<1>0. ASSUME NEW state, Become(h, state) PROVE handler'[h] = state
  BY <1>0 DEF Become, TypeInv, TypeOK
<1>1. l \in HandlerState
  BY DEF TypeInv, TypeOK
<1>2. ASSUME Return(h) PROVE Safe
  BY <1>0, <1>2 DEF Return, Idle
<1>3. CASE Begin(h)
  <2>1. ASSUME NEW u \in Users, NEW s \in SessionIds, LoginFind(h, u, s) PROVE Safe
    BY <1>0, <2>1 DEF LoginFind, Idle
  <2>2. ASSUME NEW s \in SessionIds,
               RefreshFind(h, s) \/ LogoutFind(h, s)
        PROVE  Safe
    BY <1>0, <2>2 DEF RefreshFind, LogoutFind, Idle
  <2>3. ASSUME NEW s \in SessionIds, RequestArrives(h, s) PROVE Safe
    BY <1>0, <2>3 DEF RequestArrives, Idle
  <2>4. ASSUME NEW u \in Users, NEW status \in Statuses, NEW role \in Roles,
               NEW security \in BOOLEAN, UpdateUser(h, u, status, role, security)
        PROVE  Safe
    BY <1>0, <2>4 DEF UpdateUser, Idle
  <2> QED
    BY <1>3, <2>1, <2>2, <2>3, <2>4 DEF Begin
<1>4. CASE LoginVerify(h)
  <2>1. ASSUME Become(h, [l EXCEPT !.pc = "loginInsert", !.exp = now + SessionTTL])
        PROVE  handler'[h].pc = "loginInsert" /\ handler'[h].exp = now + SessionTTL
    BY <1>0, <1>1, <2>1 DEF HandlerState
  <2>2. ASSUME Become(h, [Idle EXCEPT !.pc = "audit", !.user = l.user,
                                      !.action = "denied"])
        PROVE  Safe
    BY <1>0, <2>2 DEF Idle
  <2> QED
    BY <1>4, <2>1, <2>2 DEF LoginVerify
<1>5. CASE LoginInsert(h)
  BY <1>0, <1>5 DEF LoginInsert, Idle
<1>6. CASE RefreshUser(h)
  <2>1. ASSUME Become(h, [l EXCEPT !.pc = "refreshExtend", !.exp = now + SessionTTL])
        PROVE  handler'[h].pc = "refreshExtend" /\ handler'[h].exp = now + SessionTTL
    BY <1>0, <1>1, <2>1 DEF HandlerState
  <2>2. ASSUME Become(h, [l EXCEPT !.pc = "refreshRevoke"]) PROVE Safe
    BY <1>0, <1>1, <2>2 DEF HandlerState
  <2> QED
    BY <1>6, <2>1, <2>2 DEF RefreshUser
<1>7. CASE RefreshExtend(h) \/ LogoutRevoke(h)
  BY <1>0, <1>1, <1>7 DEF RefreshExtend, LogoutRevoke, HandlerState
<1>8. CASE UpdateRevoke(h)
  <2>1. l.action = "user"
    BY <1>8 DEF UpdateRevoke, TypeInv, Wiring, HandlerIsWired
  <2> QED
    BY <1>0, <1>1, <1>8, <2>1 DEF UpdateRevoke, HandlerState
<1>9. CASE GuardSession(h)
  <2>1. ASSUME Become(h, [l EXCEPT !.pc = "guardUser"]) PROVE Safe
    BY <1>0, <1>1, <2>1 DEF HandlerState
  <2> QED
    BY <1>2, <1>9, <2>1 DEF GuardSession
<1>10. CASE GuardUser(h)
  <2>1. ASSUME NEW role, Become(h, [l EXCEPT !.pc = "serving", !.role = role])
        PROVE  Safe
    BY <1>0, <1>1, <2>1 DEF HandlerState
  <2> QED
    BY <1>2, <1>10, <2>1 DEF GuardUser
<1>11. CASE RefreshRevoke(h) \/ AuditAndRespond(h) \/ Served(h) \/ Abort(h)
  BY <1>2, <1>11 DEF RefreshRevoke, AuditAndRespond, Served, Abort
<1> QED
  BY <1>3, <1>4, <1>5, <1>6, <1>7, <1>8, <1>9, <1>10, <1>11 DEF Continue

LEMMA WindowsStep == TypeInv /\ WindowsInv /\ [Next]_vars => WindowsInv'
<1> SUFFICES ASSUME TypeInv, WindowsInv, [Next]_vars
             PROVE  WindowsInv'
  OBVIOUS
<1>0. /\ now \in Nat /\ now' \in Nat /\ now' >= now
      /\ SessionTTL \in Nat /\ AccessTTL \in Nat
  BY ClockMoves
<1>1. TypeOK /\ TypeOK'
  BY NextTyped DEF TypeInv
<1>2. ASSUME NEW h \in Handlers
      PROVE  handler[h].exp \in Nat /\ handler'[h].exp \in Nat
  BY <1>1 DEF TypeOK, HandlerState
<1>3. ASSUME NEW s \in SessionIds, Stored(s)'
      PROVE  sessions'[s].expiresAt <= now' + SessionTTL
  <2>1. CASE Stored(s) /\ sessions'[s].expiresAt = sessions[s].expiresAt
    <3>1. sessions[s].expiresAt \in Nat
      BY <1>1, <2>1, RowOfStored DEF SessionRow
    <3>2. sessions[s].expiresAt <= now + SessionTTL
      BY <2>1 DEF WindowsInv, WindowsAreBounded
    <3> QED
      BY <1>0, <2>1, <3>1, <3>2
  <2>2. ASSUME NEW h \in Handlers,
               handler[h].pc \in {"loginInsert", "refreshExtend"},
               sessions'[s].expiresAt = handler[h].exp
        PROVE  sessions'[s].expiresAt <= now' + SessionTTL
    <3>1. handler[h].exp <= now + SessionTTL
      BY <2>2 DEF WindowsInv, PromiseOf
    <3> QED
      BY <1>0, <1>2, <2>2, <3>1
  <2> QED
    BY <1>3, <2>1, <2>2, ExpiryMoves
<1>4. ASSUME NEW s \in SessionIds PROVE accessExp'[s] <= now' + AccessTTL
  <2>1. accessExp[s] \in Nat /\ accessExp[s] <= now + AccessTTL
    BY <1>1 DEF TypeOK, WindowsInv, WindowsAreBounded
  <2>2. ASSUME NEW h \in Handlers, handler[h].pc = "audit",
               handler[h].action = "login"
        PROVE  handler[h].exp <= now + AccessTTL
    BY <2>2 DEF WindowsInv, PromiseOf
  <2> QED
    BY <1>0, <1>2, <2>1, <2>2, AccessMoves
<1>5. ASSUME NEW g \in Handlers PROVE PromiseOf(g)'
  <2>1. CASE handler'[g] = handler[g]
    <3>1. PromiseOf(g)
      BY DEF WindowsInv
    <3> QED
      BY <1>0, <1>2, <2>1, <3>1 DEF PromiseOf
  <2>2. CASE handler'[g] # handler[g]
    <3>1. PICK h \in Handlers : Begin(h) \/ Continue(h) \/ Abort(h)
      BY <2>2 DEF Next, Tick, vars
    <3>2. h = g
      BY <2>2, <3>1, HandlerFrame
    <3>3. \/ /\ handler'[g].pc \in {"loginInsert", "refreshExtend"}
             /\ handler'[g].exp = now + SessionTTL
          \/ /\ handler'[g].pc = "audit" /\ handler'[g].action = "login"
             /\ handler'[g].exp = now + AccessTTL
          \/ /\ handler'[g].pc \notin {"loginInsert", "refreshExtend"}
             /\ ~ (handler'[g].pc = "audit" /\ handler'[g].action = "login")
      BY <3>1, <3>2, OwnPromise
    <3> QED
      BY <1>0, <3>3 DEF PromiseOf
  <2> QED
    BY <2>1, <2>2
<1> QED
  BY <1>3, <1>4, <1>5 DEF WindowsInv, WindowsAreBounded

\* No interleaving of logins, refreshes and crashes leaves a session or an
\* access token good for longer than its time to live from now.
THEOREM WindowsBounded == Spec => []WindowsAreBounded
<1>1. Init => WindowsInv
  <2> SUFFICES ASSUME Init PROVE WindowsInv
    OBVIOUS
  <2>1. ASSUME NEW h \in Handlers PROVE PromiseOf(h)
    BY DEF Init, PromiseOf, Idle
  <2>2. WindowsAreBounded
    BY ExpiriesTyped, InitTyped DEF Init, WindowsAreBounded, Stored
  <2> QED
    BY <2>1, <2>2 DEF WindowsInv
<1>2. TypeInv /\ WindowsInv /\ [Next]_vars => WindowsInv'
  BY WindowsStep
<1>3. WindowsInv => WindowsAreBounded
  BY DEF WindowsInv
<1>4. Spec => []TypeInv
  BY SessionsTyped DEF TypeInv
<1> QED
  BY <1>1, <1>2, <1>3, <1>4, PTL DEF Spec

-----------------------------------------------------------------------------
(* The audit trail is truthful.                                            *)

\* A handler that will audit a logout has ended its session.
LogoutsAreDone ==
    \A h \in Handlers :
        (handler[h].pc = "audit" /\ handler[h].action = "logout") =>
            /\ handler[h].session \in SessionIds
            /\ Revoked(handler[h].session)

\* A new row of the trail is the record of a handler that has come to it.
LEMMA AuditGrows ==
    ASSUME TypeInv, [Next]_vars, NEW action, NEW subject,
           <<action, subject>> \in audit', <<action, subject>> \notin audit
    PROVE  \E h \in Handlers : /\ handler[h].pc = "audit"
                               /\ handler[h].action = action
                               /\ Subject(handler[h]) = subject
<1>1. ASSUME NEW h \in Handlers, AuditAndRespond(h)
      PROVE  /\ handler[h].pc = "audit"
             /\ handler[h].action = action
             /\ Subject(handler[h]) = subject
  BY <1>1 DEF AuditAndRespond, AuditInsert
<1>2. ASSUME NEW h \in Handlers, Begin(h) \/ Abort(h) PROVE FALSE
  BY <1>2 DEF Begin, LoginFind, RefreshFind, LogoutFind, RequestArrives,
              UpdateUser, Abort, dbVars
<1>3. ASSUME NEW h \in Handlers, Continue(h) PROVE AuditAndRespond(h)
  BY <1>3 DEF Continue, LoginVerify, LoginInsert, RefreshUser, RefreshRevoke,
       RefreshExtend, LogoutRevoke, UpdateRevoke, GuardSession, GuardUser,
       Served, dbVars
<1> QED
  BY <1>1, <1>2, <1>3 DEF Next, Tick, vars, dbVars

\* Only the logout's own UPDATE leads a handler to the record of a logout.
LEMMA OwnLogout ==
    ASSUME TypeInv, NEW h \in Handlers, Begin(h) \/ Continue(h) \/ Abort(h),
           handler'[h].pc = "audit", handler'[h].action = "logout"
    PROVE  \E s \in SessionIds : handler'[h].session = s /\ Revoked(s)'
<1> DEFINE l == handler[h]
<1>0. ASSUME NEW state, Become(h, state) PROVE handler'[h] = state
  BY <1>0 DEF Become, TypeInv, TypeOK
<1>1. l \in HandlerState
  BY DEF TypeInv, TypeOK
<1>2. ASSUME Return(h) PROVE FALSE
  BY <1>0, <1>2 DEF Return, Idle
<1>3. ASSUME NEW u \in Users, NEW s \in SessionIds, LoginFind(h, u, s)
      PROVE  FALSE
  BY <1>0, <1>3 DEF LoginFind, Idle
<1>4. ASSUME NEW s \in SessionIds, RefreshFind(h, s) \/ LogoutFind(h, s)
      PROVE  FALSE
  BY <1>0, <1>4 DEF RefreshFind, LogoutFind, Idle
<1>5. ASSUME NEW s \in SessionIds, RequestArrives(h, s) PROVE FALSE
  BY <1>0, <1>5 DEF RequestArrives, Idle
<1>6. ASSUME NEW u \in Users, NEW status \in Statuses, NEW role \in Roles,
             NEW security \in BOOLEAN, UpdateUser(h, u, status, role, security)
      PROVE  FALSE
  BY <1>0, <1>6 DEF UpdateUser, Idle
<1>7. ASSUME LoginVerify(h) PROVE FALSE
  <2>1. ASSUME NEW exp, Become(h, [l EXCEPT !.pc = "loginInsert", !.exp = exp])
        PROVE  FALSE
    BY <1>0, <1>1, <2>1 DEF HandlerState
  <2> QED
    BY <1>0, <1>7, <2>1 DEF LoginVerify, Idle
<1>8. ASSUME LoginInsert(h) PROVE FALSE
  BY <1>0, <1>8 DEF LoginInsert, Idle
<1>9. ASSUME RefreshUser(h) \/ RefreshExtend(h) PROVE FALSE
  BY <1>0, <1>1, <1>9 DEF RefreshUser, RefreshExtend, HandlerState
<1>10. ASSUME UpdateRevoke(h) PROVE FALSE
  <2>1. l.action = "user"
    BY <1>10 DEF UpdateRevoke, TypeInv, Wiring, HandlerIsWired
  <2> QED
    BY <1>0, <1>1, <1>10, <2>1 DEF UpdateRevoke, HandlerState
<1>11. ASSUME GuardSession(h) \/ GuardUser(h) PROVE FALSE
  BY <1>0, <1>1, <1>2, <1>11 DEF GuardSession, GuardUser, HandlerState
<1>12. LogoutRevoke(h)
  BY <1>2, <1>3, <1>4, <1>5, <1>6, <1>7, <1>8, <1>9, <1>10, <1>11
     DEF Begin, Continue, RefreshRevoke, AuditAndRespond, Served, Abort
<1>13. PICK s \in SessionIds : s = l.session /\ Stored(s)
  BY <1>12, HoldsSession DEF LogoutRevoke, SessionPCs
<1>14. Revoked(s)'
  <2>1. RevokeRows({s})
    BY <1>12, <1>13 DEF LogoutRevoke
  <2> QED
    BY <1>13, <2>1, RevokeRowsFacts DEF TypeInv
<1>15. handler'[h].session = s
  BY <1>0, <1>1, <1>12, <1>13 DEF LogoutRevoke, HandlerState
<1> QED
  BY <1>14, <1>15

LEMMA LogoutsAreDoneStep ==
    TypeInv /\ LogoutsAreDone /\ [Next]_vars => LogoutsAreDone'
<1> SUFFICES ASSUME TypeInv, LogoutsAreDone, [Next]_vars, NEW g \in Handlers,
                    handler'[g].pc = "audit", handler'[g].action = "logout"
             PROVE  \E s \in SessionIds : handler'[g].session = s /\ Revoked(s)'
  BY DEF LogoutsAreDone, Revoked, Stored
<1>1. CASE handler'[g] = handler[g]
  <2>1. PICK s \in SessionIds : handler[g].session = s /\ Revoked(s)
    BY <1>1 DEF LogoutsAreDone
  <2>2. Revoked(s)'
    BY <2>1, RowsPersist DEF Revoked
  <2> QED
    BY <1>1, <2>1, <2>2
<1>2. CASE handler'[g] # handler[g]
  <2>1. PICK h \in Handlers : Begin(h) \/ Continue(h) \/ Abort(h)
    BY <1>2 DEF Next, Tick, vars
  <2>2. h = g
    BY <1>2, <2>1, HandlerFrame
  <2> QED
    BY <2>1, <2>2, OwnLogout
<1> QED
  BY <1>1, <1>2

LEMMA AuditStep ==
    TypeInv /\ LogoutsAreDone /\ AuditIsTruthful /\ [Next]_vars => AuditIsTruthful'
<1> SUFFICES ASSUME TypeInv, LogoutsAreDone, AuditIsTruthful, [Next]_vars,
                    NEW s \in SessionIds
             PROVE  /\ (<<"login", s>> \in audit' \/ <<"refresh", s>> \in audit')
                          => Stored(s)'
                    /\ <<"logout", s>> \in audit' => Revoked(s)'
  BY DEF AuditIsTruthful
<1>1. Stored(s) => Stored(s)'
  BY RowsPersist
<1>2. Revoked(s) => Revoked(s)'
  BY RowsPersist DEF Revoked
<1>3. ASSUME NEW action \in {"login", "refresh", "logout"},
             <<action, s>> \in audit', <<action, s>> \notin audit
      PROVE  Stored(s) /\ (action = "logout" => Revoked(s))
  <2>1. PICK h \in Handlers : /\ handler[h].pc = "audit"
                              /\ handler[h].action = action
                              /\ Subject(handler[h]) = s
    BY <1>3, AuditGrows
  <2>2. handler[h].session \in SessionIds /\ Stored(handler[h].session)
    BY <2>1 DEF TypeInv, Wiring, HandlerIsWired
  <2>3. handler[h].session = s
    BY <2>1, <2>2 DEF Subject
  <2> QED
    BY <2>1, <2>2, <2>3 DEF LogoutsAreDone
<1>4. ASSUME NEW action \in {"login", "refresh"}, <<action, s>> \in audit'
      PROVE  Stored(s)'
  BY <1>1, <1>3, <1>4 DEF AuditIsTruthful
<1>5. ASSUME <<"logout", s>> \in audit' PROVE Revoked(s)'
  BY <1>2, <1>3, <1>5 DEF AuditIsTruthful
<1> QED
  BY <1>4, <1>5

\* Though no audit row shares a transaction with the change it records, every
\* row tells of a change that was committed.
THEOREM AuditTruthful == Spec => []AuditIsTruthful
<1>1. Init => LogoutsAreDone /\ AuditIsTruthful
  BY DEF Init, LogoutsAreDone, AuditIsTruthful, Idle
<1>2. TypeInv /\ LogoutsAreDone /\ [Next]_vars => LogoutsAreDone'
  BY LogoutsAreDoneStep
<1>3. TypeInv /\ LogoutsAreDone /\ AuditIsTruthful /\ [Next]_vars => AuditIsTruthful'
  BY AuditStep
<1>4. Spec => []TypeInv
  BY SessionsTyped DEF TypeInv
<1> QED
  BY <1>1, <1>2, <1>3, <1>4, PTL DEF Spec

-----------------------------------------------------------------------------
(* The handlers implement SessionLifecycle.                                *)

\* The abstract call of a handler's locals: callBar, one handler at a time.
CallOf(l) ==
    IF l.pc \in GuardPCs
    THEN [at       |-> IF l.pc = "serving" THEN "inside" ELSE "waiting",
          session  |-> l.session,
          entitled |-> ~ l.revokedBefore]
    ELSE [at |-> "outside", session |-> None, entitled |-> FALSE]

LEMMA CallBarIs == callBar = [h \in Handlers |-> CallOf(handler[h])]
BY DEF callBar, CallOf, GuardPCs

LEMMA OutsideIs ==
    ASSUME NEW l, l.pc \notin GuardPCs
    PROVE  CallOf(l) = Lifecycle!Outside
BY DEF CallOf, Lifecycle!Outside

\* A handler's step moves its own call and no other.
LEMMA CallMoves ==
    ASSUME TypeInv, NEW h \in Handlers, Begin(h) \/ Continue(h) \/ Abort(h)
    PROVE  callBar' = [callBar EXCEPT ![h] = CallOf(handler'[h])]
<1>1. callBar' = [g \in Handlers |-> CallOf(handler'[g])]
  BY DEF callBar, CallOf, GuardPCs
<1>2. \A g \in Handlers \ {h} : handler'[g] = handler[g]
  BY HandlerFrame
<1> QED
  BY <1>1, <1>2, CallBarIs

LEMMA CallRests ==
    ASSUME TypeInv, NEW h \in Handlers, Begin(h) \/ Continue(h) \/ Abort(h),
           CallOf(handler'[h]) = CallOf(handler[h])
    PROVE  callBar' = callBar
BY CallMoves, CallBarIs

LEMMA LifeRests ==
    ASSUME sessions' = sessions
    PROVE  lifeBar' = lifeBar
BY DEF lifeBar, Stored, Revoked

\* The UPDATE of revoke and revokeForUser is one Close.
LEMMA RevokeCloses ==
    ASSUME TypeInv, NEW rows, RevokeRows(rows), callBar' = callBar
    PROVE  Lifecycle!LifecycleNext
<1> DEFINE S == {s \in SessionIds : s \in rows /\ Unrevoked(s)}
<1>1. ASSUME NEW s \in S PROVE lifeBar[s] = "open"
  BY DEF lifeBar, Unrevoked, Revoked
<1>2. ASSUME NEW s \in SessionIds
      PROVE  lifeBar'[s] = IF s \in S THEN "closed" ELSE lifeBar[s]
  <2>1. CASE s \in S
    BY <2>1, RevokeRowsFacts DEF TypeInv, lifeBar, Unrevoked
  <2>2. CASE s \notin S
    <3>1. sessions'[s] = sessions[s]
      BY <2>2, RevokeRowsFacts DEF TypeInv
    <3> QED
      BY <2>2, <3>1 DEF lifeBar, Stored, Revoked
  <2> QED
    BY <2>1, <2>2
<1>3. lifeBar' = [s \in SessionIds |-> IF s \in S THEN "closed" ELSE lifeBar[s]]
  <2>1. lifeBar' = [s \in SessionIds |-> lifeBar'[s]]
    BY DEF lifeBar
  <2> QED
    BY <1>2, <2>1
<1>4. Lifecycle!Close(S)
  BY <1>1, <1>3 DEF Lifecycle!Close
<1> QED
  BY <1>4 DEF Lifecycle!LifecycleNext

LEMMA InsertOpens ==
    ASSUME TypeInv, NEW h \in Handlers, LoginInsert(h)
    PROVE  Lifecycle!LifecycleNext
<1> DEFINE l == handler[h]
<1>0. ASSUME NEW state, Become(h, state) PROVE handler'[h] = state
  BY <1>0 DEF Become, TypeInv, TypeOK
<1>1. PICK s \in SessionIds : s = l.session /\ ~ Stored(s)
  BY DEF LoginInsert, TypeInv, Wiring, HandlerIsWired, LoginPCs
<1>2. l.pc \notin GuardPCs /\ handler'[h].pc \notin GuardPCs
  BY <1>0 DEF LoginInsert, GuardPCs, Idle
<1>3. callBar' = callBar
  BY <1>2, OutsideIs, CallRests DEF Continue
<1>4. \A r \in SessionIds \ {s} : sessions'[r] = sessions[r]
  BY <1>1 DEF LoginInsert, TypeInv, TypeOK
<1>5. sessions'[s] # None /\ sessions'[s].revokedAt = None
  <2>1. sessions' = [sessions EXCEPT ![s] =
                      [user |-> l.user, role |-> l.role, expiresAt |-> l.exp,
                       revokedAt |-> None, gen |-> l.gen,
                       born |-> users[l.user].gen]]
    BY <1>1 DEF LoginInsert
  <2>2. sessions'[s].revokedAt = None
    BY <2>1 DEF TypeInv, TypeOK
  <2>3. Stored(s)'
    <3>1. l \in HandlerState /\ l.user \in Users /\ l.role \in Roles
      BY DEF LoginInsert, TypeInv, TypeOK, Wiring, HandlerIsWired, LoginPCs
    <3>2. users[l.user].gen \in Nat
      BY <3>1 DEF TypeInv, TypeOK
    <3>3. [user |-> l.user, role |-> l.role, expiresAt |-> l.exp,
           revokedAt |-> None, gen |-> l.gen, born |-> users[l.user].gen]
             \in SessionRow
      BY <3>1, <3>2 DEF SessionRow, HandlerState
    <3>4. sessions'[s] \in SessionRow
      BY <2>1, <3>3 DEF TypeInv, TypeOK
    <3> QED
      BY <3>4 DEF Stored
  <2> QED
    BY <2>2, <2>3 DEF Stored
<1>6. lifeBar' = [lifeBar EXCEPT ![s] = "open"]
  BY <1>4, <1>5 DEF lifeBar, Stored, Revoked
<1>7. lifeBar[s] = "unborn"
  BY <1>1 DEF lifeBar
<1> QED
  BY <1>3, <1>6, <1>7 DEF Lifecycle!LifecycleNext, Lifecycle!Open

LEMMA ArrivalArrives ==
    ASSUME TypeInv, NEW h \in Handlers, NEW s \in SessionIds, RequestArrives(h, s)
    PROVE  Lifecycle!LifecycleNext
<1>0. ASSUME NEW state, Become(h, state) PROVE handler'[h] = state
  BY <1>0 DEF Become, TypeInv, TypeOK
<1> DEFINE flag == Revoked(s)
           arrived(b) == [Idle EXCEPT !.pc = "guardSession", !.session = s,
                                      !.user = sessions[s].user,
                                      !.exp = accessExp[s],
                                      !.gen = users[sessions[s].user].gen,
                                      !.revokedBefore = b]
<1>1. handler'[h] = arrived(flag) /\ sessions' = sessions
  BY <1>0 DEF RequestArrives, dbVars
<1>2. flag \in BOOLEAN /\ (flag <=> Revoked(s))
  BY DEF Revoked
<1> HIDE DEF flag
<1>3. /\ handler'[h].pc = "guardSession" /\ handler'[h].session = s
      /\ handler'[h].revokedBefore = flag
  BY <1>1 DEF Idle
<1>4. CallOf(handler'[h]) = [at |-> "waiting", session |-> s, entitled |-> ~ flag]
  BY <1>3 DEF CallOf, GuardPCs
<1>5. callBar[h] = Lifecycle!Outside
  BY CallBarIs, OutsideIs DEF RequestArrives, GuardPCs
<1>6. Stored(s)
  BY DEF RequestArrives, TypeInv, Wiring
<1>7. lifeBar[s] # "unborn" /\ (~ flag) = (lifeBar[s] = "open")
  BY <1>2, <1>6 DEF lifeBar
<1>8. callBar' = [callBar EXCEPT ![h] = [at |-> "waiting", session |-> s,
                                         entitled |-> lifeBar[s] = "open"]]
  BY <1>4, <1>7, CallMoves DEF Begin
<1>9. lifeBar' = lifeBar
  BY <1>1, LifeRests
<1>10. Lifecycle!Arrive(h, s)
  BY <1>5, <1>7, <1>8, <1>9 DEF Lifecycle!Arrive
<1> QED
  BY <1>10 DEF Lifecycle!LifecycleNext

\* A handler that returns takes its call out, if it had one.
LEMMA ReturnLeaves ==
    ASSUME TypeInv, NEW h \in Handlers, Begin(h) \/ Continue(h) \/ Abort(h),
           Return(h), sessions' = sessions
    PROVE  [Lifecycle!LifecycleNext]_<<lifeBar, callBar>>
<1>1. handler'[h] = Idle
  BY DEF Return, Become, TypeInv, TypeOK
<1>2. CallOf(handler'[h]) = Lifecycle!Outside
  BY <1>1, OutsideIs DEF Idle, GuardPCs
<1>3. lifeBar' = lifeBar
  BY LifeRests
<1>4. CASE handler[h].pc \in GuardPCs
  <2>1. callBar[h].at # "outside"
    BY <1>4, CallBarIs DEF CallOf
  <2>2. Lifecycle!Leave(h)
    BY <1>2, <1>3, <2>1, CallMoves DEF Lifecycle!Leave
  <2> QED
    BY <2>2 DEF Lifecycle!LifecycleNext
<1>5. CASE handler[h].pc \notin GuardPCs
  BY <1>2, <1>3, <1>5, OutsideIs, CallRests
<1> QED
  BY <1>4, <1>5

LEMMA AdmittedIs ==
    ASSUME NEW s, NEW e
    PROVE  [[at |-> "waiting", session |-> s, entitled |-> e] EXCEPT !.at = "inside"]
             = [at |-> "inside", session |-> s, entitled |-> e]
OBVIOUS

LEMMA GuardImplements ==
    ASSUME TypeInv, RevokedRequestsWait, NEW h \in Handlers,
           GuardSession(h) \/ GuardUser(h)
    PROVE  [Lifecycle!LifecycleNext]_<<lifeBar, callBar>>
<1> DEFINE l == handler[h]
<1>0. ASSUME NEW state, Become(h, state) PROVE handler'[h] = state
  BY <1>0 DEF Become, TypeInv, TypeOK
<1>1. l \in HandlerState /\ sessions' = sessions /\ lifeBar' = lifeBar
  BY LifeRests DEF TypeInv, TypeOK, GuardSession, GuardUser, dbVars
<1>2. CASE Return(h)
  BY <1>1, <1>2, ReturnLeaves DEF Continue
<1>3. CASE GuardSession(h) /\ Become(h, [l EXCEPT !.pc = "guardUser"])
  <2>1. /\ handler'[h].pc = "guardUser" /\ handler'[h].session = l.session
        /\ handler'[h].revokedBefore = l.revokedBefore
    BY <1>0, <1>1, <1>3 DEF HandlerState
  <2>2. l.pc = "guardSession"
    BY <1>3 DEF GuardSession
  <2>3. CallOf(handler'[h]) = CallOf(l)
    BY <2>1, <2>2 DEF CallOf, GuardPCs
  <2> QED
    BY <1>1, <1>3, <2>3, CallRests DEF Continue
<1>4. ASSUME NEW role, GuardUser(h),
             Become(h, [l EXCEPT !.pc = "serving", !.role = role])
      PROVE  Lifecycle!LifecycleNext
  <2>1. /\ handler'[h].pc = "serving" /\ handler'[h].session = l.session
        /\ handler'[h].revokedBefore = l.revokedBefore
    BY <1>0, <1>1, <1>4 DEF HandlerState
  <2>2. l.pc = "guardUser"
    BY <1>4 DEF GuardUser
  <2>3. ~ l.revokedBefore
    BY <2>2 DEF RevokedRequestsWait
  <2>4. callBar[h] = [at |-> "waiting", session |-> l.session, entitled |-> TRUE]
    BY <2>2, <2>3, CallBarIs DEF CallOf, GuardPCs
  <2>5. CallOf(handler'[h]) = [at |-> "inside", session |-> l.session, entitled |-> TRUE]
    BY <2>1, <2>3 DEF CallOf, GuardPCs
  <2>6. CallOf(handler'[h]) = [callBar[h] EXCEPT !.at = "inside"]
    BY <2>4, <2>5, AdmittedIs
  <2>7. callBar' = [callBar EXCEPT ![h].at = "inside"]
    BY <1>4, <2>6, CallMoves DEF Continue
  <2>8. Lifecycle!Admit(h)
    BY <1>1, <2>4, <2>7 DEF Lifecycle!Admit
  <2> QED
    BY <2>8 DEF Lifecycle!LifecycleNext
<1> QED
  BY <1>2, <1>3, <1>4 DEF GuardSession, GuardUser

\* Moves between locals that hold no call are invisible.
LEMMA UnseenStep ==
    ASSUME TypeInv, NEW h \in Handlers, Begin(h) \/ Continue(h) \/ Abort(h),
           handler[h].pc \notin GuardPCs, handler'[h].pc \notin GuardPCs,
           sessions' = sessions
    PROVE  UNCHANGED <<lifeBar, callBar>>
BY OutsideIs, CallRests, LifeRests

LEMMA BeginImplements ==
    ASSUME TypeInv, NEW h \in Handlers, Begin(h)
    PROVE  [Lifecycle!LifecycleNext]_<<lifeBar, callBar>>
<1>0. ASSUME NEW state, Become(h, state) PROVE handler'[h] = state
  BY <1>0 DEF Become, TypeInv, TypeOK
<1>1. ASSUME NEW s \in SessionIds, RequestArrives(h, s)
      PROVE  Lifecycle!LifecycleNext
  BY <1>1, ArrivalArrives
<1>2. ASSUME NEW u \in Users, NEW s \in SessionIds, LoginFind(h, u, s)
      PROVE  handler[h].pc = "idle" /\ handler'[h].pc \notin GuardPCs
  BY <1>0, <1>2 DEF LoginFind, Idle, GuardPCs
<1>3. ASSUME NEW s \in SessionIds, RefreshFind(h, s) \/ LogoutFind(h, s)
      PROVE  handler[h].pc = "idle" /\ handler'[h].pc \notin GuardPCs
  BY <1>0, <1>3 DEF RefreshFind, LogoutFind, Idle, GuardPCs
<1>4. ASSUME NEW u \in Users, NEW status \in Statuses, NEW role \in Roles,
             NEW security \in BOOLEAN, UpdateUser(h, u, status, role, security)
      PROVE  handler[h].pc = "idle" /\ handler'[h].pc \notin GuardPCs
  BY <1>0, <1>4 DEF UpdateUser, Idle, GuardPCs
<1>5. sessions' = sessions
  BY DEF Begin, LoginFind, RefreshFind, LogoutFind, RequestArrives, UpdateUser, dbVars
<1>6. "idle" \notin GuardPCs
  BY DEF GuardPCs
<1>7. \/ \E s \in SessionIds : RequestArrives(h, s)
      \/ handler[h].pc = "idle" /\ handler'[h].pc \notin GuardPCs
  BY <1>2, <1>3, <1>4 DEF Begin
<1> QED
  BY <1>1, <1>5, <1>6, <1>7, UnseenStep

LEMMA ContinueImplements ==
    ASSUME TypeInv, RevokedRequestsWait, NEW h \in Handlers, Continue(h)
    PROVE  [Lifecycle!LifecycleNext]_<<lifeBar, callBar>>
<1> DEFINE l == handler[h]
<1>0. ASSUME NEW state, Become(h, state) PROVE handler'[h] = state
  BY <1>0 DEF Become, TypeInv, TypeOK
<1>1. l \in HandlerState
  BY DEF TypeInv, TypeOK
<1>2. CASE LoginInsert(h)
  BY <1>2, InsertOpens
<1>3. CASE GuardSession(h) \/ GuardUser(h)
  BY <1>3, GuardImplements
<1>4. CASE Served(h) \/ AuditAndRespond(h)
  BY <1>4, ReturnLeaves DEF Served, AuditAndRespond, dbVars
<1>5. CASE LoginVerify(h)
  <2>1. l.pc \notin GuardPCs /\ sessions' = sessions
    BY <1>5 DEF LoginVerify, GuardPCs, dbVars
  <2>2. ASSUME NEW exp, Become(h, [l EXCEPT !.pc = "loginInsert", !.exp = exp])
        PROVE  handler'[h].pc \notin GuardPCs
    <3>1. handler'[h].pc = "loginInsert"
      BY <1>0, <1>1, <2>2 DEF HandlerState
    <3> QED
      BY <3>1 DEF GuardPCs
  <2>3. handler'[h].pc \notin GuardPCs
    BY <1>0, <1>5, <2>2 DEF LoginVerify, Idle, GuardPCs
  <2> QED
    BY <2>1, <2>3, UnseenStep
<1>6. CASE RefreshUser(h)
  <2>1. l.pc \notin GuardPCs /\ sessions' = sessions
    BY <1>6 DEF RefreshUser, GuardPCs, dbVars
  <2>2. handler'[h].pc \in {"refreshExtend", "refreshRevoke"}
    BY <1>0, <1>1, <1>6 DEF RefreshUser, HandlerState
  <2>3. handler'[h].pc \notin GuardPCs
    BY <2>2 DEF GuardPCs
  <2> QED
    BY <2>1, <2>3, UnseenStep
<1>7. CASE RefreshRevoke(h) \/ LogoutRevoke(h) \/ UpdateRevoke(h)
  <2>1. PICK rows : RevokeRows(rows)
    BY <1>7 DEF RefreshRevoke, LogoutRevoke, UpdateRevoke
  <2>2. l.pc \notin GuardPCs
    BY <1>7 DEF RefreshRevoke, LogoutRevoke, UpdateRevoke, GuardPCs
  <2>3. handler'[h].pc \in {"idle", "audit"}
    <3>1. CASE RefreshRevoke(h)
      BY <1>0, <3>1 DEF RefreshRevoke, Return, Idle
    <3>2. CASE LogoutRevoke(h) \/ UpdateRevoke(h)
      BY <1>0, <1>1, <3>2 DEF LogoutRevoke, UpdateRevoke, HandlerState
    <3> QED
      BY <1>7, <3>1, <3>2
  <2>4. callBar' = callBar
    BY <2>2, <2>3, OutsideIs, CallRests DEF GuardPCs
  <2> QED
    BY <2>1, <2>4, RevokeCloses
<1>8. CASE RefreshExtend(h)
  <2>1. \A s \in SessionIds : Stored(s)' = Stored(s) /\ Revoked(s)' = Revoked(s)
    <3> SUFFICES ASSUME NEW s \in SessionIds
                 PROVE  Stored(s)' = Stored(s) /\ Revoked(s)' = Revoked(s)
      OBVIOUS
    <3>1. /\ l.session \in SessionIds /\ Stored(l.session) /\ l.exp \in Nat
          /\ sessions' = [sessions EXCEPT ![l.session].expiresAt = l.exp]
      BY <1>8, HoldsSession DEF RefreshExtend, SessionPCs, HandlerState
    <3>2. CASE s # l.session
      <4>1. sessions'[s] = sessions[s]
        BY <3>1, <3>2 DEF TypeInv, TypeOK
      <4> QED
        BY <4>1 DEF Stored, Revoked
    <3>3. CASE s = l.session
      <4>1. sessions[s] \in SessionRow
        BY <3>1, <3>3, RowOfStored DEF TypeInv
      <4>2. sessions'[s] = [sessions[s] EXCEPT !.expiresAt = l.exp]
        BY <3>1, <3>3 DEF TypeInv, TypeOK
      <4>3. sessions'[s] \in SessionRow /\ sessions'[s].revokedAt = sessions[s].revokedAt
        BY <3>1, <4>1, <4>2 DEF SessionRow
      <4> QED
        BY <4>1, <4>3 DEF Stored, Revoked
    <3> QED
      BY <3>2, <3>3
  <2>2. lifeBar' = lifeBar
    BY <2>1 DEF lifeBar
  <2>3. l.pc \notin GuardPCs
    BY <1>8 DEF RefreshExtend, GuardPCs
  <2>4. handler'[h].pc = "audit"
    BY <1>0, <1>1, <1>8 DEF RefreshExtend, HandlerState
  <2>5. callBar' = callBar
    BY <2>3, <2>4, OutsideIs, CallRests DEF GuardPCs
  <2> QED
    BY <2>2, <2>5
<1> QED
  BY <1>2, <1>3, <1>4, <1>5, <1>6, <1>7, <1>8 DEF Continue

\* For every number of users, sessions and handlers, the API's interleaved
\* statements implement the abstract life cycle: a session is closed for good,
\* and a call made after that is let in by no path.
THEOREM LifecycleImplemented == Spec => ImplementsLifecycle
<1>1. Init => Lifecycle!LifecycleInit
  BY DEF Init, Lifecycle!LifecycleInit, Lifecycle!Outside, lifeBar, callBar,
         Stored, Idle
<1>2. TypeInv /\ RevokedRequestsWait /\ [Next]_vars
        => [Lifecycle!LifecycleNext]_<<lifeBar, callBar>>
  <2> SUFFICES ASSUME TypeInv, RevokedRequestsWait, [Next]_vars
               PROVE  [Lifecycle!LifecycleNext]_<<lifeBar, callBar>>
    OBVIOUS
  <2>1. ASSUME NEW h \in Handlers, Abort(h)
        PROVE  [Lifecycle!LifecycleNext]_<<lifeBar, callBar>>
    BY <2>1, ReturnLeaves DEF Abort, dbVars
  <2>2. CASE Tick \/ UNCHANGED vars
    <3>1. sessions' = sessions /\ handler' = handler
      BY <2>2 DEF Tick, vars, dbVars
    <3> QED
      BY <3>1 DEF lifeBar, callBar, Stored, Revoked
  <2> QED
    BY <2>1, <2>2, BeginImplements, ContinueImplements DEF Next
<1>3. Spec => []TypeInv
  BY SessionsTyped DEF TypeInv
<1>4. Spec => []RevokedRequestsWait
  <2>1. Init => RevokedRequestsWait
    BY DEF Init, RevokedRequestsWait, Idle
  <2> QED
    BY <1>3, <2>1, RevokedRequestsWaitStep, PTL DEF Spec
<1> QED
  BY <1>1, <1>2, <1>3, <1>4, PTL
     DEF Spec, ImplementsLifecycle, Lifecycle!LifecycleSpec,
         Lifecycle!lifecycleVars

=============================================================================
