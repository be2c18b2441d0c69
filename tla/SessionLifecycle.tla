-------------------------- MODULE SessionLifecycle --------------------------
(***************************************************************************)
(* What CrewOps promises about login sessions, apart from how it keeps the *)
(* promise.  A session is opened once, closed at most once and never       *)
(* reopened; a call made under a session is let in only if the session was *)
(* open when the call arrived (identity-access/spec.md, "Sessao revogada": *)
(* new authenticated calls of a revoked session are refused).  Sessions.tla*)
(* shows that the API's handlers, interleaved query by query, implement it.*)
(***************************************************************************)

CONSTANTS
    SessionIds,   \* session rows that may ever be created
    Calls,        \* slots for concurrent authenticated calls
    Nobody        \* the session of a slot that holds no call

VARIABLES
    life,         \* life[s]: "unborn", "open" or "closed"
    call          \* call[c]: where the call is, its session, and whether that
                  \* session was open when the call arrived

lifecycleVars == <<life, call>>

Outside == [at |-> "outside", session |-> Nobody, entitled |-> FALSE]

LifecycleInit ==
    /\ life = [s \in SessionIds |-> "unborn"]
    /\ call = [c \in Calls |-> Outside]

Open(s) ==
    /\ life[s] = "unborn"
    /\ life' = [life EXCEPT ![s] = "open"]
    /\ UNCHANGED call

\* One update may close several sessions: a logout closes one, a change to a
\* user closes all of them.
Close(S) ==
    /\ \A s \in S : life[s] = "open"
    /\ life' = [s \in SessionIds |-> IF s \in S THEN "closed" ELSE life[s]]
    /\ UNCHANGED call

Arrive(c, s) ==
    /\ call[c] = Outside
    /\ life[s] # "unborn"
    /\ call' = [call EXCEPT ![c] = [at       |-> "waiting",
                                    session  |-> s,
                                    entitled |-> life[s] = "open"]]
    /\ UNCHANGED life

Admit(c) ==
    /\ call[c].at = "waiting"
    /\ call[c].entitled
    /\ call' = [call EXCEPT ![c].at = "inside"]
    /\ UNCHANGED life

Leave(c) ==
    /\ call[c].at # "outside"
    /\ call' = [call EXCEPT ![c] = Outside]
    /\ UNCHANGED life

LifecycleNext ==
    \/ \E s \in SessionIds : Open(s)
    \/ \E S \in SUBSET SessionIds : Close(S)
    \/ \E c \in Calls, s \in SessionIds : Arrive(c, s)
    \/ \E c \in Calls : Admit(c) \/ Leave(c)

LifecycleSpec == LifecycleInit /\ [][LifecycleNext]_lifecycleVars

=============================================================================
