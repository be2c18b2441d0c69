------------------------------ MODULE ApiProcess ------------------------------
(***************************************************************************)
(* What one process of the API keeps in memory and nowhere else: the login *)
(* limiter and the health checks being served.  They share its clock, and  *)
(* its end: a restart forgets both.                                        *)
(***************************************************************************)
EXTENDS LoginLimiter, Health

vars == <<limiterVars, healthVars>>

TypeOK == LimiterTypeOK /\ HealthTypeOK

Init == LimiterInit /\ HealthInit

Tick == LimiterTick /\ HealthTick

\* The process stops and another one starts: its connections end with it.
Restart ==
    /\ counter' = [ip \in IPs |-> None]
    /\ admitted' = [ip \in IPs |-> [n \in Ages |-> 0]]
    /\ refused' = [ip \in IPs |-> FALSE]
    /\ pool' = <<>>
    /\ check' = [c \in Checks |-> Free]
    /\ UNCHANGED database

Next ==
    \/ \E ip \in IPs : Attempt(ip) /\ UNCHANGED healthVars
    \/ HealthStep /\ UNCHANGED limiterVars
    \/ Tick
    \/ Restart

Spec == Init /\ [][Next]_vars

\* Time passes (strongly fair, for a database that goes up and down may keep it
\* waiting again and again), timers fire, settled checks are reported, and a
\* database that stays up answers.  Redis owes no answer.
Fairness ==
    /\ SF_vars(Tick)
    /\ WF_vars(\E i \in Connected : DatabaseAnswer(i) /\ UNCHANGED limiterVars)
    /\ \A c \in Checks :
          /\ WF_vars(DatabaseTimeout(c) /\ UNCHANGED limiterVars)
          /\ WF_vars(RedisTimeout(c) /\ UNCHANGED limiterVars)
          /\ WF_vars(Report(c) /\ UNCHANGED limiterVars)

FairSpec == Spec /\ Fairness

-----------------------------------------------------------------------------
\* Every health request is answered, however long the database or Redis take:
\* the container health check of docker-compose waits for it.
EveryCheckIsReported ==
    \A c \in Checks : check[c].busy ~> ~ check[c].busy

=============================================================================
