-------------------------------- MODULE Health --------------------------------
(***************************************************************************)
(* GET /health and /health/ready: HealthService.check asks the database    *)
(* through the connection pool and Redis at the same time, each raced      *)
(* against a timer, and reports when both have settled.                    *)
(*                                                                         *)
(* A probe that is timed out is only forgotten: its query keeps its place  *)
(* in the pool (max connections, a queue behind them, no timeout of its    *)
(* own) until the database answers it.  The handlers of the API share that *)
(* pool.                                                                   *)
(***************************************************************************)
EXTENDS Naturals, Sequences

CONSTANTS
    Checks,       \* slots for health requests being served (bound)
    PoolMax,      \* connections of the pool (10)
    Timeout,      \* ticks before a probe is given up (2000 ms)
    MaxQueries    \* bound: queries held or queued by the pool

ASSUME HealthAssumption ==
    /\ PoolMax \in Nat \ {0} /\ Timeout \in Nat \ {0} /\ MaxQueries \in Nat
    /\ "other" \notin Checks

VARIABLES
    database,     \* "up", "failing" (answers with errors) or "hung"
    pool,         \* queries, the first PoolMax of them with a connection: a
                  \* check that waits for its own, or "other"
    check         \* check[c]: a request being served

healthVars == <<database, pool, check>>

Conditions == {"up", "failing", "hung"}
Answers == {"pending", "up", "down"}
Verdicts == {"none", "healthy", "degraded", "unhealthy"}

Free == [busy |-> FALSE, database |-> "pending", redis |-> "pending", age |-> 0,
         verdict |-> "none",      \* reported last
         sawUp |-> FALSE,         \* history: the database was up meanwhile
         sawTrouble |-> FALSE]    \* history: it was not, or the pool was full

HealthTypeOK ==
    /\ database \in Conditions
    /\ pool \in Seq(Checks \union {"other"})
    /\ check \in [Checks -> [busy : BOOLEAN, database : Answers,
                             redis : Answers, age : 0..Timeout,
                             verdict : Verdicts, sawUp : BOOLEAN,
                             sawTrouble : BOOLEAN]]

HealthInit ==
    /\ database = "up"
    /\ pool = <<>>
    /\ check = [c \in Checks |-> Free]

-----------------------------------------------------------------------------
Connected == 1 .. (IF Len(pool) < PoolMax THEN Len(pool) ELSE PoolMax)

Without(i) == [j \in 1 .. (Len(pool) - 1) |-> pool[IF j < i THEN j ELSE j + 1]]

\* What a busy check has seen, once the database is in `condition` and the pool
\* holds `queries`.
Witnessed(record, condition, queries) ==
    IF ~ record.busy THEN record
    ELSE [record EXCEPT
            !.sawUp = @ \/ condition = "up",
            !.sawTrouble = @ \/ condition # "up" \/ Len(queries) > PoolMax]

\* check(): SELECT 1 through the pool, and PING.
CheckBegin(c) ==
    /\ ~ check[c].busy
    /\ Len(pool) < MaxQueries
    /\ pool' = Append(pool, c)
    /\ check' = [o \in Checks |->
          Witnessed(IF o = c THEN [Free EXCEPT !.busy = TRUE] ELSE check[o],
                    database, pool')]
    /\ UNCHANGED database

\* The query of a handler, which takes its turn like any other.
DomainQuery ==
    /\ Len(pool) < MaxQueries
    /\ pool' = Append(pool, "other")
    /\ check' = [o \in Checks |-> Witnessed(check[o], database, pool')]
    /\ UNCHANGED database

\* The database answers a query that has a connection, which is then free.
\* Only a check that still waits settles with the answer.
DatabaseAnswer(i) ==
    /\ i \in Connected
    /\ database # "hung"
    /\ check' = IF pool[i] \in Checks
                THEN [check EXCEPT ![pool[i]].database =
                         IF database = "up" THEN "up" ELSE "down"]
                ELSE check
    /\ pool' = Without(i)
    /\ UNCHANGED database

\* Mutant: a timer that resolves.
DatabaseTimeoutResolves(c) ==
    /\ check[c].busy /\ check[c].database = "pending" /\ check[c].age = Timeout
    /\ check' = [check EXCEPT ![c].database = "up"]
    /\ pool' = [i \in DOMAIN pool |-> IF pool[i] = c THEN "other" ELSE pool[i]]
    /\ UNCHANGED database

DatabaseTimeout(c) ==
    /\ check[c].busy /\ check[c].database = "pending" /\ check[c].age = Timeout
    /\ check' = [check EXCEPT ![c].database = "down"]
    /\ pool' = [i \in DOMAIN pool |-> IF pool[i] = c THEN "other" ELSE pool[i]]
    /\ UNCHANGED database

\* Redis answers, or rejects the command after its one retry.
RedisAnswer(c) ==
    /\ check[c].busy /\ check[c].redis = "pending"
    /\ \E answer \in {"up", "down"} :
          check' = [check EXCEPT ![c].redis = answer]
    /\ UNCHANGED <<database, pool>>

\* Mutant: the ping is awaited as it is.
NoRedisTimeout(c) == FALSE /\ UNCHANGED healthVars

RedisTimeout(c) ==
    /\ check[c].busy /\ check[c].redis = "pending" /\ check[c].age = Timeout
    /\ check' = [check EXCEPT ![c].redis = "down"]
    /\ UNCHANGED <<database, pool>>

\* The queues of the default configuration have no worker yet, and are reported
\* as degraded.
QueuesUp == FALSE

\* Mutant: any dependency that is down is an outage.
VerdictOfAll(record) ==
    IF record.database # "up" \/ record.redis # "up" THEN "unhealthy"
    ELSE IF ~ QueuesUp THEN "degraded"
    ELSE "healthy"

VerdictOf(record) ==
    IF record.database # "up" THEN "unhealthy"
    ELSE IF record.redis # "up" \/ ~ QueuesUp THEN "degraded"
    ELSE "healthy"

\* Both have settled: the answer is 503 for "unhealthy" and 200 otherwise.
Report(c) ==
    /\ check[c].busy
    /\ check[c].database # "pending" /\ check[c].redis # "pending"
    /\ check' = [check EXCEPT ![c] =
          [Free EXCEPT !.verdict = VerdictOf(check[c]),
                       !.sawUp = check[c].sawUp,
                       !.sawTrouble = check[c].sawTrouble]]
    /\ UNCHANGED <<database, pool>>

-----------------------------------------------------------------------------
(* The world.                                                              *)

DatabaseTurns ==
    /\ database' \in Conditions \ {database}
    /\ check' = [c \in Checks |-> Witnessed(check[c], database', pool)]
    /\ UNCHANGED pool

\* A tick passes, once a database that is up has answered the checks that have
\* a connection: the timers are long compared with a SELECT 1.
HealthTick ==
    /\ database = "up" => \A i \in Connected : pool[i] \notin Checks
    /\ check' = [c \in Checks |->
          IF check[c].busy /\ check[c].age < Timeout
          THEN [check[c] EXCEPT !.age = @ + 1] ELSE check[c]]
    /\ UNCHANGED <<database, pool>>

HealthStep ==
    \/ \E c \in Checks : \/ CheckBegin(c) \/ DatabaseTimeout(c)
                         \/ RedisAnswer(c) \/ RedisTimeout(c) \/ Report(c)
    \/ \E i \in Connected : DatabaseAnswer(i)
    \/ DomainQuery \/ DatabaseTurns

-----------------------------------------------------------------------------
\* A 200 of the readiness probe is true: the database was up at some moment of
\* the check that says so, whatever answers of earlier probes came late.
ServingIsTruthful ==
    \A c \in Checks :
       check[c].verdict \in {"healthy", "degraded"} => check[c].sawUp

\* A 503 takes the API out of service only for a database that was in trouble
\* during the check, or that it could not reach because the pool was full: never
\* for Redis or the queues (health.service.ts:58-61).
OutageIsExplained ==
    \A c \in Checks : check[c].verdict = "unhealthy" => check[c].sawTrouble

=============================================================================
