----------------------------- MODULE LoginLimiter -----------------------------
(***************************************************************************)
(* The rate limiter in front of AuthService.login: a RateLimiterMemory of  *)
(* the library rate-limiter-flexible, one counter for each IP in the       *)
(* memory of the process.  A counter opens a window with its first attempt *)
(* and is forgotten when that window ends; every attempt counts, whether   *)
(* it is refused, fails or logs in.                                        *)
(*                                                                         *)
(* Times are kept as ticks that are left or that have passed, so time has  *)
(* no bound.                                                               *)
(***************************************************************************)
EXTENDS Naturals

CONSTANTS
    IPs,
    Points,       \* attempts that a window admits (5)
    Duration,     \* ticks of a window (15 minutes)
    None          \* no counter

ASSUME LimiterAssumption ==
    /\ Points \in Nat \ {0} /\ Duration \in Nat \ {0}
    /\ None \notin [used : Nat, left : Nat]

VARIABLES
    counter,      \* counter[ip]: attempts used and ticks left of the window
    admitted,     \* history: admitted[ip][n] attempts were admitted in this
                  \* tick and the n before it
    refused       \* history: ip was refused in this tick

limiterVars == <<counter, admitted, refused>>

Ages == 0..(Duration - 1)

LimiterTypeOK ==
    /\ counter \in [IPs -> {None} \union
                      [used : 1..(Points + 1), left : 1..Duration]]
    /\ admitted \in [IPs -> [Ages -> Nat]]
    /\ refused \in [IPs -> BOOLEAN]

LimiterInit ==
    /\ counter = [ip \in IPs |-> None]
    /\ admitted = [ip \in IPs |-> [n \in Ages |-> 0]]
    /\ refused = [ip \in IPs |-> FALSE]

-----------------------------------------------------------------------------
\* Mutant: a refused attempt prolongs the window.
CountedAnew(ip) ==
    IF counter[ip] = None THEN [used |-> 1, left |-> Duration]
    ELSE [used |-> IF counter[ip].used > Points THEN Points + 1
                   ELSE counter[ip].used + 1,
          left |-> Duration]

\* The counter after one more attempt.  Past Points its value says no more, and
\* it is kept at Points + 1.
Counted(ip) ==
    IF counter[ip] = None THEN [used |-> 1, left |-> Duration]
    ELSE [counter[ip] EXCEPT !.used = IF @ > Points THEN @ ELSE @ + 1]

\* Mutant: the limit itself is let through.
AdmitsOneMore(count) == count.used <= Points + 1

\* consume resolves, or rejects.
Admits(count) == count.used <= Points

\* consumeLogin, the first thing that login does: an attempt either goes on to
\* the credentials or ends with RATE_LIMITED.
Attempt(ip) ==
    LET count == Counted(ip) IN
    /\ counter' = [counter EXCEPT ![ip] = count]
    /\ IF Admits(count)
       THEN /\ admitted' = [admitted EXCEPT ![ip] = [n \in Ages |-> @[n] + 1]]
            /\ UNCHANGED refused
       ELSE /\ refused' = [refused EXCEPT ![ip] = TRUE]
            /\ UNCHANGED admitted

\* Mutant: a window is forgotten one tick late.
LimiterTickLate ==
    /\ counter' = [ip \in IPs |->
          IF counter[ip] = None \/ counter[ip].left = 0 THEN None
          ELSE [counter[ip] EXCEPT !.left = @ - 1]]
    /\ admitted' = [ip \in IPs |->
          [n \in Ages |-> IF n = 0 THEN 0 ELSE admitted[ip][n - 1]]]
    /\ refused' = [ip \in IPs |-> FALSE]

\* A tick passes: windows that end are forgotten.
LimiterTick ==
    /\ counter' = [ip \in IPs |->
          IF counter[ip] = None \/ counter[ip].left = 1 THEN None
          ELSE [counter[ip] EXCEPT !.left = @ - 1]]
    /\ admitted' = [ip \in IPs |->
          [n \in Ages |-> IF n = 0 THEN 0 ELSE admitted[ip][n - 1]]]
    /\ refused' = [ip \in IPs |-> FALSE]

-----------------------------------------------------------------------------
\* "5 tentativas / 15 min por IP" (auth.service.ts:41) is a promise about fixed
\* windows.  About any 15 minutes of one process the code keeps this one: fewer
\* than twice the points are admitted, the end of one window and the whole next.
AdmissionsAreBounded ==
    \A ip \in IPs : admitted[ip][Duration - 1] < 2 * Points

\* An IP is refused only after its points were used up less than a window ago:
\* going on while refused does not keep it out any longer.
RefusalIsEarned ==
    \A ip \in IPs : refused[ip] => admitted[ip][Duration - 1] >= Points

=============================================================================
