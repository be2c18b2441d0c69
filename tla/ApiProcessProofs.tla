--------------------------- MODULE ApiProcessProofs ---------------------------
(***************************************************************************)
(* Theorems about ApiProcess, for any number of addresses and checks, any  *)
(* points, window, pool and timeout.                                       *)
(*                                                                         *)
(* The limiter and the health checks meet in Tick and Restart only, so     *)
(* each has an invariant of its own.                                       *)
(***************************************************************************)
EXTENDS ApiProcess, TLAPS

-----------------------------------------------------------------------------
(* The limiter.                                                            *)

\* The attempts that a count has admitted.
Spent(count) == IF count.used > Points THEN Points ELSE count.used

\* The attempts of a window are those younger than the window, but for its
\* first, which is exactly as old; the earlier ones come to fewer than Points.
InWindow(count, byAge) ==
    LET age == Duration - count.left IN
    \A n \in Ages :
       /\ n < age => byAge[n] < Spent(count)
       /\ n = age => byAge[n] = Spent(count)
       /\ n > age => /\ byAge[n] >= Spent(count)
                     /\ byAge[n] < Spent(count) + Points

\* Without a window nothing was admitted in this tick, and the attempts that are
\* still remembered are of a window that has lost its first.
BetweenWindows(byAge) ==
    byAge[0] = 0 /\ \A n \in Ages : byAge[n] < Points

LimiterInv ==
    \A ip \in IPs :
       /\ counter[ip] = None => BetweenWindows(admitted[ip])
       /\ counter[ip] # None => InWindow(counter[ip], admitted[ip])
       /\ refused[ip] => counter[ip] # None /\ counter[ip].used > Points

\* The ages of an attempt are those of a window.
LEMMA AgesType == /\ 0 \in Ages /\ Duration - 1 \in Ages /\ Ages \subseteq Nat
                  /\ \A n \in Ages : n # 0 => n - 1 \in Ages
BY LimiterAssumption DEF Ages

Counter == [used : 1..(Points + 1), left : 1..Duration]

\* An attempt opens a window or counts in the one that is open.
LEMMA CountedType ==
    ASSUME LimiterTypeOK, NEW ip \in IPs
    PROVE  /\ Counted(ip) \in Counter /\ Counted(ip) # None
           /\ counter[ip] = None => /\ Counted(ip).used = 1
                                    /\ Counted(ip).left = Duration
           /\ counter[ip] # None =>
                 /\ Counted(ip).left = counter[ip].left
                 /\ counter[ip].used > Points =>
                       Counted(ip).used = counter[ip].used
                 /\ counter[ip].used <= Points =>
                       Counted(ip).used = counter[ip].used + 1
<1>1. \A r \in Counter : r # None
  BY LimiterAssumption DEF Counter
<1>2. CASE counter[ip] = None
  BY <1>1, <1>2, LimiterAssumption DEF Counted, Counter
<1>3. CASE counter[ip] # None
  <2>1. counter[ip] \in Counter
    BY <1>3 DEF LimiterTypeOK, Counter
  <2>2. CASE counter[ip].used > Points
    <3> DEFINE used == counter[ip].used
    <3>1. Counted(ip) = [counter[ip] EXCEPT !.used = used]
      BY <1>3, <2>2 DEF Counted
    <3>2. used \in 1..(Points + 1) /\ used > Points
      BY <2>1, <2>2 DEF Counter
    <3> HIDE DEF used
    <3>3. /\ Counted(ip) \in Counter
          /\ Counted(ip).used = used /\ Counted(ip).left = counter[ip].left
      BY <2>1, <3>1, <3>2 DEF Counter
    <3>4. counter[ip].used = used
      BY DEF used
    <3> QED
      BY <1>1, <1>3, <3>2, <3>3, <3>4, LimiterAssumption
  <2>3. CASE counter[ip].used <= Points
    <3>1. Counted(ip) = [counter[ip] EXCEPT !.used = counter[ip].used + 1]
      BY <1>3, <2>1, <2>3, LimiterAssumption DEF Counted, Counter
    <3> QED
      BY <1>1, <1>3, <2>1, <2>3, <3>1, LimiterAssumption DEF Counter
  <2> QED
    BY <2>1, <2>2, <2>3, LimiterAssumption DEF Counter
<1> QED
  BY <1>2, <1>3

\* An attempt touches the counter and the history of its address only.
LEMMA AttemptEffect ==
    ASSUME LimiterTypeOK, NEW ip \in IPs, Attempt(ip)
    PROVE  /\ LimiterTypeOK'
           /\ \A o \in IPs \ {ip} : /\ counter'[o] = counter[o]
                                    /\ admitted'[o] = admitted[o]
                                    /\ refused'[o] = refused[o]
           /\ counter'[ip] = Counted(ip)
           /\ Counted(ip).used <= Points =>
                 /\ admitted'[ip] = [n \in Ages |-> admitted[ip][n] + 1]
                 /\ refused'[ip] = refused[ip]
           /\ Counted(ip).used > Points => admitted'[ip] = admitted[ip]
<1>1. Counted(ip) \in Counter
  BY CountedType
<1>2. /\ counter' = [counter EXCEPT ![ip] = Counted(ip)]
      /\ counter \in [IPs -> {None} \union Counter]
  BY DEF Attempt, LimiterTypeOK, Counter
<1>3. counter' \in [IPs -> {None} \union Counter]
  BY <1>1, <1>2
<1>4. CASE Counted(ip).used <= Points
  <2> DEFINE more == [n \in Ages |-> admitted[ip][n] + 1]
  <2>1. /\ admitted' = [admitted EXCEPT ![ip] = more] /\ refused' = refused
    BY <1>4 DEF Attempt, Admits
  <2>2. more \in [Ages -> Nat]
    BY DEF LimiterTypeOK
  <2> HIDE DEF more
  <2>3. /\ admitted' \in [IPs -> [Ages -> Nat]] /\ admitted'[ip] = more
        /\ \A o \in IPs \ {ip} : admitted'[o] = admitted[o]
    BY <2>1, <2>2 DEF LimiterTypeOK
  <2>4. Counted(ip).used > Points => FALSE
    BY <1>1, <1>4, LimiterAssumption DEF Counter
  <2> QED
    BY <1>2, <1>3, <2>1, <2>3, <2>4 DEF LimiterTypeOK, Counter, more
<1>5. CASE ~ (Counted(ip).used <= Points)
  BY <1>1, <1>2, <1>3, <1>5, LimiterAssumption
     DEF Attempt, Admits, LimiterTypeOK, Counter
<1> QED
  BY <1>4, <1>5

\* An attempt counts in the window and in the history alike, while it is
\* admitted; a refused one in neither.
LEMMA AttemptKeeps ==
    ASSUME LimiterTypeOK, LimiterInv, NEW ip \in IPs, Attempt(ip)
    PROVE  LimiterInv'
<1> DEFINE byAge == admitted[ip]
           count == Counted(ip)
           more == [n \in Ages |-> byAge[n] + 1]
<1>1. /\ byAge \in [Ages -> Nat] /\ count \in Counter /\ count # None
  BY CountedType DEF LimiterTypeOK
<1>2. CASE count.used <= Points
  <2>1. counter'[ip] = count /\ admitted'[ip] = more /\ refused'[ip] = refused[ip]
    BY <1>2, AttemptEffect
  <2>2. InWindow(count, more)
    <3>1. CASE counter[ip] = None
      <4>1. BetweenWindows(byAge) /\ count.used = 1 /\ count.left = Duration
        BY <3>1, CountedType DEF LimiterInv
      <4> HIDE DEF count
      <4> QED
        BY <1>1, <4>1, LimiterAssumption
           DEF InWindow, BetweenWindows, Spent, Ages, Counter
    <3>2. CASE counter[ip] # None
      <4>1. /\ InWindow(counter[ip], byAge) /\ counter[ip] \in Counter
            /\ counter[ip].used <= Points /\ count.used = counter[ip].used + 1
            /\ count.left = counter[ip].left
        BY <1>2, <3>2, CountedType, LimiterAssumption
           DEF LimiterInv, LimiterTypeOK, Counter
      <4>2. /\ Spent(count) = Spent(counter[ip]) + 1
            /\ Spent(counter[ip]) \in Nat
        BY <1>1, <1>2, <4>1, LimiterAssumption DEF Spent, Counter
      <4>3. \A n \in Ages : more[n] = byAge[n] + 1 /\ byAge[n] \in Nat
        BY <1>1
      <4> HIDE DEF count, more, byAge
      <4>4. Duration - count.left \in Nat
        BY <1>1, LimiterAssumption DEF Counter
      <4> QED
        BY <4>1, <4>2, <4>3, <4>4, LimiterAssumption DEF InWindow, Ages
    <3> QED
      BY <3>1, <3>2
  <2>3. ~ refused[ip]
    BY <1>1, <1>2, CountedType, LimiterAssumption
       DEF LimiterInv, LimiterTypeOK, Counter
  <2> QED
    BY <1>1, <2>1, <2>2, <2>3, AttemptEffect DEF LimiterInv
<1>3. CASE count.used > Points
  <2>1. counter'[ip] = count /\ admitted'[ip] = byAge
    BY <1>3, AttemptEffect
  <2>2. /\ counter[ip] # None /\ counter[ip] \in Counter
        /\ counter[ip].used >= Points /\ count.left = counter[ip].left
    <3>1. counter[ip] # None
      BY <1>3, CountedType, LimiterAssumption
    <3>2. counter[ip] \in Counter
      BY <3>1 DEF LimiterTypeOK, Counter
    <3>3. counter[ip].used >= Points
      <4> SUFFICES ASSUME counter[ip].used < Points PROVE FALSE
        BY <3>2, LimiterAssumption DEF Counter
      <4>1. count.used = counter[ip].used + 1
        BY <3>1, <3>2, CountedType, LimiterAssumption DEF Counter
      <4> QED
        BY <1>3, <3>2, <4>1, LimiterAssumption DEF Counter
    <3> QED
      BY <3>1, <3>2, <3>3, CountedType
  <2>3. InWindow(counter[ip], byAge) /\ Spent(count) = Spent(counter[ip])
    <3>1. InWindow(counter[ip], byAge)
      BY <2>2 DEF LimiterInv
    <3>2. Spent(count) = Points
      BY <1>3 DEF Spent
    <3>3. counter[ip].used \in Nat
      BY <2>2, LimiterAssumption DEF Counter
    <3>4. Spent(counter[ip]) = Points
      BY <2>2, <3>3, LimiterAssumption DEF Spent
    <3> QED
      BY <3>1, <3>2, <3>4
  <2>4. InWindow(count, byAge)
    BY <2>2, <2>3 DEF InWindow
  <2> HIDE DEF count, byAge
  <2>5. counter'[ip] # None /\ counter'[ip].used > Points
    BY <1>1, <1>3, <2>1
  <2>6. \A o \in IPs \ {ip} : /\ counter'[o] = counter[o]
                               /\ admitted'[o] = admitted[o]
                               /\ refused'[o] = refused[o]
    BY AttemptEffect
  <2> QED
    BY <2>1, <2>4, <2>5, <2>6 DEF LimiterInv
<1> QED
  BY <1>1, <1>2, <1>3, LimiterAssumption DEF Counter

\* A tick makes the window and the attempts a tick older; the window that ends
\* leaves fewer attempts than points.
LEMMA LimiterTickKeeps ==
    ASSUME LimiterTypeOK, LimiterInv, LimiterTick
    PROVE  LimiterTypeOK' /\ LimiterInv'
<1>1. ASSUME NEW ip \in IPs
      PROVE  /\ counter'[ip] \in {None} \union Counter
             /\ admitted'[ip] \in [Ages -> Nat] /\ refused'[ip] = FALSE
             /\ counter'[ip] = None => BetweenWindows(admitted'[ip])
             /\ counter'[ip] # None => InWindow(counter'[ip], admitted'[ip])
  <2> DEFINE byAge == admitted[ip]
             older == admitted'[ip]
  <2>1. /\ older = [n \in Ages |-> IF n = 0 THEN 0 ELSE byAge[n - 1]]
        /\ refused'[ip] = FALSE /\ byAge \in [Ages -> Nat]
    BY DEF LimiterTick, LimiterTypeOK
  <2>2. /\ older \in [Ages -> Nat] /\ older[0] = 0
        /\ \A n \in Ages : n # 0 => n - 1 \in Ages /\ older[n] = byAge[n - 1]
    BY <2>1, AgesType
  <2> HIDE DEF byAge, older
  <2>3. CASE counter[ip] = None
    <3>1. counter'[ip] = None /\ BetweenWindows(byAge)
      BY <2>3 DEF LimiterTick, LimiterInv, byAge
    <3>2. BetweenWindows(older)
      BY <2>1, <2>2, <3>1, LimiterAssumption DEF BetweenWindows
    <3> QED
      BY <2>1, <2>2, <3>1, <3>2 DEF older
  <2>4. CASE counter[ip] # None
    <3> DEFINE old == counter[ip]
               count == counter'[ip]
    <3>1. old \in Counter /\ InWindow(old, byAge) /\ old # None
      BY <2>4 DEF LimiterTypeOK, LimiterInv, Counter, byAge
    <3>2. CASE old.left = 1
      <4>1. count = None
        BY <3>2 DEF LimiterTick
      <4> HIDE DEF old, count
      <4>2. /\ Spent(old) \in Nat /\ Spent(old) <= Points
            /\ Duration - old.left = Duration - 1
        BY <3>1, <3>2, LimiterAssumption DEF Spent, Counter
      <4>3. \A n \in Ages : n # Duration - 1 => byAge[n] < Spent(old)
        BY <3>1, <4>2, LimiterAssumption DEF InWindow, Ages
      <4>4. \A n \in Ages : n # 0 => n - 1 \in Ages /\ n - 1 # Duration - 1
        BY LimiterAssumption DEF Ages
      <4>5. \A n \in Ages : n # 0 => older[n] < Spent(old) /\ older[n] \in Nat
        BY <2>2, <4>3, <4>4
      <4>6. BetweenWindows(older)
        BY <2>2, <4>2, <4>5, LimiterAssumption DEF BetweenWindows
      <4> QED
        BY <2>1, <2>2, <4>1, <4>6 DEF older, count
    <3>3. CASE old.left # 1
      <4> DEFINE left == old.left
      <4>1. count = [old EXCEPT !.left = left - 1]
        BY <3>1, <3>3 DEF LimiterTick
      <4>2. left \in 2..Duration
        BY <3>1, <3>3, LimiterAssumption DEF Counter
      <4> HIDE DEF old, count, left
      <4>3. /\ count \in Counter /\ count.used = old.used
            /\ count.left = left - 1
        BY <3>1, <4>1, <4>2, LimiterAssumption DEF Counter
      <4>4. /\ Spent(old) \in Nat \ {0} /\ Spent(count) = Spent(old)
        BY <3>1, <4>3, LimiterAssumption DEF Spent, Counter
      <4>5. /\ Duration - count.left = (Duration - old.left) + 1
            /\ Duration - old.left \in Nat
        BY <4>2, <4>3, LimiterAssumption DEF left
      <4>6. \A n \in Ages :
               /\ n < Duration - old.left => byAge[n] < Spent(old)
               /\ n = Duration - old.left => byAge[n] = Spent(old)
               /\ n > Duration - old.left => /\ byAge[n] >= Spent(old)
                                             /\ byAge[n] < Spent(old) + Points
        BY <3>1 DEF InWindow
      <4> DEFINE age == Duration - old.left
      <4> HIDE DEF age
      <4>7. \A n \in Ages :
               /\ n < age + 1 => older[n] < Spent(old)
               /\ n = age + 1 => older[n] = Spent(old)
               /\ n > age + 1 => /\ older[n] >= Spent(old)
                                 /\ older[n] < Spent(old) + Points
        <5> TAKE n \in Ages
        <5>1. age \in Nat /\ n \in Nat
          BY <4>5, AgesType DEF age
        <5>2. CASE n = 0
          BY <2>2, <4>4, <5>1, <5>2
        <5>3. CASE n # 0
          BY <2>2, <4>6, <5>1, <5>3 DEF age
        <5> QED
          BY <5>2, <5>3
      <4>8. InWindow(count, older)
        BY <4>4, <4>5, <4>7 DEF InWindow, age
      <4>9. count # None
        BY <4>3, LimiterAssumption DEF Counter
      <4> QED
        BY <2>1, <2>2, <4>3, <4>8, <4>9 DEF older, count
    <3> QED
      BY <3>2, <3>3
  <2> QED
    BY <2>3, <2>4
<1>2. /\ counter' = [ip \in IPs |-> counter'[ip]]
      /\ admitted' = [ip \in IPs |-> admitted'[ip]]
      /\ refused' = [ip \in IPs |-> FALSE]
  BY DEF LimiterTick
<1>3. LimiterTypeOK'
  BY <1>1, <1>2 DEF LimiterTypeOK, Counter
<1> QED
  BY <1>1, <1>3 DEF LimiterInv

\* A process begins without counters and without a past.
LEMMA LimiterForgets ==
    ASSUME counter' = [ip \in IPs |-> None],
           admitted' = [ip \in IPs |-> [n \in Ages |-> 0]],
           refused' = [ip \in IPs |-> FALSE]
    PROVE  LimiterTypeOK' /\ LimiterInv'
BY LimiterAssumption, AgesType DEF LimiterTypeOK, LimiterInv, BetweenWindows

\* What the two properties say is the invariant at the greatest age.
LEMMA LimiterInvImplies ==
    ASSUME LimiterTypeOK, LimiterInv
    PROVE  AdmissionsAreBounded /\ RefusalIsEarned
<1> SUFFICES ASSUME NEW ip \in IPs
             PROVE  /\ admitted[ip][Duration - 1] < 2 * Points
                    /\ refused[ip] => admitted[ip][Duration - 1] >= Points
  BY DEF AdmissionsAreBounded, RefusalIsEarned
<1> DEFINE byAge == admitted[ip]
           n == Duration - 1
<1>1. byAge \in [Ages -> Nat] /\ n \in Ages
  BY AgesType DEF LimiterTypeOK
<1>2. CASE counter[ip] = None
  <2>1. byAge[n] < Points /\ ~ refused[ip]
    BY <1>1, <1>2 DEF LimiterInv, BetweenWindows
  <2> QED
    BY <1>1, <2>1, LimiterAssumption
<1>3. CASE counter[ip] # None
  <2> DEFINE count == counter[ip]
  <2>1. /\ count \in Counter /\ InWindow(count, byAge)
        /\ refused[ip] => count.used > Points
    BY <1>3 DEF LimiterInv, LimiterTypeOK, Counter
  <2> HIDE DEF count, byAge
  <2>2. /\ Spent(count) <= Points /\ Spent(count) \in Nat
        /\ count.used > Points => Spent(count) = Points
        /\ n >= Duration - count.left /\ Duration - count.left \in Nat
    BY <2>1, LimiterAssumption DEF Spent, Counter
  <2>3. byAge[n] >= Spent(count) /\ byAge[n] < Spent(count) + Points
    BY <1>1, <2>1, <2>2, AgesType, LimiterAssumption DEF InWindow
  <2> QED
    BY <1>1, <2>1, <2>2, <2>3, LimiterAssumption DEF byAge
<1> QED
  BY <1>2, <1>3

-----------------------------------------------------------------------------
(* The health checks.                                                      *)

CheckRecord == [busy : BOOLEAN, database : Answers, redis : Answers,
                age : 0..Timeout, verdict : Verdicts, sawUp : BOOLEAN,
                sawTrouble : BOOLEAN]

\* What a check has in hand has a cause it has seen: an answer of the database,
\* a wait of a tick or more, a verdict.
Grounded(record) ==
    /\ record.busy =>
          /\ record.database = "up" => record.sawUp
          /\ record.database = "down" => record.sawTrouble
          /\ record.database = "pending" /\ record.age > 0 => record.sawTrouble
    /\ record.verdict \in {"healthy", "degraded"} => record.sawUp
    /\ record.verdict = "unhealthy" => record.sawTrouble

\* A busy check has seen what holds now.
Sees(record, condition, queries) ==
    record.busy =>
       /\ condition = "up" => record.sawUp
       /\ condition # "up" \/ Len(queries) > PoolMax => record.sawTrouble

Waits(record) == record.busy /\ record.database = "pending"

\* The checks in the pool are those that wait for it, each of them once.
PoolInv(queries, checks) ==
    /\ \A i \in 1..Len(queries) :
          queries[i] \in Checks => Waits(checks[queries[i]])
    /\ \A i, j \in 1..Len(queries) :
          queries[i] = queries[j] /\ queries[i] \in Checks => i = j
    /\ \A c \in Checks :
          Waits(checks[c]) => \E i \in 1..Len(queries) : queries[i] = c

HealthInv ==
    /\ \A c \in Checks : /\ Grounded(check[c])
                         /\ Sees(check[c], database, pool)
    /\ PoolInv(pool, check)

\* A check that witnesses a moment keeps its grounds and its place.
LEMMA WitnessedKeeps ==
    ASSUME NEW record \in CheckRecord, Grounded(record),
           NEW condition, NEW queries
    PROVE  LET seen == Witnessed(record, condition, queries) IN
           /\ seen \in CheckRecord /\ Grounded(seen)
           /\ Sees(seen, condition, queries)
           /\ Waits(seen) <=> Waits(record)
<1> DEFINE seen == Witnessed(record, condition, queries)
<1>1. CASE ~ record.busy
  <2>1. seen = record
    BY <1>1 DEF Witnessed
  <2> QED
    BY <1>1, <2>1 DEF Sees
<1>2. CASE record.busy
  <2> DEFINE up == record.sawUp \/ condition = "up"
             trouble == \/ record.sawTrouble \/ condition # "up"
                        \/ Len(queries) > PoolMax
  <2>1. seen = [record EXCEPT !.sawUp = up, !.sawTrouble = trouble]
    BY <1>2 DEF Witnessed
  <2>2. /\ up \in BOOLEAN /\ trouble \in BOOLEAN
        /\ record.sawUp => up
        /\ record.sawTrouble => trouble
        /\ condition = "up" => up
        /\ condition # "up" \/ Len(queries) > PoolMax => trouble
    OBVIOUS
  <2> HIDE DEF up, trouble
  <2>3. /\ seen \in CheckRecord /\ seen.sawUp = up /\ seen.sawTrouble = trouble
        /\ seen.busy = record.busy /\ seen.database = record.database
        /\ seen.age = record.age /\ seen.verdict = record.verdict
    BY <2>1, <2>2 DEF CheckRecord
  <2> HIDE DEF seen
  <2> QED
    BY <2>2, <2>3 DEF Grounded, Sees, Waits, seen
<1> QED
  BY <1>1, <1>2

\* A slot that serves no check has nothing to account for.
LEMMA FreeIsGrounded == Free \in CheckRecord /\ Grounded(Free) /\ ~ Free.busy
BY HealthAssumption DEF Free, CheckRecord, Grounded, Answers, Verdicts

\* Query i leaves the pool, and the queries behind it move up.
LEMMA WithoutKeeps ==
    ASSUME HealthTypeOK, NEW i \in 1..Len(pool)
    PROVE  /\ Without(i) \in Seq(Checks \union {"other"})
           /\ Len(Without(i)) = Len(pool) - 1
           /\ \A j \in 1..Len(Without(i)) : \E k \in 1..Len(pool) :
                 /\ k = (IF j < i THEN j ELSE j + 1)
                 /\ k # i /\ Without(i)[j] = pool[k]
           /\ \A k \in 1..Len(pool) : k # i =>
                 \E j \in 1..Len(Without(i)) : Without(i)[j] = pool[k]
<1> DEFINE E == Checks \union {"other"}
           n == Len(pool) - 1
<1>1. pool \in Seq(E) /\ n \in Nat /\ Len(pool) \in Nat
  BY DEF HealthTypeOK
<1>2. \A j \in 1..n : (IF j < i THEN j ELSE j + 1) \in 1..Len(pool)
  BY <1>1
<1>3. \A k \in 1..Len(pool) : pool[k] \in E
  BY <1>1
<1> HIDE DEF E
<1>4. Without(i) \in [1..n -> E]
  BY <1>2, <1>3 DEF Without
<1>5. Without(i) \in Seq(E) /\ Len(Without(i)) = n
  BY <1>1, <1>4
<1>6. ASSUME NEW j \in 1..n
      PROVE  Without(i)[j] = pool[IF j < i THEN j ELSE j + 1]
  BY DEF Without
<1>7. ASSUME NEW k \in 1..Len(pool), k # i
      PROVE  \E j \in 1..n : Without(i)[j] = pool[k]
  <2>1. CASE k < i
    BY <1>1, <1>6, <2>1
  <2>2. CASE k > i
    <3>1. k - 1 \in 1..n /\ ~ (k - 1 < i) /\ (k - 1) + 1 = k
      BY <1>1, <2>2
    <3> QED
      BY <1>6, <3>1
  <2> QED
    BY <1>7, <2>1, <2>2
<1>8. ASSUME NEW j \in 1..n
      PROVE  \E k \in 1..Len(pool) : /\ k = (IF j < i THEN j ELSE j + 1)
                                     /\ k # i /\ Without(i)[j] = pool[k]
  BY <1>1, <1>2, <1>6
<1> QED
  BY <1>5, <1>7, <1>8 DEF E

\* The pool is told of no more than who waits.
LEMMA PoolInvOfWaits ==
    ASSUME NEW queries, NEW before, NEW after, PoolInv(queries, before),
           \A c \in Checks : Waits(after[c]) <=> Waits(before[c])
    PROVE  PoolInv(queries, after)
<1> HIDE DEF Waits
<1> QED
  BY DEF PoolInv

\* A step that grounds one check anew and leaves it waiting, or not, as it was.
LEMMA OneCheckKeeps ==
    ASSUME HealthTypeOK, HealthInv, NEW c \in Checks, NEW record \in CheckRecord,
           Grounded(record), Sees(record, database, pool),
           Waits(record) <=> Waits(check[c]),
           check' = [check EXCEPT ![c] = record],
           UNCHANGED <<database, pool>>
    PROVE  HealthTypeOK' /\ HealthInv'
<1>1. check \in [Checks -> CheckRecord]
  BY DEF HealthTypeOK, CheckRecord
<1>2. /\ check' \in [Checks -> CheckRecord] /\ check'[c] = record
      /\ \A o \in Checks \ {c} : check'[o] = check[o]
  BY <1>1
<1>3. HealthTypeOK'
  BY <1>2 DEF HealthTypeOK, CheckRecord
<1>4. PoolInv(pool, check')
  BY <1>2, PoolInvOfWaits DEF HealthInv
<1> QED
  BY <1>2, <1>3, <1>4 DEF HealthInv

\* What Redis answers, or does not, is no ground of the database probe.
LEMMA RedisAnswerKeeps ==
    ASSUME HealthTypeOK, HealthInv, NEW c \in Checks,
           RedisAnswer(c) \/ RedisTimeout(c)
    PROVE  HealthTypeOK' /\ HealthInv'
<1>1. PICK answer \in {"up", "down"} :
         /\ check' = [check EXCEPT ![c].redis = answer]
         /\ UNCHANGED <<database, pool>>
  BY DEF RedisAnswer, RedisTimeout
<1> DEFINE old == check[c]
           record == [old EXCEPT !.redis = answer]
<1>2. old \in CheckRecord /\ Grounded(old) /\ Sees(old, database, pool)
  BY DEF HealthTypeOK, HealthInv, CheckRecord
<1>3. check' = [check EXCEPT ![c] = record]
  BY <1>1
<1> HIDE DEF old
<1>4. /\ record \in CheckRecord /\ record.busy = old.busy
      /\ record.database = old.database /\ record.age = old.age
      /\ record.verdict = old.verdict /\ record.sawUp = old.sawUp
      /\ record.sawTrouble = old.sawTrouble
  BY <1>2 DEF CheckRecord, Answers
<1> HIDE DEF record
<1>5. /\ Grounded(record) /\ Sees(record, database, pool)
      /\ Waits(record) <=> Waits(old)
  BY <1>2, <1>4 DEF Grounded, Sees, Waits
<1> QED
  BY <1>1, <1>3, <1>4, <1>5, OneCheckKeeps DEF old

\* A verdict has the grounds of the answer that it is made of.
LEMMA ReportKeeps ==
    ASSUME HealthTypeOK, HealthInv, NEW c \in Checks, Report(c)
    PROVE  HealthTypeOK' /\ HealthInv'
<1> DEFINE old == check[c]
           verdict == VerdictOf(old)
           up == old.sawUp
           trouble == old.sawTrouble
           record == [Free EXCEPT !.verdict = verdict, !.sawUp = up,
                                  !.sawTrouble = trouble]
<1>1. /\ check' = [check EXCEPT ![c] = record] /\ UNCHANGED <<database, pool>>
      /\ old.busy /\ old.database # "pending"
  BY DEF Report
<1>2. old \in CheckRecord /\ Grounded(old)
  BY DEF HealthTypeOK, HealthInv, CheckRecord
<1>3. /\ verdict \in Verdicts /\ up \in BOOLEAN /\ trouble \in BOOLEAN
      /\ verdict \in {"healthy", "degraded"} => up
      /\ verdict = "unhealthy" => trouble
  BY <1>1, <1>2 DEF CheckRecord, Grounded, VerdictOf, Verdicts, Answers, QueuesUp
<1>4. ~ Waits(old)
  BY <1>1 DEF Waits
<1> HIDE DEF old, verdict, up, trouble
<1>5. /\ record \in CheckRecord /\ record.busy = Free.busy
      /\ record.verdict = verdict /\ record.sawUp = up
      /\ record.sawTrouble = trouble
  BY <1>3, FreeIsGrounded DEF CheckRecord
<1> HIDE DEF record
<1>6. Grounded(record) /\ Sees(record, database, pool) /\ ~ Waits(record)
  BY <1>3, <1>5, FreeIsGrounded DEF Grounded, Sees, Waits
<1> QED
  BY <1>1, <1>4, <1>5, <1>6, OneCheckKeeps DEF old

\* The database goes up or down, or a handler's query joins the pool: every
\* check witnesses it.
LEMMA MomentKeeps ==
    ASSUME HealthTypeOK, HealthInv, DatabaseTurns \/ DomainQuery
    PROVE  HealthTypeOK' /\ HealthInv'
<1>1. /\ check' = [c \in Checks |-> Witnessed(check[c], database', pool')]
      /\ database' \in Conditions
      /\ \/ pool' = pool
         \/ pool' = Append(pool, "other")
  BY DEF DatabaseTurns, DomainQuery, HealthTypeOK
<1>2. ASSUME NEW c \in Checks
      PROVE  /\ check'[c] \in CheckRecord /\ Grounded(check'[c])
             /\ Sees(check'[c], database', pool')
             /\ Waits(check'[c]) <=> Waits(check[c])
  <2>1. check[c] \in CheckRecord /\ Grounded(check[c])
    BY DEF HealthTypeOK, HealthInv, CheckRecord
  <2>2. check'[c] = Witnessed(check[c], database', pool')
    BY <1>1
  <2> QED
    BY <2>1, <2>2, WitnessedKeeps
<1>3. check' \in [Checks -> CheckRecord]
  BY <1>1, <1>2
<1>4. /\ pool' \in Seq(Checks \union {"other"})
      /\ PoolInv(pool', check)
  <2>1. CASE pool' = pool
    BY <2>1 DEF HealthTypeOK, HealthInv
  <2>2. CASE pool' = Append(pool, "other")
    <3>1. /\ pool' \in Seq(Checks \union {"other"})
          /\ Len(pool') = Len(pool) + 1 /\ pool'[Len(pool) + 1] = "other"
          /\ \A i \in 1..Len(pool) : pool'[i] = pool[i]
          /\ Len(pool) \in Nat
      BY <2>2 DEF HealthTypeOK
    <3>2. \A i \in 1..Len(pool') :
             pool'[i] \in Checks => i \in 1..Len(pool)
      BY <3>1, HealthAssumption
    <3> QED
      BY <3>1, <3>2 DEF HealthInv, PoolInv
  <2> QED
    BY <1>1, <2>1, <2>2
<1>5. PoolInv(pool', check')
  BY <1>2, <1>4, PoolInvOfWaits
<1> QED
  BY <1>1, <1>2, <1>3, <1>4, <1>5 DEF HealthTypeOK, HealthInv, CheckRecord

\* A check joins the pool, once, for it was in it no more.
LEMMA CheckBeginKeeps ==
    ASSUME HealthTypeOK, HealthInv, NEW c \in Checks, CheckBegin(c)
    PROVE  HealthTypeOK' /\ HealthInv'
<1> DEFINE begun == [Free EXCEPT !.busy = TRUE]
           record(o) == IF o = c THEN begun ELSE check[o]
<1>1. /\ pool' = Append(pool, c) /\ ~ check[c].busy /\ database' = database
      /\ check' = [o \in Checks |-> Witnessed(record(o), database, pool')]
  BY DEF CheckBegin
<1>2. begun \in CheckRecord /\ Grounded(begun) /\ Waits(begun)
  <2>1. /\ Free.database = "pending" /\ Free.age = 0
        /\ Free.verdict = "none"
    BY DEF Free
  <2>2. /\ begun \in CheckRecord /\ begun.busy = TRUE
        /\ begun.database = Free.database /\ begun.age = Free.age
        /\ begun.verdict = Free.verdict
    BY FreeIsGrounded DEF CheckRecord
  <2> HIDE DEF begun
  <2> QED
    BY <2>1, <2>2 DEF Grounded, Waits
<1> HIDE DEF begun
<1>3. ASSUME NEW o \in Checks
      PROVE  /\ check'[o] \in CheckRecord /\ Grounded(check'[o])
             /\ Sees(check'[o], database', pool')
             /\ Waits(check'[o]) <=> (o = c \/ Waits(check[o]))
  <2>1. record(o) \in CheckRecord /\ Grounded(record(o))
    BY <1>2 DEF HealthTypeOK, HealthInv, CheckRecord
  <2>2. Waits(record(o)) <=> (o = c \/ Waits(check[o]))
    BY <1>2
  <2> HIDE DEF record
  <2>3. check'[o] = Witnessed(record(o), database', pool')
    BY <1>1
  <2> QED
    BY <2>1, <2>2, <2>3, WitnessedKeeps
<1>4. check' \in [Checks -> CheckRecord]
  BY <1>1, <1>3
<1>5. /\ pool' \in Seq(Checks \union {"other"})
      /\ Len(pool') = Len(pool) + 1 /\ pool'[Len(pool) + 1] = c
      /\ \A i \in 1..Len(pool) : pool'[i] = pool[i]
      /\ Len(pool) \in Nat
  BY <1>1 DEF HealthTypeOK
<1>6. ~ Waits(check[c]) /\ \A i \in 1..Len(pool) : pool[i] # c
  BY <1>1 DEF Waits, HealthInv, PoolInv
<1> HIDE DEF record
<1>7. PoolInv(pool', check')
  <2>1. \A i \in 1..Len(pool') : i \in 1..Len(pool) \/ i = Len(pool) + 1
    BY <1>5
  <2>2. 1..Len(pool) \subseteq 1..Len(pool') /\ Len(pool) + 1 \in 1..Len(pool')
    BY <1>5
  <2>3. ASSUME NEW i \in 1..Len(pool'), pool'[i] \in Checks
        PROVE  Waits(check'[pool'[i]])
    BY <1>3, <1>5, <2>1, <2>3 DEF HealthInv, PoolInv
  <2>4. ASSUME NEW i \in 1..Len(pool'), NEW j \in 1..Len(pool'),
               pool'[i] = pool'[j], pool'[i] \in Checks
        PROVE  i = j
    BY <1>5, <1>6, <2>1, <2>4 DEF HealthInv, PoolInv
  <2>5. ASSUME NEW o \in Checks, Waits(check'[o])
        PROVE  \E i \in 1..Len(pool') : pool'[i] = o
    BY <1>3, <1>5, <2>2, <2>5 DEF HealthInv, PoolInv
  <2> QED
    BY <2>3, <2>4, <2>5 DEF PoolInv
<1> QED
  BY <1>1, <1>3, <1>4, <1>5, <1>7 DEF HealthTypeOK, HealthInv, CheckRecord

\* The answer of query i: the check that it is for is in the pool for it only,
\* so it still waits and leaves with the answer.
LEMMA DatabaseAnswerKeeps ==
    ASSUME HealthTypeOK, HealthInv, NEW i \in Connected, DatabaseAnswer(i)
    PROVE  HealthTypeOK' /\ HealthInv'
<1>1. i \in 1..Len(pool)
  BY HealthAssumption DEF Connected, HealthTypeOK
<1>2. /\ pool' = Without(i) /\ database' = database
      /\ database \in {"up", "failing"}
  BY DEF DatabaseAnswer, HealthTypeOK, Conditions
<1>3. /\ check \in [Checks -> CheckRecord]
      /\ \A c \in Checks : Grounded(check[c]) /\ Sees(check[c], database, pool)
  BY DEF HealthTypeOK, HealthInv, CheckRecord
<1>4. Len(pool) \in Nat /\ Len(pool') = Len(pool) - 1
  BY <1>1, <1>2, WithoutKeeps DEF HealthTypeOK
<1>5. ASSUME NEW record \in CheckRecord, Sees(record, database, pool)
      PROVE  Sees(record, database', pool')
  BY <1>2, <1>4, <1>5, HealthAssumption DEF Sees
<1>6. /\ check' \in [Checks -> CheckRecord]
      /\ \A c \in Checks :
            /\ Grounded(check'[c]) /\ Sees(check'[c], database', pool')
            /\ Waits(check'[c]) <=> Waits(check[c]) /\ c # pool[i]
  <2>1. CASE pool[i] \notin Checks
    <3>1. check' = check
      BY <2>1 DEF DatabaseAnswer
    <3> QED
      BY <1>3, <1>5, <2>1, <3>1
  <2>2. CASE pool[i] \in Checks
    <3> DEFINE c == pool[i]
               old == check[c]
               answer == IF database = "up" THEN "up" ELSE "down"
               record == [old EXCEPT !.database = answer]
    <3>1. check' = [check EXCEPT ![c] = record]
      BY <2>2 DEF DatabaseAnswer
    <3>2. /\ old \in CheckRecord /\ Grounded(old) /\ Waits(old)
          /\ Sees(old, database, pool)
      BY <1>1, <1>3, <2>2 DEF HealthInv, PoolInv
    <3>3. /\ answer \in Answers /\ answer # "pending"
          /\ database = "up" => answer = "up"
          /\ database # "up" => answer = "down"
      BY DEF Answers
    <3> HIDE DEF old, answer
    <3>4. /\ record \in CheckRecord /\ record.busy = old.busy
          /\ record.database = answer /\ record.age = old.age
          /\ record.verdict = old.verdict /\ record.sawUp = old.sawUp
          /\ record.sawTrouble = old.sawTrouble
      BY <3>2, <3>3 DEF CheckRecord
    <3> HIDE DEF record
    <3>5. /\ Grounded(record) /\ Sees(record, database, pool)
          /\ ~ Waits(record)
      BY <3>2, <3>3, <3>4 DEF Grounded, Sees, Waits
    <3>6. /\ check' \in [Checks -> CheckRecord] /\ check'[c] = record
          /\ \A o \in Checks \ {c} : check'[o] = check[o]
      BY <1>3, <2>2, <3>1, <3>4
    <3>7. Sees(record, database', pool')
      BY <1>5, <3>4, <3>5
    <3> QED
      BY <1>3, <1>5, <3>5, <3>6, <3>7
  <2> QED
    BY <2>1, <2>2
<1>7. PoolInv(pool', check')
  <2>1. ASSUME NEW j \in 1..Len(pool'), pool'[j] \in Checks
        PROVE  Waits(check'[pool'[j]])
    <3>1. PICK k \in 1..Len(pool) : k # i /\ pool'[j] = pool[k]
      BY <1>1, <1>2, WithoutKeeps
    <3>2. Waits(check[pool[k]]) /\ pool[k] # pool[i]
      BY <1>1, <2>1, <3>1 DEF HealthInv, PoolInv
    <3> QED
      BY <1>6, <2>1, <3>1, <3>2
  <2>2. ASSUME NEW j \in 1..Len(pool'), NEW l \in 1..Len(pool'),
               pool'[j] = pool'[l], pool'[j] \in Checks
        PROVE  j = l
    <3>1. PICK k \in 1..Len(pool) :
             k = (IF j < i THEN j ELSE j + 1) /\ pool'[j] = pool[k]
      BY <1>1, <1>2, WithoutKeeps
    <3>2. PICK m \in 1..Len(pool) :
             m = (IF l < i THEN l ELSE l + 1) /\ pool'[l] = pool[m]
      BY <1>1, <1>2, WithoutKeeps
    <3>3. k = m
      BY <2>2, <3>1, <3>2 DEF HealthInv, PoolInv
    <3> QED
      BY <1>1, <1>4, <3>1, <3>2, <3>3
  <2>3. ASSUME NEW c \in Checks, Waits(check'[c])
        PROVE  \E j \in 1..Len(pool') : pool'[j] = c
    <3>1. Waits(check[c]) /\ c # pool[i]
      BY <1>6, <2>3
    <3>2. PICK k \in 1..Len(pool) : pool[k] = c
      BY <3>1 DEF HealthInv, PoolInv
    <3>3. k # i
      BY <3>1, <3>2
    <3>4. PICK j \in 1..Len(Without(i)) : Without(i)[j] = pool[k]
      BY <1>1, <3>3, WithoutKeeps
    <3> QED
      BY <1>2, <3>2, <3>4
  <2> QED
    BY <2>1, <2>2, <2>3 DEF PoolInv
<1>8. pool' \in Seq(Checks \union {"other"})
  BY <1>1, <1>2, WithoutKeeps
<1> QED
  BY <1>2, <1>6, <1>7, <1>8 DEF HealthTypeOK, HealthInv, CheckRecord

\* A probe is given up: it waited, so something was wrong, and its query stays
\* in the pool without it.
LEMMA DatabaseTimeoutKeeps ==
    ASSUME HealthTypeOK, HealthInv, NEW c \in Checks, DatabaseTimeout(c)
    PROVE  HealthTypeOK' /\ HealthInv'
<1> DEFINE old == check[c]
           record == [old EXCEPT !.database = "down"]
<1>1. /\ check' = [check EXCEPT ![c] = record] /\ database' = database
      /\ pool' = [i \in DOMAIN pool |-> IF pool[i] = c THEN "other" ELSE pool[i]]
      /\ Waits(old) /\ old.age = Timeout
  BY DEF DatabaseTimeout, Waits
<1>2. /\ check \in [Checks -> CheckRecord]
      /\ \A o \in Checks : Grounded(check[o]) /\ Sees(check[o], database, pool)
  BY DEF HealthTypeOK, HealthInv, CheckRecord
<1>3. old \in CheckRecord /\ Grounded(old) /\ Sees(old, database, pool)
  BY <1>2
<1> HIDE DEF old
<1>4. /\ record \in CheckRecord /\ record.busy = old.busy
      /\ record.database = "down" /\ record.age = old.age
      /\ record.verdict = old.verdict /\ record.sawUp = old.sawUp
      /\ record.sawTrouble = old.sawTrouble
  BY <1>3 DEF CheckRecord, Answers
<1> HIDE DEF record
<1>5. Grounded(record) /\ Sees(record, database, pool) /\ ~ Waits(record)
  BY <1>1, <1>3, <1>4, HealthAssumption DEF Grounded, Sees, Waits
<1>6. /\ check' \in [Checks -> CheckRecord] /\ check'[c] = record
      /\ \A o \in Checks \ {c} : check'[o] = check[o]
  BY <1>1, <1>2, <1>4
<1>7. /\ pool' \in Seq(Checks \union {"other"})
      /\ Len(pool') = Len(pool) /\ Len(pool) \in Nat
      /\ \A i \in 1..Len(pool) :
            pool'[i] = IF pool[i] = c THEN "other" ELSE pool[i]
  BY <1>1 DEF HealthTypeOK
<1>8. \A i \in 1..Len(pool) :
         pool'[i] \in Checks => pool'[i] = pool[i] /\ pool[i] # c
  BY <1>7, HealthAssumption
<1>9. PoolInv(pool', check')
  <2>1. \A i \in 1..Len(pool') : pool'[i] \in Checks => Waits(check'[pool'[i]])
    BY <1>6, <1>7, <1>8 DEF HealthInv, PoolInv
  <2>2. \A i, j \in 1..Len(pool') :
           pool'[i] = pool'[j] /\ pool'[i] \in Checks => i = j
    BY <1>7, <1>8 DEF HealthInv, PoolInv
  <2>3. ASSUME NEW o \in Checks, Waits(check'[o])
        PROVE  \E i \in 1..Len(pool') : pool'[i] = o
    <3>1. o # c /\ Waits(check[o])
      BY <1>5, <1>6, <2>3
    <3> QED
      BY <1>7, <3>1 DEF HealthInv, PoolInv
  <2> QED
    BY <2>1, <2>2, <2>3 DEF PoolInv
<1>10. \A o \in Checks : Grounded(check'[o]) /\ Sees(check'[o], database, pool)
  BY <1>2, <1>5, <1>6
<1>11. \A o \in Checks : Sees(check'[o], database', pool')
  BY <1>1, <1>7, <1>10 DEF Sees
<1> QED
  BY <1>1, <1>6, <1>7, <1>9, <1>10, <1>11 DEF HealthTypeOK, HealthInv, CheckRecord

\* A tick goes by: while the database is up, a check that waits through it has
\* no connection, and the pool is full.
LEMMA HealthTickKeeps ==
    ASSUME HealthTypeOK, HealthInv, HealthTick
    PROVE  HealthTypeOK' /\ HealthInv'
<1>1. ASSUME NEW c \in Checks
      PROVE  /\ check'[c] \in CheckRecord /\ Grounded(check'[c])
             /\ Sees(check'[c], database, pool)
             /\ Waits(check'[c]) <=> Waits(check[c])
  <2> DEFINE old == check[c]
             age == old.age + 1
  <2>1. old \in CheckRecord /\ Grounded(old) /\ Sees(old, database, pool)
    BY DEF HealthTypeOK, HealthInv, CheckRecord
  <2>2. CASE ~ (old.busy /\ old.age < Timeout)
    <3>1. check'[c] = old
      BY <2>2 DEF HealthTick
    <3> QED
      BY <2>1, <3>1
  <2>3. CASE old.busy /\ old.age < Timeout
    <3>1. check'[c] = [old EXCEPT !.age = age]
      BY <2>3 DEF HealthTick
    <3>2. age \in 0..Timeout
      BY <2>1, <2>3, HealthAssumption DEF CheckRecord
    <3>3. Waits(old) => old.sawTrouble
      <4>1. CASE database # "up"
        BY <2>1, <2>3, <4>1 DEF Sees
      <4>2. CASE database = "up"
        <5> SUFFICES ASSUME Waits(old)
                     PROVE  old.sawTrouble
          OBVIOUS
        <5>1. PICK i \in 1..Len(pool) : pool[i] = c
          BY DEF HealthInv, PoolInv
        <5>2. i \notin Connected
          BY <4>2, <5>1 DEF HealthTick
        <5>3. Len(pool) > PoolMax
          BY <5>1, <5>2, HealthAssumption DEF Connected, HealthTypeOK
        <5> QED
          BY <2>1, <2>3, <5>3 DEF Sees
      <4> QED
        BY <4>1, <4>2
    <3> HIDE DEF old, age
    <3> DEFINE record == [old EXCEPT !.age = age]
    <3>4. /\ record \in CheckRecord /\ record.busy = old.busy
          /\ record.database = old.database
          /\ record.verdict = old.verdict /\ record.sawUp = old.sawUp
          /\ record.sawTrouble = old.sawTrouble
      BY <2>1, <3>2 DEF CheckRecord
    <3> HIDE DEF record
    <3>5. /\ Grounded(record) /\ Sees(record, database, pool)
          /\ Waits(record) <=> Waits(old)
      BY <2>1, <3>3, <3>4 DEF Grounded, Sees, Waits
    <3> QED
      BY <3>1, <3>4, <3>5 DEF record, old
  <2> QED
    BY <2>2, <2>3
<1>2. UNCHANGED <<database, pool>> /\ check' = [c \in Checks |-> check'[c]]
  BY DEF HealthTick
<1>3. check' \in [Checks -> CheckRecord]
  BY <1>1, <1>2
<1>4. PoolInv(pool, check')
  BY <1>1, PoolInvOfWaits DEF HealthInv
<1> QED
  BY <1>1, <1>2, <1>3, <1>4 DEF HealthTypeOK, HealthInv, CheckRecord

\* A process begins with no check and an empty pool.
LEMMA HealthForgets ==
    ASSUME database' \in Conditions, pool' = <<>>,
           check' = [c \in Checks |-> Free]
    PROVE  HealthTypeOK' /\ HealthInv'
<1>1. \A c \in Checks : /\ Grounded(check'[c]) /\ ~ Waits(check'[c])
                        /\ Sees(check'[c], database', pool')
  BY FreeIsGrounded DEF Sees, Waits
<1>2. PoolInv(pool', check')
  BY <1>1 DEF PoolInv
<1> QED
  BY <1>1, <1>2, FreeIsGrounded DEF HealthTypeOK, HealthInv, CheckRecord

\* The two properties are the grounds of the verdicts.
LEMMA HealthInvImplies ==
    ASSUME HealthInv PROVE ServingIsTruthful /\ OutageIsExplained
BY DEF HealthInv, Grounded, ServingIsTruthful, OutageIsExplained

-----------------------------------------------------------------------------
(* The process.                                                            *)

ProcessInv == /\ LimiterTypeOK /\ LimiterInv
              /\ HealthTypeOK /\ HealthInv

\* The invariant holds when the process starts,
LEMMA InitProcess == Init => ProcessInv
<1> SUFFICES ASSUME Init PROVE ProcessInv
  OBVIOUS
<1>1. LimiterTypeOK /\ LimiterInv
  BY LimiterAssumption, AgesType
     DEF Init, LimiterInit, LimiterTypeOK, LimiterInv, BetweenWindows
<1>2. /\ database = "up" /\ pool = <<>> /\ check = [c \in Checks |-> Free]
  BY DEF Init, HealthInit
<1>3. \A c \in Checks : /\ Grounded(check[c]) /\ ~ Waits(check[c])
                        /\ Sees(check[c], database, pool)
  BY <1>2, FreeIsGrounded DEF Sees, Waits
<1>4. PoolInv(pool, check)
  BY <1>2, <1>3 DEF PoolInv
<1>5. HealthTypeOK /\ HealthInv
  BY <1>2, <1>3, <1>4, FreeIsGrounded
     DEF HealthTypeOK, HealthInv, CheckRecord, Conditions
<1> QED
  BY <1>1, <1>5 DEF ProcessInv

\* and every step of it keeps it.
LEMMA NextProcess == ProcessInv /\ [Next]_vars => ProcessInv'
<1> SUFFICES ASSUME ProcessInv, [Next]_vars PROVE ProcessInv'
  OBVIOUS
<1> USE DEF ProcessInv
<1>1. ASSUME UNCHANGED limiterVars
      PROVE  LimiterTypeOK' /\ LimiterInv'
  BY <1>1 DEF limiterVars, LimiterTypeOK, LimiterInv
<1>2. ASSUME UNCHANGED healthVars
      PROVE  HealthTypeOK' /\ HealthInv'
  BY <1>2 DEF healthVars, HealthTypeOK, HealthInv
<1>3. ASSUME NEW ip \in IPs, Attempt(ip), UNCHANGED healthVars
      PROVE  ProcessInv'
  BY <1>2, <1>3, AttemptEffect, AttemptKeeps
<1>4. ASSUME HealthStep, UNCHANGED limiterVars
      PROVE  ProcessInv'
  <2>1. HealthTypeOK' /\ HealthInv'
    BY <1>4, CheckBeginKeeps, DatabaseTimeoutKeeps, RedisAnswerKeeps,
       ReportKeeps, DatabaseAnswerKeeps, MomentKeeps DEF HealthStep
  <2> QED
    BY <1>1, <1>4, <2>1
<1>5. CASE Tick
  BY <1>5, LimiterTickKeeps, HealthTickKeeps DEF Tick
<1>6. CASE Restart
  <2>1. LimiterTypeOK' /\ LimiterInv'
    BY <1>6, LimiterForgets DEF Restart
  <2>2. HealthTypeOK' /\ HealthInv'
    BY <1>6, HealthForgets DEF Restart, HealthTypeOK
  <2> QED
    BY <2>1, <2>2
<1>7. CASE UNCHANGED vars
  BY <1>1, <1>2, <1>7 DEF vars
<1> QED
  BY <1>3, <1>4, <1>5, <1>6, <1>7 DEF Next

\* The invariant of the limiter and of the health checks always holds.
THEOREM ProcessInvariant == Spec => []ProcessInv
<1> QED
  BY InitProcess, NextProcess, PTL DEF Spec

\* The memory of the process has its shape.
THEOREM ProcessTyped == Spec => []TypeOK
<1>1. ProcessInv => TypeOK
  BY DEF ProcessInv, TypeOK
<1> QED
  BY <1>1, ProcessInvariant, PTL

\* Whatever the points and the window: less than twice the points are admitted
\* to an address in any window's time of one process.
THEOREM LimiterBounds == Spec => []AdmissionsAreBounded
<1>1. ProcessInv => AdmissionsAreBounded
  BY LimiterInvImplies DEF ProcessInv
<1> QED
  BY <1>1, ProcessInvariant, PTL

\* An address is refused only after using up its points within a window's time.
THEOREM LimiterRefusesWithCause == Spec => []RefusalIsEarned
<1>1. ProcessInv => RefusalIsEarned
  BY LimiterInvImplies DEF ProcessInv
<1> QED
  BY <1>1, ProcessInvariant, PTL

\* However many probes and handlers share the pool, and whatever the timeout:
\* a check that reports the API as serving saw the database up.
THEOREM ServingTruthful == Spec => []ServingIsTruthful
<1>1. ProcessInv => ServingIsTruthful
  BY HealthInvImplies DEF ProcessInv
<1> QED
  BY <1>1, ProcessInvariant, PTL

\* A check that reports an outage saw the database in trouble or the pool full.
THEOREM OutageExplained == Spec => []OutageIsExplained
<1>1. ProcessInv => OutageIsExplained
  BY HealthInvImplies DEF ProcessInv
<1> QED
  BY <1>1, ProcessInvariant, PTL

=============================================================================
