-------------------------- MODULE RateLimitProofs --------------------------
(***************************************************************************)
(* Theorems about RateLimit for every set of addresses and requests, every *)
(* limit and window and any number of faults.                              *)
(***************************************************************************)
EXTENDS RateLimit, TLAPS

LEMMA MethodKey == \A k \in Key : Limit(k) \in Nat \ {0} /\ Limit(k) < MaxCount
  BY MethodAssumption, BoundAssumption DEF Key, Limit

LEMMA IncrementedType ==
    ASSUME TypeOK, NEW k \in Key
    PROVE  /\ Incremented(k) \in 1..MaxCount
           /\ Incremented(k) = 1 => count[k] = 0
<1>1. MaxCount \in Nat /\ MaxCount > 1
  BY MethodKey, BoundAssumption
<1>2. count[k] \in 0..MaxCount
  BY DEF TypeOK
<1> QED
  BY <1>1, <1>2 DEF Incremented

\* A request keeps its key and has a place.
LEMMA GotoType ==
    ASSUME TypeOK, NEW r \in Request,
           NEW place \in {"idle", "incr", "expire", "auth", "handler"}, Goto(r, place)
    PROVE  req' \in [Request -> Progress]
  BY DEF TypeOK, Goto, Progress

LEMMA PassType ==
    ASSUME TypeOK, NEW k \in Key, Pass(k)
    PROVE  passed' \in [Key -> [Age -> Nat]]
<1>1. [a \in Age |-> passed[k][a] + 1] \in [Age -> Nat]
  BY DEF TypeOK
<1> QED
  BY <1>1 DEF TypeOK, Pass

LEMMA TypeInit == Init => TypeOK
<1> SUFFICES ASSUME Init PROVE TypeOK
  OBVIOUS
<1>1. req \in [Request -> Progress]
  BY DEF Init
<1>2. count \in [Key -> 0..MaxCount] /\ ttl \in [Key -> 0..Window]
  BY BoundAssumption DEF Init
<1>3. passed \in [Key -> [Age -> Nat]]
  BY DEF Init
<1> QED
  BY <1>1, <1>2, <1>3, BoundAssumption DEF Init, TypeOK

LEMMA TypeRequest ==
    ASSUME TypeOK, NEW r \in Request,
           Arrive(r) \/ Serve(r) \/ IncrFails(r) \/ ExpireFails(r)
    PROVE  TypeOK'
<1> DEFINE k == req[r].key
<1>1. k \in Key
  BY DEF TypeOK, Progress
<1>2. CASE Arrive(r)
  <2>1. req' \in [Request -> Progress]
    BY <1>2 DEF Arrive, TypeOK, Progress
  <2> QED
    BY <1>2, <2>1 DEF Arrive, TypeOK, keyVars
<1>3. CASE Incr(r)
  <2>1. count' \in [Key -> 0..MaxCount]
    BY <1>1, <1>3, IncrementedType DEF Incr, TypeOK
  <2>2. req' \in [Request -> Progress]
    BY <1>3, GotoType DEF Incr
  <2>3. passed' \in [Key -> [Age -> Nat]]
    BY <1>1, <1>3, PassType DEF Incr, TypeOK
  <2> QED
    BY <1>3, <2>1, <2>2, <2>3 DEF Incr, TypeOK
<1>4. CASE Expire(r)
  <2>1. ttl' \in [Key -> 0..Window]
    BY <1>1, <1>4, BoundAssumption DEF Expire, NewTtl, TypeOK
  <2>2. req' \in [Request -> Progress]
    BY <1>4, GotoType DEF Expire
  <2> QED
    BY <1>4, <2>1, <2>2 DEF Expire, TypeOK
<1>5. CASE Auth(r) \/ Handle(r)
  <2>1. req' \in [Request -> Progress]
    BY <1>5, GotoType DEF Auth, Handle
  <2> QED
    BY <1>5, <2>1 DEF Auth, Handle, TypeOK, keyVars
<1>6. CASE IncrFails(r)
  <2>1. count' \in [Key -> 0..MaxCount]
    BY <1>1, <1>6, IncrementedType DEF IncrFails, TypeOK
  <2>2. req' \in [Request -> Progress]
    BY <1>6, GotoType DEF IncrFails
  <2>3. passed' \in [Key -> [Age -> Nat]]
    BY <1>1, <1>6, PassType DEF IncrFails
  <2>4. faults' \in 0..MaxFaults
    BY <1>6, BoundAssumption DEF IncrFails, Fault, TypeOK
  <2> QED
    BY <1>6, <2>1, <2>2, <2>3, <2>4 DEF IncrFails, TypeOK
<1>7. CASE ExpireFails(r)
  <2>1. req' \in [Request -> Progress]
    BY <1>7, GotoType DEF ExpireFails
  <2>2. faults' \in 0..MaxFaults
    BY <1>7, BoundAssumption DEF ExpireFails, Fault, TypeOK
  <2> QED
    BY <1>7, <2>1, <2>2 DEF ExpireFails, TypeOK, keyVars
<1> QED
  BY <1>2, <1>3, <1>4, <1>5, <1>6, <1>7 DEF Serve

LEMMA TypeTick ==
    ASSUME TypeOK, Tick
    PROVE  TypeOK'
<1>1. count' \in [Key -> 0..MaxCount]
  BY BoundAssumption DEF Tick, TypeOK
<1>2. ttl' \in [Key -> 0..Window]
  <2>1. \A n \in 0..Window : (IF n = 0 THEN 0 ELSE n - 1) \in 0..Window
    BY BoundAssumption
  <2> QED
    BY <2>1 DEF Tick, TypeOK
<1>3. passed' \in [Key -> [Age -> Nat]]
  <2>1. \A a \in Age : a # 0 => a - 1 \in Age
    BY BoundAssumption DEF Age
  <2> QED
    BY <2>1 DEF Tick, TypeOK
<1> QED
  BY <1>1, <1>2, <1>3 DEF Tick, TypeOK

LEMMA TypeFault ==
    ASSUME TypeOK, BackendCrash \/ RedisLoss
    PROVE  TypeOK'
<1>1. faults' \in 0..MaxFaults
  BY BoundAssumption DEF BackendCrash, RedisLoss, Fault, TypeOK
<1>2. CASE BackendCrash
  <2>1. req' \in [Request -> Progress]
    BY <1>2 DEF BackendCrash, Idle, TypeOK, Progress
  <2> QED
    BY <1>1, <1>2, <2>1 DEF BackendCrash, TypeOK, keyVars
<1>3. CASE RedisLoss
  <2>1. count' \in [Key -> 0..MaxCount] /\ ttl' \in [Key -> 0..Window]
    BY <1>3, BoundAssumption DEF RedisLoss
  <2> QED
    BY <1>1, <1>3, <2>1 DEF RedisLoss, TypeOK
<1> QED
  BY <1>2, <1>3

LEMMA TypeStep == TypeOK /\ [Next]_vars => TypeOK'
<1> SUFFICES ASSUME TypeOK, [Next]_vars PROVE TypeOK'
  OBVIOUS
<1>1. CASE UNCHANGED vars
  BY <1>1 DEF TypeOK, vars, keyVars
<1> QED
  BY <1>1, TypeRequest, TypeTick, TypeFault DEF Next

\* Counters and times to live stay in their ranges: in particular no request, whether
\* it passes or is turned away, prolongs a window beyond its length.
THEOREM TypeCorrect == Spec => []TypeOK
  BY TypeInit, TypeStep, PTL DEF Spec

----------------------------------------------------------------------------
\* A request that moves elsewhere than to or from "expire" leaves what is Ending.
LEMMA EndingStays ==
    ASSUME TypeOK, NEW r \in Request, NEW k \in Key,
           Ending(k), ~(At(r, "expire") /\ req[r].key = k),
           \A q \in Request \ {r} : req'[q] = req[q]
    PROVE  Ending(k)'
<1>1. PICK q \in Request : At(q, "expire") /\ req[q].key = k
  BY DEF Ending
<1>2. q # r
  BY <1>1
<1> QED
  BY <1>1, <1>2 DEF Ending, At

LEMMA EndlessRequest ==
    ASSUME TypeOK, EndlessNeedsFault, NEW r \in Request,
           Arrive(r) \/ Serve(r)
    PROVE  EndlessNeedsFault'
<1> SUFFICES ASSUME NEW k \in Key, count'[k] > 0, ttl'[k] = 0, faults' = 0
             PROVE  Ending(k)'
  BY DEF EndlessNeedsFault
<1>1. faults = 0
  BY DEF Arrive, Serve, Incr, Expire, Auth, Handle
<1>2. \A q \in Request \ {r} : req'[q] = req[q]
  BY DEF Arrive, Serve, Incr, Expire, Auth, Handle, Goto, TypeOK
<1>3. count[k] > 0 /\ ttl[k] = 0 => Ending(k)
  BY <1>1 DEF EndlessNeedsFault
<1>4. CASE Arrive(r)
  BY <1>2, <1>3, <1>4, EndingStays DEF Arrive, At, keyVars
<1>5. CASE Auth(r) \/ Handle(r)
  BY <1>2, <1>3, <1>5, EndingStays DEF Auth, Handle, At, keyVars
<1>6. CASE Expire(r)
  <2>1. req[r].key \in Key
    BY DEF TypeOK, Progress
  <2>2. count[k] > 0
    BY <1>6 DEF Expire
  <2>3. k # req[r].key
    BY <1>6, <2>1, <2>2, BoundAssumption DEF Expire, NewTtl, TypeOK
  <2>4. ttl[k] = 0
    BY <1>6, <2>3 DEF Expire, TypeOK
  <2> QED
    BY <1>2, <1>3, <2>2, <2>3, <2>4, EndingStays
<1>7. CASE Incr(r)
  <2>1. req[r].key \in Key /\ At(r, "incr") /\ ttl[k] = 0
    BY <1>7 DEF TypeOK, Progress, Incr
  <2>2. CASE count[k] > 0
    BY <1>2, <1>3, <2>1, <2>2, EndingStays DEF At
  <2>3. CASE ~(count[k] > 0)
    <3>1. count[k] = 0
      BY <2>3 DEF TypeOK
    <3>2. k = req[r].key
      BY <1>7, <2>1, <3>1 DEF Incr, TypeOK
    <3>3. Incremented(k) = 1
      BY <3>1, MethodKey, BoundAssumption DEF Incremented
    <3>4. Goto(r, "expire")
      BY <1>7, <3>2, <3>3 DEF Incr, SetsExpiry
    <3>5. req'[r].at = "expire" /\ req'[r].key = k
      BY <3>2, <3>4 DEF Goto, TypeOK, Progress
    <3> QED
      BY <3>5 DEF Ending, At
  <2> QED
    BY <2>2, <2>3
<1> QED
  BY <1>4, <1>5, <1>6, <1>7 DEF Serve

LEMMA EndlessTick ==
    ASSUME TypeOK, EndlessNeedsFault, Tick
    PROVE  EndlessNeedsFault'
<1> SUFFICES ASSUME NEW k \in Key, count'[k] > 0, ttl'[k] = 0, faults' = 0
             PROVE  Ending(k)'
  BY DEF EndlessNeedsFault
<1>1. ttl[k] # 1 /\ count[k] > 0
  BY DEF Tick
<1>2. ttl[k] = 0
  BY <1>1 DEF Tick, TypeOK
<1> QED
  BY <1>1, <1>2 DEF EndlessNeedsFault, Ending, At, Tick

LEMMA EndlessFault ==
    ASSUME TypeOK, Fault
    PROVE  EndlessNeedsFault'
  BY DEF TypeOK, Fault, EndlessNeedsFault

LEMMA EndlessStep == TypeOK /\ EndlessNeedsFault /\ [Next]_vars => EndlessNeedsFault'
<1> SUFFICES ASSUME TypeOK, EndlessNeedsFault, [Next]_vars PROVE EndlessNeedsFault'
  OBVIOUS
<1>1. CASE UNCHANGED vars
  BY <1>1 DEF EndlessNeedsFault, Ending, At, vars, keyVars
<1>2. CASE Fault
  BY <1>2, EndlessFault
<1>3. BackendCrash \/ RedisLoss => Fault
  BY DEF BackendCrash, RedisLoss
<1>4. \A r \in Request : IncrFails(r) \/ ExpireFails(r) => Fault
  BY DEF IncrFails, ExpireFails
<1> QED
  BY <1>1, <1>2, <1>3, <1>4, EndlessRequest, EndlessTick DEF Next

\* However requests interleave with each other and with time, a counter that nothing will
\* ever expire needs a failure between INCR and EXPIRE.
THEOREM EndlessNeedsFaultCorrect == Spec => []EndlessNeedsFault
<1>1. Init => EndlessNeedsFault
  BY DEF Init, EndlessNeedsFault
<1> QED
  BY <1>1, TypeCorrect, EndlessStep, PTL DEF Spec

----------------------------------------------------------------------------
(***************************************************************************)
(* The window.  A key has passed no more requests than its counter says,   *)
(* as far as the limit goes, and a limit for each fault; this is its       *)
(* Budget.  From the tick of the EXPIRE on the budget covers all that      *)
(* passes, so that at the end of a window it covers the window, and is     *)
(* the one limit that the next window starts with.                         *)
(***************************************************************************)
Used(k) == IF count[k] < Limit(k) THEN count[k] ELSE Limit(k)
Budget(k) == faults * Limit(k) + Used(k)

InWindow(k) ==
    /\ \A a, b \in Age : a <= b => passed[k][a] <= passed[k][b]
    /\ passed[k][0] <= Budget(k)
    /\ ttl[k] > 0 => passed[k][Window - ttl[k]] <= Budget(k)
    /\ passed[k][Window - 1] <= Limit(k) + Budget(k)
    /\ count[k] = 0 => ttl[k] = 0

WindowInv == \A k \in Key : InWindow(k)

LEMMA UsedBound ==
    TypeOK => \A k \in Key : Used(k) \in 0..Limit(k) /\ Budget(k) \in Nat
<1> SUFFICES ASSUME TypeOK, NEW k \in Key
             PROVE  Used(k) \in 0..Limit(k) /\ Budget(k) \in Nat
  OBVIOUS
<1>1. count[k] \in Nat /\ faults \in Nat /\ Limit(k) \in Nat
  BY MethodKey, BoundAssumption DEF TypeOK
<1>2. Used(k) \in 0..Limit(k)
  BY <1>1 DEF Used
<1>3. faults * Limit(k) \in Nat
  BY <1>1
<1> QED
  BY <1>1, <1>2, <1>3 DEF Budget

LEMMA UsedBoundNext ==
    TypeOK' => (\A k \in Key : Used(k) \in 0..Limit(k) /\ Budget(k) \in Nat)'
  BY UsedBound, PTL

\* A fault gives away one limit.
LEMMA BudgetFault ==
    ASSUME TypeOK, NEW k \in Key, faults' = faults + 1, Used(k)' \in Nat
    PROVE  Budget(k)' = faults * Limit(k) + Limit(k) + Used(k)'
<1>1. \A f, l \in Nat : (f + 1) * l = f * l + l
  OBVIOUS
<1>2. faults \in Nat /\ Limit(k) \in Nat
  BY MethodKey, BoundAssumption DEF TypeOK
<1>3. Limit(k)' = Limit(k)
  BY DEF Limit
<1> QED
  BY <1>1, <1>2, <1>3 DEF Budget

\* Between two ticks: what passes is paid for by the budget, and a time to live stays,
\* goes or starts anew.
LEMMA WindowPaid ==
    ASSUME TypeOK, TypeOK', NEW k \in Key, InWindow(k), NEW d \in {0, 1},
           passed'[k] = [a \in Age |-> passed[k][a] + d],
           Budget(k)' >= Budget(k) + d,
           ttl'[k] \in {0, ttl[k], Window},
           count'[k] = 0 => ttl'[k] = 0
    PROVE  InWindow(k)'
<1>1. /\ Budget(k) \in Nat /\ Budget(k)' \in Nat
      /\ Limit(k) \in Nat /\ Limit(k)' = Limit(k)
  BY UsedBound, UsedBoundNext, MethodKey DEF Limit
<1>2. \A a \in Age : passed[k][a] \in Nat /\ passed'[k][a] = passed[k][a] + d
  BY DEF TypeOK
<1>3. 0 \in Age /\ Window - 1 \in Age /\ Window \in Nat /\ ttl[k] \in 0..Window
  BY BoundAssumption DEF Age, TypeOK
<1>4. \A a, b \in Age : a <= b => passed'[k][a] <= passed'[k][b]
  BY <1>2 DEF InWindow
<1>5. passed'[k][0] <= Budget(k)'
  BY <1>1, <1>2, <1>3 DEF InWindow
<1>6. passed'[k][Window - 1] <= Limit(k)' + Budget(k)'
  BY <1>1, <1>2, <1>3 DEF InWindow
<1>7. ttl'[k] > 0 => passed'[k][Window - ttl'[k]] <= Budget(k)'
  <2>1. CASE ttl'[k] = Window
    BY <1>3, <1>5, <2>1
  <2>2. CASE ttl'[k] = ttl[k] /\ ttl[k] > 0
    <3>1. Window - ttl[k] \in Age
      BY <1>3, <2>2 DEF Age
    <3> QED
      BY <1>1, <1>2, <2>2, <3>1 DEF InWindow
  <2> QED
    BY <1>3, <2>1, <2>2
<1> QED
  BY <1>4, <1>5, <1>6, <1>7 DEF InWindow

LEMMA WindowIdle ==
    ASSUME TypeOK, TypeOK', NEW k \in Key, InWindow(k),
           passed'[k] = passed[k], count'[k] = count[k], ttl'[k] = ttl[k],
           faults' \in {faults, faults + 1}
    PROVE  InWindow(k)'
<1>1. passed'[k] = [a \in Age |-> passed[k][a] + 0]
  BY DEF TypeOK
<1>2. Budget(k)' >= Budget(k) + 0
  <2>1. Used(k)' = Used(k) /\ Used(k) \in Nat /\ Limit(k) \in Nat /\ Budget(k) \in Nat
    BY UsedBound, MethodKey DEF Used, Limit
  <2>2. faults * Limit(k) \in Nat
    BY <2>1, BoundAssumption DEF TypeOK
  <2>3. CASE faults' = faults
    BY <2>1, <2>3 DEF Budget, Limit
  <2>4. CASE faults' = faults + 1
    BY <2>1, <2>2, <2>4, BudgetFault DEF Budget
  <2> QED
    BY <2>3, <2>4
<1> QED
  BY <1>1, <1>2, WindowPaid DEF InWindow

LEMMA WindowIncr ==
    ASSUME TypeOK, TypeOK', WindowInv, NEW r \in Request, Incr(r) \/ IncrFails(r),
           NEW k \in Key
    PROVE  InWindow(k)'
<1>1. req[r].key \in Key
  BY DEF TypeOK, Progress
<1>2. InWindow(k) /\ ttl' = ttl /\ faults' \in {faults, faults + 1}
  BY DEF WindowInv, Incr, IncrFails, Fault
<1>3. CASE k # req[r].key
  <2>1. passed'[k] = passed[k] /\ count'[k] = count[k]
    BY <1>1, <1>3 DEF Incr, IncrFails, Pass, TypeOK
  <2> QED
    BY <1>2, <2>1, WindowIdle
<1>4. CASE k = req[r].key
  <2>1. /\ Limit(k) \in Nat \ {0} /\ Limit(k) < MaxCount /\ Limit(k)' = Limit(k)
        /\ MaxCount \in Nat /\ count[k] \in 0..MaxCount /\ faults \in Nat
        /\ faults * Limit(k) \in Nat
    BY MethodKey, BoundAssumption DEF TypeOK, Limit
  <2>2. Used(k) \in Nat /\ Used(k)' \in Nat /\ Used(k) <= Limit(k) /\ Budget(k) \in Nat
    BY <2>1, UsedBound, UsedBoundNext
  <2>3. CASE IncrFails(r)
    <3>1. count'[k] \in {count[k], Incremented(k)}
      BY <1>4, <2>3 DEF IncrFails, TypeOK
    <3>2. Used(k)' >= Used(k) /\ (count'[k] = 0 => count[k] = 0)
      BY <2>1, <3>1 DEF Used, Incremented
    <3>3. Budget(k)' >= Budget(k) + 1
      BY <2>1, <2>2, <2>3, <3>2, BudgetFault DEF IncrFails, Fault, Budget
    <3>4. passed'[k] = [a \in Age |-> passed[k][a] + 1]
      BY <1>4, <2>3 DEF IncrFails, Pass, TypeOK
    <3> QED
      BY <1>2, <3>2, <3>3, <3>4, WindowPaid DEF InWindow
  <2>4. CASE Incr(r)
    <3>1. count'[k] = Incremented(k) /\ faults' = faults /\ Incremented(k) \in 1..MaxCount
      BY <1>4, <2>4, IncrementedType DEF Incr, TypeOK
    <3>a. count'[k] # 0 /\ ttl'[k] \in {0, ttl[k], Window}
      BY <1>2, <2>1, <3>1
    <3>2. CASE Exceeds(k, Incremented(k))
      <4>1. passed'[k] = [a \in Age |-> passed[k][a] + 0]
        BY <1>4, <2>4, <3>2 DEF Incr, TypeOK
      <4>2. Used(k)' = Limit(k)
        BY <2>1, <3>1, <3>2 DEF Exceeds, Used
      <4>3. Budget(k)' >= Budget(k) + 0
        BY <2>1, <2>2, <3>1, <4>2 DEF Budget
      <4> QED
        BY <1>2, <3>a, <4>1, <4>3, WindowPaid
    <3>3. CASE ~Exceeds(k, Incremented(k))
      <4>1. passed'[k] = [a \in Age |-> passed[k][a] + 1]
        BY <1>4, <2>4, <3>3 DEF Incr, Pass, TypeOK
      <4>2. Used(k)' = Used(k) + 1
        BY <2>1, <3>1, <3>3 DEF Exceeds, Used, Incremented
      <4>3. Budget(k)' >= Budget(k) + 1
        BY <2>1, <2>2, <3>1, <4>2 DEF Budget
      <4> QED
        BY <1>2, <3>a, <4>1, <4>3, WindowPaid
    <3> QED
      BY <3>2, <3>3
  <2> QED
    BY <2>3, <2>4
<1> QED
  BY <1>3, <1>4

LEMMA WindowExpire ==
    ASSUME TypeOK, TypeOK', WindowInv, NEW r \in Request, Expire(r), NEW k \in Key
    PROVE  InWindow(k)'
<1>1. /\ req[r].key \in Key /\ InWindow(k) /\ count[k] \in Nat
      /\ passed' = passed /\ count' = count /\ faults' = faults
  BY BoundAssumption DEF TypeOK, Progress, WindowInv, Expire
<1>2. CASE k # req[r].key
  <2>1. ttl'[k] = ttl[k]
    BY <1>1, <1>2 DEF Expire, TypeOK
  <2> QED
    BY <1>1, <2>1, WindowIdle
<1>3. CASE k = req[r].key
  <2>1. ttl'[k] = NewTtl(k)
    BY <1>1, <1>3 DEF Expire, TypeOK
  <2>2. ttl'[k] \in {0, Window} /\ (count'[k] = 0 => ttl'[k] = 0)
    BY <1>1, <2>1 DEF NewTtl
  <2>3. passed'[k] = [a \in Age |-> passed[k][a] + 0]
    BY <1>1 DEF TypeOK
  <2>4. Budget(k)' >= Budget(k) + 0
    BY <1>1, UsedBound DEF Budget, Used, Limit
  <2> QED
    BY <1>1, <2>2, <2>3, <2>4, WindowPaid
<1> QED
  BY <1>2, <1>3

\* A tick: the window that ends had passed no more than its budget since its EXPIRE.
LEMMA WindowTick ==
    ASSUME TypeOK, TypeOK', WindowInv, Tick, NEW k \in Key
    PROVE  InWindow(k)'
<1>1. /\ InWindow(k) /\ Limit(k)' = Limit(k) /\ Limit(k) \in Nat \ {0}
      /\ Used(k) \in 0..Limit(k) /\ Budget(k) \in Nat /\ Budget(k)' \in Nat
  BY UsedBound, UsedBoundNext, MethodKey DEF WindowInv, Limit
<1>2. \A a \in Age : /\ passed[k][a] \in Nat
                     /\ passed'[k][a] = IF a = 0 THEN 0 ELSE passed[k][a - 1]
                     /\ a = 0 \/ a - 1 \in Age
  BY BoundAssumption DEF TypeOK, Tick, Age
<1>3. /\ ttl'[k] = IF ttl[k] = 0 THEN 0 ELSE ttl[k] - 1
      /\ count'[k] = IF ttl[k] = 1 THEN 0 ELSE count[k]
      /\ faults' = faults /\ faults * Limit(k) \in Nat
  BY <1>1, BoundAssumption DEF TypeOK, Tick
<1>4. 0 \in Age /\ Window - 1 \in Age /\ Window \in Nat /\ ttl[k] \in 0..Window
  BY BoundAssumption DEF Age, TypeOK
<1>5. \A a \in Age : passed'[k][a] <= passed[k][a]
  <2> SUFFICES ASSUME NEW a \in Age, a # 0
               PROVE  passed[k][a - 1] <= passed[k][a]
    BY <1>2
  <2>1. a - 1 \in Age /\ a - 1 <= a
    BY <1>2 DEF Age
  <2> QED
    BY <1>1, <2>1 DEF InWindow
<1>6. \A a, b \in Age : a <= b => passed'[k][a] <= passed'[k][b]
  <2> SUFFICES ASSUME NEW a \in Age, NEW b \in Age, a <= b
               PROVE  passed'[k][a] <= passed'[k][b]
    OBVIOUS
  <2>1. CASE a = 0
    BY <1>2, <2>1
  <2>2. CASE a # 0
    <3>1. b # 0 /\ a - 1 \in Age /\ b - 1 \in Age /\ a - 1 <= b - 1
      BY <1>2, <2>2 DEF Age
    <3> QED
      BY <1>1, <1>2, <2>2, <3>1 DEF InWindow
  <2> QED
    BY <2>1, <2>2
<1>7. passed'[k][0] <= Budget(k)'
  BY <1>1, <1>2, <1>4
<1>8. CASE ttl[k] = 1
  <2>1. passed[k][Window - 1] <= Budget(k)
    BY <1>1, <1>8 DEF InWindow
  <2>2. Budget(k)' = faults * Limit(k)
    BY <1>1, <1>3, <1>8 DEF Budget, Used
  <2>3. passed'[k][Window - 1] <= Limit(k)' + Budget(k)'
    BY <1>1, <1>2, <1>3, <1>4, <1>5, <2>1, <2>2 DEF Budget
  <2> QED
    BY <1>3, <1>6, <1>7, <1>8, <2>3 DEF InWindow
<1>9. CASE ttl[k] # 1
  <2>1. Budget(k)' = Budget(k)
    BY <1>3, <1>9 DEF Budget, Used, Limit
  <2>2. passed'[k][Window - 1] <= Limit(k)' + Budget(k)'
    BY <1>1, <1>2, <1>4, <1>5, <2>1 DEF InWindow
  <2>3. ASSUME ttl'[k] > 0
        PROVE  passed'[k][Window - ttl'[k]] <= Budget(k)'
    <3>1. ttl[k] > 1 /\ ttl'[k] = ttl[k] - 1
      BY <1>3, <1>4, <1>9, <2>3
    <3>2. /\ Window - ttl'[k] \in Age /\ Window - ttl'[k] # 0
          /\ (Window - ttl'[k]) - 1 = Window - ttl[k]
      BY <1>4, <3>1 DEF Age
    <3>3. passed[k][Window - ttl[k]] <= Budget(k)
      BY <1>1, <1>4, <3>1 DEF InWindow
    <3>4. passed'[k][Window - ttl'[k]] = passed[k][Window - ttl[k]]
      BY <1>2, <3>2
    <3> QED
      BY <2>1, <3>3, <3>4
  <2>4. count'[k] = 0 => ttl'[k] = 0
    BY <1>1, <1>3, <1>9 DEF InWindow
  <2> QED
    BY <1>6, <1>7, <2>2, <2>3, <2>4 DEF InWindow
<1> QED
  BY <1>8, <1>9

LEMMA WindowLoss ==
    ASSUME TypeOK, TypeOK', WindowInv, RedisLoss, NEW k \in Key
    PROVE  InWindow(k)'
<1>1. /\ InWindow(k) /\ Limit(k) \in Nat \ {0} /\ Used(k) \in 0..Limit(k)
      /\ Budget(k) \in Nat /\ faults * Limit(k) \in Nat
  BY UsedBound, MethodKey, BoundAssumption DEF WindowInv, TypeOK
<1>2. count'[k] = 0 /\ ttl'[k] = 0 /\ passed' = passed /\ faults' = faults + 1
  BY DEF RedisLoss, Fault
<1>3. Used(k)' = 0
  BY <1>1, <1>2 DEF Used, Limit
<1>4. Budget(k)' >= Budget(k) + 0
  BY <1>1, <1>2, <1>3, BudgetFault DEF Budget
<1>5. passed'[k] = [a \in Age |-> passed[k][a] + 0]
  BY <1>2 DEF TypeOK
<1> QED
  BY <1>1, <1>2, <1>4, <1>5, WindowPaid

LEMMA WindowStep == TypeOK /\ TypeOK' /\ WindowInv /\ [Next]_vars => WindowInv'
<1> SUFFICES ASSUME TypeOK, TypeOK', WindowInv, [Next]_vars, NEW k \in Key
             PROVE  InWindow(k)'
  BY DEF WindowInv
<1>1. InWindow(k)
  BY DEF WindowInv
<1>2. ASSUME UNCHANGED <<keyVars, passed>>, faults' \in {faults, faults + 1}
      PROVE  InWindow(k)'
  BY <1>1, <1>2, WindowIdle DEF keyVars
<1>3. ASSUME NEW r \in Request, Arrive(r) \/ Serve(r) \/ IncrFails(r) \/ ExpireFails(r)
      PROVE  InWindow(k)'
  <2>1. CASE Incr(r) \/ IncrFails(r)
    BY <2>1, WindowIncr
  <2>2. CASE Expire(r)
    BY <2>2, WindowExpire
  <2>3. CASE Arrive(r) \/ Auth(r) \/ Handle(r) \/ ExpireFails(r)
    BY <1>2, <2>3 DEF Arrive, Auth, Handle, ExpireFails, Fault
  <2> QED
    BY <1>3, <2>1, <2>2, <2>3 DEF Serve
<1>4. CASE BackendCrash
  BY <1>2, <1>4 DEF BackendCrash, Fault
<1>5. CASE UNCHANGED vars
  BY <1>2, <1>5 DEF vars
<1> QED
  BY <1>3, <1>4, <1>5, WindowTick, WindowLoss DEF Next

LEMMA WindowBounds == TypeOK /\ WindowInv => SlidingBound
<1> SUFFICES ASSUME TypeOK, WindowInv, NEW k \in Key
             PROVE  passed[k][Window - 1] <= (2 + faults) * Limit(k)
  BY DEF SlidingBound
<1>1. /\ InWindow(k) /\ Limit(k) \in Nat /\ faults \in Nat /\ Used(k) \in 0..Limit(k)
      /\ Window - 1 \in Age /\ passed[k][Window - 1] \in Nat
  BY UsedBound, MethodKey, BoundAssumption DEF WindowInv, TypeOK, Age
<1>2. \A f, l \in Nat : (2 + f) * l = f * l + l + l /\ f * l \in Nat
  OBVIOUS
<1> QED
  BY <1>1, <1>2 DEF InWindow, Budget

\* However the requests of a client fall, across the end of a window, while the first of
\* them has still to set it, or around a fault: no Window ticks see more than two limits,
\* and one more for each fault.
THEOREM SlidingBoundCorrect == Spec => []SlidingBound
<1>1. Init => WindowInv
  <2> SUFFICES ASSUME Init, NEW k \in Key PROVE InWindow(k)
    BY DEF WindowInv
  <2>1. 0 \in Age /\ Window - 1 \in Age /\ Limit(k) \in Nat \ {0}
    BY MethodKey, BoundAssumption DEF Age
  <2>2. \A a \in Age : passed[k][a] = 0
    BY DEF Init
  <2>3. Budget(k) = 0
    BY <2>1 DEF Init, Budget, Used
  <2> QED
    BY <2>1, <2>2, <2>3 DEF Init, InWindow
<1> QED
  BY <1>1, TypeCorrect, WindowStep, WindowBounds, PTL DEF Spec

============================================================================
