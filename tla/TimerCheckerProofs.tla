------------------------ MODULE TimerCheckerProofs ------------------------
(***************************************************************************)
(* Theorems about the timers (TimerChecker), for every set of timers,      *)
(* every table and every interval, delay and length of the clock.          *)
(***************************************************************************)
EXTENDS TimerChecker, HashTableFacts

\* What the numbers and the marks of a timer keep to.
Typed ==
  /\ inte \in [Keys -> Int] /\ due \in [Keys -> Nat]
  /\ sec \in Nat /\ pending \in 0 .. MaxLate
  /\ stale \in BOOLEAN /\ freed \in BOOLEAN /\ c \in Keys \cup {None}
  /\ registered \subseteq Keys /\ atRisk \subseteq Keys
  /\ ran \subseteq Keys /\ done \subseteq Keys

\* The table, and what the callers were told.
TableInv ==
  /\ Shape(table) /\ Apart(table)
  /\ \A k \in Keys : Has(table, k) => k \in registered
  /\ \A k \in registered : Has(table, k) \/ k \in atRisk

\* Where the pass stands, and the record it is about to use.  After the
\* callback has freed them, they are those of timers that are at risk.
PassStands ==
  /\ phase \in {"idle", "walk", "call"} /\ ite \in Iterators
  /\ phase = "walk" /\ ~stale /\ ite.cur # None => StandsOn(table, ite)
  /\ phase = "call" => ite.idx \in Chains
  /\ phase = "call" /\ ~freed => c = ite.cur /\ c # None /\ StandsOn(table, ite)
  /\ freed => phase = "call" /\ stale
  /\ freed /\ ite.cur # None => Has(table, ite.cur) /\ ite.cur \in atRisk
  /\ c # None => phase = "call" /\ Has(table, c) /\ (freed => c \in atRisk)

\* A timer that waits is as far from its interval as it has still to wait,
\* or farther, and a one-time timer leaves the table with its call.
WaitInv ==
  /\ \A k \in Keys \ atRisk : Has(table, k) /\ due[k] > 0 => inte[k] + due[k] <= Interval[k]
  /\ \A k \in OneTime \cap done : Has(table, k) => Called(k)

TimerInv == Typed /\ TableInv /\ PassStands /\ WaitInv

LEMMA InitTimer == Init => TimerInv
<1> SUFFICES ASSUME Init PROVE TimerInv
  OBVIOUS
<1>1. Shape(table) /\ Apart(table) /\ \A k \in Keys : ~Has(table, k)
  BY NewShape DEF Init
<1>2. Typed
  <2>1. 0 \in 0 .. MaxLate
    BY TimerAssumption
  <2>2. inte \in [Keys -> Int] /\ due \in [Keys -> Nat]
    BY DEF Init
  <2>3. QED BY <2>1, <2>2 DEF Init, Typed
<1>3. Start \in Iterators
  BY HashTableAssumption DEF Start, Iterators
<1>4. TableInv /\ PassStands
  BY <1>1, <1>3 DEF Init, TableInv, PassStands
<1>5. WaitInv
  BY <1>1 DEF Init, WaitInv
<1>6. QED BY <1>2, <1>4, <1>5 DEF TimerInv

\* While no callback has removed a timer the pass stands on an item.
LEMMA PassIsOnItem ==
  ASSUME TimerInv, phase # "idle", ~stale
  PROVE  ite \in Iterators /\ (ite.cur # None => StandsOn(table, ite)) /\ ~freed
BY DEF TimerInv, PassStands, Typed

\* Registering a timer, whoever does it and when.
LEMMA RegistKeeps ==
  ASSUME TimerInv, NEW k \in Keys, RegistTimer(k), UNCHANGED <<sec, pending, phase>>,
         phase # "walk"
  PROVE  TimerInv'
<1>1. /\ Shape(table') /\ Apart(table') /\ ~Has(table, k)
      /\ \A j \in Keys : Has(table, j)' <=> Has(table, j) \/ j = k
  <2>1. Shape(table) /\ Apart(table) /\ ~Exist(table, k) /\ table' = HashPut(table, k)
    BY DEF RegistTimer, TimerInv, TableInv
  <2>2. /\ Shape(HashPut(table, k)) /\ Apart(HashPut(table, k))
        /\ \A j \in Keys : Has(HashPut(table, k), j) <=> Has(table, j) \/ j = k
    BY <2>1, PutShape
  <2>3. QED BY <2>1, <2>2, HasIsFound DEF Has
<1>2. /\ Interval[k] \in Nat /\ Delay[k] \in Nat /\ MaxDue[k] = Interval[k] + Delay[k]
      /\ OneTime \subseteq Keys
  BY TimerAssumption DEF MaxDue
<1>3. /\ c' = c \/ (freed /\ c' = k)
      /\ ite' \in Iterators /\ ite'.idx = ite.idx
      /\ ite'.cur = ite.cur \/ (freed /\ ite'.cur = k)
  <2>1. ite \in Iterators
    BY DEF TimerInv, PassStands
  <2>2. QED BY <2>1 DEF RegistTimer, Iterators
<1>4. /\ atRisk' = IF freed THEN atRisk \cup {k} ELSE atRisk \ {k}
      /\ registered' = registered \cup {k} /\ done' = done \ {k}
      /\ UNCHANGED <<freed, stale, ran, phase>>
  BY DEF RegistTimer
<1>5. Typed'
  BY <1>2, <1>3, <1>4 DEF RegistTimer, TimerInv, Typed
<1>6. TableInv'
  BY <1>1, <1>4 DEF TimerInv, Typed, TableInv
<1>7. PassStands'
  <2>1. ~freed => ite' = ite /\ c' = c
    BY <1>3 DEF TimerInv, PassStands, Iterators
  <2>2. phase \in {"idle", "call"} /\ (phase = "call" => ite.idx \in Chains) /\ (freed => phase = "call" /\ stale)
    BY DEF TimerInv, PassStands
  <2>3. ASSUME ~freed, phase = "call" PROVE c = ite.cur /\ c # None /\ StandsOn(table', ite)
    <3>1. c = ite.cur /\ c # None /\ StandsOn(table, ite)
      BY <2>3 DEF TimerInv, PassStands
    <3>2. QED BY <1>1, <3>1 DEF StandsOn, Has
  <2>4. ASSUME freed, ite'.cur # None PROVE Has(table', ite'.cur) /\ ite'.cur \in atRisk'
    BY <1>1, <1>3, <1>4, <2>4 DEF TimerInv, PassStands, Iterators, Has
  <2>5. ASSUME c' # None
        PROVE  phase = "call" /\ Has(table', c') /\ (freed => c' \in atRisk')
    BY <1>1, <1>3, <1>4, <2>2, <2>5 DEF TimerInv, PassStands, Typed, Has
  <2>6. QED BY <1>3, <1>4, <2>1, <2>2, <2>3, <2>4, <2>5 DEF PassStands, Has, StandsOn
<1>8. WaitInv'
  <2>1. ASSUME NEW j \in Keys \ atRisk', Has(table, j)', due'[j] > 0
        PROVE  inte'[j] + due'[j] <= Interval[j]
    <3>1. CASE j = k
      BY <1>2, <3>1 DEF RegistTimer, TimerInv, Typed
    <3>2. CASE j # k
      BY <1>1, <1>4, <2>1, <3>2 DEF RegistTimer, TimerInv, Typed, WaitInv
    <3>3. QED BY <3>1, <3>2
  <2>2. ASSUME NEW j \in OneTime \cap done', Has(table, j)'
        PROVE  Called(j)'
    <3>1. j \in Keys /\ j # k /\ j \in done /\ Has(table, j)
      BY <1>1, <1>2, <1>4, <2>2
    <3>2. Called(j)
      BY <2>2, <3>1 DEF TimerInv, WaitInv
    <3>3. QED BY <1>3, <1>4, <3>2 DEF Called
  <2>3. QED BY <2>1, <2>2 DEF WaitInv
<1>9. QED BY <1>5, <1>6, <1>7, <1>8 DEF TimerInv

\* Unregistering a timer, whoever does it and when: what is removed is the
\* timer, or one that is put at risk.
LEMMA UnregistKeeps ==
  ASSUME TimerInv, NEW k \in Keys, UnregistTimer(k), UNCHANGED <<sec, pending, phase>>,
         phase # "walk"
  PROVE  TimerInv'
<1> DEFINE hit == Find(table, k)
<1>1. /\ Shape(table) /\ Apart(table) /\ OneTime \subseteq Keys
      /\ Matches[k] \subseteq Keys
  BY TimerAssumption, HashTableAssumption DEF TimerInv, TableInv
<1>2. /\ registered' = registered \ {k} /\ atRisk' = RiskOf(k)
      /\ UNCHANGED <<inte, due, ran, done, phase, sec, pending>>
  BY DEF UnregistTimer
<1>3. atRisk' \subseteq Keys /\ atRisk \ {k} \subseteq atRisk'
  BY <1>1, <1>2 DEF RiskOf, TimerInv, Typed
<1>4. CASE ~Exist(table, k)
  <2>1. UNCHANGED <<table, stale, freed, ite, c>> /\ ~Has(table, k)
    BY <1>4, HasIsFound DEF UnregistTimer
  <2>2. Typed' /\ TableInv'
    BY <1>2, <1>3, <2>1 DEF TimerInv, Typed, TableInv
  <2>3. PassStands'
    BY <1>2, <1>3, <2>1 DEF TimerInv, Typed, PassStands, StandsOn, Iterators, Has
  <2>4. WaitInv'
    BY <1>1, <1>2, <1>3, <2>1 DEF TimerInv, WaitInv, Called, Has
  <2>5. QED BY <2>2, <2>3, <2>4 DEF TimerInv
<1>5. CASE Exist(table, k)
  <2>1. /\ table' = HashRemove(table, k) /\ stale' = (phase = "call")
        /\ freed' = (freed \/ (phase = "call" /\ c = hit))
        /\ ite' = [ite EXCEPT !.cur = IF @ = hit THEN None ELSE @]
        /\ c' = IF c = hit THEN None ELSE c
    BY <1>5 DEF UnregistTimer
  <2>2. hit \in Keys /\ hit \in Matches[k] /\ hit # None
    BY <1>1, <1>5, FindsMatch, HashTableAssumption
  <2>3. Has(table, k) => hit = k
    BY <1>1, FindsItself
  <2>4. /\ Shape(table') /\ Apart(table')
        /\ \A j \in Keys : Has(table, j)' <=> Has(table, j) /\ j # hit
    <3>1. table' = TakeOut(table, hit)
      BY <1>1, <1>5, <2>1, RemoveTakesOut
    <3>2. /\ Shape(TakeOut(table, hit)) /\ Apart(TakeOut(table, hit))
          /\ \A j \in Keys : Has(TakeOut(table, hit), j) <=> Has(table, j) /\ j # hit
      BY <1>1, <2>2, RemoveShape
    <3>3. QED BY <3>1, <3>2 DEF Has
  <2>5. ~Has(table, k)'
    BY <2>3, <2>4
  <2>6. hit = k \/ hit \in atRisk'
    <3>1. CASE k \in registered \ atRisk
      BY <2>3, <3>1 DEF TimerInv, TableInv
    <3>2. CASE k \notin registered \ atRisk
      BY <1>2, <2>2, <3>2 DEF RiskOf
    <3>3. QED BY <3>1, <3>2
  <2> HIDE DEF hit
  <2>7. /\ ite \in Iterators /\ ite' \in Iterators /\ ite'.idx = ite.idx
        /\ ite'.cur = IF ite.cur = hit THEN None ELSE ite.cur
        /\ ite.cur # hit => ite' = ite
    BY <2>1 DEF TimerInv, PassStands, Iterators
  <2>8. Typed'
    BY <1>2, <1>3, <2>1 DEF TimerInv, Typed
  <2>9. TableInv'
    BY <1>2, <1>3, <2>4, <2>5, <2>6 DEF TimerInv, Typed, TableInv
  <2>10. PassStands'
    <3>1. phase \in {"idle", "call"} /\ (phase = "call" => ite.idx \in Chains)
      BY DEF TimerInv, PassStands
    <3>2. ASSUME phase = "call", ~freed'
          PROVE  c' = ite'.cur /\ c' # None /\ StandsOn(table', ite')
      <4>1. c # hit /\ c = ite.cur /\ c # None /\ StandsOn(table, ite)
        BY <2>1, <3>2 DEF TimerInv, PassStands
      <4>2. QED BY <2>1, <2>4, <2>7, <4>1 DEF StandsOn, Has
    <3>3. freed' => phase = "call" /\ stale'
      BY <2>1 DEF TimerInv, PassStands
    <3>4. ASSUME freed', ite'.cur # None
          PROVE  Has(table', ite'.cur) /\ ite'.cur \in atRisk'
      <4>1. ite.cur # hit /\ ite' = ite /\ ite.cur \in Keys
        BY <2>7, <3>4 DEF Iterators
      <4>2. CASE freed
        <5>1. Has(table, ite.cur) /\ ite.cur \in atRisk
          BY <3>4, <4>1, <4>2 DEF TimerInv, PassStands
        <5>2. Has(table', ite.cur) /\ ite.cur # k
          BY <2>4, <2>5, <4>1, <5>1 DEF Has
        <5>3. QED BY <1>3, <4>1, <5>1, <5>2
      <4>3. CASE ~freed
        BY <2>1, <3>4, <4>1, <4>3 DEF TimerInv, PassStands
      <4>4. QED BY <4>2, <4>3
    <3>5. ASSUME c' # None
          PROVE  phase = "call" /\ Has(table', c') /\ (freed' => c' \in atRisk')
      <4>1. c # hit /\ c' = c /\ c # None
        BY <2>1, <3>5
      <4>2. phase = "call" /\ Has(table, c) /\ (freed => c \in atRisk) /\ c \in Keys
        BY <4>1 DEF TimerInv, PassStands, Typed
      <4>3. Has(table', c) /\ c # k
        BY <2>4, <2>5, <4>1, <4>2 DEF Has
      <4>4. QED BY <1>3, <2>1, <4>1, <4>2, <4>3
    <3>6. QED BY <1>2, <2>7, <3>1, <3>2, <3>3, <3>4, <3>5 DEF PassStands, StandsOn, Has
  <2>11. WaitInv'
    <3>1. ASSUME NEW j \in Keys \ atRisk', Has(table, j)'
          PROVE  j \in Keys \ atRisk /\ Has(table, j)
      BY <1>3, <2>4, <2>5, <3>1
    <3>2. ASSUME NEW j \in OneTime \cap done', Has(table, j)'
          PROVE  Called(j)'
      <4>1. j \in Keys /\ j \in done /\ Has(table, j) /\ j # hit
        BY <1>1, <1>2, <2>4, <3>2
      <4>2. Called(j)
        BY <3>2, <4>1 DEF TimerInv, WaitInv
      <4>3. QED BY <1>2, <2>1, <4>1, <4>2 DEF Called
    <3>3. QED BY <1>2, <3>1, <3>2 DEF TimerInv, WaitInv
  <2>12. QED BY <2>8, <2>9, <2>10, <2>11 DEF TimerInv
<1>6. QED BY <1>4, <1>5

\* A second: what a timer has to wait goes down with the clock, which may
\* start again from 0.
LEMMA TickKeeps ==
  ASSUME TimerInv, Tick
  PROVE  TimerInv'
<1>1. /\ MaxLate \in Nat /\ HORIZON \in Nat \ {0} /\ OneTime \subseteq Keys
      /\ \A k \in Keys : Interval[k] \in Nat
  BY TimerAssumption
<1>2. Typed'
  <2>1. sec' \in Nat /\ pending' \in 0 .. MaxLate
    BY <1>1 DEF Tick, TimerInv, Typed
  <2>2. inte' \in [Keys -> Int]
    BY <1>1 DEF Tick, TimerInv, Typed
  <2>3. due' \in [Keys -> Nat]
    BY DEF Tick, TimerInv, Typed
  <2>4. QED BY <2>1, <2>2, <2>3 DEF Tick, TimerInv, Typed
<1>3. TableInv' /\ PassStands'
  BY DEF Tick, TimerInv, TableInv, PassStands, StandsOn, Has
<1>4. ASSUME NEW k \in Keys \ atRisk', Has(table, k)', due'[k] > 0
      PROVE  inte'[k] + due'[k] <= Interval[k]
  <2>1. Has(table, k) /\ k \notin atRisk /\ inte[k] \in Int /\ due[k] \in Nat
    BY <1>4 DEF Tick, TimerInv, Typed, Has
  <2>2. due[k] > 0 /\ due'[k] = due[k] - 1
    BY <1>4, <2>1 DEF Tick
  <2>3. inte[k] + due[k] <= Interval[k]
    BY <2>1, <2>2 DEF TimerInv, WaitInv
  <2>4. inte'[k] \in {inte[k] + 1 - HORIZON, inte[k] + 1, inte[k]}
    <3>1. k \in KeysOf(table)
      BY <2>1, KeysAreFound DEF TimerInv, TableInv
    <3>2. QED BY <3>1 DEF Tick
  <2>5. QED BY <1>1, <2>1, <2>2, <2>3, <2>4
<1>5. WaitInv'
  BY <1>1, <1>4 DEF Tick, TimerInv, WaitInv, Called, Has
<1>6. QED BY <1>2, <1>3, <1>5 DEF TimerInv

LEMMA StartPassKeeps ==
  ASSUME TimerInv, StartPass
  PROVE  TimerInv'
<1>1. Start \in Iterators /\ Start.cur = None
  BY HashTableAssumption DEF Start, Iterators
<1>2. Typed'
  <2>1. pending' \in 0 .. MaxLate
    BY TimerAssumption DEF StartPass, TimerInv, Typed
  <2>2. stale' \in BOOLEAN /\ ran' \subseteq Keys
    BY DEF StartPass, TimerInv, Typed
  <2>3. UNCHANGED <<inte, due, sec, c, freed, registered, done, atRisk>>
    BY DEF StartPass
  <2>4. QED BY <2>1, <2>2, <2>3 DEF TimerInv, Typed
<1>3. TableInv'
  BY DEF StartPass, TimerInv, TableInv
<1>4. PassStands' /\ WaitInv'
  <2>1. /\ phase = "idle" /\ ~freed /\ c = None
        /\ UNCHANGED <<table, inte, c, freed, due, done, atRisk>>
    BY DEF StartPass, TimerInv, PassStands
  <2>2. phase' \in {"idle", "walk"} /\ ite' \in Iterators /\ (phase' = "walk" => ite'.cur = None)
    BY <1>1, <2>1 DEF StartPass, TimerInv, PassStands
  <2>3. QED BY <2>1, <2>2 DEF TimerInv, PassStands, WaitInv, Called, Has
<1>5. QED BY <1>2, <1>3, <1>4 DEF TimerInv

\* The next timer of the table is called only when it has waited.
LEMMA WalkFinds ==
  ASSUME TimerInv, Walk, phase' # "idle"
  PROVE  /\ ~stale /\ ite' = IteNext(table, ite) /\ ite' # Ended
         /\ ite' \in Iterators /\ StandsOn(table, ite') /\ ite'.cur \in Keys
         /\ Find(table, ite'.cur) = ite'.cur
         /\ phase' = "call" =>
              /\ c' = ite'.cur /\ IsDue(ite'.cur)
              /\ ite'.cur \notin atRisk => due[ite'.cur] = 0
              /\ ite'.cur \notin OneTime \cap done
<1> DEFINE next == IteNext(table, ite)
<1>1. phase = "walk" /\ ~stale /\ next # Ended /\ ite' = next
  BY DEF Walk
<1>2. Shape(table) /\ Apart(table) /\ ite \in Iterators /\ (ite.cur # None => StandsOn(table, ite))
  BY <1>1, PassIsOnItem DEF TimerInv, TableInv
<1>3. next \in Iterators /\ StandsOn(table, next)
  BY <1>1, <1>2, NextStands
<1>4. next.cur \in Keys /\ Has(table, next.cur) /\ Find(table, next.cur) = next.cur
  BY <1>2, <1>3, FindsItself DEF StandsOn
<1>5. phase' = "call" => c' = Find(table, next.cur) /\ IsDue(Find(table, next.cur))
  BY <1>1 DEF Walk
<1> HIDE DEF next
<1>6. ASSUME phase' = "call"
      PROVE  /\ c' = ite'.cur /\ IsDue(ite'.cur)
             /\ ite'.cur \notin atRisk => due[ite'.cur] = 0
             /\ ite'.cur \notin OneTime \cap done
  <2>1. c' = ite'.cur /\ IsDue(ite'.cur)
    BY <1>1, <1>4, <1>5, <1>6
  <2>2. inte[ite'.cur] >= Interval[ite'.cur]
    BY <2>1 DEF IsDue
  <2>3. ite'.cur \in Keys /\ Has(table, ite'.cur)
    BY <1>1, <1>4
  <2>4. inte[ite'.cur] \in Int /\ due[ite'.cur] \in Nat /\ Interval[ite'.cur] \in Nat
    BY <2>3, TimerAssumption DEF TimerInv, Typed
  <2>5. ite'.cur \notin atRisk => due[ite'.cur] = 0
    BY <2>2, <2>3, <2>4 DEF TimerInv, WaitInv
  <2>6. ite'.cur \notin OneTime \cap done
    BY <1>1, <2>3 DEF TimerInv, WaitInv, Called
  <2>7. QED BY <2>1, <2>5, <2>6
<1>7. QED BY <1>1, <1>3, <1>4, <1>6 DEF next

LEMMA WalkKeeps ==
  ASSUME TimerInv, Walk
  PROVE  TimerInv'
<1>1. /\ phase = "walk" /\ phase' \in {"idle", "walk", "call"} /\ ~freed /\ c = None
      /\ UNCHANGED <<table, inte, sec, pending, freed, registered, due, atRisk>>
  BY DEF Walk, TimerInv, PassStands
<1>2. CASE phase' = "idle"
  <2>1. ite' = Start /\ stale' = FALSE /\ ran' = {} /\ UNCHANGED <<c, done>>
    BY <1>1, <1>2 DEF Walk
  <2>2. Start \in Iterators
    BY HashTableAssumption DEF Start, Iterators
  <2>3. QED BY <1>1, <1>2, <2>1, <2>2
           DEF TimerInv, Typed, TableInv, PassStands, WaitInv, Called, Has
<1>3. CASE phase' # "idle"
  <2>1. /\ ~stale /\ ite' \in Iterators /\ StandsOn(table, ite') /\ ite'.cur \in Keys
        /\ Find(table, ite'.cur) = ite'.cur
        /\ ite' = IteNext(table, ite) /\ stale' = stale
        /\ phase' = "call" => c' = ite'.cur
    BY <1>3, WalkFinds DEF Walk
  <2>2. /\ phase' = "call" => ran' = ran \cup {ite'.cur}
                              /\ done' = done \cup ({ite'.cur} \cap OneTime)
        /\ phase' = "walk" => UNCHANGED <<c, ran, done>>
    BY <1>1, <1>3, <2>1 DEF Walk
  <2>3. ite'.cur # None /\ ite'.idx \in Chains /\ Has(table, ite'.cur)
    BY <2>1, BucketOf, HashTableAssumption DEF StandsOn
  <2>4. Typed'
    BY <1>1, <1>3, <2>1, <2>2 DEF TimerInv, Typed
  <2>5. TableInv'
    BY <1>1 DEF TimerInv, TableInv
  <2>6. PassStands'
    BY <1>1, <1>3, <2>1, <2>2, <2>3 DEF PassStands, StandsOn, Has
  <2>7. ASSUME NEW j \in OneTime \cap done', Has(table, j)'
        PROVE  Called(j)'
    <3>1. j \notin done
      <4>1. Has(table, j)
        BY <1>1, <2>7 DEF Has
      <4>2. QED BY <1>1, <2>7, <4>1 DEF TimerInv, WaitInv, Called
    <3>2. phase' = "call" /\ j = ite'.cur
      BY <1>1, <1>3, <2>2, <2>7, <3>1
    <3>3. QED BY <1>1, <2>1, <3>2 DEF Called
  <2>8. WaitInv'
    BY <1>1, <2>7 DEF TimerInv, WaitInv, Has
  <2>9. QED BY <2>4, <2>5, <2>6, <2>8 DEF TimerInv
<1>4. QED BY <1>2, <1>3

\* A one-time timer is removed when its callback returns, another one waits
\* for its interval.
LEMMA ReturnKeeps ==
  ASSUME TimerInv, CallbackReturns, ~freed
  PROVE  TimerInv'
<1>1. /\ phase = "call" /\ phase' = "walk" /\ c' = None /\ freed' = FALSE
      /\ UNCHANGED <<sec, pending, stale, ran, done, atRisk>>
  BY DEF CallbackReturns
<1>2. /\ c \in Keys /\ c = ite.cur /\ ite.idx = Bucket[c] /\ Has(table, c)
      /\ ite \in Iterators /\ StandsOn(table, ite) /\ Shape(table) /\ Apart(table)
  BY <1>1 DEF TimerInv, PassStands, TableInv, StandsOn
<1>3. OneTime \subseteq Keys /\ Interval[c] \in Nat /\ c # None
  BY <1>2, TimerAssumption, HashTableAssumption
<1>4. CASE /\ c \in OneTime
           /\ RemoveCurrent /\ registered' = registered \ {c} /\ UNCHANGED <<inte, due>>
  <2>1. table' = TakeOut(table, c) /\ ite' = StepBack(table, ite)
    BY <1>2, <1>4, IteRemoveIsRemove DEF RemoveCurrent, Has
  <2>2. /\ Shape(table') /\ Apart(table')
        /\ \A j \in Keys : Has(table, j)' <=> Has(table, j) /\ j # c
    <3>1. /\ Shape(TakeOut(table, c)) /\ Apart(TakeOut(table, c))
          /\ \A j \in Keys : Has(TakeOut(table, c), j) <=> Has(table, j) /\ j # c
      BY <1>2, RemoveShape
    <3>2. QED BY <2>1, <3>1 DEF Has
  <2>3. /\ ite' \in Iterators
        /\ ite'.cur # None => StandsOn(table, ite') /\ ite'.cur # c
    BY <1>2, <2>1, StepBackStands
  <2>4. Typed'
    BY <1>1, <1>4 DEF TimerInv, Typed
  <2>5. TableInv'
    BY <1>1, <1>4, <2>2 DEF TimerInv, Typed, TableInv
  <2>6. PassStands'
    <3>1. ite'.cur # None => StandsOn(table', ite')
      BY <2>2, <2>3 DEF StandsOn, Has
    <3>2. QED BY <1>1, <2>3, <3>1 DEF PassStands
  <2>7. WaitInv'
    <3>1. ASSUME NEW j \in OneTime \cap done', Has(table, j)' PROVE FALSE
      BY <1>1, <1>3, <2>2, <3>1 DEF TimerInv, WaitInv, Called
    <3>2. QED BY <1>1, <1>4, <2>2, <3>1 DEF TimerInv, WaitInv
  <2>8. QED BY <2>4, <2>5, <2>6, <2>7 DEF TimerInv
<1>5. CASE /\ c \notin OneTime
           /\ inte' = [inte EXCEPT ![c] = 0] /\ due' = [due EXCEPT ![c] = Interval[c]]
           /\ UNCHANGED <<table, ite, registered>>
  <2>1. Typed'
    <3>1. inte \in [Keys -> Int] /\ due \in [Keys -> Nat] /\ 0 \in Int
      BY DEF TimerInv, Typed
    <3>2. inte' \in [Keys -> Int] /\ due' \in [Keys -> Nat]
      BY <1>2, <1>3, <1>5, <3>1
    <3>3. QED BY <1>1, <1>5, <3>2 DEF TimerInv, Typed
  <2>2. TableInv'
    BY <1>1, <1>5 DEF TimerInv, TableInv
  <2>3. PassStands'
    BY <1>1, <1>2, <1>5 DEF PassStands, StandsOn, Has
  <2>4. WaitInv'
    <3>1. ASSUME NEW j \in OneTime \cap done', Has(table, j)' PROVE FALSE
      BY <1>1, <1>3, <1>5, <3>1 DEF TimerInv, WaitInv, Called, Has
    <3>2. ASSUME NEW j \in Keys \ atRisk', Has(table, j)', due'[j] > 0
          PROVE  inte'[j] + due'[j] <= Interval[j]
      <4>1. CASE j = c
        BY <1>3, <1>5, <4>1 DEF TimerInv, Typed
      <4>2. CASE j # c
        BY <1>1, <1>5, <3>2, <4>2 DEF TimerInv, Typed, WaitInv, Has
      <4>3. QED BY <4>1, <4>2
    <3>3. QED BY <3>1, <3>2 DEF WaitInv
  <2>5. QED BY <2>1, <2>2, <2>3, <2>4 DEF TimerInv
<1>6. QED BY <1>2, <1>3, <1>4, <1>5 DEF CallbackReturns, OneTimeReturns, PeriodicReturns

\* After a callback that has freed its own timer, the pass may still remove
\* or write to a timer, but one that is at risk.
LEMMA FreedReturnKeeps ==
  ASSUME TimerInv, CallbackReturns, freed
  PROVE  TimerInv'
<1>1. /\ phase = "call" /\ phase' = "walk" /\ c' = None /\ freed' = FALSE /\ stale
      /\ registered' = registered /\ due' = due
      /\ UNCHANGED <<sec, pending, stale, ran, done, atRisk>>
  BY DEF CallbackReturns, OneTimeReturns, PeriodicReturns, TimerInv, PassStands
<1>2. ite \in Iterators /\ ite.idx \in Chains /\ Shape(table) /\ Apart(table)
  BY <1>1 DEF TimerInv, PassStands, TableInv
<1>3. /\ inte' \in [Keys -> Int]
      /\ \A j \in Keys \ atRisk : inte'[j] = inte[j]
  BY <1>1 DEF CallbackReturns, OneTimeReturns, PeriodicReturns, TimerInv, PassStands, Typed
<1>4. /\ Shape(table') /\ Apart(table') /\ ite' \in Iterators
      /\ \A j \in Keys : Has(table, j)' => Has(table, j)
      /\ \A j \in Keys \ atRisk : Has(table, j) => Has(table, j)'
  <2>1. CASE UNCHANGED <<table, ite>>
    BY <1>2, <2>1 DEF Has
  <2>2. CASE /\ ite.cur \in ToSet(table[ite.idx])
             /\ table' = IteRemove(table, ite) /\ ite' = StepBack(table, ite)
    <3>1. ite.cur \in Keys /\ Bucket[ite.cur] = ite.idx /\ Has(table, ite.cur)
      <4>1. table[ite.idx] \in Seq(Keys) /\ DOMAIN table[ite.idx] = 1 .. Len(table[ite.idx])
        BY <1>2, LenProperties DEF Shape, Simple
      <4>2. ite.cur \in Keys
        BY <2>2, <4>1, ElementOfSeq DEF ToSet
      <4>3. QED BY <1>2, <2>2, <4>2 DEF Shape, Has
    <3>2. ite.cur \in atRisk
      BY <3>1, HashTableAssumption DEF TimerInv, PassStands
    <3>3. table' = TakeOut(table, ite.cur)
      BY <2>2, <3>1, IteRemoveIsRemove
    <3>4. /\ Shape(TakeOut(table, ite.cur)) /\ Apart(TakeOut(table, ite.cur))
          /\ \A j \in Keys : Has(TakeOut(table, ite.cur), j) <=> Has(table, j) /\ j # ite.cur
      BY <1>2, <3>1, RemoveShape
    <3>5. ite' \in Iterators
      BY <1>2, <2>2, <3>1, StepBackStands DEF StandsOn
    <3>6. QED BY <3>2, <3>3, <3>4, <3>5 DEF Has
  <2>3. QED BY <2>1, <2>2
           DEF CallbackReturns, OneTimeReturns, PeriodicReturns, RemoveCurrent
<1>5. Typed'
  BY <1>1, <1>3 DEF TimerInv, Typed
<1>6. TableInv'
  BY <1>1, <1>4 DEF TimerInv, Typed, TableInv
<1>7. PassStands'
  BY <1>1, <1>4 DEF PassStands
<1>8. WaitInv'
  <2>1. ASSUME NEW j \in OneTime \cap done', Has(table, j)' PROVE FALSE
    BY <1>1, <1>4, <2>1, TimerAssumption DEF TimerInv, WaitInv, Called
  <2>2. QED BY <1>1, <1>3, <1>4, <2>1 DEF TimerInv, WaitInv
<1>9. QED BY <1>5, <1>6, <1>7, <1>8 DEF TimerInv

LEMMA NextKeeps == TimerInv /\ [Next]_vars => TimerInv'
<1> SUFFICES ASSUME TimerInv, [Next]_vars PROVE TimerInv'
  OBVIOUS
<1>1. CASE AppCall \/ CallbackCall
  <2>1. UNCHANGED <<sec, pending, phase>> /\ phase # "walk"
    BY <1>1 DEF AppCall, CallbackCall
  <2>2. \E k \in Keys : RegistTimer(k) \/ UnregistTimer(k)
    BY <1>1 DEF AppCall, CallbackCall
  <2>3. QED BY <2>1, <2>2, RegistKeeps, UnregistKeeps
<1>2. CASE Tick
  BY <1>2, TickKeeps
<1>3. CASE StartPass
  BY <1>3, StartPassKeeps
<1>4. CASE Walk
  BY <1>4, WalkKeeps
<1>5. CASE CallbackReturns
  BY <1>5, ReturnKeeps, FreedReturnKeeps
<1>6. CASE UNCHANGED vars
  BY <1>6 DEF vars, TimerInv, Typed, TableInv, PassStands, WaitInv, StandsOn, Has, Called
<1>7. QED BY <1>1, <1>2, <1>3, <1>4, <1>5, <1>6 DEF Next

LEMMA TimerInvariant == Spec => []TimerInv
BY InitTimer, NextKeeps, PTL DEF Spec

\* Only a step of the pass begins a call.
LEMMA CallsAreOfWalk ==
  ASSUME [Next]_vars, phase = "walk", NEW k, Called(k)'
  PROVE  Walk
BY DEF Called, Next, vars, AppCall, CallbackCall, Tick, StartPass, CallbackReturns
-----------------------------------------------------------------------------
(* The table and everything else keep their types, a key stands once in    *)
(* the table, in its own chain (src/jm_mem.c, src/jm_cli_timer.h).         *)
THEOREM TypeCorrect == Spec => []TypeOK
<1>1. TimerInv => TypeOK
  <2> SUFFICES ASSUME TimerInv PROVE TypeOK
    OBVIOUS
  <2>1. ASSUME NEW i \in Chains
        PROVE  ToSet(table[i]) \subseteq {k \in Keys : Bucket[k] = i} /\ IsInjective(table[i])
    <3>1. Simple(table[i], Keys) /\ \A k \in ToSet(table[i]) : Bucket[k] = i
      BY DEF TimerInv, TableInv, Shape
    <3>2. ToSet(table[i]) \subseteq Keys
      BY <3>1, LenProperties, ElementOfSeq DEF Simple, ToSet
    <3>3. QED BY <3>1, <3>2 DEF Simple
  <2>2. QED BY <2>1 DEF TimerInv, Typed, TableInv, PassStands, Shape, TypeOK
<1>2. QED BY <1>1, TimerInvariant, PTL

(* Whatever a pass and any number of calls of its callbacks remove and     *)
(* register while it walks over the table, whichever keys match others,    *)
(* the table holds the timers that its callers registered, but for those   *)
(* that a callback puts at risk which has freed its own timer, or who      *)
(* unregisters a key that is not there (jm_hashmap_iteRemove,              *)
(* jm_cli_unregistTimerChecker).                                           *)
THEOREM TableHolds == Spec => []TableIsRegistered
<1>1. TimerInv => TableIsRegistered
  BY KeysAreFound DEF TimerInv, Typed, TableInv, TableIsRegistered
<1>2. QED BY <1>1, TimerInvariant, PTL

(* No timer is called before it has waited, whatever the intervals and the *)
(* delays, also across the end of the clock (_c_invokeTimerChecker).       *)
THEOREM CalledWhenDue == Spec => NeverEarly
<1>1. TimerInv /\ [Next]_vars =>
        [\A k \in Keys \ atRisk : phase = "walk" /\ Called(k)' => due[k] = 0]_vars
  <2> SUFFICES ASSUME TimerInv, [Next]_vars, NEW k \in Keys \ atRisk,
                      phase = "walk", Called(k)'
               PROVE  due[k] = 0
    OBVIOUS
  <2>1. Walk /\ phase' = "call" /\ c' = k
    BY CallsAreOfWalk DEF Called
  <2>2. QED BY <2>1, WalkFinds
<1>2. QED BY <1>1, TimerInvariant, PTL DEF Spec, NeverEarly

(* A timer registered as oneTime is called once for each registration,     *)
(* whatever its callback registers and unregisters.                        *)
THEOREM CalledOneTime == Spec => OneTimeOnce
<1>1. TimerInv /\ [Next]_vars =>
        [\A k \in OneTime : phase = "walk" /\ Called(k)' => k \notin done]_vars
  <2> SUFFICES ASSUME TimerInv, [Next]_vars, NEW k \in OneTime,
                      phase = "walk", Called(k)'
               PROVE  k \notin done
    OBVIOUS
  <2>1. Walk /\ phase' = "call" /\ c' = k
    BY CallsAreOfWalk DEF Called
  <2>2. QED BY <2>1, WalkFinds
<1>2. QED BY <1>1, TimerInvariant, PTL DEF Spec, OneTimeOnce
-----------------------------------------------------------------------------
\* A timer that was called in this pass and is ahead again - it was removed
\* and registered anew - is not due, and only one-time timers are removed
\* without the pass coming to its end.
PassInv ==
  phase # "idle" /\ ~stale =>
    \A k \in ran : /\ k \in Ahead(table, ite) => ~IsDue(k)
                   /\ ~Has(table, k) => k \in OneTime

\* A one-time timer has something to wait for.
OneTimeWaits == \A k \in OneTime : Interval[k] + Delay[k] > 0

LEMMA RegistKeepsPass ==
  ASSUME TimerInv, PassInv, OneTimeWaits, NEW k \in Keys, RegistTimer(k),
         UNCHANGED phase
  PROVE  PassInv'
<1> SUFFICES ASSUME phase # "idle", ~stale, NEW j \in ran
             PROVE  /\ j \in Ahead(table', ite') => ~IsDue(j)'
                    /\ ~Has(table', j) => j \in OneTime
  BY DEF PassInv, RegistTimer
<1>1. /\ Shape(table) /\ ite \in Iterators /\ (ite.cur # None => StandsOn(table, ite))
      /\ ~Exist(table, k) /\ table' = HashPut(table, k) /\ j \in Keys /\ ~freed
  BY PassIsOnItem DEF RegistTimer, TimerInv, TableInv, Typed
<1>2. ite' = ite
  BY <1>1 DEF RegistTimer, Iterators
<1>3. Ahead(table', ite') \subseteq Ahead(table, ite) \cup {k}
  BY <1>1, <1>2, PutAhead
<1>4. \A i \in Keys : Has(table', i) <=> Has(table, i) \/ i = k
  BY <1>1, PutShape
<1>5. inte' = [inte EXCEPT ![k] = 0 - Delay[k]] /\ inte \in [Keys -> Int]
  BY DEF RegistTimer, TimerInv, Typed
<1>6. CASE j = k
  <2>1. k \in OneTime /\ Interval[k] \in Nat /\ Delay[k] \in Nat
    BY <1>1, <1>6, TimerAssumption, HasIsFound DEF PassInv
  <2>2. ~(0 - Delay[k] >= Interval[k])
    BY <2>1 DEF OneTimeWaits
  <2>3. QED BY <1>5, <1>6, <2>1, <2>2 DEF IsDue
<1>7. CASE j # k
  <2>1. IsDue(j)' <=> IsDue(j)
    BY <1>1, <1>5, <1>7 DEF IsDue
  <2>2. QED BY <1>1, <1>3, <1>4, <1>7, <2>1 DEF PassInv
<1>8. QED BY <1>6, <1>7

LEMMA UnregistKeepsPass ==
  ASSUME PassInv, NEW k \in Keys, UnregistTimer(k), UNCHANGED phase, phase # "walk",
         phase \in {"idle", "walk", "call"}
  PROVE  PassInv'
<1>1. CASE Exist(table, k)
  BY <1>1 DEF UnregistTimer, PassInv
<1>2. CASE ~Exist(table, k)
  BY <1>2 DEF UnregistTimer, PassInv, Ahead, Has, IsDue
<1>3. QED BY <1>1, <1>2

LEMMA WalkKeepsPass ==
  ASSUME TimerInv, PassInv, Walk
  PROVE  PassInv'
<1> SUFFICES ASSUME phase' # "idle", ~stale', NEW j \in ran'
             PROVE  /\ j \in Ahead(table', ite') => ~IsDue(j)'
                    /\ ~Has(table', j) => j \in OneTime
  BY DEF PassInv
<1>1. /\ phase = "walk" /\ ~stale /\ ite' # Ended /\ ite' = IteNext(table, ite)
      /\ UNCHANGED <<table, inte>> /\ ran' \subseteq ran \cup {ite'.cur}
  BY WalkFinds DEF Walk
<1>2. Shape(table) /\ ite \in Iterators /\ (ite.cur # None => StandsOn(table, ite))
  BY <1>1, PassIsOnItem DEF TimerInv, TableInv
<1>3. /\ ite'.cur \in Ahead(table, ite)
      /\ Ahead(table, ite') = Ahead(table, ite) \ {ite'.cur}
  BY <1>1, <1>2, NextAhead
<1>4. Has(table, ite'.cur)
  BY <1>3 DEF Ahead
<1>5. IsDue(j)' <=> IsDue(j)
  BY <1>1 DEF IsDue
<1>6. QED BY <1>1, <1>3, <1>4, <1>5 DEF PassInv

LEMMA ReturnKeepsPass ==
  ASSUME TimerInv, PassInv, CallbackReturns
  PROVE  PassInv'
<1> SUFFICES ASSUME ~stale, NEW j \in ran
             PROVE  /\ j \in Ahead(table', ite') => ~IsDue(j)'
                    /\ ~Has(table', j) => j \in OneTime
  BY DEF PassInv, CallbackReturns
<1>1. /\ c \in Keys /\ c # None /\ c = ite.cur /\ ite \in Iterators /\ StandsOn(table, ite)
      /\ Shape(table) /\ phase = "call" /\ j \in Keys /\ ~freed
  BY DEF CallbackReturns, TimerInv, TableInv, PassStands, Typed
<1>2. /\ j \in Ahead(table, ite) => ~IsDue(j)
      /\ ~Has(table, j) => j \in OneTime
  BY <1>1 DEF PassInv
<1>3. CASE c \in OneTime
  <2>1. /\ table' = IteRemove(table, ite) /\ ite' = StepBack(table, ite)
        /\ UNCHANGED inte
    BY <1>1, <1>3 DEF CallbackReturns, OneTimeReturns, PeriodicReturns, RemoveCurrent,
                      StandsOn, Has
  <2>2. Ahead(table', ite') \subseteq Ahead(table, ite)
    BY <1>1, <2>1, StepBackAhead
  <2>3. IsDue(j)' <=> IsDue(j)
    BY <2>1 DEF IsDue
  <2>4. Has(table', j) <=> Has(table, j) /\ j # c
    BY <1>1, <2>1, IteRemoveIsRemove, RemoveShape DEF StandsOn
  <2>5. QED BY <1>2, <1>3, <2>2, <2>3, <2>4
<1>4. CASE c \notin OneTime
  <2>1. UNCHANGED <<table, ite>> /\ inte' = [inte EXCEPT ![c] = 0]
    BY <1>1, <1>4 DEF CallbackReturns, OneTimeReturns, PeriodicReturns
  <2>2. c \notin Ahead(table, ite)
    BY <1>1, CurNotAhead
  <2>3. j # c => (IsDue(j)' <=> IsDue(j))
    BY <1>1, <2>1 DEF IsDue, TimerInv, Typed
  <2>4. QED BY <1>2, <2>1, <2>2, <2>3
<1>5. QED BY <1>3, <1>4

(* A pass calls every timer at most once, although its callbacks register  *)
(* and unregister timers as often as they like and one-time timers leave   *)
(* the table while it walks (_c_invokeTimerChecker), if every one-time     *)
(* timer has a second to wait: the calls of jm_cli_registTimerChecker in   *)
(* src/ have intervals of at least 3 and delays of at least 1.  A one-time *)
(* timer without would run again if another callback of the pass           *)
(* registered it again.                                                    *)
THEOREM CalledOncePerPass ==
  ASSUME OneTimeWaits
  PROVE  Spec => OncePerPass
<1>1. Init => PassInv
  BY DEF Init, PassInv
<1>2. TimerInv /\ PassInv /\ [Next]_vars => PassInv'
  <2> SUFFICES ASSUME TimerInv, PassInv, [Next]_vars PROVE PassInv'
    OBVIOUS
  <2>1. CASE AppCall \/ CallbackCall
    <3>1. UNCHANGED phase /\ phase # "walk" /\ phase \in {"idle", "walk", "call"}
      BY <2>1 DEF AppCall, CallbackCall
    <3>2. PICK k \in Keys : RegistTimer(k) \/ UnregistTimer(k)
      BY <2>1 DEF AppCall, CallbackCall
    <3>3. QED BY <3>1, <3>2, RegistKeepsPass, UnregistKeepsPass
  <2>2. CASE Tick
    BY <2>2 DEF Tick, PassInv
  <2>3. CASE StartPass
    BY <2>3 DEF StartPass, PassInv
  <2>4. CASE Walk
    BY <2>4, WalkKeepsPass
  <2>5. CASE CallbackReturns
    BY <2>5, ReturnKeepsPass
  <2>6. CASE UNCHANGED vars
    BY <2>6 DEF vars, PassInv, Ahead, Has, IsDue
  <2>7. QED BY <2>1, <2>2, <2>3, <2>4, <2>5, <2>6 DEF Next
<1>3. TimerInv /\ PassInv /\ [Next]_vars =>
        [\A k \in Keys : phase = "walk" /\ Called(k)' => k \notin ran]_vars
  <2> SUFFICES ASSUME TimerInv, PassInv, [Next]_vars, NEW k \in Keys,
                      phase = "walk", Called(k)'
               PROVE  k \notin ran
    OBVIOUS
  <2>1. Walk /\ phase' = "call" /\ c' = k
    BY CallsAreOfWalk DEF Called
  <2>2. /\ ~stale /\ IteNext(table, ite) # Ended /\ k = IteNext(table, ite).cur
        /\ IsDue(k)
    BY <2>1, WalkFinds
  <2>3. Shape(table) /\ ite \in Iterators /\ (ite.cur # None => StandsOn(table, ite))
    BY <2>2, PassIsOnItem DEF TimerInv, TableInv
  <2>4. k \in Ahead(table, ite)
    BY <2>2, <2>3, NextAhead
  <2>5. QED BY <2>2, <2>4 DEF PassInv
<1>4. QED BY <1>1, <1>2, <1>3, TimerInvariant, PTL DEF Spec, OncePerPass
=============================================================================
