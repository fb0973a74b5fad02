---------------------------- MODULE TimerChecker ----------------------------
(***************************************************************************)
(* The periodic timers of the client (src/jm_cli_timer.h) in their hash    *)
(* table: once a second the checker event runs a pass over the table,      *)
(* which calls every timer whose interval is over.  A callback may itself  *)
(* register and unregister any timers, its own included, while the pass    *)
(* stands on its item.  A callback that unregisters its own timer frees    *)
(* the item and the record that the pass goes on to use; a timer that is   *)
(* registered then may be given their memory.                              *)
(*                                                                         *)
(* The clock is jm_cli_getSysTime() / 1000, the seconds of a 32-bit        *)
(* counter of milliseconds: it has HORIZON values and then starts again    *)
(* from 0.  It does not advance while an event is handled (EventQueue), so *)
(* a pass sees one time.  lastCallTime is kept as inte, the difference to  *)
(* the clock that _c_invokeTimerChecker computes.                          *)
(***************************************************************************)
EXTENDS HashTable

CONSTANTS
  Interval,   \* the seconds between two calls of a timer
  Delay,      \* the delay it is registered with
  OneTime,    \* the timers registered as oneTime
  STARTUP,    \* the 10 s after the start in which no timer runs
  HORIZON,    \* the values of the seconds clock (4294968 in the code)
  MaxLate     \* bound: the checker events that wait together

ASSUME TimerAssumption ==
  /\ Interval \in [Keys -> Nat]
  /\ Delay \in [Keys -> Nat]
  /\ OneTime \subseteq Keys
  /\ STARTUP \in Nat
  /\ HORIZON \in Nat \ {0}
  /\ MaxLate \in Nat \ {0}

VARIABLES
  wraps,      \* does the clock reach its end, or does the client stop before?
  table,      \* the chains of timerCheckers
  inte,       \* the seconds clock minus lastCallTime
  sec,        \* the seconds clock (saturates at STARTUP when it does not wrap)
  pending,    \* the checker events that wait
  phase,      \* "idle"; "walk", between two items of a pass; "call", in a callback
  ite,        \* the iterator of the pass; its cur, when its item was freed, is
              \* the item that was given the memory, if any
  c,          \* the timer whose record is at the address that c points to
  freed,      \* the callback has unregistered its own timer
  stale,      \* the table's ver is no longer the iterator's
  registered, \* history: what the callers were told
  due,        \* history: the seconds a timer still has to wait
  ran,        \* history: the timers called in this pass
  done,       \* history: the one-time timers called since their registration
  atRisk      \* history: the timers that callers may have lost (see below)

vars == <<wraps, table, inte, sec, pending, phase, ite, c, freed, stale,
          registered, due, ran, done, atRisk>>

MaxDue == [k \in Keys |-> Interval[k] + Delay[k]]
-----------------------------------------------------------------------------
Init ==
  /\ wraps \in BOOLEAN
  /\ table = NewTable
  /\ inte = [k \in Keys |-> 0]
  /\ sec = 0
  /\ pending = 0
  /\ phase = "idle"
  /\ ite = Start
  /\ c = None
  /\ freed = FALSE
  /\ stale = FALSE
  /\ registered = {}
  /\ due = [k \in Keys |-> 0]
  /\ ran = {}
  /\ done = {}
  /\ atRisk = {}

\* jm_cli_registTimerChecker: the delay puts lastCallTime into the future.
\* A key that exists is refused.  In a callback that has freed its own timer,
\* the new item and the new record may be given the memory of the old ones.
RegistTimer(k) ==
  /\ ~Exist(table, k)
  /\ table' = HashPut(table, k)
  /\ inte' = [inte EXCEPT ![k] = 0 - Delay[k]]
  /\ \E cur \in {ite.cur} \cup (IF freed /\ ite.cur = None THEN {k} ELSE {}) :
       ite' = [ite EXCEPT !.cur = cur]
  /\ c' \in {c} \cup (IF freed /\ c = None THEN {k} ELSE {})
  /\ registered' = registered \cup {k}
  /\ due' = [due EXCEPT ![k] = MaxDue[k]]
  /\ done' = done \ {k}
  /\ atRisk' = IF freed THEN atRisk \cup {k} ELSE atRisk \ {k}
  /\ UNCHANGED <<freed, stale, ran>>

\* What goes wrong can be seen by the callers: a timer is at risk when a
\* callback registers it that has unregistered its own, and when another key
\* that matches it is unregistered without being there.
RiskOf(k) ==
  IF k \in registered \ atRisk THEN atRisk
  ELSE (atRisk \ {k}) \cup (Matches[k] \ {k})

\* jm_cli_unregistTimerChecker: the removal ends the pass that is running.
\* What it frees may be what the pass stands on.
UnregistTimer(k) ==
  /\ IF Exist(table, k)
     THEN LET hit == Find(table, k) IN
          /\ table' = HashRemove(table, k)
          /\ stale' = (phase = "call")
          /\ freed' = (freed \/ (phase = "call" /\ c = hit))
          /\ ite' = [ite EXCEPT !.cur = IF @ = hit THEN None ELSE @]
          /\ c' = IF c = hit THEN None ELSE c
     ELSE UNCHANGED <<table, stale, freed, ite, c>>
  /\ registered' = registered \ {k}
  /\ atRisk' = RiskOf(k)
  /\ UNCHANGED <<inte, due, ran, done>>

\* The application between two events, and a callback, as often as they like.
AppCall ==
  /\ phase = "idle"
  /\ \E k \in Keys : RegistTimer(k) \/ UnregistTimer(k)
  /\ UNCHANGED <<wraps, sec, pending, phase>>

CallbackCall ==
  /\ phase = "call"
  /\ \E k \in Keys : RegistTimer(k) \/ UnregistTimer(k)
  /\ UNCHANGED <<wraps, sec, pending, phase>>

\* A second passes and the checker event is posted; the loop is never late
\* by more than MaxLate seconds.
AtWrap == wraps /\ sec = HORIZON - 1

Tick ==
  /\ phase = "idle"
  /\ pending < MaxLate
  /\ sec' = IF AtWrap THEN 0 ELSE IF wraps \/ sec < STARTUP THEN sec + 1 ELSE sec
  /\ inte' = [k \in Keys |->
                IF k \notin KeysOf(table) THEN 0
                ELSE IF AtWrap THEN inte[k] + 1 - HORIZON
                ELSE IF wraps \/ inte[k] < Interval[k] THEN inte[k] + 1 ELSE inte[k]]
  /\ due' = [k \in Keys |-> IF due[k] > 0 THEN due[k] - 1 ELSE 0]
  /\ pending' = pending + 1
  /\ UNCHANGED <<wraps, table, phase, ite, c, freed, stale, registered, ran, done, atRisk>>

\* The checker event: jm_cli_main_timer starts a pass, unless the system is
\* still starting or no timer is registered.
StartPass ==
  /\ phase = "idle"
  /\ pending > 0
  /\ pending' = pending - 1
  /\ IF sec >= STARTUP /\ KeysOf(table) # {}
     THEN phase' = "walk" /\ ite' = Start /\ stale' = FALSE /\ ran' = {}
     ELSE UNCHANGED <<phase, ite, stale, ran>>
  /\ UNCHANGED <<wraps, table, inte, sec, c, freed, registered, due, done, atRisk>>

\* Fault: the difference is compared as unsigned.
IsDueUnsigned(k) == inte[k] < 0 \/ inte[k] >= Interval[k]

IsDue(k) == inte[k] >= Interval[k]

\* jm_hashmap_iteNext, and the call of the timer it finds when it is due; or
\* the end of the pass, and of its locals.
Walk ==
  LET next == IteNext(table, ite)
      t    == Find(table, next.cur)
  IN
  /\ phase = "walk"
  /\ IF stale \/ next = Ended
     THEN phase' = "idle" /\ ite' = Start /\ stale' = FALSE /\ ran' = {}
          /\ UNCHANGED <<c, done>>
     ELSE /\ ite' = next
          /\ IF IsDue(t)
             THEN /\ phase' = "call" /\ c' = t /\ ran' = ran \cup {t}
                  /\ done' = done \cup ({t} \cap OneTime)
             ELSE UNCHANGED <<phase, c, ran, done>>
          /\ UNCHANGED stale
  /\ UNCHANGED <<wraps, table, inte, sec, pending, freed, registered, due, atRisk>>

\* Fault: a one-time timer is treated like any other.
ReturnKeepsOneTime ==
  /\ phase = "call"
  /\ phase' = "walk"
  /\ inte' = IF c # None THEN [inte EXCEPT ![c] = 0] ELSE inte
  /\ due' = IF freed THEN due ELSE [due EXCEPT ![c] = Interval[c]]
  /\ c' = None /\ freed' = FALSE
  /\ UNCHANGED <<wraps, table, sec, pending, ite, stale, registered, ran, done, atRisk>>

\* Fault: removing the head of a chain drops the chain.
RemoveCurrentDropsChain ==
  IF ite.cur \in ToSet(table[ite.idx])
  THEN /\ table' = [table EXCEPT ![ite.idx] = IF ite.cur = Head(@) THEN <<>>
                                              ELSE RemoveFirst(@, ite.cur)]
       /\ ite' = StepBack(table, ite)
  ELSE UNCHANGED <<table, ite>>

\* jm_hashmap_iteRemove: nothing, for an item that is not in the chain.
RemoveCurrent ==
  IF ite.cur \in ToSet(table[ite.idx])
  THEN table' = IteRemove(table, ite) /\ ite' = StepBack(table, ite)
  ELSE UNCHANGED <<table, ite>>

\* The callback returns.  The pass asks the record whether the timer is a
\* one-time timer - memory that was freed may say either - and removes the
\* item it stands on, or writes the time into the record.
OneTimeReturns ==
  /\ c \in OneTime \cup {None}
  /\ RemoveCurrent
  /\ registered' = IF freed THEN registered ELSE registered \ {c}
  /\ UNCHANGED <<inte, due>>

PeriodicReturns ==
  /\ c \notin OneTime
  /\ inte' = IF c # None THEN [inte EXCEPT ![c] = 0] ELSE inte
  /\ due' = IF freed THEN due ELSE [due EXCEPT ![c] = Interval[c]]
  /\ UNCHANGED <<table, ite, registered>>

CallbackReturns ==
  /\ phase = "call"
  /\ phase' = "walk"
  /\ OneTimeReturns \/ PeriodicReturns
  /\ c' = None /\ freed' = FALSE
  /\ UNCHANGED <<wraps, sec, pending, stale, ran, done, atRisk>>

Next == AppCall \/ CallbackCall \/ Tick \/ StartPass \/ Walk \/ CallbackReturns

\* The clock runs, the loop handles the checker events, callbacks return.
Fairness ==
  /\ WF_vars(Tick)
  /\ WF_vars(StartPass)
  /\ WF_vars(Walk)
  /\ WF_vars(CallbackReturns)

Spec == Init /\ [][Next]_vars /\ Fairness
-----------------------------------------------------------------------------
Called(k) == phase = "call" /\ ~freed /\ c = k

\* A pass comes to the end of the table: no callback has removed a timer.
PassCompletes == phase = "walk" /\ ~stale /\ phase' = "idle"

\* Type invariant, with the shape of the hash table: a key is at most once
\* in the table, and in its own chain (jm_mem.c).
TypeOK ==
  /\ DOMAIN table = Chains
  /\ \A i \in Chains : /\ ToSet(table[i]) \subseteq {k \in Keys : Bucket[k] = i}
                       /\ IsInjective(table[i])
  /\ inte \in [Keys -> Int]
  /\ sec \in Nat
  /\ pending \in 0 .. MaxLate
  /\ phase \in {"idle", "walk", "call"}
  /\ ite \in Iterators
  /\ c \in Keys \cup {None}
  /\ freed \in BOOLEAN
  /\ stale \in BOOLEAN
  /\ registered \subseteq Keys
  /\ due \in [Keys -> Nat]
  /\ ran \subseteq Keys
  /\ done \subseteq Keys
  /\ atRisk \subseteq Keys

(* What the table holds is what the callers were told: the removals of a   *)
(* pass (jm_hashmap_iteRemove) and of its callbacks never lose another     *)
(* timer, although keys match others of their chain - only one that was    *)
(* put at risk: by a callback that has freed its own, on which the pass    *)
(* stands, or by who unregisters a key that is not there.                  *)
TableIsRegistered ==
  /\ KeysOf(table) \subseteq registered
  /\ registered \ KeysOf(table) \subseteq atRisk

(* A timer is never called early: neither before its delay and interval    *)
(* after its registration, nor before its interval after its last call,    *)
(* also when the clock starts again from 0 in between (if it is not at     *)
(* risk: the pass may write the time into the wrong record).               *)
NeverEarly ==
  [][\A k \in Keys \ atRisk : phase = "walk" /\ Called(k)' => due[k] = 0]_vars

(* A pass calls a timer at most once, although callbacks register timers   *)
(* and the pass removes items while it walks (_c_invokeTimerChecker).      *)
OncePerPass ==
  [][\A k \in Keys : phase = "walk" /\ Called(k)' => k \notin ran]_vars

(* A one-time timer is called once for each time it is registered.         *)
OneTimeOnce ==
  [][\A k \in OneTime : phase = "walk" /\ Called(k)' => k \notin done]_vars

(* Every registered timer is called again and again until it is no longer  *)
(* registered, although the removal of a one-time timer at the head of a   *)
(* chain ends the walk of that chain - as long as, again and again, a pass *)
(* runs in which no callback removes a timer: the chains behind one whose  *)
(* callback does so in every pass are never reached.                       *)
TimersKeepRunning ==
  []<><<PassCompletes>>_vars =>
    \A k \in Keys : k \in registered ~> wraps \/ Called(k) \/ k \notin registered \ atRisk

(* jm_client.c:549, on the registration of the timer "_chb": "one          *)
(* heartbeat a minute" - a periodic timer that stays registered is called  *)
(* for ever, although no callback keeps the passes from their end.         *)
HeartbeatGoesOn ==
  []<><<PassCompletes>>_vars =>
    \A k \in Keys \ OneTime : []<>(Called(k) \/ k \notin registered \ atRisk)
=============================================================================
