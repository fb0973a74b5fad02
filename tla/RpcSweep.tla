------------------------------ MODULE RpcSweep ------------------------------
(***************************************************************************)
(* One pass of _c_checkRpcTimeout over the table of the waiting requests   *)
(* (src/jm_cli_rpc.h), item by item, with the callbacks that issue new     *)
(* requests while the pass stands on their item.  It justifies the set     *)
(* Swept that RpcClient removes in one step.                               *)
(***************************************************************************)
EXTENDS HashTable

\* The keys are message ids, given out in order and compared as numbers.
ASSUME SweepAssumption ==
  /\ Keys \subseteq Int
  /\ \A k \in Keys : Matches[k] = {k}

VARIABLES
  table,    \* the chains of wait_for_resps
  ite,      \* the iterator of the pass
  phase,    \* "idle"; "walk"; "call", in a timeout callback
  late,     \* the requests that wait for longer than rpcTimeout
  before    \* history: the table as it was when the pass started

sweepVars == <<table, ite, phase, late, before>>

SweepInit ==
  /\ table = NewTable
  /\ ite = Start
  /\ phase = "idle"
  /\ late = {}
  /\ before = NewTable

\* jm_cli_invokeRpcByChannelNo puts the wait of the next message.
Register ==
  \E k \in Keys :
    /\ \A j \in KeysOf(table) \cup late : j < k
    /\ table' = HashPut(table, k)

\* Requests are issued and some become late, in any order.
InvokeRpc ==
  /\ phase = "idle"
  /\ Register
  /\ UNCHANGED <<ite, phase, late, before>>

GrowLate ==
  /\ phase = "idle"
  /\ \E k \in KeysOf(table) \ late : late' = late \cup {k}
  /\ UNCHANGED <<table, ite, phase, before>>

\* The timer "_c_RPCC" runs; nothing is done for an empty table.
StartPass ==
  /\ phase = "idle"
  /\ IF KeysOf(table) # {}
     THEN phase' = "walk" /\ ite' = Start /\ before' = table
     ELSE UNCHANGED <<phase, ite, before>>
  /\ UNCHANGED <<table, late>>

\* The next item; the callback of a late one is called.
Walk ==
  LET next == IteNext(table, ite) IN
  /\ phase = "walk"
  /\ IF next = Ended
     THEN phase' = "idle" /\ UNCHANGED ite
     ELSE ite' = next /\ phase' = IF next.cur \in late THEN "call" ELSE "walk"
  /\ UNCHANGED <<table, late, before>>

\* A timeout callback issues a new request.
CallbackInvokes ==
  /\ phase = "call"
  /\ Register
  /\ UNCHANGED <<ite, phase, late, before>>

\* The callback returns and the item is removed.
CallbackReturns ==
  /\ phase = "call"
  /\ phase' = "walk"
  /\ table' = IteRemove(table, ite)
  /\ ite' = StepBack(table, ite)
  /\ UNCHANGED <<late, before>>

SweepNext ==
  \/ InvokeRpc \/ GrowLate \/ StartPass
  \/ Walk \/ CallbackInvokes \/ CallbackReturns

SweepFairness == WF_sweepVars(StartPass) /\ WF_sweepVars(Walk) /\ WF_sweepVars(CallbackReturns)

SweepSpec == SweepInit /\ [][SweepNext]_sweepVars /\ SweepFairness
-----------------------------------------------------------------------------
\* The late requests a pass removes: not those behind a late head of their
\* chain, whose removal ends the walk of the chain.
SweptOf(arr) ==
  {k \in KeysOf(arr) \cap late :
     LET head == Head(arr[Bucket[k]]) IN head = k \/ head \notin late}

(* A pass removes exactly the requests that RpcClient's Swept names, and   *)
(* no request that a callback issued meanwhile.                            *)
PassIsSwept ==
  [][phase = "walk" /\ phase' = "idle" =>
       KeysOf(before) \ KeysOf(table) = SweptOf(before)]_sweepVars

(* However many passes it takes, every late request leaves the table.      *)
LateLeave == \A k \in Keys : k \in late ~> k \notin KeysOf(table)
=============================================================================
