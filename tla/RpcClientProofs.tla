--------------------------- MODULE RpcClientProofs ---------------------------
(***************************************************************************)
(* Theorems about RpcClient, for every number of messages and buckets and  *)
(* for all values of the timeouts.                                         *)
(***************************************************************************)
EXTENDS RpcClient, FiniteSetTheorems, TLAPS

(* What an issued request leaves behind (jm_cli_invokeRpcByChannelNo).     *)
LEMMA IssueTyped ==
  ASSUME TypeOK, NEW k \in Kinds, NEW done, Issue(k, done)
  PROVE  /\ nextId' = nextId + 1
         /\ nextId' \in 1 .. MaxMsgs + 1
         /\ waits' \subseteq waits \cup {nextId}
         /\ waits' \subseteq Ids
         /\ live' \subseteq waits'
         /\ live' \subseteq live \cup {nextId}
         /\ kind' \in [Ids -> Kinds]
         /\ sent' \subseteq Ids
         /\ age' \in [Ids -> 0 .. MaxAge]
<1>1. nextId \in Ids /\ nextId \in Nat /\ nextId + 1 \in 1 .. MaxMsgs + 1
  BY RpcAssumption DEF Issue, TypeOK, Ids
<1>2. 0 \in 0 .. MaxAge
  BY RpcAssumption DEF MaxAge
<1>3. age' \in [Ids -> 0 .. MaxAge]
  BY <1>1, <1>2 DEF Issue, TypeOK
<1>4. kind' \in [Ids -> Kinds]
  BY <1>1 DEF Issue, TypeOK
<1>5. sent' \subseteq Ids
  BY <1>1 DEF Issue, TypeOK
<1>6. waits' \subseteq waits \cup {nextId} /\ waits' \subseteq Ids
  BY <1>1 DEF Issue, TypeOK
<1>7. live' \subseteq waits' /\ live' \subseteq live \cup {nextId}
  BY DEF Issue, TypeOK
<1>8. QED BY <1>1, <1>3, <1>4, <1>5, <1>6, <1>7 DEF Issue

LEMMA IntervalFacts ==
  /\ LOGIN_INTERVAL \in Nat \ {0}
  /\ MaxAge \in Nat \ {0}
  /\ 0 \in 0 .. MaxAge
  /\ Never \in {Never} \cup 0 .. LOGIN_INTERVAL
  /\ LoginStamp \in {Never} \cup 0 .. LOGIN_INTERVAL
BY RpcAssumption DEF MaxAge, LoginStamp

\* Ages grow by one and saturate.
LEMMA OlderInRange ==
  ASSUME NEW max \in Nat, NEW a \in 0 .. max
  PROVE  Older(a, max) \in 0 .. max
BY DEF Older

LEMMA InitTyped == Init => TypeOK
<1> SUFFICES ASSUME Init PROVE TypeOK
  OBVIOUS
<1>1. uptime \in 0 .. MaxAge
  BY RpcAssumption DEF Init, MaxAge
<1>2. nextId \in 1 .. MaxMsgs + 1
  BY RpcAssumption DEF Init
<1>3. age \in [Ids -> 0 .. MaxAge]
  BY IntervalFacts DEF Init
<1>4. sinceCheck \in 0 .. CHECK_INTERVAL
  BY RpcAssumption DEF Init
<1>5. kind \in [Ids -> Kinds] /\ answer \in [Ids -> Replies \cup {NoAnswer}]
  BY DEF Init, Kinds
<1>6. /\ sinceLogin \in {Never} \cup 0 .. LOGIN_INTERVAL
      /\ loginCode \in Codes
      /\ told \in Codes \cup {Silent}
  BY DEF Init, Codes
<1>7. QED BY <1>1, <1>2, <1>3, <1>4, <1>5, <1>6 DEF Init, TypeOK

\* What the result of a login does to the session is well typed.
LEMMA LoginResultTyped ==
  ASSUME TypeOK, NEW r \in Replies \ {"invalid"}, LoginResult(r)
  PROVE  loginCode' \in Codes /\ loginKey' \in BOOLEAN /\ told' \in Codes \cup {Silent}
<1>1. CASE r = "ok"
  BY <1>1 DEF LoginResult, TypeOK, Codes, Success
<1>2. CASE r = "error"
  BY <1>2 DEF LoginResult, TypeOK, Codes
<1>3. CASE r = "noMap"
  BY <1>3 DEF LoginResult, TypeOK, Codes
<1>4. CASE r = "noData"
  BY <1>4 DEF LoginResult, TypeOK, Codes, Success
<1>5. CASE r = "noKey"
  BY <1>5 DEF LoginResult, TypeOK, Codes, Success
<1>6. QED BY <1>1, <1>2, <1>3, <1>4, <1>5 DEF Replies

LEMMA NextTyped == TypeOK /\ [Next]_vars => TypeOK'
<1> SUFFICES ASSUME TypeOK, [Next]_vars PROVE TypeOK'
  OBVIOUS
<1> "login" \in Kinds /\ {"app", "none"} \subseteq Kinds
  BY DEF Kinds
<1> Issued \subseteq Ids
  BY RpcAssumption DEF Issued, Ids, TypeOK
<1>1. CASE InvokeRpc
  <2>1. PICK k \in Kinds : Issue(k, {})
    BY <1>1 DEF InvokeRpc
  <2>2. QED BY <1>1, <2>1, IssueTyped DEF InvokeRpc, TypeOK, clock, session, history
<1>2. CASE CallLogin
  BY <1>2, IssueTyped, IntervalFacts DEF CallLogin, TypeOK, clock, history
<1>3. CASE SocketEvent
  <2>1. CASE MayLogin(net', loginCode, sinceLogin)
    BY <1>3, <2>1, IssueTyped, IntervalFacts DEF SocketEvent, TypeOK, clock, history
  <2>2. CASE ~MayLogin(net', loginCode, sinceLogin)
    BY <1>3, <2>2 DEF SocketEvent, TypeOK, table, clock, history
  <2>3. QED BY <2>1, <2>2
<1>4. CASE SocketDiscon
  BY <1>4 DEF SocketDiscon, TypeOK, table, clock, session, history
<1>5. CASE SetLoginKey
  BY <1>5, RpcAssumption DEF SetLoginKey, TypeOK, table, clock, history, Codes, Success
<1>6. CASE Logout
  BY <1>6 DEF Logout, TypeOK, table, clock, history, Codes
<1>7. CASE ReInit
  <2>1. sinceCheck' \in 0 .. CHECK_INTERVAL
    BY <1>7, RpcAssumption DEF ReInit
  <2>2. QED BY <1>7, <2>1 DEF ReInit, TypeOK
<1>8. ASSUME NEW id \in Ids, ReceiveReply(id)
      PROVE  TypeOK'
  <2>1. PICK r \in RepliesTo(id) \ {"invalid"} :
          /\ answer' = [answer EXCEPT ![id] = r]
          /\ IF kind[id] = "login"
             THEN LoginResult(r) /\ by' = id
             ELSE UNCHANGED <<loginCode, loginKey, told, by>>
    BY <1>8 DEF ReceiveReply
  <2>2. r \in Replies
    <3>1. CASE answer[id] = NoAnswer
      BY <3>1 DEF RepliesTo, Replies
    <3>2. CASE answer[id] # NoAnswer
      <4>1. r = answer[id]
        BY <3>2 DEF RepliesTo
      <4>2. answer[id] \in Replies \cup {NoAnswer}
        BY DEF TypeOK
      <4>3. QED BY <3>2, <4>1, <4>2
    <3>3. QED BY <3>1, <3>2
  <2>3. answer' \in [Ids -> Replies \cup {NoAnswer}]
    BY <2>1, <2>2 DEF TypeOK
  <2>4. loginCode' \in Codes /\ loginKey' \in BOOLEAN /\ told' \in Codes \cup {Silent}
    BY <2>1, <2>2, LoginResultTyped DEF TypeOK
  <2>5. live' \subseteq waits' /\ answered' \subseteq Ids
    BY <1>8 DEF ReceiveReply, TypeOK
  <2>6. QED BY <1>8, <2>3, <2>4, <2>5 DEF ReceiveReply, TypeOK, clock
<1>9. ASSUME NEW id \in Ids, ReceiveInvalidLogin(id)
      PROVE  TypeOK'
  <2>1. /\ answer' \in [Ids -> Replies \cup {NoAnswer}]
        /\ loginKey' \in BOOLEAN /\ inited' \in BOOLEAN
        /\ loginCode' \in Codes /\ told' \in Codes \cup {Silent}
        /\ old' \subseteq Ids /\ answered' \subseteq Ids
    BY <1>9 DEF ReceiveInvalidLogin, TypeOK, Replies, Codes
  <2>2. CASE net
    <3>1. Issue("login", {id}) /\ sinceLogin' = LoginStamp
      BY <1>9, <2>2 DEF ReceiveInvalidLogin
    <3>2. QED BY <1>9, <2>1, <3>1, IssueTyped, IntervalFacts
             DEF ReceiveInvalidLogin, TypeOK, clock
  <2>3. CASE ~net
    BY <1>9, <2>1, <2>3, IntervalFacts DEF ReceiveInvalidLogin, TypeOK, clock
  <2>4. QED BY <2>2, <2>3
<1>10. CASE CheckRpcTimeout
  <2>1. loginCode' \in Codes /\ told' \in Codes \cup {Silent}
    BY <1>10 DEF CheckRpcTimeout, TypeOK, Codes
  <2>2. /\ waits' \subseteq Ids /\ live' \subseteq waits' /\ timedOut' \subseteq Ids
    BY <1>10 DEF CheckRpcTimeout, TypeOK
  <2>3. sinceCheck' \in 0 .. CHECK_INTERVAL
    BY <1>10, RpcAssumption DEF CheckRpcTimeout
  <2>4. QED BY <1>10, <2>1, <2>2, <2>3 DEF CheckRpcTimeout, TypeOK
<1>11. CASE Tick
  <2>1. uptime' \in 0 .. MaxAge
    BY <1>11, OlderInRange, IntervalFacts DEF Tick, TypeOK
  <2>2. ASSUME NEW id \in Ids
        PROVE  (IF id \in waits THEN Older(age[id], MaxAge) ELSE 0) \in 0 .. MaxAge
    BY OlderInRange, IntervalFacts DEF TypeOK
  <2>3. age' \in [Ids -> 0 .. MaxAge]
    BY <1>11, <2>2 DEF Tick
  <2>4. sinceLogin' \in {Never} \cup 0 .. LOGIN_INTERVAL
    BY <1>11, OlderInRange, IntervalFacts DEF Tick, TypeOK
  <2>5. sinceCheck' \in 0 .. CHECK_INTERVAL
    BY <1>11, RpcAssumption DEF Tick, TypeOK
  <2>6. QED BY <1>11, <2>1, <2>3, <2>4, <2>5 DEF Tick, TypeOK, history
<1>12. CASE UNCHANGED vars
  BY <1>12 DEF vars, TypeOK
<1>13. QED
  BY <1>1, <1>2, <1>3, <1>4, <1>5, <1>6, <1>7, <1>8, <1>9, <1>10, <1>11, <1>12
  DEF Next, Receive

(* The wait table and the session keep their types.                        *)
THEOREM TypeCorrect == Spec => []TypeOK
BY InitTyped, NextTyped, PTL DEF Spec
-----------------------------------------------------------------------------
(* Where a request is in its life.  A request whose startTime is not 0 has *)
(* had no outcome yet; one that was timed out has left the table, so that  *)
(* no later reply finds it; and an id is never used again.                 *)
OutcomeInv ==
  /\ waits \subseteq Issued
  /\ answered \subseteq Issued
  /\ timedOut \subseteq Issued
  /\ live \cap answered = {}
  /\ waits \cap timedOut = {}
  /\ answered \cap timedOut = {}

\* A new request has had no outcome and takes none from the others.
LEMMA IssueOutcome ==
  ASSUME TypeOK, OutcomeInv, NEW k \in Kinds, NEW done, Issue(k, done),
         answered' = answered \cup done, done \subseteq waits,
         timedOut' = timedOut
  PROVE  OutcomeInv'
<1>1. /\ nextId \in Nat
      /\ nextId' = nextId + 1
      /\ nextId \notin Issued
      /\ Issued' = Issued \cup {nextId}
  <2>1. nextId \in Nat /\ nextId >= 1
    BY RpcAssumption DEF TypeOK
  <2>2. nextId' = nextId + 1
    BY DEF Issue
  <2>3. QED BY <2>1, <2>2 DEF Issued
<1>2. waits' \subseteq waits \cup {nextId}
  BY DEF Issue
<1>3. live' \subseteq (live \ done) \cup {nextId}
  BY DEF Issue
<1>4. QED BY <1>1, <1>2, <1>3 DEF OutcomeInv

LEMMA NextOutcome == TypeOK /\ OutcomeInv /\ [Next]_vars => OutcomeInv'
<1> SUFFICES ASSUME TypeOK, OutcomeInv, [Next]_vars PROVE OutcomeInv'
  OBVIOUS
<1> "login" \in Kinds /\ {"app", "none"} \subseteq Kinds
  BY DEF Kinds
<1>1. CASE InvokeRpc
  BY <1>1, IssueOutcome DEF InvokeRpc, history
<1>2. CASE CallLogin
  BY <1>2, IssueOutcome DEF CallLogin, history
<1>3. CASE SocketEvent
  <2>1. CASE MayLogin(net', loginCode, sinceLogin)
    BY <1>3, <2>1, IssueOutcome DEF SocketEvent, history
  <2>2. CASE ~MayLogin(net', loginCode, sinceLogin)
    BY <1>3, <2>2 DEF SocketEvent, OutcomeInv, Issued, table, history
  <2>3. QED BY <2>1, <2>2
<1>4. CASE SocketDiscon
  BY <1>4 DEF SocketDiscon, OutcomeInv, Issued, table, history
<1>5. CASE SetLoginKey
  BY <1>5 DEF SetLoginKey, OutcomeInv, Issued, table, history
<1>6. CASE Logout
  BY <1>6 DEF Logout, OutcomeInv, Issued, table, history
<1>7. CASE ReInit
  BY <1>7 DEF ReInit, OutcomeInv, Issued
<1>8. ASSUME NEW id \in Ids, ReceiveReply(id)
      PROVE  OutcomeInv'
  BY <1>8 DEF ReceiveReply, OutcomeInv, Issued
<1>9. ASSUME NEW id \in Ids, ReceiveInvalidLogin(id)
      PROVE  OutcomeInv'
  <2>1. id \in waits /\ answered' = answered \cup {id} /\ timedOut' = timedOut
    BY <1>9 DEF ReceiveInvalidLogin
  <2>2. CASE net
    BY <1>9, <2>1, <2>2, IssueOutcome DEF ReceiveInvalidLogin
  <2>3. CASE ~net
    BY <1>9, <2>1, <2>3 DEF ReceiveInvalidLogin, OutcomeInv, Issued
  <2>4. QED BY <2>2, <2>3
<1>10. CASE CheckRpcTimeout
  <2>1. /\ waits' = waits \ Swept
        /\ live' = live \ Swept
        /\ timedOut' = timedOut \cup (Swept \cap live)
        /\ UNCHANGED <<nextId, answered>>
    BY <1>10 DEF CheckRpcTimeout
  <2>2. live \subseteq waits
    BY DEF TypeOK
  <2>3. QED BY <2>1, <2>2 DEF OutcomeInv, Issued
<1>11. CASE Tick
  BY <1>11 DEF Tick, OutcomeInv, Issued, history
<1>12. CASE UNCHANGED vars
  BY <1>12 DEF vars, OutcomeInv, Issued
<1>13. QED
  BY <1>1, <1>2, <1>3, <1>4, <1>5, <1>6, <1>7, <1>8, <1>9, <1>10, <1>11, <1>12
  DEF Next, Receive

(* No callback is given a reply and a timeout for the same request, in     *)
(* whatever order replies, their repetitions and the sweeps come.          *)
THEOREM SingleOutcome == Spec => []OneOutcome
<1>1. Init => OutcomeInv
  BY DEF Init, OutcomeInv
<1>2. OutcomeInv => OneOutcome
  BY DEF OutcomeInv, OneOutcome
<1>3. QED BY <1>1, <1>2, TypeCorrect, NextOutcome, PTL DEF Spec

-----------------------------------------------------------------------------
\* The replies that open a session; two of them give it no key.
Opening == {"ok", "noData", "noKey"}

LEMMA LoginResultKey ==
  ASSUME NEW r \in Replies \ {"invalid"}, LoginResult(r)
  PROVE  /\ isLogin' <=> r \in Opening
         /\ r = "ok" => loginKey'
<1>1. CASE r = "ok"
  BY <1>1 DEF LoginResult, isLogin, Opening
<1>2. CASE r = "error" \/ r = "noMap"
  BY <1>2 DEF LoginResult, isLogin, Opening, Success
<1>3. CASE r = "noData" \/ r = "noKey"
  BY <1>3 DEF LoginResult, isLogin, Opening
<1>4. QED BY <1>1, <1>2, <1>3 DEF Replies

\* A reply is given once: its repetitions say the same.
LEMMA AnswerStays ==
  ASSUME TypeOK, NEW id \in Ids, NEW r \in RepliesTo(id),
         answer' = [answer EXCEPT ![id] = r]
  PROVE  /\ r \in Replies /\ answer'[id] = r
         /\ \A j \in Ids : answer[j] # NoAnswer => answer'[j] = answer[j]
<1>1. r \in Replies
  <2>1. CASE answer[id] = NoAnswer
    BY <2>1 DEF RepliesTo, Replies
  <2>2. CASE answer[id] # NoAnswer
    <3>1. answer[id] \in Replies \cup {NoAnswer}
      BY DEF TypeOK
    <3>2. QED BY <2>2, <3>1 DEF RepliesTo
  <2>3. QED BY <2>1, <2>2
<1>2. ASSUME NEW j \in Ids, answer[j] # NoAnswer
      PROVE  answer'[j] = answer[j]
  <2>1. CASE j = id
    BY <1>2, <2>1 DEF RepliesTo, TypeOK
  <2>2. CASE j # id
    BY <2>2 DEF TypeOK
  <2>3. QED BY <2>1, <2>2
<1>3. QED BY <1>1, <1>2 DEF TypeOK

LEMMA NextHasKey == TypeOK /\ SessionHasKey /\ [Next]_vars => SessionHasKey'
<1> SUFFICES ASSUME TypeOK, SessionHasKey, [Next]_vars PROVE SessionHasKey'
  OBVIOUS
<1> USE DEF SessionHasKey, isLogin
<1>1. CASE InvokeRpc \/ CallLogin \/ SocketEvent \/ SocketDiscon \/ ReInit \/ Tick
  BY <1>1 DEF InvokeRpc, CallLogin, SocketEvent, SocketDiscon, ReInit, Tick, session
<1>2. CASE SetLoginKey
  BY <1>2 DEF SetLoginKey, Ids
<1>3. CASE Logout
  BY <1>3 DEF Logout, Success
<1>4. ASSUME NEW id \in Ids, ReceiveReply(id)
      PROVE  SessionHasKey'
  <2>1. PICK r \in RepliesTo(id) \ {"invalid"} :
          /\ answer' = [answer EXCEPT ![id] = r]
          /\ IF kind[id] = "login"
             THEN LoginResult(r) /\ by' = id
             ELSE UNCHANGED <<loginCode, loginKey, told, by>>
    BY <1>4 DEF ReceiveReply
  <2>2. /\ r \in Replies /\ answer'[id] = r
        /\ \A j \in Ids : answer[j] # NoAnswer => answer'[j] = answer[j]
    BY <2>1, AnswerStays
  <2>3. CASE kind[id] = "login"
    BY <2>1, <2>2, <2>3, LoginResultKey DEF Opening
  <2>4. CASE kind[id] # "login"
    BY <2>1, <2>2, <2>4 DEF NoAnswer
  <2>5. QED BY <2>3, <2>4
<1>5. ASSUME NEW id \in Ids, ReceiveInvalidLogin(id)
      PROVE  SessionHasKey'
  BY <1>5 DEF ReceiveInvalidLogin, Success
<1>6. CASE CheckRpcTimeout
  <2>1. CASE UNCHANGED <<loginCode, loginKey, by, answer>>
    BY <2>1
  <2>2. CASE loginCode' = "LOGIN_FAIL"
    BY <2>2 DEF Success
  <2>3. QED BY <1>6, <2>1, <2>2 DEF CheckRpcTimeout
<1>7. CASE UNCHANGED vars
  BY <1>7 DEF vars
<1>8. QED BY <1>1, <1>2, <1>3, <1>4, <1>5, <1>6, <1>7 DEF Next, Receive

(* A session that a login request opened has its loginKey, but for the two *)
(* replies that give none, in whatever order replies, timeouts and logouts *)
(* come.                                                                   *)
THEOREM KeyOfSession == Spec => []SessionHasKey
<1>1. Init => SessionHasKey
  BY DEF Init, SessionHasKey, isLogin, Success
<1>2. QED BY <1>1, TypeCorrect, NextHasKey, PTL DEF Spec
-----------------------------------------------------------------------------
(* The order of the wait table: ids are given out in order, so an entry    *)
(* has waited at least as long as the entries after it, and no longer than *)
(* the client runs.  The clock has left 0, which jm_cli_login would take   *)
(* for "never" when it reads lastLoginTime.                                *)
OrderInv ==
  /\ waits \subseteq Issued
  /\ uptime >= 1
  /\ \A j \in waits : age[j] <= uptime
  /\ \A i, j \in waits : i < j => age[j] <= age[i]

\* The entries of its chain that a request waits behind, and how many.
Ahead(id)   == {j \in waits : Before(j, id)}
Backlog(K)  == \A id \in waits : Cardinality(Ahead(id)) <= K

(* Why the 60 s of jm_cli_login are enough.  Once the last login is more   *)
(* than rpcTimeout ago, its request and all it waits behind have expired,  *)
(* and each pass of the sweep takes one of them: what is left of the 60 s  *)
(* pays for the passes that are still needed.                              *)
PaidFor(K, id) ==
  /\ sinceLogin # Never
  /\ sinceLogin <= age[id] \/ age[id] = MaxAge
  /\ sinceLogin + CHECK_INTERVAL * Cardinality(Ahead(id))
       <= RPC_TIMEOUT + CHECK_INTERVAL * K + sinceCheck

LoginInv(K) ==
  /\ \A id \in LoginWaits : PaidFor(K, id)
  /\ OneLoginPerSession

\* Of the entries of a chain the first is a head.
LEMMA HeadOfChain ==
  ASSUME TypeOK, NEW id \in waits
  PROVE  \E h \in waits : IsHead(h) /\ (h = id \/ Before(h, id))
<1> DEFINE C == Ahead(id) \cup {id}
<1>0. waits \subseteq Nat
  BY RpcAssumption DEF TypeOK, Ids
<1>1. C \subseteq Nat /\ C # {} /\ C \subseteq waits /\ id \in Nat
  BY <1>0 DEF Ahead
<1>2. PICK h \in C : \A j \in C : ~(<<j, h>> \in OpToRel(<, Nat))
  <2> HIDE DEF C
  <2>1. QED BY <1>1, NatLessThanWellFounded, WFMin
<1>3. \A j \in C : ~(j < h)
  BY <1>1, <1>2 DEF OpToRel
<1>4. h = id \/ Before(h, id)
  BY DEF Ahead
<1>5. ASSUME NEW i \in waits, Before(i, h)
      PROVE  FALSE
  <2>1. i \in Nat /\ h \in Nat /\ i < h
    BY <1>1, <1>5, RpcAssumption DEF TypeOK, Ids, Before
  <2>2. i \in C
    BY <1>1, <1>4, <1>5, <2>1 DEF Ahead, Before
  <2>3. QED BY <1>3, <2>1, <2>2
<1>6. QED BY <1>1, <1>4, <1>5 DEF IsHead, Before

LEMMA AheadFinite ==
  ASSUME TypeOK, NEW id
  PROVE  IsFiniteSet(Ahead(id)) /\ Cardinality(Ahead(id)) \in Nat
<1>1. IsFiniteSet(Ids)
  BY RpcAssumption, FS_Interval DEF Ids
<1>2. Ahead(id) \in SUBSET Ids
  BY DEF Ahead, TypeOK
<1>3. IsFiniteSet(Ahead(id))
  BY <1>1, <1>2, FS_Subset
<1>4. QED BY <1>3, FS_CardinalityType

\* A queue that only loses entries gets no longer.
LEMMA AheadShrinks ==
  ASSUME TypeOK, NEW id, Ahead(id)' \subseteq Ahead(id)
  PROVE  Cardinality(Ahead(id)') <= Cardinality(Ahead(id))
BY AheadFinite, FS_Subset

\* A pass with a login request overdue takes it or an entry ahead of it.
LEMMA PassTakesOne ==
  ASSUME TypeOK, OrderInv, CheckRpcTimeout, NEW id \in waits', age[id] > RPC_TIMEOUT
  PROVE  Cardinality(Ahead(id)') < Cardinality(Ahead(id))
<1>1. waits' = waits \ Swept /\ id \in waits /\ id \notin Swept
  BY DEF CheckRpcTimeout
<1>2. PICK h \in waits : IsHead(h) /\ (h = id \/ Before(h, id))
  BY <1>1, HeadOfChain
<1>3. waits \subseteq Nat /\ age \in [Ids -> Nat] /\ waits \subseteq Ids /\ uptime \in Nat
  BY RpcAssumption, IntervalFacts DEF TypeOK, Ids
<1>4. age[h] > RPC_TIMEOUT
  <2>1. h = id \/ age[h] >= age[id]
    BY <1>1, <1>2, <1>3 DEF OrderInv, Before
  <2>2. age[h] \in Nat /\ age[id] \in Nat
    BY <1>1, <1>3
  <2>3. QED BY <2>1, <2>2, RpcAssumption
<1>5. Expired(h)
  <2>1. age[h] <= uptime
    BY DEF OrderInv
  <2>2. age[h] \in Nat
    BY <1>3
  <2>3. QED BY <1>3, <1>4, <2>1, <2>2, RpcAssumption DEF Expired
<1>6. h \in Swept
  BY <1>2, <1>5 DEF Swept, IsHead
<1>7. h \in Ahead(id) /\ h \notin Ahead(id)'
  BY <1>1, <1>2, <1>6 DEF Ahead
<1>8. Ahead(id)' \subseteq Ahead(id) \ {h}
  BY <1>1, <1>7 DEF Ahead, Before
<1>9. /\ IsFiniteSet(Ahead(id) \ {h})
      /\ Cardinality(Ahead(id) \ {h}) = Cardinality(Ahead(id)) - 1
  BY <1>7, AheadFinite, FS_RemoveElement
<1>10. Cardinality(Ahead(id)') <= Cardinality(Ahead(id) \ {h})
  BY <1>8, <1>9, FS_Subset
<1>11. Cardinality(Ahead(id)') \in Nat
  BY <1>8, <1>9, FS_Subset, FS_CardinalityType
<1>12. QED BY <1>9, <1>10, <1>11, AheadFinite

\* The products of PaidFor.
LEMMA Costs ==
  ASSUME NEW a \in Nat, NEW b \in Nat
  PROVE  /\ CHECK_INTERVAL * a \in Nat
         /\ a <= b => CHECK_INTERVAL * a <= CHECK_INTERVAL * b
         /\ a < b => CHECK_INTERVAL * a + CHECK_INTERVAL <= CHECK_INTERVAL * b
<1>1. CHECK_INTERVAL \in Nat
  BY RpcAssumption
<1>2. CHECK_INTERVAL * a \in Nat /\ CHECK_INTERVAL * b \in Nat
  BY <1>1
<1>3. ASSUME NEW d \in Nat
      PROVE  /\ CHECK_INTERVAL * d \in Nat
             /\ CHECK_INTERVAL * (a + d) = CHECK_INTERVAL * a + CHECK_INTERVAL * d
  BY <1>1
<1>4. ASSUME a <= b
      PROVE  CHECK_INTERVAL * a <= CHECK_INTERVAL * b
  <2>1. b - a \in Nat /\ a + (b - a) = b
    BY <1>4
  <2>2. /\ CHECK_INTERVAL * (a + (b - a)) = CHECK_INTERVAL * a + CHECK_INTERVAL * (b - a)
        /\ CHECK_INTERVAL * (b - a) \in Nat
    BY <1>3, <2>1
  <2>3. CHECK_INTERVAL * b = CHECK_INTERVAL * a + CHECK_INTERVAL * (b - a)
    BY <2>1, <2>2
  <2>4. QED BY <1>2, <2>2, <2>3
<1>5. ASSUME a < b
      PROVE  CHECK_INTERVAL * a + CHECK_INTERVAL <= CHECK_INTERVAL * b
  <2>1. b - a - 1 \in Nat /\ (a + 1) + (b - a - 1) = b /\ a + 1 \in Nat
    BY <1>5
  <2>2. /\ CHECK_INTERVAL * ((a + 1) + (b - a - 1))
             = CHECK_INTERVAL * (a + 1) + CHECK_INTERVAL * (b - a - 1)
        /\ CHECK_INTERVAL * (b - a - 1) \in Nat
    BY <1>1, <2>1
  <2>3. CHECK_INTERVAL * (a + 1) = CHECK_INTERVAL * a + CHECK_INTERVAL
    BY <1>1
  <2>4. CHECK_INTERVAL * b = CHECK_INTERVAL * (a + 1) + CHECK_INTERVAL * (b - a - 1)
    BY <2>1, <2>2
  <2>5. QED BY <1>1, <1>2, <2>2, <2>3, <2>4
<1>6. QED BY <1>2, <1>4, <1>5
-----------------------------------------------------------------------------
LEMMA InitOrdered == BOOT # 0 /\ Init => OrderInv
<1> SUFFICES ASSUME BOOT # 0, Init PROVE OrderInv
  OBVIOUS
<1>1. uptime >= 1
  BY RpcAssumption DEF Init, MaxAge
<1>2. QED BY <1>1 DEF Init, OrderInv

\* A new request is the youngest and has the largest id.
LEMMA IssueOrdered ==
  ASSUME TypeOK, OrderInv, NEW k \in Kinds, NEW done, Issue(k, done), uptime' = uptime
  PROVE  OrderInv'
<1>1. /\ nextId \in Nat \ {0} /\ nextId \in Ids
      /\ nextId' = nextId + 1
      /\ nextId \notin Issued
      /\ Issued' = Issued \cup {nextId}
      /\ \A j \in Issued : j \in Nat /\ j < nextId
      /\ waits' \subseteq waits \cup {nextId}
  BY RpcAssumption DEF Issue, TypeOK, Issued
<1>2. waits' \subseteq Issued'
  BY <1>1 DEF OrderInv
<1>3. /\ age' = [age EXCEPT ![nextId] = 0]
      /\ age \in [Ids -> 0 .. MaxAge]
      /\ waits \subseteq Ids /\ nextId \notin waits
  BY <1>1 DEF Issue, TypeOK, OrderInv
<1>4. age'[nextId] = 0 /\ \A j \in waits : age'[j] = age[j] /\ age[j] \in Nat
  BY <1>1, <1>3, IntervalFacts
<1>5. ASSUME NEW j \in waits'
      PROVE  age'[j] <= uptime'
  <2>1. CASE j = nextId
    BY <1>4, <2>1, IntervalFacts DEF OrderInv, TypeOK
  <2>2. CASE j \in waits
    BY <1>4, <2>2 DEF OrderInv
  <2>3. QED BY <1>1, <2>1, <2>2
<1>6. uptime' >= 1
  BY DEF OrderInv
<1>7. ASSUME NEW i \in waits', NEW j \in waits', i < j
      PROVE  age'[j] <= age'[i]
  <2>1. i \in waits
    <3>1. CASE i = nextId
      BY <1>1, <1>7, <3>1 DEF OrderInv
    <3>2. QED BY <1>1, <3>1
  <2>2. CASE j = nextId
    BY <1>4, <2>1, <2>2
  <2>3. CASE j \in waits
    BY <1>4, <1>7, <2>1, <2>3 DEF OrderInv
  <2>4. QED BY <1>1, <2>2, <2>3
<1>8. QED BY <1>2, <1>5, <1>6, <1>7 DEF OrderInv

\* Entries that only leave keep their order.
LEMMA FewerOrdered ==
  ASSUME OrderInv, waits' \subseteq waits, UNCHANGED <<nextId, age, uptime>>
  PROVE  OrderInv'
BY DEF OrderInv, Issued

LEMMA NextOrdered == TypeOK /\ OrderInv /\ [Next]_vars => OrderInv'
<1> SUFFICES ASSUME TypeOK, OrderInv, [Next]_vars PROVE OrderInv'
  OBVIOUS
<1> "login" \in Kinds /\ {"app", "none"} \subseteq Kinds
  BY DEF Kinds
<1>1. CASE InvokeRpc \/ CallLogin
  BY <1>1, IssueOrdered DEF InvokeRpc, CallLogin, clock
<1>2. CASE SocketEvent
  <2>1. CASE MayLogin(net', loginCode, sinceLogin)
    BY <1>2, <2>1, IssueOrdered DEF SocketEvent, clock
  <2>2. CASE ~MayLogin(net', loginCode, sinceLogin)
    BY <1>2, <2>2, FewerOrdered DEF SocketEvent, table, clock
  <2>3. QED BY <2>1, <2>2
<1>3. CASE SocketDiscon \/ SetLoginKey \/ Logout \/ ReInit
  BY <1>3, FewerOrdered DEF SocketDiscon, SetLoginKey, Logout, ReInit, table, clock
<1>4. ASSUME NEW id \in Ids, ReceiveReply(id)
      PROVE  OrderInv'
  BY <1>4, FewerOrdered DEF ReceiveReply, clock
<1>5. ASSUME NEW id \in Ids, ReceiveInvalidLogin(id)
      PROVE  OrderInv'
  <2>1. CASE net
    BY <1>5, <2>1, IssueOrdered DEF ReceiveInvalidLogin, clock
  <2>2. CASE ~net
    BY <1>5, <2>2, FewerOrdered DEF ReceiveInvalidLogin, clock
  <2>3. QED BY <2>1, <2>2
<1>6. CASE CheckRpcTimeout
  BY <1>6, FewerOrdered DEF CheckRpcTimeout
<1>7. CASE Tick
  <2>1. /\ age \in [Ids -> Nat] /\ waits \subseteq Ids /\ uptime \in Nat /\ MaxAge \in Nat
    BY IntervalFacts DEF TypeOK
  <2>2. /\ waits' = waits /\ nextId' = nextId
        /\ uptime' = Older(uptime, MaxAge)
        /\ \A j \in waits : age'[j] = Older(age[j], MaxAge)
    BY <1>7, <2>1 DEF Tick
  <2>3. \A a, b \in Nat :
          /\ a <= b => Older(a, MaxAge) <= Older(b, MaxAge)
          /\ a <= Older(a, MaxAge) /\ Older(a, MaxAge) \in Nat
    BY <2>1 DEF Older
  <2>4. \A j \in waits : age[j] \in Nat
    BY <2>1
  <2>5. uptime' >= 1
    BY <2>1, <2>2, <2>3 DEF OrderInv
  <2>6. \A j \in waits' : age'[j] <= uptime'
    BY <2>1, <2>2, <2>3, <2>4 DEF OrderInv
  <2>7. \A i, j \in waits' : i < j => age'[j] <= age'[i]
    BY <2>1, <2>2, <2>3, <2>4 DEF OrderInv
  <2>8. QED BY <2>2, <2>5, <2>6, <2>7 DEF OrderInv, Issued
<1>8. CASE UNCHANGED vars
  BY <1>8, FewerOrdered DEF vars
<1>9. QED BY <1>1, <1>2, <1>3, <1>4, <1>5, <1>6, <1>7, <1>8 DEF Next, Receive
-----------------------------------------------------------------------------
(* What the constants have to allow: K entries ahead of a login request    *)
(* and the request itself leave within the 60 s, a pass of the sweep for   *)
(* each.  With 30 s, 60 s and a sweep every 3 s that is K <= 8.            *)
Enough(K) == RPC_TIMEOUT + CHECK_INTERVAL * (K + 1) < LOGIN_INTERVAL

\* jm_cli_login finds the request of the last login gone.
LEMMA LoginFindsNone ==
  ASSUME NEW K \in Nat, Enough(K), TypeOK, LoginInv(K), NEW c, NEW code,
         MayLogin(c, code, sinceLogin)
  PROVE  LoginWaits = {}
<1> SUFFICES ASSUME NEW id \in LoginWaits PROVE FALSE
  OBVIOUS
<1> DEFINE n == Cardinality(Ahead(id))
<1>1. n \in Nat
  BY AheadFinite
<1>2. PaidFor(K, id)
  BY DEF LoginInv
<1>3. sinceLogin # Never /\ sinceLogin + CHECK_INTERVAL * n <= RPC_TIMEOUT + CHECK_INTERVAL * K + sinceCheck
  BY <1>2 DEF PaidFor
<1>4. sinceLogin >= LOGIN_INTERVAL
  BY <1>3 DEF MayLogin
<1>5. CHECK_INTERVAL * n \in Nat /\ CHECK_INTERVAL * K \in Nat
  BY <1>1, Costs
<1>6. CHECK_INTERVAL * K + CHECK_INTERVAL <= CHECK_INTERVAL * (K + 1) /\ CHECK_INTERVAL * (K + 1) \in Nat
  <2>1. K + 1 \in Nat /\ K < K + 1
    OBVIOUS
  <2>2. QED BY <2>1, Costs
<1>7. sinceCheck <= CHECK_INTERVAL /\ sinceCheck \in Nat
  BY RpcAssumption DEF TypeOK
<1>8. sinceLogin \in Nat
  BY <1>3 DEF TypeOK
<1>9. QED BY <1>3, <1>4, <1>5, <1>6, <1>7, <1>8, RpcAssumption DEF Enough

\* A new login request has the whole of the interval before it.
LEMMA NewLogin ==
  ASSUME NEW K \in Nat, TypeOK, TypeOK', OrderInv, Backlog(K)', NEW done,
         Issue("login", done), LoginWaits' \subseteq {nextId},
         sinceLogin' = LoginStamp, sinceCheck' = sinceCheck
  PROVE  LoginInv(K)'
<1>1. OneLoginPerSession'
  BY DEF OneLoginPerSession
<1>2. ASSUME NEW id \in LoginWaits'
      PROVE  PaidFor(K, id)'
  <2>1. id = nextId /\ nextId \in Ids /\ id \in waits'
    BY <1>2 DEF Issue, LoginWaits
  <2>2. sinceLogin' = 0
    BY DEF LoginStamp, OrderInv, TypeOK
  <2>3. age'[id] = 0
    BY <2>1 DEF Issue, TypeOK
  <2>4. Cardinality(Ahead(id)') <= K
    BY <2>1 DEF Backlog
  <2>5. Cardinality(Ahead(id)') \in Nat
    <3>1. \A x : Cardinality(Ahead(x)) \in Nat
      BY AheadFinite
    <3>2. IsFiniteSet(Ids)
      BY RpcAssumption, FS_Interval DEF Ids
    <3>3. Ahead(id)' \in SUBSET Ids
      BY DEF Ahead, TypeOK
    <3>4. QED BY <3>2, <3>3, FS_Subset, FS_CardinalityType
  <2>6. CHECK_INTERVAL * Cardinality(Ahead(id)') <= CHECK_INTERVAL * K
    BY <2>4, <2>5, Costs
  <2>7. /\ CHECK_INTERVAL * Cardinality(Ahead(id)') \in Nat
        /\ CHECK_INTERVAL * K \in Nat
    BY <2>5, Costs
  <2>8. sinceCheck' \in Nat
    BY RpcAssumption DEF TypeOK
  <2>9. QED BY <2>2, <2>3, <2>6, <2>7, <2>8, RpcAssumption DEF PaidFor, Never
<1>3. QED BY <1>1, <1>2 DEF LoginInv

\* Nothing else puts an entry in front of a login request.
LEMMA FewerLogins ==
  ASSUME NEW K \in Nat, TypeOK, LoginInv(K), LoginWaits' \subseteq LoginWaits,
         \A id \in LoginWaits' : age'[id] = age[id] /\ Ahead(id)' \subseteq Ahead(id),
         LoginWaits' # {} => UNCHANGED <<sinceLogin, sinceCheck>>
  PROVE  LoginInv(K)'
<1>1. OneLoginPerSession'
  BY DEF OneLoginPerSession, LoginInv
<1>2. ASSUME NEW id \in LoginWaits'
      PROVE  PaidFor(K, id)'
  <2> DEFINE n == Cardinality(Ahead(id))
             m == Cardinality(Ahead(id)')
  <2>1. /\ PaidFor(K, id) /\ UNCHANGED <<sinceLogin, sinceCheck>>
        /\ age'[id] = age[id] /\ Ahead(id)' \subseteq Ahead(id)
    BY <1>2 DEF LoginInv
  <2>2. n \in Nat /\ m \in Nat /\ m <= n
    <3>1. IsFiniteSet(Ahead(id)')
      BY <2>1, AheadFinite, FS_Subset
    <3>2. QED BY <2>1, <3>1, AheadFinite, AheadShrinks, FS_CardinalityType
  <2>3. /\ CHECK_INTERVAL * m <= CHECK_INTERVAL * n
        /\ CHECK_INTERVAL * m \in Nat /\ CHECK_INTERVAL * n \in Nat
        /\ CHECK_INTERVAL * K \in Nat
    BY <2>2, Costs
  <2>4. /\ sinceLogin # Never
        /\ sinceLogin + CHECK_INTERVAL * n <= RPC_TIMEOUT + CHECK_INTERVAL * K + sinceCheck
        /\ sinceLogin <= age[id] \/ age[id] = MaxAge
    BY <2>1 DEF PaidFor
  <2>5. sinceLogin \in Nat /\ sinceCheck \in Nat
    BY <2>4, RpcAssumption DEF TypeOK
  <2>6. sinceLogin + CHECK_INTERVAL * m <= RPC_TIMEOUT + CHECK_INTERVAL * K + sinceCheck
    <3> HIDE DEF n, m
    <3>1. QED BY <2>3, <2>4, <2>5, RpcAssumption
  <2>7. QED BY <2>1, <2>4, <2>6 DEF PaidFor
<1>3. QED BY <1>1, <1>2 DEF LoginInv

\* A request that is not a login stands behind those that are.
LEMMA OtherRequest ==
  ASSUME NEW K \in Nat, TypeOK, OrderInv, LoginInv(K), NEW k \in {"app", "none"},
         Issue(k, {}), UNCHANGED <<sinceLogin, sinceCheck, old>>
  PROVE  LoginInv(K)'
<1>1. /\ nextId \in Ids /\ nextId \in Nat /\ nextId \notin waits
      /\ \A j \in waits : j \in Nat /\ j < nextId
  BY RpcAssumption DEF Issue, TypeOK, Ids, OrderInv, Issued
<1>2. /\ kind' = [kind EXCEPT ![nextId] = k] /\ age' = [age EXCEPT ![nextId] = 0]
      /\ waits' \subseteq waits \cup {nextId}
      /\ DOMAIN kind = Ids /\ DOMAIN age = Ids /\ k # "login"
      /\ waits \subseteq Ids
  BY DEF Issue, TypeOK
<1>3. ASSUME NEW id \in LoginWaits'
      PROVE  id \in LoginWaits /\ age'[id] = age[id]
  <2>1. id \in waits' /\ id \notin old /\ kind'[id] = "login"
    BY <1>3 DEF LoginWaits
  <2>2. id # nextId
    BY <1>1, <1>2, <2>1
  <2>3. id \in waits /\ kind[id] = "login" /\ age'[id] = age[id]
    BY <1>2, <2>1, <2>2
  <2>4. QED BY <2>1, <2>3 DEF LoginWaits
<1>4. ASSUME NEW id \in LoginWaits'
      PROVE  Ahead(id)' \subseteq Ahead(id)
  <2>1. id \in waits
    BY <1>3, <1>4 DEF LoginWaits
  <2>2. ASSUME NEW j \in waits', Before(j, id)'
        PROVE  j \in waits /\ Before(j, id)
    <3>1. j < id /\ j % BUCKETS = id % BUCKETS
      BY <2>2 DEF Before
    <3>2. j # nextId
      BY <1>1, <2>1, <3>1
    <3>3. QED BY <1>2, <3>1, <3>2 DEF Before
  <2>3. QED BY <2>2 DEF Ahead
<1>5. QED BY <1>3, <1>4, FewerLogins

LEMMA NextApart ==
  ASSUME NEW K \in Nat, Enough(K), TypeOK, TypeOK', OrderInv, LoginInv(K),
         Backlog(K)', [Next]_vars
  PROVE  LoginInv(K)'
<1>1. CASE InvokeRpc
  <2>1. PICK k \in {"app", "none"} : Issue(k, {})
    BY <1>1 DEF InvokeRpc
  <2>2. QED BY <1>1, <2>1, OtherRequest DEF InvokeRpc, clock, session
<1>2. ASSUME LoginWaits = {}, Issue("login", {}), old' = old
      PROVE  LoginWaits' \subseteq {nextId}
  BY <1>2 DEF LoginWaits, Issue, TypeOK
<1>3. CASE CallLogin
  <2>1. LoginWaits = {}
    BY <1>3, LoginFindsNone DEF CallLogin
  <2>2. LoginWaits' \subseteq {nextId}
    BY <1>2, <1>3, <2>1 DEF CallLogin
  <2>3. QED BY <1>3, <2>2, NewLogin DEF CallLogin, clock
<1>4. CASE SocketEvent
  <2>1. CASE MayLogin(net', loginCode, sinceLogin)
    <3>1. LoginWaits = {}
      BY <2>1, LoginFindsNone
    <3>2. LoginWaits' \subseteq {nextId}
      BY <1>2, <1>4, <2>1, <3>1 DEF SocketEvent
    <3>3. QED BY <1>4, <2>1, <3>2, NewLogin DEF SocketEvent, clock
  <2>2. CASE ~MayLogin(net', loginCode, sinceLogin)
    <3>1. UNCHANGED <<waits, kind, age, old, sinceLogin, sinceCheck>>
      BY <1>4, <2>2 DEF SocketEvent, table, clock
    <3>2. QED BY <3>1, FewerLogins DEF LoginWaits, Ahead, Before
  <2>3. QED BY <2>1, <2>2
<1>5. CASE SocketDiscon \/ SetLoginKey \/ UNCHANGED vars
  <2>1. UNCHANGED <<waits, kind, age, old, sinceLogin, sinceCheck>>
    BY <1>5 DEF SocketDiscon, SetLoginKey, table, clock, session, vars
  <2>2. QED BY <2>1, FewerLogins DEF LoginWaits, Ahead, Before
<1>6. CASE Logout
  <2>1. LoginWaits' = {}
    BY <1>6 DEF Logout, LoginWaits, OrderInv, table
  <2>2. QED BY <2>1, FewerLogins
<1>7. CASE ReInit
  <2>1. LoginWaits' = {}
    BY <1>7 DEF ReInit, LoginWaits
  <2>2. QED BY <2>1, FewerLogins
<1>8. ASSUME NEW id \in Ids, ReceiveReply(id)
      PROVE  LoginInv(K)'
  <2>1. UNCHANGED <<waits, kind, age, old, sinceLogin, sinceCheck>>
    BY <1>8 DEF ReceiveReply, clock
  <2>2. QED BY <2>1, FewerLogins DEF LoginWaits, Ahead, Before
<1>9. ASSUME NEW id \in Ids, ReceiveInvalidLogin(id)
      PROVE  LoginInv(K)'
  <2>1. old' = Issued
    BY <1>9 DEF ReceiveInvalidLogin
  <2>2. CASE net
    <3>1. Issue("login", {id}) /\ sinceLogin' = LoginStamp /\ sinceCheck' = sinceCheck
      BY <1>9, <2>2 DEF ReceiveInvalidLogin, clock
    <3>2. LoginWaits' \subseteq {nextId}
      BY <2>1, <3>1 DEF LoginWaits, OrderInv, Issue
    <3>3. QED BY <3>1, <3>2, NewLogin
  <2>3. CASE ~net
    <3>1. LoginWaits' = {}
      BY <1>9, <2>1, <2>3 DEF ReceiveInvalidLogin, LoginWaits, OrderInv
    <3>2. QED BY <3>1, FewerLogins
  <2>4. QED BY <2>2, <2>3
<1>10. CASE CheckRpcTimeout
  <2>1. UNCHANGED <<kind, age, old, sinceLogin>> /\ sinceCheck' = 0 /\ waits' \subseteq waits
    BY <1>10 DEF CheckRpcTimeout, session
  <2>2. LoginWaits' \subseteq LoginWaits /\ \A id : Ahead(id)' \subseteq Ahead(id)
    BY <2>1 DEF LoginWaits, Ahead, Before
  <2>3. OneLoginPerSession'
    BY <2>2 DEF OneLoginPerSession, LoginInv
  <2>4. ASSUME NEW id \in LoginWaits'
        PROVE  PaidFor(K, id)'
    <3> DEFINE n == Cardinality(Ahead(id))
               m == Cardinality(Ahead(id)')
    <3>1. PaidFor(K, id) /\ id \in waits' /\ id \in waits
      BY <2>1, <2>2, <2>4 DEF LoginInv, LoginWaits
    <3>2. /\ sinceLogin # Never
          /\ sinceLogin + CHECK_INTERVAL * n <= RPC_TIMEOUT + CHECK_INTERVAL * K + sinceCheck
          /\ sinceLogin <= age[id] \/ age[id] = MaxAge
      BY <3>1 DEF PaidFor
    <3>3. /\ sinceLogin \in Nat /\ sinceCheck \in Nat /\ sinceCheck <= CHECK_INTERVAL
          /\ CHECK_INTERVAL \in Nat /\ age[id] \in Nat
      BY <3>1, <3>2, RpcAssumption, IntervalFacts DEF TypeOK
    <3>4. n \in Nat /\ m \in Nat /\ m <= n
      <4>1. IsFiniteSet(Ahead(id)')
        BY <2>2, AheadFinite, FS_Subset
      <4>2. QED BY <2>2, <4>1, AheadFinite, AheadShrinks, FS_CardinalityType
    <3>5. CASE sinceLogin <= RPC_TIMEOUT
      <4>1. m <= K
        BY <3>1 DEF Backlog
      <4>2. /\ CHECK_INTERVAL * m <= CHECK_INTERVAL * K
            /\ CHECK_INTERVAL * m \in Nat /\ CHECK_INTERVAL * K \in Nat
        BY <3>4, <4>1, Costs
      <4>3. sinceLogin + CHECK_INTERVAL * m <= RPC_TIMEOUT + CHECK_INTERVAL * K + 0
        <5> HIDE DEF m
        <5>1. QED BY <3>3, <3>5, <4>2, RpcAssumption
      <4>4. QED BY <2>1, <3>2, <4>3 DEF PaidFor
    <3>6. CASE sinceLogin > RPC_TIMEOUT
      <4>1. age[id] > RPC_TIMEOUT
        BY <3>2, <3>3, <3>6, RpcAssumption DEF MaxAge
      <4>2. m < n
        BY <1>10, <3>1, <4>1, PassTakesOne
      <4>3. /\ CHECK_INTERVAL * m + CHECK_INTERVAL <= CHECK_INTERVAL * n
            /\ CHECK_INTERVAL * m \in Nat /\ CHECK_INTERVAL * n \in Nat
            /\ CHECK_INTERVAL * K \in Nat
        BY <3>4, <4>2, Costs
      <4>4. sinceLogin + CHECK_INTERVAL * m <= RPC_TIMEOUT + CHECK_INTERVAL * K + 0
        <5> HIDE DEF m, n
        <5>1. QED BY <3>2, <3>3, <4>3, RpcAssumption
      <4>5. QED BY <2>1, <3>2, <4>4 DEF PaidFor
    <3>7. QED BY <3>3, <3>5, <3>6, RpcAssumption
  <2>5. QED BY <2>3, <2>4 DEF LoginInv
<1>11. CASE Tick
  <2>1. /\ UNCHANGED <<waits, kind, old>> /\ sinceCheck' = sinceCheck + 1
        /\ sinceLogin' = IF sinceLogin = Never THEN Never ELSE Older(sinceLogin, LOGIN_INTERVAL)
        /\ \A id \in waits : age'[id] = Older(age[id], MaxAge)
    BY <1>11 DEF Tick, TypeOK
  <2>2. LoginWaits' = LoginWaits /\ \A id : Ahead(id)' = Ahead(id)
    BY <2>1 DEF LoginWaits, Ahead, Before
  <2>3. OneLoginPerSession'
    BY <2>2 DEF OneLoginPerSession, LoginInv
  <2>4. ASSUME NEW id \in LoginWaits'
        PROVE  PaidFor(K, id)'
    <3> DEFINE n == Cardinality(Ahead(id))
    <3>1. PaidFor(K, id) /\ id \in waits
      BY <2>2, <2>4 DEF LoginInv, LoginWaits
    <3>2. /\ sinceLogin # Never
          /\ sinceLogin + CHECK_INTERVAL * n <= RPC_TIMEOUT + CHECK_INTERVAL * K + sinceCheck
          /\ sinceLogin <= age[id] \/ age[id] = MaxAge
      BY <3>1 DEF PaidFor
    <3>3. /\ sinceLogin \in Nat /\ sinceCheck \in Nat /\ age[id] \in 0 .. MaxAge
          /\ MaxAge \in Nat /\ LOGIN_INTERVAL \in Nat
      BY <3>1, <3>2, RpcAssumption, IntervalFacts DEF TypeOK
    <3>4. n \in Nat /\ CHECK_INTERVAL * n \in Nat /\ CHECK_INTERVAL * K \in Nat
      BY AheadFinite, Costs
    <3>5. sinceLogin' = Older(sinceLogin, LOGIN_INTERVAL) /\ age'[id] = Older(age[id], MaxAge)
      BY <2>1, <3>1, <3>2
    <3>6. sinceLogin' \in Nat /\ sinceLogin' <= sinceLogin + 1
      BY <3>3, <3>5 DEF Older
    <3>7. sinceLogin' <= age'[id] \/ age'[id] = MaxAge
      BY <3>2, <3>3, <3>5, <3>6 DEF Older
    <3>8. sinceLogin' + CHECK_INTERVAL * n <= RPC_TIMEOUT + CHECK_INTERVAL * K + sinceCheck'
      <4> HIDE DEF n
      <4>1. QED BY <2>1, <3>2, <3>3, <3>4, <3>6, RpcAssumption
    <3>9. Ahead(id)' = Ahead(id)
      BY <2>2
    <3>10. QED BY <3>6, <3>7, <3>8, <3>9 DEF PaidFor, Never
  <2>5. QED BY <2>3, <2>4 DEF LoginInv
<1>12. QED
  BY <1>1, <1>3, <1>4, <1>5, <1>6, <1>7, <1>8, <1>9, <1>10, <1>11 DEF Next, Receive

(* Two login requests of a session are never outstanding together, as long *)
(* as no request waits behind more than K others in its chain and the      *)
(* interval between logins pays for K + 1 passes of the sweep.             *)
THEOREM LoginsApart ==
  ASSUME NEW K \in Nat, Enough(K), BOOT # 0
  PROVE  Spec /\ []Backlog(K) => []OneLoginPerSession
<1>1. Init => OrderInv /\ LoginInv(K)
  BY InitOrdered DEF Init, LoginInv, LoginWaits, OneLoginPerSession
<1>2. TypeOK /\ OrderInv /\ [Next]_vars => OrderInv'
  BY NextOrdered
<1>3. TypeOK /\ TypeOK' /\ OrderInv /\ LoginInv(K) /\ Backlog(K)' /\ [Next]_vars => LoginInv(K)'
  BY NextApart
<1>4. LoginInv(K) => OneLoginPerSession
  BY DEF LoginInv
<1>5. Spec => []TypeOK
  BY TypeCorrect
<1>6. QED BY <1>1, <1>2, <1>3, <1>4, <1>5, PTL DEF Spec

(* The login whose outcome the session is, is one that was issued.  A new  *)
(* login request only comes when there is no session.                      *)
SettledInv == by \in {0} \cup Issued /\ SessionIsSettled

LEMMA NextSettled ==
  TypeOK /\ OrderInv /\ OneLoginPerSession /\ SettledInv /\ [Next]_vars => SettledInv'
<1> SUFFICES ASSUME TypeOK, OrderInv, OneLoginPerSession, SettledInv, [Next]_vars
             PROVE  SettledInv'
  OBVIOUS
<1> USE DEF SettledInv, SessionIsSettled, isLogin
<1>1. ASSUME NEW k \in Kinds, NEW done, Issue(k, done)
      PROVE  Issued' = Issued \cup {nextId} /\ nextId \notin Issued
  BY <1>1, RpcAssumption DEF Issue, TypeOK, Issued
<1>2. CASE InvokeRpc
  <2>1. PICK k \in {"app", "none"} : Issue(k, {})
    BY <1>2 DEF InvokeRpc
  <2>2. Issued' = Issued \cup {nextId} /\ nextId \notin Issued
    BY <1>1, <2>1 DEF Kinds
  <2>3. LoginWaits' \subseteq LoginWaits
    BY <1>2, <2>1 DEF InvokeRpc, Issue, LoginWaits, TypeOK, session
  <2>4. QED BY <1>2, <2>2, <2>3 DEF InvokeRpc, session, TypeOK, Ids
<1>3. CASE CallLogin
  BY <1>1, <1>3 DEF CallLogin, MayLogin, Kinds
<1>4. CASE SocketEvent
  <2>1. CASE MayLogin(net', loginCode, sinceLogin)
    BY <1>1, <1>4, <2>1 DEF SocketEvent, MayLogin, Kinds
  <2>2. CASE ~MayLogin(net', loginCode, sinceLogin)
    BY <1>4, <2>2 DEF SocketEvent, table, LoginWaits, Issued
  <2>3. QED BY <2>1, <2>2
<1>5. CASE SocketDiscon \/ Tick \/ UNCHANGED vars
  BY <1>5 DEF SocketDiscon, Tick, vars, table, session, LoginWaits, Issued
<1>6. CASE SetLoginKey
  BY <1>6 DEF SetLoginKey, Issued, TypeOK
<1>7. CASE Logout
  BY <1>7 DEF Logout, Success
<1>8. CASE ReInit
  BY <1>8 DEF ReInit, LoginWaits, Issued
<1>9. ASSUME NEW id \in Ids, ReceiveReply(id)
      PROVE  SettledInv'
  <2>1. id \in Issued /\ id \in waits /\ UNCHANGED <<nextId, waits, kind, old>>
    BY <1>9 DEF ReceiveReply, OrderInv
  <2>2. CASE kind[id] = "login"
    <3>1. by' = id
      BY <1>9, <2>2 DEF ReceiveReply
    <3>2. id \in old \/ id \in LoginWaits
      BY <2>1, <2>2 DEF LoginWaits
    <3>3. QED BY <2>1, <3>1, <3>2 DEF OneLoginPerSession, LoginWaits, Issued
  <2>3. CASE kind[id] # "login"
    BY <1>9, <2>1, <2>3 DEF ReceiveReply, LoginWaits, Issued
  <2>4. QED BY <2>2, <2>3
<1>10. ASSUME NEW id \in Ids, ReceiveInvalidLogin(id)
      PROVE  SettledInv'
  <2>1. id \in Issued /\ by' \in {0, id} /\ loginCode' # Success
    BY <1>10 DEF ReceiveInvalidLogin, OrderInv, Success
  <2>2. Issued \subseteq Issued'
    <3>1. CASE net
      BY <1>1, <1>10, <3>1 DEF ReceiveInvalidLogin, Kinds
    <3>2. CASE ~net
      BY <1>10, <3>2 DEF ReceiveInvalidLogin, Issued
    <3>3. QED BY <3>1, <3>2
  <2>3. QED BY <2>1, <2>2
<1>11. CASE CheckRpcTimeout
  <2>1. UNCHANGED <<nextId, kind, old>> /\ waits' \subseteq waits
    BY <1>11 DEF CheckRpcTimeout
  <2>2. LoginWaits' \subseteq LoginWaits /\ Issued' = Issued
    BY <2>1 DEF LoginWaits, Issued
  <2>3. CASE UNCHANGED <<loginCode, by>>
    BY <2>1, <2>2, <2>3
  <2>4. CASE by' \in live /\ loginCode' = "LOGIN_FAIL"
    BY <2>2, <2>4 DEF OrderInv, TypeOK, Success
  <2>5. QED BY <1>11, <2>3, <2>4 DEF CheckRpcTimeout
<1>12. QED
  BY <1>2, <1>3, <1>4, <1>5, <1>6, <1>7, <1>8, <1>9, <1>10, <1>11 DEF Next, Receive

(* Under the same conditions a session that a login request opened has no  *)
(* other login request outstanding that could still end it.                *)
THEOREM SessionSettled ==
  ASSUME NEW K \in Nat, Enough(K), BOOT # 0
  PROVE  Spec /\ []Backlog(K) => []SessionIsSettled
<1>1. Init => OrderInv /\ SettledInv
  BY InitOrdered DEF Init, SettledInv, SessionIsSettled, LoginWaits
<1>2. TypeOK /\ OrderInv /\ [Next]_vars => OrderInv'
  BY NextOrdered
<1>3. TypeOK /\ OrderInv /\ OneLoginPerSession /\ SettledInv /\ [Next]_vars => SettledInv'
  BY NextSettled
<1>4. SettledInv => SessionIsSettled
  BY DEF SettledInv
<1>5. Spec /\ []Backlog(K) => []OneLoginPerSession
  BY LoginsApart
<1>6. Spec => []TypeOK
  BY TypeCorrect
<1>7. QED BY <1>1, <1>2, <1>3, <1>4, <1>5, <1>6, PTL DEF Spec

\* The login that opened the session has had its reply: its entry, which
\* stays in the table, is not among those that can time out.
OpenedInv == isLogin /\ by \in Ids => by \in answered /\ answer[by] \in Opening

LEMMA NextOpened == TypeOK /\ OpenedInv /\ [Next]_vars => OpenedInv'
<1> SUFFICES ASSUME TypeOK, OpenedInv, [Next]_vars PROVE OpenedInv'
  OBVIOUS
<1> USE DEF OpenedInv
<1>1. CASE InvokeRpc \/ CallLogin \/ SocketEvent \/ SocketDiscon \/ ReInit \/ Tick
  BY <1>1 DEF InvokeRpc, CallLogin, SocketEvent, SocketDiscon, ReInit, Tick, session,
              history, isLogin
<1>2. CASE SetLoginKey
  BY <1>2 DEF SetLoginKey, Ids
<1>3. CASE Logout
  BY <1>3 DEF Logout, isLogin, Success
<1>4. ASSUME NEW id \in Ids, ReceiveReply(id)
      PROVE  OpenedInv'
  <2>1. PICK r \in RepliesTo(id) \ {"invalid"} :
          /\ answer' = [answer EXCEPT ![id] = r]
          /\ IF kind[id] = "login"
             THEN LoginResult(r) /\ by' = id
             ELSE UNCHANGED <<loginCode, loginKey, told, by>>
    BY <1>4 DEF ReceiveReply
  <2>2. /\ r \in Replies /\ answer'[id] = r
        /\ \A j \in Ids : answer[j] # NoAnswer => answer'[j] = answer[j]
    BY <2>1, AnswerStays
  <2>3. answered' = answered \cup {id}
    BY <1>4 DEF ReceiveReply
  <2>4. CASE kind[id] = "login"
    BY <2>1, <2>2, <2>3, <2>4, LoginResultKey
  <2>5. CASE kind[id] # "login"
    BY <2>1, <2>2, <2>3, <2>5 DEF NoAnswer, Opening, isLogin
  <2>6. QED BY <2>4, <2>5
<1>5. ASSUME NEW id \in Ids, ReceiveInvalidLogin(id)
      PROVE  OpenedInv'
  BY <1>5 DEF ReceiveInvalidLogin, isLogin, Success
<1>6. CASE CheckRpcTimeout
  <2>1. CASE UNCHANGED <<loginCode, by, answer, answered>>
    BY <2>1 DEF isLogin
  <2>2. CASE loginCode' = "LOGIN_FAIL"
    BY <2>2 DEF isLogin, Success
  <2>3. QED BY <1>6, <2>1, <2>2 DEF CheckRpcTimeout
<1>7. CASE UNCHANGED vars
  BY <1>7 DEF vars, isLogin
<1>8. QED BY <1>1, <1>2, <1>3, <1>4, <1>5, <1>6, <1>7 DEF Next, Receive

LEMMA NextLasts ==
  ASSUME TypeOK, OrderInv, OutcomeInv, OpenedInv, SessionIsSettled, Next,
         isLogin, by \in Issued \ old, loginCode' # Success
  PROVE  loginCode' \in {"LOGOUT", "MT_INVALID_LOGIN_INFO"} \/ by' \in old
<1> Issued \subseteq Ids
  BY RpcAssumption DEF Issued, Ids, TypeOK
<1>1. by \in answered /\ answer[by] \in Opening /\ by \notin live /\ LoginWaits \subseteq {by}
  BY DEF OpenedInv, OutcomeInv, SessionIsSettled
<1>2. CASE InvokeRpc \/ CallLogin \/ SocketEvent \/ SocketDiscon \/ ReInit \/ Tick
  BY <1>2 DEF InvokeRpc, CallLogin, SocketEvent, SocketDiscon, ReInit, Tick, session,
              isLogin
<1>3. CASE SetLoginKey \/ Logout
  BY <1>3 DEF SetLoginKey, Logout
<1>4. ASSUME NEW id \in Ids, ReceiveReply(id)
      PROVE  by' \in old
  <2>1. PICK r \in RepliesTo(id) \ {"invalid"} :
          /\ answer' = [answer EXCEPT ![id] = r]
          /\ IF kind[id] = "login"
             THEN LoginResult(r) /\ by' = id
             ELSE UNCHANGED <<loginCode, loginKey, told, by>>
    BY <1>4 DEF ReceiveReply
  <2>2. kind[id] = "login" /\ LoginResult(r) /\ by' = id
    BY <2>1 DEF isLogin
  <2>3. r \in Replies /\ r \notin Opening
    BY <2>1, <2>2, AnswerStays, LoginResultKey DEF isLogin
  <2>4. id # by
    BY <1>1, <2>1, <2>3 DEF RepliesTo, Opening, NoAnswer
  <2>5. id \notin LoginWaits
    BY <1>1, <2>4
  <2>6. id \in waits
    BY <1>4 DEF ReceiveReply
  <2>7. QED BY <2>2, <2>5, <2>6 DEF LoginWaits
<1>5. ASSUME NEW id \in Ids, ReceiveInvalidLogin(id)
      PROVE  loginCode' \in {"LOGOUT", "MT_INVALID_LOGIN_INFO"}
  BY <1>5 DEF ReceiveInvalidLogin
<1>6. CASE CheckRpcTimeout
  <2>1. by' \in live /\ kind[by'] = "login"
    BY <1>6 DEF CheckRpcTimeout, isLogin
  <2>2. by' # by /\ by' \in waits
    BY <1>1, <2>1 DEF TypeOK
  <2>3. QED BY <1>1, <2>1, <2>2 DEF LoginWaits
<1>7. QED BY <1>2, <1>3, <1>4, <1>5, <1>6 DEF Next, Receive

(* Under the same conditions nothing but a logout, a reply that says the   *)
(* login is not valid or the outcome of a login from before a logout ends  *)
(* a session that a login request opened.                                  *)
THEOREM SessionStays ==
  ASSUME NEW K \in Nat, Enough(K), BOOT # 0
  PROVE  Spec /\ []Backlog(K) => SessionLasts
<1>1. Init => OrderInv /\ OutcomeInv /\ OpenedInv
  BY InitOrdered DEF Init, OutcomeInv, OpenedInv, isLogin, Success
<1>2. TypeOK /\ OrderInv /\ [Next]_vars => OrderInv'
  BY NextOrdered
<1>3. TypeOK /\ OutcomeInv /\ [Next]_vars => OutcomeInv'
  BY NextOutcome
<1>4. TypeOK /\ OpenedInv /\ [Next]_vars => OpenedInv'
  BY NextOpened
<1>5. TypeOK /\ OrderInv /\ OutcomeInv /\ OpenedInv /\ SessionIsSettled /\ [Next]_vars =>
        [isLogin /\ by \in Issued \ old /\ loginCode' # Success =>
           loginCode' \in {"LOGOUT", "MT_INVALID_LOGIN_INFO"} \/ by' \in old]_vars
  BY NextLasts
<1>6. Spec => []TypeOK
  BY TypeCorrect
<1>7. Spec /\ []Backlog(K) => []SessionIsSettled
  BY SessionSettled
<1>8. QED BY <1>1, <1>2, <1>3, <1>4, <1>5, <1>6, <1>7, PTL DEF Spec, SessionLasts
=============================================================================
