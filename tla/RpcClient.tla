----------------------------- MODULE RpcClient -----------------------------
(***************************************************************************)
(* The RPC layer and the login session of the client (src/jm_cli_rpc.h,    *)
(* src/jm_client.c): requests wait for their reply in wait_for_resps, a    *)
(* timer sweeps the requests that waited too long, and the session -       *)
(* loginCode, loginKey, lastLoginTime - is driven by the replies to login  *)
(* requests, by their timeouts and by logout.  Replies come over UDP: they *)
(* are lost, delayed, reordered and repeated.                              *)
(*                                                                         *)
(* Time advances in ticks.  An instant t kept by the code is represented   *)
(* by the ticks elapsed since t, which saturate where no comparison of the *)
(* code can tell the difference; so the clock is unbounded and the state   *)
(* finite.  Modelled for a device with an invoke code and a device id; the *)
(* 32-bit wrap of the millisecond clock is left out here.                  *)
(***************************************************************************)
EXTENDS Integers, FiniteSets

CONSTANTS
  MaxMsgs,         \* bound: the number of RPC messages ever created
  BUCKETS,         \* the capacity of wait_for_resps (6 in jm_cli_init)
  RPC_TIMEOUT,     \* rpcTimeout: 30 s
  LOGIN_INTERVAL,  \* the 60000 ms of jm_cli_login
  CHECK_INTERVAL,  \* the period of the timer "_c_RPCC": 3 s
  AppKeys,         \* what the application gives jm_cli_setLoginKey: TRUE a key,
                   \* FALSE a null pointer
  BOOT             \* the reading of the clock when the client starts

ASSUME RpcAssumption ==
  /\ MaxMsgs \in Nat
  /\ BUCKETS \in Nat \ {0}
  /\ RPC_TIMEOUT \in Nat
  /\ LOGIN_INTERVAL \in Nat \ {0}
  /\ CHECK_INTERVAL \in Nat \ {0}
  /\ AppKeys \subseteq BOOLEAN
  /\ BOOT \in Nat

VARIABLES
  nextId,      \* the id of the next message
  waits,       \* the ids in wait_for_resps
  live,        \* those whose startTime is not 0
  kind,        \* what a message asks: "login", "app" (with a callback), "none"
  sent,        \* the messages the sender has put on the network
  answer,      \* the reply of the server to a message, once one has arrived
  age,         \* ticks since a message that waits was created
  uptime,      \* the reading of the clock
  sinceCheck,  \* ticks since the last sweep
  net,         \* udpConnected
  loginCode, loginKey,
  sinceLogin,  \* ticks since lastLoginTime, or Never when that is 0
  inited,
  told,        \* the code of the last JM_TASK_APP_LOGIN_RESULT event posted
  answered,    \* history: messages whose callback was given a reply
  timedOut,    \* history: messages whose callback was given a timeout
  forgotten,   \* history: messages dropped with their table by jm_cli_init
  old,         \* history: messages created before the last logout
  by           \* history: the login request whose outcome loginCode is, or 0

table   == <<nextId, waits, live, kind, sent, age>>
session == <<loginCode, loginKey, sinceLogin, inited, told, old, by>>
history == <<answered, timedOut, forgotten>>
clock   == <<uptime, sinceCheck>>
vars    == <<nextId, waits, live, kind, sent, answer, age, uptime, sinceCheck,
             net, loginCode, loginKey, sinceLogin, inited, told,
             answered, timedOut, forgotten, old, by>>

Ids   == 1 .. MaxMsgs
Kinds == {"login", "app", "none"}

\* What a reply makes of the request: "ok"; "error", a non-zero result code;
\* "invalid", the code MT_INVALID_LOGIN_INFO; "noMap", no payload at all;
\* "noData", a payload without the field "data"; "noKey", a success whose
\* data has no "loginKey".
Replies  == {"ok", "error", "invalid", "noMap", "noData", "noKey"}
NoAnswer == "none"

\* The values of loginCode that the code tells apart.
Success == "LSUCCESS"
Codes   == {Success, "LOGIN_FAIL", "LOGOUT", "HANDLE_MSG_FAIL",
            "error", "MT_INVALID_LOGIN_INFO"}
Silent  == "silent"

Never     == -1
MaxAge    == RPC_TIMEOUT + 1
Older(a, max) == IF a < max THEN a + 1 ELSE a

isLogin == loginCode = Success
Issued  == 1 .. nextId - 1
-----------------------------------------------------------------------------
Init ==
  /\ nextId = 1
  /\ waits = {}
  /\ live = {}
  /\ kind = [id \in Ids |-> "none"]
  /\ sent = {}
  /\ answer = [id \in Ids |-> NoAnswer]
  /\ age = [id \in Ids |-> 0]
  /\ uptime = IF BOOT < MaxAge THEN BOOT ELSE MaxAge
  /\ sinceCheck = 0
  /\ net = FALSE
  /\ loginCode = "LOGOUT"
  /\ loginKey = FALSE
  /\ sinceLogin = Never
  /\ inited = TRUE
  /\ told = Silent
  /\ answered = {}
  /\ timedOut = {}
  /\ forgotten = {}
  /\ old = {}
  /\ by = 0

\* Fault: the wait is stamped but never put into the table.
IssueUnregistered(k, done) ==
  /\ nextId \in Ids
  /\ nextId' = nextId + 1
  /\ kind' = [kind EXCEPT ![nextId] = k]
  /\ age' = [age EXCEPT ![nextId] = 0]
  /\ sent' \in {sent, sent \cup {nextId}}
  /\ live' = (live \ done) \cup {nextId}
  /\ UNCHANGED waits

\* jm_cli_invokeRpcByChannelNo: the wait is registered, stamped with the
\* time, and stays registered when the sender fails.  "done" are requests
\* whose startTime the calling handler clears in the same step.
Issue(k, done) ==
  /\ nextId \in Ids
  /\ nextId' = nextId + 1
  /\ kind' = [kind EXCEPT ![nextId] = k]
  /\ age' = [age EXCEPT ![nextId] = 0]
  /\ sent' \in {sent, sent \cup {nextId}}
  /\ waits' = IF k = "none" THEN waits ELSE waits \cup {nextId}
  /\ live' = (live \ done) \cup
             (IF k # "none" /\ uptime # 0 THEN {nextId} ELSE {})

\* Fault: the 30 s of the comment instead of the 60 s of the code.
MayLoginAfter30s(connected, code, since) ==
  /\ connected
  /\ code # Success
  /\ since = Never \/ since > RPC_TIMEOUT

\* The conditions of jm_cli_login, on the state its caller has prepared.
MayLogin(connected, code, since) ==
  /\ connected
  /\ code # Success
  /\ since = Never \/ since >= LOGIN_INTERVAL

\* lastLoginTime = cur: a reading of 0 means "never".
LoginStamp == IF uptime = 0 THEN Never ELSE 0

\* An RPC of the application or of a component (heartbeat, pub/sub, kv).
InvokeRpc ==
  /\ \E k \in {"app", "none"} : Issue(k, {})
  /\ UNCHANGED <<answer, clock, net, session, history>>

\* jm_cli_login, from the timer _c_net or the application.
CallLogin ==
  /\ MayLogin(net, loginCode, sinceLogin)
  /\ Issue("login", {})
  /\ sinceLogin' = LoginStamp
  /\ UNCHANGED <<answer, clock, net, loginCode, loginKey, inited, told, old, by, history>>

\* _client_socketConedCb: the event JM_TASK_APP_UDP carries the new status.
SocketEvent ==
  /\ net' \in BOOLEAN
  /\ IF MayLogin(net', loginCode, sinceLogin)
     THEN Issue("login", {}) /\ sinceLogin' = LoginStamp
     ELSE UNCHANGED <<table, sinceLogin>>
  /\ UNCHANGED <<answer, clock, loginCode, loginKey, inited, told, old, by, history>>

\* jm_cli_socketDisconCb.
SocketDiscon ==
  /\ net
  /\ net' = FALSE
  /\ UNCHANGED <<table, answer, clock, session, history>>

\* jm_cli_setLoginKey: the application hands over a key, or takes it away.
SetLoginKey ==
  /\ loginKey' \in AppKeys
  /\ loginCode' = Success
  /\ by' = 0
  /\ UNCHANGED <<table, answer, clock, net, sinceLogin, inited, told, old, history>>

\* jm_cli_logout.
Logout ==
  /\ loginCode' = "LOGOUT"
  /\ loginKey' = FALSE
  /\ inited' = FALSE
  /\ sinceLogin' = Never
  /\ old' = Issued
  /\ by' = 0
  /\ UNCHANGED <<table, answer, clock, net, told, history>>

\* jm_cli_init after a logout: new tables, and nobody waits any longer.
ReInit ==
  /\ ~inited
  /\ inited' = TRUE
  /\ waits' = {}
  /\ live' = {}
  /\ forgotten' = forgotten \cup live
  /\ sinceCheck' = 0
  /\ UNCHANGED <<nextId, kind, sent, answer, age, uptime, net, loginCode,
                 loginKey, sinceLogin, told, old, by, answered, timedOut>>

\* Fault: the code 0 that _c_loginResult starts from is left standing.
LoginResultKeepsZero(r) ==
  /\ loginCode' = IF r = "error" THEN "error" ELSE Success
  /\ loginKey' = (loginKey \/ r = "ok")
  /\ told' = CASE r \in {"ok", "noKey"} -> Success [] r = "error" -> "error" [] OTHER -> told

\* _c_loginResult, for a reply r that did not end the session.
LoginResult(r) ==
  CASE r = "ok"     -> /\ loginCode' = Success
                       /\ loginKey' = TRUE
                       /\ told' = Success
    [] r = "error"  -> /\ loginCode' = "error"
                       /\ told' = "error"
                       /\ UNCHANGED loginKey
    [] r = "noMap"  -> /\ loginCode' = "HANDLE_MSG_FAIL"
                       /\ UNCHANGED <<loginKey, told>>
    [] r = "noData" -> /\ loginCode' = Success
                       /\ UNCHANGED <<loginKey, told>>
    [] r = "noKey"  -> /\ loginCode' = Success
                       /\ told' = Success
                       /\ UNCHANGED loginKey

\* The replies that are told apart: an application callback only differs
\* from another when the reply says that the login is not valid.
RepliesTo(id) ==
  IF answer[id] # NoAnswer THEN {answer[id]}
  ELSE IF kind[id] = "login" THEN Replies ELSE {"ok", "invalid"}

\* Fault: the startTime of an answered request is not cleared.
ReceiveReplyKeepsTime(id) ==
  /\ id \in waits \cap sent
  /\ \E r \in RepliesTo(id) \ {"invalid"} :
       /\ answer' = [answer EXCEPT ![id] = r]
       /\ IF kind[id] = "login"
          THEN LoginResult(r) /\ by' = id
          ELSE UNCHANGED <<loginCode, loginKey, told, by>>
  /\ answered' = answered \cup {id}
  /\ UNCHANGED <<nextId, waits, live, kind, sent, age, clock, net, sinceLogin,
                 inited, old, timedOut, forgotten>>

\* _c_rpcMsgHandle for a reply that does not speak of the login.  A reply
\* nobody waits for (MSG_WAIT_NOT_FOUND) changes nothing.
ReceiveReply(id) ==
  /\ id \in waits \cap sent
  /\ \E r \in RepliesTo(id) \ {"invalid"} :
       /\ answer' = [answer EXCEPT ![id] = r]
       /\ IF kind[id] = "login"
          THEN LoginResult(r) /\ by' = id
          ELSE UNCHANGED <<loginCode, loginKey, told, by>>
  /\ live' = live \ {id}
  /\ answered' = answered \cup {id}
  /\ UNCHANGED <<nextId, waits, kind, sent, age, clock, net, sinceLogin,
                 inited, old, timedOut, forgotten>>

\* The same handler when the reply says MT_INVALID_LOGIN_INFO: log out, log
\* in again at once, then give the reply to the callback.
ReceiveInvalidLogin(id) ==
  /\ id \in waits \cap sent
  /\ "invalid" \in RepliesTo(id)
  /\ answer' = [answer EXCEPT ![id] = "invalid"]
  /\ IF net
     THEN Issue("login", {id}) /\ sinceLogin' = LoginStamp
     ELSE /\ UNCHANGED <<nextId, waits, kind, sent, age>>
          /\ live' = live \ {id}
          /\ sinceLogin' = Never
  /\ loginKey' = FALSE
  /\ inited' = FALSE
  /\ IF kind[id] = "login"
     THEN /\ loginCode' = "MT_INVALID_LOGIN_INFO"
          /\ told' = "MT_INVALID_LOGIN_INFO"
          /\ by' = id
     ELSE loginCode' = "LOGOUT" /\ by' = 0 /\ UNCHANGED told
  /\ old' = Issued
  /\ answered' = answered \cup {id}
  /\ UNCHANGED <<clock, net, timedOut, forgotten>>

\* Fault: an answered request never expires.
ExpiredUnanswered(id) == id \in live /\ age[id] > RPC_TIMEOUT

\* _c_checkRpcTimeout walks the chains of the table.  Removing the first
\* item of a chain ends the walk of that chain (jm_hashmap_iteRemove clears
\* the cursor, jm_hashmap_iteNext goes on with the next chain).
Expired(id) ==
  IF id \in live THEN age[id] > RPC_TIMEOUT ELSE uptime > RPC_TIMEOUT

Before(j, id) == j \in waits /\ j % BUCKETS = id % BUCKETS /\ j < id
IsHead(j)     == \A i \in waits : ~Before(i, j)

Swept ==
  {id \in waits : Expired(id) /\ \A j \in waits : Before(j, id) /\ IsHead(j) => ~Expired(j)}

\* Fault: the request is removed without a word to its callback.
CheckRpcTimeoutSilent ==
  /\ waits' = waits \ Swept
  /\ live' = live \ Swept
  /\ sinceCheck' = 0
  /\ UNCHANGED <<nextId, kind, sent, answer, age, uptime, net, session, history>>

CheckRpcTimeout ==
  LET late == Swept \cap live IN
  /\ waits' = waits \ Swept
  /\ live' = live \ Swept
  /\ timedOut' = timedOut \cup late
  /\ \/ /\ \E id \in late : kind[id] = "login" /\ by' = id
        /\ loginCode' = "LOGIN_FAIL"
        /\ told' = "LOGIN_FAIL"
     \/ /\ \A id \in late : kind[id] # "login"
        /\ UNCHANGED <<loginCode, told, by>>
  /\ sinceCheck' = 0
  /\ UNCHANGED <<nextId, kind, sent, answer, age, uptime, net, loginKey,
                 sinceLogin, inited, old, answered, forgotten>>

\* Time passes; the sweep is never late by more than its period.
Tick ==
  /\ sinceCheck < CHECK_INTERVAL
  /\ sinceCheck' = sinceCheck + 1
  /\ uptime' = Older(uptime, MaxAge)
  /\ age' = [id \in Ids |-> IF id \in waits THEN Older(age[id], MaxAge) ELSE 0]
  /\ sinceLogin' = IF sinceLogin = Never THEN Never
                   ELSE Older(sinceLogin, LOGIN_INTERVAL)
  /\ UNCHANGED <<nextId, waits, live, kind, sent, answer, net, loginCode,
                 loginKey, inited, told, old, by, history>>

Receive == \E id \in Ids : ReceiveReply(id) \/ ReceiveInvalidLogin(id)

Next ==
  \/ InvokeRpc \/ CallLogin \/ SocketEvent \/ SocketDiscon
  \/ SetLoginKey \/ Logout \/ ReInit \/ Receive \/ CheckRpcTimeout \/ Tick

\* The clock goes on and the timers are run; nothing is assumed of the
\* network, of the server or of the application.
Fairness == WF_vars(Tick) /\ WF_vars(CheckRpcTimeout)

Spec == Init /\ [][Next]_vars /\ Fairness
-----------------------------------------------------------------------------
\* Type invariant of the wait table and the session (jm_client.c:41-63).
TypeOK ==
  /\ nextId \in 1 .. MaxMsgs + 1
  /\ waits \subseteq Ids
  /\ live \subseteq waits
  /\ kind \in [Ids -> Kinds]
  /\ sent \subseteq Ids
  /\ answer \in [Ids -> Replies \cup {NoAnswer}]
  /\ age \in [Ids -> 0 .. MaxAge]
  /\ uptime \in 0 .. MaxAge
  /\ sinceCheck \in 0 .. CHECK_INTERVAL
  /\ net \in BOOLEAN
  /\ loginCode \in Codes
  /\ loginKey \in BOOLEAN
  /\ sinceLogin \in {Never} \cup 0 .. LOGIN_INTERVAL
  /\ inited \in BOOLEAN
  /\ told \in Codes \cup {Silent}
  /\ answered \subseteq Ids
  /\ timedOut \subseteq Ids
  /\ forgotten \subseteq Ids
  /\ old \subseteq Ids
  /\ by \in {0} \cup Ids

(* A callback never sees both outcomes of its request: neither a timeout   *)
(* after a reply (_c_rpcMsgHandle keeps the entry in the table with a      *)
(* cleared startTime) nor a late or repeated reply after a timeout         *)
(* (_c_checkRpcTimeout frees the entry).                                   *)
OneOutcome == answered \cap timedOut = {}

(* Two login requests of the same session are never outstanding together:  *)
(* the 60 s of jm_cli_login outlast the 30 s of rpcTimeout, the period of  *)
(* the sweep and the passes the sweep needs to get through a chain.        *)
LoginWaits == {id \in waits \ old : kind[id] = "login"}
OneLoginPerSession == \A i, j \in LoginWaits : i = j

(* A session that a login request of its own opened has no other login     *)
(* request outstanding whose timeout or late reply could still end it.     *)
SessionIsSettled ==
  isLogin /\ by \in Issued \ old => LoginWaits \subseteq {by}

(* Such a session is ended by a logout, by a reply that says the login is  *)
(* not valid or by the outcome of a login from before the last logout:     *)
(* never by the sweep that removes the entry of its own login, still in    *)
(* the table after the reply, nor by the outcome of another login.         *)
SessionLasts ==
  [][isLogin /\ by \in Issued \ old /\ loginCode' # Success =>
       loginCode' \in {"LOGOUT", "MT_INVALID_LOGIN_INFO"} \/ by' \in old]_vars

(* A session that a login request opened has its loginKey, whichever late  *)
(* replies, timeouts and logouts came between; the exceptions are a reply  *)
(* without the field data, for which the code 0 of _c_loginResult stands,  *)
(* and one whose data has no loginKey, which is taken for a success.       *)
SessionHasKey ==
  isLogin /\ by \in Ids => loginKey \/ answer[by] \in {"noData", "noKey"}

(* Every request that waits is given its outcome, unless its table is      *)
(* dropped by a new jm_cli_init.                                           *)
OutcomeComes ==
  \A id \in Ids : id \in live ~> id \in answered \cup timedOut \cup forgotten

(* Every entry leaves the table, also the answered ones that stay behind   *)
(* with a cleared startTime, although a sweep may skip most of a chain.    *)
EntriesLeave ==
  \A id \in Ids : id \in waits ~> id \notin waits
=============================================================================
