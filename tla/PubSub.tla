------------------------------- MODULE PubSub -------------------------------
(***************************************************************************)
(* The subscriptions of one device (src/jm_cli_ps.h): the listeners of     *)
(* each topic, the requests to the server with their answers, the          *)
(* subscription after a login, and the dispatch of an item to the          *)
(* listeners, which subscribe and unsubscribe while they are called.       *)
(***************************************************************************)
EXTENDS Integers, FiniteSets, SequencesExt

CONSTANTS
  Topics,      \* the topics
  P2P,         \* TOPIC_P2P, the topic that the server does not forward
  Listeners,   \* the functions that listen
  MaxMsgs      \* bound: requests sent

ASSUME PubSubAssumption == MaxMsgs \in Nat

VARIABLES
  ps_listener,  \* the topics and their listeners, newest first
  loggedIn,     \* jm_cli_isLogin
  loginResult,  \* does JM_TASK_APP_LOGIN_RESULT wait in the event queue?
  msgId,        \* the id of the last request
  net,          \* requests and answers on their way
  server,       \* external: the subscriptions the server holds
  given,        \* history: the subscription ids given, with their requests
  missed,       \* history: was a request to subscribe or a login event lost
                \* since a login subscribed all the topics?
  pass,         \* the dispatch of an item to the rest of its listeners
  wanted,       \* history: who subscribed and did not unsubscribe
  dropped,      \* history: topics that lost listeners nobody unsubscribed
  ended         \* history: topics whose subscription was ended

clientVars == <<ps_listener, msgId>>
netVars    == <<net, missed, server, given>>
vars == <<clientVars, loggedIn, loginResult, netVars, pass, wanted, dropped, ended>>

NoPass == [topic |-> P2P, start |-> {}, rest |-> <<>>, called |-> <<>>, linked |-> FALSE]

Init ==
  /\ ps_listener = <<>>
  /\ loggedIn = FALSE
  /\ loginResult = FALSE
  /\ msgId = 0
  /\ net = {}
  /\ server = {}
  /\ given = {}
  /\ missed = FALSE
  /\ pass = NoPass
  /\ wanted = [t \in Topics |-> {}]
  /\ dropped = {}
  /\ ended = {}
-----------------------------------------------------------------------------
\* _c_getPubsubListenerMap.
Known(t) == \E i \in DOMAIN ps_listener : ps_listener[i].topic = t
IndexOf(t) == CHOOSE i \in DOMAIN ps_listener : ps_listener[i].topic = t
MapOf(t) == ps_listener[IndexOf(t)]
ListenersOf(t) == IF Known(t) THEN MapOf(t).listeners ELSE <<>>

\* jm_cli_sendMessage: the sender may refuse, which changes nothing else.
Send(m) ==
  \/ net' = net \cup {m} /\ UNCHANGED missed
  \/ net' = net /\ missed' = (missed \/ m.kind = "sub")

\* _c_doSubscribeTopic: the n-th of the requests sent at once.
DoSubscribe(m, n) == [m EXCEPT !.subMsgId = msgId + n, !.subId = 0]
SubRequest(m, n)  == [kind |-> "sub", topic |-> m.topic, id |-> msgId + n, subId |-> 0]

\* _c_addListenerItem: not twice, and the newest in front.
AddListener(m, l) ==
  IF l \in ToSet(m.listeners) THEN m ELSE [m EXCEPT !.listeners = <<l>> \o @]

\* A call by the application, or by a listener that is being called.
InCallback == pass.rest # <<>>

\* jm_cli_subscribe.  Only a new topic is subscribed at the server.
Subscribe(t, l, rm) ==
  LET new  == [topic |-> t, rm |-> rm, subMsgId |-> 0, subId |-> 0, listeners |-> <<l>>]
      send == rm /\ ~Known(t) /\ loggedIn IN
  /\ send => msgId < MaxMsgs
  /\ ps_listener' =
       IF Known(t) THEN [ps_listener EXCEPT ![IndexOf(t)] = AddListener(@, l)]
       ELSE <<IF send THEN DoSubscribe(new, 1) ELSE new>> \o ps_listener
  /\ msgId' = IF send THEN msgId + 1 ELSE msgId
  /\ IF send THEN Send(SubRequest(new, 1)) ELSE UNCHANGED <<net, missed>>
  /\ wanted' = [wanted EXCEPT ![t] = @ \cup {l}]
  /\ UNCHANGED <<loggedIn, loginResult, server, given, pass, dropped, ended>>

\* Fault: a listener that is not the newest stays linked.
UnsubscribeKeepsOthers(t, l) ==
  /\ l \in ToSet(ListenersOf(t)) /\ l # Head(ListenersOf(t))
  /\ wanted' = [wanted EXCEPT ![t] = @ \ {l}]
  /\ UNCHANGED <<clientVars, loggedIn, loginResult, netVars, pass, dropped, ended>>

\* jm_cli_unsubscribe of a listener behind the newest unlinks it, also for
\* a dispatch that has not come to it yet.
UnsubscribeOther(t, l) ==
  /\ l \in ToSet(ListenersOf(t)) /\ l # Head(ListenersOf(t))
  /\ ps_listener' = [ps_listener EXCEPT ![IndexOf(t)].listeners = RemoveFirst(@, l)]
  /\ pass' = IF pass.topic = t /\ pass.linked
             THEN [pass EXCEPT !.rest = RemoveFirst(@, l), !.start = @ \ {l}]
             ELSE pass
  /\ wanted' = [wanted EXCEPT ![t] = @ \ {l}]
  /\ UNCHANGED <<msgId, loggedIn, loginResult, netVars, dropped, ended>>

\* jm_cli_unsubscribe of the newest listener: all the listeners of the topic
\* are gone, and the server is told to end the subscription.
UnsubscribeNewest(t, l) ==
  /\ ListenersOf(t) # <<>> /\ l = Head(ListenersOf(t))
  /\ msgId < MaxMsgs
  /\ ps_listener' = [ps_listener EXCEPT ![IndexOf(t)].listeners = <<>>]
  /\ msgId' = msgId + 1
  /\ Send([kind |-> "unsub", topic |-> t, id |-> msgId + 1, subId |-> MapOf(t).subId])
  /\ pass' = IF pass.topic = t THEN [pass EXCEPT !.linked = FALSE, !.start = @ \ {l}]
             ELSE pass
  /\ wanted' = [wanted EXCEPT ![t] = @ \ {l}]
  /\ dropped' = IF Len(ListenersOf(t)) > 1 THEN dropped \cup {t} ELSE dropped
  /\ ended' = ended \cup {t}
  /\ UNCHANGED <<loggedIn, loginResult, server, given>>

\* A listener does not unsubscribe itself while it is being called: the
\* dispatch would go on from its freed item.
Unsubscribe(t, l) ==
  /\ InCallback => ~(pass.topic = t /\ Head(pass.rest) = l)
  /\ UnsubscribeOther(t, l) \/ UnsubscribeNewest(t, l)

ClientCall ==
  \E t \in Topics, l \in Listeners :
    (\E rm \in BOOLEAN : Subscribe(t, l, rm)) \/ Unsubscribe(t, l)
-----------------------------------------------------------------------------
\* Fault: the event of the login is not posted.
LoginSilent ==
  /\ ~InCallback /\ ~loggedIn
  /\ loggedIn' = TRUE
  /\ UNCHANGED <<clientVars, loginResult, netVars, pass, wanted, dropped, ended>>

\* _c_loginResult posts the event; jm_cli_logout does not.
Login ==
  /\ ~InCallback /\ ~loggedIn
  /\ loggedIn' = TRUE /\ loginResult' = TRUE
  /\ UNCHANGED <<clientVars, netVars, pass, wanted, dropped, ended>>

Logout ==
  /\ ~InCallback /\ loggedIn
  /\ loggedIn' = FALSE
  /\ UNCHANGED <<clientVars, loginResult, netVars, pass, wanted, dropped, ended>>

Forwarded(m) == m.rm /\ m.topic # P2P
\* The requests of a login are numbered in the order of the list.
Resubscribed == {i \in DOMAIN ps_listener : Forwarded(ps_listener[i])}
Turn(i) == Cardinality({j \in Resubscribed : j <= i})

\* _c_subTopicAfterjmLogin: all the forwarded topics, those without
\* listeners too.
LoginResult ==
  LET again == IF loggedIn THEN Resubscribed ELSE {} IN
  /\ ~InCallback /\ loginResult
  /\ loginResult' = FALSE
  /\ msgId + Cardinality(again) <= MaxMsgs
  /\ ps_listener' =
       [i \in DOMAIN ps_listener |->
          IF i \in again THEN DoSubscribe(ps_listener[i], Turn(i)) ELSE ps_listener[i]]
  /\ msgId' = msgId + Cardinality(again)
  /\ \E sent \in SUBSET again :
       /\ net' = net \cup {SubRequest(ps_listener[i], Turn(i)) : i \in sent}
       /\ missed' = IF loggedIn THEN sent # again ELSE missed
  /\ ended' = IF loggedIn /\ ~missed' THEN {} ELSE ended
  /\ UNCHANGED <<loggedIn, server, given, pass, wanted, dropped>>

\* Fault: an answer is taken whichever request it belongs to.
SubscribedAny(m) ==
  /\ m.kind = "reply"
  /\ ps_listener' =
       [i \in DOMAIN ps_listener |->
          IF ps_listener[i].topic = m.topic
          THEN [ps_listener[i] EXCEPT !.subId = m.subId] ELSE ps_listener[i]]
  /\ UNCHANGED <<server, given>>

\* _c_pubsubOpMsgHandle: the answer to the last request of its topic.
Subscribed(m) ==
  /\ m.kind = "reply"
  /\ ps_listener' =
       [i \in DOMAIN ps_listener |->
          IF ps_listener[i].topic = m.topic /\ ps_listener[i].subMsgId = m.id
          THEN [ps_listener[i] EXCEPT !.subId = m.subId] ELSE ps_listener[i]]
  /\ UNCHANGED <<server, given>>

\* External: the server gives every subscription an id of its own and ends
\* the one it is told to end.
ServerSubscribes(m) ==
  LET s == [topic |-> m.topic, id |-> m.id, subId |-> Cardinality(given) + 1] IN
  /\ m.kind = "sub" /\ Cardinality(given) < MaxMsgs
  /\ server' = server \cup {s}
  /\ given' = given \cup {s}
  /\ UNCHANGED ps_listener

ServerUnsubscribes(m) ==
  /\ m.kind = "unsub"
  /\ server' = {s \in server : s.subId # m.subId}
  /\ UNCHANGED <<given, ps_listener>>

Answers(m) ==
  IF m.kind = "sub"
  THEN {[kind |-> "reply", topic |-> m.topic, id |-> m.id, subId |-> Cardinality(given) + 1]}
  ELSE {}

\* A message arrives, and may arrive again.
Receive ==
  \E m \in net :
    /\ ~InCallback
    /\ Subscribed(m) \/ ServerSubscribes(m) \/ ServerUnsubscribes(m)
    /\ \E left \in {net \ {m}, net} : net' = left \cup Answers(m)
    /\ UNCHANGED <<missed, msgId, loggedIn, loginResult, pass, wanted, dropped, ended>>

\* A message is lost, or the full event queue refuses the event.
Lose ==
  /\ ~InCallback
  /\ \/ /\ loginResult /\ loginResult' = FALSE /\ missed' = TRUE
        /\ UNCHANGED net
     \/ /\ \E m \in net : net' = net \ {m} /\ missed' = (missed \/ m.kind = "sub")
        /\ UNCHANGED loginResult
  /\ UNCHANGED <<clientVars, loggedIn, server, given, pass, wanted, dropped, ended>>
-----------------------------------------------------------------------------
\* _c_dispachPubsubItem: the newest listener of the topic is called first.
Dispatch ==
  \E t \in Topics :
    /\ ~InCallback
    /\ ListenersOf(t) # <<>>
    /\ pass' = [topic |-> t, start |-> ToSet(ListenersOf(t)), rest |-> ListenersOf(t),
                called |-> <<Head(ListenersOf(t))>>, linked |-> TRUE]
    /\ UNCHANGED <<clientVars, loggedIn, loginResult, netVars, wanted, dropped, ended>>

\* Fault: the walk ends when the topic has no listeners any more.
ListenerReturnsUnlinked ==
  LET rest == IF pass.linked THEN Tail(pass.rest) ELSE <<>> IN
  /\ InCallback
  /\ pass' = [pass EXCEPT !.rest = rest,
                          !.called = IF rest = <<>> THEN @ ELSE Append(@, Head(rest))]
  /\ UNCHANGED <<clientVars, loggedIn, loginResult, netVars, wanted, dropped, ended>>

\* The listener returns and the next one of the list is called.
ListenerReturns ==
  LET rest == Tail(pass.rest) IN
  /\ InCallback
  /\ pass' = [pass EXCEPT !.rest = rest,
                          !.called = IF rest = <<>> THEN @ ELSE Append(@, Head(rest))]
  /\ UNCHANGED <<clientVars, loggedIn, loginResult, netVars, wanted, dropped, ended>>

Next ==
  \/ ClientCall
  \/ Login \/ Logout \/ LoginResult
  \/ Receive \/ Lose
  \/ Dispatch \/ ListenerReturns

Spec == Init /\ [][Next]_vars
-----------------------------------------------------------------------------
(* Whatever requests and answers were lost, late or repeated, the id that  *)
(* a topic is known by was given to its last request (the check of the     *)
(* message id in _c_pubsubOpMsgHandle).                                    *)
SubIdIsCurrent ==
  \A i \in DOMAIN ps_listener :
    LET m == ps_listener[i] IN
    m.subId # 0 => [topic |-> m.topic, id |-> m.subMsgId, subId |-> m.subId] \in given

(* The listeners of a topic are those that subscribed and did not          *)
(* unsubscribe, each once, until the newest of several unsubscribes.       *)
ListenersAreWanted ==
  \A t \in Topics :
    /\ IsInjective(ListenersOf(t))
    /\ ToSet(ListenersOf(t)) \subseteq wanted[t]
    /\ t \notin dropped => ToSet(ListenersOf(t)) = wanted[t]

(* Listeners that come and go while an item is dispatched neither hide it  *)
(* from another listener nor show it to one twice.                         *)
CalledOnce ==
  [][InCallback /\ ~InCallback' =>
       /\ IsInjective(pass.called)
       /\ pass'.start \subseteq ToSet(pass.called)]_vars

(* A listener that has unsubscribed is not called any more, until the      *)
(* newest of several has unsubscribed.                                     *)
NotCalledAfter ==
  [][\A l \in Listeners :
       pass'.rest # pass.rest /\ pass'.rest # <<>> /\ Head(pass'.rest) = l
         => l \in wanted[pass'.topic] \/ pass'.topic \in dropped]_vars

(* Whatever was lost or ended before, the server holds a subscription of   *)
(* every forwarded topic once the client is logged in and nothing is on    *)
(* its way, if since the last login that subscribed all of them no request *)
(* was lost (_c_subTopicAfterjmLogin heals) and the topic was not ended:   *)
(* subscribing it again does not renew it.                                 *)
SubscribedWhenQuiet ==
  ~missed /\ loggedIn /\ ~loginResult /\ (\A m \in net : m.kind # "sub") =>
    \A i \in DOMAIN ps_listener :
      LET m == ps_listener[i] IN
      Forwarded(m) /\ m.topic \notin ended
        => \E s \in server : s.topic = m.topic /\ s.id = m.subMsgId
=============================================================================
