----------------------------- MODULE PubSubProofs -----------------------------
(***************************************************************************)
(* Theorems about PubSub, for every number of topics, listeners and        *)
(* messages.                                                               *)
(***************************************************************************)
EXTENDS PubSub, ListFacts, FiniteSetTheorems

Lists == {s \in Seq(Listeners) : IsInjective(s)}
Topic == [topic : Topics, rm : BOOLEAN, subMsgId : Nat, subId : Nat, listeners : Lists]
Message == [kind : {"sub", "unsub", "reply"}, topic : Topics, id : Nat, subId : Nat]
Gift(m) == [topic |-> m.topic, id |-> m.id, subId |-> m.subId]

(* The types, and that a reply says what the server gave.                  *)
Typed ==
  /\ ps_listener \in Seq(Topic)
  /\ msgId \in Nat
  /\ net \subseteq Message
  /\ IsFiniteSet(given)
  /\ \A m \in net : m.kind = "reply" => Gift(m) \in given

\* Replacing one topic of the list.
LEMMA ReplaceTopic ==
  ASSUME ps_listener \in Seq(Topic), NEW k \in DOMAIN ps_listener, NEW m \in Topic
  PROVE  LET new == [ps_listener EXCEPT ![k] = m] IN
         /\ new \in Seq(Topic) /\ DOMAIN new = DOMAIN ps_listener
         /\ \A i \in DOMAIN ps_listener : new[i] = IF i = k THEN m ELSE ps_listener[i]
<1> DEFINE new == [ps_listener EXCEPT ![k] = m]
<1>1. DOMAIN ps_listener = 1 .. Len(ps_listener)
  BY LenProperties
<1>2. new \in Seq(Topic) /\ Len(new) = Len(ps_listener)
  BY <1>1, ExceptSeq
<1>3. DOMAIN new = DOMAIN ps_listener
  OBVIOUS
<1>4. \A i \in DOMAIN ps_listener : new[i] = IF i = k THEN m ELSE ps_listener[i]
  BY <1>1
<1>5. QED BY <1>2, <1>3, <1>4

\* Putting a topic in front of the list.
LEMMA NewTopic ==
  ASSUME ps_listener \in Seq(Topic), NEW m \in Topic
  PROVE  LET new == <<m>> \o ps_listener IN
         /\ new \in Seq(Topic) /\ DOMAIN new = 1 .. Len(ps_listener) + 1
         /\ new[1] = m
         /\ \A i \in 2 .. Len(ps_listener) + 1 :
              i - 1 \in DOMAIN ps_listener /\ new[i] = ps_listener[i - 1]
<1> DEFINE new == <<m>> \o ps_listener
<1>1. DOMAIN ps_listener = 1 .. Len(ps_listener) /\ Len(ps_listener) \in Nat
  BY LenProperties
<1>2. <<m>> \in Seq(Topic) /\ Len(<<m>>) = 1 /\ <<m>>[1] = m
  OBVIOUS
<1>3. /\ new \in Seq(Topic) /\ Len(new) = 1 + Len(ps_listener)
      /\ \A i \in 1 .. 1 + Len(ps_listener) :
           new[i] = IF i <= 1 THEN <<m>>[i] ELSE ps_listener[i - 1]
  BY <1>2, ConcatProperties
<1>4. DOMAIN new = 1 .. 1 + Len(ps_listener)
  BY <1>3, LenProperties
<1> HIDE DEF new
<1>5. new[1] = m
  BY <1>1, <1>2, <1>3
<1>6. ASSUME NEW i \in 2 .. Len(ps_listener) + 1
      PROVE  i - 1 \in DOMAIN ps_listener /\ new[i] = ps_listener[i - 1]
  BY <1>1, <1>3
<1>7. QED BY <1>1, <1>3, <1>4, <1>5, <1>6 DEF new

\* Where a known topic stands.
LEMMA KnownTopic ==
  ASSUME ps_listener \in Seq(Topic), NEW t, Known(t)
  PROVE  /\ IndexOf(t) \in DOMAIN ps_listener
         /\ MapOf(t) = ps_listener[IndexOf(t)] /\ MapOf(t).topic = t
         /\ MapOf(t) \in Topic
<1>1. PICK i \in DOMAIN ps_listener : ps_listener[i].topic = t
  BY DEF Known
<1>2. IndexOf(t) \in DOMAIN ps_listener /\ ps_listener[IndexOf(t)].topic = t
  BY <1>1 DEF IndexOf
<1>3. DOMAIN ps_listener = 1 .. Len(ps_listener)
  BY LenProperties
<1>4. QED BY <1>2, <1>3, ElementOfSeq DEF MapOf

\* A request to subscribe a topic, and what it makes of the topic.
LEMMA Requested ==
  ASSUME Typed, NEW m \in Topic, NEW n \in Nat
  PROVE  /\ DoSubscribe(m, n) \in Topic
         /\ DoSubscribe(m, n).topic = m.topic /\ DoSubscribe(m, n).subId = 0
         /\ DoSubscribe(m, n).listeners = m.listeners
         /\ SubRequest(m, n) \in Message /\ SubRequest(m, n).kind # "reply"
<1>1. msgId + n \in Nat
  BY DEF Typed
<1>2. QED BY <1>1 DEF DoSubscribe, SubRequest, Topic, Message

\* Sending a message that is no reply.
LEMMA SendTyped ==
  ASSUME Typed, NEW m \in Message, m.kind # "reply", Send(m), UNCHANGED given
  PROVE  /\ net' \subseteq Message
         /\ \A r \in net' : r.kind = "reply" => Gift(r) \in given'
BY DEF Send, Typed

LEMMA TurnType ==
  ASSUME ps_listener \in Seq(Topic)
  PROVE  /\ \A i : Turn(i) \in Nat
         /\ Cardinality(Resubscribed) \in Nat /\ Cardinality({}) \in Nat
<1>1. IsFiniteSet(DOMAIN ps_listener)
  BY LenProperties, FS_Interval
<1>2. IsFiniteSet(Resubscribed)
  BY <1>1, FS_Subset DEF Resubscribed
<1>3. ASSUME NEW i PROVE IsFiniteSet({j \in Resubscribed : j <= i})
  BY <1>2, FS_Subset
<1>4. QED BY <1>2, <1>3, FS_CardinalityType, FS_EmptySet DEF Turn
-----------------------------------------------------------------------------
\* What the step of each action makes of the list of topics.

\* A subscription to a topic that is known.
LEMMA SubscribeKnown ==
  ASSUME Typed, NEW t \in Topics, NEW l \in Listeners, NEW rm \in BOOLEAN,
         Subscribe(t, l, rm), Known(t)
  PROVE  /\ ps_listener' = [ps_listener EXCEPT ![IndexOf(t)] = AddListener(MapOf(t), l)]
         /\ AddListener(MapOf(t), l) \in Topic
         /\ UNCHANGED <<msgId, net, given>>
<1>1. MapOf(t) \in Topic /\ MapOf(t) = ps_listener[IndexOf(t)]
  BY KnownTopic DEF Typed
<1>2. UNCHANGED <<msgId, net, given>>
  BY DEF Subscribe
<1>3. ps_listener' = [ps_listener EXCEPT ![IndexOf(t)] = AddListener(MapOf(t), l)]
  BY <1>1 DEF Subscribe
<1>4. AddListener(MapOf(t), l) \in Topic
  <2>1. CASE l \in ToSet(MapOf(t).listeners)
    BY <1>1, <2>1 DEF AddListener
  <2>2. CASE l \notin ToSet(MapOf(t).listeners)
    <3>1. <<l>> \o MapOf(t).listeners \in Lists
      BY <1>1, <2>2, PrependSimple DEF Topic, Lists, Simple
    <3>2. QED BY <1>1, <2>2, <3>1 DEF AddListener, Topic
  <2>3. QED BY <2>1, <2>2
<1>5. QED BY <1>2, <1>3, <1>4

\* A subscription to a new topic.
LEMMA SubscribeNew ==
  ASSUME Typed, NEW t \in Topics, NEW l \in Listeners, NEW rm \in BOOLEAN,
         Subscribe(t, l, rm), ~Known(t)
  PROVE  /\ \E m \in Topic : /\ m.topic = t /\ m.subId = 0 /\ m.listeners = <<l>>
                             /\ ps_listener' = <<m>> \o ps_listener
         /\ msgId' \in Nat /\ given' = given /\ net' \subseteq Message
         /\ \A r \in net' : r.kind = "reply" => Gift(r) \in given'
<1> DEFINE new  == [topic |-> t, rm |-> rm, subMsgId |-> 0, subId |-> 0, listeners |-> <<l>>]
           send == rm /\ ~Known(t) /\ loggedIn
<1>1. new \in Topic /\ new.topic = t /\ new.subId = 0 /\ new.listeners = <<l>>
  <2>1. <<l>> \in Lists
    BY DEF Lists, IsInjective
  <2>2. QED BY <2>1 DEF Topic
<1>2. given' = given
  BY DEF Subscribe
<1>3. CASE send
  <2>1. /\ ps_listener' = <<DoSubscribe(new, 1)>> \o ps_listener
        /\ msgId' = msgId + 1 /\ Send(SubRequest(new, 1))
    BY <1>3 DEF Subscribe
  <2>2. /\ DoSubscribe(new, 1) \in Topic /\ DoSubscribe(new, 1).topic = t
        /\ DoSubscribe(new, 1).subId = 0 /\ DoSubscribe(new, 1).listeners = <<l>>
        /\ SubRequest(new, 1) \in Message /\ SubRequest(new, 1).kind # "reply"
    BY <1>1, Requested
  <2>4. msgId + 1 \in Nat
    BY DEF Typed
  <2>5. QED BY <1>2, <2>1, <2>2, <2>4, SendTyped
<1>4. CASE ~send
  <2>1. ps_listener' = <<new>> \o ps_listener /\ UNCHANGED <<msgId, net>>
    BY <1>4 DEF Subscribe
  <2>2. QED BY <1>1, <1>2, <2>1 DEF Typed
<1>5. QED BY <1>3, <1>4

\* The end of a subscription changes the listeners of one topic.
LEMMA UnsubscribeCase ==
  ASSUME Typed, NEW t \in Topics, NEW l \in Listeners, Unsubscribe(t, l)
  PROVE  /\ Known(t) /\ given' = given
         /\ \/ /\ UnsubscribeOther(t, l)
               /\ ps_listener' = [ps_listener EXCEPT ![IndexOf(t)] =
                    [MapOf(t) EXCEPT !.listeners = RemoveFirst(MapOf(t).listeners, l)]]
               /\ UNCHANGED <<msgId, net>>
            \/ /\ UnsubscribeNewest(t, l)
               /\ ps_listener' = [ps_listener EXCEPT ![IndexOf(t)] =
                    [MapOf(t) EXCEPT !.listeners = <<>>]]
               /\ msgId' = msgId + 1
               /\ Send([kind |-> "unsub", topic |-> t, id |-> msgId + 1,
                        subId |-> MapOf(t).subId])
<1>1. Known(t)
  BY SimpleEmpty DEF Unsubscribe, UnsubscribeOther, UnsubscribeNewest, ListenersOf
<1>2. MapOf(t) = ps_listener[IndexOf(t)]
  BY DEF MapOf
<1>3. CASE UnsubscribeOther(t, l)
  BY <1>1, <1>2, <1>3 DEF UnsubscribeOther, netVars
<1>4. CASE UnsubscribeNewest(t, l)
  BY <1>1, <1>2, <1>4 DEF UnsubscribeNewest
<1>5. QED BY <1>3, <1>4 DEF Unsubscribe
-----------------------------------------------------------------------------
LEMMA LoginResultTyped ==
  ASSUME Typed, LoginResult
  PROVE  /\ ps_listener' \in Seq(Topic) /\ DOMAIN ps_listener' = DOMAIN ps_listener
         /\ \A i \in DOMAIN ps_listener :
              /\ ps_listener'[i].topic = ps_listener[i].topic
              /\ ps_listener'[i].listeners = ps_listener[i].listeners
              /\ ps_listener'[i] = ps_listener[i] \/ ps_listener'[i].subId = 0
         /\ msgId' \in Nat /\ given' = given /\ net' \subseteq Message
         /\ \A m \in net' : m.kind = "reply" => Gift(m) \in given'
<1> DEFINE again == IF loggedIn THEN Resubscribed ELSE {}
           new(i) == IF i \in again THEN DoSubscribe(ps_listener[i], Turn(i))
                     ELSE ps_listener[i]
           n == Len(ps_listener)
<1>1. n \in Nat /\ DOMAIN ps_listener = 1 .. n
  BY LenProperties DEF Typed
<1>2. \A i \in 1 .. n : ps_listener[i] \in Topic
  BY ElementOfSeq DEF Typed
<1>3. (\A i : Turn(i) \in Nat) /\ Cardinality(again) \in Nat
  BY TurnType DEF Typed
<1>4. ASSUME NEW i \in 1 .. n
      PROVE  /\ new(i) \in Topic /\ new(i).topic = ps_listener[i].topic
             /\ new(i).listeners = ps_listener[i].listeners
             /\ new(i) = ps_listener[i] \/ new(i).subId = 0
             /\ SubRequest(ps_listener[i], Turn(i)) \in Message
             /\ SubRequest(ps_listener[i], Turn(i)).kind # "reply"
  BY <1>2, <1>3, Requested
<1>5. ps_listener' = [i \in 1 .. n |-> new(i)]
  BY <1>1 DEF LoginResult
<1>6. ps_listener' \in Seq(Topic) /\ DOMAIN ps_listener' = 1 .. n
  <2>1. [i \in 1 .. n |-> new(i)] \in [1 .. n -> Topic]
    BY <1>4
  <2>2. QED BY <1>1, <1>5, <2>1
<1>7. msgId' \in Nat /\ given' = given
  BY <1>3 DEF LoginResult, Typed
<1>8. PICK sent \in SUBSET again :
        net' = net \cup {SubRequest(ps_listener[i], Turn(i)) : i \in sent}
  BY DEF LoginResult
<1>9. \A i \in sent : i \in 1 .. n
  BY <1>1 DEF Resubscribed
<1>10. net' \subseteq Message /\ \A m \in net' : m.kind = "reply" => Gift(m) \in given'
  BY <1>4, <1>7, <1>8, <1>9 DEF Typed
<1>11. QED BY <1>1, <1>4, <1>5, <1>6, <1>7, <1>10

\* A message arrives: the answer to a request, at the client, or a request,
\* at the server.
LEMMA ReceiveTyped ==
  ASSUME Typed, Receive
  PROVE  /\ ps_listener' \in Seq(Topic) /\ DOMAIN ps_listener' = DOMAIN ps_listener
         /\ \A i \in DOMAIN ps_listener :
              /\ ps_listener'[i].topic = ps_listener[i].topic
              /\ ps_listener'[i].listeners = ps_listener[i].listeners
              /\ ps_listener'[i] = ps_listener[i] \/ Gift([topic |-> ps_listener'[i].topic,
                   id |-> ps_listener'[i].subMsgId, subId |-> ps_listener'[i].subId]) \in given'
         /\ msgId' = msgId /\ given \subseteq given' /\ IsFiniteSet(given')
         /\ net' \subseteq Message
         /\ \A m \in net' : m.kind = "reply" => Gift(m) \in given'
<1> DEFINE n == Len(ps_listener)
<1>1. n \in Nat /\ DOMAIN ps_listener = 1 .. n /\ \A i \in 1 .. n : ps_listener[i] \in Topic
  BY LenProperties, ElementOfSeq DEF Typed
<1>2. PICK m \in net : /\ Subscribed(m) \/ ServerSubscribes(m) \/ ServerUnsubscribes(m)
                       /\ \E left \in {net \ {m}, net} : net' = left \cup Answers(m)
                       /\ msgId' = msgId
  BY DEF Receive
<1>3. m \in Message /\ (m.kind = "reply" => Gift(m) \in given)
  BY DEF Typed
<1>4. CASE Subscribed(m)
  <2> DEFINE new(i) == IF ps_listener[i].topic = m.topic /\ ps_listener[i].subMsgId = m.id
                       THEN [ps_listener[i] EXCEPT !.subId = m.subId] ELSE ps_listener[i]
  <2>1. ps_listener' = [i \in 1 .. n |-> new(i)] /\ given' = given /\ Answers(m) = {}
        /\ m.kind = "reply"
    BY <1>1, <1>4 DEF Subscribed, Answers
  <2>2. ASSUME NEW i \in 1 .. n
        PROVE  /\ new(i) \in Topic /\ new(i).topic = ps_listener[i].topic
               /\ new(i).listeners = ps_listener[i].listeners
               /\ \/ new(i) = ps_listener[i]
                  \/ new(i).topic = m.topic /\ new(i).subMsgId = m.id /\ new(i).subId = m.subId
    BY <1>1, <1>3 DEF Topic, Message
  <2>3. ps_listener' \in Seq(Topic) /\ DOMAIN ps_listener' = 1 .. n
    <3>1. [i \in 1 .. n |-> new(i)] \in [1 .. n -> Topic]
      BY <2>2
    <3>2. QED BY <1>1, <2>1, <3>1
  <2>4. ASSUME NEW i \in 1 .. n
        PROVE  \/ ps_listener'[i] = ps_listener[i]
               \/ Gift([topic |-> ps_listener'[i].topic, id |-> ps_listener'[i].subMsgId,
                        subId |-> ps_listener'[i].subId]) = Gift(m)
    BY <2>1, <2>2 DEF Gift
  <2>5. net' \subseteq net
    BY <1>2, <2>1
  <2>6. QED BY <1>1, <1>2, <1>3, <2>1, <2>2, <2>3, <2>4, <2>5 DEF Typed
<1>5. CASE ServerSubscribes(m)
  <2> DEFINE s == Cardinality(given) + 1
             reply == [kind |-> "reply", topic |-> m.topic, id |-> m.id, subId |-> s]
  <2>1. /\ ps_listener' = ps_listener /\ Answers(m) = {reply}
        /\ given' = given \cup {[topic |-> m.topic, id |-> m.id, subId |-> s]}
    BY <1>5 DEF ServerSubscribes, Answers
  <2>2. s \in Nat
    BY FS_CardinalityType DEF Typed
  <2>3. reply \in Message /\ Gift(reply) \in given'
    BY <1>3, <2>1, <2>2 DEF Message, Gift
  <2>4. IsFiniteSet(given')
    BY <2>1, FS_AddElement DEF Typed
  <2>5. net' \subseteq net \cup {reply}
    BY <1>2, <2>1
  <2>6. QED BY <1>2, <2>1, <2>3, <2>4, <2>5 DEF Typed
<1>6. CASE ServerUnsubscribes(m)
  <2>1. ps_listener' = ps_listener /\ given' = given /\ Answers(m) = {}
    BY <1>6 DEF ServerUnsubscribes, Answers
  <2>2. QED BY <1>2, <2>1 DEF Typed
<1>7. QED BY <1>2, <1>4, <1>5, <1>6
-----------------------------------------------------------------------------
\* The other actions leave all of this alone, or lose messages.
LEMMA OtherSteps ==
  ASSUME Login \/ Logout \/ Lose \/ Dispatch \/ ListenerReturns \/ UNCHANGED vars
  PROVE  UNCHANGED <<ps_listener, msgId, given, wanted, dropped>> /\ net' \subseteq net
BY DEF Login, Logout, Lose, Dispatch, ListenerReturns, clientVars, netVars, vars

SubInv == Typed /\ SubIdIsCurrent

LEMMA NextCurrent == SubInv /\ [Next]_vars => SubInv'
<1> SUFFICES ASSUME SubInv, [Next]_vars PROVE SubInv'
  OBVIOUS
<1> DEFINE n == Len(ps_listener)
<1>1. /\ Typed /\ n \in Nat /\ DOMAIN ps_listener = 1 .. n
      /\ \A i \in 1 .. n : ps_listener[i] \in Topic
  BY LenProperties, ElementOfSeq DEF SubInv, Typed
<1>2. ASSUME NEW t \in Topics, NEW l \in Listeners, NEW rm \in BOOLEAN, Subscribe(t, l, rm)
      PROVE  SubInv'
  <2>1. CASE Known(t)
    <3> DEFINE k == IndexOf(t)
               m == AddListener(MapOf(t), l)
    <3>1. /\ ps_listener' = [ps_listener EXCEPT ![k] = m] /\ m \in Topic
          /\ UNCHANGED <<msgId, net, given>>
      BY <1>1, <1>2, <2>1, SubscribeKnown
    <3>2. k \in 1 .. n /\ MapOf(t) = ps_listener[k] /\ MapOf(t) \in Topic
      BY <1>1, <2>1, KnownTopic DEF Typed
    <3>3. m.topic = MapOf(t).topic /\ m.subMsgId = MapOf(t).subMsgId /\ m.subId = MapOf(t).subId
      BY <3>2 DEF AddListener, Topic
    <3> HIDE DEF k, m
    <3>4. /\ ps_listener' \in Seq(Topic) /\ DOMAIN ps_listener' = 1 .. n
          /\ \A i \in 1 .. n : ps_listener'[i] = IF i = k THEN m ELSE ps_listener[i]
      BY <1>1, <3>1, <3>2, ReplaceTopic DEF Typed
    <3>5. SubIdIsCurrent'
      BY <1>1, <3>1, <3>2, <3>3, <3>4 DEF SubInv, SubIdIsCurrent
    <3>6. QED BY <1>1, <3>1, <3>4, <3>5 DEF SubInv, Typed
  <2>2. CASE ~Known(t)
    <3>1. PICK m \in Topic : m.subId = 0 /\ ps_listener' = <<m>> \o ps_listener
      BY <1>1, <1>2, <2>2, SubscribeNew
    <3>2. /\ msgId' \in Nat /\ given' = given /\ net' \subseteq Message
          /\ \A r \in net' : r.kind = "reply" => Gift(r) \in given'
      BY <1>1, <1>2, <2>2, SubscribeNew
    <3>3. /\ ps_listener' \in Seq(Topic) /\ DOMAIN ps_listener' = 1 .. n + 1
          /\ ps_listener'[1] = m
          /\ \A i \in 2 .. n + 1 : i - 1 \in 1 .. n /\ ps_listener'[i] = ps_listener[i - 1]
      BY <1>1, <3>1, NewTopic DEF Typed
    <3>4. \A i \in 1 .. n + 1 : i = 1 \/ i \in 2 .. n + 1
      BY <1>1
    <3>5. SubIdIsCurrent'
      BY <1>1, <3>1, <3>2, <3>3, <3>4 DEF SubInv, SubIdIsCurrent
    <3>6. QED BY <1>1, <3>2, <3>3, <3>5 DEF SubInv, Typed
  <2>3. QED BY <2>1, <2>2
<1>3. ASSUME NEW t \in Topics, NEW l \in Listeners, Unsubscribe(t, l)
      PROVE  SubInv'
  <2> DEFINE k == IndexOf(t)
  <2>1. k \in 1 .. n /\ MapOf(t) = ps_listener[k] /\ MapOf(t) \in Topic /\ given' = given
    BY <1>1, <1>3, UnsubscribeCase, KnownTopic DEF Typed
  <2>2. PICK ls \in Lists :
          ps_listener' = [ps_listener EXCEPT ![k] = [MapOf(t) EXCEPT !.listeners = ls]]
    <3>1. RemoveFirst(MapOf(t).listeners, l) \in Lists /\ <<>> \in Lists
      BY <2>1, RemoveSimple, SimpleEmpty DEF Topic, Lists, Simple
    <3>2. QED BY <1>1, <1>3, <3>1, UnsubscribeCase
  <2> DEFINE m == [MapOf(t) EXCEPT !.listeners = ls]
  <2>3. /\ m \in Topic /\ m.topic = MapOf(t).topic
        /\ m.subMsgId = MapOf(t).subMsgId /\ m.subId = MapOf(t).subId
    BY <2>1 DEF Topic
  <2>4. /\ msgId' \in Nat /\ net' \subseteq Message
        /\ \A r \in net' : r.kind = "reply" => Gift(r) \in given'
    <3>1. CASE UNCHANGED <<msgId, net>>
      BY <1>1, <2>1, <3>1 DEF Typed
    <3>2. CASE /\ msgId' = msgId + 1
               /\ Send([kind |-> "unsub", topic |-> t, id |-> msgId + 1,
                        subId |-> MapOf(t).subId])
      <4>1. [kind |-> "unsub", topic |-> t, id |-> msgId + 1, subId |-> MapOf(t).subId]
              \in Message
        BY <1>1, <2>1 DEF Message, Topic, Typed
      <4>2. msgId' \in Nat
        BY <1>1, <3>2 DEF Typed
      <4>3. QED BY <1>1, <2>1, <3>2, <4>1, <4>2, SendTyped
    <3>3. QED BY <1>1, <1>3, <3>1, <3>2, UnsubscribeCase
  <2> HIDE DEF k, m
  <2>5. /\ ps_listener' \in Seq(Topic) /\ DOMAIN ps_listener' = 1 .. n
        /\ \A i \in 1 .. n : ps_listener'[i] = IF i = k THEN m ELSE ps_listener[i]
    BY <1>1, <2>1, <2>2, <2>3, ReplaceTopic DEF Typed, m
  <2>6. SubIdIsCurrent'
    BY <1>1, <2>1, <2>3, <2>5 DEF SubInv, SubIdIsCurrent
  <2>7. QED BY <1>1, <2>1, <2>4, <2>5, <2>6 DEF SubInv, Typed
<1>4. CASE LoginResult
  <2>1. SubIdIsCurrent'
    BY <1>1, <1>4, LoginResultTyped DEF SubInv, SubIdIsCurrent
  <2>2. QED BY <1>1, <1>4, <2>1, LoginResultTyped DEF SubInv, Typed
<1>5. CASE Receive
  <2>1. SubIdIsCurrent'
    BY <1>1, <1>5, ReceiveTyped DEF SubInv, SubIdIsCurrent, Gift
  <2>2. QED BY <1>1, <1>5, <2>1, ReceiveTyped DEF SubInv, Typed
<1>6. CASE Login \/ Logout \/ Lose \/ Dispatch \/ ListenerReturns \/ UNCHANGED vars
  BY <1>1, <1>6, OtherSteps DEF SubInv, Typed, SubIdIsCurrent
<1>7. QED BY <1>2, <1>3, <1>4, <1>5, <1>6 DEF Next, ClientCall

LEMMA SubInit == Init => SubInv
<1> SUFFICES ASSUME Init PROVE SubInv
  OBVIOUS
<1>1. ps_listener = <<>> /\ msgId = 0 /\ net = {} /\ given = {}
  BY DEF Init
<1>2. QED BY <1>1, FS_EmptySet DEF SubInv, Typed, SubIdIsCurrent

LEMMA SubInvariant == Spec => []SubInv
BY SubInit, NextCurrent, PTL DEF Spec

(* Whatever is lost, late or repeated, the id of a topic is the one that   *)
(* the server gave to the last request of the topic.                       *)
THEOREM IdOfLastRequest == Spec => []SubIdIsCurrent
<1>1. SubInv => SubIdIsCurrent
  BY DEF SubInv
<1>2. QED BY <1>1, SubInvariant, PTL
-----------------------------------------------------------------------------
\* What the server holds and what is on its way: the server gives every id
\* once, to a request that was sent, and is only told to end what it gave.
ServerInv ==
  /\ given \subseteq [topic : Topics, id : 1 .. msgId, subId : 1 .. Cardinality(given)]
  /\ \A a, b \in given : a.subId = b.subId => a = b
  /\ server \subseteq given
  /\ \A m \in net : m.kind = "sub" => m.id \in 1 .. msgId
  /\ \A m \in net : m.kind = "unsub" => m.subId <= Cardinality(given)

\* Is the subscription of a topic needed, and what gives it?
Needed(m) == Forwarded(m) /\ m.topic \notin ended
OnItsWay(m) == \E r \in net : r.kind = "sub" /\ r.topic = m.topic /\ r.id = m.subMsgId
HeldFor(m) == \E s \in server : s.topic = m.topic /\ s.id = m.subMsgId

\* Whoever ends a subscription does not end one that is needed.
EndsNoNeeded ==
  \A r \in net, g \in given, i \in DOMAIN ps_listener :
    r.kind = "unsub" /\ g.subId = r.subId /\ Needed(ps_listener[i])
      => ~(g.topic = ps_listener[i].topic /\ g.id = ps_listener[i].subMsgId)

\* Every needed subscription is asked for or held.
NeededComes ==
  ~missed /\ loggedIn /\ ~loginResult =>
    \A i \in DOMAIN ps_listener :
      Needed(ps_listener[i]) => OnItsWay(ps_listener[i]) \/ HeldFor(ps_listener[i])

QuietInv == SubInv /\ ServerInv /\ EndsNoNeeded /\ NeededComes

\* What these facts ask of the list of topics.
SameRequests ==
  /\ DOMAIN ps_listener' = DOMAIN ps_listener
  /\ \A i \in DOMAIN ps_listener :
       /\ ps_listener'[i].topic = ps_listener[i].topic
       /\ ps_listener'[i].rm = ps_listener[i].rm
       /\ ps_listener'[i].subMsgId = ps_listener[i].subMsgId

\* A step that leaves the requests of the topics alone keeps the facts, when
\* it takes nothing from the net or the server, and sends nothing.
LEMMA SameNeeds ==
  ASSUME QuietInv, SameRequests, msgId' = msgId,
         UNCHANGED <<net, missed, server, given, loggedIn, ended>>,
         loginResult => loginResult'
  PROVE  ServerInv' /\ EndsNoNeeded' /\ NeededComes'
<1>1. ServerInv'
  BY DEF QuietInv, ServerInv
<1>2. EndsNoNeeded'
  BY DEF QuietInv, EndsNoNeeded, SameRequests, Needed, Forwarded
<1>3. NeededComes'
  BY DEF QuietInv, NeededComes, SameRequests, Needed, Forwarded, OnItsWay, HeldFor
<1>4. QED BY <1>1, <1>2, <1>3

\* The numbers of the requests of one login are those behind the last id.
LEMMA TurnRange ==
  ASSUME ps_listener \in Seq(Topic), NEW i \in Resubscribed
  PROVE  Turn(i) \in 1 .. Cardinality(Resubscribed)
<1> DEFINE S == {j \in Resubscribed : j <= i}
<1>1. /\ DOMAIN ps_listener = 1 .. Len(ps_listener) /\ Len(ps_listener) \in Nat
      /\ IsFiniteSet(DOMAIN ps_listener)
  BY LenProperties, FS_Interval
<1>2. IsFiniteSet(Resubscribed)
  BY <1>1, FS_Subset DEF Resubscribed
<1>3. i \in S
  BY <1>1 DEF Resubscribed
<1>4. IsFiniteSet(S) /\ Cardinality(S) <= Cardinality(Resubscribed)
  BY <1>2, FS_Subset
<1>5. Cardinality(S) \in Nat /\ Cardinality(S) # 0
  BY <1>3, <1>4, FS_CardinalityType, FS_EmptySet
<1>6. Cardinality(Resubscribed) \in Nat
  BY <1>2, FS_CardinalityType
<1>7. QED BY <1>4, <1>5, <1>6 DEF Turn

\* The actions that leave the requests of the topics alone.
LEMMA RequestsStay ==
  ASSUME SubInv,
         \/ \E t \in Topics, l \in Listeners, rm \in BOOLEAN : Known(t) /\ Subscribe(t, l, rm)
         \/ \E t \in Topics, l \in Listeners : Unsubscribe(t, l)
         \/ Login \/ Logout \/ Receive \/ Lose \/ Dispatch \/ ListenerReturns \/ UNCHANGED vars
  PROVE  SameRequests
<1>1. Typed /\ ps_listener \in Seq(Topic)
  BY DEF SubInv, Typed
<1>2. ASSUME NEW t \in Topics, NEW l \in Listeners, NEW rm \in BOOLEAN,
             Known(t), Subscribe(t, l, rm)
      PROVE  SameRequests
  <2> DEFINE m == AddListener(MapOf(t), l)
  <2>1. ps_listener' = [ps_listener EXCEPT ![IndexOf(t)] = m] /\ m \in Topic
    BY <1>1, <1>2, SubscribeKnown
  <2>2. /\ IndexOf(t) \in DOMAIN ps_listener
        /\ MapOf(t) = ps_listener[IndexOf(t)] /\ MapOf(t) \in Topic
    BY <1>1, <1>2, KnownTopic
  <2>3. m.topic = MapOf(t).topic /\ m.rm = MapOf(t).rm /\ m.subMsgId = MapOf(t).subMsgId
    BY <2>2 DEF AddListener, Topic
  <2> HIDE DEF m
  <2>4. QED BY <1>1, <2>1, <2>2, <2>3, ReplaceTopic DEF SameRequests
<1>3. ASSUME NEW t \in Topics, NEW l \in Listeners, Unsubscribe(t, l)
      PROVE  SameRequests
  <2>1. /\ IndexOf(t) \in DOMAIN ps_listener
        /\ MapOf(t) = ps_listener[IndexOf(t)] /\ MapOf(t) \in Topic
    BY <1>1, <1>3, UnsubscribeCase, KnownTopic
  <2>2. PICK ls \in Lists :
          ps_listener' = [ps_listener EXCEPT ![IndexOf(t)] = [MapOf(t) EXCEPT !.listeners = ls]]
    <3>1. RemoveFirst(MapOf(t).listeners, l) \in Lists /\ <<>> \in Lists
      BY <2>1, RemoveSimple, SimpleEmpty DEF Topic, Lists, Simple
    <3>2. QED BY <1>1, <1>3, <3>1, UnsubscribeCase
  <2> DEFINE m == [MapOf(t) EXCEPT !.listeners = ls]
  <2>3. m \in Topic /\ m.topic = MapOf(t).topic /\ m.rm = MapOf(t).rm
        /\ m.subMsgId = MapOf(t).subMsgId
    BY <2>1 DEF Topic
  <2> HIDE DEF m
  <2>4. ps_listener' = [ps_listener EXCEPT ![IndexOf(t)] = m]
    BY <2>2 DEF m
  <2>5. QED BY <1>1, <2>1, <2>3, <2>4, ReplaceTopic DEF SameRequests
<1>4. CASE Receive
  <2>1. PICK m \in net : Subscribed(m) \/ ServerSubscribes(m) \/ ServerUnsubscribes(m)
    BY <1>4 DEF Receive
  <2>2. CASE Subscribed(m)
    <3> DEFINE new(i) == IF ps_listener[i].topic = m.topic /\ ps_listener[i].subMsgId = m.id
                         THEN [ps_listener[i] EXCEPT !.subId = m.subId] ELSE ps_listener[i]
    <3>1. ps_listener' = [i \in DOMAIN ps_listener |-> new(i)]
      BY <2>2 DEF Subscribed
    <3>2. \A i \in DOMAIN ps_listener : ps_listener[i] \in Topic
      BY <1>1, LenProperties, ElementOfSeq
    <3>3. \A i \in DOMAIN ps_listener : /\ new(i).topic = ps_listener[i].topic
                                        /\ new(i).rm = ps_listener[i].rm
                                        /\ new(i).subMsgId = ps_listener[i].subMsgId
      BY <3>2 DEF Topic
    <3> HIDE DEF new
    <3>4. QED BY <3>1, <3>3 DEF SameRequests
  <2>3. CASE ServerSubscribes(m) \/ ServerUnsubscribes(m)
    BY <2>3 DEF ServerSubscribes, ServerUnsubscribes, SameRequests
  <2>4. QED BY <2>1, <2>2, <2>3
<1>5. CASE Login \/ Logout \/ Lose \/ Dispatch \/ ListenerReturns \/ UNCHANGED vars
  BY <1>5, OtherSteps DEF SameRequests
<1>6. QED BY <1>2, <1>3, <1>4, <1>5

\* A new topic: it is asked for at once when the client is logged in.
LEMMA NewTopicNeeds ==
  ASSUME QuietInv, NEW t \in Topics, NEW l \in Listeners, NEW rm \in BOOLEAN,
         Subscribe(t, l, rm), ~Known(t)
  PROVE  ServerInv' /\ EndsNoNeeded' /\ NeededComes'
<1> DEFINE n    == Len(ps_listener)
           new  == [topic |-> t, rm |-> rm, subMsgId |-> 0, subId |-> 0, listeners |-> <<l>>]
           send == rm /\ ~Known(t) /\ loggedIn
           m    == IF send THEN DoSubscribe(new, 1) ELSE new
<1>1. Typed /\ ps_listener \in Seq(Topic) /\ msgId \in Nat
  BY DEF QuietInv, SubInv, Typed
<1>2. /\ new \in Topic /\ new.topic = t /\ new.rm = rm /\ new.subMsgId = 0
      /\ SubRequest(new, 1) = [kind |-> "sub", topic |-> t, id |-> msgId + 1, subId |-> 0]
  <2>1. <<l>> \in Lists
    BY DEF Lists, IsInjective
  <2>2. QED BY <2>1 DEF Topic, SubRequest
<1>3. /\ m \in Topic /\ m.topic = t /\ m.rm = rm
      /\ m.subMsgId = IF send THEN msgId + 1 ELSE 0
  BY <1>1, <1>2, Requested DEF DoSubscribe, Topic
<1>4. /\ ps_listener' = <<m>> \o ps_listener
      /\ msgId' = IF send THEN msgId + 1 ELSE msgId
      /\ IF send THEN Send(SubRequest(new, 1)) ELSE UNCHANGED <<net, missed>>
      /\ UNCHANGED <<loggedIn, loginResult, server, given, ended>>
  BY DEF Subscribe
<1> HIDE DEF m, new
<1>5. /\ DOMAIN ps_listener = 1 .. n /\ DOMAIN ps_listener' = 1 .. n + 1 /\ n \in Nat
      /\ ps_listener'[1] = m
      /\ \A i \in 2 .. n + 1 : i - 1 \in 1 .. n /\ ps_listener'[i] = ps_listener[i - 1]
  BY <1>1, <1>3, <1>4, NewTopic, LenProperties
<1>6. \A i \in DOMAIN ps_listener' :
        ps_listener'[i] = m \/ \E k \in DOMAIN ps_listener : ps_listener'[i] = ps_listener[k]
  <2>1. \A i \in 1 .. n + 1 : i = 1 \/ i \in 2 .. n + 1
    BY <1>5
  <2>2. QED BY <1>5, <2>1
<1>7. /\ net \subseteq net' /\ net' \subseteq net \cup {SubRequest(new, 1)}
      /\ send /\ ~missed' => SubRequest(new, 1) \in net'
      /\ send \/ net' = net
      /\ missed => missed'
  BY <1>2, <1>4 DEF Send
<1>8. ServerInv'
  BY <1>1, <1>2, <1>4, <1>7 DEF QuietInv, ServerInv
<1>9. EndsNoNeeded'
  <2> SUFFICES ASSUME NEW r \in net', NEW g \in given, NEW i \in DOMAIN ps_listener',
                      r.kind = "unsub", g.subId = r.subId, Needed(ps_listener[i])'
               PROVE  ~(g.topic = ps_listener'[i].topic /\ g.id = ps_listener'[i].subMsgId)
    BY <1>4 DEF EndsNoNeeded
  <2>1. r \in net
    BY <1>2, <1>7
  <2>2. g.id \in 1 .. msgId
    BY DEF QuietInv, ServerInv
  <2>3. CASE ps_listener'[i] = m
    BY <1>1, <1>3, <2>2, <2>3
  <2>4. ASSUME NEW k \in DOMAIN ps_listener, ps_listener'[i] = ps_listener[k]
        PROVE  ~(g.topic = ps_listener'[i].topic /\ g.id = ps_listener'[i].subMsgId)
    <3>1. Needed(ps_listener[k])
      BY <1>4, <2>4 DEF Needed, Forwarded
    <3>2. QED BY <2>1, <2>4, <3>1 DEF QuietInv, EndsNoNeeded
  <2>5. QED BY <1>6, <2>3, <2>4
<1>10. NeededComes'
  <2> SUFFICES ASSUME ~missed', loggedIn, ~loginResult, NEW i \in DOMAIN ps_listener',
                      Needed(ps_listener[i])'
               PROVE  OnItsWay(ps_listener[i])' \/ HeldFor(ps_listener[i])'
    BY <1>4 DEF NeededComes
  <2>1. CASE ps_listener'[i] = m
    <3>1. send
      BY <1>3, <2>1 DEF Needed, Forwarded
    <3>2. SubRequest(new, 1) \in net' /\ m.subMsgId = msgId + 1
      BY <1>3, <1>7, <3>1
    <3>3. QED BY <1>2, <1>3, <2>1, <3>2 DEF OnItsWay
  <2>2. ASSUME NEW k \in DOMAIN ps_listener, ps_listener'[i] = ps_listener[k]
        PROVE  OnItsWay(ps_listener[i])' \/ HeldFor(ps_listener[i])'
    <3>1. Needed(ps_listener[k])
      BY <1>4, <2>2 DEF Needed, Forwarded
    <3>2. OnItsWay(ps_listener[k]) \/ HeldFor(ps_listener[k])
      BY <1>7, <3>1 DEF QuietInv, NeededComes
    <3>3. QED BY <1>4, <1>7, <2>2, <3>2 DEF OnItsWay, HeldFor
  <2>3. QED BY <1>6, <2>1, <2>2
<1>11. QED BY <1>8, <1>9, <1>10

\* The end of a subscription by its newest listener: it is not needed any more.
LEMMA NewestNeeds ==
  ASSUME QuietInv, NEW t \in Topics, NEW l \in Listeners, Unsubscribe(t, l),
         UnsubscribeNewest(t, l)
  PROVE  ServerInv' /\ EndsNoNeeded' /\ NeededComes'
<1> DEFINE u == [kind |-> "unsub", topic |-> t, id |-> msgId + 1, subId |-> MapOf(t).subId]
<1>1. Typed /\ ps_listener \in Seq(Topic) /\ msgId \in Nat
  BY DEF QuietInv, SubInv, Typed
<1>2. /\ SameRequests /\ msgId' = msgId + 1 /\ Send(u) /\ ended' = ended \cup {t}
      /\ UNCHANGED <<loggedIn, loginResult, server, given>>
  BY RequestsStay DEF QuietInv, UnsubscribeNewest
<1>3. /\ IndexOf(t) \in DOMAIN ps_listener /\ MapOf(t) = ps_listener[IndexOf(t)]
      /\ MapOf(t).topic = t /\ MapOf(t) \in Topic
  BY <1>1, UnsubscribeCase, KnownTopic
<1>4. MapOf(t).subId # 0 =>
        [topic |-> t, id |-> MapOf(t).subMsgId, subId |-> MapOf(t).subId] \in given
  BY <1>3 DEF QuietInv, SubInv, SubIdIsCurrent
<1>5. Cardinality(given) \in Nat
  BY <1>1, FS_CardinalityType DEF Typed
<1>6. /\ MapOf(t).subId <= Cardinality(given)
      /\ \A g \in given : g.subId = MapOf(t).subId => g.topic = t
  <2>1. CASE MapOf(t).subId = 0
    BY <1>5, <2>1 DEF QuietInv, ServerInv
  <2>2. CASE MapOf(t).subId # 0
    <3>1. PICK h \in given : h.topic = t /\ h.subId = MapOf(t).subId
      BY <1>4, <2>2
    <3>2. h.subId \in 1 .. Cardinality(given)
      BY DEF QuietInv, ServerInv
    <3>3. \A g \in given : g.subId = h.subId => g = h
      BY DEF QuietInv, ServerInv
    <3>4. QED BY <1>5, <3>1, <3>2, <3>3
  <2>3. QED BY <2>1, <2>2
<1>7. net' \subseteq net \cup {u} /\ net \subseteq net' /\ (missed => missed')
  <2>1. net' = net \cup {u} \/ net' = net
    BY <1>2 DEF Send
  <2>2. missed => missed'
    BY <1>2 DEF Send
  <2>3. QED BY <2>1, <2>2
<1>8. ServerInv'
  BY <1>1, <1>2, <1>6, <1>7 DEF QuietInv, ServerInv
<1>9. EndsNoNeeded'
  <2> SUFFICES ASSUME NEW r \in net', NEW g \in given, NEW i \in DOMAIN ps_listener,
                      r.kind = "unsub", g.subId = r.subId, Needed(ps_listener[i])',
                      g.topic = ps_listener'[i].topic, g.id = ps_listener'[i].subMsgId
               PROVE  FALSE
    BY <1>2 DEF EndsNoNeeded, SameRequests
  <2>1. ps_listener[i].topic # t /\ Needed(ps_listener[i]) /\ g.topic = ps_listener[i].topic
        /\ g.id = ps_listener[i].subMsgId
    BY <1>2 DEF SameRequests, Needed, Forwarded
  <2>2. CASE r = u
    BY <1>6, <2>1, <2>2
  <2>3. CASE r \in net
    BY <2>1, <2>3 DEF QuietInv, EndsNoNeeded
  <2>4. QED BY <1>7, <2>2, <2>3
<1>10. NeededComes'
  <2> SUFFICES ASSUME ~missed', loggedIn, ~loginResult, NEW i \in DOMAIN ps_listener,
                      Needed(ps_listener[i])'
               PROVE  OnItsWay(ps_listener[i])' \/ HeldFor(ps_listener[i])'
    BY <1>2 DEF NeededComes, SameRequests
  <2>1. Needed(ps_listener[i])
    BY <1>2 DEF SameRequests, Needed, Forwarded
  <2>2. OnItsWay(ps_listener[i]) \/ HeldFor(ps_listener[i])
    BY <1>7, <2>1 DEF QuietInv, NeededComes
  <2>3. QED BY <1>2, <1>7, <2>2 DEF SameRequests, OnItsWay, HeldFor
<1>11. QED BY <1>8, <1>9, <1>10

\* The requests of a login.
LEMMA LoginNeeds ==
  ASSUME QuietInv, LoginResult
  PROVE  ServerInv' /\ EndsNoNeeded' /\ NeededComes'
<1> DEFINE again  == IF loggedIn THEN Resubscribed ELSE {}
           req(i) == SubRequest(ps_listener[i], Turn(i))
           new(i) == IF i \in again THEN DoSubscribe(ps_listener[i], Turn(i))
                     ELSE ps_listener[i]
<1>1. Typed /\ ps_listener \in Seq(Topic) /\ msgId \in Nat
  BY DEF QuietInv, SubInv, Typed
<1>2. \A i \in DOMAIN ps_listener : ps_listener[i] \in Topic
  BY <1>1, LenProperties, ElementOfSeq
<1>3. Cardinality(again) \in Nat /\ \A i \in again : Turn(i) \in 1 .. Cardinality(again)
  BY <1>1, TurnType, TurnRange
<1>4. /\ again \subseteq DOMAIN ps_listener
      /\ \A i \in DOMAIN ps_listener : loggedIn /\ Forwarded(ps_listener[i]) => i \in again
  BY DEF Resubscribed
<1>5. /\ loginResult' = FALSE /\ msgId' = msgId + Cardinality(again)
      /\ ps_listener' = [i \in DOMAIN ps_listener |-> new(i)]
      /\ ended' = IF loggedIn /\ ~missed' THEN {} ELSE ended
      /\ UNCHANGED <<loggedIn, server, given>>
  BY DEF LoginResult
<1>6. PICK sent \in SUBSET again :
        /\ net' = net \cup {req(i) : i \in sent}
        /\ missed' = IF loggedIn THEN sent # again ELSE missed
  BY DEF LoginResult
<1>7. \A i \in again : /\ req(i).kind = "sub" /\ req(i).topic = ps_listener[i].topic
                       /\ req(i).id = msgId + Turn(i)
  BY DEF SubRequest
<1>8. \A i \in DOMAIN ps_listener :
        /\ new(i).topic = ps_listener[i].topic /\ new(i).rm = ps_listener[i].rm
        /\ new(i).subMsgId = IF i \in again THEN msgId + Turn(i) ELSE ps_listener[i].subMsgId
  BY <1>2 DEF DoSubscribe, Topic
<1> HIDE DEF again, req, new
<1>9. ServerInv'
  <2>1. \A m \in net' : m.kind = "sub" => m.id \in 1 .. msgId'
    BY <1>1, <1>3, <1>5, <1>6, <1>7 DEF QuietInv, ServerInv
  <2>2. \A m \in net' : m.kind = "unsub" => m \in net
    BY <1>6, <1>7
  <2>3. 1 .. msgId \subseteq 1 .. msgId'
    BY <1>1, <1>3, <1>5
  <2>4. given \subseteq [topic : Topics, id : 1 .. msgId', subId : 1 .. Cardinality(given)]
    BY <2>3 DEF QuietInv, ServerInv
  <2>5. QED BY <1>5, <2>1, <2>2, <2>4 DEF QuietInv, ServerInv
<1>10. EndsNoNeeded'
  <2> SUFFICES ASSUME NEW r \in net', NEW g \in given, NEW i \in DOMAIN ps_listener,
                      r.kind = "unsub", g.subId = r.subId, Needed(ps_listener[i])',
                      g.topic = new(i).topic, g.id = new(i).subMsgId
               PROVE  FALSE
    BY <1>5 DEF EndsNoNeeded
  <2>1. r \in net /\ g.id \in 1 .. msgId
    BY <1>6, <1>7 DEF QuietInv, ServerInv
  <2>2. i \notin again
    BY <1>1, <1>3, <1>8, <2>1
  <2>3. Forwarded(ps_listener[i])
    BY <1>5, <1>8 DEF Needed, Forwarded
  <2>4. ended' = ended
    BY <1>4, <1>5, <2>2, <2>3
  <2>5. Needed(ps_listener[i])
    BY <1>5, <1>8, <2>3, <2>4 DEF Needed
  <2>6. QED BY <1>8, <2>1, <2>2, <2>5 DEF QuietInv, EndsNoNeeded
<1>11. NeededComes'
  <2> SUFFICES ASSUME ~missed', loggedIn, NEW i \in DOMAIN ps_listener,
                      Needed(ps_listener[i])'
               PROVE  OnItsWay(ps_listener[i])'
    BY <1>5 DEF NeededComes
  <2>1. Forwarded(ps_listener[i])
    BY <1>5, <1>8 DEF Needed, Forwarded
  <2>2. i \in sent /\ i \in again
    BY <1>4, <1>6, <2>1
  <2>3. req(i) \in net' /\ ps_listener'[i] = new(i)
    BY <1>4, <1>5, <1>6, <2>2
  <2>4. QED BY <1>7, <1>8, <2>2, <2>3 DEF OnItsWay
<1>12. QED BY <1>9, <1>10, <1>11

\* A message arrives: an answer, a request that the server now holds, or the
\* end of a subscription that is not needed.
LEMMA ReceiveNeeds ==
  ASSUME QuietInv, Receive
  PROVE  ServerInv' /\ EndsNoNeeded' /\ NeededComes'
<1>1. Typed /\ msgId \in Nat /\ IsFiniteSet(given) /\ Cardinality(given) \in Nat
  BY FS_CardinalityType DEF QuietInv, SubInv, Typed
<1>2. SameRequests
  BY RequestsStay DEF QuietInv
<1>3. PICK m \in net : /\ Subscribed(m) \/ ServerSubscribes(m) \/ ServerUnsubscribes(m)
                       /\ \E left \in {net \ {m}, net} : net' = left \cup Answers(m)
                       /\ UNCHANGED <<missed, msgId, loggedIn, loginResult, ended>>
  BY DEF Receive
<1>4. m \in Message
  BY <1>1 DEF Typed
<1>5. \A r \in Answers(m) : r.kind = "reply"
  BY DEF Answers
<1>6. /\ \A r \in net' : r.kind # "reply" => r \in net
      /\ net \ {m} \subseteq net'
  BY <1>3, <1>5
<1>7. \A i \in DOMAIN ps_listener :
        /\ Needed(ps_listener[i])' => Needed(ps_listener[i])
        /\ ps_listener'[i].topic = ps_listener[i].topic
        /\ ps_listener'[i].subMsgId = ps_listener[i].subMsgId
  BY <1>2, <1>3 DEF SameRequests, Needed, Forwarded
<1>8. CASE Subscribed(m)
  <2>1. UNCHANGED <<server, given>> /\ m.kind = "reply"
    BY <1>8 DEF Subscribed
  <2>2. ServerInv'
    BY <1>3, <1>6, <2>1 DEF QuietInv, ServerInv
  <2>3. EndsNoNeeded'
    BY <1>2, <1>6, <1>7, <2>1 DEF QuietInv, EndsNoNeeded, SameRequests
  <2>4. ASSUME NEW i \in DOMAIN ps_listener, OnItsWay(ps_listener[i]) \/ HeldFor(ps_listener[i])
        PROVE  OnItsWay(ps_listener[i])' \/ HeldFor(ps_listener[i])'
    BY <1>6, <1>7, <2>1, <2>4 DEF OnItsWay, HeldFor
  <2>5. NeededComes'
    BY <1>2, <1>3, <1>7, <2>4 DEF QuietInv, NeededComes, SameRequests
  <2>6. QED BY <2>2, <2>3, <2>5
<1>9. CASE ServerSubscribes(m)
  <2> DEFINE n == Cardinality(given)
             s == [topic |-> m.topic, id |-> m.id, subId |-> n + 1]
  <2>1. server' = server \cup {s} /\ given' = given \cup {s} /\ m.kind = "sub"
    BY <1>9 DEF ServerSubscribes
  <2>2. given \subseteq [topic : Topics, id : 1 .. msgId, subId : 1 .. n]
    BY DEF QuietInv, ServerInv
  <2>3. s \notin given
    BY <1>1, <2>2
  <2>4. Cardinality(given') = n + 1
    BY <1>1, <2>1, <2>3, FS_AddElement
  <2>5. m.id \in 1 .. msgId /\ m.topic \in Topics
    BY <1>4, <2>1 DEF QuietInv, ServerInv, Message
  <2> HIDE DEF n
  <2>6. ServerInv'
    <3>1. given' \subseteq [topic : Topics, id : 1 .. msgId, subId : 1 .. n + 1]
      BY <1>1, <2>1, <2>2, <2>5 DEF n
    <3>2. \A a, b \in given' : a.subId = b.subId => a = b
      BY <1>1, <2>1, <2>2 DEF n, QuietInv, ServerInv
    <3>3. \A r \in net' : /\ r.kind = "sub" => r.id \in 1 .. msgId
                          /\ r.kind = "unsub" => r.subId <= n + 1
      BY <1>1, <1>4, <1>6 DEF n, QuietInv, ServerInv, Typed, Message
    <3>4. server' \subseteq given'
      BY <2>1 DEF QuietInv, ServerInv
    <3>5. QED BY <1>3, <2>4, <3>1, <3>2, <3>3, <3>4 DEF ServerInv
  <2>7. EndsNoNeeded'
    <3> SUFFICES ASSUME NEW r \in net', NEW g \in given', NEW i \in DOMAIN ps_listener,
                        r.kind = "unsub", g.subId = r.subId, Needed(ps_listener[i])
                 PROVE  ~(g.topic = ps_listener[i].topic /\ g.id = ps_listener[i].subMsgId)
      BY <1>2, <1>7 DEF EndsNoNeeded, SameRequests
    <3>1. r \in net /\ r.subId <= n /\ r.subId \in Nat
      BY <1>1, <1>6 DEF n, QuietInv, ServerInv, Typed, Message
    <3>2. g \in given
      BY <1>1, <2>1, <3>1 DEF n
    <3>3. QED BY <3>1, <3>2 DEF QuietInv, EndsNoNeeded
  <2>8. ASSUME NEW i \in DOMAIN ps_listener, OnItsWay(ps_listener[i]) \/ HeldFor(ps_listener[i])
        PROVE  OnItsWay(ps_listener[i])' \/ HeldFor(ps_listener[i])'
    <3>1. CASE m.topic = ps_listener[i].topic /\ m.id = ps_listener[i].subMsgId
      <4>1. s \in server' /\ s.topic = m.topic /\ s.id = m.id
        BY <2>1
      <4>2. QED BY <1>7, <3>1, <4>1 DEF HeldFor
    <3>2. CASE ~(m.topic = ps_listener[i].topic /\ m.id = ps_listener[i].subMsgId)
      BY <1>6, <1>7, <2>1, <2>8, <3>2 DEF OnItsWay, HeldFor
    <3>3. QED BY <3>1, <3>2
  <2>9. NeededComes'
    BY <1>2, <1>3, <1>7, <2>8 DEF QuietInv, NeededComes, SameRequests
  <2>10. QED BY <2>6, <2>7, <2>9
<1>10. CASE ServerUnsubscribes(m)
  <2>1. given' = given /\ server' = {s \in server : s.subId # m.subId} /\ m.kind = "unsub"
    BY <1>10 DEF ServerUnsubscribes
  <2>2. ServerInv'
    BY <1>3, <1>6, <2>1 DEF QuietInv, ServerInv
  <2>3. EndsNoNeeded'
    BY <1>2, <1>6, <1>7, <2>1 DEF QuietInv, EndsNoNeeded, SameRequests
  <2>4. ASSUME NEW i \in DOMAIN ps_listener, Needed(ps_listener[i]),
               OnItsWay(ps_listener[i]) \/ HeldFor(ps_listener[i])
        PROVE  OnItsWay(ps_listener[i])' \/ HeldFor(ps_listener[i])'
    <3>1. CASE OnItsWay(ps_listener[i])
      BY <1>6, <1>7, <2>1, <3>1 DEF OnItsWay
    <3>2. CASE HeldFor(ps_listener[i])
      <4>1. PICK s \in server : s.topic = ps_listener[i].topic /\ s.id = ps_listener[i].subMsgId
        BY <3>2 DEF HeldFor
      <4>2. s \in given
        BY DEF QuietInv, ServerInv
      <4>3. s.subId # m.subId
        BY <2>1, <2>4, <4>1, <4>2 DEF QuietInv, EndsNoNeeded
      <4>4. QED BY <1>7, <2>1, <4>1, <4>3 DEF HeldFor
    <3>3. QED BY <2>4, <3>1, <3>2
  <2>5. NeededComes'
    BY <1>2, <1>3, <1>7, <2>4 DEF QuietInv, NeededComes, SameRequests
  <2>6. QED BY <2>2, <2>3, <2>5
<1>11. QED BY <1>3, <1>8, <1>9, <1>10

LEMMA NextQuiet == QuietInv /\ SubInv' /\ [Next]_vars => QuietInv'
<1> SUFFICES ASSUME QuietInv, SubInv', [Next]_vars
             PROVE  ServerInv' /\ EndsNoNeeded' /\ NeededComes'
  BY DEF QuietInv
<1>1. SubInv
  BY DEF QuietInv
<1>2. ASSUME NEW t \in Topics, NEW l \in Listeners, NEW rm \in BOOLEAN, Subscribe(t, l, rm)
      PROVE  ServerInv' /\ EndsNoNeeded' /\ NeededComes'
  <2>1. CASE Known(t)
    <3>1. UNCHANGED <<net, missed, msgId, server, given, loggedIn, loginResult, ended>>
      BY <1>2, <2>1 DEF Subscribe
    <3>2. SameRequests
      BY <1>1, <1>2, <2>1, RequestsStay
    <3>3. QED BY <3>1, <3>2, SameNeeds
  <2>2. CASE ~Known(t)
    BY <1>2, <2>2, NewTopicNeeds
  <2>3. QED BY <2>1, <2>2
<1>3. ASSUME NEW t \in Topics, NEW l \in Listeners, Unsubscribe(t, l)
      PROVE  ServerInv' /\ EndsNoNeeded' /\ NeededComes'
  <2>1. CASE UnsubscribeOther(t, l)
    <3>1. UNCHANGED <<net, missed, msgId, server, given, loggedIn, loginResult, ended>>
      BY <2>1 DEF UnsubscribeOther, netVars
    <3>2. SameRequests
      BY <1>1, <1>3, RequestsStay
    <3>3. QED BY <3>1, <3>2, SameNeeds
  <2>2. CASE UnsubscribeNewest(t, l)
    BY <1>3, <2>2, NewestNeeds
  <2>3. QED BY <1>3, <2>1, <2>2 DEF Unsubscribe
<1>4. CASE Login \/ Logout
  <2>1. SameRequests /\ UNCHANGED <<net, missed, msgId, server, given, ended>>
    BY <1>1, <1>4, RequestsStay DEF Login, Logout, clientVars, netVars
  <2>2. loggedIn' => loginResult'
    BY <1>4 DEF Login, Logout
  <2>3. ServerInv' /\ EndsNoNeeded'
    BY <2>1 DEF QuietInv, ServerInv, EndsNoNeeded, SameRequests, Needed, Forwarded
  <2>4. QED BY <2>2, <2>3 DEF NeededComes
<1>5. CASE Lose
  <2>1. SameRequests /\ UNCHANGED <<msgId, server, given, loggedIn, ended>>
    BY <1>1, <1>5, RequestsStay DEF Lose, clientVars
  <2>2. \/ missed' = TRUE /\ net' = net
        \/ /\ loginResult' = loginResult
           /\ \E m \in net : net' = net \ {m} /\ missed' = (missed \/ m.kind = "sub")
    BY <1>5 DEF Lose
  <2>3. ServerInv' /\ EndsNoNeeded'
    BY <2>1, <2>2 DEF QuietInv, ServerInv, EndsNoNeeded, SameRequests, Needed, Forwarded
  <2>4. CASE missed'
    BY <2>3, <2>4 DEF NeededComes
  <2>5. ASSUME NEW m \in net, net' = net \ {m}, missed' = (missed \/ m.kind = "sub"), ~missed',
               loginResult' = loginResult
        PROVE  NeededComes'
    <3>1. ~missed /\ m.kind # "sub"
      BY <2>5
    <3>2. QED BY <2>1, <2>5, <3>1
              DEF QuietInv, NeededComes, SameRequests, Needed, Forwarded, OnItsWay, HeldFor
  <2>6. QED BY <2>2, <2>3, <2>4, <2>5
<1>6. CASE Dispatch \/ ListenerReturns \/ UNCHANGED vars
  <2>1. UNCHANGED <<net, missed, msgId, server, given, loggedIn, loginResult, ended>>
    BY <1>6 DEF Dispatch, ListenerReturns, vars, clientVars, netVars
  <2>2. QED BY <1>1, <1>6, <2>1, RequestsStay, SameNeeds
<1>7. CASE LoginResult
  BY <1>7, LoginNeeds
<1>8. CASE Receive
  BY <1>8, ReceiveNeeds
<1>9. QED BY <1>2, <1>3, <1>4, <1>5, <1>6, <1>7, <1>8 DEF Next, ClientCall

(* Whatever was lost, late, repeated or ended before: once the client is   *)
(* logged in and no request is on its way, the server holds a subscription *)
(* of every forwarded topic that was not ended since the last login that   *)
(* subscribed all of them, if no request was lost since then               *)
(* (_c_subTopicAfterjmLogin heals).                                        *)
THEOREM LoginHeals == Spec => []SubscribedWhenQuiet
<1>1. Init => ServerInv /\ EndsNoNeeded /\ NeededComes
  <2> SUFFICES ASSUME Init PROVE ServerInv /\ EndsNoNeeded /\ NeededComes
    OBVIOUS
  <2>1. loggedIn = FALSE /\ net = {} /\ server = {} /\ given = {}
    BY DEF Init
  <2>2. QED BY <2>1 DEF ServerInv, EndsNoNeeded, NeededComes
<1>2. Init => SubInv
  BY SubInit
<1>3. QuietInv => SubscribedWhenQuiet
  BY DEF QuietInv, NeededComes, SubscribedWhenQuiet, Needed, OnItsWay, HeldFor
<1>4. Init => QuietInv
  BY <1>1, <1>2 DEF QuietInv
<1>5. QED BY <1>3, <1>4, NextQuiet, SubInvariant, PTL DEF Spec
-----------------------------------------------------------------------------
\* The listeners of a topic are those that want it, as ListenersAreWanted says.
Kept(m) ==
  /\ ToSet(m.listeners) \subseteq wanted[m.topic]
  /\ m.topic \notin dropped => ToSet(m.listeners) = wanted[m.topic]

(* A topic stands in the list once, and stays there; what is not there has *)
(* never been subscribed.                                                  *)
WantInv ==
  /\ wanted \in [Topics -> SUBSET Listeners]
  /\ \A i, j \in DOMAIN ps_listener : ps_listener[i].topic = ps_listener[j].topic => i = j
  /\ \A i \in DOMAIN ps_listener : Kept(ps_listener[i])
  /\ \A t \in Topics : ~Known(t) => wanted[t] = {}

\* A step that changes nothing of the topics and the listeners.
LEMMA SameListeners ==
  ASSUME WantInv, UNCHANGED <<wanted, dropped>>, DOMAIN ps_listener' = DOMAIN ps_listener,
         \A i \in DOMAIN ps_listener : /\ ps_listener'[i].topic = ps_listener[i].topic
                                       /\ ps_listener'[i].listeners = ps_listener[i].listeners
  PROVE  WantInv'
BY DEF WantInv, Kept, Known

\* A step that changes the listeners of one topic.
LEMMA OtherListeners ==
  ASSUME Typed, WantInv, NEW t \in Topics, Known(t), NEW m \in Topic, m.topic = t,
         ps_listener' = [ps_listener EXCEPT ![IndexOf(t)] = m],
         NEW W \in SUBSET Listeners, wanted' = [wanted EXCEPT ![t] = W],
         dropped \subseteq dropped', dropped' \subseteq dropped \cup {t},
         ToSet(m.listeners) \subseteq W,
         t \notin dropped' => ToSet(m.listeners) = W
  PROVE  WantInv'
<1> DEFINE k == IndexOf(t)
<1>1. k \in DOMAIN ps_listener /\ ps_listener[k].topic = t
  BY KnownTopic DEF Typed
<1>2. /\ DOMAIN ps_listener' = DOMAIN ps_listener
      /\ \A i \in DOMAIN ps_listener : ps_listener'[i] = IF i = k THEN m ELSE ps_listener[i]
  BY <1>1, ReplaceTopic DEF Typed
<1> HIDE DEF k
<1>3. /\ wanted' \in [Topics -> SUBSET Listeners] /\ wanted'[t] = W
      /\ \A u \in Topics : u # t => wanted'[u] = wanted[u]
  BY DEF WantInv
<1>4. \A i \in DOMAIN ps_listener : /\ ps_listener[i].topic \in Topics
                                    /\ ps_listener'[i].topic = ps_listener[i].topic
  <2>1. \A i \in DOMAIN ps_listener : ps_listener[i] \in Topic
    BY LenProperties, ElementOfSeq DEF Typed
  <2>2. QED BY <1>1, <1>2, <2>1 DEF Topic
<1>5. ASSUME NEW i \in DOMAIN ps_listener
      PROVE  Kept(ps_listener[i])'
  <2>1. CASE i = k
    BY <1>2, <1>3, <2>1 DEF Kept
  <2>2. CASE i # k
    <3>1. ps_listener[i].topic # t /\ Kept(ps_listener[i])
      BY <1>1, <2>2 DEF WantInv
    <3>2. ps_listener'[i] = ps_listener[i]
      BY <1>2, <2>2
    <3>3. QED BY <1>3, <1>4, <3>1, <3>2 DEF Kept
  <2>3. QED BY <2>1, <2>2
<1>6. ASSUME NEW u \in Topics, ~Known(u)'
      PROVE  wanted'[u] = {}
  <2>1. ~Known(u) /\ u # t
    BY <1>1, <1>2, <1>4, <1>6 DEF Known
  <2>2. QED BY <1>3, <2>1 DEF WantInv
<1>7. QED BY <1>2, <1>3, <1>4, <1>5, <1>6 DEF WantInv

\* When the newest listener takes no other one along, nobody is left.
LEMMA NewestLeaves ==
  ASSUME Typed, WantInv, NEW t \in Topics, NEW l \in Listeners, Known(t),
         UnsubscribeNewest(t, l), t \notin dropped'
  PROVE  wanted[t] \ {l} = {}
<1> DEFINE ls == MapOf(t).listeners
<1>1. /\ MapOf(t) \in Topic /\ MapOf(t).topic = t /\ Kept(MapOf(t))
      /\ Simple(ls, Listeners) /\ ListenersOf(t) = ls
  BY KnownTopic DEF Typed, WantInv, Topic, Lists, Simple, ListenersOf
<1> HIDE DEF ls
<1>2. /\ dropped' = IF Len(ls) > 1 THEN dropped \cup {t} ELSE dropped
      /\ ls # <<>> /\ l = Head(ls)
  BY <1>1 DEF UnsubscribeNewest
<1> DEFINE c == Len(ls)
<1>3. c \in Nat /\ c # 0 /\ ~(c > 1) /\ t \notin dropped
  BY <1>1, <1>2, LenProperties, EmptySeq DEF Simple
<1> HIDE DEF c
<1>4. c = 1
  BY <1>3
<1>5. DOMAIN ls = {1} /\ Head(ls) = ls[1]
  BY <1>1, <1>2, <1>4, LenProperties, HeadTailProperties DEF Simple, c
<1>6. ToSet(ls) = {l}
  BY <1>2, <1>5 DEF ToSet
<1>7. ToSet(ls) = wanted[t]
  BY <1>1, <1>3 DEF Kept, ls
<1>8. QED BY <1>6, <1>7

LEMMA NextWanted == Typed /\ WantInv /\ [Next]_vars => WantInv'
<1> SUFFICES ASSUME Typed, WantInv, [Next]_vars PROVE WantInv'
  OBVIOUS
<1> DEFINE n == Len(ps_listener)
<1>1. n \in Nat /\ DOMAIN ps_listener = 1 .. n /\ \A i \in 1 .. n : ps_listener[i] \in Topic
  BY LenProperties, ElementOfSeq DEF Typed
<1>2. ASSUME NEW t \in Topics, NEW l \in Listeners, NEW rm \in BOOLEAN, Subscribe(t, l, rm)
      PROVE  WantInv'
  <2>1. wanted' = [wanted EXCEPT ![t] = wanted[t] \cup {l}] /\ dropped' = dropped
    BY <1>2 DEF Subscribe
  <2>2. wanted[t] \subseteq Listeners
    BY DEF WantInv
  <2>3. CASE Known(t)
    <3> DEFINE m == AddListener(MapOf(t), l)
    <3>1. ps_listener' = [ps_listener EXCEPT ![IndexOf(t)] = m] /\ m \in Topic
      BY <1>2, <2>3, SubscribeKnown
    <3>2. MapOf(t) \in Topic /\ MapOf(t).topic = t /\ Kept(MapOf(t))
      BY <2>3, KnownTopic DEF Typed, WantInv
    <3>3. m.topic = t /\ ToSet(m.listeners) = ToSet(MapOf(t).listeners) \cup {l}
      <4>1. CASE l \in ToSet(MapOf(t).listeners)
        BY <3>2, <4>1 DEF AddListener
      <4>2. CASE l \notin ToSet(MapOf(t).listeners)
        <5>1. Simple(MapOf(t).listeners, Listeners)
          BY <3>2 DEF Topic, Lists, Simple
        <5>2. ToSet(<<l>> \o MapOf(t).listeners) = {l} \cup ToSet(MapOf(t).listeners)
          BY <4>2, <5>1, PrependSimple
        <5>3. QED BY <3>2, <4>2, <5>2 DEF AddListener, Topic
      <4>3. QED BY <4>1, <4>2
    <3> HIDE DEF m
    <3> DEFINE W == wanted[t] \cup {l}
    <3>4. W \in SUBSET Listeners /\ wanted' = [wanted EXCEPT ![t] = W]
      BY <2>1, <2>2
    <3>5. ToSet(m.listeners) \subseteq W /\ (t \notin dropped' => ToSet(m.listeners) = W)
      BY <2>1, <3>2, <3>3 DEF Kept
    <3>6. dropped \subseteq dropped' /\ dropped' \subseteq dropped \cup {t}
      BY <2>1
    <3> HIDE DEF W
    <3>7. QED BY <2>3, <3>1, <3>3, <3>4, <3>5, <3>6, OtherListeners
  <2>4. CASE ~Known(t)
    <3>1. PICK m \in Topic : /\ m.topic = t /\ m.listeners = <<l>>
                             /\ ps_listener' = <<m>> \o ps_listener
      BY <1>2, <2>4, SubscribeNew
    <3>2. /\ DOMAIN ps_listener' = 1 .. n + 1 /\ ps_listener'[1] = m
          /\ \A i \in 2 .. n + 1 : i - 1 \in 1 .. n /\ ps_listener'[i] = ps_listener[i - 1]
      BY <1>1, <3>1, NewTopic DEF Typed
    <3>3. ToSet(<<l>>) = {l} /\ wanted[t] = {}
      BY <2>4 DEF ToSet, WantInv
    <3>4. /\ wanted' \in [Topics -> SUBSET Listeners] /\ wanted'[t] = {l}
          /\ \A u \in Topics : u # t => wanted'[u] = wanted[u]
      BY <2>1, <3>3 DEF WantInv
    <3>5. \A i \in 1 .. n : ps_listener[i].topic # t /\ ps_listener[i].topic \in Topics
      BY <1>1, <2>4 DEF Known, Topic
    <3>6. \A i \in 1 .. n + 1 : i = 1 \/ i \in 2 .. n + 1
      BY <1>1
    <3>7. ASSUME NEW i \in 1 .. n + 1
          PROVE  Kept(ps_listener[i])'
      <4>1. CASE i = 1
        BY <3>1, <3>2, <3>3, <3>4, <4>1 DEF Kept
      <4>2. CASE i \in 2 .. n + 1
        <5>1. Kept(ps_listener[i - 1]) /\ ps_listener'[i] = ps_listener[i - 1]
          BY <1>1, <3>2, <4>2 DEF WantInv
        <5>2. wanted'[ps_listener'[i].topic] = wanted[ps_listener'[i].topic]
          BY <3>2, <3>4, <3>5, <4>2
        <5>3. QED BY <2>1, <5>1, <5>2 DEF Kept
      <4>3. QED BY <3>6, <4>1, <4>2
    <3>8. ASSUME NEW i \in 1 .. n + 1, NEW j \in 1 .. n + 1,
                 ps_listener'[i].topic = ps_listener'[j].topic
          PROVE  i = j
      <4>1. CASE i = 1 \/ j = 1
        BY <3>1, <3>2, <3>5, <3>6, <3>8, <4>1
      <4>2. CASE i \in 2 .. n + 1 /\ j \in 2 .. n + 1
        <5>1. i - 1 = j - 1
          BY <1>1, <3>2, <3>8, <4>2 DEF WantInv
        <5>2. QED BY <1>1, <5>1
      <4>3. QED BY <3>6, <4>1, <4>2
    <3>9. ASSUME NEW u \in Topics, ~Known(u)'
          PROVE  wanted'[u] = {}
      <4>1. u # t
        BY <1>1, <3>1, <3>2, <3>9 DEF Known
      <4>2. \A i \in 1 .. n : i + 1 \in 2 .. n + 1 /\ i + 1 \in 1 .. n + 1 /\ (i + 1) - 1 = i
        BY <1>1
      <4>3. ASSUME NEW i \in 1 .. n, ps_listener[i].topic = u PROVE FALSE
        <5>1. i + 1 \in DOMAIN ps_listener' /\ ps_listener'[i + 1].topic = u
          BY <3>2, <4>2, <4>3
        <5>2. QED BY <3>9, <5>1 DEF Known
      <4>4. ~Known(u)
        BY <1>1, <4>3 DEF Known
      <4>5. QED BY <3>4, <4>1, <4>4 DEF WantInv
    <3>10. QED BY <3>2, <3>4, <3>7, <3>8, <3>9 DEF WantInv
  <2>5. QED BY <2>3, <2>4
<1>3. ASSUME NEW t \in Topics, NEW l \in Listeners, Unsubscribe(t, l)
      PROVE  WantInv'
  <2> DEFINE ls == MapOf(t).listeners
             W  == wanted[t] \ {l}
  <2>1. Known(t)
    BY <1>3, UnsubscribeCase
  <2>2. MapOf(t) \in Topic /\ MapOf(t).topic = t /\ Kept(MapOf(t)) /\ Simple(ls, Listeners)
    BY <2>1, KnownTopic DEF Typed, WantInv, Topic, Lists, Simple
  <2>3. W \subseteq Listeners /\ ListenersOf(t) = ls
    BY <2>1 DEF WantInv, ListenersOf
  <2> HIDE DEF ls
  <2>4. CASE /\ UnsubscribeOther(t, l)
             /\ ps_listener' = [ps_listener EXCEPT ![IndexOf(t)] =
                  [MapOf(t) EXCEPT !.listeners = RemoveFirst(MapOf(t).listeners, l)]]
    <3> DEFINE m == [MapOf(t) EXCEPT !.listeners = RemoveFirst(ls, l)]
    <3>1. Simple(RemoveFirst(ls, l), Listeners) /\ ToSet(RemoveFirst(ls, l)) = ToSet(ls) \ {l}
      BY <2>2, RemoveSimple
    <3>2. m \in Topic /\ m.topic = t /\ m.listeners = RemoveFirst(ls, l)
      BY <2>2, <3>1 DEF Topic, Lists, Simple
    <3>3. wanted' = [wanted EXCEPT ![t] = W] /\ dropped' = dropped
      BY <2>4 DEF UnsubscribeOther
    <3>4. ps_listener' = [ps_listener EXCEPT ![IndexOf(t)] = m]
      BY <2>4 DEF ls
    <3>5. ToSet(m.listeners) \subseteq W /\ (t \notin dropped' => ToSet(m.listeners) = W)
      BY <2>2, <3>1, <3>2, <3>3 DEF Kept, ls
    <3> HIDE DEF m, W
    <3>6. QED BY <2>1, <2>3, <3>2, <3>3, <3>4, <3>5, OtherListeners
  <2>5. CASE /\ UnsubscribeNewest(t, l)
             /\ ps_listener' = [ps_listener EXCEPT ![IndexOf(t)] =
                  [MapOf(t) EXCEPT !.listeners = <<>>]]
    <3> DEFINE m == [MapOf(t) EXCEPT !.listeners = <<>>]
    <3>1. m \in Topic /\ m.topic = t /\ ToSet(m.listeners) = {}
      BY <2>2, SimpleEmpty DEF Topic, Lists, Simple
    <3>2. /\ wanted' = [wanted EXCEPT ![t] = W]
          /\ dropped' = IF Len(ls) > 1 THEN dropped \cup {t} ELSE dropped
          /\ ls # <<>> /\ l = Head(ls)
      BY <2>3, <2>5 DEF UnsubscribeNewest
    <3>3. t \notin dropped' => W = {}
      BY <2>1, <2>5, NewestLeaves
    <3>4. ps_listener' = [ps_listener EXCEPT ![IndexOf(t)] = m]
      BY <2>5
    <3>5. dropped \subseteq dropped' /\ dropped' \subseteq dropped \cup {t}
      BY <3>2
    <3> HIDE DEF m, W
    <3>6. QED BY <2>1, <2>3, <3>1, <3>2, <3>3, <3>4, <3>5, OtherListeners
  <2>6. QED BY <1>3, <2>4, <2>5, UnsubscribeCase
<1>4. CASE LoginResult
  <2>1. UNCHANGED <<wanted, dropped>>
    BY <1>4 DEF LoginResult
  <2>2. QED BY <1>4, <2>1, LoginResultTyped, SameListeners
<1>5. CASE Receive
  <2>1. UNCHANGED <<wanted, dropped>>
    BY <1>5 DEF Receive
  <2>2. QED BY <1>5, <2>1, ReceiveTyped, SameListeners
<1>6. CASE Login \/ Logout \/ Lose \/ Dispatch \/ ListenerReturns \/ UNCHANGED vars
  BY <1>6, OtherSteps, SameListeners
<1>7. QED BY <1>2, <1>3, <1>4, <1>5, <1>6 DEF Next, ClientCall

LEMMA WantInvariant == Spec => [](Typed /\ WantInv)
<1>1. Init => WantInv
  <2> SUFFICES ASSUME Init PROVE WantInv
    OBVIOUS
  <2>1. ps_listener = <<>> /\ wanted = [t \in Topics |-> {}]
    BY DEF Init
  <2>2. QED BY <2>1 DEF WantInv
<1>2. SubInv => Typed
  BY DEF SubInv
<1>3. QED BY <1>1, <1>2, SubInvariant, NextWanted, PTL DEF Spec

LEMMA WantedListed ==
  ASSUME Typed, WantInv, NEW t \in Topics
  PROVE  /\ Simple(ListenersOf(t), Listeners)
         /\ ToSet(ListenersOf(t)) \subseteq wanted[t]
         /\ t \notin dropped => ToSet(ListenersOf(t)) = wanted[t]
<1>1. CASE Known(t)
  <2>1. MapOf(t) \in Topic /\ MapOf(t).topic = t /\ Kept(MapOf(t))
    BY <1>1, KnownTopic DEF Typed, WantInv
  <2>2. QED BY <1>1, <2>1 DEF ListenersOf, Kept, Topic, Lists, Simple
<1>2. CASE ~Known(t)
  <2>1. ListenersOf(t) = <<>> /\ wanted[t] = {}
    BY <1>2 DEF ListenersOf, WantInv
  <2>2. QED BY <2>1, SimpleEmpty
<1>3. QED BY <1>1, <1>2

(* The listeners of every topic are those that subscribed to it and did    *)
(* not unsubscribe, each once, until the newest of several unsubscribes.   *)
THEOREM OnlyTheWanted == Spec => []ListenersAreWanted
<1>1. Typed /\ WantInv => ListenersAreWanted
  BY WantedListed DEF ListenersAreWanted, Simple
<1>2. QED BY <1>1, WantInvariant, PTL
-----------------------------------------------------------------------------
\* What the dispatch of an item has done and has still to do: its listeners
\* want it while they are linked, and later the topic has lost listeners
\* unless the last one is being called.
Pass == [topic : Topics \cup {P2P}, start : SUBSET Listeners, rest : Lists,
         called : Lists, linked : BOOLEAN]
PassInv ==
  /\ pass \in Pass
  /\ InCallback =>
       /\ pass.topic \in Topics
       /\ ToSet(Tail(pass.rest)) \cap ToSet(pass.called) = {}
       /\ pass.start \subseteq ToSet(pass.called) \cup ToSet(Tail(pass.rest))
       /\ pass.linked => ToSet(pass.rest) \subseteq wanted[pass.topic]
       /\ ~pass.linked => pass.topic \in dropped \/ Tail(pass.rest) = <<>>

LEMMA PassLists ==
  ASSUME PassInv
  PROVE  /\ Simple(pass.rest, Listeners) /\ Simple(pass.called, Listeners)
         /\ InCallback =>
              /\ Simple(Tail(pass.rest), Listeners) /\ Head(pass.rest) \in Listeners
              /\ ToSet(pass.rest) = {Head(pass.rest)} \cup ToSet(Tail(pass.rest))
              /\ Head(pass.rest) \notin ToSet(Tail(pass.rest))
<1>1. Simple(pass.rest, Listeners) /\ Simple(pass.called, Listeners)
  BY DEF PassInv, Pass, Lists, Simple
<1>2. QED BY <1>1, TailSimple DEF InCallback

\* A listener that unsubscribes is taken out of the dispatch behind the one
\* that is being called.
LEMMA UnlinkPass ==
  ASSUME PassInv, NEW t \in Topics, NEW l \in Listeners, Unsubscribe(t, l),
         UnsubscribeOther(t, l), pass.topic = t, pass.linked
  PROVE  /\ pass' = [pass EXCEPT !.rest = RemoveFirst(pass.rest, l), !.start = pass.start \ {l}]
         /\ Simple(pass'.rest, Listeners) /\ ToSet(pass'.rest) = ToSet(pass.rest) \ {l}
         /\ InCallback' <=> InCallback
         /\ InCallback => l # Head(pass.rest) /\ Head(pass'.rest) = Head(pass.rest)
<1>1. pass' = [pass EXCEPT !.rest = RemoveFirst(pass.rest, l), !.start = pass.start \ {l}]
  BY DEF UnsubscribeOther
<1>2. pass'.rest = RemoveFirst(pass.rest, l)
  BY <1>1 DEF PassInv, Pass
<1>3. InCallback => l # Head(pass.rest)
  BY DEF Unsubscribe
<1>4. /\ Simple(pass'.rest, Listeners) /\ ToSet(pass'.rest) = ToSet(pass.rest) \ {l}
      /\ InCallback => pass'.rest # <<>> /\ Head(pass'.rest) = Head(pass.rest)
  BY <1>2, <1>3, PassLists, RemoveSimple DEF InCallback
<1>5. ASSUME ~InCallback PROVE ~InCallback'
  <2>1. ToSet(pass'.rest) = {}
    BY <1>4, <1>5, SimpleEmpty DEF InCallback
  <2>2. CASE pass'.rest # <<>>
    <3>1. ToSet(pass'.rest) = {Head(pass'.rest)} \cup ToSet(Tail(pass'.rest))
      BY <1>4, <2>2, TailSimple
    <3>2. QED BY <2>1, <3>1
  <2>3. QED BY <2>2 DEF InCallback
<1>6. QED BY <1>1, <1>3, <1>4, <1>5 DEF InCallback

LEMMA NextPass == Typed /\ WantInv /\ PassInv /\ [Next]_vars => PassInv'
<1> SUFFICES ASSUME Typed, WantInv, PassInv, [Next]_vars PROVE PassInv'
  OBVIOUS
<1>1. ASSUME NEW t \in Topics, NEW l \in Listeners, NEW rm \in BOOLEAN, Subscribe(t, l, rm)
      PROVE  PassInv'
  <2>1. UNCHANGED <<pass, dropped>> /\ wanted' = [wanted EXCEPT ![t] = wanted[t] \cup {l}]
    BY <1>1 DEF Subscribe
  <2>2. \A u \in Topics : wanted[u] \subseteq wanted'[u]
    BY <2>1 DEF WantInv
  <2>3. QED BY <2>1, <2>2 DEF PassInv, InCallback
<1>2. ASSUME NEW t \in Topics, NEW l \in Listeners, Unsubscribe(t, l), UnsubscribeOther(t, l)
      PROVE  PassInv'
  <2>1. dropped' = dropped /\ wanted' = [wanted EXCEPT ![t] = wanted[t] \ {l}]
    BY <1>2 DEF UnsubscribeOther
  <2>2. \A u \in Topics : wanted'[u] = IF u = t THEN wanted[u] \ {l} ELSE wanted[u]
    BY <2>1 DEF WantInv
  <2>3. CASE ~(pass.topic = t /\ pass.linked)
    <3>1. pass' = pass
      BY <1>2, <2>3 DEF UnsubscribeOther
    <3>2. QED BY <2>1, <2>2, <2>3, <3>1 DEF PassInv, InCallback
  <2>4. CASE pass.topic = t /\ pass.linked
    <3>1. /\ pass' = [pass EXCEPT !.rest = RemoveFirst(pass.rest, l), !.start = pass.start \ {l}]
          /\ Simple(pass'.rest, Listeners) /\ ToSet(pass'.rest) = ToSet(pass.rest) \ {l}
          /\ InCallback' <=> InCallback
          /\ InCallback => l # Head(pass.rest) /\ Head(pass'.rest) = Head(pass.rest)
      BY <1>2, <2>4, UnlinkPass
    <3>2. /\ UNCHANGED <<pass.topic, pass.called, pass.linked>>
          /\ pass'.start = pass.start \ {l}
      BY <3>1 DEF PassInv, Pass
    <3>3. pass' \in Pass
      BY <3>1, <3>2 DEF PassInv, Pass, Simple, Lists
    <3>4. ASSUME InCallback'
          PROVE  ToSet(Tail(pass'.rest)) = ToSet(Tail(pass.rest)) \ {l}
      <4>1. /\ ToSet(pass'.rest) = {Head(pass'.rest)} \cup ToSet(Tail(pass'.rest))
            /\ Head(pass'.rest) \notin ToSet(Tail(pass'.rest))
        BY <3>1, <3>4, TailSimple DEF InCallback
      <4>2. QED BY <3>1, <3>4, <4>1, PassLists
    <3>5. ASSUME InCallback'
          PROVE  /\ pass'.topic \in Topics
                 /\ ToSet(Tail(pass'.rest)) \cap ToSet(pass'.called) = {}
                 /\ pass'.start \subseteq ToSet(pass'.called) \cup ToSet(Tail(pass'.rest))
                 /\ ToSet(pass'.rest) \subseteq wanted'[pass'.topic]
      BY <2>2, <2>4, <3>1, <3>2, <3>4, <3>5 DEF PassInv
    <3>6. QED BY <2>4, <3>2, <3>3, <3>5 DEF PassInv
  <2>5. QED BY <2>3, <2>4
<1>3. ASSUME NEW t \in Topics, NEW l \in Listeners, Unsubscribe(t, l), UnsubscribeNewest(t, l)
      PROVE  PassInv'
  <2>1. /\ wanted' = [wanted EXCEPT ![t] = wanted[t] \ {l}]
        /\ dropped \subseteq dropped'
    BY <1>3 DEF UnsubscribeNewest
  <2>2. \A u \in Topics : u # t => wanted'[u] = wanted[u]
    BY <2>1 DEF WantInv
  <2>3. CASE pass.topic # t
    <3>1. pass' = pass
      BY <1>3, <2>3 DEF UnsubscribeNewest
    <3>2. QED BY <2>1, <2>2, <2>3, <3>1 DEF PassInv, InCallback
  <2>4. CASE pass.topic = t
    <3>1. pass' = [pass EXCEPT !.linked = FALSE, !.start = pass.start \ {l}]
      BY <1>3, <2>4 DEF UnsubscribeNewest
    <3>2. /\ pass' \in Pass /\ UNCHANGED <<pass.topic, pass.rest, pass.called>>
          /\ pass'.start = pass.start \ {l} /\ pass'.linked = FALSE
      BY <3>1 DEF PassInv, Pass
    <3>3. ASSUME InCallback, t \notin dropped' PROVE Tail(pass.rest) = <<>>
      <4>1. CASE ~pass.linked
        BY <2>1, <2>4, <3>3, <4>1 DEF PassInv
      <4>2. CASE pass.linked
        <5>1. wanted[t] \ {l} = {}
          BY <1>3, <3>3, NewestLeaves, UnsubscribeCase
        <5>2. ToSet(pass.rest) \subseteq {l}
          BY <2>4, <3>3, <4>2, <5>1 DEF PassInv
        <5>3. Head(pass.rest) # l /\ Head(pass.rest) \in ToSet(pass.rest)
          BY <1>3, <2>4, <3>3, PassLists DEF Unsubscribe
        <5>4. QED BY <5>2, <5>3
      <4>3. QED BY <4>1, <4>2
    <3>4. QED BY <2>4, <3>2, <3>3 DEF PassInv, InCallback
  <2>5. QED BY <2>3, <2>4
<1>4. CASE Dispatch
  <2>1. PICK t \in Topics :
          /\ ListenersOf(t) # <<>> /\ UNCHANGED <<wanted, dropped>>
          /\ pass' = [topic |-> t, start |-> ToSet(ListenersOf(t)), rest |-> ListenersOf(t),
                      called |-> <<Head(ListenersOf(t))>>, linked |-> TRUE]
    BY <1>4 DEF Dispatch
  <2> DEFINE ls == ListenersOf(t)
  <2>2. Simple(ls, Listeners) /\ ToSet(ls) \subseteq wanted[t]
    BY WantedListed
  <2>3. /\ ToSet(ls) = {Head(ls)} \cup ToSet(Tail(ls)) /\ Head(ls) \notin ToSet(Tail(ls))
        /\ Head(ls) \in Listeners
    BY <2>1, <2>2, TailSimple
  <2>4. Simple(<<Head(ls)>>, Listeners) /\ ToSet(<<Head(ls)>>) = {Head(ls)}
    BY <2>3 DEF Simple, IsInjective, ToSet
  <2>5. ToSet(ls) \subseteq Listeners
    BY <2>2 DEF WantInv
  <2> HIDE DEF ls
  <2>6. QED BY <2>1, <2>2, <2>3, <2>4, <2>5 DEF PassInv, Pass, Lists, Simple, ls
<1>5. CASE ListenerReturns
  <2> DEFINE rest == Tail(pass.rest)
  <2>1. /\ InCallback /\ UNCHANGED <<wanted, dropped>>
        /\ pass' = [pass EXCEPT !.rest = rest,
                                !.called = IF rest = <<>> THEN pass.called
                                           ELSE Append(pass.called, Head(rest))]
    BY <1>5 DEF ListenerReturns
  <2>2. /\ Simple(rest, Listeners) /\ Simple(pass.called, Listeners)
        /\ ToSet(pass.rest) = {Head(pass.rest)} \cup ToSet(rest)
    BY <2>1, PassLists
  <2> HIDE DEF rest
  <2>3. CASE rest = <<>>
    <3>1. pass' \in Pass /\ pass'.rest = <<>>
      BY <2>1, <2>2, <2>3 DEF PassInv, Pass, Lists, Simple
    <3>2. QED BY <3>1 DEF PassInv, InCallback
  <2>4. CASE rest # <<>>
    <3>1. /\ Simple(Tail(rest), Listeners) /\ Head(rest) \in Listeners
          /\ ToSet(rest) = {Head(rest)} \cup ToSet(Tail(rest))
          /\ Head(rest) \notin ToSet(Tail(rest))
      BY <2>2, <2>4, TailSimple
    <3>2. ToSet(rest) \cap ToSet(pass.called) = {}
      BY <2>1 DEF PassInv, rest
    <3>3. /\ Simple(Append(pass.called, Head(rest)), Listeners)
          /\ ToSet(Append(pass.called, Head(rest))) = ToSet(pass.called) \cup {Head(rest)}
      BY <2>2, <3>1, <3>2, AppendSimple
    <3>4. /\ pass' \in Pass /\ UNCHANGED <<pass.topic, pass.start, pass.linked>>
          /\ pass'.rest = rest /\ pass'.called = Append(pass.called, Head(rest))
      BY <2>1, <2>2, <2>4, <3>3 DEF PassInv, Pass, Lists, Simple
    <3>5. /\ pass.topic \in Topics
          /\ pass.start \subseteq ToSet(pass.called) \cup ToSet(rest)
          /\ pass.linked => ToSet(pass.rest) \subseteq wanted[pass.topic]
          /\ ~pass.linked => pass.topic \in dropped
      BY <2>1, <2>4 DEF PassInv, rest
    <3>6. QED BY <2>1, <2>2, <3>1, <3>2, <3>3, <3>4, <3>5 DEF PassInv
  <2>5. QED BY <2>3, <2>4
<1>6. CASE LoginResult \/ Receive \/ Login \/ Logout \/ Lose \/ UNCHANGED vars
  BY <1>6 DEF LoginResult, Receive, Login, Logout, Lose, vars, PassInv, InCallback
<1>7. QED BY <1>1, <1>2, <1>3, <1>4, <1>5, <1>6 DEF Next, ClientCall, Unsubscribe

LEMMA PassInvariant == Spec => [](Typed /\ WantInv /\ PassInv)
<1>1. Init => PassInv
  BY SimpleEmpty DEF Init, PassInv, Pass, NoPass, InCallback, Lists, Simple
<1>2. QED BY <1>1, WantInvariant, NextPass, PTL DEF Spec

(* Whoever subscribes and unsubscribes during the dispatch of an item, no  *)
(* listener is called twice and none that stays is left out.               *)
THEOREM EveryListenerIsCalledOnce == Spec => CalledOnce
<1>1. Typed /\ WantInv /\ PassInv /\ [Next]_vars =>
        [InCallback /\ ~InCallback' =>
           /\ IsInjective(pass.called)
           /\ pass'.start \subseteq ToSet(pass.called)]_vars
  <2> SUFFICES ASSUME Typed, WantInv, PassInv, [Next]_vars, InCallback, ~InCallback'
               PROVE  /\ IsInjective(pass.called)
                      /\ pass'.start \subseteq ToSet(pass.called)
    OBVIOUS
  <2>1. IsInjective(pass.called)
    BY PassLists DEF Simple
  <2>2. ASSUME NEW t \in Topics, NEW l \in Listeners, Unsubscribe(t, l)
        PROVE  FALSE
    <3>1. CASE UnsubscribeOther(t, l) /\ pass.topic = t /\ pass.linked
      BY <2>2, <3>1, UnlinkPass
    <3>2. CASE ~(UnsubscribeOther(t, l) /\ pass.topic = t /\ pass.linked)
      <4>1. pass'.rest = pass.rest
        BY <2>2, <3>2 DEF Unsubscribe, UnsubscribeOther, UnsubscribeNewest, PassInv, Pass
      <4>2. QED BY <4>1 DEF InCallback
    <3>3. QED BY <3>1, <3>2
  <2>3. ListenerReturns
    <3>1. pass' # pass
      BY DEF InCallback
    <3>2. QED BY <2>2, <3>1 DEF Next, ClientCall, Subscribe, Login, Logout, LoginResult,
                              Receive, Lose, Dispatch, vars
  <2>4. pass'.start = pass.start /\ pass'.rest = Tail(pass.rest)
    BY <2>3 DEF ListenerReturns, PassInv, Pass
  <2>5. ToSet(Tail(pass.rest)) = {}
    BY <2>4, SimpleEmpty DEF InCallback
  <2>6. QED BY <2>1, <2>4, <2>5 DEF PassInv
<1>2. QED BY <1>1, PassInvariant, PTL DEF Spec, CalledOnce

(* Whoever is called next during a dispatch has not unsubscribed, until    *)
(* the newest of several has.                                              *)
THEOREM OnlyTheWantedAreCalled == Spec => NotCalledAfter
<1>1. Typed /\ WantInv /\ PassInv /\ [Next]_vars =>
        [\A l \in Listeners :
           pass'.rest # pass.rest /\ pass'.rest # <<>> /\ Head(pass'.rest) = l
             => l \in wanted[pass'.topic] \/ pass'.topic \in dropped]_vars
  <2> SUFFICES ASSUME Typed, WantInv, PassInv, [Next]_vars,
                      pass'.rest # pass.rest, pass'.rest # <<>>
               PROVE  Head(pass'.rest) \in wanted[pass'.topic] \/ pass'.topic \in dropped
    OBVIOUS
  <2>1. ASSUME NEW t \in Topics, NEW l \in Listeners, Unsubscribe(t, l)
        PROVE  Head(pass'.rest) \in wanted[pass'.topic]
    <3>1. UnsubscribeOther(t, l) /\ pass.topic = t /\ pass.linked
      BY <2>1 DEF Unsubscribe, UnsubscribeOther, UnsubscribeNewest, PassInv, Pass
    <3>2. InCallback /\ Head(pass'.rest) = Head(pass.rest)
      BY <2>1, <3>1, UnlinkPass DEF InCallback
    <3>3. pass'.topic = pass.topic
      BY <2>1, <3>1, UnlinkPass DEF PassInv, Pass
    <3>4. QED BY <3>1, <3>2, <3>3, PassLists DEF PassInv
  <2>2. CASE Dispatch
    <3>1. PICK t \in Topics : /\ ListenersOf(t) # <<>> /\ pass'.topic = t
                              /\ pass'.rest = ListenersOf(t)
      BY <2>2 DEF Dispatch
    <3>2. Simple(ListenersOf(t), Listeners) /\ ToSet(ListenersOf(t)) \subseteq wanted[t]
      BY WantedListed
    <3>3. Head(ListenersOf(t)) \in ToSet(ListenersOf(t))
      BY <3>1, <3>2, TailSimple
    <3>4. QED BY <3>1, <3>2, <3>3
  <2>3. CASE ListenerReturns
    <3>1. /\ InCallback /\ pass'.rest = Tail(pass.rest) /\ Tail(pass.rest) # <<>>
          /\ pass'.topic = pass.topic
      BY <2>3 DEF ListenerReturns, PassInv, Pass
    <3>2. Head(Tail(pass.rest)) \in ToSet(pass.rest)
      BY <3>1, PassLists, TailSimple
    <3>3. QED BY <3>1, <3>2 DEF PassInv
  <2>4. QED BY <2>1, <2>2, <2>3 DEF Next, ClientCall, Subscribe, Login, Logout, LoginResult,
                              Receive, Lose, vars
<1>2. QED BY <1>1, PassInvariant, PTL DEF Spec, NotCalledAfter
=============================================================================
