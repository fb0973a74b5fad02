---------------------------- MODULE ItemAnswers ----------------------------
(***************************************************************************)
(* The items that devices of one or of different accounts send each other  *)
(* (src/jm_cli_ps.h): a device rejects an item of another account with an  *)
(* answer, and an answer must not be answered again.                       *)
(***************************************************************************)
EXTENDS Naturals, FiniteSets

CONSTANTS
  Devices,   \* the devices
  Accounts,  \* the client ids, with their groups
  Unbound,   \* clientId 0: a device of no account
  Types,     \* the item types in use, of "ctrl", "slave" and "other"
  MaxItems,  \* bound: items published, but for the answers
  Rebind     \* bound: do the devices log in, log out and restart?

ASSUME ItemAnswersAssumption ==
  /\ Unbound \notin Accounts /\ MaxItems \in Nat /\ Rebind \in BOOLEAN
  /\ Types \subseteq {"ctrl", "slave", "other"}

Account == Accounts \cup {Unbound}

VARIABLES
  sysCfg,    \* the client id a device has in its configuration
  clientId,  \* the client id it sends: the one it was initialised with
  net,       \* the items on their way
  items      \* items published

answerVars == <<sysCfg, clientId, net, items>>

AnswerInit ==
  /\ sysCfg \in [Devices -> Account]
  /\ clientId = sysCfg
  /\ net = {}
  /\ items = 0
-----------------------------------------------------------------------------
\* jm_cli_publishPubsubItem, which stamps the item with the client id.  The
\* data of an item of type slave may name the device.
Publish(d) ==
  \E to \in Devices \ {d}, type \in Types, named \in BOOLEAN :
    /\ items < MaxItems
    /\ items' = items + 1
    /\ named => type = "slave"
    /\ net' = net \cup {[id |-> items + 1, type |-> type, fr |-> d, to |-> to,
                         _r |-> FALSE, deviceId |-> named, cid |-> clientId[d]]}
    /\ UNCHANGED <<sysCfg, clientId>>

\* jm_cli_respExtra: type and id of the item answered, and the field _r.
Answer(it) ==
  [it EXCEPT !.fr = it.to, !.to = it.fr, !._r = TRUE, !.deviceId = FALSE,
             !.cid = clientId[it.to]]

\* _c_dispachPubsubItem reads _r in items of type ctrl only.
IsResp(it) == it.type = "ctrl" /\ it._r

\* A device that is not bound yet comes online with an item of type slave
\* that names no device.
ComesOnline(it) == it.type = "slave" /\ ~it.deviceId

\* Fault: a rejection is rejected like any other item.
RejectedAny(it) ==
  sysCfg[it.to] # Unbound /\ it.cid # sysCfg[it.to] /\ ~ComesOnline(it)

Rejected(it) ==
  ~IsResp(it) /\ sysCfg[it.to] # Unbound /\ it.cid # sysCfg[it.to] /\ ~ComesOnline(it)

\* The listeners get the item, and may answer it with jm_cli_respExtra.
\* They can read _r and do not answer an answer.
Receive ==
  \E it \in net :
    /\ \/ Rejected(it) /\ net' = (net \ {it}) \cup {Answer(it)}
       \/ ~Rejected(it) /\ net' = net \ {it}
       \/ ~Rejected(it) /\ ~it._r /\ net' = (net \ {it}) \cup {Answer(it)}
    /\ UNCHANGED <<sysCfg, clientId, items>>

\* The items come over UDP.
Lose == \E it \in net : net' = net \ {it} /\ UNCHANGED <<sysCfg, clientId, items>>

\* _c_loginResult: the account goes into the configuration only.
LoginResult(d) ==
  \E a \in Accounts :
    /\ Rebind
    /\ sysCfg' = [sysCfg EXCEPT ![d] = a]
    /\ UNCHANGED <<clientId, net, items>>

\* jm_cli_init, after a restart or when the network is back.
ReInit(d) ==
  /\ Rebind
  /\ clientId' = [clientId EXCEPT ![d] = sysCfg[d]]
  /\ UNCHANGED <<sysCfg, net, items>>

\* jm_cli_logout.
Logout(d) ==
  /\ Rebind
  /\ clientId' = [clientId EXCEPT ![d] = Unbound]
  /\ UNCHANGED <<sysCfg, net, items>>

AnswerNext ==
  \/ \E d \in Devices : Publish(d) \/ LoginResult(d) \/ ReInit(d) \/ Logout(d)
  \/ Receive \/ Lose

\* What has arrived is handled: the port calls jm_cli_onMessage for it.
AnswerSpec == AnswerInit /\ [][AnswerNext]_answerVars /\ WF_answerVars(Receive)
-----------------------------------------------------------------------------
\* What goes over the network.
Item == [id : 1 .. MaxItems, type : Types, fr : Devices, to : Devices,
         _r : BOOLEAN, deviceId : BOOLEAN, cid : Account]

\* Type invariant: only a published item of type slave names a device.
TypeOK ==
  /\ {sysCfg, clientId} \subseteq [Devices -> Account]
  /\ items \in 0 .. MaxItems
  /\ net \subseteq Item
  /\ \A it \in net : it.id <= items /\ (it.deviceId => it.type = "slave" /\ ~it._r)

(* An answer is never answered, whichever accounts the devices were bound  *)
(* to meanwhile ("指示响应包，对方收到后，不用再给返回值" in jm_cli_respExtra).   *)
NoAnswerToAnswer ==
  [][\A it \in net : it._r =>
       ~\E new \in net' \ net : new.id = it.id /\ new.fr = it.to]_answerVars

(* What the devices say about an item comes to an end ("以避免进入死循环": so  *)
(* as not to enter an endless loop).                                        *)
ExchangesEnd == \A id \in 1 .. MaxItems : []<>(\A it \in net : it.id # id)
=============================================================================
