----------------------------- MODULE ItemAddress -----------------------------
(***************************************************************************)
(* The map that goes with the message of an item (src/jm_cli_ps.h): what a *)
(* publish adds to the map of its caller, and which sender gets the item   *)
(* (jm_cli_sendMessage).                                                   *)
(***************************************************************************)
EXTENDS TypedMap

CONSTANTS
  Topics,    \* the topics of the items
  Asked,     \* the maps of the callers: where an item is to be sent
  Env,       \* the account, the server and the channel of this device
  Channels   \* the channels that have a sender

VARIABLE published   \* history: the item that was published, if there is one

NoText == <<-1>>   \* the null pointer of a string

\* The numbers of the keys of the map that goes with a message.
LOGIN_KEY  == -119
PS_OP_CODE == -114
PS_ARGS    == -113
UDP_PORT   == -111
UDP_HOST   == -110
UDP_ACK    == -109
CHANNEL_NO == -108
GROUP_ID   == -107
CLIENT_ID  == 122

\* MSG_OP_CODE_FORWARD_BY_TOPIC.
FORWARD_BY_TOPIC == 4
-----------------------------------------------------------------------------
\* jm_emap_getInt, getByte and getStr: nothing of a key that is not there.
Number(m, key) == IF HasKey(m, <<key>>) THEN Get(m, <<key>>).val.n[1] ELSE 0
String(m, key) == IF HasKey(m, <<key>>) THEN Get(m, <<key>>).val.n ELSE NoText

PutNum(m, key, type, x) == Put(m, <<key>>, type, Num(x))
PutStr(m, key, s)       == Put(m, <<key>>, StringT, Text(s))

\* jm_cli_getUdpExtraByHost.
UdpExtra(host, port, env) ==
  PutNum(PutNum(PutNum(PutStr(EmptyMap(ByteT), UDP_HOST, host), UDP_PORT, IntT, port),
                UDP_ACK, ByteT, 1),
         CHANNEL_NO, ByteT, env.channelNo)

\* jm_cli_topicForwardExtra.
TopicForwardExtra(topic, env) ==
  LET op == PutStr(PutNum(EmptyMap(ByteT), PS_OP_CODE, ByteT, FORWARD_BY_TOPIC), PS_ARGS, topic)
  IN PutNum(PutStr(PutNum(op, CHANNEL_NO, ByteT, env.channelNo), UDP_HOST, env.jmHost),
            UDP_PORT, IntT, env.jmPort)

\* jm_cli_publishStrItemByTopic.
ByTopicExtra(topic) ==
  PutStr(PutNum(EmptyMap(IntT), PS_OP_CODE, ByteT, FORWARD_BY_TOPIC), PS_ARGS, topic)

\* Is the item for the cloud?  It is without a host.
ToCloud(ps, env) ==
  LET host == String(ps, UDP_HOST) IN
  host = NoText \/ (StrEqual(host, env.jmHost) /\ Number(ps, UDP_PORT) = env.jmPort)

\* What is put into ps for the cloud: the topic replaces the argument.
CloudArgs(ps, topic) ==
  PutStr(IF HasKey(ps, <<PS_OP_CODE>>) THEN ps
         ELSE PutNum(ps, PS_OP_CODE, ByteT, FORWARD_BY_TOPIC), PS_ARGS, topic)

PutUnless(cond, m, key, type, v) == IF cond THEN m ELSE Put(m, <<key>>, type, v)

\* Fault: the account is put before what the caller gives.
PublishExtraCallerLast(ps, topic, env) ==
  LET own == PutNum(PutNum(EmptyMap(ByteT), GROUP_ID, IntT, env.grpId),
                    CLIENT_ID, IntT, env.clientId)
  IN PutAll(own, ps)

\* jm_cli_publishPubsubItem: the map of the message.  The channel to the cloud
\* is looked up, and only put when there is none.
PublishExtra(ps, topic, env) ==
  LET cloud == ToCloud(ps, env)
      key   == PutUnless(~cloud \/ env.loginKey = NoText, EmptyMap(ByteT),
                         LOGIN_KEY, StringT, Text(env.loginKey))
      all   == PutAll(key, IF cloud THEN CloudArgs(ps, topic) ELSE ps)
      chan  == IF cloud THEN env.channelNo ELSE Number(ps, CHANNEL_NO)
      host  == PutUnless(String(ps, UDP_HOST) # NoText, all, UDP_HOST, StringT, Text(env.jmHost))
      port  == PutUnless(Number(ps, UDP_PORT) > 0, host, UDP_PORT, IntT, Num(env.jmPort))
      m     == PutUnless(chan > 0, port, CHANNEL_NO, IntT, Num(env.channelNo))
  IN PutNum(PutNum(m, GROUP_ID, IntT, env.grpId), CLIENT_ID, IntT, env.clientId)

\* jm_emap_remove, where there is something to remove.
Without(m, key) == IF m.hd = <<>> THEN m ELSE RemoveKey(m, <<key>>)

\* jm_cli_sendMessage: what is encoded and what the sender gets, or nothing
\* without a channel that is registered.  The address is not encoded for UDP.
SendMessage(m, isUdp, channels) ==
  LET channelNo == Number(m, CHANNEL_NO)
      noChannel == Without(m, CHANNEL_NO)
      noAddress == Without(Without(Without(noChannel, UDP_HOST), UDP_PORT), UDP_ACK)
  IN IF channelNo \notin channels THEN [sent |-> FALSE]
     ELSE [sent |-> TRUE, channelNo |-> channelNo,
           host |-> String(m, UDP_HOST), port |-> Number(m, UDP_PORT),
           extra |-> IF isUdp THEN noAddress ELSE noChannel]
-----------------------------------------------------------------------------
\* The entries of a caller's map are what is put or received.  The keys that
\* are read back have a value, and it is not in two halves; ports and channels
\* are unsigned, and an operation is not 0.
AskedAssumption ==
  \A ps \in Asked :
    /\ ps = [keyType |-> ps.keyType, hd |-> ps.hd, size |-> ps.size]
    /\ ps.keyType # StringT /\ ps.hd \in Seq(ToSet(ps.hd))
    /\ \A ex \in ToSet(ps.hd) :
         /\ ex = [key |-> ex.key, type |-> ex.type, val |-> ex.val, len |-> ex.len]
         /\ ex.key \in {<<UDP_HOST>>, <<UDP_PORT>>, <<CHANNEL_NO>>, <<PS_OP_CODE>>} =>
              ex.type \notin Unset \cup {LongT}
    /\ Number(ps, UDP_PORT) \in Nat /\ Number(ps, CHANNEL_NO) \in Nat
    /\ HasKey(ps, <<PS_OP_CODE>>) => Number(ps, PS_OP_CODE) # 0

\* The channel to the server has a sender.
EnvAssumption == Env.channelNo \in Channels /\ Channels \subseteq Nat \ {0}

ASSUME ItemAddressAssumption == AskedAssumption /\ EnvAssumption

AddressInit == published = {}

\* jm_cli_publishPubsubItem, which then sends the item.
Address ==
  \E topic \in Topics, ps \in Asked :
    /\ published = {}
    /\ published' = {[topic |-> topic, ps |-> ps,
                      out |-> SendMessage(PublishExtra(ps, topic, Env),
                                          Number(ps, UDP_ACK) # 0, Channels)]}

\* jm_msg_release at its end.
ReleaseMsg == published # {} /\ published' = {}

AddressNext == Address \/ ReleaseMsg

AddressSpec == AddressInit /\ [][AddressNext]_published
-----------------------------------------------------------------------------
(* An item goes where its caller asks, or else to the server, in the name  *)
(* of this device's account even when the caller passes on the map of a    *)
(* message it received (jm_cli_respExtra); for the server it names its     *)
(* topic and the login.  It is not sent at all when it is for the server   *)
(* and the caller names no channel (jm_cli_publishPubsubItem).             *)
ItemIsAddressed ==
  \A item \in published :
    LET ps   == item.ps
        out  == item.out
        host == String(ps, UDP_HOST)
        port == Number(ps, UDP_PORT)
    IN /\ out.sent = IF ToCloud(ps, Env) THEN Number(ps, CHANNEL_NO) \in Channels
                     ELSE Number(ps, CHANNEL_NO) = 0 \/ Number(ps, CHANNEL_NO) \in Channels
       /\ out.sent =>
            /\ out.host = (IF host = NoText THEN Env.jmHost ELSE host)
            /\ out.port = (IF port = 0 THEN Env.jmPort ELSE port)
            /\ Number(out.extra, GROUP_ID) = Env.grpId
            /\ Number(out.extra, CLIENT_ID) = Env.clientId
            /\ ToCloud(ps, Env) =>
                 /\ String(out.extra, PS_ARGS) = item.topic
                 /\ Number(out.extra, PS_OP_CODE) # 0
                 /\ Env.loginKey # NoText => HasKey(out.extra, <<LOGIN_KEY>>)
=============================================================================
