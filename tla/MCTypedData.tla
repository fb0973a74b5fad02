----------------------------- MODULE MCTypedData -----------------------------
(***************************************************************************)
(* Small instance of TypedData: values of every type, strings around the   *)
(* lengths at which their layout changes, and items with every subset of   *)
(* their fields.                                                           *)
(***************************************************************************)
EXTENDS TypedData

\* The layouts, whose functions call themselves for what is nested.
RECURSIVE MCEncodeExtra(_, _)
RECURSIVE MCDecodeExtra(_)
RECURSIVE MCEncodeParam(_, _)
RECURSIVE MCDecodeParam(_, _)
RECURSIVE MCArrived(_, _, _)
RECURSIVE MCEntries(_)

Extra == INSTANCE ExtraCodec WITH EncodeNested <- MCEncodeExtra, DecodeNested <- MCDecodeExtra
Param == INSTANCE ParamCodec WITH EncodeInside <- MCEncodeParam, DecodeInside <- MCDecodeParam
Sent  == INSTANCE Arrival    WITH ArrivedInside <- MCArrived, EntriesInside <- MCEntries

MCEncodeExtra(hd, keyType) == Extra!EncodeEntries(hd, keyType)
MCDecodeExtra(buf)         == Extra!DecodeEntries(buf)
MCEncodeParam(ex, type)    == Param!EncodeValue(ex, type)
MCDecodeParam(type, buf)   == Param!DecodeValue(type, buf)
MCArrived(layout, s, r)    == Sent!ArrivedHere(layout, s, r)
MCEntries(s)               == Sent!EntriesHere(s)

V(type, val) == [type |-> type, val |-> val]
Letters(n)   == [i \in 1 .. n |-> 97 + (i % 5)]

\* "a", "aB" and "b".
MCKeys == {<<97>>, <<97, 66>>, <<98>>}

\* The short types go inside a map and a list.
Inner == Put(Put(Put(EmptyMap(StringT), <<105>>, ShortT, Num(-300)), <<99>>, CharT, Num(200)),
             <<115>>, StringT, Text(Letters(127)))
Elems == Add(Add(Add(EmptyList, StringT, Text(<<120>>)), ByteT, Num(7)), BoolT, Num(1))

MCValues ==
  {V(IntT, Num(-70000)), V(LongT, Long(1, -7)), V(FloatT, Num(0)),
   V(StringT, NullVal), V(StringT, Text(Letters(127))), V(StringT, Text(Letters(128))),
   V(BytesT, NullVal), V(BytesT, Text(<<1, 0, 255, 9, 9>>)),
   V(MapT, MapVal(Inner)), V(MapT, MapVal(EmptyMap(StringT))), V(ProxyT, MapVal(Inner)),
   V(ListT, ListVal(Elems)), V(SetT, ListVal(EmptyList))}

MCPayload == <<1, 2, 3>>
MCPeer    == [host |-> <<112>>, port |-> 9090]
MCEnv     == [jmHost |-> <<106, 109>>, jmPort |-> 9092, loginKey |-> <<107>>,
              channelNo |-> 1, grpId |-> 3, clientId |-> 41]

\* Text of several lengths, bytes and no data.
Data ==
  {<<DATA_STRING, Text(Letters(n))>> : n \in {0, 126, 127, 300}}
    \cup {<<DATA_STRING, NullVal>>, <<DATA_JSON, Text(Letters(2))>>,
          <<DATA_BIN, Text(<<0, 200>>)>>}

MCTopics == {<<47, 116>>}

MCItems ==
  {[flag |-> FlagOf(d[1]), fr |-> -7, id |-> id, type |-> type, topic |-> topic,
    srcClientId |-> src, to |-> to, callback |-> cb, cxt |-> cxt, dt |-> MapT, data |-> d[2]] :
     d \in Data, topic \in MCTopics, id \in {0, 70000}, type \in {0, -128}, src \in {0, 41}, to \in {0, -2},
     cb \in {NoText, <<99, 98>>}, cxt \in {NullVal, MapVal(Inner)}}

MCMapItems == {[it EXCEPT !.flag = FlagOf(DATA_EXTRA)] :
                 it \in {it \in MCItems : it.id # 0 /\ it.type = 0 /\ it.cxt = NullVal /\ it.to = 0
                                       /\ it.srcClientId = 0 /\ it.data = NullVal
                                       /\ it.callback # NoText}}

\* Nothing asked for, the helpers of the program, and the map of a message
\* that was received.
FreshMaps ==
  {EmptyMap(ByteT), ByTopicExtra(<<116>>), TopicForwardExtra(<<116>>, MCEnv),
   UdpExtra(<<112>>, 9090, MCEnv),
   PutNum(PutNum(PutStr(PutNum(EmptyMap(ByteT), CLIENT_ID, IntT, 77), UDP_HOST, <<112>>),
                 UDP_PORT, IntT, 9090), GROUP_ID, IntT, 8)}

\* The same, and those that an item of another topic left to its caller.
MCAsked ==
  FreshMaps \cup {CloudArgs(m, <<122>>) : m \in {m \in FreshMaps : ToCloud(m, MCEnv)}}
=============================================================================
