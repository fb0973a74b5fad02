------------------------------ MODULE ItemCodec ------------------------------
(***************************************************************************)
(* The items of publish and subscribe on the wire (src/jm_cli_ps.h): what  *)
(* is written for an item and what the receiver makes of it.               *)
(***************************************************************************)
EXTENDS ValueCodec, ItemAddress

CONSTANTS
  EncodeParam(_, _),  \* jm_cli_encodeExtra (EncodeValue of ParamCodec)
  DecodeParam(_, _)   \* jm_cli_decodeExtra (DecodeValue of ParamCodec)

\* The encodings of the data of an item.
DATA_STRING == 0
DATA_BIN    == 1
DATA_JSON   == 2
DATA_EXTRA  == 3

HostKey == <<104, 111, 115, 116>>   \* "host"
PortKey == <<112, 111, 114, 116>>   \* "port"

\* jm_cli_setPSItemDataType, _psitem_getDataType: bits 5 and 6 of the flag.
FlagOf(dataType) == 32 * dataType
DataType(flag)   == (flag \div 32) % 4

\* _psitem_setDataFlag.
Bit(idx, sent) == IF sent THEN 2^idx ELSE 0

\* Fault: the callback has the bit of the context.
DataFlagShifted(it) ==
  Bit(0, it.id # 0) + Bit(1, it.type # 0) + Bit(2, it.topic # NoText) + Bit(3, it.srcClientId # 0)
    + Bit(4, it.to # 0) + Bit(6, it.callback # NoText) + Bit(7, it.data # NullVal)

\* One bit for each field that is sent.
DataFlag(it) ==
  Bit(0, it.id # 0) + Bit(1, it.type # 0) + Bit(2, it.topic # NoText) + Bit(3, it.srcClientId # 0)
    + Bit(4, it.to # 0) + Bit(5, it.callback # NoText) + Bit(6, it.cxt # NullVal)
    + Bit(7, it.data # NullVal)

\* _psitem_isDataFlag.
IsDataFlag(idx, dataFlag) == (dataFlag \div 2^idx) % 2 = 1
-----------------------------------------------------------------------------
If(sent, bytes) == IF sent THEN bytes ELSE <<>>

\* The data of an item, by its encoding; a string may be in a buffer.
SerialData(it) ==
  CASE it.data = NullVal             -> Out(<<>>)
    [] it.data # NullVal /\ DataType(it.flag) = DATA_BIN ->
         Out(PutInt(Len(it.data.n), 2) \o it.data.n)
    [] it.data # NullVal /\ DataType(it.flag) \in {DATA_STRING, DATA_JSON} ->
         Out(WriteString(it.data.n))
    [] OTHER -> EncodeParam([type |-> it.dt, val |-> it.data, len |-> 0], it.dt)

\* _c_serialPsItem.  The context is written with its type.
SerialPsItem(it) ==
  LET head ==
        PutInt(DataFlag(it), 1) \o PutInt(it.flag, 1) \o PutInt(it.fr, 4)
          \o If(it.id # 0, PutLong(<<0, it.id>>))
          \o If(it.type # 0, PutInt(it.type, 1))
          \o If(it.topic # NoText, WriteString(it.topic))
          \o If(it.srcClientId # 0, PutInt(it.srcClientId, 4))
          \o If(it.to # 0, PutInt(it.to, 4))
          \o If(it.callback # NoText, WriteString(it.callback))
      cxt == IF it.cxt = NullVal THEN Out(<<>>)
             ELSE EncodeParam([type |-> MapT, val |-> it.cxt], MapT)
  IN Cat(Cat(Out(head), cxt), SerialData(it))

GetId(buf) == Bind(GetLong(buf), LAMBDA n, rest : Ok(n[2], rest))

\* The context is read without its type; one that fails is a null pointer.
OrNull(r)   == IF r.st = "fail" THEN Ok(NullVal, r.buf) ELSE r
GetCxt(buf) == OrNull(DecodeParam(MapT, buf))

\* The address of the sender goes into the data, which is taken for a map.
WithPeer(data, peer) ==
  LET m     == MapOf(data)
      named == IF HasKey(m, HostKey) THEN m ELSE Put(m, HostKey, StringT, Text(peer.host))
  IN MapVal(IF HasKey(named, PortKey) THEN named ELSE Put(named, PortKey, IntT, Num(peer.port)))

\* Data of the type dt, which has to be a map.
ExtraData(dt, r, peer) ==
  IF r.st = "fail" THEN OrNull(r)
  ELSE IF r.st = "wild" \/ dt \notin Maps THEN Wild
  ELSE Ok(WithPeer(r.v, peer), r.buf)

\* The data: bytes are all that is left, with the length in front of them.
GetData(flag, peer, buf) ==
  CASE DataType(flag) = DATA_BIN -> Ok(IF buf = <<>> THEN NullVal ELSE Text(buf), <<>>)
    [] DataType(flag) \in {DATA_STRING, DATA_JSON} ->
         Bind(ReadString(buf), LAMBDA s, rest : Ok(Text(s), rest))
    [] DataType(flag) = DATA_EXTRA ->
         Bind(GetInt(buf, 1), LAMBDA dt, body : ExtraData(dt, DecodeParam(dt, body), peer))

\* The fields of an item in the order of their bits; the zeroed item.
Fields == <<"id", "type", "topic", "srcClientId", "to", "callback", "cxt", "data">>
NewItem == [flag |-> 0, fr |-> 0, id |-> 0, type |-> 0, topic |-> NoText, srcClientId |-> 0,
            to |-> 0, callback |-> NoText, cxt |-> NullVal, data |-> NullVal]

GetField(field, flag, peer, buf) ==
  CASE field = "id"                    -> GetId(buf)
    [] field = "type"                  -> GetInt(buf, 1)
    [] field \in {"srcClientId", "to"} -> GetInt(buf, 4)
    [] field \in {"topic", "callback"} -> ReadString(buf)
    [] field = "cxt"                   -> GetCxt(buf)
    [] field = "data"                  -> GetData(flag, peer, buf)

\* The item r with a field of it, unless one of the two was not read.
Store(r, field, got) ==
  IF got.st # "ok" THEN got ELSE Ok([r.v EXCEPT ![field] = got.v], got.buf)
NextField(r, field, flag, peer) ==
  IF r.st # "ok" THEN r ELSE Store(r, field, GetField(field, flag, peer, r.buf))

\* psitem_pubsubItemParseBin, up to the dispatch of the item: the fields whose
\* bits are set.
ParseBin(buf, peer) ==
  LET dataFlag == GetUint(buf, 1)
      flag     == GetUint(dataFlag.buf, 1)
      fr       == GetInt(flag.buf, 4)
      item[i \in 0 .. 8] ==
        IF i = 0 THEN Ok([NewItem EXCEPT !.flag = flag.v, !.fr = fr.v], fr.buf)
        ELSE IF IsDataFlag(i - 1, dataFlag.v)
        THEN NextField(item[i - 1], Fields[i], flag.v, peer) ELSE item[i - 1]
  IN IF fr.st # "ok" THEN fr ELSE item[8]
=============================================================================
