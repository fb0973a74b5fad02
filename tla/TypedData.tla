------------------------------ MODULE TypedData ------------------------------
(***************************************************************************)
(* A program builds a map of typed values (MapProgram), then sends it      *)
(* with a message (ExtraCodec), as parameters of a request (ParamCodec) or *)
(* as an item (ItemCodec), which a peer reads; or it publishes an item     *)
(* (ItemAddress).                                                          *)
(***************************************************************************)
EXTENDS ItemCodec, MapProgram, WellTyped

CONSTANTS
  Items,     \* the items that are published
  MapItems,  \* the items that are published with the map as their data
  Payload,   \* the bytes behind the map of a message
  Peer,      \* the address that items come from
  Depth,     \* how deep maps and lists are nested in the values in use
  EncodeExtra(_, _),  \* jm_extra_encode (EncodeEntries of ExtraCodec)
  DecodeExtra(_),     \* jm_extra_decode (DecodeEntries of ExtraCodec)
  Arrived(_, _, _),   \* have the entries arrived? (ArrivedHere of Arrival)
  Entries(_)          \* the entries at any depth (EntriesHere of Arrival)

\* The values have what their types can hold, and the keys and the entries of
\* the map can be counted in what is written for them.
ValuesAssumption ==
  /\ Depth \in Nat /\ InUnsigned(MaxPuts, 1)
  /\ \A k \in MapKeys : InUnsigned(Len(k), 2)
  /\ \A tv \in Values : /\ tv.type \in Types /\ ValueFits(tv.type, tv.val)
                        /\ tv.val \in [n : Seq(Int), e : Seq(Level[Depth])]

\* A string of an item, or none, and the fields of an item, each of the width
\* that it is sent with.
Sendable(s) == s \in Seq(Int) /\ InUnsigned(Len(s), 2)
FieldsFit(it) ==
  /\ it = [flag |-> it.flag, fr |-> it.fr, id |-> it.id, type |-> it.type, topic |-> it.topic,
           srcClientId |-> it.srcClientId, to |-> it.to, callback |-> it.callback,
           cxt |-> it.cxt, dt |-> it.dt, data |-> it.data]
  /\ InUnsigned(it.flag, 1) /\ InSigned(it.type, 1)
  /\ \A x \in {it.fr, it.id, it.srcClientId, it.to} : InSigned(x, 4)
  /\ Sendable(it.topic) /\ Sendable(it.callback)

ItemsAssumption ==
  /\ \A it \in Items    : FieldsFit(it) /\ it.data = Text(it.data.n) /\ Sendable(it.data.n)
  /\ \A it \in MapItems : FieldsFit(it) /\ DataType(it.flag) = DATA_EXTRA /\ it.dt = MapT

ASSUME TypedDataAssumption ==
  ValuesAssumption /\ ItemsAssumption /\ Payload \in Seq(Int)

VARIABLE got  \* what a peer has received, and of what

vars == <<mapVars, published, got>>

Nothing == [op |-> "none"]

Init == MapInit /\ AddressInit /\ got = Nothing

\* The map is built, sent, and released for the next one.
BuildMap   == got = Nothing /\ published = {} /\ Build /\ UNCHANGED <<published, got>>
ReleaseMap == got # Nothing /\ Release /\ got' = Nothing /\ UNCHANGED published
-----------------------------------------------------------------------------
\* jm_extra_encode and, before the payload of the message, jm_extra_decode.
SendExtra ==
  LET out == EncodeExtra(map.hd, StringT) IN
  got' = [op |-> "extra", ok |-> out.ok, r |-> DecodeExtra(out.bytes \o Payload)]

\* jm_cli_encodeExtra for a list or a map, and jm_cli_decodeExtra.
SendParams ==
  \E type \in {ListT, MapT} :
    LET out == EncodeParam([NewEntry(<<>>, type) EXCEPT !.val.e = map.hd], type) IN
    got' = [op |-> "params", ok |-> out.ok, type |-> type,
            r |-> Bind(GetInt(out.bytes, 1), LAMBDA t, rest : DecodeParam(t, rest))]

\* _c_serialPsItem, and psitem_pubsubItemParseBin of the peer: an item with
\* the map as its data, or another one.
Publish ==
  \E item \in IF ops = 0 THEN Items ELSE MapItems :
    LET it  == IF ops = 0 THEN item ELSE [item EXCEPT !.data = MapVal(map)]
        out == SerialPsItem(it)
    IN /\ out.ok
       /\ got' = [op |-> "item", item |-> it, r |-> ParseBin(out.bytes, Peer)]

Deliver ==
  /\ got = Nothing /\ published = {}
  /\ SendExtra \/ (map.hd # <<>> /\ SendParams) \/ Publish
  /\ UNCHANGED <<mapVars, published>>

\* Items are published while no map is built.
AddressItem == got = Nothing /\ ops = 0 /\ AddressNext /\ UNCHANGED <<mapVars, got>>

Next == BuildMap \/ Deliver \/ ReleaseMap \/ AddressItem

Spec == Init /\ [][Next]_vars
-----------------------------------------------------------------------------
EmptyMapIn(s) == \E ex \in Entries(s) : ex.type = MapT /\ ex.val.e = <<>>
FloatIn(s)    == \E ex \in Entries(s) : ex.type \in {FloatT, DoubleT}
NullIn(s)     == \E ex \in Entries(s) : ReadsNull(ex)

(* Whatever else goes with a message, the entries that the layout carries  *)
(* arrive with their types and values, nothing is invented and the payload *)
(* is read from its start (jm_extra_encode, jm_extra_decode); it is        *)
(* refused only for a map without entries, at any depth that is sent.      *)
ExtraArrives ==
  got.op = "extra" =>
    /\ ~got.ok => map.hd = <<>> \/ EmptyMapIn(map.hd)
    /\ got.ok => /\ got.r.st = "ok" /\ got.r.buf = Payload
                 /\ Arrived("extra", map.hd, got.r.v.e)

(* The parameters of a request arrive likewise, at any depth, unless a     *)
(* FLOAT or DOUBLE, of which the value is written and not read, puts the   *)
(* reader out of step (jm_cli_encodeExtra, jm_cli_decodeExtra).            *)
ParamsArrive ==
  got.op = "params" =>
    /\ got.ok = ~NullIn(map.hd)
    /\ got.ok /\ ~FloatIn(map.hd) =>
         /\ got.r.st = "ok" /\ got.r.buf = <<>>
         /\ Arrived("params",
                    IF got.type = MapT THEN map.hd
                    ELSE [i \in DOMAIN map.hd |-> [map.hd[i] EXCEPT !.key = <<>>]],
                    got.r.v.e)

\* The items whose layout both ends agree on: no context, no bytes, and
\* no map that is empty or has a FLOAT.
Agreed(it) ==
  /\ it.cxt = NullVal /\ DataType(it.flag) # DATA_BIN
  /\ DataType(it.flag) = DATA_EXTRA => it.data.e # <<>> /\ ~FloatIn(it.data.e)

(* An item arrives with all its fields, whichever of them are set, and its *)
(* data, with the address of its sender in a map (_c_serialPsItem and      *)
(* psitem_pubsubItemParseBin).                                             *)
ItemArrives ==
  got.op = "item" /\ Agreed(got.item) =>
    /\ got.r.st = "ok" /\ got.r.buf = <<>>
    /\ LET r == got.r.v IN
       /\ [r EXCEPT !.data = NullVal] =
            [f \in DOMAIN r |-> IF f = "data" THEN NullVal ELSE got.item[f]]
       /\ IF DataType(r.flag) # DATA_EXTRA THEN r.data = got.item.data
          ELSE LET m == MapOf(r.data) IN
               /\ HasKey(m, HostKey) /\ HasKey(m, PortKey)
               /\ \E n \in 0 .. 2 :
                    Arrived("params", got.item.data.e, SubSeq(m.hd, 1, Len(m.hd) - n))
=============================================================================
