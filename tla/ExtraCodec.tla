----------------------------- MODULE ExtraCodec -----------------------------
(***************************************************************************)
(* The layout of the map that goes with a message: jm_extra_encode and     *)
(* jm_extra_decode (src/jm_msg_extra.h).  The header counts the entries in *)
(* one byte and gives the type of the keys.  A map in a map is written and *)
(* read by the same two functions, which are parameters here.              *)
(***************************************************************************)
EXTENDS ValueCodec

CONSTANTS
  EncodeNested(_, _),  \* EncodeEntries, for a map in a map
  DecodeNested(_)      \* DecodeEntries, likewise

\* jm_extra_encodeVal: nothing for the types it does not know.
EncodeExtraVal(ex) ==
  CASE ex.type \in DOMAIN Width -> Out(PutScalar(ex))
    [] ex.type = BytesT  -> PutBytes(ex)
    [] ex.type = StringT -> Out(PutText(ex))
    [] ex.type = MapT    -> EncodeNested(ex.val.e, ex.val.n[1])
    [] OTHER             -> Out(<<>>)

\* An entry; a null pointer has the type NullT.
EncodeExtraEntry(ex, keyType) ==
  LET key == IF keyType = StringT THEN WriteString(ex.key) ELSE PutInt(ex.key[1], 1)
  IN IF ex.type \in {StringT, BytesT} /\ ex.val = NullVal
     THEN Out(key \o PutInt(NullT, 1))
     ELSE Cat(Out(key \o PutInt(ex.type, 1)), EncodeExtraVal(ex))

\* jm_extra_encode, which refuses a map without entries.
EncodeEntries(hd, keyType) ==
  LET out[i \in 0 .. Len(hd)] ==
        IF i = 0 THEN Out(PutInt(Len(hd), 1) \o PutInt(keyType, 1))
        ELSE Cat(out[i - 1], EncodeExtraEntry(hd[i], keyType))
  IN IF hd = <<>> THEN Refused ELSE out[Len(hd)]
-----------------------------------------------------------------------------
\* jm_extra_decodeVal: without a type it releases an entry it never made; a
\* map that fails is a null pointer.
DecodeExtraVal(buf) ==
  LET type == GetInt(buf, 1)
      t    == type.v
      body == type.buf
      r    == CASE t \in DOMAIN Width -> GetScalar(t, body)
                [] t = BytesT  -> GetBuffer(body)
                [] t = StringT -> GetString(body)
                [] t = MapT    -> DecodeNested(body)
                [] t \in Unset -> Ok(NullVal, body)
                [] OTHER       -> Fail(body)
      got  == IF t = MapT /\ r.st = "fail" THEN Ok(NullVal, r.buf) ELSE r
  IN IF type.st # "ok" THEN Wild
     ELSE Bind(got, LAMBDA v, rest : Ok([type |-> t, val |-> v], rest))

\* The map m with the entry that was read for the key k; one whose value
\* fails is left out.
WithEntry(m, k, r) ==
  IF r.st = "fail" THEN Ok(m, r.buf)
  ELSE Bind(r, LAMBDA ex, rest :
         Ok(PutExtra(m, [NewEntry(k, ex.type) EXCEPT !.val = ex.val]), rest))

DecodeExtraEntry(m, buf) ==
  Bind(IF m.keyType = StringT THEN ReadString(buf)
       ELSE Bind(GetInt(buf, 1), LAMBDA k, rest : Ok(<<k>>, rest)),
       LAMBDA k, rest : WithEntry(m, k, DecodeExtraVal(rest)))

DecodeExtraAll(count, keyType, buf) ==
  LET read[i \in 0 .. count] ==
        IF i = 0 THEN Ok(EmptyMap(keyType), buf) ELSE Bind(read[i - 1], DecodeExtraEntry)
  IN Bind(LoopEnd(read, count), LAMBDA m, rest : Ok(MapVal(m), rest))

\* jm_extra_decode: no entries are no map.
DecodeEntries(buf) ==
  Bind(GetUint(buf, 1), LAMBDA count, rest :
    IF count = 0 THEN Fail(rest)
    ELSE Bind(GetInt(rest, 1), LAMBDA keyType, body : DecodeExtraAll(count, keyType, body)))
=============================================================================
