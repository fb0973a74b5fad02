----------------------------- MODULE ParamCodec -----------------------------
(***************************************************************************)
(* The layout of RPC parameters and results, and of the data of items:     *)
(* jm_cli_encodeExtra and jm_cli_decodeExtra (src/jm_cli_encode.h).  Maps  *)
(* have string keys; lists and maps count their entries in two bytes, and  *)
(* what they hold is written and read by the same two functions, which are *)
(* parameters here.                                                        *)
(***************************************************************************)
EXTENDS ValueCodec

CONSTANTS
  EncodeInside(_, _),  \* EncodeValue, for the entries of a map or a list
  DecodeInside(_, _)   \* DecodeValue, likewise

\* _c_encodeWriteLen, _c_encodeColl and _c_encodeExtraMap.
EncodeAll(hd, keyed) ==
  LET Element(ex) == Cat(Out(IF keyed THEN WriteString(ex.key) ELSE <<>>),
                         EncodeInside(ex, ex.type))
      out[i \in 0 .. Len(hd)] ==
        IF i = 0 THEN Out(PutInt(Len(hd), 2)) ELSE Cat(out[i - 1], Element(hd[i]))
  IN out[Len(hd)]

\* jm_cli_encodeExtra, given the value of an entry by jm_cli_getExtraByType: a
\* map or list without entries has the type NullT.  A FLOAT or DOUBLE is
\* written like a BOOL whose value was never set.  A null pointer with a length
\* ends the program: nothing is sent.
EncodeValue(ex, type) ==
  IF type = NullT \/ (type \in Maps \cup Colls /\ ex.val.e = <<>>)
  THEN Out(PutInt(NullT, 1))
  ELSE IF ReadsNull(ex) THEN Refused
  ELSE Cat(Out(PutInt(type, 1)),
         CASE type \in DOMAIN Width      -> Out(PutScalar(ex))
           [] type \in {FloatT, DoubleT} -> Out(PutInt(0, 1))
           [] type = BytesT              -> PutBytes(ex)
           [] type = StringT             -> Out(PutText(ex))
           [] type \in Maps              -> EncodeAll(ex.val.e, TRUE)
           [] type \in Colls             -> EncodeAll(ex.val.e, FALSE)
           [] OTHER                      -> Refused)
-----------------------------------------------------------------------------
\* A map or list in a map or list is put or added; any other entry was made
\* by the decoder.
PutDecoded(m, key, type, v) ==
  IF type \in Maps \cup Colls THEN Put(m, key, type, v)
  ELSE PutExtra(m, [NewEntry(key, type) EXCEPT !.val = v])
AddDecoded(l, type, v) ==
  IF type \in Maps \cup Colls THEN Add(l, type, v)
  ELSE AddExtra(l, [NewEntry(<<>>, type) EXCEPT !.val = v])

WithDecoded(m, key, type, val) ==
  IF val.st = "fail" THEN Ok(m, val.buf)
  ELSE Bind(val, LAMBDA v, rest : Ok(PutDecoded(m, key, type, v), rest))
AndDecoded(l, type, val) ==
  IF val.st = "fail" THEN Ok(l, val.buf)
  ELSE Bind(val, LAMBDA v, rest : Ok(AddDecoded(l, type, v), rest))

\* The next entry; one whose value fails is left out.  A key that cannot be
\* read is no failure.
DecodeMapValue(m, key) ==
  IF key.st = "wild" THEN key
  ELSE Bind(GetInt(key.buf, 1), LAMBDA type, body :
         WithDecoded(m, key.v, type, DecodeInside(type, body)))
DecodeMapEntry(m, buf) == DecodeMapValue(m, ReadString(buf))

DecodeCollEntry(l, buf) ==
  Bind(GetInt(buf, 1), LAMBDA type, body : AndDecoded(l, type, DecodeInside(type, body)))

\* _c_decodeMap.
DecodeMap(count, buf) ==
  LET read[i \in 0 .. count] ==
        IF i = 0 THEN Ok(EmptyMap(StringT), buf) ELSE Bind(read[i - 1], DecodeMapEntry)
  IN Bind(LoopEnd(read, count), LAMBDA m, rest : Ok(MapVal(m), rest))

\* _c_decodeColl.
DecodeColl(count, buf) ==
  LET read[i \in 0 .. count] ==
        IF i = 0 THEN Ok(EmptyList, buf) ELSE Bind(read[i - 1], DecodeCollEntry)
  IN Bind(LoopEnd(read, count), LAMBDA l, rest : Ok(ListVal(l), rest))

\* A list that fails is released and returned.
Released(r) == IF r.st = "fail" THEN Wild ELSE r

\* jm_cli_decodeExtra: the length of a string is read into an unsigned number,
\* so that -1 is no null pointer.
DecodeValue(type, buf) ==
  CASE type \in DOMAIN Width -> GetScalar(type, buf)
    [] type = BytesT  -> GetBuffer(buf)
    [] type = StringT -> GetText(buf)
    [] type \in Maps  -> Bind(GetUint(buf, 2), DecodeMap)
    [] type \in Colls -> Released(Bind(GetUint(buf, 2), DecodeColl))
    [] type \in Unset -> Ok(NullVal, buf)
    [] OTHER          -> Fail(buf)
=============================================================================
