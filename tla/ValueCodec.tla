----------------------------- MODULE ValueCodec -----------------------------
(***************************************************************************)
(* The values of an entry on the wire, those that hold no other entries:   *)
(* the cases of jm_extra_encodeVal and jm_extra_decodeVal                  *)
(* (src/jm_msg_extra.h).                                                   *)
(***************************************************************************)
EXTENDS TypedMap, Wire

\* What is written, or the failure of the whole.
Out(bytes) == [ok |-> TRUE, bytes |-> bytes]
Refused    == [ok |-> FALSE, bytes |-> <<>>]
Cat(a, b)  == IF a.ok /\ b.ok THEN Out(a.bytes \o b.bytes) ELSE Refused

\* The values of a fixed size, and the bytes of each.
Width == [t \in {ByteT, ShortT, IntT, LongT, BoolT, CharT} |->
            CASE t = ShortT -> 2 [] t = IntT -> 4 [] t = LongT -> 8 [] OTHER -> 1]

PutScalar(ex) ==
  IF ex.type = LongT THEN PutLong(ex.val.n) ELSE PutInt(ex.val.n[1], Width[ex.type])

GetScalar(type, buf) ==
  IF type = LongT THEN Bind(GetLong(buf), LAMBDA n, rest : Ok(Long(n[1], n[2]), rest))
  ELSE IF type \in {BoolT, CharT}
  THEN Bind(GetUint(buf, 1), LAMBDA x, rest :
              Ok(Num(IF type = BoolT /\ x # 0 THEN 1 ELSE x), rest))
  ELSE Bind(GetInt(buf, Width[type]), LAMBDA x, rest : Ok(Num(x), rest))

\* Fault: a length of 127 has no second length.
PutTextShort(ex) ==
  LET len == Signed(PutInt(ex.len, 1))
  IN PutInt(len, 1) \o SubSeq(ex.val.n, 1, len)

\* A string: its length is cut to a signed byte (sint8_t len), and negative
\* lengths are written without characters.
PutText(ex) ==
  LET len == Signed(PutInt(ex.len, 1))
  IN (IF len < MaxByte THEN PutInt(len, 1) ELSE PutInt(MaxByte, 1) \o PutInt(len, 2))
       \o SubSeq(ex.val.n, 1, len)

\* A string behind its length, unless the length is 0.
GetText(buf) ==
  Bind(GetLen(buf), LAMBDA len, rest :
    IF GetInt(buf, 1).v = 0 THEN Ok(Text(<<>>), rest)
    ELSE Bind(GetChars(rest, len), LAMBDA s, r : Ok(Text(s), r)))

\* Of the lengths below 0, that of one byte with all bits set is the null pointer.
GetString(buf) ==
  IF GetInt(buf, 1).v = -1 THEN Ok(NullVal, Tail(buf)) ELSE GetText(buf)

\* A null pointer with a length: the encoder goes on to read it.
ReadsNull(ex) == ex.val = NullVal /\ ex.type \in {StringT, BytesT} /\ ex.len > 0

\* A byte buffer behind its length; an empty one is refused.
PutBytes(ex) ==
  IF ex.len = 0 THEN Refused ELSE Out(PutInt(ex.len, 2) \o SubSeq(ex.val.n, 1, ex.len))

GetBuffer(buf) ==
  Bind(GetUint(buf, 2), LAMBDA len, rest :
    IF len = 0 THEN Ok(NullVal, rest)
    ELSE Bind(GetBytes(rest, len), LAMBDA bs, r : Ok(Text(bs), r)))
=============================================================================
