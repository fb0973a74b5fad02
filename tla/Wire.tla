-------------------------------- MODULE Wire --------------------------------
(***************************************************************************)
(* Numbers and strings on the wire (the typed puts and gets of             *)
(* src/jm_buffer.c, with NET_DATA_BIG_END).  What is written is a sequence *)
(* of bytes; a read returns what it read, the rest of the buffer, and how  *)
(* it went: "ok", "fail", or "wild" where the code goes on with memory     *)
(* that it never wrote.                                                    *)
(***************************************************************************)
EXTENDS Integers, SequencesExt

MaxByte  == 127       \* MAX_BYTE_VALUE
MaxShort == 32767     \* MAX_SHORT_VALUE

Ok(v, buf) == [st |-> "ok", v |-> v, buf |-> buf]
Fail(buf)  == [st |-> "fail", v |-> <<>>, buf |-> buf]
Wild       == [st |-> "wild", v |-> <<>>, buf |-> <<>>]

\* What a read is for, unless it went wrong.
Bind(r, Use(_, _)) == IF r.st = "ok" THEN Use(r.v, r.buf) ELSE r

\* What a loop has read after at most count turns, of which read[i] is the i-th:
\* it ends with the first that goes wrong.
LoopEnd(read, count) == read[CHOOSE i \in 0 .. count : i = count \/ read[i].st # "ok"]

\* Fault: the least significant byte comes first.
PutLittle(x, w) == [i \in 1 .. w |-> (x \div 256^(i - 1)) % 256]

\* jm_buf_put_u8, put_s16, put_u32, put_s32 and the like: w bytes of x, in
\* two's complement, the most significant first.
PutInt(x, w) == [i \in 1 .. w |-> (x \div 256^(w - i)) % 256]

\* jm_buf_put_s64, of two halves.
PutLong(n) == PutInt(n[1], 4) \o PutInt(n[2], 4)

\* The number that some bytes are, of which the first stands for n.
NumberOf(bs, n) ==
  LET number[i \in 1 .. Len(bs)] == IF i = 1 THEN n ELSE 256 * number[i - 1] + bs[i]
  IN number[Len(bs)]

\* The first byte has the sign, or not.
Unsigned(bs) == NumberOf(bs, bs[1])
Signed(bs)   == NumberOf(bs, IF bs[1] > 127 THEN bs[1] - 256 ELSE bs[1])

\* jm_buf_get_bytes, jm_buf_get_chars, behind jm_buf_check_read_len: an empty
\* buffer is refused for no bytes, too.
GetBytes(buf, w) ==
  IF buf = <<>> \/ Len(buf) < w THEN Fail(buf)
  ELSE Ok(SubSeq(buf, 1, w), SubSeq(buf, w + 1, Len(buf)))

\* jm_buf_get_u8, get_s8, get_s16 and the like; a failed read leaves 0.
GetUint(buf, w) ==
  LET r == GetBytes(buf, w) IN [r EXCEPT !.v = IF r.st = "ok" THEN Unsigned(@) ELSE 0]
GetInt(buf, w) ==
  LET r == GetBytes(buf, w) IN [r EXCEPT !.v = IF r.st = "ok" THEN Signed(@) ELSE 0]

\* jm_buf_get_s64.
GetLong(buf) ==
  Bind(GetBytes(buf, 8), LAMBDA bs, rest :
    Ok(<<Signed(SubSeq(bs, 1, 4)), Signed(SubSeq(bs, 5, 8))>>, rest))

\* jm_buf_writeStringLen.
StringLen(len) ==
  IF len < MaxByte THEN PutInt(len, 1)
  ELSE PutInt(MaxByte, 1) \o
       (IF len < MaxShort THEN PutInt(len, 2) ELSE PutInt(MaxShort, 2) \o PutInt(len, 4))

\* jm_buf_writeString.
WriteString(s) == StringLen(Len(s)) \o s

\* A length that may be given in one, two or four bytes.
GetLen(buf) ==
  Bind(GetInt(buf, 1), LAMBDA len, rest :
    IF len # MaxByte THEN Ok(len, rest)
    ELSE Bind(GetInt(rest, 2), LAMBDA slen, srest :
           IF slen # MaxShort THEN Ok(slen, srest) ELSE GetInt(srest, 4)))

\* Characters; a negative length is beyond every buffer.
GetChars(buf, len) == IF len < 0 THEN Fail(buf) ELSE GetBytes(buf, len)

\* jm_buf_readString: the first byte is read without a check, -1 stands for
\* the null pointer, and a second length that is missing for 0.
ReadString(buf) ==
  LET first == GetInt(buf, 1)
      short == GetInt(first.buf, 2)
  IN IF first.st # "ok" THEN Wild
     ELSE IF first.v = MaxByte
     THEN IF short.v # MaxShort THEN GetChars(short.buf, short.v)
          ELSE Bind(GetInt(short.buf, 4), LAMBDA len, rest : GetChars(rest, len))
     ELSE IF first.v \in {-1, 0} THEN Ok(SubSeq(<<-1>>, 1, -first.v), first.buf)
     ELSE GetChars(first.buf, first.v)
=============================================================================
