--------------------------- MODULE TypedDataProofs ---------------------------
(***************************************************************************)
(* Theorems about the typed values of the program: the maps and lists of   *)
(* src/jm_msg_extra.h (MapProgram), what goes with messages (ExtraCodec),  *)
(* with requests (ParamCodec) and as items (ItemCodec), and where items go *)
(* (ItemAddress).  Whatever map the program builds, of whatever types,     *)
(* values and depth, arrives at the peer that reads it (TypedData).        *)
(***************************************************************************)
EXTENDS TypedData, ExtraCodec, ParamCodec, Arrival, ListFacts, FiniteSetTheorems

\* Numbers, strings and byte buffers in bytes.

\* The recursive function of NumberOf, for the numbers of at most four bytes.
LEMMA NumberUnfolds ==
  ASSUME NEW bs, NEW n, NEW k \in 1 .. 4, Len(bs) = k
  PROVE  NumberOf(bs, n) =
           IF k = 1 THEN n
           ELSE IF k = 2 THEN 256 * n + bs[2]
           ELSE IF k = 3 THEN 256 * (256 * n + bs[2]) + bs[3]
           ELSE 256 * (256 * (256 * n + bs[2]) + bs[3]) + bs[4]
<1> DEFINE F(f) == [i \in 1 .. k |-> IF i = 1 THEN n ELSE 256 * f[i - 1] + bs[i]]
           h == CHOOSE f : f = F(f)
           g == [i \in 1 .. k |->
                   IF i = 1 THEN n
                   ELSE IF i = 2 THEN 256 * n + bs[2]
                   ELSE IF i = 3 THEN 256 * (256 * n + bs[2]) + bs[3]
                   ELSE 256 * (256 * (256 * n + bs[2]) + bs[3]) + bs[4]]
<1>1. NumberOf(bs, n) = h[k]
  BY DEF NumberOf
<1>2. g = F(g)
  <2>1. ASSUME NEW i \in 1 .. k
        PROVE  g[i] = IF i = 1 THEN n ELSE 256 * g[i - 1] + bs[i]
    <3>1. i \in {1, 2, 3, 4}
      OBVIOUS
    <3>2. CASE i = 1
      BY <3>2
    <3>3. CASE i = 2
      BY <3>3
    <3>4. CASE i = 3
      BY <3>4
    <3>5. CASE i = 4
      BY <3>5
    <3>6. QED BY <3>1, <3>2, <3>3, <3>4, <3>5
  <2> DEFINE G(i) == IF i = 1 THEN n ELSE 256 * g[i - 1] + bs[i]
  <2>2. g = [i \in 1 .. k |-> g[i]]
    OBVIOUS
  <2>3. \A i \in 1 .. k : g[i] = G(i)
    BY <2>1
  <2>4. F(g) = [i \in 1 .. k |-> G(i)]
    OBVIOUS
  <2> HIDE DEF g, G, F
  <2>5. [i \in 1 .. k |-> g[i]] = [i \in 1 .. k |-> G(i)]
    BY <2>3
  <2>6. QED BY <2>2, <2>4, <2>5
<1> HIDE DEF F, g, h
<1>3. h = F(h)
  BY <1>2 DEF h
<1>4. \A i \in 1 .. k : h[i] = IF i = 1 THEN n ELSE 256 * h[i - 1] + bs[i]
  BY <1>3 DEF F
<1>5. k \in {1, 2, 3, 4}
  OBVIOUS
<1>6. h[1] = n
  BY <1>4
<1>7. k >= 2 => h[2] = 256 * h[1] + bs[2]
  BY <1>4
<1>8. k >= 3 => h[3] = 256 * h[2] + bs[3]
  BY <1>4
<1>9. k >= 4 => h[4] = 256 * h[3] + bs[4]
  BY <1>4
<1>10. QED BY <1>1, <1>5, <1>6, <1>7, <1>8, <1>9

\* The bytes of a number, of each width (jm_buf_writeInt and its kin).
LEMMA OneByte == ASSUME NEW x \in Int PROVE PutInt(x, 1) = <<x % 256>>
<1>1. 256^(1 - 1) = 1
  BY SMT
<1>2. x \div 1 = x
  BY SMT
<1> DEFINE bs == PutInt(x, 1)
<1>3. bs = [i \in 1 .. 1 |-> (x \div 256^(1 - i)) % 256]
  BY DEF PutInt
<1>4. DOMAIN bs = 1 .. 1 /\ bs[1] = x % 256
  BY <1>1, <1>2, <1>3
<1>5. bs = [i \in 1 .. 1 |-> bs[i]]
  BY <1>3, <1>4
<1> HIDE DEF bs
<1>6. bs = <<x % 256>>
  BY <1>4, <1>5
<1>7. QED BY <1>6 DEF bs

LEMMA TwoBytes == ASSUME NEW x \in Int PROVE PutInt(x, 2) = <<(x \div 256) % 256, x % 256>>
<1>1. 256^(2 - 1) = 256 /\ 256^(2 - 2) = 1
  BY SMT
<1>2. x \div 1 = x
  BY SMT
<1> DEFINE bs == PutInt(x, 2)
<1>3. bs = [i \in 1 .. 2 |-> (x \div 256^(2 - i)) % 256]
  BY DEF PutInt
<1>4. DOMAIN bs = 1 .. 2 /\ bs[1] = (x \div 256) % 256 /\ bs[2] = x % 256
  BY <1>1, <1>2, <1>3
<1>5. bs = [i \in 1 .. 2 |-> bs[i]]
  BY <1>3, <1>4
<1> HIDE DEF bs
<1>6. bs = <<(x \div 256) % 256, x % 256>>
  BY <1>4, <1>5
<1>7. QED BY <1>6 DEF bs

LEMMA FourBytes ==
  ASSUME NEW x \in Int
  PROVE  PutInt(x, 4) = <<(x \div 256^3) % 256, (x \div 256^2) % 256, (x \div 256) % 256, x % 256>>
<1>1. 256^(4 - 1) = 256^3 /\ 256^(4 - 2) = 256^2 /\ 256^(4 - 3) = 256 /\ 256^(4 - 4) = 1
  BY SMT
<1>2. x \div 1 = x
  BY SMT
<1> DEFINE bs == PutInt(x, 4)
<1>3. bs = [i \in 1 .. 4 |-> (x \div 256^(4 - i)) % 256]
  BY DEF PutInt
<1>4. DOMAIN bs = 1 .. 4
  BY <1>3
<1>5. bs[1] = (x \div 256^3) % 256 /\ bs[2] = (x \div 256^2) % 256
  BY <1>1, <1>3
<1>6. bs[3] = (x \div 256) % 256 /\ bs[4] = x % 256
  BY <1>1, <1>2, <1>3
<1>7. bs = [i \in 1 .. 4 |-> bs[i]]
  BY <1>3, <1>4
<1> HIDE DEF bs
<1>8. bs = <<(x \div 256^3) % 256, (x \div 256^2) % 256, (x \div 256) % 256, x % 256>>
  BY <1>4, <1>5, <1>6, <1>7
<1>9. QED BY <1>8 DEF bs

\* What the bytes of a number are worth.
LEMMA SignedOne == ASSUME NEW x, InSigned(x, 1) PROVE Signed(PutInt(x, 1)) = x
<1> DEFINE bs == <<x % 256>>
           n  == IF bs[1] > 127 THEN bs[1] - 256 ELSE bs[1]
<1>1. x \in Int /\ -128 <= x /\ x < 128
  BY DEF InSigned, Largest
<1>2. PutInt(x, 1) = bs /\ Len(bs) = 1
  BY <1>1, OneByte
<1>3. NumberOf(bs, n) = n
  BY <1>2, NumberUnfolds
<1>4. n = x
  BY <1>1
<1>5. QED BY <1>2, <1>3, <1>4 DEF Signed

\* A signed number of two or of four bytes is what its bytes say.
LEMMA SignedTwo == ASSUME NEW x, InSigned(x, 2) PROVE Signed(PutInt(x, 2)) = x
<1> DEFINE a  == (x \div 256) % 256
           b  == x % 256
           bs == <<a, b>>
           n  == IF a > 127 THEN a - 256 ELSE a
<1>1. x \in Int /\ -32768 <= x /\ x < 32768
  BY SMT DEF InSigned, Largest
<1>2. PutInt(x, 2) = bs /\ Len(bs) = 2 /\ bs[1] = a /\ bs[2] = b
  BY <1>1, TwoBytes
<1>3. 256 * n + b = x
  BY <1>1, SMT
<1> HIDE DEF a, b
<1>4. NumberOf(bs, n) = 256 * n + bs[2]
  BY <1>2, NumberUnfolds
<1> HIDE DEF bs
<1>5. QED BY <1>2, <1>3, <1>4 DEF Signed

LEMMA SignedFour == ASSUME NEW x, InSigned(x, 4) PROVE Signed(PutInt(x, 4)) = x
<1> DEFINE a  == (x \div 256^3) % 256
           b  == (x \div 256^2) % 256
           c  == (x \div 256) % 256
           d  == x % 256
           bs == <<a, b, c, d>>
           n  == IF a > 127 THEN a - 256 ELSE a
<1>1. x \in Int
  BY DEF InSigned
<1>2. PutInt(x, 4) = bs /\ Len(bs) = 4 /\ bs[1] = a /\ bs[2] = b /\ bs[3] = c /\ bs[4] = d
  BY <1>1, FourBytes
<1>3. 256 * (256 * (256 * n + b) + c) + d = x
  <2>1. -2147483648 <= x /\ x < 2147483648
    BY SMT DEF InSigned, Largest
  <2>2. a = (x \div 16777216) % 256 /\ b = (x \div 65536) % 256
    BY SMT
  <2> HIDE DEF a, b
  <2>3. QED BY <1>1, <2>1, <2>2, SMT
<1> HIDE DEF a, b, c, d
<1>4. NumberOf(bs, n) = 256 * (256 * (256 * n + bs[2]) + bs[3]) + bs[4]
  BY <1>2, NumberUnfolds
<1> HIDE DEF bs
<1>5. QED BY <1>2, <1>3, <1>4 DEF Signed

\* A number without a sign, likewise.
LEMMA UnsignedOne == ASSUME NEW x, InUnsigned(x, 1) PROVE Unsigned(PutInt(x, 1)) = x
<1> DEFINE bs == <<x % 256>>
<1>1. x \in Int /\ 0 <= x /\ x < 256
  BY DEF InUnsigned, Largest
<1>2. PutInt(x, 1) = bs /\ Len(bs) = 1
  BY <1>1, OneByte
<1>3. NumberOf(bs, bs[1]) = bs[1]
  BY <1>2, NumberUnfolds
<1>4. bs[1] = x
  BY <1>1
<1>5. QED BY <1>2, <1>3, <1>4 DEF Unsigned

LEMMA UnsignedTwo == ASSUME NEW x, InUnsigned(x, 2) PROVE Unsigned(PutInt(x, 2)) = x
<1> DEFINE a  == (x \div 256) % 256
           b  == x % 256
           bs == <<a, b>>
<1>1. x \in Int /\ 0 <= x /\ x < 65536
  BY SMT DEF InUnsigned, Largest
<1>2. PutInt(x, 2) = bs /\ Len(bs) = 2 /\ bs[1] = a /\ bs[2] = b
  BY <1>1, TwoBytes
<1>3. 256 * a + b = x
  BY <1>1, SMT
<1> HIDE DEF a, b
<1>4. NumberOf(bs, a) = 256 * a + bs[2]
  BY <1>2, NumberUnfolds
<1> HIDE DEF bs
<1>5. QED BY <1>2, <1>3, <1>4 DEF Unsigned

\* Short sequences of numbers and their lengths.
LEMMA FewInts ==
  ASSUME NEW a \in Int, NEW b \in Int, NEW c \in Int, NEW d \in Int
  PROVE  /\ <<a>> \in Seq(Int) /\ Len(<<a>>) = 1
         /\ <<a, b>> \in Seq(Int) /\ Len(<<a, b>>) = 2
         /\ <<a, b, c, d>> \in Seq(Int) /\ Len(<<a, b, c, d>>) = 4
OBVIOUS

\* A number of w bytes is written as w bytes.
LEMMA IntSeq ==
  ASSUME NEW w \in {1, 2, 4}, NEW x \in Int
  PROVE  PutInt(x, w) \in Seq(Int) /\ Len(PutInt(x, w)) = w
<1> DEFINE a == (x \div 256^3) % 256
           b == (x \div 256^2) % 256
           c == (x \div 256) % 256
           d == x % 256
<1>1. a \in Int /\ b \in Int /\ c \in Int /\ d \in Int
  BY SMT
<1>2. PutInt(x, 1) = <<d>> /\ PutInt(x, 2) = <<c, d>> /\ PutInt(x, 4) = <<a, b, c, d>>
  <2>1. PutInt(x, 1) = <<d>>
    BY OneByte
  <2>2. PutInt(x, 2) = <<c, d>>
    BY TwoBytes
  <2>3. PutInt(x, 4) = <<a, b, c, d>>
    BY FourBytes
  <2>4. QED BY <2>1, <2>2, <2>3
<1> HIDE DEF a, b, c, d
<1>3. CASE w = 1
  <2>1. <<d>> \in Seq(Int) /\ Len(<<d>>) = 1
    BY <1>1, FewInts
  <2>2. QED BY <1>2, <1>3, <2>1
<1>4. CASE w = 2
  <2>1. <<c, d>> \in Seq(Int) /\ Len(<<c, d>>) = 2
    BY <1>1, FewInts
  <2>2. QED BY <1>2, <1>4, <2>1
<1>5. CASE w = 4
  <2>1. <<a, b, c, d>> \in Seq(Int) /\ Len(<<a, b, c, d>>) = 4
    BY <1>1, FewInts
  <2>2. QED BY <1>2, <1>5, <2>1
<1>6. QED BY <1>3, <1>4, <1>5

\* A number is what its bytes say, whatever its width.
LEMMA SignedInt ==
  ASSUME NEW w \in {1, 2, 4}, NEW x, InSigned(x, w) PROVE Signed(PutInt(x, w)) = x
BY SignedOne, SignedTwo, SignedFour

LEMMA UnsignedInt ==
  ASSUME NEW w \in {1, 2}, NEW x, InUnsigned(x, w) PROVE Unsigned(PutInt(x, w)) = x
BY UnsignedOne, UnsignedTwo
-----------------------------------------------------------------------------
\* A buffer is what is at its front and what is behind it.
LEMMA ConcatParts ==
  ASSUME NEW a \in Seq(Int), a # <<>>, NEW b \in Seq(Int)
  PROVE  /\ a \o b \in Seq(Int) /\ Len(a \o b) = Len(a) + Len(b) /\ Len(a) >= 1
         /\ SubSeq(a \o b, 1, Len(a)) = a
         /\ SubSeq(a \o b, Len(a) + 1, Len(a) + Len(b)) = b
<1> DEFINE w == Len(a)
           n == Len(b)
<1>1. w \in Nat /\ n \in Nat /\ w >= 1
  BY LenProperties, EmptySeq
<1>2. a \o b \in Seq(Int) /\ Len(a \o b) = w + n
  BY ConcatProperties
<1>3. SubSeq(a \o b, 1, w) = a
  <2>1. 1 \in 1 .. w /\ w \in 1 .. w
    BY <1>1
  <2>2. SubSeq(a \o b, 1, w) = SubSeq(a, 1, w)
    BY <2>1, SubSeqOfConcat1
  <2>3. QED BY <2>2, SubSeqFull
<1>4. SubSeq(a \o b, w + 1, w + n) = b
  <2>1. CASE n = 0
    <3>1. b = <<>>
      BY <2>1, EmptySeq
    <3>2. SubSeq(a \o b, w + 1, w + n) = <<>>
      BY <1>1, <2>1, SubSeqEmpty
    <3>3. QED BY <3>1, <3>2
  <2>2. CASE n >= 1
    <3>1. w + 1 \in w + 1 .. w + n /\ w + n \in w + 1 .. w + n
      BY <1>1, <2>2
    <3>2. SubSeq(a \o b, w + 1, w + n) = SubSeq(b, w + 1 - w, w + n - w)
      BY <3>1, SubSeqOfConcat2
    <3>3. w + 1 - w = 1 /\ w + n - w = n
      BY <1>1
    <3>4. QED BY <3>2, <3>3, SubSeqFull
  <2>3. QED BY <1>1, <2>1, <2>2
<1>5. QED BY <1>1, <1>2, <1>3, <1>4

\* What has a length is not empty.
LEMMA NotEmpty == ASSUME NEW s, Len(s) # 0 PROVE s # <<>>
<1>1. Len(<<>>) = 0
  BY EmptySeq
<1>2. QED BY <1>1

\* Bytes that are at the front of a buffer are read.
LEMMA BytesRead ==
  ASSUME NEW bs \in Seq(Int), bs # <<>>, NEW behind \in Seq(Int), NEW w, w = Len(bs)
  PROVE  GetBytes(bs \o behind, w) = Ok(bs, behind)
<1> DEFINE buf == bs \o behind
<1>1. /\ Len(buf) = w + Len(behind) /\ w >= 1
      /\ SubSeq(buf, 1, w) = bs /\ SubSeq(buf, w + 1, w + Len(behind)) = behind
  BY ConcatParts
<1>2. w \in Nat /\ Len(behind) \in Nat
  BY LenProperties
<1>3. buf \in Seq(Int)
  BY ConcatParts
<1> HIDE DEF buf
<1>4. buf # <<>> /\ ~(Len(buf) < w)
  BY <1>1, <1>2, <1>3, EmptySeq
<1>5. GetBytes(buf, w) = Ok(SubSeq(buf, 1, w), SubSeq(buf, w + 1, Len(buf)))
  BY <1>4 DEF GetBytes
<1>6. GetBytes(buf, w) = Ok(bs, behind)
  BY <1>1, <1>5
<1>7. QED BY <1>6 DEF buf

\* A number arrives, and what is behind it is read from its start.
LEMMA IntRead ==
  ASSUME NEW w \in {1, 2, 4}, NEW x, InSigned(x, w), NEW behind \in Seq(Int)
  PROVE  GetInt(PutInt(x, w) \o behind, w) = Ok(x, behind)
<1> DEFINE bs == PutInt(x, w)
<1>1. bs \in Seq(Int) /\ Len(bs) = w /\ Signed(bs) = x
  BY IntSeq, SignedInt DEF InSigned
<1> HIDE DEF bs
<1>2. bs # <<>>
  BY <1>1, EmptySeq
<1> DEFINE r == GetBytes(bs \o behind, w)
<1>3. r = Ok(bs, behind)
  BY <1>1, <1>2, BytesRead
<1>4. GetInt(bs \o behind, w) = [r EXCEPT !.v = IF r.st = "ok" THEN Signed(r.v) ELSE 0]
  BY DEF GetInt
<1> HIDE DEF r
<1>5. r = [st |-> "ok", v |-> bs, buf |-> behind]
  BY <1>3 DEF Ok
<1>6. GetInt(bs \o behind, w) = [st |-> "ok", v |-> Signed(bs), buf |-> behind]
  BY <1>4, <1>5
<1>7. QED BY <1>1, <1>6 DEF Ok, bs

\* A number without a sign is read from its bytes, and what is behind them is left.
LEMMA UintRead ==
  ASSUME NEW w \in {1, 2}, NEW x, InUnsigned(x, w), NEW behind \in Seq(Int)
  PROVE  GetUint(PutInt(x, w) \o behind, w) = Ok(x, behind)
<1> DEFINE bs == PutInt(x, w)
<1>1. bs \in Seq(Int) /\ Len(bs) = w /\ Unsigned(bs) = x
  BY IntSeq, UnsignedInt DEF InUnsigned
<1> HIDE DEF bs
<1>2. bs # <<>>
  BY <1>1, EmptySeq
<1> DEFINE r == GetBytes(bs \o behind, w)
<1>3. r = Ok(bs, behind)
  BY <1>1, <1>2, BytesRead
<1>4. GetUint(bs \o behind, w) = [r EXCEPT !.v = IF r.st = "ok" THEN Unsigned(r.v) ELSE 0]
  BY DEF GetUint
<1> HIDE DEF r
<1>5. r = [st |-> "ok", v |-> bs, buf |-> behind]
  BY <1>3 DEF Ok
<1>6. GetUint(bs \o behind, w) = [st |-> "ok", v |-> Unsigned(bs), buf |-> behind]
  BY <1>4, <1>5
<1>7. QED BY <1>1, <1>6 DEF Ok, bs

\* What a read goes on with.
LEMMA OkFields ==
  ASSUME NEW v, NEW buf
  PROVE  Ok(v, buf).st = "ok" /\ Ok(v, buf).v = v /\ Ok(v, buf).buf = buf
BY DEF Ok

\* A long number is read from its eight bytes, as its two halves.
LEMMA LongRead ==
  ASSUME NEW h, InSigned(h, 4), NEW l, InSigned(l, 4), NEW behind \in Seq(Int)
  PROVE  GetLong(PutLong(<<h, l>>) \o behind) = Ok(<<h, l>>, behind)
<1> DEFINE a == PutInt(h, 4)
           b == PutInt(l, 4)
           ab == a \o b
<1>1. h \in Int /\ l \in Int
  BY DEF InSigned
<1>2. a \in Seq(Int) /\ Len(a) = 4 /\ b \in Seq(Int) /\ Len(b) = 4
  BY <1>1, IntSeq
<1>3. Signed(a) = h /\ Signed(b) = l
  BY SignedInt
<1>4. PutLong(<<h, l>>) = ab
  BY DEF PutLong
<1> HIDE DEF a, b
<1>5. a # <<>>
  <2>1. Len(a) # 0
    BY <1>2
  <2>2. QED BY <2>1, NotEmpty
<1>6. /\ ab \in Seq(Int) /\ Len(ab) = Len(a) + Len(b)
      /\ SubSeq(ab, 1, Len(a)) = a /\ SubSeq(ab, Len(a) + 1, Len(a) + Len(b)) = b
  BY <1>2, <1>5, ConcatParts
<1> HIDE DEF ab
<1>7. Len(a) + 1 = 5 /\ Len(a) + Len(b) = 8 /\ Len(a) = 4
  BY <1>2
<1>8. Len(ab) = 8 /\ SubSeq(ab, 1, 4) = a /\ SubSeq(ab, 5, 8) = b
  BY <1>6, <1>7
<1>9. ab # <<>>
  BY <1>6, <1>8, EmptySeq
<1>10. GetBytes(ab \o behind, 8) = Ok(ab, behind)
  BY <1>6, <1>8, <1>9, BytesRead
<1>11. GetLong(ab \o behind) = Ok(<<Signed(SubSeq(ab, 1, 4)), Signed(SubSeq(ab, 5, 8))>>, behind)
  BY <1>10, OkFields DEF GetLong, Bind
<1>12. QED BY <1>3, <1>4, <1>8, <1>11
-----------------------------------------------------------------------------
\* The lengths that are told apart.
LEMMA Limits ==
  /\ MaxByte \in Int /\ MaxShort \in Int /\ InSigned(MaxByte, 1) /\ InSigned(MaxShort, 2)
  /\ MaxByte # 0 /\ MaxByte # -1
  /\ \A n \in Nat : /\ n < MaxByte => InSigned(n, 1)
                    /\ n < MaxShort => InSigned(n, 2)
BY SMT DEF MaxByte, MaxShort, InSigned, Largest

\* What a number in front of other bytes leaves to them.
LEMMA IntAhead ==
  ASSUME NEW w \in {1, 2, 4}, NEW x, InSigned(x, w), NEW b \in Seq(Int), NEW behind \in Seq(Int)
  PROVE  /\ b \o behind \in Seq(Int)
         /\ GetInt((PutInt(x, w) \o b) \o behind, w) = Ok(x, b \o behind)
<1> DEFINE a == PutInt(x, w)
           c == b \o behind
<1>1. a \in Seq(Int)
  BY IntSeq DEF InSigned
<1>2. c \in Seq(Int)
  BY ConcatProperties
<1>3. GetInt(a \o c, w) = Ok(x, c)
  BY <1>2, IntRead
<1>4. (a \o b) \o behind = a \o c
  BY ONLY <1>1, b \in Seq(Int), behind \in Seq(Int), ConcatAssociative, SMTT(30)
<1> HIDE DEF a, c
<1>5. GetInt((a \o b) \o behind, w) = Ok(x, c)
  BY <1>3, <1>4
<1>6. QED BY <1>2, <1>5 DEF a, c

\* A length arrives, in whichever of the three formats.
LEMMA LengthRead ==
  ASSUME NEW len \in Nat, InSigned(len, 4), NEW behind \in Seq(Int)
  PROVE  GetLen(StringLen(len) \o behind) = Ok(len, behind)
<1>1. CASE len < MaxByte
  <2>1. StringLen(len) = PutInt(len, 1)
    BY <1>1 DEF StringLen
  <2>2. GetInt(PutInt(len, 1) \o behind, 1) = Ok(len, behind)
    BY <1>1, Limits, IntRead
  <2>3. len # MaxByte
    BY <1>1, Limits
  <2>4. QED BY <2>1, <2>2, <2>3, OkFields DEF GetLen, Bind
<1>2. CASE ~(len < MaxByte) /\ len < MaxShort
  <2> DEFINE b == PutInt(len, 2)
  <2>1. StringLen(len) = PutInt(MaxByte, 1) \o b
    BY <1>2 DEF StringLen
  <2>2. InSigned(len, 2) /\ len # MaxShort
    BY <1>2, Limits
  <2>3. b \in Seq(Int)
    BY IntSeq
  <2>4. GetInt(b \o behind, 2) = Ok(len, behind)
    BY <2>2, IntRead
  <2> HIDE DEF b
  <2>5. GetInt((PutInt(MaxByte, 1) \o b) \o behind, 1) = Ok(MaxByte, b \o behind)
    BY <2>3, Limits, IntAhead
  <2>6. QED BY <2>1, <2>2, <2>4, <2>5, OkFields DEF GetLen, Bind
<1>3. CASE ~(len < MaxByte) /\ ~(len < MaxShort)
  <2> DEFINE c == PutInt(len, 4)
             b == PutInt(MaxShort, 2) \o c
  <2>1. StringLen(len) = PutInt(MaxByte, 1) \o b
    BY <1>3 DEF StringLen
  <2>2. c \in Seq(Int) /\ PutInt(MaxShort, 2) \in Seq(Int)
    BY IntSeq, Limits
  <2>3. b \in Seq(Int)
    BY <2>2, ConcatProperties
  <2>4. GetInt(c \o behind, 4) = Ok(len, behind)
    BY IntRead
  <2> HIDE DEF c
  <2>5. GetInt(b \o behind, 2) = Ok(MaxShort, c \o behind)
    BY <2>2, Limits, IntAhead
  <2> HIDE DEF b
  <2>6. GetInt((PutInt(MaxByte, 1) \o b) \o behind, 1) = Ok(MaxByte, b \o behind)
    BY <2>3, Limits, IntAhead
  <2>7. QED BY <2>1, <2>4, <2>5, <2>6, OkFields DEF GetLen, Bind
<1>4. QED BY <1>1, <1>2, <1>3

\* The four ways in which a string is read.
LEMMA ReadEmpty ==
  ASSUME NEW buf, NEW behind, GetInt(buf, 1) = Ok(0, behind)
  PROVE  ReadString(buf) = Ok(<<>>, behind)
<1>1. /\ GetInt(buf, 1).st = "ok" /\ GetInt(buf, 1).v = 0 /\ GetInt(buf, 1).buf = behind
  BY OkFields
<1>2. ReadString(buf) = Ok(SubSeq(<<-1>>, 1, -0), behind)
  BY <1>1, Limits DEF ReadString
<1>3. SubSeq(<<-1>>, 1, -0) = <<>>
  BY SubSeqEmpty
<1>4. QED BY <1>2, <1>3

\* The length of a string is read from one byte, from two behind MaxByte, or from four
\* behind MaxShort (jm_buf_readString).
LEMMA ReadByteLength ==
  ASSUME NEW buf, NEW len, NEW more, GetInt(buf, 1) = Ok(len, more),
         len # MaxByte, len # -1, len # 0
  PROVE  ReadString(buf) = GetChars(more, len)
<1>1. /\ GetInt(buf, 1).st = "ok" /\ GetInt(buf, 1).v = len /\ GetInt(buf, 1).buf = more
  BY OkFields
<1>2. QED BY <1>1 DEF ReadString

LEMMA ReadShortLength ==
  ASSUME NEW buf, NEW len, NEW two, NEW more,
         GetInt(buf, 1) = Ok(MaxByte, two), GetInt(two, 2) = Ok(len, more), len # MaxShort
  PROVE  ReadString(buf) = GetChars(more, len)
<1>1. /\ GetInt(buf, 1).st = "ok" /\ GetInt(buf, 1).v = MaxByte /\ GetInt(buf, 1).buf = two
      /\ GetInt(two, 2).v = len /\ GetInt(two, 2).buf = more
  BY OkFields
<1>2. QED BY <1>1 DEF ReadString

LEMMA ReadLongLength ==
  ASSUME NEW buf, NEW len, NEW two, NEW four, NEW more,
         GetInt(buf, 1) = Ok(MaxByte, two), GetInt(two, 2) = Ok(MaxShort, four),
         GetInt(four, 4) = Ok(len, more)
  PROVE  ReadString(buf) = GetChars(more, len)
<1>1. /\ GetInt(buf, 1).st = "ok" /\ GetInt(buf, 1).v = MaxByte /\ GetInt(buf, 1).buf = two
      /\ GetInt(two, 2).v = MaxShort /\ GetInt(two, 2).buf = four
      /\ GetInt(four, 4).st = "ok" /\ GetInt(four, 4).v = len /\ GetInt(four, 4).buf = more
  BY OkFields
<1>2. QED BY <1>1 DEF ReadString, Bind

\* The characters at the front of a buffer are read.
LEMMA CharsRead ==
  ASSUME NEW s \in Seq(Int), NEW behind \in Seq(Int), Len(s) # 0
  PROVE  GetChars(s \o behind, Len(s)) = Ok(s, behind)
<1>1. s # <<>>
  BY NotEmpty
<1>2. GetBytes(s \o behind, Len(s)) = Ok(s, behind)
  BY <1>1, BytesRead
<1>3. ~(Len(s) < 0)
  BY LenProperties
<1>4. QED BY <1>2, <1>3 DEF GetChars

(* A string of any length that the code's uint16_t can hold arrives, and   *)
(* what is behind it is read from its start (jm_buf_writeString,           *)
(* jm_buf_readString).                                                     *)
THEOREM StringsArrive ==
  ASSUME NEW s \in Seq(Int), InUnsigned(Len(s), 2), NEW behind \in Seq(Int)
  PROVE  ReadString(WriteString(s) \o behind) = Ok(s, behind)
<1> DEFINE len  == Len(s)
           more == s \o behind
<1>1. len \in Nat
  BY LenProperties
<1>2. more \in Seq(Int)
  BY ConcatProperties
<1>3. len # 0 => GetChars(more, len) = Ok(s, behind)
  BY CharsRead
<1>4. CASE len < MaxByte
  <2>1. WriteString(s) = PutInt(len, 1) \o s
    BY <1>4 DEF WriteString, StringLen
  <2>2. InSigned(len, 1) /\ len # MaxByte /\ len # -1
    BY <1>1, <1>4, Limits
  <2>3. GetInt((PutInt(len, 1) \o s) \o behind, 1) = Ok(len, more)
    BY <2>2, IntAhead
  <2>4. CASE len = 0
    <3>1. s = <<>>
      BY <2>4, EmptySeq
    <3>2. more = behind
      BY <3>1, ConcatEmptySeq
    <3>3. GetInt(WriteString(s) \o behind, 1) = Ok(0, behind)
      BY <2>1, <2>3, <2>4, <3>2
    <3>4. ReadString(WriteString(s) \o behind) = Ok(<<>>, behind)
      BY <3>3, ReadEmpty
    <3>5. QED BY <3>1, <3>4
  <2>5. CASE len # 0
    <3> HIDE DEF len, more
    <3>1. ReadString(WriteString(s) \o behind) = GetChars(more, len)
      BY <2>1, <2>2, <2>3, <2>5, ReadByteLength
    <3>2. QED BY <1>3, <2>5, <3>1
  <2>6. QED BY <2>4, <2>5
<1>5. CASE ~(len < MaxByte)
  <2>1. len # 0
    BY <1>1, <1>5, SMT DEF MaxByte
  <2> HIDE DEF len
  <2>2. CASE len < MaxShort
    <3> DEFINE b   == PutInt(len, 2)
               one == PutInt(MaxByte, 1)
    <3>1. WriteString(s) = (one \o b) \o s
      BY <1>5, <2>2 DEF WriteString, StringLen, len
    <3>2. InSigned(len, 2) /\ len # MaxShort
      BY <1>1, <2>2, Limits
    <3>3. b \in Seq(Int) /\ one \in Seq(Int)
      BY <1>1, IntSeq, Limits
    <3>4. GetInt((b \o s) \o behind, 2) = Ok(len, more)
      BY <3>2, IntAhead
    <3> DEFINE d == b \o s
    <3>5. d \in Seq(Int)
      BY <3>3, ConcatProperties
    <3> HIDE DEF d
    <3>6. GetInt((one \o d) \o behind, 1) = Ok(MaxByte, d \o behind)
      BY <3>5, Limits, IntAhead
    <3> HIDE DEF b, one, more
    <3>7. (one \o b) \o s = one \o (b \o s)
      BY ONLY <3>3, s \in Seq(Int), ConcatAssociative, SMTT(30)
    <3>8. ReadString(WriteString(s) \o behind) = GetChars(more, len)
      BY <3>1, <3>2, <3>4, <3>6, <3>7, ReadShortLength DEF d
    <3>9. QED BY <1>3, <2>1, <3>8
  <2>3. CASE ~(len < MaxShort)
    <3> DEFINE c   == PutInt(len, 4)
               one == PutInt(MaxByte, 1)
               two == PutInt(MaxShort, 2)
    <3>1. WriteString(s) = (one \o (two \o c)) \o s
      BY <1>5, <2>3 DEF WriteString, StringLen, len
    <3>2. c \in Seq(Int) /\ one \in Seq(Int) /\ two \in Seq(Int)
      BY <1>1, IntSeq, Limits
    <3>3. InSigned(len, 4)
      BY SMT DEF len, InUnsigned, InSigned, Largest
    <3>4. GetInt((c \o s) \o behind, 4) = Ok(len, more)
      BY <3>3, IntAhead
    <3> DEFINE d == c \o s
               e == two \o d
    <3>5. d \in Seq(Int)
      BY <3>2, ConcatProperties
    <3> HIDE DEF d
    <3>6. GetInt(e \o behind, 2) = Ok(MaxShort, d \o behind)
      BY <3>5, Limits, IntAhead
    <3>7. e \in Seq(Int)
      BY <3>2, <3>5, ConcatProperties
    <3> HIDE DEF e
    <3>8. GetInt((one \o e) \o behind, 1) = Ok(MaxByte, e \o behind)
      BY <3>7, Limits, IntAhead
    <3> HIDE DEF c, one, two, more
    <3>9. two \o c \in Seq(Int)
      BY ONLY <3>2, ConcatProperties, SMTT(30)
    <3>10. (one \o (two \o c)) \o s = one \o ((two \o c) \o s)
      BY ONLY <3>2, <3>9, s \in Seq(Int), ConcatAssociative, SMTT(30)
    <3>11. (two \o c) \o s = two \o (c \o s)
      BY ONLY <3>2, s \in Seq(Int), ConcatAssociative, SMTT(30)
    <3>12. ReadString(WriteString(s) \o behind) = GetChars(more, len)
      BY <3>1, <3>4, <3>6, <3>8, <3>10, <3>11, ReadLongLength DEF d, e
    <3>13. QED BY <1>3, <2>1, <3>12
  <2>4. QED BY <2>2, <2>3
<1>6. QED BY <1>4, <1>5
-----------------------------------------------------------------------------
\* Reading a value of each kind, when its number has been read.
LEMMA TypesDiffer ==
  /\ LongT \notin {BoolT, CharT, ByteT, ShortT, IntT} /\ BoolT # CharT
  /\ {ByteT, ShortT, IntT} \cap {BoolT, CharT} = {}
  /\ Width[ByteT] = 1 /\ Width[ShortT] = 2 /\ Width[IntT] = 4
  /\ Width[BoolT] = 1 /\ Width[CharT] = 1
BY SMT DEF Width, ByteT, ShortT, IntT, LongT, BoolT, CharT, Prefix

\* A scalar is read as the number that is written (jm_extra_decodeVal).
LEMMA ReadLongValue ==
  ASSUME NEW buf, NEW h, NEW l, NEW behind, GetLong(buf) = Ok(<<h, l>>, behind)
  PROVE  GetScalar(LongT, buf) = Ok(Long(h, l), behind)
<1>1. GetLong(buf).st = "ok" /\ GetLong(buf).v = <<h, l>> /\ GetLong(buf).buf = behind
  BY OkFields
<1>2. <<h, l>>[1] = h /\ <<h, l>>[2] = l
  OBVIOUS
<1>3. QED BY <1>1, <1>2 DEF GetScalar, Bind

LEMMA ReadUnsignedValue ==
  ASSUME NEW type \in {BoolT, CharT}, NEW buf, NEW x, NEW behind, GetUint(buf, 1) = Ok(x, behind)
  PROVE  GetScalar(type, buf) = Ok(Num(IF type = BoolT /\ x # 0 THEN 1 ELSE x), behind)
<1>1. GetUint(buf, 1).st = "ok" /\ GetUint(buf, 1).v = x /\ GetUint(buf, 1).buf = behind
  BY OkFields
<1>2. type # LongT
  BY TypesDiffer
<1>3. QED BY <1>1, <1>2 DEF GetScalar, Bind

LEMMA ReadSignedValue ==
  ASSUME NEW type \in {ByteT, ShortT, IntT}, NEW buf, NEW x, NEW behind,
         GetInt(buf, Width[type]) = Ok(x, behind)
  PROVE  GetScalar(type, buf) = Ok(Num(x), behind)
<1> DEFINE r == GetInt(buf, Width[type])
<1>1. r.st = "ok" /\ r.v = x /\ r.buf = behind
  BY OkFields
<1>2. type # LongT /\ type \notin {BoolT, CharT}
  BY TypesDiffer
<1>3. QED BY <1>1, <1>2 DEF GetScalar, Bind

(* A number, a truth value or a character arrives in an entry of its type, *)
(* whatever it is, and what is behind it is read from its start            *)
(* (jm_extra_encodeVal, jm_extra_decodeVal).                               *)
THEOREM ScalarsArrive ==
  ASSUME NEW ex, Holds(ex.type, ex.val), NEW behind \in Seq(Int)
  PROVE  GetScalar(ex.type, PutScalar(ex) \o behind) = Ok(ex.val, behind)
<1> DEFINE type == ex.type
           v    == ex.val
<1>1. ASSUME type = LongT, NEW h \in Int, NEW l \in Int, InSigned(h, 4), InSigned(l, 4),
             v = Long(h, l)
      PROVE  GetScalar(type, PutScalar(ex) \o behind) = Ok(v, behind)
  <2>1. v.n = <<h, l>>
    BY <1>1 DEF Long
  <2>2. PutScalar(ex) = PutLong(<<h, l>>)
    BY <1>1, <2>1 DEF PutScalar
  <2>3. GetLong(PutLong(<<h, l>>) \o behind) = Ok(<<h, l>>, behind)
    BY <1>1, LongRead
  <2>4. QED BY <1>1, <2>2, <2>3, ReadLongValue
<1>2. ASSUME type \in {BoolT, CharT}, NEW x \in Int, InUnsigned(x, 1), v = Num(x),
             type = BoolT => x \in {0, 1}
      PROVE  GetScalar(type, PutScalar(ex) \o behind) = Ok(v, behind)
  <2>1. v.n[1] = x
    BY <1>2 DEF Num
  <2>2. type # LongT /\ Width[type] = 1
    BY <1>2, TypesDiffer
  <2>3. PutScalar(ex) = PutInt(x, 1)
    BY <2>1, <2>2 DEF PutScalar
  <2>4. GetUint(PutInt(x, 1) \o behind, 1) = Ok(x, behind)
    BY <1>2, UintRead
  <2>5. (IF type = BoolT /\ x # 0 THEN 1 ELSE x) = x
    BY <1>2
  <2>6. GetScalar(type, PutInt(x, 1) \o behind)
          = Ok(Num(IF type = BoolT /\ x # 0 THEN 1 ELSE x), behind)
    BY <1>2, <2>4, ReadUnsignedValue
  <2>7. QED BY <1>2, <2>3, <2>5, <2>6
<1>3. ASSUME type \in {ByteT, ShortT, IntT}, NEW x \in Int, InSigned(x, Width[type]), v = Num(x)
      PROVE  GetScalar(type, PutScalar(ex) \o behind) = Ok(v, behind)
  <2> DEFINE w == Width[type]
  <2>1. v.n[1] = x
    BY <1>3 DEF Num
  <2>2. type # LongT /\ w \in {1, 2, 4}
    BY <1>3, TypesDiffer
  <2>3. PutScalar(ex) = PutInt(x, w)
    BY <2>1, <2>2 DEF PutScalar
  <2>4. GetInt(PutInt(x, w) \o behind, w) = Ok(x, behind)
    BY <1>3, <2>2, IntRead
  <2>5. GetScalar(type, PutInt(x, w) \o behind) = Ok(Num(x), behind)
    BY <1>3, <2>4, ReadSignedValue
  <2>6. QED BY <1>3, <2>3, <2>5
<1>4. InUnsigned(0, 1) /\ InUnsigned(1, 1)
  BY SMT DEF InUnsigned, Largest
<1> HIDE DEF type, v
<1>5. CASE type = LongT /\ v = Long(v.n[1], v.n[2]) /\ InSigned(v.n[1], 4) /\ InSigned(v.n[2], 4)
  <2>1. v.n[1] \in Int /\ v.n[2] \in Int
    BY <1>5 DEF InSigned
  <2>2. QED BY <1>1, <1>5, <2>1 DEF type, v
<1>6. CASE type = BoolT /\ v \in {Num(0), Num(1)}
  <2>1. CASE v = Num(0)
    BY <1>2, <1>4, <1>6, <2>1 DEF type, v
  <2>2. CASE v = Num(1)
    BY <1>2, <1>4, <1>6, <2>2 DEF type, v
  <2>3. QED BY <1>6, <2>1, <2>2
<1>7. CASE type = CharT /\ v = Num(v.n[1]) /\ InUnsigned(v.n[1], 1)
  <2>1. type # BoolT /\ v.n[1] \in Int
    BY <1>7, TypesDiffer DEF InUnsigned
  <2>2. QED BY <1>2, <1>7, <2>1 DEF type, v
<1>8. CASE type \in {ByteT, ShortT, IntT} /\ v = Num(v.n[1]) /\ InSigned(v.n[1], Width[type])
  <2>1. v.n[1] \in Int
    BY <1>8 DEF InSigned
  <2>2. QED BY <1>3, <1>8, <2>1 DEF type, v
<1>9. QED BY <1>5, <1>6, <1>7, <1>8 DEF Holds, type, v

\* A length that is cut to a signed byte.
Cut(n) == IF n % 256 < 128 THEN n % 256 ELSE (n % 256) - 256

\* The length of a string entry as a signed byte.
LEMMA CutLength ==
  ASSUME NEW n \in Nat
  PROVE  /\ Cut(n) \in Int /\ InSigned(Cut(n), 1)
         /\ Cut(n) <= n /\ -128 <= Cut(n) /\ Cut(n) <= 127
         /\ Signed(PutInt(n, 1)) = Cut(n)
<1>1. Cut(n) \in Int /\ InSigned(Cut(n), 1) /\ Cut(n) % 256 = n % 256
  BY SMT DEF Cut, InSigned, Largest
<1>2. PutInt(n, 1) = PutInt(Cut(n), 1)
  BY <1>1, OneByte
<1>3. Cut(n) <= n /\ -128 <= Cut(n) /\ Cut(n) <= 127
  BY SMT DEF Cut
<1>4. QED BY <1>1, <1>2, <1>3, SignedOne

\* The ways in which a string entry is read, after its first byte.
LEMMA ReadNull ==
  ASSUME NEW buf, NEW behind, GetInt(buf, 1) = Ok(-1, behind)
  PROVE  GetString(buf) = Ok(NullVal, Tail(buf))
BY OkFields DEF GetString

\* A string entry of length 0, and the others, are read by their length.
LEMMA ReadNoText ==
  ASSUME NEW buf, NEW behind, GetInt(buf, 1) = Ok(0, behind), GetLen(buf) = Ok(0, behind)
  PROVE  GetText(buf) = Ok(Text(<<>>), behind)
<1>1. GetInt(buf, 1).v = 0 /\ GetLen(buf).st = "ok" /\ GetLen(buf).buf = behind
  BY OkFields
<1>2. QED BY <1>1 DEF GetText, Bind

LEMMA ReadText ==
  ASSUME NEW buf, NEW first, NEW after, GetInt(buf, 1) = Ok(first, after), first # 0,
         NEW len, NEW more, GetLen(buf) = Ok(len, more)
  PROVE  /\ GetChars(more, len).st # "ok" => GetText(buf) = GetChars(more, len)
         /\ \A s, behind : GetChars(more, len) = Ok(s, behind) => GetText(buf) = Ok(Text(s), behind)
<1>1. /\ GetInt(buf, 1).v = first
      /\ GetLen(buf).st = "ok" /\ GetLen(buf).v = len /\ GetLen(buf).buf = more
  BY OkFields
<1>2. ASSUME GetChars(more, len).st # "ok"
      PROVE  GetText(buf) = GetChars(more, len)
  BY <1>1, <1>2 DEF GetText, Bind
<1>3. ASSUME NEW s, NEW behind, GetChars(more, len) = Ok(s, behind)
      PROVE  GetText(buf) = Ok(Text(s), behind)
  <2>1. /\ GetChars(more, len).st = "ok" /\ GetChars(more, len).v = s
        /\ GetChars(more, len).buf = behind
    BY <1>3, OkFields
  <2>2. QED BY <1>1, <2>1 DEF GetText, Bind
<1>4. QED BY <1>2, <1>3

\* A length of one byte, which is any but MaxByte, and that of MaxByte.
LEMMA ByteLength ==
  ASSUME NEW buf, NEW k, NEW more, GetInt(buf, 1) = Ok(k, more), k # MaxByte
  PROVE  GetLen(buf) = Ok(k, more)
<1>1. GetInt(buf, 1).st = "ok" /\ GetInt(buf, 1).v = k /\ GetInt(buf, 1).buf = more
  BY OkFields
<1>2. QED BY <1>1 DEF GetLen, Bind

\* A length of two bytes behind MaxByte.
LEMMA ShortLength ==
  ASSUME NEW buf, NEW two, NEW k, NEW more,
         GetInt(buf, 1) = Ok(MaxByte, two), GetInt(two, 2) = Ok(k, more), k # MaxShort
  PROVE  GetLen(buf) = Ok(k, more)
<1>1. /\ GetInt(buf, 1).st = "ok" /\ GetInt(buf, 1).v = MaxByte /\ GetInt(buf, 1).buf = two
      /\ GetInt(two, 2).st = "ok" /\ GetInt(two, 2).v = k /\ GetInt(two, 2).buf = more
  BY OkFields
<1>2. QED BY <1>1 DEF GetLen, Bind

\* The characters that are written for a cut length.
LEMMA FirstChars ==
  ASSUME NEW s \in Seq(Int), NEW k \in Int, k <= Len(s)
  PROVE  /\ SubSeq(s, 1, k) \in Seq(Int)
         /\ 0 <= k => Len(SubSeq(s, 1, k)) = k
         /\ k <= 0 => SubSeq(s, 1, k) = <<>>
<1>1. Len(s) \in Nat
  BY LenProperties
<1>2. CASE k <= 0
  <2>1. SubSeq(s, 1, k) = <<>>
    BY <1>2, SubSeqEmpty
  <2>2. QED BY <1>2, <2>1, EmptySeq
<1>3. CASE 0 < k
  <2>1. 1 \in 1 .. Len(s) + 1 /\ k \in 1 - 1 .. Len(s)
    BY <1>1, <1>3
  <2>2. SubSeq(s, 1, k) \in Seq(Int) /\ Len(SubSeq(s, 1, k)) = k - 1 + 1
    BY <1>1, <1>3, <2>1, SubSeqProperties
  <2>3. QED BY <1>3, <2>2
<1>4. QED BY <1>2, <1>3

\* What is written of a text, and how its first byte and its characters are
\* read (GetText): a length that is cut to 0 .. 127 brings that many characters,
\* any other is refused.
LEMMA TextRead ==
  ASSUME NEW s \in Seq(Int), NEW ex, ex.val.n = s, ex.len \in Nat, ex.len <= Len(s),
         NEW behind \in Seq(Int)
  PROVE  LET k   == Cut(ex.len)
             buf == PutText(ex) \o behind
         IN /\ PutText(ex) \in Seq(Int) /\ PutText(ex) # <<>>
            /\ GetText(buf) = IF k >= 0 THEN Ok(Text(SubSeq(s, 1, k)), behind) ELSE Fail(behind)
            /\ GetInt(buf, 1).v = IF k < MaxByte THEN k ELSE MaxByte
            /\ k = -1 => Tail(buf) = behind
<1> DEFINE n == ex.len
           k == Cut(n)
           t == SubSeq(s, 1, k)
<1>1. n \in Nat
  BY LenProperties
<1>2. k \in Int /\ InSigned(k, 1) /\ Signed(PutInt(n, 1)) = k
  BY <1>1, CutLength
<1>3. k <= n /\ -128 <= k /\ k <= 127
  BY <1>1, CutLength
<1>4. t \in Seq(Int) /\ (0 <= k => Len(t) = k) /\ (k <= 0 => t = <<>>)
  <2>1. Len(s) \in Nat /\ k <= Len(s)
    BY <1>1, <1>2, <1>3, LenProperties
  <2>2. QED BY <1>2, <2>1, FirstChars
<1>5. PutText(ex) = (IF k < MaxByte THEN PutInt(k, 1) ELSE PutInt(MaxByte, 1) \o PutInt(k, 2)) \o t
  BY <1>2 DEF PutText
<1> HIDE DEF n, k, t
<1>6. t \o behind \in Seq(Int)
  BY <1>4, ConcatProperties
<1>7. k <= 0 => t \o behind = behind
  BY <1>4, ConcatEmptySeq
<1>8. CASE k < MaxByte
  <2> DEFINE b   == PutInt(k, 1)
             buf == PutText(ex) \o behind
  <2>1. PutText(ex) = b \o t
    BY <1>5, <1>8
  <2>2. b \in Seq(Int) /\ Len(b) = 1
    BY <1>2, IntSeq
  <2>3. GetInt(buf, 1) = Ok(k, t \o behind)
    BY <1>2, <1>4, <2>1, IntAhead
  <2>4. k # MaxByte
    BY <1>2, <1>8, SMT DEF MaxByte
  <2> HIDE DEF b
  <2>5. b \o t \in Seq(Int) /\ Len(b \o t) = 1 + Len(t) /\ Len(t) \in Nat
    <3>1. b \o t \in Seq(Int) /\ Len(b \o t) = Len(b) + Len(t)
      <4>1. b \in Seq(Int) /\ t \in Seq(Int)
        BY <1>4, <2>2
      <4>2. QED BY ONLY <4>1, ConcatProperties
    <3>2. Len(t) \in Nat
      BY <1>4, LenProperties
    <3>3. QED BY <2>2, <3>1, <3>2
  <2>6. Len(b \o t) # 0
    BY <2>5
  <2>7. PutText(ex) \in Seq(Int) /\ PutText(ex) # <<>>
    BY <2>1, <2>5, <2>6, NotEmpty
  <2>8. GetInt(buf, 1).v = k
    BY <2>3, OkFields
  <2>9. buf = (b \o t) \o behind
    BY <2>1
  <2> HIDE DEF buf
  <2>10. GetLen(buf) = Ok(k, t \o behind)
    BY <2>3, <2>4, ByteLength
  <2>11. GetText(buf) = IF k >= 0 THEN Ok(Text(t), behind) ELSE Fail(behind)
    <3>1. CASE k = 0
      <4>1. t = <<>> /\ t \o behind = behind /\ k >= 0
        BY <1>4, <1>7, <3>1
      <4>2. GetInt(buf, 1) = Ok(0, behind) /\ GetLen(buf) = Ok(0, behind)
        BY <2>3, <2>10, <3>1, <4>1
      <4>3. GetText(buf) = Ok(Text(t), behind)
        BY <4>1, <4>2, ReadNoText
      <4>4. QED BY <4>1, <4>3
    <3>2. CASE k > 0
      <4>1. Len(t) # 0 /\ Len(t) = k
        BY <1>2, <1>4, <3>2
      <4>2. GetChars(t \o behind, k) = Ok(t, behind)
        BY <1>4, <4>1, CharsRead
      <4>3. k # 0 /\ k >= 0
        BY <1>2, <3>2
      <4>4. GetText(buf) = Ok(Text(t), behind)
        BY <2>3, <2>10, <4>2, <4>3, ReadText
      <4>5. QED BY <4>3, <4>4
    <3>3. CASE k < 0
      <4>1. t \o behind = behind
        BY <1>2, <1>7, <3>3
      <4>2. GetInt(buf, 1) = Ok(k, behind) /\ GetLen(buf) = Ok(k, behind)
        BY <2>3, <2>10, <4>1
      <4>3. GetChars(behind, k) = Fail(behind)
        BY <1>2, <3>3 DEF GetChars
      <4>4. GetChars(behind, k).st # "ok"
        BY <4>3 DEF Fail
      <4>5. k # 0 /\ ~(k >= 0)
        BY <1>2, <3>3
      <4>6. GetText(buf) = Fail(behind)
        BY <4>2, <4>3, <4>4, <4>5, ReadText
      <4>7. QED BY <4>5, <4>6
    <3>4. QED BY <1>2, <3>1, <3>2, <3>3
  <2>12. ASSUME k = -1 PROVE Tail(buf) = behind
    <3>1. b \o t = b
      <4>1. k <= 0
        BY <2>12
      <4>2. QED BY <1>4, <2>2, <4>1, ConcatEmptySeq
    <3>2. Len(b) # 0
      BY <2>2
    <3>3. b # <<>>
      BY <3>2, NotEmpty
    <3>4. buf = b \o behind
      BY <2>9, <3>1
    <3>5. /\ b \o behind \in Seq(Int) /\ Len(b \o behind) = Len(b) + Len(behind)
          /\ SubSeq(b \o behind, Len(b) + 1, Len(b) + Len(behind)) = behind
      BY <2>2, <3>3, ConcatParts
    <3>6. Len(behind) \in Nat
      BY LenProperties
    <3>7. buf \in Seq(Int) /\ Len(buf) = 1 + Len(behind) /\ SubSeq(buf, 2, Len(buf)) = behind
      BY <2>2, <3>4, <3>5, <3>6
    <3>8. QED BY <3>6, <3>7, EmptySeq, TailIsSubSeq
  <2>13. QED BY <1>8, <2>7, <2>8, <2>11, <2>12 DEF buf, k, t, n
<1>9. CASE ~(k < MaxByte)
  <2> DEFINE b   == PutInt(k, 2)
             one == PutInt(MaxByte, 1)
             buf == PutText(ex) \o behind
  <2>1. PutText(ex) = (one \o b) \o t
    BY <1>5, <1>9
  <2>2. InSigned(k, 2) /\ k # MaxShort /\ k # 0 /\ k >= 0 /\ k # -1
    BY <1>2, <1>3, <1>9, SMT DEF InSigned, Largest, MaxByte, MaxShort
  <2>3. b \in Seq(Int) /\ one \in Seq(Int) /\ Len(one) = 1
    BY <1>2, IntSeq, Limits
  <2>4. GetInt((b \o t) \o behind, 2) = Ok(k, t \o behind)
    BY <1>4, <2>2, IntAhead
  <2> DEFINE d == b \o t
  <2>5. d \in Seq(Int)
    BY <1>4, <2>3, ConcatProperties
  <2> HIDE DEF d
  <2>6. GetInt((one \o d) \o behind, 1) = Ok(MaxByte, d \o behind)
    BY <2>5, Limits, IntAhead
  <2> HIDE DEF b, one
  <2>7. (one \o b) \o t = one \o (b \o t)
    BY ONLY <1>4, <2>3, ConcatAssociative, SMTT(30)
  <2>8. PutText(ex) = one \o d
    BY <2>1, <2>7 DEF d
  <2>9. GetInt(buf, 1) = Ok(MaxByte, d \o behind)
    BY <2>6, <2>8
  <2>10. one \o d \in Seq(Int) /\ Len(one \o d) = 1 + Len(d) /\ Len(d) \in Nat
    <3>1. one \o d \in Seq(Int) /\ Len(one \o d) = Len(one) + Len(d)
      BY <2>3, <2>5, ConcatProperties
    <3>2. Len(d) \in Nat
      BY <2>5, LenProperties
    <3>3. QED BY <2>3, <3>1, <3>2
  <2>11. Len(one \o d) # 0
    BY <2>10
  <2>12. PutText(ex) \in Seq(Int) /\ PutText(ex) # <<>>
    BY <2>8, <2>10, <2>11, NotEmpty
  <2> HIDE DEF buf
  <2>13. GetLen(buf) = Ok(k, t \o behind)
    BY <2>2, <2>4, <2>9, ShortLength DEF d
  <2>14. Len(t) # 0 /\ Len(t) = k
    BY <1>2, <1>4, <2>2
  <2>15. GetChars(t \o behind, k) = Ok(t, behind)
    BY <1>4, <2>14, CharsRead
  <2>16. GetText(buf) = Ok(Text(t), behind)
    BY <2>9, <2>13, <2>15, Limits, ReadText
  <2>17. GetInt(buf, 1).v = MaxByte
    BY <2>9, OkFields
  <2>18. QED BY <1>9, <2>2, <2>12, <2>16, <2>17 DEF buf, k, t, n
<1>10. QED BY <1>8, <1>9

(* What becomes of a string entry of any length (jm_extra_encodeVal, which *)
(* cuts the length to a signed byte, and jm_extra_decodeVal): a length     *)
(* that is cut to 0 .. 127 brings that many characters and leaves the      *)
(* reader behind them, one that is cut to -1 brings the null pointer, and  *)
(* any other is refused.                                                   *)
THEOREM TextIsCut ==
  ASSUME NEW s \in Seq(Int), NEW ex, ex.val = Text(s), ex.len = Len(s),
         NEW behind \in Seq(Int)
  PROVE  GetString(PutText(ex) \o behind) =
           IF Cut(Len(s)) >= 0 THEN Ok(Text(SubSeq(s, 1, Cut(Len(s)))), behind)
           ELSE IF Cut(Len(s)) = -1 THEN Ok(NullVal, behind)
           ELSE Fail(behind)
<1> DEFINE k   == Cut(ex.len)
           buf == PutText(ex) \o behind
<1>1. ex.len \in Nat /\ ex.len <= Len(s) /\ ex.val.n = s
  BY LenProperties DEF Text
<1>2. /\ GetText(buf) = IF k >= 0 THEN Ok(Text(SubSeq(s, 1, k)), behind) ELSE Fail(behind)
      /\ GetInt(buf, 1).v = IF k < MaxByte THEN k ELSE MaxByte
      /\ k = -1 => Tail(buf) = behind
  BY <1>1, TextRead
<1>3. k \in Int
  BY <1>1, CutLength
<1> HIDE DEF k, buf
<1>4. MaxByte # -1 /\ -1 < MaxByte /\ ~(-1 >= 0)
  BY SMT DEF MaxByte
<1>5. CASE k = -1
  <2>1. GetString(buf) = Ok(NullVal, behind)
    BY <1>2, <1>4, <1>5 DEF GetString
  <2>2. QED BY <1>4, <1>5, <2>1 DEF k, buf
<1>6. CASE k # -1
  <2>1. GetString(buf) = GetText(buf)
    BY <1>2, <1>4, <1>6 DEF GetString
  <2>2. QED BY <1>2, <1>6, <2>1 DEF k, buf
<1>7. QED BY <1>5, <1>6

(* So a string of up to 127 characters arrives as it is. *)
COROLLARY TextArrives ==
  ASSUME NEW s \in Seq(Int), Len(s) < 128, NEW ex, ex.val = Text(s), ex.len = Len(s),
         NEW behind \in Seq(Int)
  PROVE  GetString(PutText(ex) \o behind) = Ok(ex.val, behind)
<1>1. \A n \in Nat : n < 128 => Cut(n) = n
  BY SMT DEF Cut
<1>2. Len(s) \in Nat /\ Cut(Len(s)) = Len(s)
  BY <1>1, LenProperties
<1>3. SubSeq(s, 1, Len(s)) = s
  BY SubSeqFull
<1>4. Len(s) >= 0
  BY <1>2
<1>5. QED BY <1>2, <1>3, <1>4, TextIsCut

\* The bytes at the front of a buffer are written, as many as its length says.
LEMMA BytesPart ==
  ASSUME NEW s \in Seq(Int), NEW ex, ex.val.n = s, ex.len \in Nat, ex.len # 0, ex.len <= Len(s),
         InUnsigned(ex.len, 2), NEW behind \in Seq(Int)
  PROVE  /\ PutBytes(ex) = Out(PutBytes(ex).bytes) /\ PutBytes(ex).bytes \in Seq(Int)
         /\ GetBuffer(PutBytes(ex).bytes \o behind) = Ok(Text(SubSeq(s, 1, ex.len)), behind)
<1> DEFINE n == ex.len
           t == SubSeq(s, 1, n)
           b == PutInt(n, 2)
           buf == PutBytes(ex).bytes \o behind
<1>1. n \in Int /\ 0 <= n
  OBVIOUS
<1>2. t \in Seq(Int) /\ Len(t) = n
  BY <1>1, FirstChars
<1>3. PutBytes(ex) = Out(b \o t)
  BY DEF PutBytes
<1>4. b \in Seq(Int)
  BY <1>1, IntSeq
<1> HIDE DEF t
<1>5. PutBytes(ex).bytes = b \o t
  BY <1>3 DEF Out
<1>6. t \o behind \in Seq(Int) /\ b \o t \in Seq(Int)
  BY <1>2, <1>4, ConcatProperties
<1>7. GetUint(b \o (t \o behind), 2) = Ok(n, t \o behind)
  BY <1>6, UintRead
<1>8. t # <<>>
  <2>1. Len(t) # 0
    BY <1>2
  <2>2. QED BY <2>1, NotEmpty
<1>9. GetBytes(t \o behind, n) = Ok(t, behind)
  BY <1>2, <1>8, BytesRead
<1> HIDE DEF b
<1>10. (b \o t) \o behind = b \o (t \o behind)
  BY ONLY <1>2, <1>4, behind \in Seq(Int), ConcatAssociative, SMTT(30)
<1>11. GetUint(buf, 2) = Ok(n, t \o behind)
  BY <1>5, <1>7, <1>10
<1>12. n # 0
  OBVIOUS
<1> DEFINE more == t \o behind
<1> HIDE DEF buf, n, more
<1>13. GetUint(buf, 2).st = "ok" /\ GetUint(buf, 2).v = n /\ GetUint(buf, 2).buf = more
  <2>1. GetUint(buf, 2) = Ok(n, more)
    BY <1>11 DEF more
  <2>2. QED BY <2>1, OkFields
<1>14. GetBytes(more, n).st = "ok" /\ GetBytes(more, n).v = t /\ GetBytes(more, n).buf = behind
  <2>1. GetBytes(more, n) = Ok(t, behind)
    BY <1>9 DEF more
  <2>2. QED BY <2>1, OkFields
<1>15. GetBuffer(buf) = Ok(Text(t), behind)
  BY <1>12, <1>13, <1>14 DEF GetBuffer, Bind
<1>16. QED BY <1>3, <1>5, <1>6, <1>15 DEF buf, t, n

(* A byte buffer that has bytes arrives, and what is behind it is read     *)
(* from its start (jm_extra_encodeVal, jm_extra_decodeVal).                *)
THEOREM BytesArrive ==
  ASSUME NEW s \in Seq(Int), Len(s) # 0, InUnsigned(Len(s), 2),
         NEW ex, ex.val = Text(s), ex.len = Len(s), NEW behind \in Seq(Int)
  PROVE  GetBuffer(PutBytes(ex).bytes \o behind) = Ok(ex.val, behind)
<1>1. ex.len \in Nat /\ ex.len <= Len(s) /\ ex.val.n = s
  BY LenProperties DEF Text
<1>2. SubSeq(s, 1, Len(s)) = s
  BY SubSeqFull
<1>3. GetBuffer(PutBytes(ex).bytes \o behind) = Ok(Text(SubSeq(s, 1, ex.len)), behind)
  BY <1>1, BytesPart
<1>4. QED BY <1>2, <1>3
-----------------------------------------------------------------------------
\* The entries of less than d maps and lists in one another.

\* The levels up to n, one after the other.
Stages(f, n) == \A i \in 0 .. n : f[i] = IF i = 0 THEN {} ELSE Holders(f[i - 1])

\* The first stages of Level as a function, which any two of them agree on.
LEMMA StagesExist == \A n \in Nat : \E f : Stages(f, n)
<1> DEFINE D == {n \in Nat : ~\E f : Stages(f, n)}
<1>1. SUFFICES ASSUME D # {} PROVE FALSE
  OBVIOUS
<1>2. D \in SUBSET Nat
  OBVIOUS
<1> HIDE DEF D
<1>3. PICK m \in D : \A k \in D : m <= k
  BY <1>1, <1>2, LeastOf
<1>4. m \in Nat /\ ~\E f : Stages(f, m)
  BY <1>3 DEF D
<1>5. CASE m = 0
  <2> DEFINE f == [i \in 0 .. 0 |-> {}]
  <2>1. Stages(f, 0)
    BY DEF Stages
  <2>2. QED BY <1>4, <1>5, <2>1
<1>6. CASE m # 0
  <2> DEFINE k == m - 1
  <2>1. k \in Nat /\ m = k + 1 /\ ~(m <= k)
    BY <1>4, <1>6
  <2>2. k \notin D
    BY <1>3, <2>1
  <2>3. PICK g : Stages(g, k)
    BY <2>1, <2>2 DEF D
  <2> HIDE DEF k
  <2> DEFINE f == [i \in 0 .. m |-> IF i = m THEN Holders(g[k]) ELSE g[i]]
  <2>4. Stages(f, m)
    <3> SUFFICES ASSUME NEW i \in 0 .. m
                 PROVE  f[i] = IF i = 0 THEN {} ELSE Holders(f[i - 1])
      BY DEF Stages
    <3>1. CASE i = m
      <4>1. i # 0 /\ i - 1 = k /\ k # m /\ k \in 0 .. m
        BY <1>6, <2>1, <3>1
      <4>2. f[k] = g[k] /\ f[i] = Holders(g[k])
        BY <3>1, <4>1
      <4>3. QED BY <4>1, <4>2
    <3>2. CASE i # m
      <4>1. i \in 0 .. k /\ (i # 0 => i - 1 \in 0 .. m /\ i - 1 # m)
        BY <2>1, <3>2
      <4>2. g[i] = IF i = 0 THEN {} ELSE Holders(g[i - 1])
        BY <2>3, <4>1 DEF Stages
      <4>3. f[i] = g[i] /\ (i # 0 => f[i - 1] = g[i - 1])
        BY <3>2, <4>1
      <4>4. QED BY <4>2, <4>3
    <3>3. QED BY <3>1, <3>2
  <2> HIDE DEF f
  <2>5. QED BY <1>4, <2>4
<1>7. QED BY <1>5, <1>6

LEMMA StagesAgree ==
  ASSUME NEW m \in Nat, NEW n \in Nat, NEW f, NEW g, Stages(f, m), Stages(g, n)
  PROVE  \A i \in Nat : i <= m /\ i <= n => f[i] = g[i]
<1> DEFINE D == {i \in Nat : i <= m /\ i <= n /\ f[i] # g[i]}
<1>1. SUFFICES ASSUME D # {} PROVE FALSE
  OBVIOUS
<1>2. D \in SUBSET Nat
  OBVIOUS
<1> HIDE DEF D
<1>3. PICK i \in D : \A k \in D : i <= k
  BY <1>1, <1>2, LeastOf
<1>4. i \in Nat /\ i <= m /\ i <= n /\ f[i] # g[i]
  BY <1>3 DEF D
<1>5. /\ f[i] = IF i = 0 THEN {} ELSE Holders(f[i - 1])
      /\ g[i] = IF i = 0 THEN {} ELSE Holders(g[i - 1])
  <2>1. i \in 0 .. m /\ i \in 0 .. n
    BY <1>4
  <2>2. QED BY <2>1 DEF Stages
<1>6. i # 0
  BY <1>4, <1>5
<1>7. i - 1 \in Nat /\ i - 1 <= m /\ i - 1 <= n /\ ~(i <= i - 1)
  BY <1>4, <1>6
<1>8. f[i - 1] = g[i - 1]
  BY <1>3, <1>7 DEF D
<1>9. QED BY <1>4, <1>5, <1>8

\* The levels are what their definition says.
LEMMA LevelIs ==
  /\ Level[0] = {}
  /\ \A d \in Nat : Level[d + 1] = Holders(Level[d])
<1> DEFINE F(f) == [d \in Nat |-> IF d = 0 THEN {} ELSE Holders(f[d - 1])]
           S(n) == CHOOSE f : Stages(f, n)
           g    == [n \in Nat |-> S(n)[n]]
<1>1. \A n \in Nat : Stages(S(n), n)
  BY StagesExist
<1> HIDE DEF S
<1>2. ASSUME NEW d \in Nat
      PROVE  g[d] = IF d = 0 THEN {} ELSE Holders(g[d - 1])
  <2>1. g[d] = S(d)[d]
    OBVIOUS
  <2>2. S(d)[d] = IF d = 0 THEN {} ELSE Holders(S(d)[d - 1])
    <3>1. d \in 0 .. d /\ Stages(S(d), d)
      BY <1>1
    <3>2. QED BY <3>1 DEF Stages
  <2>3. CASE d = 0
    BY <2>1, <2>2, <2>3
  <2>4. CASE d # 0
    <3> DEFINE k == d - 1
    <3>1. k \in Nat /\ k <= d /\ k <= k
      BY <2>4
    <3> HIDE DEF k
    <3>2. S(d)[k] = S(k)[k]
      <4>1. Stages(S(d), d) /\ Stages(S(k), k)
        BY <1>1, <3>1
      <4>2. QED BY <3>1, <4>1, StagesAgree
    <3>3. g[k] = S(k)[k]
      BY <3>1
    <3>4. S(d)[d] = Holders(S(d)[k])
      BY <2>2, <2>4 DEF k
    <3> HIDE DEF g
    <3>5. g[d] = Holders(g[k])
      BY <2>1, <3>2, <3>3, <3>4
    <3>6. QED BY <2>4, <3>5 DEF k
  <2>5. QED BY <2>3, <2>4
<1>3. g = F(g)
  <2> DEFINE G(d) == IF d = 0 THEN {} ELSE Holders(g[d - 1])
  <2>1. g = [d \in Nat |-> g[d]]
    OBVIOUS
  <2>2. \A d \in Nat : g[d] = G(d)
    BY <1>2
  <2>3. F(g) = [d \in Nat |-> G(d)]
    OBVIOUS
  <2> HIDE DEF g, G, F
  <2>4. [d \in Nat |-> g[d]] = [d \in Nat |-> G(d)]
    BY <2>2
  <2>5. QED BY <2>1, <2>3, <2>4
<1>4. Level = CHOOSE f : f = F(f)
  BY DEF Level
<1> HIDE DEF g, F
<1>5. Level = F(Level)
  BY <1>3, <1>4
<1>6. \A d \in Nat : Level[d] = IF d = 0 THEN {} ELSE Holders(Level[d - 1])
  BY <1>5 DEF F
<1>7. Level[0] = {}
  BY <1>6
<1>8. ASSUME NEW d \in Nat PROVE Level[d + 1] = Holders(Level[d])
  <2>1. d + 1 \in Nat /\ d + 1 # 0 /\ (d + 1) - 1 = d
    OBVIOUS
  <2>2. Level[d + 1] = IF d + 1 = 0 THEN {} ELSE Holders(Level[(d + 1) - 1])
    BY <1>6, <2>1
  <2>3. QED BY <2>1, <2>2
<1>9. QED BY <1>7, <1>8

\* More values make more sequences, and more entries that hold them.
LEMMA SeqGrows ==
  ASSUME NEW S, NEW T, S \subseteq T
  PROVE  Seq(S) \subseteq Seq(T)
<1> SUFFICES ASSUME NEW s \in Seq(S) PROVE s \in Seq(T)
  OBVIOUS
<1>1. s \in [1 .. Len(s) -> S] /\ Len(s) \in Nat
  BY LenProperties
<1>2. s \in [1 .. Len(s) -> T]
  BY <1>1
<1>3. QED BY <1>1, <1>2

LEMMA HoldersGrow ==
  ASSUME NEW S, NEW T, S \subseteq T
  PROVE  Holders(S) \subseteq Holders(T)
<1>1. Seq(S) \subseteq Seq(T)
  BY SeqGrows
<1> DEFINE A == Seq(S)
           B == Seq(T)
<1> HIDE DEF A, B
<1>2. QED BY <1>1 DEF Holders, A, B

\* What is on a level is on every level behind it.
LEMMA LevelGrows ==
  ASSUME NEW c \in Nat, NEW d \in Nat, c <= d
  PROVE  Level[c] \subseteq Level[d]
<1>1. \A n \in Nat : Level[n] \subseteq Level[n + 1]
  <2> DEFINE D == {n \in Nat : ~(Level[n] \subseteq Level[n + 1])}
  <2>1. SUFFICES ASSUME D # {} PROVE FALSE
    OBVIOUS
  <2>2. D \in SUBSET Nat
    OBVIOUS
  <2> HIDE DEF D
  <2>3. PICK m \in D : \A k \in D : m <= k
    BY <2>1, <2>2, LeastOf
  <2>4. m \in Nat /\ ~(Level[m] \subseteq Level[m + 1])
    BY <2>3 DEF D
  <2>5. m # 0
    BY <2>4, LevelIs
  <2> DEFINE k == m - 1
  <2>6. k \in Nat /\ m = k + 1 /\ ~(m <= k)
    BY <2>4, <2>5
  <2> HIDE DEF k
  <2>7. Level[k] \subseteq Level[k + 1]
    BY <2>3, <2>6 DEF D
  <2>8. Level[m] = Holders(Level[k]) /\ Level[m + 1] = Holders(Level[m])
    BY <2>4, <2>6, LevelIs
  <2>9. QED BY <2>4, <2>6, <2>7, <2>8, HoldersGrow
<1> DEFINE D == {n \in Nat : c <= n /\ ~(Level[c] \subseteq Level[n])}
<1>2. SUFFICES ASSUME D # {} PROVE FALSE
  OBVIOUS
<1>3. D \in SUBSET Nat
  OBVIOUS
<1> HIDE DEF D
<1>4. PICK m \in D : \A k \in D : m <= k
  BY <1>2, <1>3, LeastOf
<1>5. m \in Nat /\ c <= m /\ ~(Level[c] \subseteq Level[m])
  BY <1>4 DEF D
<1>6. m # c
  BY <1>5
<1> DEFINE k == m - 1
<1>7. k \in Nat /\ m = k + 1 /\ ~(m <= k) /\ c <= k
  BY <1>5, <1>6
<1> HIDE DEF k
<1>8. Level[c] \subseteq Level[k]
  BY <1>4, <1>7 DEF D
<1>9. QED BY <1>1, <1>5, <1>7, <1>8
-----------------------------------------------------------------------------
\* Loops that write and read entry after entry.

\* The first i of some sequences in one, and those behind them.
Before(ss, i)  == FlattenSeq(SubSeq(ss, 1, i))
Behind(ss, i) == FlattenSeq(SubSeq(ss, i + 1, Len(ss)))

\* A function on 1 .. n is a sequence of length n.
LEMMA ListIsSeq ==
  ASSUME NEW n \in Nat, NEW T, NEW s \in [1 .. n -> T]
  PROVE  s \in Seq(T) /\ Len(s) = n
<1>1. s \in Seq(T)
  BY SeqDef
<1>2. DOMAIN s = 1 .. n
  OBVIOUS
<1>3. QED BY <1>1, <1>2, LenProperties

\* No sequences make an empty one.
LEMMA FlattenNone == FlattenSeq(<<>>) = <<>>
<1>1. Len(<<>>) = 0
  BY EmptySeq
<1>2. QED BY <1>1, FlattenEmpty

\* The bytes in front of the reader and behind it: one part leaves one and joins the other.
LEMMA BeforeGrows ==
  ASSUME NEW S, NEW ss \in Seq(Seq(S))
  PROVE  /\ Before(ss, 0) = <<>> /\ Before(ss, Len(ss)) = FlattenSeq(ss)
         /\ \A i \in 0 .. Len(ss) : Before(ss, i) \in Seq(S)
         /\ \A i \in 1 .. Len(ss) : Before(ss, i) = Before(ss, i - 1) \o ss[i]
<1> DEFINE n == Len(ss)
           T == Seq(S)
<1>1. n \in Nat /\ \A i \in 1 .. n : ss[i] \in T
  BY LenProperties, ElementOfSeq
<1> HIDE DEF T
<1>2. ASSUME NEW i \in 0 .. n
      PROVE  /\ SubSeq(ss, 1, i) \in Seq(T) /\ Len(SubSeq(ss, 1, i)) = i
             /\ \A j \in 1 .. i : SubSeq(ss, 1, i)[j] = ss[j]
  <2>1. 1 \in 1 .. n + 1 /\ i \in 1 - 1 .. n
    BY <1>1
  <2>2. /\ SubSeq(ss, 1, i) \in Seq(T) /\ Len(SubSeq(ss, 1, i)) = i - 1 + 1
        /\ \A j \in 1 .. i - 1 + 1 : SubSeq(ss, 1, i)[j] = ss[1 + j - 1]
    BY <2>1, SubSeqProperties DEF T
  <2>3. i - 1 + 1 = i /\ \A j \in 1 .. i : 1 + j - 1 = j
    BY <1>1
  <2>4. QED BY <2>2, <2>3
<1>3. Before(ss, 0) = <<>>
  <2>1. SubSeq(ss, 1, 0) = <<>>
    BY <1>1, SubSeqEmpty
  <2>2. QED BY <2>1, FlattenNone DEF Before
<1>4. Before(ss, n) = FlattenSeq(ss)
  BY SubSeqFull DEF Before
<1>5. ASSUME NEW i \in 0 .. n PROVE Before(ss, i) \in Seq(S)
  BY <1>2, FlattenIsSeq DEF Before, T
<1>6. ASSUME NEW i \in 1 .. n PROVE Before(ss, i) = Before(ss, i - 1) \o ss[i]
  <2> DEFINE k == i - 1
             a == SubSeq(ss, 1, k)
             b == SubSeq(ss, 1, i)
  <2>1. k \in 0 .. n /\ i \in 0 .. n /\ i = k + 1 /\ k \in Nat
    BY <1>1
  <2>2. ss[i] \in T
    BY <1>1
  <2>3. a \in Seq(T) /\ Len(a) = k /\ \A j \in 1 .. k : a[j] = ss[j]
    BY <1>2, <2>1
  <2>4. b \in Seq(T) /\ Len(b) = k + 1 /\ \A j \in 1 .. k + 1 : b[j] = ss[j]
    BY <1>2, <2>1
  <2> HIDE DEF a, b, k
  <2>5. /\ Append(a, ss[i]) \in Seq(T) /\ Len(Append(a, ss[i])) = k + 1
        /\ \A j \in 1 .. k : Append(a, ss[i])[j] = a[j]
        /\ Append(a, ss[i])[k + 1] = ss[i]
    BY <2>2, <2>3, AppendProperties
  <2>6. b = Append(a, ss[i])
    <3>1. \A j \in 1 .. k + 1 : b[j] = Append(a, ss[i])[j]
      BY <2>1, <2>3, <2>4, <2>5
    <3>2. QED BY <2>4, <2>5, <3>1, SeqEqual
  <2>7. FlattenSeq(Append(a, ss[i])) = FlattenSeq(a) \o ss[i]
    BY <2>2, <2>3, FlattenAppend DEF T
  <2>8. QED BY <2>6, <2>7 DEF Before, a, b, k
<1>7. QED BY <1>3, <1>4, <1>5, <1>6

LEMMA BehindShrinks ==
  ASSUME NEW S, NEW ss \in Seq(Seq(S))
  PROVE  /\ Behind(ss, 0) = FlattenSeq(ss) /\ Behind(ss, Len(ss)) = <<>>
         /\ \A i \in 0 .. Len(ss) : Behind(ss, i) \in Seq(S)
         /\ \A i \in 1 .. Len(ss) : Behind(ss, i - 1) = ss[i] \o Behind(ss, i)
<1> DEFINE n == Len(ss)
           T == Seq(S)
<1>1. n \in Nat /\ \A i \in 1 .. n : ss[i] \in T
  BY LenProperties, ElementOfSeq
<1> HIDE DEF T
<1>2. ASSUME NEW i \in 0 .. n
      PROVE  LET t == SubSeq(ss, i + 1, n) IN
             t \in Seq(T) /\ Len(t) = n - i /\ \A j \in 1 .. n - i : t[j] = ss[i + j]
  <2> DEFINE t == SubSeq(ss, i + 1, n)
  <2>1. i + 1 \in 1 .. n + 1 /\ n \in (i + 1) - 1 .. n
    BY <1>1
  <2>2. /\ t \in Seq(T) /\ Len(t) = n - (i + 1) + 1
        /\ \A j \in 1 .. n - (i + 1) + 1 : t[j] = ss[(i + 1) + j - 1]
    BY <2>1, SubSeqProperties DEF T
  <2>3. n - (i + 1) + 1 = n - i /\ \A j \in 1 .. n - i : (i + 1) + j - 1 = i + j
    BY <1>1
  <2>4. QED BY <2>2, <2>3
<1>3. Behind(ss, 0) = FlattenSeq(ss)
  <2>1. SubSeq(ss, 1, n) = ss /\ 0 + 1 = 1
    BY SubSeqFull
  <2>2. QED BY <2>1 DEF Behind
<1>4. Behind(ss, n) = <<>>
  <2>1. SubSeq(ss, n + 1, n) = <<>>
    BY <1>1, SubSeqEmpty
  <2>2. QED BY <2>1, FlattenNone DEF Behind
<1>5. ASSUME NEW i \in 0 .. n PROVE Behind(ss, i) \in Seq(S)
  BY <1>2, FlattenIsSeq DEF Behind, T
<1>6. ASSUME NEW i \in 1 .. n PROVE Behind(ss, i - 1) = ss[i] \o Behind(ss, i)
  <2> DEFINE k == i - 1
             a == SubSeq(ss, k + 1, n)
             b == SubSeq(ss, i + 1, n)
  <2>1. k \in 0 .. n /\ i \in 0 .. n /\ i = k + 1 /\ k \in Nat /\ n - k = (n - i) + 1 /\ n - i \in Nat
    BY <1>1
  <2>2. a \in Seq(T) /\ Len(a) = n - k /\ \A j \in 1 .. n - k : a[j] = ss[k + j]
    BY <1>2, <2>1
  <2>3. b \in Seq(T) /\ Len(b) = n - i /\ \A j \in 1 .. n - i : b[j] = ss[i + j]
    BY <1>2, <2>1
  <2>4. Behind(ss, i - 1) = FlattenSeq(a) /\ Behind(ss, i) = FlattenSeq(b)
    BY DEF Behind
  <2> HIDE DEF a, b, k
  <2>5. Len(a) # 0 /\ Len(a) = Len(b) + 1
    <3> DEFINE q == n - i
    <3>1. q \in Nat /\ Len(b) = q /\ Len(a) = q + 1
      BY <2>1, <2>2, <2>3
    <3> HIDE DEF q
    <3>2. QED BY <3>1
  <2>6. a # <<>>
    BY <2>5, NotEmpty
  <2>7. \A j \in 1 .. Len(b) : b[j] = a[j + 1]
    <3> SUFFICES ASSUME NEW j \in 1 .. n - i PROVE b[j] = a[j + 1]
      BY <2>3
    <3>1. j + 1 \in 1 .. n - k /\ k + (j + 1) = i + j
      BY <1>1, <2>1
    <3>2. QED BY <2>2, <2>3, <3>1
  <2>8. a[1] = ss[i]
    <3>1. 1 \in 1 .. n - k /\ k + 1 = i
      BY <2>1
    <3>2. QED BY <2>2, <3>1
  <2>9. FlattenSeq(a) = a[1] \o FlattenSeq(b)
    BY <2>2, <2>3, <2>5, <2>6, <2>7, FlattenFirst DEF T
  <2>10. QED BY <2>4, <2>8, <2>9
<1>7. QED BY <1>3, <1>4, <1>5, <1>6
-----------------------------------------------------------------------------
\* What a loop has written, of which the entries in good can be written.
Written(front, bs, good, i) ==
  IF 1 .. i \subseteq good THEN Out(front \o Before(bs, i)) ELSE Refused

\* What is written for each entry, and one after the other.
Elements(els, bs, good) ==
  \A i \in 1 .. Len(bs) : els[i] = IF i \in good THEN Out(bs[i]) ELSE Refused
Chained(h, front, els, n) ==
  h[0] = Out(front) /\ \A i \in 1 .. n : h[i] = Cat(h[i - 1], els[i])

\* A loop that writes one entry more.
LEMMA WriteMore ==
  ASSUME NEW front \in Seq(Int), NEW bs \in Seq(Seq(Int)), NEW good,
         NEW els, Elements(els, bs, good)
  PROVE  /\ Written(front, bs, good, 0) = Out(front)
         /\ \A i \in 1 .. Len(bs) :
              Written(front, bs, good, i) = Cat(Written(front, bs, good, i - 1), els[i])
<1> DEFINE n == Len(bs)
<1>1. n \in Nat /\ \A i \in 1 .. n : bs[i] \in Seq(Int)
  BY LenProperties, ElementOfSeq
<1>2. Written(front, bs, good, 0) = Out(front)
  <2>1. 1 .. 0 \subseteq good
    OBVIOUS
  <2>2. Before(bs, 0) = <<>> /\ front \o <<>> = front
    BY BeforeGrows, ConcatEmptySeq
  <2>3. QED BY <2>1, <2>2 DEF Written
<1>3. ASSUME NEW i \in 1 .. n
      PROVE  Written(front, bs, good, i) = Cat(Written(front, bs, good, i - 1), els[i])
  <2> DEFINE k == i - 1
             a == Before(bs, k)
  <2>1. i \in 0 .. n /\ k \in 0 .. n /\ 1 .. i = 1 .. k \cup {i}
    BY <1>1
  <2>2. a \in Seq(Int) /\ Before(bs, i) = a \o bs[i] /\ bs[i] \in Seq(Int)
    BY <1>1, <2>1, BeforeGrows
  <2> HIDE DEF a, k
  <2>3. (front \o a) \o bs[i] = front \o (a \o bs[i])
    <3> DEFINE b == bs[i]
    <3>1. front \in Seq(Int) /\ a \in Seq(Int) /\ b \in Seq(Int)
      BY <2>2
    <3> HIDE DEF b
    <3>2. (front \o a) \o b = front \o (a \o b)
      BY ONLY <3>1, ConcatAssociative, SMTT(30)
    <3>3. QED BY <3>2 DEF b
  <2>4. els[i] = IF i \in good THEN Out(bs[i]) ELSE Refused
    BY DEF Elements
  <2>5. Written(front, bs, good, k) = IF 1 .. k \subseteq good THEN Out(front \o a) ELSE Refused
    BY DEF Written, a
  <2>6. Out(front \o a).ok /\ ~Refused.ok /\ Out(bs[i]).ok
    BY DEF Out, Refused
  <2>7. Out(front \o a).bytes = front \o a /\ Out(bs[i]).bytes = bs[i]
    BY DEF Out
  <2>8. CASE 1 .. k \subseteq good /\ i \in good
    <3>1. Written(front, bs, good, i) = Out(front \o Before(bs, i))
      BY <2>1, <2>8 DEF Written
    <3>2. Cat(Out(front \o a), Out(bs[i])) = Out((front \o a) \o bs[i])
      BY <2>6, <2>7 DEF Cat
    <3>3. QED BY <2>2, <2>3, <2>4, <2>5, <2>8, <3>1, <3>2 DEF k
  <2>9. CASE ~(1 .. k \subseteq good /\ i \in good)
    <3>1. Written(front, bs, good, i) = Refused
      BY <2>1, <2>9 DEF Written
    <3>2. ~(Written(front, bs, good, k).ok /\ els[i].ok)
      BY <2>4, <2>5, <2>6, <2>9
    <3>3. QED BY <3>1, <3>2 DEF Cat, k
  <2>10. QED BY <2>8, <2>9
<1>4. QED BY <1>2, <1>3

\* Two chains that start and go on alike are alike.
Alike(f, g, n) == \A i \in 0 .. n : f[i] = g[i]

\* Two chains that start alike and go on alike agree, so a loop writes what Written says.
LEMMA ChainsAgree ==
  ASSUME NEW n \in Nat, NEW f, NEW g, f[0] = g[0],
         \A i \in 1 .. n : f[i - 1] = g[i - 1] => f[i] = g[i]
  PROVE  Alike(f, g, n)
<1> DEFINE D == {i \in 0 .. n : f[i] # g[i]}
<1>1. SUFFICES ASSUME D # {} PROVE FALSE
  BY DEF Alike
<1>2. D \in SUBSET Nat
  OBVIOUS
<1> HIDE DEF D
<1>3. PICK i \in D : \A k \in D : i <= k
  BY <1>1, <1>2, LeastOf
<1>4. i \in 0 .. n /\ f[i] # g[i]
  BY <1>3 DEF D
<1>5. i # 0
  BY <1>4
<1>6. i \in 1 .. n /\ i - 1 \in 0 .. n /\ ~(i <= i - 1)
  BY <1>4, <1>5
<1>7. f[i - 1] = g[i - 1]
  BY <1>3, <1>6 DEF D
<1>8. QED BY <1>4, <1>6, <1>7

LEMMA WriteChain ==
  ASSUME NEW front \in Seq(Int), NEW bs \in Seq(Seq(Int)), NEW good,
         NEW els, Elements(els, bs, good), NEW h, Chained(h, front, els, Len(bs))
  PROVE  h[Len(bs)] = Written(front, bs, good, Len(bs))
<1> DEFINE n == Len(bs)
           g == [i \in 0 .. n |-> Written(front, bs, good, i)]
<1>1. n \in Nat /\ 0 \in 0 .. n /\ n \in 0 .. n
  BY LenProperties
<1>2. \A i \in 0 .. n : g[i] = Written(front, bs, good, i)
  OBVIOUS
<1>3. \A i \in 1 .. n : i \in 0 .. n /\ i - 1 \in 0 .. n
  BY <1>1
<1> HIDE DEF g
<1>4. /\ Written(front, bs, good, 0) = Out(front)
      /\ \A i \in 1 .. n : Written(front, bs, good, i) = Cat(Written(front, bs, good, i - 1), els[i])
  BY WriteMore
<1>5. h[0] = g[0]
  BY <1>1, <1>2, <1>4 DEF Chained
<1>6. \A i \in 1 .. n : h[i - 1] = g[i - 1] => h[i] = g[i]
  BY <1>2, <1>3, <1>4 DEF Chained
<1> HIDE DEF n
<1>7. Alike(h, g, n)
  BY ONLY <1>1, <1>5, <1>6, ChainsAgree
<1>8. QED BY <1>1, <1>2, <1>7 DEF Alike, n

\* A loop whose turns all go well ends with the last.
LEMMA LoopEndsWell ==
  ASSUME NEW n \in Nat, NEW read, \A i \in 0 .. n : read[i].st = "ok"
  PROVE  LoopEnd(read, n) = read[n]
<1> DEFINE P(i) == i = n \/ read[i].st # "ok"
<1>1. \A i \in 0 .. n : P(i) <=> i = n
  OBVIOUS
<1>2. n \in 0 .. n
  OBVIOUS
<1>3. (CHOOSE i \in 0 .. n : P(i)) = n
  BY <1>1, <1>2
<1>4. QED BY <1>3 DEF LoopEnd
-----------------------------------------------------------------------------
\* What the reader makes of an entry: another one, or nothing.
PartOf(layout, ex, p) ==
  IF p = <<>> THEN ~Carried(layout, ex)
  ELSE p[1].key = ex.key /\ (Carried(layout, ex) => Same(layout, ex, p[1]))

\* Have the first k entries of s arrived as the m entries of r, each of which
\* comes from the one that from names?
Comes(layout, s, k, r, m, from) ==
  /\ \A i, j \in 1 .. m : i < j => from[i] < from[j]
  /\ \A i \in 1 .. k : Carried(layout, s[i]) => \E j \in 1 .. m : from[j] = i
  /\ \A j \in 1 .. m :
       /\ r[j].key = s[from[j]].key
       /\ Carried(layout, s[from[j]]) => Same(layout, s[from[j]], r[j])
ArrivedUpTo(layout, s, k, r) ==
  \E from \in [1 .. Len(r) -> 1 .. k] : Comes(layout, s, k, r, Len(r), from)

\* One entry more of the list arrives, or is left out.
LEMMA ArrivedMore ==
  ASSUME NEW layout, NEW s, NEW k \in Nat, NEW U, NEW r \in Seq(U), ArrivedUpTo(layout, s, k, r),
         NEW p \in Seq(U), Len(p) <= 1, PartOf(layout, s[k + 1], p)
  PROVE  ArrivedUpTo(layout, s, k + 1, r \o p)
<1> DEFINE m == Len(r)
<1>1. m \in Nat /\ DOMAIN r = 1 .. m
  BY LenProperties
<1>0. PICK from \in [1 .. m -> 1 .. k] : Comes(layout, s, k, r, m, from)
  BY DEF ArrivedUpTo
<1>2. /\ from \in [1 .. m -> 1 .. k]
      /\ \A i, j \in 1 .. m : i < j => from[i] < from[j]
      /\ \A i \in 1 .. k : Carried(layout, s[i]) => \E j \in 1 .. m : from[j] = i
      /\ \A j \in 1 .. m :
           /\ r[j].key = s[from[j]].key
           /\ Carried(layout, s[from[j]]) => Same(layout, s[from[j]], r[j])
  BY <1>0 DEF Comes
<1>3. \A i \in 1 .. k + 1 : i # k + 1 => i \in 1 .. k
  OBVIOUS
<1>4. CASE p = <<>>
  <2>1. r \o p = r
    BY <1>4, ConcatEmptySeq
  <2>2. ~Carried(layout, s[k + 1])
    BY <1>4 DEF PartOf
  <2>3. from \in [1 .. m -> 1 .. k + 1]
    BY <1>2
  <2>4. \A i \in 1 .. k + 1 : Carried(layout, s[i]) => \E j \in 1 .. m : from[j] = i
    BY <1>2, <1>3, <2>2
  <2>5. Comes(layout, s, k + 1, r, m, from)
    BY <1>2, <2>4 DEF Comes
  <2>6. ArrivedUpTo(layout, s, k + 1, r)
    BY <2>3, <2>5 DEF ArrivedUpTo
  <2>7. QED BY <2>1, <2>6
<1>5. CASE p # <<>>
  <2> DEFINE t == r \o p
  <2>1. Len(p) = 1
    <3> DEFINE q == Len(p)
    <3>1. q \in Nat /\ q # 0 /\ q <= 1
      BY <1>5, LenProperties, EmptySeq
    <3> HIDE DEF q
    <3>2. q = 1
      BY <3>1
    <3>3. QED BY <3>2 DEF q
  <2>2. t \in Seq(U) /\ Len(t) = m + 1 /\ (\A i \in 1 .. m : t[i] = r[i]) /\ t[m + 1] = p[1]
    <3>1. /\ t \in Seq(U) /\ Len(t) = m + Len(p)
          /\ \A i \in 1 .. m + Len(p) : t[i] = IF i <= m THEN r[i] ELSE p[i - m]
      BY ConcatProperties
    <3>2. m + 1 \in 1 .. m + Len(p) /\ ~(m + 1 <= m) /\ (m + 1) - m = 1
      BY <1>1, <2>1
    <3>3. \A i \in 1 .. m : i \in 1 .. m + Len(p) /\ i <= m
      BY <1>1, <2>1
    <3> HIDE DEF t
    <3>4. t[m + 1] = p[1]
      BY <3>1, <3>2
    <3>5. \A i \in 1 .. m : t[i] = r[i]
      BY <3>1, <3>3
    <3>6. QED BY <2>1, <3>1, <3>4, <3>5
  <2>3. DOMAIN t = 1 .. m + 1
    BY <2>2, LenProperties
  <2> HIDE DEF t, m
  <2>4. /\ p[1].key = s[k + 1].key
        /\ Carried(layout, s[k + 1]) => Same(layout, s[k + 1], p[1])
    BY <1>5 DEF PartOf
  <2> DEFINE g == [j \in 1 .. m + 1 |-> IF j = m + 1 THEN k + 1 ELSE from[j]]
  <2>5. \A j \in 1 .. m + 1 : j # m + 1 => j \in 1 .. m
    BY <1>1
  <2>6. \A j \in 1 .. m : g[j] = from[j] /\ j \in 1 .. m + 1
    BY <1>1
  <2>7. g[m + 1] = k + 1 /\ m + 1 \in 1 .. m + 1
    BY <1>1
  <2>8. g \in [1 .. m + 1 -> 1 .. k + 1]
    BY <1>2, <2>5
  <2> HIDE DEF g
  <2>9. ASSUME NEW i \in 1 .. m + 1, NEW j \in 1 .. m + 1, i < j
        PROVE  g[i] < g[j]
    <3>1. i # m + 1
      BY <1>1, <2>9
    <3>2. i \in 1 .. m /\ g[i] = from[i] /\ from[i] \in 1 .. k
      BY <1>2, <2>5, <2>6, <3>1
    <3>3. CASE j = m + 1
      BY <2>7, <3>2, <3>3
    <3>4. CASE j # m + 1
      BY <1>2, <2>5, <2>6, <2>9, <3>2, <3>4
    <3>5. QED BY <3>3, <3>4
  <2>10. ASSUME NEW i \in 1 .. k + 1, Carried(layout, s[i])
         PROVE  \E j \in 1 .. m + 1 : g[j] = i
    <3>1. CASE i = k + 1
      BY <2>7, <3>1
    <3>2. CASE i # k + 1
      <4>1. PICK j \in 1 .. m : from[j] = i
        BY <1>2, <1>3, <2>10, <3>2
      <4>2. QED BY <2>6, <4>1
    <3>3. QED BY <3>1, <3>2
  <2>11. ASSUME NEW j \in 1 .. m + 1
         PROVE  /\ t[j].key = s[g[j]].key
                /\ Carried(layout, s[g[j]]) => Same(layout, s[g[j]], t[j])
    <3>1. CASE j = m + 1
      BY <2>2, <2>4, <2>7, <3>1
    <3>2. CASE j # m + 1
      BY <1>2, <2>2, <2>5, <2>6, <3>2
    <3>3. QED BY <3>1, <3>2
  <2>12. ArrivedUpTo(layout, s, k + 1, t)
    <3>1. Comes(layout, s, k + 1, t, m + 1, g)
      BY <2>9, <2>10, <2>11 DEF Comes
    <3>2. QED BY <2>2, <2>8, <3>1 DEF ArrivedUpTo
  <2>13. QED BY <2>12 DEF t
<1>6. QED BY <1>4, <1>5

\* What the reader made of the first k entries has arrived.
LEMMA PartsArrive ==
  ASSUME NEW layout, NEW s, NEW U, NEW parts \in Seq(Seq(U)), NEW k \in 0 .. Len(parts),
         \A i \in 1 .. k : Len(parts[i]) <= 1 /\ PartOf(layout, s[i], parts[i])
  PROVE  ArrivedUpTo(layout, s, k, Before(parts, k))
<1> DEFINE D == {i \in 0 .. k : ~ArrivedUpTo(layout, s, i, Before(parts, i))}
<1>1. SUFFICES ASSUME D # {} PROVE FALSE
  <2>1. Len(parts) \in Nat /\ k \in 0 .. k
    BY LenProperties
  <2>2. QED BY <2>1
<1>2. Len(parts) \in Nat /\ D \in SUBSET Nat /\ k \in Nat
  BY LenProperties
<1> HIDE DEF D
<1>3. PICK m \in D : \A i \in D : m <= i
  BY <1>1, <1>2, LeastOf
<1>4. m \in 0 .. k /\ ~ArrivedUpTo(layout, s, m, Before(parts, m))
  BY <1>3 DEF D
<1>5. CASE m = 0
  <2> DEFINE r == <<>>
  <2>1. Before(parts, 0) = <<>>
    BY BeforeGrows
  <2>2. Len(<<>>) = 0
    BY EmptySeq
  <2> DEFINE from == [j \in 1 .. 0 |-> 0]
  <2>3. from \in [1 .. 0 -> 1 .. 0]
    OBVIOUS
  <2>4. \A i \in 1 .. 0 : FALSE
    OBVIOUS
  <2> HIDE DEF from
  <2>5. ArrivedUpTo(layout, s, 0, <<>>)
    <3>1. Comes(layout, s, 0, <<>>, 0, from)
      BY <2>4 DEF Comes
    <3>2. QED BY <2>2, <2>3, <3>1 DEF ArrivedUpTo
  <2>6. QED BY <1>4, <1>5, <2>1, <2>5
<1>6. CASE m # 0
  <2> DEFINE j == m - 1
  <2>1. j \in 0 .. k /\ j \in Nat /\ m = j + 1 /\ ~(m <= j) /\ m \in 1 .. k /\ j \in 0 .. Len(parts)
        /\ m \in 1 .. Len(parts)
    BY <1>2, <1>4, <1>6
  <2>2. Before(parts, m) = Before(parts, j) \o parts[m] /\ Before(parts, j) \in Seq(U)
    BY <2>1, BeforeGrows
  <2> HIDE DEF j
  <2>3. ArrivedUpTo(layout, s, j, Before(parts, j))
    BY <1>3, <2>1 DEF D
  <2>4. parts[m] \in Seq(U) /\ Len(parts[m]) <= 1 /\ PartOf(layout, s[j + 1], parts[m])
    BY <2>1, ElementOfSeq
  <2>5. ArrivedUpTo(layout, s, j + 1, Before(parts, j) \o parts[m])
    BY <2>1, <2>2, <2>3, <2>4, ArrivedMore
  <2>6. QED BY <1>4, <2>1, <2>2, <2>5
<1>7. QED BY <1>5, <1>6

\* All entries have arrived: the list has.
LEMMA AllArrived ==
  ASSUME NEW layout, NEW S, NEW s \in Seq(S), NEW U, NEW r \in Seq(U),
         ArrivedUpTo(layout, s, Len(s), r)
  PROVE  ArrivedHere(layout, s, r)
<1>1. DOMAIN s = 1 .. Len(s) /\ DOMAIN r = 1 .. Len(r)
  BY LenProperties
<1>2. PICK from \in [1 .. Len(r) -> 1 .. Len(s)] : Comes(layout, s, Len(s), r, Len(r), from)
  BY DEF ArrivedUpTo
<1>3. QED BY <1>1, <1>2 DEF Comes, ArrivedHere
-----------------------------------------------------------------------------
\* The entries of a message (jm_extra_encodeVal, jm_extra_decodeVal).

\* No type is of two kinds.
LEMMA TypesTell ==
  /\ DOMAIN Width = {ByteT, ShortT, IntT, LongT, BoolT, CharT}
  /\ Unset \cap (DOMAIN Width \cup {StringT, BytesT} \cup Maps \cup Colls) = {}
  /\ DOMAIN Width \cap ({StringT, BytesT} \cup Maps \cup Colls) = {}
  /\ StringT # BytesT /\ {StringT, BytesT} \cap (Maps \cup Colls) = {} /\ Maps \cap Colls = {}
  /\ MapT \in Maps /\ NullT \in Unset
<1>1. DOMAIN Width = {ByteT, ShortT, IntT, LongT, BoolT, CharT}
  BY DEF Width
<1>2. Unset \cap ({ByteT, ShortT, IntT, LongT, BoolT, CharT} \cup {StringT, BytesT} \cup Maps \cup Colls) = {}
  BY SMT DEF Unset, Maps, Colls, NullT, FloatT, DoubleT, ByteT, ShortT, IntT, LongT, BoolT, CharT,
             StringT, BytesT, MapT, ProxyT, ListT, SetT, Prefix
<1>3. {ByteT, ShortT, IntT, LongT, BoolT, CharT} \cap ({StringT, BytesT} \cup Maps \cup Colls) = {}
  BY SMT DEF Maps, Colls, ByteT, ShortT, IntT, LongT, BoolT, CharT,
             StringT, BytesT, MapT, ProxyT, ListT, SetT, Prefix
<1>4. StringT # BytesT /\ {StringT, BytesT} \cap (Maps \cup Colls) = {} /\ Maps \cap Colls = {}
  BY SMT DEF Maps, Colls, StringT, BytesT, MapT, ProxyT, ListT, SetT, Prefix
<1>5. MapT \in Maps /\ NullT \in Unset
  BY DEF Maps, Unset
<1>6. QED BY <1>1, <1>2, <1>3, <1>4, <1>5

\* The number of a type is sent in one byte.
LEMMA TypeFits == \A t \in Types : InSigned(t, 1)
<1>1. \A n \in 0 .. 20 : InSigned(Prefix(n), 1)
  BY SMT DEF InSigned, Largest, Prefix
<1>2. \A t \in {ByteT, ShortT, IntT, LongT, BoolT, CharT} : InSigned(t, 1)
  BY <1>1 DEF ByteT, ShortT, IntT, LongT, BoolT, CharT
<1>3. \A t \in {StringT, BytesT} \cup Maps \cup Colls \cup Unset : InSigned(t, 1)
  BY <1>1 DEF Maps, Colls, Unset, NullT, FloatT, DoubleT, StringT, BytesT, MapT, ProxyT, ListT, SetT
<1>4. QED BY <1>2, <1>3, TypesTell DEF Types

\* What an entry has whose value was put.
LEMMA HolderHas ==
  ASSUME NEW S, NEW ex \in Holders(S)
  PROVE  /\ ex.key \in Seq(Int) /\ ex.type \in Types /\ InSigned(ex.type, 1)
         /\ ex.val.n \in Seq(Int) /\ ex.val.e \in Seq(S) /\ ex.len \in Nat
         /\ Fits(ex)
<1> DEFINE A == Seq(S)
<1> HIDE DEF A
<1>1. /\ ex \in [key : Seq(Nat), type : Types, val : [n : Seq(Int), e : A], len : Nat]
      /\ Fits(ex)
  BY DEF Holders, A
<1>2. /\ ex.key \in Seq(Nat) /\ ex.type \in Types
      /\ ex.val.n \in Seq(Int) /\ ex.val.e \in A /\ ex.len \in Nat
  BY <1>1
<1>3. ex.key \in Seq(Int)
  <2>1. Nat \subseteq Int
    OBVIOUS
  <2>2. QED BY <1>2, <2>1, SeqGrows
<1>4. QED BY <1>1, <1>2, <1>3, TypeFits DEF A

\* A string is written as bytes.
LEMMA StringBytes ==
  ASSUME NEW s \in Seq(Int)
  PROVE  WriteString(s) \in Seq(Int)
<1> DEFINE n == Len(s)
<1>1. n \in Int
  BY LenProperties
<1>2. PutInt(n, 1) \in Seq(Int) /\ PutInt(n, 2) \in Seq(Int) /\ PutInt(n, 4) \in Seq(Int)
  BY <1>1, IntSeq
<1>3. PutInt(MaxByte, 1) \in Seq(Int) /\ PutInt(MaxShort, 2) \in Seq(Int)
  BY IntSeq, Limits
<1> HIDE DEF n
<1>4. PutInt(MaxShort, 2) \o PutInt(n, 4) \in Seq(Int)
  BY <1>2, <1>3, ConcatProperties
<1>5. StringLen(n) \in Seq(Int)
  BY <1>2, <1>3, <1>4, ConcatProperties DEF StringLen
<1>6. QED BY <1>5, ConcatProperties DEF WriteString, n

\* Three parts in front of other bytes, one after the other.
Regrouped(a, b, c, d) ==
  /\ (a \o b) \o c \in Seq(Int) /\ c \o d \in Seq(Int) /\ b \o (c \o d) \in Seq(Int)
  /\ ((a \o b) \o c) \o d = a \o (b \o (c \o d))

\* Three parts in front of other bytes, taken together or one by one.
LEMMA ThreeParts ==
  ASSUME NEW a \in Seq(Int), NEW b \in Seq(Int), NEW c \in Seq(Int), NEW d \in Seq(Int)
  PROVE  Regrouped(a, b, c, d)
<1>1. a \o b \in Seq(Int) /\ c \o d \in Seq(Int)
  BY ConcatProperties
<1>2. (a \o b) \o c \in Seq(Int) /\ b \o (c \o d) \in Seq(Int)
  BY <1>1, ConcatProperties
<1>3. ((a \o b) \o c) \o d = (a \o b) \o (c \o d)
  BY ONLY <1>1, c \in Seq(Int), d \in Seq(Int), ConcatAssociative, SMTT(30)
<1>4. (a \o b) \o (c \o d) = a \o (b \o (c \o d))
  BY ONLY <1>1, a \in Seq(Int), b \in Seq(Int), ConcatAssociative, SMTT(30)
<1>5. QED BY <1>1, <1>2, <1>3, <1>4 DEF Regrouped
-----------------------------------------------------------------------------
\* How a value of a type is read.
ReadVal(t, body) ==
  CASE t \in DOMAIN Width -> GetScalar(t, body)
    [] t = BytesT  -> GetBuffer(body)
    [] t = StringT -> GetString(body)
    [] t = MapT    -> DecodeNested(body)
    [] t \in Unset -> Ok(NullVal, body)
    [] OTHER       -> Fail(body)

\* The reader of a value by its type (jm_extra_decodeVal).
LEMMA ReadValIs ==
  ASSUME NEW t \in Types, NEW body
  PROVE  /\ t \in DOMAIN Width => ReadVal(t, body) = GetScalar(t, body)
         /\ t = BytesT => ReadVal(t, body) = GetBuffer(body)
         /\ t = StringT => ReadVal(t, body) = GetString(body)
         /\ t = MapT => ReadVal(t, body) = DecodeNested(body)
         /\ t \in Unset => ReadVal(t, body) = Ok(NullVal, body)
         /\ t \in (Maps \cup Colls) \ {MapT} => ReadVal(t, body) = Fail(body)
<1>1. t \in DOMAIN Width => ReadVal(t, body) = GetScalar(t, body)
  BY TypesTell DEF ReadVal
<1>2. t = BytesT => ReadVal(t, body) = GetBuffer(body)
  BY TypesTell DEF ReadVal
<1>3. t = StringT => ReadVal(t, body) = GetString(body)
  BY TypesTell DEF ReadVal
<1>4. t = MapT => ReadVal(t, body) = DecodeNested(body)
  BY TypesTell DEF ReadVal
<1>5. t \in Unset => ReadVal(t, body) = Ok(NullVal, body)
  BY TypesTell DEF ReadVal
<1>6. t \in (Maps \cup Colls) \ {MapT} => ReadVal(t, body) = Fail(body)
  BY TypesTell DEF ReadVal
<1>7. QED BY <1>1, <1>2, <1>3, <1>4, <1>5, <1>6

\* A value of which the type is read first; what it fails with goes on.
LEMMA ExtraValRead ==
  ASSUME NEW buf, NEW t, NEW body, GetInt(buf, 1) = Ok(t, body)
  PROVE  /\ \A v, rest : ReadVal(t, body) = Ok(v, rest)
                           => DecodeExtraVal(buf) = Ok([type |-> t, val |-> v], rest)
         /\ \A rest : t # MapT /\ ReadVal(t, body) = Fail(rest) => DecodeExtraVal(buf) = Fail(rest)
<1>1. GetInt(buf, 1).st = "ok" /\ GetInt(buf, 1).v = t /\ GetInt(buf, 1).buf = body
  BY OkFields
<1> DEFINE r   == ReadVal(t, body)
           read == IF t = MapT /\ r.st = "fail" THEN Ok(NullVal, r.buf) ELSE r
<1>2. DecodeExtraVal(buf)
        = IF read.st = "ok" THEN Ok([type |-> t, val |-> read.v], read.buf) ELSE read
  BY <1>1 DEF DecodeExtraVal, ReadVal, Bind
<1> HIDE DEF r
<1>3. ASSUME NEW v, NEW rest, r = Ok(v, rest)
      PROVE  DecodeExtraVal(buf) = Ok([type |-> t, val |-> v], rest)
  <2>1. r.st = "ok" /\ r.v = v /\ r.buf = rest
    BY <1>3, OkFields
  <2>2. read = r
    BY <2>1
  <2>3. QED BY <1>2, <2>1, <2>2
<1>4. ASSUME NEW rest, t # MapT, r = Fail(rest)
      PROVE  DecodeExtraVal(buf) = Fail(rest)
  <2>1. r.st = "fail" /\ read = r
    BY <1>4 DEF Fail
  <2>2. QED BY <1>2, <1>4, <2>1
<1>5. QED BY <1>3, <1>4 DEF r

\* The entry that is made of a key, a type and a value.
Made(key, t, v) == [key |-> key, type |-> t, val |-> v, len |-> 0]

\* An entry of a map, with its key; one that fails leaves the map as it was.
LEMMA EntryRead ==
  ASSUME NEW m, m.keyType = StringT, NEW buf, NEW key, NEW body, ReadString(buf) = Ok(key, body)
  PROVE  /\ \A t, v, rest : DecodeExtraVal(body) = Ok([type |-> t, val |-> v], rest)
                              => DecodeExtraEntry(m, buf) = Ok(PutExtra(m, Made(key, t, v)), rest)
         /\ \A rest : DecodeExtraVal(body) = Fail(rest) => DecodeExtraEntry(m, buf) = Ok(m, rest)
<1>1. ReadString(buf).st = "ok" /\ ReadString(buf).v = key /\ ReadString(buf).buf = body
  BY OkFields
<1> DEFINE r == DecodeExtraVal(body)
<1>2. DecodeExtraEntry(m, buf) = WithEntry(m, key, r)
  BY <1>1 DEF DecodeExtraEntry, Bind
<1> HIDE DEF r
<1>3. ASSUME NEW t, NEW v, NEW rest, r = Ok([type |-> t, val |-> v], rest)
      PROVE  DecodeExtraEntry(m, buf) = Ok(PutExtra(m, Made(key, t, v)), rest)
  <2> DEFINE ex == [type |-> t, val |-> v]
  <2>1. r.st = "ok" /\ r.v = ex /\ r.buf = rest
    BY <1>3, OkFields
  <2>2. ex.type = t /\ ex.val = v
    OBVIOUS
  <2> HIDE DEF ex
  <2>3. [NewEntry(key, t) EXCEPT !.val = v] = Made(key, t, v)
    BY DEF NewEntry, Made
  <2>4. WithEntry(m, key, r) = Ok(PutExtra(m, [NewEntry(key, t) EXCEPT !.val = v]), rest)
    BY <2>1, <2>2 DEF WithEntry, Bind
  <2>5. QED BY <1>2, <2>3, <2>4
<1>4. ASSUME NEW rest, r = Fail(rest)
      PROVE  DecodeExtraEntry(m, buf) = Ok(m, rest)
  <2>1. r.st = "fail" /\ r.buf = rest
    BY <1>4 DEF Fail
  <2>2. QED BY <1>2, <2>1 DEF WithEntry
<1>5. QED BY <1>3, <1>4 DEF r

\* The bytes of an entry are read as p, wherever they are.
ReadAs(bytes, p) ==
  \A m, behind :
    m.keyType = StringT /\ behind \in Seq(Int) =>
      DecodeExtraEntry(m, bytes \o behind) = Ok(IF p = <<>> THEN m ELSE PutExtra(m, p[1]), behind)

\* The bytes of key, type and value, when the value is read from its own bytes.
LEMMA EntryReadAs ==
  ASSUME NEW key \in Seq(Int), InUnsigned(Len(key), 2), NEW t, InSigned(t, 1), NEW vb \in Seq(Int)
  PROVE  LET bytes == (WriteString(key) \o PutInt(t, 1)) \o vb IN
         /\ bytes \in Seq(Int)
         /\ \A v : (\A behind \in Seq(Int) : ReadVal(t, vb \o behind) = Ok(v, behind))
                     => ReadAs(bytes, <<Made(key, t, v)>>)
         /\ t # MapT /\ (\A behind \in Seq(Int) : ReadVal(t, vb \o behind) = Fail(behind))
              => ReadAs(bytes, <<>>)
<1> DEFINE a == WriteString(key)
           b == PutInt(t, 1)
           bytes == (a \o b) \o vb
<1>1. a \in Seq(Int) /\ b \in Seq(Int)
  BY StringBytes, IntSeq DEF InSigned
<1>2. ASSUME NEW behind \in Seq(Int)
      PROVE  /\ ReadString(bytes \o behind) = Ok(key, b \o (vb \o behind))
             /\ GetInt(b \o (vb \o behind), 1) = Ok(t, vb \o behind)
  <2> HIDE DEF a, b
  <2>1. /\ bytes \o behind = a \o (b \o (vb \o behind))
        /\ vb \o behind \in Seq(Int) /\ b \o (vb \o behind) \in Seq(Int)
    <3>1. Regrouped(a, b, vb, behind)
      BY <1>1, ThreeParts
    <3>2. QED BY <3>1 DEF Regrouped, bytes
  <2>2. ReadString(a \o (b \o (vb \o behind))) = Ok(key, b \o (vb \o behind))
    BY <2>1, StringsArrive DEF a
  <2>3. GetInt(b \o (vb \o behind), 1) = Ok(t, vb \o behind)
    BY <2>1, IntRead DEF b
  <2> HIDE DEF bytes
  <2>4. QED BY <2>1, <2>2, <2>3
<1>3. bytes \in Seq(Int)
  <2> HIDE DEF a, b
  <2>1. <<>> \in Seq(Int)
    OBVIOUS
  <2>2. Regrouped(a, b, vb, <<>>)
    BY <1>1, <2>1, ThreeParts
  <2>3. QED BY <2>2 DEF Regrouped, bytes
<1> HIDE DEF bytes, b
<1>4. ASSUME NEW v, \A behind \in Seq(Int) : ReadVal(t, vb \o behind) = Ok(v, behind)
      PROVE  ReadAs(bytes, <<Made(key, t, v)>>)
  <2> DEFINE p == <<Made(key, t, v)>>
  <2>1. p # <<>> /\ p[1] = Made(key, t, v)
    OBVIOUS
  <2> HIDE DEF p
  <2> SUFFICES ASSUME NEW m, NEW behind, m.keyType = StringT, behind \in Seq(Int)
               PROVE  DecodeExtraEntry(m, bytes \o behind) = Ok(PutExtra(m, p[1]), behind)
    BY <2>1 DEF ReadAs, p
  <2>2. DecodeExtraVal(b \o (vb \o behind)) = Ok([type |-> t, val |-> v], behind)
    BY <1>2, <1>4, ExtraValRead
  <2>3. QED BY <1>2, <2>1, <2>2, EntryRead
<1>5. ASSUME t # MapT, \A behind \in Seq(Int) : ReadVal(t, vb \o behind) = Fail(behind)
      PROVE  ReadAs(bytes, <<>>)
  <2> SUFFICES ASSUME NEW m, NEW behind, m.keyType = StringT, behind \in Seq(Int)
               PROVE  DecodeExtraEntry(m, bytes \o behind) = Ok(m, behind)
    BY DEF ReadAs
  <2>1. DecodeExtraVal(b \o (vb \o behind)) = Fail(behind)
    BY <1>2, <1>5, ExtraValRead
  <2>2. QED BY <1>2, <2>1, EntryRead
<1>6. QED BY <1>3, <1>4, <1>5 DEF bytes, b
-----------------------------------------------------------------------------
\* A scalar is written as bytes.
LEMMA ScalarBytes ==
  ASSUME NEW ex, ex.type \in DOMAIN Width, Holds(ex.type, ex.val)
  PROVE  PutScalar(ex) \in Seq(Int)
<1>1. CASE ex.type = LongT
  <2>1. PutScalar(ex) = PutInt(ex.val.n[1], 4) \o PutInt(ex.val.n[2], 4)
    BY <1>1 DEF PutScalar, PutLong
  <2>2. ex.val.n[1] \in Int /\ ex.val.n[2] \in Int
    BY <1>1, TypesDiffer DEF Holds, InSigned
  <2>3. PutInt(ex.val.n[1], 4) \in Seq(Int) /\ PutInt(ex.val.n[2], 4) \in Seq(Int)
    BY <2>2, IntSeq
  <2>4. QED BY <2>1, <2>3, ConcatProperties
<1>2. CASE ex.type # LongT
  <2>1. PutScalar(ex) = PutInt(ex.val.n[1], Width[ex.type])
    BY <1>2 DEF PutScalar
  <2>2. Width[ex.type] \in {1, 2, 4}
    BY <1>2, TypesDiffer, TypesTell
  <2>3. ex.val.n[1] \in Int
    <3>1. Num(0).n[1] = 0 /\ Num(1).n[1] = 1
      BY DEF Num
    <3>2. QED BY <1>2, <3>1 DEF Holds, InSigned, InUnsigned
  <2>4. QED BY <2>1, <2>2, <2>3, IntSeq
<1>3. QED BY <1>1, <1>2

\* How the value of a type is written.
LEMMA ExtraValWritten ==
  ASSUME NEW ex, ex.type \in Types
  PROVE  /\ ex.type \in DOMAIN Width => EncodeExtraVal(ex) = Out(PutScalar(ex))
         /\ ex.type = BytesT => EncodeExtraVal(ex) = PutBytes(ex)
         /\ ex.type = StringT => EncodeExtraVal(ex) = Out(PutText(ex))
         /\ ex.type = MapT => EncodeExtraVal(ex) = EncodeNested(ex.val.e, ex.val.n[1])
         /\ ex.type \in Unset => EncodeExtraVal(ex) = Out(<<>>)
         /\ ex.type \in (Maps \cup Colls) \ {MapT} => EncodeExtraVal(ex) = Out(<<>>)
<1> DEFINE t == ex.type
<1>0. EncodeExtraVal(ex) = CASE t \in DOMAIN Width -> Out(PutScalar(ex))
                             [] t = BytesT  -> PutBytes(ex)
                             [] t = StringT -> Out(PutText(ex))
                             [] t = MapT    -> EncodeNested(ex.val.e, ex.val.n[1])
                             [] OTHER       -> Out(<<>>)
  BY DEF EncodeExtraVal
<1> HIDE DEF t
<1>1. t \in DOMAIN Width => EncodeExtraVal(ex) = Out(PutScalar(ex))
  BY <1>0, TypesTell
<1>2. t = BytesT => EncodeExtraVal(ex) = PutBytes(ex)
  BY <1>0, TypesTell
<1>3. t = StringT => EncodeExtraVal(ex) = Out(PutText(ex))
  BY <1>0, TypesTell
<1>4. t = MapT => EncodeExtraVal(ex) = EncodeNested(ex.val.e, ex.val.n[1])
  BY <1>0, TypesTell
<1>5. t \in Unset => EncodeExtraVal(ex) = Out(<<>>)
  BY <1>0, TypesTell
<1>6. t \in (Maps \cup Colls) \ {MapT} => EncodeExtraVal(ex) = Out(<<>>)
  BY <1>0, TypesTell
<1>7. QED BY <1>1, <1>2, <1>3, <1>4, <1>5, <1>6 DEF t

\* What is in a map in a map is not written, or its bytes are read as entries
\* in which it has arrived.
NestedArrives(e) ==
  \/ EncodeNested(e, StringT) = Refused
  \/ \E bs, v, U :
       /\ bs \in Seq(Int) /\ EncodeNested(e, StringT) = Out(bs)
       /\ v.e \in Seq(U) /\ ArrivedInside("extra", e, v.e)
       /\ \A behind \in Seq(Int) : DecodeNested(bs \o behind) = Ok(v, behind)

\* The bytes of an entry are read as one that it has arrived in, or as none.
Arrives(ex, bs, p) ==
  /\ bs \in Seq(Int) /\ EncodeExtraEntry(ex, StringT) = Out(bs)
  /\ ReadAs(bs, p) /\ PartOf("extra", ex, p)
EntryArrives(ex) ==
  \E bs : Arrives(ex, bs, <<>>) \/ \E x : Arrives(ex, bs, <<x>>)

\* An entry with a value, and one that is left out.
LEMMA WrittenSo ==
  ASSUME NEW S, NEW ex \in Holders(S), InUnsigned(Len(ex.key), 2),
         ~(ex.type \in {StringT, BytesT} /\ ex.val = NullVal),
         NEW vb \in Seq(Int), EncodeExtraVal(ex) = Out(vb)
  PROVE  /\ \A v : /\ \A behind \in Seq(Int) : ReadVal(ex.type, vb \o behind) = Ok(v, behind)
                   /\ InExtra(ex) => Same("extra", ex, Made(ex.key, ex.type, v))
                   => EntryArrives(ex)
         /\ /\ ex.type # MapT
            /\ \A behind \in Seq(Int) : ReadVal(ex.type, vb \o behind) = Fail(behind)
            /\ ~InExtra(ex)
            => EntryArrives(ex)
<1> DEFINE a  == WriteString(ex.key)
           b  == PutInt(ex.type, 1)
           bs == (a \o b) \o vb
<1>1. ex.key \in Seq(Int) /\ InSigned(ex.type, 1)
  BY HolderHas
<1>2. EncodeExtraEntry(ex, StringT) = Out(bs)
  <2>1. Out(a \o b).ok /\ Out(vb).ok /\ Out(a \o b).bytes = a \o b /\ Out(vb).bytes = vb
    BY DEF Out
  <2>2. EncodeExtraEntry(ex, StringT) = Cat(Out(a \o b), Out(vb))
    BY DEF EncodeExtraEntry
  <2> HIDE DEF a, b
  <2>3. Cat(Out(a \o b), Out(vb)) = Out(bs)
    BY <2>1 DEF Cat
  <2>4. QED BY <2>2, <2>3
<1>3. /\ bs \in Seq(Int)
      /\ \A v : (\A behind \in Seq(Int) : ReadVal(ex.type, vb \o behind) = Ok(v, behind))
                  => ReadAs(bs, <<Made(ex.key, ex.type, v)>>)
      /\ ex.type # MapT /\ (\A behind \in Seq(Int) : ReadVal(ex.type, vb \o behind) = Fail(behind))
           => ReadAs(bs, <<>>)
  BY <1>1, EntryReadAs
<1>4. Carried("extra", ex) = InExtra(ex)
  BY DEF Carried
<1> HIDE DEF bs
<1>5. ASSUME NEW v, \A behind \in Seq(Int) : ReadVal(ex.type, vb \o behind) = Ok(v, behind),
             InExtra(ex) => Same("extra", ex, Made(ex.key, ex.type, v))
      PROVE  EntryArrives(ex)
  <2> DEFINE x == Made(ex.key, ex.type, v)
             p == <<x>>
  <2>1. x.key = ex.key
    BY DEF Made
  <2>2. ReadAs(bs, p)
    BY <1>3, <1>5
  <2>3. p # <<>> /\ p[1] = x
    OBVIOUS
  <2>4. InExtra(ex) => Same("extra", ex, x)
    BY <1>5
  <2> HIDE DEF x, p
  <2>5. PartOf("extra", ex, p)
    BY <1>4, <2>1, <2>3, <2>4 DEF PartOf
  <2>6. Arrives(ex, bs, p)
    BY <1>2, <1>3, <2>2, <2>5 DEF Arrives
  <2>7. QED BY <2>6 DEF EntryArrives, p
<1>6. ASSUME ex.type # MapT, \A behind \in Seq(Int) : ReadVal(ex.type, vb \o behind) = Fail(behind),
             ~InExtra(ex)
      PROVE  EntryArrives(ex)
  <2>1. ReadAs(bs, <<>>)
    BY <1>3, <1>6
  <2>2. PartOf("extra", ex, <<>>)
    BY <1>4, <1>6 DEF PartOf
  <2>3. Arrives(ex, bs, <<>>)
    BY <1>2, <1>3, <2>1, <2>2 DEF Arrives
  <2>4. QED BY <2>3 DEF EntryArrives
<1>7. QED BY <1>5, <1>6

\* A null pointer arrives as an entry of the type NullT.
LEMMA NullArrives ==
  ASSUME NEW S, NEW ex \in Holders(S), InUnsigned(Len(ex.key), 2),
         ex.type \in {StringT, BytesT}, ex.val = NullVal
  PROVE  EntryArrives(ex)
<1> DEFINE a  == WriteString(ex.key)
           b  == PutInt(NullT, 1)
           bs == a \o b
           x  == Made(ex.key, NullT, NullVal)
           p  == <<x>>
<1>1. ex.key \in Seq(Int) /\ InSigned(NullT, 1) /\ NullT \in Types /\ NullT \in Unset
  BY HolderHas, TypesTell, TypeFits DEF Types
<1>2. EncodeExtraEntry(ex, StringT) = Out(bs)
  BY DEF EncodeExtraEntry
<1>3. bs \in Seq(Int) /\ ReadAs(bs, p)
  <2> DEFINE vb == <<>>
  <2>1. a \in Seq(Int) /\ b \in Seq(Int) /\ vb \in Seq(Int)
    BY <1>1, StringBytes, IntSeq DEF InSigned
  <2>2. (a \o b) \o vb = bs
    BY <2>1, ConcatProperties, ConcatEmptySeq
  <2>3. ASSUME NEW behind \in Seq(Int) PROVE ReadVal(NullT, vb \o behind) = Ok(NullVal, behind)
    <3>1. vb \o behind = behind
      BY ConcatEmptySeq
    <3>2. QED BY <1>1, <3>1, ReadValIs
  <2> HIDE DEF vb
  <2>4. LET bytes == (a \o b) \o vb IN
        /\ bytes \in Seq(Int)
        /\ \A v : (\A behind \in Seq(Int) : ReadVal(NullT, vb \o behind) = Ok(v, behind))
                     => ReadAs(bytes, <<Made(ex.key, NullT, v)>>)
    BY <1>1, <2>1, EntryReadAs
  <2>5. QED BY <2>2, <2>3, <2>4
<1>4. x.key = ex.key /\ x.type = NullT /\ p # <<>> /\ p[1] = x
  BY DEF Made
<1> HIDE DEF x, p, bs
<1>5. Same("extra", ex, x)
  BY <1>4 DEF Same
<1>6. PartOf("extra", ex, p)
  BY <1>4, <1>5 DEF PartOf
<1>7. Arrives(ex, bs, p)
  BY <1>2, <1>3, <1>6 DEF Arrives
<1>8. QED BY <1>7 DEF EntryArrives, p

\* A length below 128 is not cut.
LEMMA NotCut == ASSUME NEW n \in Nat, n < 128 PROVE Cut(n) = n
BY SMT DEF Cut

\* A string entry arrives, cut or not (jm_extra_encodeVal, jm_extra_decodeVal).
LEMMA StringArrives ==
  ASSUME NEW S, NEW ex \in Holders(S), InUnsigned(Len(ex.key), 2),
         ex.type = StringT, ex.val # NullVal
  PROVE  EntryArrives(ex)
<1> DEFINE s  == ex.val.n
           k  == Cut(Len(s))
           vb == PutText(ex)
           t  == SubSeq(s, 1, k)
<1>1. s \in Seq(Int) /\ ex.val = Text(s) /\ ex.len = Len(s) /\ ex.type \in Types
  BY HolderHas DEF Fits, ValueFits
<1>2. EncodeExtraVal(ex) = Out(vb)
  BY <1>1, ExtraValWritten
<1>3. Len(s) \in Nat /\ k \in Int
  BY <1>1, LenProperties, CutLength
<1>4. vb \in Seq(Int)
  <2>1. <<>> \in Seq(Int) /\ ex.len \in Nat /\ ex.len <= Len(s)
    BY <1>1, <1>3
  <2>2. QED BY <1>1, <2>1, TextRead
<1>5. ASSUME NEW behind \in Seq(Int)
      PROVE  ReadVal(ex.type, vb \o behind) = IF k >= 0 THEN Ok(Text(t), behind)
                                              ELSE IF k = -1 THEN Ok(NullVal, behind)
                                              ELSE Fail(behind)
  <2>1. ReadVal(ex.type, vb \o behind) = GetString(vb \o behind)
    BY <1>1, ReadValIs
  <2>2. QED BY <1>1, <2>1, TextIsCut
<1>6. InExtra(ex) => Len(s) < 128
  BY TypesTell DEF InExtra, ShortText
<1>7. ex.type \notin Maps \cup Colls /\ ex.type # BytesT /\ ex.type # MapT
  BY TypesTell
<1> HIDE DEF vb, k, t
<1>8. InExtra(ex) => k = Len(s) /\ k >= 0
  BY <1>3, <1>6, NotCut DEF k
<1>9. CASE k >= 0
  <2>1. InExtra(ex) => t = s
    BY <1>1, <1>8, SubSeqFull DEF t
  <2>2. InExtra(ex) => Same("extra", ex, Made(ex.key, ex.type, Text(t)))
    <3> DEFINE x == Made(ex.key, ex.type, Text(t))
    <3>1. x.type = ex.type /\ x.val.n = t
      BY DEF Made, Text
    <3> HIDE DEF x
    <3>2. QED BY <1>7, <2>1, <3>1 DEF Same, x
  <2>3. QED BY <1>2, <1>4, <1>5, <1>9, <2>2, WrittenSo
<1>10. CASE ~(k >= 0) /\ k = -1
  BY <1>2, <1>4, <1>5, <1>8, <1>10, WrittenSo
<1>11. CASE ~(k >= 0) /\ k # -1
  BY <1>2, <1>4, <1>5, <1>7, <1>8, <1>11, WrittenSo
<1>12. QED BY <1>9, <1>10, <1>11

\* Every entry arrives or is left out, unless a map in it cannot be written.
LEMMA EachArrives ==
  ASSUME NEW S, NEW ex \in Holders(S), InUnsigned(Len(ex.key), 2),
         ex.type = MapT => NestedArrives(ex.val.e)
  PROVE  \/ EntryArrives(ex)
         \/ /\ EncodeExtraEntry(ex, StringT) = Refused
            /\ ex.type = MapT /\ EncodeNested(ex.val.e, StringT) = Refused
<1>1. ex.type \in Types /\ Fits(ex) /\ ex.val.n \in Seq(Int)
  BY HolderHas
<1>2. CASE ex.type \in {StringT, BytesT} /\ ex.val = NullVal
  BY <1>2, NullArrives
<1>3. CASE ex.type = StringT /\ ex.val # NullVal
  BY <1>3, StringArrives
<1>4. CASE ex.type = BytesT /\ ex.val # NullVal
  <2> DEFINE s  == ex.val.n
             vb == PutBytes(ex).bytes
  <2>1. ex.len = 4 /\ Len(s) >= 4
    BY <1>1, <1>4 DEF Fits, ValueFits
  <2>2. ex.len \in Nat /\ ex.len # 0 /\ ex.len <= Len(s) /\ InUnsigned(ex.len, 2)
    BY <2>1, SMT DEF InUnsigned, Largest
  <2>3. EncodeExtraVal(ex) = PutBytes(ex)
    BY <1>1, <1>4, ExtraValWritten
  <2>4. <<>> \in Seq(Int)
    OBVIOUS
  <2>5. PutBytes(ex) = Out(vb) /\ vb \in Seq(Int)
    BY <1>1, <2>2, <2>4, BytesPart
  <2>6. \A behind \in Seq(Int) : ReadVal(ex.type, vb \o behind) = Ok(Text(SubSeq(s, 1, 4)), behind)
    <3> SUFFICES ASSUME NEW behind \in Seq(Int)
                 PROVE  ReadVal(ex.type, vb \o behind) = Ok(Text(SubSeq(s, 1, 4)), behind)
      OBVIOUS
    <3>1. ReadVal(ex.type, vb \o behind) = GetBuffer(vb \o behind)
      BY <1>1, <1>4, ReadValIs
    <3>2. QED BY <1>1, <2>1, <2>2, <3>1, BytesPart
  <2> DEFINE x == Made(ex.key, ex.type, Text(SubSeq(s, 1, 4)))
  <2>7. x.type = ex.type /\ x.val.n = SubSeq(s, 1, 4)
    BY DEF Made, Text
  <2> HIDE DEF x, vb
  <2>8. Same("extra", ex, x)
    BY <1>4, <2>7, TypesTell DEF Same
  <2>9. QED BY <1>4, <2>3, <2>5, <2>6, <2>8, WrittenSo, TypesTell DEF x
<1>5. CASE ex.type \in DOMAIN Width
  <2> DEFINE vb == PutScalar(ex)
  <2>1. Holds(ex.type, ex.val) /\ ex.type \notin {StringT, BytesT} \cup Maps \cup Colls
    BY <1>1, <1>5, TypesTell DEF Fits, ValueFits
  <2>2. EncodeExtraVal(ex) = Out(vb) /\ vb \in Seq(Int)
    BY <1>1, <1>5, <2>1, ExtraValWritten, ScalarBytes
  <2>3. \A behind \in Seq(Int) : ReadVal(ex.type, vb \o behind) = Ok(ex.val, behind)
    BY <1>1, <1>5, <2>1, ReadValIs, ScalarsArrive
  <2> DEFINE x == Made(ex.key, ex.type, ex.val)
  <2>4. x.type = ex.type /\ x.val = ex.val
    BY DEF Made
  <2> HIDE DEF x, vb
  <2>5. Same("extra", ex, x)
    BY <2>1, <2>4 DEF Same
  <2>6. QED BY <2>1, <2>2, <2>3, <2>5, WrittenSo DEF x
<1>6. CASE ex.type = MapT
  <2> DEFINE e == ex.val.e
  <2>1. ex.type \notin {StringT, BytesT} /\ ex.type \in Maps
    BY <1>6, TypesTell
  <2>2. ex.val.n[1] = StringT
    BY <1>1, <2>1 DEF Fits, ValueFits
  <2>3. EncodeExtraVal(ex) = EncodeNested(e, StringT)
    BY <1>1, <1>6, <2>2, ExtraValWritten
  <2>4. CASE EncodeNested(e, StringT) = Refused
    <3>1. ~Refused.ok
      BY DEF Refused
    <3>2. EncodeExtraEntry(ex, StringT) = Refused
      BY <2>1, <2>3, <2>4, <3>1 DEF EncodeExtraEntry, Cat
    <3>3. QED BY <1>6, <2>4, <3>2
  <2>5. CASE EncodeNested(e, StringT) # Refused
    <3>1. PICK bs, v, U :
            /\ bs \in Seq(Int) /\ EncodeNested(e, StringT) = Out(bs)
            /\ v.e \in Seq(U) /\ ArrivedInside("extra", e, v.e)
            /\ \A behind \in Seq(Int) : DecodeNested(bs \o behind) = Ok(v, behind)
      BY <1>6, <2>5 DEF NestedArrives
    <3>2. \A behind \in Seq(Int) : ReadVal(ex.type, bs \o behind) = Ok(v, behind)
      BY <1>1, <1>6, <3>1, ReadValIs
    <3> DEFINE x == Made(ex.key, ex.type, v)
    <3>3. x.type = ex.type /\ x.val = v
      BY DEF Made
    <3> HIDE DEF x
    <3>4. Same("extra", ex, x)
      BY <2>1, <3>1, <3>3 DEF Same
    <3>5. EntryArrives(ex)
      BY <2>1, <2>3, <3>1, <3>2, <3>4, WrittenSo DEF x
    <3>6. QED BY <3>5
  <2>6. QED BY <2>4, <2>5
<1>7. CASE ex.type \in Unset \cup ((Maps \cup Colls) \ {MapT})
  <2> DEFINE vb == <<>>
  <2>1. /\ ex.type \notin {StringT, BytesT} /\ ex.type # MapT
        /\ ex.type \notin DOMAIN Width \cup {BytesT, MapT}
    BY <1>7, TypesTell
  <2>2. ~InExtra(ex)
    BY <2>1 DEF InExtra
  <2>3. EncodeExtraVal(ex) = Out(vb) /\ vb \in Seq(Int)
    BY <1>1, <1>7, ExtraValWritten
  <2>4. ASSUME NEW behind \in Seq(Int) PROVE vb \o behind = behind
    BY ConcatEmptySeq
  <2> HIDE DEF vb
  <2>5. CASE ex.type \in Unset
    <3>1. \A behind \in Seq(Int) : ReadVal(ex.type, vb \o behind) = Ok(NullVal, behind)
      BY <1>1, <2>4, <2>5, ReadValIs
    <3>2. QED BY <2>1, <2>2, <2>3, <3>1, WrittenSo
  <2>6. CASE ex.type \in (Maps \cup Colls) \ {MapT}
    <3>1. \A behind \in Seq(Int) : ReadVal(ex.type, vb \o behind) = Fail(behind)
      BY <1>1, <2>4, <2>6, ReadValIs
    <3>2. QED BY <2>1, <2>2, <2>3, <3>1, WrittenSo
  <2>7. QED BY <1>7, <2>5, <2>6
<1>8. QED BY <1>1, <1>2, <1>3, <1>4, <1>5, <1>6, <1>7 DEF Types
-----------------------------------------------------------------------------
\* The maps of a message (jm_extra_encode, jm_extra_decode).

\* A map with the entries of hd.
With(hd) == [keyType |-> StringT, hd |-> hd, size |-> Len(hd)]

\* A map with other entries.
LEMMA RecordWith ==
  ASSUME NEW m, m = [keyType |-> m.keyType, hd |-> m.hd, size |-> m.size], NEW h, NEW z, NEW p,
         p = [m EXCEPT !.hd = h, !.size = z]
  PROVE  p = [keyType |-> m.keyType, hd |-> h, size |-> z]
<1>1. p = [keyType |-> p.keyType, hd |-> p.hd, size |-> p.size]
  OBVIOUS
<1>2. p.keyType = m.keyType /\ p.hd = h /\ p.size = z
  OBVIOUS
<1>3. QED BY <1>1, <1>2

\* One turn of the loop of jm_extra_decode.
LEMMA ReadTurn ==
  ASSUME NEW U, NEW hd \in Seq(U), NEW p \in Seq(U), p = <<>> \/ \E x : p = <<x>>,
         NEW b, ReadAs(b, p), NEW rest \in Seq(Int)
  PROVE  DecodeExtraEntry(With(hd), b \o rest) = Ok(With(hd \o p), rest)
<1> DEFINE m == With(hd)
<1>1. m.keyType = StringT /\ m.hd = hd /\ m.size = Len(hd)
  BY DEF With
<1>2. DecodeExtraEntry(m, b \o rest) = Ok(IF p = <<>> THEN m ELSE PutExtra(m, p[1]), rest)
  BY <1>1 DEF ReadAs
<1>3. CASE p = <<>>
  <2>1. hd \o p = hd
    BY <1>3, ConcatEmptySeq
  <2>2. QED BY <1>2, <1>3, <2>1
<1>4. CASE p # <<>>
  <2>1. PICK x : p = <<x>>
    BY <1>4
  <2>2. p[1] = x /\ Len(p) = 1 /\ x \in U
    <3>1. 1 \in 1 .. Len(p) /\ Len(p) = 1 /\ p[1] = x
      BY <2>1
    <3>2. QED BY <3>1, ElementOfSeq
  <2>3. hd \o p = Append(hd, x)
    BY <2>1, <2>2, AppendIsConcat
  <2>4. Len(Append(hd, x)) = Len(hd) + 1
    BY <2>2, AppendProperties
  <2>5. PutExtra(m, x) = With(hd \o p)
    <3> DEFINE r == PutExtra(m, x)
    <3>1. r = [m EXCEPT !.hd = Append(m.hd, x), !.size = m.size + 1]
      BY DEF PutExtra
    <3>2. m = [keyType |-> m.keyType, hd |-> m.hd, size |-> m.size]
      BY DEF With
    <3> HIDE DEF r, m
    <3>3. r = [keyType |-> m.keyType, hd |-> Append(m.hd, x), size |-> m.size + 1]
      BY <3>1, <3>2, RecordWith
    <3>4. QED BY <1>1, <2>3, <2>4, <3>3 DEF With, r
  <2>6. QED BY <1>2, <1>4, <2>2, <2>5
<1>5. QED BY <1>3, <1>4

\* A value that was read is used.
LEMMA BindOk ==
  ASSUME NEW m, NEW buf, NEW r, r = Ok(m, buf)
  PROVE  /\ Bind(r, DecodeExtraEntry) = DecodeExtraEntry(m, buf)
         /\ Bind(r, LAMBDA v, rest : Ok(MapVal(v), rest)) = Ok(MapVal(m), buf)
<1>1. r.st = "ok" /\ r.v = m /\ r.buf = buf
  BY OkFields
<1>2. Bind(r, DecodeExtraEntry) = DecodeExtraEntry(m, buf)
  BY <1>1 DEF Bind
<1>3. Bind(r, LAMBDA v, rest : Ok(MapVal(v), rest)) = Ok(MapVal(m), buf)
  BY <1>1 DEF Bind
<1>4. QED BY <1>2, <1>3

\* The entries of some parts, each read from its bytes.
LEMMA ExtraAllRead ==
  ASSUME NEW bs \in Seq(Seq(Int)), NEW U, NEW parts \in Seq(Seq(U)), Len(parts) = Len(bs),
         \A i \in 1 .. Len(bs) :
           (parts[i] = <<>> \/ \E x : parts[i] = <<x>>) /\ ReadAs(bs[i], parts[i]),
         NEW behind \in Seq(Int)
  PROVE  DecodeExtraAll(Len(bs), StringT, FlattenSeq(bs) \o behind)
           = Ok(MapVal(With(FlattenSeq(parts))), behind)
<1> DEFINE n      == Len(bs)
           buf    == FlattenSeq(bs) \o behind
           F(f)   == [i \in 0 .. n |->
                        IF i = 0 THEN Ok(EmptyMap(StringT), buf)
                        ELSE Bind(f[i - 1], DecodeExtraEntry)]
           h      == CHOOSE f : f = F(f)
           W(i)   == Ok(With(Before(parts, i)), Behind(bs, i) \o behind)
           w      == [i \in 0 .. n |-> W(i)]
<1>1. n \in Nat
  BY LenProperties
<1>2. DecodeExtraAll(n, StringT, buf) = Bind(LoopEnd(h, n), LAMBDA m, rest : Ok(MapVal(m), rest))
  BY DEF DecodeExtraAll
<1>3. W(0) = Ok(EmptyMap(StringT), buf)
  <2>1. Before(parts, 0) = <<>> /\ Behind(bs, 0) = FlattenSeq(bs)
    BY BeforeGrows, BehindShrinks
  <2>2. With(<<>>) = EmptyMap(StringT)
    BY EmptySeq DEF With, EmptyMap
  <2>3. QED BY <2>1, <2>2
<1>4. ASSUME NEW i \in 1 .. n PROVE W(i) = Bind(W(i - 1), DecodeExtraEntry)
  <2> DEFINE k == i - 1
             b == bs[i]
             p == parts[i]
             rest == Behind(bs, i) \o behind
  <2>1. i \in 0 .. n /\ k \in 0 .. n /\ i \in 1 .. Len(parts) /\ k \in 0 .. Len(parts)
    BY <1>1
  <2>2. Before(parts, k) \in Seq(U) /\ p \in Seq(U) /\ Before(parts, i) = Before(parts, k) \o p
    BY <2>1, BeforeGrows, ElementOfSeq
  <2>3. Behind(bs, i) \in Seq(Int) /\ b \in Seq(Int) /\ Behind(bs, k) = b \o Behind(bs, i)
    BY <2>1, BehindShrinks, ElementOfSeq
  <2> HIDE DEF k
  <2>4. rest \in Seq(Int) /\ Behind(bs, k) \o behind = b \o rest
    <3> DEFINE c == Behind(bs, i)
    <3>1. b \in Seq(Int) /\ c \in Seq(Int) /\ behind \in Seq(Int)
      BY <2>3
    <3> HIDE DEF b, c
    <3>2. (b \o c) \o behind = b \o (c \o behind)
      BY ONLY <3>1, ConcatAssociative, SMTT(30)
    <3>3. c \o behind \in Seq(Int)
      BY <3>1, ConcatProperties
    <3>4. QED BY <2>3, <3>2, <3>3 DEF c
  <2>5. W(k) = Ok(With(Before(parts, k)), b \o rest)
    BY <2>4
  <2>6. Bind(W(k), DecodeExtraEntry) = DecodeExtraEntry(With(Before(parts, k)), b \o rest)
    BY <2>5, BindOk
  <2>7. (p = <<>> \/ \E x : p = <<x>>) /\ ReadAs(b, p)
    OBVIOUS
  <2> HIDE DEF p, b, rest
  <2>8. DecodeExtraEntry(With(Before(parts, k)), b \o rest) = Ok(With(Before(parts, k) \o p), rest)
    <3> DEFINE m == Before(parts, k)
    <3>1. m \in Seq(U) /\ p \in Seq(U) /\ rest \in Seq(Int)
      BY <2>2, <2>4
    <3> HIDE DEF m
    <3>2. DecodeExtraEntry(With(m), b \o rest) = Ok(With(m \o p), rest)
      BY ONLY <3>1, <2>7, ReadTurn
    <3>3. QED BY <3>2 DEF m
  <2>9. QED BY <2>2, <2>6, <2>8 DEF rest, k
<1> HIDE DEF W
<1>5. w = F(w)
  <2> DEFINE G(i) == IF i = 0 THEN Ok(EmptyMap(StringT), buf) ELSE Bind(w[i - 1], DecodeExtraEntry)
  <2>1. ASSUME NEW i \in 0 .. n PROVE w[i] = G(i)
    <3>1. CASE i = 0
      BY <1>3, <3>1
    <3>2. CASE i # 0
      <4>1. i \in 1 .. n /\ i - 1 \in 0 .. n
        BY <1>1, <3>2
      <4>2. w[i] = W(i) /\ w[i - 1] = W(i - 1)
        BY <4>1
      <4> HIDE DEF w
      <4>3. QED BY <1>4, <3>2, <4>1, <4>2
    <3>3. QED BY <3>1, <3>2
  <2>2. w = [i \in 0 .. n |-> w[i]]
    OBVIOUS
  <2>3. F(w) = [i \in 0 .. n |-> G(i)]
    OBVIOUS
  <2> HIDE DEF w, G, F
  <2>4. [i \in 0 .. n |-> w[i]] = [i \in 0 .. n |-> G(i)]
    BY <2>1
  <2>5. QED BY <2>2, <2>3, <2>4
<1>6. h = F(h)
  <2> HIDE DEF w, F
  <2>1. QED BY <1>5
<1> HIDE DEF h
<1>7. h[0] = Ok(EmptyMap(StringT), buf) /\ \A i \in 1 .. n : h[i] = Bind(h[i - 1], DecodeExtraEntry)
  <2> DEFINE G(i) == IF i = 0 THEN Ok(EmptyMap(StringT), buf) ELSE Bind(h[i - 1], DecodeExtraEntry)
  <2>1. F(h) = [i \in 0 .. n |-> G(i)]
    OBVIOUS
  <2> HIDE DEF G, F
  <2>2. \A i \in 0 .. n : h[i] = G(i)
    BY <1>6, <2>1
  <2>3. 0 \in 0 .. n /\ \A i \in 1 .. n : i \in 0 .. n /\ i # 0
    BY <1>1
  <2>4. QED BY <2>2, <2>3 DEF G
<1>8. \A i \in 0 .. n : h[i] = W(i)
  <2> DEFINE g == [i \in 0 .. n |-> W(i)]
  <2>1. \A i \in 0 .. n : g[i] = W(i)
    OBVIOUS
  <2>2. 0 \in 0 .. n /\ \A i \in 1 .. n : i \in 0 .. n /\ i - 1 \in 0 .. n
    BY <1>1
  <2> HIDE DEF g
  <2>3. h[0] = g[0]
    BY <1>3, <1>7, <2>1, <2>2
  <2>4. ASSUME NEW i \in 1 .. n, h[i - 1] = g[i - 1] PROVE h[i] = g[i]
    BY <1>4, <1>7, <2>1, <2>2, <2>4
  <2>5. \A i \in 1 .. n : h[i - 1] = g[i - 1] => h[i] = g[i]
    BY <2>4
  <2> HIDE DEF n
  <2>6. Alike(h, g, n)
    BY ONLY <1>1, <2>3, <2>5, ChainsAgree
  <2>7. QED BY <2>1, <2>6 DEF Alike
<1>9. \A i \in 0 .. n : h[i].st = "ok"
  BY <1>8, OkFields DEF W
<1>10. LoopEnd(h, n) = W(n)
  <2>1. n \in 0 .. n
    BY <1>1
  <2>2. QED BY <1>1, <1>8, <1>9, <2>1, LoopEndsWell
<1>11. W(n) = Ok(With(FlattenSeq(parts)), behind)
  <2>1. Before(parts, n) = FlattenSeq(parts) /\ Behind(bs, n) = <<>>
    BY BeforeGrows, BehindShrinks
  <2>2. <<>> \o behind = behind
    BY ConcatEmptySeq
  <2>3. QED BY <2>1, <2>2 DEF W
<1>12. QED BY <1>2, <1>10, <1>11, BindOk

\* What is written for a map, of which the entries in good can be written.
LEMMA ExtraAllWritten ==
  ASSUME NEW hd, hd # <<>>, NEW bs \in Seq(Seq(Int)), Len(bs) = Len(hd), NEW good,
         \A i \in 1 .. Len(hd) :
           EncodeExtraEntry(hd[i], StringT) = IF i \in good THEN Out(bs[i]) ELSE Refused
  PROVE  EncodeEntries(hd, StringT)
           = Written(PutInt(Len(hd), 1) \o PutInt(StringT, 1), bs, good, Len(hd))
<1> DEFINE n     == Len(hd)
           front == PutInt(n, 1) \o PutInt(StringT, 1)
           els   == [i \in 1 .. n |-> EncodeExtraEntry(hd[i], StringT)]
           F(f)  == [i \in 0 .. n |->
                       IF i = 0 THEN Out(front)
                       ELSE Cat(f[i - 1], EncodeExtraEntry(hd[i], StringT))]
           h     == CHOOSE f : f = F(f)
           w     == [i \in 0 .. n |-> Written(front, bs, good, i)]
<1>1. n \in Nat /\ n = Len(bs)
  BY LenProperties
<1>2. EncodeEntries(hd, StringT) = h[n]
  BY DEF EncodeEntries
<1>3. front \in Seq(Int)
  <2>1. n \in Int /\ StringT \in Int
    BY <1>1 DEF StringT, Prefix
  <2>2. PutInt(n, 1) \in Seq(Int) /\ PutInt(StringT, 1) \in Seq(Int)
    BY <2>1, IntSeq
  <2> HIDE DEF n
  <2>3. QED BY <2>2, ConcatProperties
<1>4. \A i \in 1 .. n : els[i] = EncodeExtraEntry(hd[i], StringT)
  OBVIOUS
<1> HIDE DEF els, front
<1>5. Elements(els, bs, good)
  BY <1>4 DEF Elements
<1> HIDE DEF n
<1>6. /\ Written(front, bs, good, 0) = Out(front)
      /\ \A i \in 1 .. n : Written(front, bs, good, i) = Cat(Written(front, bs, good, i - 1), els[i])
  BY <1>1, <1>3, <1>5, WriteMore
<1>7. w = F(w)
  <2> DEFINE G(i) == IF i = 0 THEN Out(front) ELSE Cat(w[i - 1], EncodeExtraEntry(hd[i], StringT))
  <2>1. ASSUME NEW i \in 0 .. n PROVE w[i] = G(i)
    <3>1. CASE i = 0
      BY <1>6, <3>1
    <3>2. CASE i # 0
      <4>1. i \in 1 .. n /\ i - 1 \in 0 .. n
        BY <1>1, <3>2
      <4>2. w[i] = Written(front, bs, good, i) /\ w[i - 1] = Written(front, bs, good, i - 1)
        BY <4>1
      <4> HIDE DEF w
      <4>3. QED BY <1>4, <1>6, <3>2, <4>1, <4>2
    <3>3. QED BY <3>1, <3>2
  <2>2. w = [i \in 0 .. n |-> w[i]]
    OBVIOUS
  <2>3. F(w) = [i \in 0 .. n |-> G(i)]
    OBVIOUS
  <2> HIDE DEF w, G, F
  <2>4. [i \in 0 .. n |-> w[i]] = [i \in 0 .. n |-> G(i)]
    BY <2>1
  <2>5. QED BY <2>2, <2>3, <2>4
<1>8. h = F(h)
  <2> HIDE DEF w, F
  <2>1. QED BY <1>7
<1> HIDE DEF h
<1>9. h[0] = Out(front) /\ \A i \in 1 .. n : h[i] = Cat(h[i - 1], els[i])
  <2> DEFINE G(i) == IF i = 0 THEN Out(front) ELSE Cat(h[i - 1], EncodeExtraEntry(hd[i], StringT))
  <2>1. F(h) = [i \in 0 .. n |-> G(i)]
    OBVIOUS
  <2> HIDE DEF G, F
  <2>2. \A i \in 0 .. n : h[i] = G(i)
    BY <1>8, <2>1
  <2>3. 0 \in 0 .. n /\ \A i \in 1 .. n : i \in 0 .. n /\ i # 0
    BY <1>1
  <2>4. QED BY <1>4, <2>2, <2>3 DEF G
<1>10. h[Len(bs)] = Written(front, bs, good, Len(bs))
  <2>1. Chained(h, front, els, Len(bs))
    BY <1>1, <1>9 DEF Chained
  <2>2. QED BY <1>3, <1>5, <2>1, WriteChain
<1>11. QED BY <1>1, <1>2, <1>10 DEF front, n

\* The number of entries and the type of the keys are in front of the entries.
LEMMA HeaderRead ==
  ASSUME NEW n, InUnsigned(n, 1), n # 0, NEW a \in Seq(Int), NEW behind \in Seq(Int), NEW v,
         DecodeExtraAll(n, StringT, a \o behind) = Ok(v, behind)
  PROVE  DecodeEntries(((PutInt(n, 1) \o PutInt(StringT, 1)) \o a) \o behind) = Ok(v, behind)
<1> DEFINE c    == PutInt(n, 1)
           k    == PutInt(StringT, 1)
           body == a \o behind
           rest == k \o body
<1>1. n \in Int /\ InSigned(StringT, 1) /\ StringT \in Int
  BY TypeFits DEF InUnsigned, Types, InSigned
<1>2. c \in Seq(Int) /\ k \in Seq(Int)
  BY <1>1, IntSeq
<1> HIDE DEF c, k
<1>3. Regrouped(c, k, a, behind)
  BY <1>2, ThreeParts
<1>4. /\ ((c \o k) \o a) \o behind = c \o rest
      /\ body \in Seq(Int) /\ rest \in Seq(Int)
  BY <1>3 DEF Regrouped
<1> HIDE DEF body, rest
<1>5. GetUint(c \o rest, 1) = Ok(n, rest)
  BY <1>4, UintRead DEF c
<1>6. GetInt(rest, 1) = Ok(StringT, body)
  BY <1>1, <1>4, IntRead DEF k, rest
<1>7. DecodeEntries(c \o rest) = DecodeExtraAll(n, StringT, body)
  <2>1. GetUint(c \o rest, 1).st = "ok" /\ GetUint(c \o rest, 1).v = n /\ GetUint(c \o rest, 1).buf = rest
    BY <1>5, OkFields
  <2>2. GetInt(rest, 1).st = "ok" /\ GetInt(rest, 1).v = StringT /\ GetInt(rest, 1).buf = body
    BY <1>6, OkFields
  <2>3. QED BY <2>1, <2>2 DEF DecodeEntries, Bind
<1>8. QED BY <1>4, <1>7 DEF c, k, body

\* The entries of a map are not written, or they are read as those that they
\* have arrived in.
MapArrives(hd) ==
  \E bs, v, U :
    /\ bs \in Seq(Int) /\ EncodeEntries(hd, StringT) = Out(bs)
    /\ v.e \in Seq(U) /\ ArrivedHere("extra", hd, v.e)
    /\ \A behind \in Seq(Int) : DecodeEntries(bs \o behind) = Ok(v, behind)

\* The bytes of an entry that arrives, and what is read.
BytesOf(ex) == CHOOSE bs : Arrives(ex, bs, <<>>) \/ \E x : Arrives(ex, bs, <<x>>)
ReadOf(ex)  == CHOOSE p : (p = <<>> \/ \E x : p = <<x>>) /\ Arrives(ex, BytesOf(ex), p)

\* The bytes and the entry that are chosen for an entry are such that it arrives.
LEMMA ChosenArrives ==
  ASSUME NEW ex, EntryArrives(ex)
  PROVE  /\ Arrives(ex, BytesOf(ex), ReadOf(ex))
         /\ ReadOf(ex) = <<>> \/ \E x : ReadOf(ex) = <<x>>
<1>1. \E bs : Arrives(ex, bs, <<>>) \/ \E x : Arrives(ex, bs, <<x>>)
  BY DEF EntryArrives
<1>2. Arrives(ex, BytesOf(ex), <<>>) \/ \E x : Arrives(ex, BytesOf(ex), <<x>>)
  BY <1>1 DEF BytesOf
<1>3. \E p : (p = <<>> \/ \E x : p = <<x>>) /\ Arrives(ex, BytesOf(ex), p)
  BY <1>2
<1>4. QED BY <1>3 DEF ReadOf

\* The entries of a map arrive when the maps in it do; otherwise one of these is refused.
LEMMA EntriesCross ==
  ASSUME NEW S, NEW hd \in Seq(Holders(S)), hd # <<>>, InUnsigned(Len(hd), 1), KeysFit(hd),
         \A i \in 1 .. Len(hd) : hd[i].type = MapT => NestedArrives(hd[i].val.e)
  PROVE  \/ MapArrives(hd)
         \/ /\ EncodeEntries(hd, StringT) = Refused
            /\ \E i \in 1 .. Len(hd) :
                 hd[i].type = MapT /\ EncodeNested(hd[i].val.e, StringT) = Refused
<1> DEFINE n     == Len(hd)
           good  == {i \in 1 .. n : EntryArrives(hd[i])}
           bs    == [i \in 1 .. n |-> IF i \in good THEN BytesOf(hd[i]) ELSE <<>>]
           parts == [i \in 1 .. n |-> IF i \in good THEN ReadOf(hd[i]) ELSE <<>>]
           U     == {parts[i][1] : i \in 1 .. n}
           front == PutInt(n, 1) \o PutInt(StringT, 1)
<1>1. n \in Nat /\ n # 0 /\ DOMAIN hd = 1 .. n /\ \A i \in 1 .. n : hd[i] \in Holders(S)
  BY LenProperties, ElementOfSeq, EmptySeq
<1>2. ASSUME NEW i \in 1 .. n
      PROVE  \/ i \in good
             \/ /\ EncodeExtraEntry(hd[i], StringT) = Refused
                /\ hd[i].type = MapT /\ EncodeNested(hd[i].val.e, StringT) = Refused
  BY <1>1, EachArrives DEF KeysFit
<1>3. ASSUME NEW i \in good
      PROVE  /\ Arrives(hd[i], BytesOf(hd[i]), ReadOf(hd[i]))
             /\ ReadOf(hd[i]) = <<>> \/ \E x : ReadOf(hd[i]) = <<x>>
  BY ChosenArrives
<1>4. ASSUME NEW i \in 1 .. n PROVE bs[i] \in Seq(Int)
  BY <1>3 DEF Arrives
<1>5. bs \in Seq(Seq(Int)) /\ Len(bs) = n
  <2>1. bs \in [1 .. n -> Seq(Int)]
    BY <1>4
  <2> HIDE DEF bs
  <2>2. QED BY <1>1, <2>1, ListIsSeq
<1>6. ASSUME NEW i \in 1 .. n PROVE parts[i] \in Seq(U) /\ (parts[i] = <<>> \/ \E x : parts[i] = <<x>>)
  <2>1. parts[i] = <<>> \/ \E x : parts[i] = <<x>>
    BY <1>3
  <2> HIDE DEF parts
  <2>2. CASE parts[i] = <<>>
    BY <2>2
  <2>3. CASE parts[i] # <<>>
    <3>1. PICK x : parts[i] = <<x>>
      BY <2>1, <2>3
    <3>2. parts[i][1] = x /\ parts[i][1] \in U
      BY <3>1
    <3>3. QED BY <2>1, <3>1, <3>2
  <2>4. QED BY <2>2, <2>3
<1>7. parts \in Seq(Seq(U)) /\ Len(parts) = n
  <2>1. \A i \in 1 .. n : parts[i] \in Seq(U)
    BY <1>6
  <2> HIDE DEF U
  <2>2. parts \in [1 .. n -> Seq(U)]
    BY <2>1
  <2> HIDE DEF parts
  <2>3. QED BY <1>1, <2>2, ListIsSeq
<1>8. \A i \in 1 .. n : EncodeExtraEntry(hd[i], StringT) = IF i \in good THEN Out(bs[i]) ELSE Refused
  BY <1>2, <1>3 DEF Arrives
<1>9. EncodeEntries(hd, StringT) = Written(front, bs, good, n)
  <2> HIDE DEF bs, good
  <2>1. QED BY <1>5, <1>8, ExtraAllWritten
<1>10. CASE ~(1 .. n \subseteq good)
  <2>1. PICK i \in 1 .. n : i \notin good
    BY <1>10
  <2>2. hd[i].type = MapT /\ EncodeNested(hd[i].val.e, StringT) = Refused
    BY <1>2, <2>1
  <2>3. EncodeEntries(hd, StringT) = Refused
    BY <1>9, <1>10 DEF Written
  <2>4. QED BY <2>2, <2>3
<1>11. CASE 1 .. n \subseteq good
  <2> DEFINE a   == FlattenSeq(bs)
             r   == FlattenSeq(parts)
             v   == MapVal(With(r))
             out == front \o a
  <2>1. \A i \in 1 .. n : /\ parts[i] = ReadOf(hd[i]) /\ bs[i] = BytesOf(hd[i])
                         /\ Arrives(hd[i], bs[i], parts[i])
    BY <1>3, <1>11
  <2> HIDE DEF bs, parts, U, good
  <2>2. Before(bs, n) = a /\ a \in Seq(Int) /\ r \in Seq(U)
    <3>1. n \in 0 .. n
      BY <1>1
    <3>2. Before(bs, n) = a /\ Before(bs, n) \in Seq(Int)
      BY <1>5, <3>1, BeforeGrows
    <3>3. Before(parts, n) = r /\ Before(parts, n) \in Seq(U)
      BY <1>7, <3>1, BeforeGrows
    <3>4. QED BY <3>2, <3>3
  <2>3. front \in Seq(Int)
    <3>1. n \in Int /\ StringT \in Int
      BY <1>1 DEF StringT, Prefix
    <3>2. PutInt(n, 1) \in Seq(Int) /\ PutInt(StringT, 1) \in Seq(Int)
      BY <3>1, IntSeq
    <3> HIDE DEF n
    <3>3. QED BY <3>2, ConcatProperties
  <2>4. EncodeEntries(hd, StringT) = Out(out)
    BY <1>9, <1>11, <2>2 DEF Written
  <2>5. out \in Seq(Int)
    <3> HIDE DEF front, a
    <3>1. QED BY <2>2, <2>3, ConcatProperties
  <2>6. \A i \in 1 .. Len(bs) :
          (parts[i] = <<>> \/ \E x : parts[i] = <<x>>) /\ ReadAs(bs[i], parts[i])
    BY <1>5, <1>6, <2>1 DEF Arrives
  <2>7. ASSUME NEW behind \in Seq(Int) PROVE DecodeEntries(out \o behind) = Ok(v, behind)
    <3>1. Len(parts) = Len(bs)
      BY <1>5, <1>7
    <3>2. DecodeExtraAll(Len(bs), StringT, a \o behind) = Ok(v, behind)
      BY <1>5, <1>7, <2>6, <3>1, ExtraAllRead
    <3>3. DecodeExtraAll(n, StringT, a \o behind) = Ok(v, behind)
      BY <1>5, <3>2
    <3> HIDE DEF a, v, n
    <3>4. QED BY <1>1, <2>2, <3>3, HeaderRead DEF n
  <2>8. v.e = r
    BY DEF MapVal, With
  <2>9. ArrivedHere("extra", hd, r)
    <3>1. \A i \in 1 .. n : Len(parts[i]) <= 1 /\ PartOf("extra", hd[i], parts[i])
      <4> SUFFICES ASSUME NEW i \in 1 .. n
                   PROVE  Len(parts[i]) <= 1 /\ PartOf("extra", hd[i], parts[i])
        OBVIOUS
      <4>1. PartOf("extra", hd[i], parts[i])
        BY <2>1 DEF Arrives
      <4>2. CASE parts[i] = <<>>
        BY <4>1, <4>2, EmptySeq
      <4>3. CASE \E x : parts[i] = <<x>>
        <5>1. PICK x : parts[i] = <<x>>
          BY <4>3
        <5>2. Len(parts[i]) = 1
          BY <5>1
        <5>3. QED BY <4>1, <5>2
      <4>4. QED BY <1>6, <4>2, <4>3
    <3>2. n \in 0 .. Len(parts)
      BY <1>1, <1>7
    <3>3. ArrivedUpTo("extra", hd, n, Before(parts, n))
      BY <1>7, <3>1, <3>2, PartsArrive
    <3>4. Before(parts, n) = r
      BY <1>7, BeforeGrows
    <3>5. QED BY <2>2, <3>3, <3>4, AllArrived
  <2>10. QED BY <2>2, <2>4, <2>5, <2>7, <2>8, <2>9 DEF MapArrives
<1>12. QED BY <1>10, <1>11
-----------------------------------------------------------------------------
\* Maps of messages of any depth.

\* The functions of the layouts call themselves for what is nested, as the
\* recursive functions of the code do: what is written and read inside a map or
\* a list is what would be written and read of it alone.  These equations hold
\* of the recursive definitions that MCTypedData gives the constants, and fix
\* them level by level.
OneLayout ==
  /\ \A d \in Nat : \A hd \in Seq(Level[d]) :
       /\ EncodeExtra(hd, StringT) = EncodeEntries(hd, StringT)
       /\ EncodeNested(hd, StringT) = EncodeEntries(hd, StringT)
       /\ Entries(hd) = EntriesHere(hd) /\ EntriesInside(hd) = EntriesHere(hd)
       /\ \A layout, r : /\ Arrived(layout, hd, r) = ArrivedHere(layout, hd, r)
                         /\ ArrivedInside(layout, hd, r) = ArrivedHere(layout, hd, r)
       /\ \A ex, type : ex.val.e = hd => /\ EncodeParam(ex, type) = EncodeValue(ex, type)
                                         /\ EncodeInside(ex, type) = EncodeValue(ex, type)
  /\ \A buf \in Seq(Int) :
       /\ DecodeExtra(buf) = DecodeEntries(buf) /\ DecodeNested(buf) = DecodeEntries(buf)
       /\ \A type \in Int : /\ DecodeParam(type, buf) = DecodeValue(type, buf)
                            /\ DecodeInside(type, buf) = DecodeValue(type, buf)

\* What is in a map is in what holds the map.
LEMMA EntriesOf ==
  ASSUME OneLayout, NEW d \in Nat, NEW hd \in Seq(Level[d]), NEW i \in 1 .. Len(hd)
  PROVE  /\ hd[i] \in Entries(hd)
         /\ hd[i].type \in Maps \cup Colls => EntriesInside(hd[i].val.e) \subseteq Entries(hd)
<1>1. Entries(hd) = EntriesHere(hd)
  BY DEF OneLayout
<1>2. hd[i] \in ToSet(hd)
  BY LenProperties DEF ToSet
<1>3. QED BY <1>1, <1>2 DEF EntriesHere

\* A map arrives, or there is an empty map in it.
MapsArrive(hd) ==
  \/ MapArrives(hd)
  \/ EncodeEntries(hd, StringT) = Refused /\ (hd = <<>> \/ EmptyMapIn(hd))

(* A map of any number of entries that one byte counts, of any types and   *)
(* values, with maps in one another to any depth, arrives in a message, or *)
(* it is refused for an empty map in it (jm_extra_encode,                  *)
(* jm_extra_decode).                                                       *)
THEOREM LevelsArrive ==
  ASSUME OneLayout
  PROVE  \A d \in Nat : \A hd \in Seq(Level[d]) :
           InUnsigned(Len(hd), 1) /\ KeysFit(hd) => MapsArrive(hd)
<1> DEFINE P(d) == \A hd \in Seq(Level[d]) : InUnsigned(Len(hd), 1) /\ KeysFit(hd) => MapsArrive(hd)
           D    == {d \in Nat : ~P(d)}
<1>1. SUFFICES ASSUME D # {} PROVE FALSE
  OBVIOUS
<1>2. D \in SUBSET Nat
  OBVIOUS
<1> HIDE DEF D
<1>3. PICK d \in D : \A k \in D : d <= k
  BY <1>1, <1>2, LeastOf
<1>4. d \in Nat /\ ~P(d)
  BY <1>3 DEF D
<1>5. PICK hd \in Seq(Level[d]) : InUnsigned(Len(hd), 1) /\ KeysFit(hd) /\ ~MapsArrive(hd)
  BY <1>4
<1>6. EncodeEntries(<<>>, StringT) = Refused
  BY DEF EncodeEntries
<1>7. hd # <<>>
  BY <1>5, <1>6 DEF MapsArrive
<1>8. d # 0
  <2>1. d = 0 => hd \in Seq({})
    BY <1>5, LevelIs
  <2>2. \A s \in Seq({}) : s = <<>>
    OBVIOUS
  <2>3. QED BY <1>7, <2>1, <2>2
<1> DEFINE c == d - 1
<1>9. c \in Nat /\ d = c + 1 /\ ~(d <= c)
  BY <1>4, <1>8
<1> HIDE DEF c
<1>10. P(c)
  BY <1>3, <1>9 DEF D
<1>11. hd \in Seq(Holders(Level[c]))
  BY <1>5, <1>9, LevelIs
<1>12. ASSUME NEW i \in 1 .. Len(hd), hd[i].type = MapT
       PROVE  /\ hd[i].val.e \in Seq(Level[c]) /\ MapsArrive(hd[i].val.e)
              /\ NestedArrives(hd[i].val.e)
  <2> DEFINE ex == hd[i]
             e  == ex.val.e
  <2>1. ex \in Holders(Level[c])
    BY <1>11, ElementOfSeq
  <2>2. e \in Seq(Level[c]) /\ Fits(ex)
    BY <2>1, HolderHas
  <2>3. InUnsigned(Len(e), 1) /\ KeysFit(e)
    BY <1>12, <2>2, TypesTell DEF Fits, ValueFits
  <2>4. MapsArrive(e)
    BY <1>10, <2>2, <2>3
  <2>5. /\ EncodeNested(e, StringT) = EncodeEntries(e, StringT)
        /\ \A r : ArrivedInside("extra", e, r) = ArrivedHere("extra", e, r)
    BY <1>9, <2>2 DEF OneLayout
  <2> HIDE DEF e
  <2>6. CASE EncodeEntries(e, StringT) = Refused
    BY <2>2, <2>4, <2>5, <2>6 DEF NestedArrives, e
  <2>7. CASE MapArrives(e)
    <3>1. PICK bs, v, U :
            /\ bs \in Seq(Int) /\ EncodeEntries(e, StringT) = Out(bs)
            /\ v.e \in Seq(U) /\ ArrivedHere("extra", e, v.e)
            /\ \A behind \in Seq(Int) : DecodeEntries(bs \o behind) = Ok(v, behind)
      BY <2>7 DEF MapArrives
    <3>2. ASSUME NEW behind \in Seq(Int) PROVE DecodeNested(bs \o behind) = Ok(v, behind)
      <4>1. bs \o behind \in Seq(Int)
        BY <3>1, ConcatProperties
      <4>2. DecodeNested(bs \o behind) = DecodeEntries(bs \o behind)
        BY <4>1 DEF OneLayout
      <4>3. QED BY <3>1, <4>2
    <3>3. NestedArrives(e)
      BY <2>5, <3>1, <3>2 DEF NestedArrives
    <3>4. QED BY <2>2, <2>4, <3>3 DEF e
  <2>8. QED BY <2>4, <2>6, <2>7 DEF MapsArrive
<1>13. CASE MapArrives(hd)
  BY <1>5, <1>13 DEF MapsArrive
<1>14. CASE /\ EncodeEntries(hd, StringT) = Refused
            /\ \E i \in 1 .. Len(hd) :
                 hd[i].type = MapT /\ EncodeNested(hd[i].val.e, StringT) = Refused
  <2>1. PICK i \in 1 .. Len(hd) : hd[i].type = MapT /\ EncodeNested(hd[i].val.e, StringT) = Refused
    BY <1>14
  <2> DEFINE e == hd[i].val.e
  <2>2. e \in Seq(Level[c]) /\ MapsArrive(e)
    BY <1>12, <2>1
  <2>3. EncodeEntries(e, StringT) = Refused
    BY <1>9, <2>1, <2>2 DEF OneLayout
  <2>4. ~MapArrives(e)
    <3>1. \A bs : Out(bs) # Refused
      <4>1. \A bs : Out(bs).ok /\ ~Refused.ok
        BY DEF Out, Refused
      <4>2. QED BY <4>1
    <3>2. QED BY <2>3, <3>1 DEF MapArrives
  <2>5. e = <<>> \/ EmptyMapIn(e)
    BY <2>2, <2>4 DEF MapsArrive
  <2>6. hd[i] \in Entries(hd) /\ EntriesInside(e) \subseteq Entries(hd)
    BY <1>4, <1>5, <2>1, EntriesOf, TypesTell
  <2>7. Entries(e) = EntriesInside(e)
    BY <1>9, <2>2 DEF OneLayout
  <2>8. EmptyMapIn(hd)
    <3>1. CASE e = <<>>
      BY <2>1, <2>6, <3>1 DEF EmptyMapIn
    <3>2. CASE EmptyMapIn(e)
      BY <2>6, <2>7, <3>2 DEF EmptyMapIn
    <3>3. QED BY <2>5, <3>1, <3>2
  <2>9. QED BY <1>5, <1>14, <2>8 DEF MapsArrive
<1>15. QED BY <1>5, <1>7, <1>11, <1>12, <1>13, <1>14, EntriesCross
-----------------------------------------------------------------------------
\* The entries of the parameters of a request.

\* A new entry with a value.
LEMMA MadeIs == ASSUME NEW key, NEW t, NEW v PROVE [NewEntry(key, t) EXCEPT !.val = v] = Made(key, t, v)
BY DEF NewEntry, Made

\* What a map or list that is put keeps.
LEMMA NestedSet ==
  ASSUME NEW key, NEW t \in Maps \cup Colls, NEW v
  PROVE  SetVal(NewEntry(key, t), v) = Made(key, t, v)
<1> DEFINE ex == NewEntry(key, t)
<1>1. ex.type = t
  BY DEF NewEntry
<1>2. t # StringT /\ t # BytesT /\ t \notin Unset /\ t # LongT
  BY TypesTell
<1>3. ThroughPointer(t, v) = v
  BY <1>2 DEF ThroughPointer
<1> HIDE DEF ex
<1>4. SetVal(ex, v) = [ex EXCEPT !.val = v]
  BY <1>1, <1>2, <1>3 DEF SetVal
<1>5. QED BY <1>4, MadeIs DEF ex

\* Is a key that of no entry?
NewKey(hd, key) == \A j \in DOMAIN hd : ~SameKey(StringT, key, hd[j].key)

\* The list with the entries of hd.
ListWith(hd) == [hd |-> hd, size |-> Len(hd)]

\* A map or a list with one entry more.
LEMMA WithMore ==
  ASSUME NEW U, NEW hd \in Seq(U), NEW x \in U
  PROVE  /\ PutExtra(With(hd), x) = With(hd \o <<x>>)
         /\ [hd |-> Append(ListWith(hd).hd, x), size |-> ListWith(hd).size + 1] = ListWith(hd \o <<x>>)
<1> DEFINE m == With(hd)
           r == [m EXCEPT !.hd = Append(m.hd, x), !.size = m.size + 1]
<1>1. hd \o <<x>> = Append(hd, x) /\ Len(Append(hd, x)) = Len(hd) + 1
  BY AppendIsConcat, AppendProperties
<1>2. m.keyType = StringT /\ m.hd = hd /\ m.size = Len(hd)
  BY DEF With
<1>3. m = [keyType |-> m.keyType, hd |-> m.hd, size |-> m.size]
  BY DEF With
<1>4. PutExtra(m, x) = r
  BY DEF PutExtra
<1> HIDE DEF m
<1>5. r = [keyType |-> m.keyType, hd |-> Append(m.hd, x), size |-> m.size + 1]
  BY <1>3, RecordWith
<1>6. r = With(hd \o <<x>>)
  BY <1>1, <1>2, <1>5 DEF With
<1>7. ListWith(hd).hd = hd /\ ListWith(hd).size = Len(hd)
  BY DEF ListWith
<1>8. [hd |-> Append(ListWith(hd).hd, x), size |-> ListWith(hd).size + 1] = ListWith(hd \o <<x>>)
  BY <1>1, <1>7 DEF ListWith
<1>9. QED BY <1>4, <1>6, <1>8 DEF m

\* The entry that is read goes to the end of the map, its key being new, or of the list.
LEMMA PutDecodedIs ==
  ASSUME NEW U, NEW hd \in Seq(U), NEW key, key = <<>> \/ NewKey(hd, key), NEW t, NEW v,
         Made(key, t, v) \in U
  PROVE  PutDecoded(With(hd), key, t, v) = With(hd \o <<Made(key, t, v)>>)
<1> DEFINE x == Made(key, t, v)
           m == With(hd)
<1>1. CASE t \notin Maps \cup Colls
  <2>1. PutDecoded(m, key, t, v) = PutExtra(m, x)
    BY <1>1, MadeIs DEF PutDecoded
  <2>2. QED BY <2>1, WithMore
<1>2. CASE t \in Maps \cup Colls
  <2>1. m.hd = hd /\ m.keyType = StringT
    BY DEF With
  <2>2. key # <<>> => Find(m, key) = 0
    <3>1. \A j \in DOMAIN hd : key # <<>> => ~SameKey(StringT, key, hd[j].key)
      BY DEF NewKey
    <3>2. QED BY <2>1, <3>1 DEF Find, SelectInSeq
  <2> HIDE DEF m
  <2> DEFINE i == IF m.keyType = StringT /\ key = <<>> THEN 0 ELSE Find(m, key)
  <2>3. i = 0
    BY <2>1, <2>2
  <2>4. SetVal(NewEntry(key, t), v) = x
    BY <1>2, NestedSet
  <2>5. PutEntry(m, x, 0) = Append(m.hd, x)
    BY <2>1 DEF PutEntry
  <2>6. Put(m, key, t, v) = [m EXCEPT !.hd = PutEntry(m, x, 0), !.size = m.size + 1]
    BY <2>3, <2>4 DEF Put
  <2>7. Put(m, key, t, v) = With(hd \o <<x>>)
    <3>1. Put(m, key, t, v) = [m EXCEPT !.hd = Append(m.hd, x), !.size = m.size + 1]
      BY <2>5, <2>6
    <3>2. Put(m, key, t, v) = PutExtra(m, x)
      BY <3>1 DEF PutExtra
    <3>3. QED BY <3>2, WithMore DEF m
  <2>8. QED BY <1>2, <2>7 DEF PutDecoded, m
<1>3. QED BY <1>1, <1>2

LEMMA AddDecodedIs ==
  ASSUME NEW U, NEW hd \in Seq(U), NEW t, NEW v, Made(<<>>, t, v) \in U
  PROVE  AddDecoded(ListWith(hd), t, v) = ListWith(hd \o <<Made(<<>>, t, v)>>)
<1> DEFINE x == Made(<<>>, t, v)
           l == ListWith(hd)
<1>1. [hd |-> Append(l.hd, x), size |-> l.size + 1] = ListWith(hd \o <<x>>)
  BY WithMore
<1>2. CASE t \notin Maps \cup Colls
  BY <1>1, <1>2, MadeIs DEF AddDecoded, AddExtra
<1>3. CASE t \in Maps \cup Colls
  BY <1>1, <1>3, NestedSet DEF AddDecoded, Add
<1>4. QED BY <1>2, <1>3
-----------------------------------------------------------------------------
\* A map or a list, keyed or not, and its next entry.
StateOf(keyed, hd)        == IF keyed THEN With(hd) ELSE ListWith(hd)
NextEntry(keyed, st, buf) == IF keyed THEN DecodeMapEntry(st, buf) ELSE DecodeCollEntry(st, buf)

\* What is in a map or list is read like any value.
ReadsInside ==
  \A buf \in Seq(Int) : \A t \in Int : DecodeInside(t, buf) = DecodeValue(t, buf)

\* An entry of a map or of a list is read with its type and value, or left out.
LEMMA MapEntryRead ==
  ASSUME NEW m, NEW buf, NEW key, NEW body, ReadString(buf) = Ok(key, body),
         NEW t, NEW rest, GetInt(body, 1) = Ok(t, rest)
  PROVE  /\ \A v, more : DecodeInside(t, rest) = Ok(v, more)
                           => DecodeMapEntry(m, buf) = Ok(PutDecoded(m, key, t, v), more)
         /\ \A more : DecodeInside(t, rest) = Fail(more) => DecodeMapEntry(m, buf) = Ok(m, more)
<1> DEFINE k == ReadString(buf)
           g == GetInt(body, 1)
           r == DecodeInside(t, rest)
<1>1. k.st = "ok" /\ k.v = key /\ k.buf = body /\ g.st = "ok" /\ g.v = t /\ g.buf = rest
  BY OkFields
<1>2. DecodeMapEntry(m, buf) = WithDecoded(m, key, t, r)
  BY <1>1 DEF DecodeMapEntry, DecodeMapValue, Bind
<1> HIDE DEF k, g, r
<1>3. ASSUME NEW v, NEW more, r = Ok(v, more)
      PROVE  DecodeMapEntry(m, buf) = Ok(PutDecoded(m, key, t, v), more)
  <2>1. r.st = "ok" /\ r.v = v /\ r.buf = more
    BY <1>3, OkFields
  <2>2. QED BY <1>2, <2>1 DEF WithDecoded, Bind
<1>4. ASSUME NEW more, r = Fail(more) PROVE DecodeMapEntry(m, buf) = Ok(m, more)
  <2>1. r.st = "fail" /\ r.buf = more
    BY <1>4 DEF Fail
  <2>2. QED BY <1>2, <2>1 DEF WithDecoded
<1>5. QED BY <1>3, <1>4 DEF r

LEMMA CollEntryRead ==
  ASSUME NEW l, NEW buf, NEW t, NEW rest, GetInt(buf, 1) = Ok(t, rest)
  PROVE  /\ \A v, more : DecodeInside(t, rest) = Ok(v, more)
                           => DecodeCollEntry(l, buf) = Ok(AddDecoded(l, t, v), more)
         /\ \A more : DecodeInside(t, rest) = Fail(more) => DecodeCollEntry(l, buf) = Ok(l, more)
<1> DEFINE g == GetInt(buf, 1)
           r == DecodeInside(t, rest)
<1>1. g.st = "ok" /\ g.v = t /\ g.buf = rest
  BY OkFields
<1>2. DecodeCollEntry(l, buf) = AndDecoded(l, t, r)
  BY <1>1 DEF DecodeCollEntry, Bind
<1> HIDE DEF g, r
<1>3. ASSUME NEW v, NEW more, r = Ok(v, more)
      PROVE  DecodeCollEntry(l, buf) = Ok(AddDecoded(l, t, v), more)
  <2>1. r.st = "ok" /\ r.v = v /\ r.buf = more
    BY <1>3, OkFields
  <2>2. QED BY <1>2, <2>1 DEF AndDecoded, Bind
<1>4. ASSUME NEW more, r = Fail(more) PROVE DecodeCollEntry(l, buf) = Ok(l, more)
  <2>1. r.st = "fail" /\ r.buf = more
    BY <1>4 DEF Fail
  <2>2. QED BY <1>2, <2>1 DEF AndDecoded
<1>5. QED BY <1>3, <1>4 DEF r

\* The bytes of an entry are read as p, wherever they are, if its key is new.
ParamReadAs(keyed, key, bytes, p) ==
  \A U, hd, behind :
    /\ hd \in Seq(U) /\ p \in Seq(U) /\ behind \in Seq(Int)
    /\ keyed => NewKey(hd, key)
    => NextEntry(keyed, StateOf(keyed, hd), bytes \o behind) = Ok(StateOf(keyed, hd \o p), behind)

\* The bytes of an entry, when its value is read from its own bytes.
LEMMA ElementReadAs ==
  ASSUME NEW keyed \in BOOLEAN, NEW key \in Seq(Int), InUnsigned(Len(key), 2),
         NEW t, InSigned(t, 1), NEW vb \in Seq(Int), ReadsInside
  PROVE  LET k     == IF keyed THEN key ELSE <<>>
             bytes == (IF keyed THEN WriteString(key) ELSE <<>>) \o (PutInt(t, 1) \o vb)
         IN /\ bytes \in Seq(Int)
            /\ \A v : (\A behind \in Seq(Int) : DecodeValue(t, vb \o behind) = Ok(v, behind))
                        => ParamReadAs(keyed, k, bytes, <<Made(k, t, v)>>)
            /\ (\A behind \in Seq(Int) : DecodeValue(t, vb \o behind) = Fail(behind))
                 => ParamReadAs(keyed, k, bytes, <<>>)
<1> DEFINE k     == IF keyed THEN key ELSE <<>>
           a     == IF keyed THEN WriteString(key) ELSE <<>>
           b     == PutInt(t, 1)
           bytes == a \o (b \o vb)
<1>1. a \in Seq(Int) /\ b \in Seq(Int) /\ t \in Int
  BY StringBytes, IntSeq DEF InSigned
<1>2. bytes \in Seq(Int)
  <2> HIDE DEF a, b
  <2>1. b \o vb \in Seq(Int)
    BY <1>1, ConcatProperties
  <2>2. QED BY <1>1, <2>1, ConcatProperties
<1>3. ASSUME NEW behind \in Seq(Int)
      PROVE  /\ keyed => ReadString(bytes \o behind) = Ok(key, b \o (vb \o behind))
             /\ ~keyed => GetInt(bytes \o behind, 1) = Ok(t, vb \o behind)
             /\ GetInt(b \o (vb \o behind), 1) = Ok(t, vb \o behind)
             /\ vb \o behind \in Seq(Int)
  <2> DEFINE c == b \o vb
  <2>1. c \in Seq(Int) /\ vb \o behind \in Seq(Int)
    <3> HIDE DEF b
    <3>1. QED BY <1>1, ConcatProperties
  <2>2. b \o (vb \o behind) \in Seq(Int) /\ c \o behind = b \o (vb \o behind)
    <3> HIDE DEF b
    <3>1. b \in Seq(Int) /\ vb \in Seq(Int) /\ behind \in Seq(Int)
      BY <1>1
    <3>2. (b \o vb) \o behind = b \o (vb \o behind)
      BY ONLY <3>1, ConcatAssociative, SMTT(30)
    <3>3. b \o (vb \o behind) \in Seq(Int)
      BY <1>1, <2>1, ConcatProperties
    <3>4. QED BY <3>2, <3>3
  <2>3. GetInt(b \o (vb \o behind), 1) = Ok(t, vb \o behind)
    BY <2>1, IntRead
  <2> HIDE DEF c, b
  <2>4. (a \o c) \o behind = a \o (c \o behind)
    <3> HIDE DEF a
    <3>1. a \in Seq(Int) /\ c \in Seq(Int) /\ behind \in Seq(Int)
      BY <1>1, <2>1
    <3>2. QED BY ONLY <3>1, ConcatAssociative, SMTT(30)
  <2>5. bytes = a \o c
    BY DEF c
  <2>6. bytes \o behind = a \o (b \o (vb \o behind))
    <3> HIDE DEF bytes, a
    <3>1. QED BY <2>2, <2>4, <2>5
  <2>7. keyed => ReadString(a \o (b \o (vb \o behind))) = Ok(key, b \o (vb \o behind))
    BY <2>2, StringsArrive
  <2>8. ~keyed => a \o (b \o (vb \o behind)) = b \o (vb \o behind)
    BY <2>2, ConcatEmptySeq
  <2> HIDE DEF bytes, a
  <2>9. keyed => ReadString(bytes \o behind) = Ok(key, b \o (vb \o behind))
    BY <2>6, <2>7
  <2>10. ~keyed => GetInt(bytes \o behind, 1) = Ok(t, vb \o behind)
    BY <2>3, <2>6, <2>8
  <2>11. QED BY <2>1, <2>3, <2>9, <2>10
<1> HIDE DEF bytes, b
<1>4. ASSUME NEW v, \A behind \in Seq(Int) : DecodeValue(t, vb \o behind) = Ok(v, behind)
      PROVE  ParamReadAs(keyed, k, bytes, <<Made(k, t, v)>>)
  <2> DEFINE x == Made(k, t, v)
             p == <<x>>
  <2> SUFFICES ASSUME NEW U, NEW hd \in Seq(U), p \in Seq(U), NEW behind \in Seq(Int),
                      keyed => NewKey(hd, k)
               PROVE  NextEntry(keyed, StateOf(keyed, hd), bytes \o behind)
                        = Ok(StateOf(keyed, hd \o p), behind)
    BY DEF ParamReadAs
  <2>1. x \in U
    <3>1. Len(p) = 1 /\ p[1] = x /\ 1 \in 1 .. 1
      OBVIOUS
    <3> HIDE DEF p, x
    <3>2. QED BY <3>1, ElementOfSeq
  <2>2. DecodeInside(t, vb \o behind) = Ok(v, behind)
    BY <1>1, <1>3, <1>4 DEF ReadsInside
  <2>3. CASE keyed
    <3>1. NextEntry(keyed, StateOf(keyed, hd), bytes \o behind)
            = Ok(PutDecoded(With(hd), key, t, v), behind)
      BY <1>3, <2>2, <2>3, MapEntryRead DEF NextEntry, StateOf
    <3>2. PutDecoded(With(hd), key, t, v) = With(hd \o <<x>>)
      BY <2>1, <2>3, PutDecodedIs
    <3>3. QED BY <2>3, <3>1, <3>2 DEF StateOf
  <2>4. CASE ~keyed
    <3>1. NextEntry(keyed, StateOf(keyed, hd), bytes \o behind)
            = Ok(AddDecoded(ListWith(hd), t, v), behind)
      BY <1>3, <2>2, <2>4, CollEntryRead DEF NextEntry, StateOf
    <3>2. AddDecoded(ListWith(hd), t, v) = ListWith(hd \o <<x>>)
      BY <2>1, <2>4, AddDecodedIs
    <3>3. QED BY <2>4, <3>1, <3>2 DEF StateOf
  <2>5. QED BY <2>3, <2>4
<1>5. ASSUME \A behind \in Seq(Int) : DecodeValue(t, vb \o behind) = Fail(behind)
      PROVE  ParamReadAs(keyed, k, bytes, <<>>)
  <2> SUFFICES ASSUME NEW U, NEW hd \in Seq(U), NEW behind \in Seq(Int)
               PROVE  NextEntry(keyed, StateOf(keyed, hd), bytes \o behind)
                        = Ok(StateOf(keyed, hd \o <<>>), behind)
    BY DEF ParamReadAs
  <2>1. hd \o <<>> = hd
    BY ConcatEmptySeq
  <2>2. DecodeInside(t, vb \o behind) = Fail(behind)
    BY <1>1, <1>3, <1>5 DEF ReadsInside
  <2>3. CASE keyed
    BY <1>3, <2>1, <2>2, <2>3, MapEntryRead DEF NextEntry, StateOf
  <2>4. CASE ~keyed
    BY <1>3, <2>1, <2>2, <2>4, CollEntryRead DEF NextEntry, StateOf
  <2>5. QED BY <2>3, <2>4
<1>6. QED BY <1>2, <1>4, <1>5 DEF bytes, b
-----------------------------------------------------------------------------
\* The loops that read parameters.

\* A map or a list without entries.
NoEntries(keyed) == IF keyed THEN EmptyMap(StringT) ELSE EmptyList

\* Nothing has been read yet.
LEMMA NoEntriesIs == \A keyed \in BOOLEAN : StateOf(keyed, <<>>) = NoEntries(keyed)
BY EmptySeq DEF StateOf, With, ListWith, NoEntries, EmptyMap, EmptyList

\* A turn of the two loops.
Turn(keyed, r) == IF r.st = "ok" THEN NextEntry(keyed, r.v, r.buf) ELSE r

\* The turns of a loop that has read well.
Turned(keyed, w, n, buf) ==
  /\ w = [i \in 0 .. n |-> w[i]]
  /\ w[0] = Ok(NoEntries(keyed), buf)
  /\ \A i \in 1 .. n : w[i] = Turn(keyed, w[i - 1])
  /\ \A i \in 0 .. n : w[i].st = "ok"

MapTurned(w, n, buf) ==
  /\ w = [i \in 0 .. n |-> w[i]]
  /\ w[0] = Ok(EmptyMap(StringT), buf)
  /\ \A i \in 1 .. n : w[i] = Bind(w[i - 1], DecodeMapEntry)
  /\ \A i \in 0 .. n : w[i].st = "ok"
CollTurned(w, n, buf) ==
  /\ w = [i \in 0 .. n |-> w[i]]
  /\ w[0] = Ok(EmptyList, buf)
  /\ \A i \in 1 .. n : w[i] = Bind(w[i - 1], DecodeCollEntry)
  /\ \A i \in 0 .. n : w[i].st = "ok"

\* The two loops over the entries (jm_cli_decodeMap and jm_cli_decodeCollection).
LEMMA TurnedIs ==
  ASSUME NEW keyed \in BOOLEAN, NEW w, NEW n, NEW buf, Turned(keyed, w, n, buf)
  PROVE  (keyed => MapTurned(w, n, buf)) /\ (~keyed => CollTurned(w, n, buf))
<1>1. CASE keyed
  <2>1. \A r : Turn(keyed, r) = Bind(r, DecodeMapEntry)
    BY <1>1 DEF Turn, Bind, NextEntry
  <2>2. NoEntries(keyed) = EmptyMap(StringT)
    BY <1>1 DEF NoEntries
  <2>3. QED BY <1>1, <2>1, <2>2 DEF Turned, MapTurned
<1>2. CASE ~keyed
  <2>1. \A r : Turn(keyed, r) = Bind(r, DecodeCollEntry)
    BY <1>2 DEF Turn, Bind, NextEntry
  <2>2. NoEntries(keyed) = EmptyList
    BY <1>2 DEF NoEntries
  <2>3. QED BY <1>2, <2>1, <2>2 DEF Turned, CollTurned
<1>3. QED BY <1>1, <1>2

LEMMA MapLoop ==
  ASSUME NEW n \in Nat, NEW buf, NEW w, MapTurned(w, n, buf),
         NEW m, NEW rest, w[n] = Ok(m, rest)
  PROVE  DecodeMap(n, buf) = Ok(MapVal(m), rest)
<1> DEFINE F(f) == [i \in 0 .. n |->
                      IF i = 0 THEN Ok(EmptyMap(StringT), buf) ELSE Bind(f[i - 1], DecodeMapEntry)]
           h    == CHOOSE f : f = F(f)
<1>1. DecodeMap(n, buf) = Bind(LoopEnd(h, n), LAMBDA v, more : Ok(MapVal(v), more))
  BY DEF DecodeMap
<1>2. /\ w = [i \in 0 .. n |-> w[i]]
      /\ w[0] = Ok(EmptyMap(StringT), buf)
      /\ \A i \in 1 .. n : w[i] = Bind(w[i - 1], DecodeMapEntry)
      /\ \A i \in 0 .. n : w[i].st = "ok"
  BY DEF MapTurned
<1>4. w = F(w)
  <2> DEFINE G(i) == IF i = 0 THEN Ok(EmptyMap(StringT), buf) ELSE Bind(w[i - 1], DecodeMapEntry)
  <2>1. ASSUME NEW i \in 0 .. n PROVE w[i] = G(i)
    <3>1. CASE i = 0
      BY <1>2, <3>1
    <3>2. CASE i # 0
      <4>1. i \in 1 .. n
        BY <3>2
      <4>2. QED BY <1>2, <3>2, <4>1
    <3>3. QED BY <3>1, <3>2
  <2>2. F(w) = [i \in 0 .. n |-> G(i)]
    OBVIOUS
  <2> HIDE DEF G, F
  <2>3. [i \in 0 .. n |-> w[i]] = [i \in 0 .. n |-> G(i)]
    BY <2>1
  <2>4. QED BY <1>2, <2>2, <2>3
<1>5. h = F(h)
  <2> HIDE DEF F
  <2>1. QED BY <1>4
<1> HIDE DEF h
<1>6. h[0] = Ok(EmptyMap(StringT), buf) /\ \A i \in 1 .. n : h[i] = Bind(h[i - 1], DecodeMapEntry)
  <2> DEFINE G(i) == IF i = 0 THEN Ok(EmptyMap(StringT), buf) ELSE Bind(h[i - 1], DecodeMapEntry)
  <2>1. F(h) = [i \in 0 .. n |-> G(i)]
    OBVIOUS
  <2> HIDE DEF G, F
  <2>2. \A i \in 0 .. n : h[i] = G(i)
    BY <1>5, <2>1
  <2>3. 0 \in 0 .. n /\ \A i \in 1 .. n : i \in 0 .. n /\ i # 0
    OBVIOUS
  <2>4. QED BY <2>2, <2>3 DEF G
<1>7. \A i \in 0 .. n : h[i] = w[i]
  <2>1. h[0] = w[0]
    BY <1>2, <1>6
  <2>2. \A i \in 1 .. n : h[i - 1] = w[i - 1] => h[i] = w[i]
    BY <1>2, <1>6
  <2>3. Alike(h, w, n)
    BY ONLY n \in Nat, <2>1, <2>2, ChainsAgree
  <2>4. QED BY <2>3 DEF Alike
<1>8. LoopEnd(h, n) = Ok(m, rest)
  <2>1. n \in 0 .. n /\ \A i \in 0 .. n : h[i].st = "ok"
    BY <1>2, <1>7
  <2>2. QED BY <1>7, <2>1, LoopEndsWell
<1> DEFINE r == LoopEnd(h, n)
<1>9. r.st = "ok" /\ r.v = m /\ r.buf = rest
  BY <1>8, OkFields
<1> HIDE DEF r
<1>10. Bind(r, LAMBDA v, more : Ok(MapVal(v), more)) = Ok(MapVal(m), rest)
  BY <1>9 DEF Bind
<1>11. QED BY <1>1, <1>10 DEF r

LEMMA CollLoop ==
  ASSUME NEW n \in Nat, NEW buf, NEW w, CollTurned(w, n, buf),
         NEW m, NEW rest, w[n] = Ok(m, rest)
  PROVE  DecodeColl(n, buf) = Ok(ListVal(m), rest)
<1> DEFINE F(f) == [i \in 0 .. n |->
                      IF i = 0 THEN Ok(EmptyList, buf) ELSE Bind(f[i - 1], DecodeCollEntry)]
           h    == CHOOSE f : f = F(f)
<1>1. DecodeColl(n, buf) = Bind(LoopEnd(h, n), LAMBDA v, more : Ok(ListVal(v), more))
  BY DEF DecodeColl
<1>2. /\ w = [i \in 0 .. n |-> w[i]]
      /\ w[0] = Ok(EmptyList, buf)
      /\ \A i \in 1 .. n : w[i] = Bind(w[i - 1], DecodeCollEntry)
      /\ \A i \in 0 .. n : w[i].st = "ok"
  BY DEF CollTurned
<1>4. w = F(w)
  <2> DEFINE G(i) == IF i = 0 THEN Ok(EmptyList, buf) ELSE Bind(w[i - 1], DecodeCollEntry)
  <2>1. ASSUME NEW i \in 0 .. n PROVE w[i] = G(i)
    <3>1. CASE i = 0
      BY <1>2, <3>1
    <3>2. CASE i # 0
      <4>1. i \in 1 .. n
        BY <3>2
      <4>2. QED BY <1>2, <3>2, <4>1
    <3>3. QED BY <3>1, <3>2
  <2>2. F(w) = [i \in 0 .. n |-> G(i)]
    OBVIOUS
  <2> HIDE DEF G, F
  <2>3. [i \in 0 .. n |-> w[i]] = [i \in 0 .. n |-> G(i)]
    BY <2>1
  <2>4. QED BY <1>2, <2>2, <2>3
<1>5. h = F(h)
  <2> HIDE DEF F
  <2>1. QED BY <1>4
<1> HIDE DEF h
<1>6. h[0] = Ok(EmptyList, buf) /\ \A i \in 1 .. n : h[i] = Bind(h[i - 1], DecodeCollEntry)
  <2> DEFINE G(i) == IF i = 0 THEN Ok(EmptyList, buf) ELSE Bind(h[i - 1], DecodeCollEntry)
  <2>1. F(h) = [i \in 0 .. n |-> G(i)]
    OBVIOUS
  <2> HIDE DEF G, F
  <2>2. \A i \in 0 .. n : h[i] = G(i)
    BY <1>5, <2>1
  <2>3. 0 \in 0 .. n /\ \A i \in 1 .. n : i \in 0 .. n /\ i # 0
    OBVIOUS
  <2>4. QED BY <2>2, <2>3 DEF G
<1>7. \A i \in 0 .. n : h[i] = w[i]
  <2>1. h[0] = w[0]
    BY <1>2, <1>6
  <2>2. \A i \in 1 .. n : h[i - 1] = w[i - 1] => h[i] = w[i]
    BY <1>2, <1>6
  <2>3. Alike(h, w, n)
    BY ONLY n \in Nat, <2>1, <2>2, ChainsAgree
  <2>4. QED BY <2>3 DEF Alike
<1>8. LoopEnd(h, n) = Ok(m, rest)
  <2>1. n \in 0 .. n /\ \A i \in 0 .. n : h[i].st = "ok"
    BY <1>2, <1>7
  <2>2. QED BY <1>7, <2>1, LoopEndsWell
<1> DEFINE r == LoopEnd(h, n)
<1>9. r.st = "ok" /\ r.v = m /\ r.buf = rest
  BY <1>8, OkFields
<1> HIDE DEF r
<1>10. Bind(r, LAMBDA v, more : Ok(ListVal(v), more)) = Ok(ListVal(m), rest)
  BY <1>9 DEF Bind
<1>11. QED BY <1>1, <1>10 DEF r

-----------------------------------------------------------------------------
\* Two parts in front of other bytes.
Joined(a, b, c) ==
  (a \o b) \o c = a \o (b \o c) /\ b \o c \in Seq(Int) /\ a \o b \in Seq(Int)

\* Two parts in front of other bytes, taken together or one by one.
LEMMA TwoParts ==
  ASSUME NEW a \in Seq(Int), NEW b \in Seq(Int), NEW c \in Seq(Int)
  PROVE  Joined(a, b, c)
<1>1. (a \o b) \o c = a \o (b \o c)
  BY ONLY a \in Seq(Int), b \in Seq(Int), c \in Seq(Int), ConcatAssociative, SMTT(30)
<1>2. b \o c \in Seq(Int) /\ a \o b \in Seq(Int)
  BY ConcatProperties
<1>3. QED BY <1>1, <1>2 DEF Joined

\* The entries of some parts, each read from its bytes, one after the other.
PartsRead(keyed, keys, bs, parts) ==
  \A i \in 1 .. Len(bs) :
    /\ parts[i] = <<>> \/ \E x : parts[i] = <<x>>
    /\ ParamReadAs(keyed, keys[i], bs[i], parts[i])
    /\ keyed => NewKey(Before(parts, i - 1), keys[i])

\* The loop reads part after part and stands behind the last one.
LEMMA PartsTurn ==
  ASSUME NEW keyed \in BOOLEAN, NEW keys, NEW bs \in Seq(Seq(Int)), NEW U,
         NEW parts \in Seq(Seq(U)), Len(parts) = Len(bs),
         PartsRead(keyed, keys, bs, parts), NEW behind \in Seq(Int)
  PROVE  \E w : /\ Turned(keyed, w, Len(bs), FlattenSeq(bs) \o behind)
                /\ w[Len(bs)] = Ok(StateOf(keyed, FlattenSeq(parts)), behind)
<1> DEFINE n    == Len(bs)
           buf  == FlattenSeq(bs) \o behind
           W(i) == Ok(StateOf(keyed, Before(parts, i)), Behind(bs, i) \o behind)
           w    == [i \in 0 .. n |-> W(i)]
<1>1. n \in Nat
  BY LenProperties
<1>2. W(0) = Ok(NoEntries(keyed), buf)
  <2>1. Before(parts, 0) = <<>> /\ Behind(bs, 0) = FlattenSeq(bs)
    BY BeforeGrows, BehindShrinks
  <2>2. QED BY <2>1, NoEntriesIs
<1>3. ASSUME NEW i \in 1 .. n PROVE W(i) = Turn(keyed, W(i - 1))
  <2> DEFINE k    == i - 1
             b    == bs[i]
             p    == parts[i]
             hd   == Before(parts, k)
             rest == Behind(bs, i) \o behind
  <2>1. i \in 0 .. n /\ k \in 0 .. n /\ i \in 1 .. Len(parts) /\ k \in 0 .. Len(parts)
    BY <1>1
  <2>2. hd \in Seq(U) /\ p \in Seq(U) /\ Before(parts, i) = hd \o p
    BY <2>1, BeforeGrows, ElementOfSeq
  <2>3. Behind(bs, i) \in Seq(Int) /\ b \in Seq(Int) /\ Behind(bs, k) = b \o Behind(bs, i)
    BY <2>1, BehindShrinks, ElementOfSeq
  <2>4. ParamReadAs(keyed, keys[i], b, p) /\ (keyed => NewKey(hd, keys[i]))
    BY DEF PartsRead
  <2> HIDE DEF k, hd
  <2>5. rest \in Seq(Int) /\ Behind(bs, k) \o behind = b \o rest
    <3>1. Joined(b, Behind(bs, i), behind)
      BY <2>3, TwoParts
    <3>2. QED BY <2>3, <3>1 DEF Joined
  <2> HIDE DEF p, b, rest
  <2>6. NextEntry(keyed, StateOf(keyed, hd), b \o rest) = Ok(StateOf(keyed, hd \o p), rest)
    BY <2>2, <2>4, <2>5 DEF ParamReadAs
  <2>7. W(k) = Ok(StateOf(keyed, hd), b \o rest)
    BY <2>5 DEF hd
  <2>8. W(i) = Ok(StateOf(keyed, hd \o p), rest)
    BY <2>2 DEF rest
  <2> HIDE DEF W
  <2>9. W(k).st = "ok" /\ W(k).v = StateOf(keyed, hd) /\ W(k).buf = b \o rest
    <3> DEFINE r  == W(k)
               st == StateOf(keyed, hd)
               bf == b \o rest
    <3>1. r = Ok(st, bf)
      BY <2>7
    <3> HIDE DEF r, st, bf
    <3>2. r.st = "ok" /\ r.v = st /\ r.buf = bf
      BY <3>1, OkFields
    <3>3. QED BY <3>2 DEF r, st, bf
  <2>10. QED BY <2>6, <2>8, <2>9 DEF Turn, k
<1> HIDE DEF W
<1>4. Turned(keyed, w, n, buf)
  <2>1. w = [i \in 0 .. n |-> w[i]]
    OBVIOUS
  <2>2. \A i \in 0 .. n : w[i] = W(i)
    OBVIOUS
  <2>3. 0 \in 0 .. n /\ \A i \in 1 .. n : i \in 0 .. n /\ i - 1 \in 0 .. n
    BY <1>1
  <2> HIDE DEF w, n
  <2>4. w[0] = Ok(NoEntries(keyed), buf)
    BY <1>2, <2>2, <2>3
  <2>5. \A i \in 1 .. n : w[i] = Turn(keyed, w[i - 1])
    BY <1>3, <2>2, <2>3
  <2>6. \A i \in 0 .. n : w[i].st = "ok"
    BY <2>2, OkFields DEF W
  <2>7. QED BY <2>1, <2>4, <2>5, <2>6 DEF Turned
<1>5. w[n] = Ok(StateOf(keyed, FlattenSeq(parts)), behind)
  <2>1. Before(parts, n) = FlattenSeq(parts) /\ Behind(bs, n) = <<>>
    BY BeforeGrows, BehindShrinks
  <2>2. <<>> \o behind = behind
    BY ConcatEmptySeq
  <2>3. n \in 0 .. n
    BY <1>1
  <2>4. W(n) = Ok(StateOf(keyed, FlattenSeq(parts)), behind)
    BY <2>1, <2>2 DEF W
  <2>5. QED BY <2>3, <2>4
<1>6. QED BY <1>4, <1>5

\* A map or a list as the value of an entry.
ValueOf(keyed, hd) == IF keyed THEN MapVal(With(hd)) ELSE ListVal(ListWith(hd))

\* Its number of entries in two bytes, and the entries.
GetAll(keyed, buf) ==
  IF keyed THEN Bind(GetUint(buf, 2), DecodeMap) ELSE Bind(GetUint(buf, 2), DecodeColl)

\* The number of entries is read, and then all of them.
LEMMA AllRead ==
  ASSUME NEW keyed \in BOOLEAN, NEW keys, NEW bs \in Seq(Seq(Int)), InUnsigned(Len(bs), 2), NEW U,
         NEW parts \in Seq(Seq(U)), Len(parts) = Len(bs),
         PartsRead(keyed, keys, bs, parts), NEW behind \in Seq(Int)
  PROVE  /\ PutInt(Len(bs), 2) \o FlattenSeq(bs) \in Seq(Int)
         /\ GetAll(keyed, (PutInt(Len(bs), 2) \o FlattenSeq(bs)) \o behind)
              = Ok(ValueOf(keyed, FlattenSeq(parts)), behind)
<1> DEFINE n == Len(bs)
           a == FlattenSeq(bs)
           c == PutInt(n, 2)
           p == FlattenSeq(parts)
<1>1. n \in Nat
  BY LenProperties
<1>2. c \in Seq(Int) /\ a \in Seq(Int)
  <2>1. c \in Seq(Int)
    BY <1>1, IntSeq
  <2>2. n \in 0 .. n
    BY <1>1
  <2>3. QED BY <2>1, <2>2, BeforeGrows
<1>3. PICK w : Turned(keyed, w, n, a \o behind) /\ w[n] = Ok(StateOf(keyed, p), behind)
  BY PartsTurn
<1> HIDE DEF c, a
<1>4. (c \o a) \o behind = c \o (a \o behind) /\ a \o behind \in Seq(Int) /\ c \o a \in Seq(Int)
  BY <1>2, TwoParts DEF Joined
<1>5. GetUint(c \o (a \o behind), 2) = Ok(n, a \o behind)
  BY <1>4, UintRead DEF c
<1> DEFINE buf == (c \o a) \o behind
           r   == GetUint(buf, 2)
<1>6. r.st = "ok" /\ r.v = n /\ r.buf = a \o behind
  <2> DEFINE more == a \o behind
  <2>1. r = Ok(n, more)
    BY <1>4, <1>5
  <2> HIDE DEF r, more, n
  <2>2. r.st = "ok" /\ r.v = n /\ r.buf = more
    BY <2>1, OkFields
  <2>3. QED BY <2>2 DEF more
<1>7. GetAll(keyed, buf) = IF keyed THEN Bind(r, DecodeMap) ELSE Bind(r, DecodeColl)
  BY DEF GetAll
<1> HIDE DEF r, buf, n, p
<1>8. CASE keyed
  <2>1. w[n] = Ok(With(p), behind) /\ MapTurned(w, n, a \o behind)
    BY <1>3, <1>8, TurnedIs DEF StateOf
  <2> DEFINE bf == a \o behind
             st == With(p)
  <2>2. DecodeMap(n, bf) = Ok(MapVal(st), behind)
    <3>1. n \in Nat /\ w[n] = Ok(st, behind) /\ MapTurned(w, n, bf)
      BY <1>1, <2>1 DEF n
    <3> HIDE DEF bf, st
    <3>2. QED BY ONLY <3>1, MapLoop
  <2>3. QED BY <1>4, <1>6, <1>7, <1>8, <2>2 DEF Bind, ValueOf, buf, p, n, c, a
<1>9. CASE ~keyed
  <2>1. w[n] = Ok(ListWith(p), behind) /\ CollTurned(w, n, a \o behind)
    BY <1>3, <1>9, TurnedIs DEF StateOf
  <2> DEFINE bf == a \o behind
             st == ListWith(p)
  <2>2. DecodeColl(n, bf) = Ok(ListVal(st), behind)
    <3>1. n \in Nat /\ w[n] = Ok(st, behind) /\ CollTurned(w, n, bf)
      BY <1>1, <2>1 DEF n
    <3> HIDE DEF bf, st
    <3>2. QED BY ONLY <3>1, CollLoop
  <2>3. QED BY <1>4, <1>6, <1>7, <1>9, <2>2 DEF Bind, ValueOf, buf, p, n, c, a
<1>10. QED BY <1>8, <1>9
-----------------------------------------------------------------------------
\* The loop that writes parameters.

\* What is written for an entry of a map or a list.
Element(keyed, ex) ==
  Cat(Out(IF keyed THEN WriteString(ex.key) ELSE <<>>), EncodeInside(ex, ex.type))

\* Those in good are written as bs.
ElementsAre(keyed, hd, bs, good) ==
  \A i \in 1 .. Len(hd) : Element(keyed, hd[i]) = IF i \in good THEN Out(bs[i]) ELSE Refused

\* What is written for a map or a list, of which the entries in good can be written.
LEMMA AllWritten ==
  ASSUME NEW keyed \in BOOLEAN, NEW hd, NEW bs \in Seq(Seq(Int)), Len(bs) = Len(hd), NEW good,
         ElementsAre(keyed, hd, bs, good)
  PROVE  EncodeAll(hd, keyed) = Written(PutInt(Len(hd), 2), bs, good, Len(hd))
<1> DEFINE n     == Len(hd)
           front == PutInt(n, 2)
           els   == [i \in 1 .. n |-> Element(keyed, hd[i])]
           F(f)  == [i \in 0 .. n |->
                       IF i = 0 THEN Out(front)
                       ELSE Cat(f[i - 1], Element(keyed, hd[i]))]
           h     == CHOOSE f : f = F(f)
           w     == [i \in 0 .. n |-> Written(front, bs, good, i)]
<1>1. n \in Nat /\ n = Len(bs)
  BY LenProperties
<1>2. EncodeAll(hd, keyed) = h[n]
  BY DEF EncodeAll, Element
<1>3. front \in Seq(Int)
  BY <1>1, IntSeq
<1>4. \A i \in 1 .. n : els[i] = Element(keyed, hd[i])
  OBVIOUS
<1> HIDE DEF els, front
<1>5. Elements(els, bs, good)
  BY <1>1, <1>4 DEF Elements, ElementsAre
<1> HIDE DEF n
<1>6. /\ Written(front, bs, good, 0) = Out(front)
      /\ \A i \in 1 .. n : Written(front, bs, good, i) = Cat(Written(front, bs, good, i - 1), els[i])
  BY <1>1, <1>3, <1>5, WriteMore
<1>7. w = F(w)
  <2> DEFINE G(i) == IF i = 0 THEN Out(front) ELSE Cat(w[i - 1], Element(keyed, hd[i]))
  <2>1. ASSUME NEW i \in 0 .. n PROVE w[i] = G(i)
    <3>1. CASE i = 0
      BY <1>6, <3>1
    <3>2. CASE i # 0
      <4>1. i \in 1 .. n /\ i - 1 \in 0 .. n
        BY <1>1, <3>2
      <4>2. w[i] = Written(front, bs, good, i) /\ w[i - 1] = Written(front, bs, good, i - 1)
        BY <4>1
      <4> HIDE DEF w
      <4>3. QED BY <1>4, <1>6, <3>2, <4>1, <4>2
    <3>3. QED BY <3>1, <3>2
  <2>2. w = [i \in 0 .. n |-> w[i]]
    OBVIOUS
  <2>3. F(w) = [i \in 0 .. n |-> G(i)]
    OBVIOUS
  <2> HIDE DEF w, G, F
  <2>4. [i \in 0 .. n |-> w[i]] = [i \in 0 .. n |-> G(i)]
    BY <2>1
  <2>5. QED BY <2>2, <2>3, <2>4
<1>8. h = F(h)
  <2> HIDE DEF w, F
  <2>1. QED BY <1>7
<1> HIDE DEF h
<1>9. h[0] = Out(front) /\ \A i \in 1 .. n : h[i] = Cat(h[i - 1], els[i])
  <2> DEFINE G(i) == IF i = 0 THEN Out(front) ELSE Cat(h[i - 1], Element(keyed, hd[i]))
  <2>1. F(h) = [i \in 0 .. n |-> G(i)]
    OBVIOUS
  <2> HIDE DEF G, F
  <2>2. \A i \in 0 .. n : h[i] = G(i)
    BY <1>8, <2>1
  <2>3. 0 \in 0 .. n /\ \A i \in 1 .. n : i \in 0 .. n /\ i # 0
    BY <1>1
  <2>4. QED BY <1>4, <2>2, <2>3 DEF G
<1>10. h[Len(bs)] = Written(front, bs, good, Len(bs))
  <2>1. Chained(h, front, els, Len(bs))
    BY <1>1, <1>9 DEF Chained
  <2>2. QED BY <1>3, <1>5, <2>1, WriteChain
<1>11. QED BY <1>1, <1>2, <1>10 DEF front, n
-----------------------------------------------------------------------------
\* What becomes of each entry of a parameter.

\* How a value of a type is read and written.
LEMMA DecodeValueIs ==
  ASSUME NEW t \in Types, NEW buf
  PROVE  /\ t \in DOMAIN Width => DecodeValue(t, buf) = GetScalar(t, buf)
         /\ t = BytesT => DecodeValue(t, buf) = GetBuffer(buf)
         /\ t = StringT => DecodeValue(t, buf) = GetText(buf)
         /\ t \in Maps => DecodeValue(t, buf) = GetAll(TRUE, buf)
         /\ t \in Colls => DecodeValue(t, buf) = Released(GetAll(FALSE, buf))
         /\ t \in Unset => DecodeValue(t, buf) = Ok(NullVal, buf)
<1>1. t \in DOMAIN Width => DecodeValue(t, buf) = GetScalar(t, buf)
  BY TypesTell DEF DecodeValue
<1>2. t = BytesT => DecodeValue(t, buf) = GetBuffer(buf)
  BY TypesTell DEF DecodeValue
<1>3. t = StringT => DecodeValue(t, buf) = GetText(buf)
  BY TypesTell DEF DecodeValue
<1>4. t \in Maps => DecodeValue(t, buf) = GetAll(TRUE, buf)
  BY TypesTell DEF DecodeValue, GetAll
<1>5. t \in Colls => DecodeValue(t, buf) = Released(GetAll(FALSE, buf))
  BY TypesTell DEF DecodeValue, GetAll
<1>6. t \in Unset => DecodeValue(t, buf) = Ok(NullVal, buf)
  BY TypesTell DEF DecodeValue
<1>7. QED BY <1>1, <1>2, <1>3, <1>4, <1>5, <1>6

\* Is an entry written without a value?
NoValue(ex) == ex.type = NullT \/ (ex.type \in Maps \cup Colls /\ ex.val.e = <<>>)

\* What is written for an entry, by its type (jm_cli_encodeExtra).
LEMMA EncodeValueIs ==
  ASSUME NEW ex, ex.type \in Types
  PROVE  LET Typed(out) == Cat(Out(PutInt(ex.type, 1)), out)
             res        == EncodeValue(ex, ex.type)
         IN /\ NoValue(ex) => res = Out(PutInt(NullT, 1))
            /\ ~NoValue(ex) /\ ReadsNull(ex) => res = Refused
            /\ ~NoValue(ex) /\ ~ReadsNull(ex) =>
                 /\ ex.type \in DOMAIN Width => res = Typed(Out(PutScalar(ex)))
                 /\ ex.type \in {FloatT, DoubleT} => res = Typed(Out(PutInt(0, 1)))
                 /\ ex.type = BytesT => res = Typed(PutBytes(ex))
                 /\ ex.type = StringT => res = Typed(Out(PutText(ex)))
                 /\ ex.type \in Maps => res = Typed(EncodeAll(ex.val.e, TRUE))
                 /\ ex.type \in Colls => res = Typed(EncodeAll(ex.val.e, FALSE))
<1> DEFINE t          == ex.type
           Typed(out) == Cat(Out(PutInt(t, 1)), out)
           res        == EncodeValue(ex, t)
           val        == CASE t \in DOMAIN Width      -> Out(PutScalar(ex))
                           [] t \in {FloatT, DoubleT} -> Out(PutInt(0, 1))
                           [] t = BytesT              -> PutBytes(ex)
                           [] t = StringT             -> Out(PutText(ex))
                           [] t \in Maps              -> EncodeAll(ex.val.e, TRUE)
                           [] t \in Colls             -> EncodeAll(ex.val.e, FALSE)
                           [] OTHER                   -> Refused
<1>1. NoValue(ex) => res = Out(PutInt(NullT, 1))
  BY DEF NoValue, EncodeValue
<1>2. ~NoValue(ex) /\ ReadsNull(ex) => res = Refused
  BY DEF NoValue, EncodeValue
<1>3. ~NoValue(ex) /\ ~ReadsNull(ex) => res = Typed(val)
  BY DEF NoValue, EncodeValue
<1> HIDE DEF t
<1>4. {FloatT, DoubleT} \subseteq Unset
  BY DEF Unset
<1>5. t \in DOMAIN Width => val = Out(PutScalar(ex))
  BY <1>4, TypesTell
<1>6. t \in {FloatT, DoubleT} => val = Out(PutInt(0, 1))
  BY <1>4, TypesTell
<1>7. t = BytesT => val = PutBytes(ex)
  BY <1>4, TypesTell
<1>8. t = StringT => val = Out(PutText(ex))
  BY <1>4, TypesTell
<1>9. t \in Maps => val = EncodeAll(ex.val.e, TRUE)
  BY <1>4, TypesTell
<1>10. t \in Colls => val = EncodeAll(ex.val.e, FALSE)
  BY <1>4, TypesTell
<1> HIDE DEF val, res
<1>11. QED BY <1>1, <1>2, <1>3, <1>5, <1>6, <1>7, <1>8, <1>9, <1>10 DEF t, res

\* A type and what is behind it.
LEMMA TypedBytes ==
  ASSUME NEW t \in Types, NEW vb \in Seq(Int)
  PROVE  /\ Cat(Out(PutInt(t, 1)), Out(vb)) = Out(PutInt(t, 1) \o vb)
         /\ Cat(Out(PutInt(t, 1)), Refused) = Refused
<1>1. \A b : Out(b).ok /\ Out(b).bytes = b
  BY DEF Out
<1>2. ~Refused.ok
  BY DEF Refused
<1>3. QED BY <1>1, <1>2 DEF Cat
-----------------------------------------------------------------------------
\* The value of an entry ends the program, or has a FLOAT or DOUBLE in it.
Bad(ex)    == ReadsNull(ex) \/ (ex.type \in Maps \cup Colls /\ NullIn(ex.val.e))
Floaty(ex) == ex.type \in {FloatT, DoubleT} \/ (ex.type \in Maps \cup Colls /\ FloatIn(ex.val.e))

\* The bytes vb of the type t are read as the value of ex, or as none.
ReadAsValue(ex, t, vb, v) ==
  /\ \A behind \in Seq(Int) : DecodeValue(t, vb \o behind) = Ok(v, behind)
  /\ InParams(ex) => \A key : Same("params", ex, Made(key, t, v))
ReadAsNone(ex, t, vb) ==
  ~InParams(ex) /\ \A behind \in Seq(Int) : DecodeValue(t, vb \o behind) = Fail(behind)

\* The value of an entry is not written, or its bytes are read.
WrittenAs(ex, t, vb) ==
  InSigned(t, 1) /\ vb \in Seq(Int) /\ EncodeValue(ex, ex.type) = Out(PutInt(t, 1) \o vb)
Fate(ex) ==
  IF Bad(ex) THEN EncodeValue(ex, ex.type) = Refused
  ELSE \E t, vb : /\ WrittenAs(ex, t, vb)
                  /\ Floaty(ex) \/ ReadAsNone(ex, t, vb) \/ \E v : ReadAsValue(ex, t, vb, v)

\* An entry that is no map or list.
LEMMA PlainFate ==
  ASSUME NEW S, NEW ex \in Holders(S), ex.type \notin Maps \cup Colls
  PROVE  Fate(ex)
<1> DEFINE t == ex.type
           s == ex.val.n
<1>1. t \in Types /\ InSigned(t, 1) /\ Fits(ex) /\ s \in Seq(Int) /\ ex.len \in Nat
  BY HolderHas
<1>2. NoValue(ex) <=> t = NullT
  BY DEF NoValue
<1>3. Bad(ex) <=> ReadsNull(ex)
  BY DEF Bad
<1>4. CASE ReadsNull(ex)
  <2>1. t \in {StringT, BytesT}
    BY <1>4 DEF ReadsNull
  <2>2. t # NullT
    BY <2>1, TypesTell
  <2>3. EncodeValue(ex, ex.type) = Refused
    BY <1>1, <1>2, <1>4, <2>2, EncodeValueIs
  <2>4. QED BY <1>3, <1>4, <2>3 DEF Fate
<1>5. CASE t = NullT
  <2> DEFINE vb == <<>>
             b  == PutInt(NullT, 1)
  <2>1. b \in Seq(Int) /\ InSigned(NullT, 1) /\ NullT \in Types /\ NullT \in Unset
    BY <1>1, <1>5, TypesTell, IntSeq DEF InSigned
  <2>2. vb \in Seq(Int) /\ b \o vb = b
    BY <2>1, ConcatEmptySeq
  <2>3. EncodeValue(ex, ex.type) = Out(b \o vb)
    BY <1>1, <1>2, <1>5, <2>2, EncodeValueIs
  <2>4. \A behind \in Seq(Int) : DecodeValue(NullT, vb \o behind) = Ok(NullVal, behind)
    <3> SUFFICES ASSUME NEW behind \in Seq(Int)
                 PROVE  DecodeValue(NullT, vb \o behind) = Ok(NullVal, behind)
      OBVIOUS
    <3>1. vb \o behind = behind
      BY ConcatEmptySeq
    <3>2. QED BY <2>1, <3>1, DecodeValueIs
  <2>5. ~InParams(ex)
    BY <1>5, TypesTell DEF InParams
  <2> HIDE DEF vb, b
  <2>6. ReadAsValue(ex, NullT, vb, NullVal)
    BY <2>4, <2>5 DEF ReadAsValue
  <2>7. WrittenAs(ex, NullT, vb)
    BY <2>1, <2>2, <2>3 DEF WrittenAs, b
  <2>8. ~ReadsNull(ex)
    BY <1>5, TypesTell DEF ReadsNull
  <2>9. QED BY <1>3, <2>6, <2>7, <2>8 DEF Fate
<1>6. ASSUME ~ReadsNull(ex), t # NullT, NEW vb \in Seq(Int),
             EncodeValue(ex, t) = Cat(Out(PutInt(t, 1)), Out(vb)),
             Floaty(ex) \/ ReadAsNone(ex, t, vb) \/ \E v : ReadAsValue(ex, t, vb, v)
      PROVE  Fate(ex)
  <2>1. WrittenAs(ex, t, vb)
    BY <1>1, <1>6, TypedBytes DEF WrittenAs
  <2>2. QED BY <1>3, <1>6, <2>1 DEF Fate
<1>7. CASE ~ReadsNull(ex) /\ t \in {FloatT, DoubleT}
  <2>1. t # NullT
    BY <1>7, SMT DEF FloatT, DoubleT, NullT, Prefix
  <2>2. PutInt(0, 1) \in Seq(Int)
    BY IntSeq
  <2>3. EncodeValue(ex, t) = Cat(Out(PutInt(t, 1)), Out(PutInt(0, 1)))
    BY <1>1, <1>2, <1>7, <2>1, EncodeValueIs
  <2>4. Floaty(ex)
    BY <1>7 DEF Floaty
  <2>5. QED BY <1>6, <1>7, <2>1, <2>2, <2>3, <2>4
<1>8. CASE ~ReadsNull(ex) /\ t \in DOMAIN Width
  <2> DEFINE vb == PutScalar(ex)
  <2>1. Holds(t, ex.val) /\ t # NullT /\ t \notin {StringT, BytesT}
    BY <1>1, <1>8, TypesTell DEF Fits, ValueFits
  <2>2. EncodeValue(ex, t) = Cat(Out(PutInt(t, 1)), Out(vb)) /\ vb \in Seq(Int)
    BY <1>1, <1>2, <1>8, <2>1, EncodeValueIs, ScalarBytes
  <2>3. \A behind \in Seq(Int) : DecodeValue(t, vb \o behind) = Ok(ex.val, behind)
    BY <1>1, <1>8, <2>1, DecodeValueIs, ScalarsArrive
  <2>4. \A key : Same("params", ex, Made(key, t, ex.val))
    <3> SUFFICES ASSUME NEW key PROVE Same("params", ex, Made(key, t, ex.val))
      OBVIOUS
    <3> DEFINE x == Made(key, t, ex.val)
    <3>1. x.type = ex.type /\ x.val = ex.val
      BY DEF Made
    <3> HIDE DEF x
    <3>2. Same("params", ex, x)
      BY <2>1, <3>1 DEF Same
    <3>3. QED BY <3>2 DEF x
  <2> HIDE DEF vb
  <2>5. ReadAsValue(ex, t, vb, ex.val)
    BY <2>3, <2>4 DEF ReadAsValue
  <2>6. QED BY <1>6, <1>8, <2>1, <2>2, <2>5
<1>9. CASE ~ReadsNull(ex) /\ t = BytesT
  <2> DEFINE vb == PutBytes(ex).bytes
             v  == Text(SubSeq(s, 1, 4))
  <2>1. ex.len = 4 /\ ex.val # NullVal /\ Len(s) >= 4 /\ t # NullT
    BY <1>1, <1>9, TypesTell DEF Fits, ValueFits, ReadsNull
  <2>2. ex.len \in Nat /\ ex.len # 0 /\ ex.len <= Len(s) /\ InUnsigned(ex.len, 2)
    BY <2>1, SMT DEF InUnsigned, Largest
  <2>3. <<>> \in Seq(Int)
    OBVIOUS
  <2>4. PutBytes(ex) = Out(vb) /\ vb \in Seq(Int)
    BY <1>1, <2>2, <2>3, BytesPart
  <2>5. EncodeValue(ex, t) = Cat(Out(PutInt(t, 1)), Out(vb))
    BY <1>1, <1>2, <1>9, <2>1, <2>4, EncodeValueIs
  <2>6. \A behind \in Seq(Int) : DecodeValue(t, vb \o behind) = Ok(v, behind)
    <3> SUFFICES ASSUME NEW behind \in Seq(Int) PROVE DecodeValue(t, vb \o behind) = Ok(v, behind)
      OBVIOUS
    <3>1. DecodeValue(t, vb \o behind) = GetBuffer(vb \o behind)
      BY <1>1, <1>9, DecodeValueIs
    <3>2. QED BY <1>1, <2>1, <2>2, <3>1, BytesPart
  <2>7. \A key : Same("params", ex, Made(key, t, v))
    <3> SUFFICES ASSUME NEW key PROVE Same("params", ex, Made(key, t, v))
      OBVIOUS
    <3> DEFINE x == Made(key, t, v)
    <3>1. x.type = ex.type /\ x.val.n = SubSeq(s, 1, 4)
      BY DEF Made, Text
    <3> HIDE DEF x
    <3>2. Same("params", ex, x)
      BY <1>9, <2>1, <3>1, TypesTell DEF Same
    <3>3. QED BY <3>2 DEF x
  <2> HIDE DEF vb, v
  <2>8. ReadAsValue(ex, t, vb, v)
    BY <2>6, <2>7 DEF ReadAsValue
  <2>9. QED BY <1>6, <1>9, <2>1, <2>4, <2>5, <2>8
<1>10. CASE ~ReadsNull(ex) /\ t = StringT
  <2> DEFINE vb == PutText(ex)
             k  == Cut(ex.len)
             v  == Text(SubSeq(s, 1, k))
  <2>1. t # NullT
    BY <1>10, TypesTell
  <2>2. ex.len <= Len(s) /\ (ex.val # NullVal => ex.len = Len(s))
    <3>1. Len(s) \in Nat
      BY <1>1, LenProperties
    <3>2. CASE ex.val # NullVal
      BY <1>1, <1>10, <3>1, <3>2 DEF Fits, ValueFits
    <3>3. CASE ex.val = NullVal
      <4>1. ex.len = 0
        BY <1>1, <1>10, <3>3 DEF ReadsNull
      <4>2. QED BY <3>1, <3>3, <4>1
    <3>4. QED BY <3>2, <3>3
  <2>3. <<>> \in Seq(Int) /\ k \in Int
    BY <1>1, CutLength
  <2>4. vb \in Seq(Int)
    BY <1>1, <2>2, <2>3, TextRead
  <2>5. EncodeValue(ex, t) = Cat(Out(PutInt(t, 1)), Out(vb))
    BY <1>1, <1>2, <1>10, <2>1, EncodeValueIs
  <2>6. ASSUME NEW behind \in Seq(Int)
        PROVE  DecodeValue(t, vb \o behind) = IF k >= 0 THEN Ok(v, behind) ELSE Fail(behind)
    <3>1. DecodeValue(t, vb \o behind) = GetText(vb \o behind)
      BY <1>1, <1>10, DecodeValueIs
    <3>2. QED BY <1>1, <2>2, <3>1, TextRead
  <2>7. InParams(ex) => ex.val # NullVal /\ Len(s) < 128
    BY <1>10, TypesTell DEF InParams, ShortText
  <2>8. InParams(ex) => k = Len(s) /\ k >= 0 /\ SubSeq(s, 1, k) = s
    <3>1. Len(s) \in Nat
      BY <1>1, LenProperties
    <3>2. InParams(ex) => k = Len(s)
      BY <2>2, <2>7, <3>1, NotCut
    <3>3. SubSeq(s, 1, Len(s)) = s
      BY <1>1, SubSeqFull
    <3> HIDE DEF k
    <3>4. QED BY <3>1, <3>2, <3>3
  <2>9. InParams(ex) => \A key : Same("params", ex, Made(key, t, v))
    <3> SUFFICES ASSUME InParams(ex), NEW key PROVE Same("params", ex, Made(key, t, v))
      OBVIOUS
    <3> DEFINE x == Made(key, t, v)
    <3>1. x.type = ex.type /\ x.val.n = s
      BY <2>8 DEF Made, Text
    <3> HIDE DEF x
    <3>2. Same("params", ex, x)
      BY <1>10, <2>7, <3>1, TypesTell DEF Same
    <3>3. QED BY <3>2 DEF x
  <2> HIDE DEF vb, v, k
  <2>10. CASE k >= 0
    <3>1. ReadAsValue(ex, t, vb, v)
      BY <2>6, <2>9, <2>10 DEF ReadAsValue
    <3>2. QED BY <1>6, <1>10, <2>1, <2>4, <2>5, <3>1
  <2>11. CASE ~(k >= 0)
    <3>1. ReadAsNone(ex, t, vb)
      BY <2>6, <2>8, <2>11 DEF ReadAsNone
    <3>2. QED BY <1>6, <1>10, <2>1, <2>4, <2>5, <3>1
  <2>12. QED BY <2>10, <2>11
<1>11. t \in {NullT, FloatT, DoubleT} \/ t \in DOMAIN Width \/ t = StringT \/ t = BytesT
  BY <1>1 DEF Types, Unset
<1>12. QED BY <1>4, <1>5, <1>7, <1>8, <1>9, <1>10, <1>11
-----------------------------------------------------------------------------
\* The entries of a list have no keys.
Keys(keyed, hd) == IF keyed THEN hd ELSE [i \in DOMAIN hd |-> [hd[i] EXCEPT !.key = <<>>]]

\* The bytes of a map or a list are read as a value that it has arrived in.
ReadAll(hd, keyed, bs) ==
  \E v, U : /\ v.e \in Seq(U) /\ ArrivedHere("params", Keys(keyed, hd), v.e)
            /\ keyed => v.n = <<StringT>>
            /\ \A behind \in Seq(Int) : GetAll(keyed, bs \o behind) = Ok(v, behind)
AllArrive(hd, keyed) ==
  IF NullIn(hd) THEN EncodeAll(hd, keyed) = Refused
  ELSE \E bs : /\ bs \in Seq(Int) /\ EncodeAll(hd, keyed) = Out(bs)
               /\ FloatIn(hd) \/ ReadAll(hd, keyed, bs)

\* Entries without keys lose nothing when their keys are left out.
LEMMA OwnKeysStay ==
  ASSUME NEW S, NEW hd \in Seq(Holders(S)), \A i \in DOMAIN hd : hd[i].key = <<>>
  PROVE  Keys(FALSE, hd) = hd
<1>1. \A i \in DOMAIN hd : hd[i] \in Holders(S)
  BY LenProperties, ElementOfSeq
<1>2. ASSUME NEW i \in DOMAIN hd PROVE [hd[i] EXCEPT !.key = <<>>] = hd[i]
  <2> DEFINE ex == hd[i]
             A  == [n : Seq(Int), e : Seq(S)]
             B  == Seq(Nat)
  <2> HIDE DEF A, B
  <2>1. ex \in [key : B, type : Types, val : A, len : Nat] /\ ex.key = <<>>
    BY <1>1 DEF Holders, A, B
  <2> HIDE DEF ex
  <2>2. [ex EXCEPT !.key = <<>>] = ex
    BY <2>1
  <2>3. QED BY <2>2 DEF ex
<1>3. hd = [i \in DOMAIN hd |-> hd[i]]
  OBVIOUS
<1>4. QED BY <1>2, <1>3 DEF Keys

\* A map or a list in a map or a list.
LEMMA NestedFate ==
  ASSUME NEW S, NEW ex \in Holders(S), ex.type \in Maps \cup Colls,
         ex.val.e = <<>> => ~NullIn(ex.val.e),
         AllArrive(ex.val.e, ex.type \in Maps),
         ex.type \in Colls => Keys(FALSE, ex.val.e) = ex.val.e,
         \A r : ArrivedInside("params", ex.val.e, r) = ArrivedHere("params", ex.val.e, r)
  PROVE  Fate(ex)
<1> DEFINE t == ex.type
           e == ex.val.e
           keyed == t \in Maps
<1>1. t \in Types /\ InSigned(t, 1)
  BY HolderHas
<1>2. t # NullT /\ ~ReadsNull(ex) /\ t \notin {StringT, BytesT}
  BY TypesTell DEF ReadsNull
<1>3. Bad(ex) <=> NullIn(e)
  BY <1>2 DEF Bad
<1>4. CASE e = <<>>
  <2> DEFINE vb == <<>>
             b  == PutInt(NullT, 1)
  <2>1. b \in Seq(Int) /\ InSigned(NullT, 1) /\ NullT \in Types /\ NullT \in Unset
    <3>1. NullT \in Types /\ NullT \in Unset
      BY TypesTell DEF Types
    <3>2. InSigned(NullT, 1) /\ NullT \in Int
      BY <3>1, TypeFits DEF InSigned
    <3>3. QED BY <3>1, <3>2, IntSeq
  <2>2. vb \in Seq(Int) /\ b \o vb = b
    BY <2>1, ConcatEmptySeq
  <2>3. NoValue(ex)
    BY <1>4 DEF NoValue
  <2>4. EncodeValue(ex, ex.type) = Out(b \o vb)
    BY <1>1, <2>2, <2>3, EncodeValueIs
  <2>5. \A behind \in Seq(Int) : DecodeValue(NullT, vb \o behind) = Ok(NullVal, behind)
    <3> SUFFICES ASSUME NEW behind \in Seq(Int)
                 PROVE  DecodeValue(NullT, vb \o behind) = Ok(NullVal, behind)
      OBVIOUS
    <3>1. vb \o behind = behind
      BY ConcatEmptySeq
    <3>2. QED BY <2>1, <3>1, DecodeValueIs
  <2>6. ~InParams(ex)
    BY <1>4, TypesTell DEF InParams
  <2> HIDE DEF vb, b
  <2>7. ReadAsValue(ex, NullT, vb, NullVal)
    BY <2>5, <2>6 DEF ReadAsValue
  <2>8. WrittenAs(ex, NullT, vb)
    BY <2>1, <2>2, <2>4 DEF WrittenAs, b
  <2>9. ~Bad(ex)
    BY <1>3, <1>4
  <2>10. QED BY <2>7, <2>8, <2>9 DEF Fate
<1>5. CASE e # <<>>
  <2>1. ~NoValue(ex)
    BY <1>2, <1>5 DEF NoValue
  <2>2. EncodeValue(ex, t) = Cat(Out(PutInt(t, 1)), EncodeAll(e, keyed))
    <3>1. CASE t \in Maps
      BY <1>1, <1>2, <2>1, <3>1, EncodeValueIs
    <3>2. CASE t \notin Maps
      <4>1. t \in Colls /\ keyed = FALSE
        BY <3>2
      <4>2. QED BY <1>1, <1>2, <2>1, <4>1, EncodeValueIs
    <3>3. QED BY <3>1, <3>2
  <2>3. AllArrive(e, keyed)
    OBVIOUS
  <2>4. keyed \in BOOLEAN /\ Keys(keyed, e) = e
    <3>1. keyed \in BOOLEAN
      OBVIOUS
    <3>2. CASE t \in Maps
      BY <3>2 DEF Keys
    <3>3. CASE t \notin Maps
      <4>1. Keys(FALSE, e) = e
        BY <3>3
      <4>2. keyed = FALSE
        BY <3>3
      <4>3. QED BY <4>1, <4>2
    <3>4. QED BY <3>1, <3>2, <3>3
  <2>5. \A buf, v, behind : GetAll(keyed, buf) = Ok(v, behind) => DecodeValue(t, buf) = Ok(v, behind)
    <3> SUFFICES ASSUME NEW buf, NEW v, NEW behind, GetAll(keyed, buf) = Ok(v, behind)
                 PROVE  DecodeValue(t, buf) = Ok(v, behind)
      OBVIOUS
    <3>1. CASE t \in Maps
      <4>1. DecodeValue(t, buf) = GetAll(TRUE, buf) /\ keyed = TRUE
        BY <1>1, <3>1, DecodeValueIs
      <4>2. QED BY <4>1
    <3>2. CASE t \notin Maps
      <4>1. keyed = FALSE /\ t \in Colls
        BY <3>2
      <4>2. DecodeValue(t, buf) = Released(GetAll(FALSE, buf))
        BY <1>1, <4>1, DecodeValueIs
      <4>3. GetAll(FALSE, buf) = Ok(v, behind)
        BY <4>1
      <4>4. Ok(v, behind).st # "fail"
        BY OkFields
      <4>5. QED BY <4>2, <4>3, <4>4 DEF Released
    <3>3. QED BY <3>1, <3>2
  <2> HIDE DEF keyed
  <2>6. CASE NullIn(e)
    <3>1. EncodeAll(e, keyed) = Refused
      BY <2>3, <2>6 DEF AllArrive
    <3>2. EncodeValue(ex, ex.type) = Refused
      BY <1>1, <2>2, <3>1, TypedBytes, <<>> \in Seq(Int)
    <3>3. QED BY <1>3, <2>6, <3>2 DEF Fate
  <2>7. CASE ~NullIn(e)
    <3>1. PICK bs : /\ bs \in Seq(Int) /\ EncodeAll(e, keyed) = Out(bs)
                    /\ FloatIn(e) \/ ReadAll(e, keyed, bs)
      BY <2>3, <2>7 DEF AllArrive
    <3>2. WrittenAs(ex, t, bs)
      <4>1. EncodeValue(ex, t) = Out(PutInt(t, 1) \o bs)
        BY <1>1, <2>2, <3>1, TypedBytes
      <4>2. QED BY <1>1, <3>1, <4>1 DEF WrittenAs
    <3>3. ~Bad(ex)
      BY <1>3, <2>7
    <3>4. CASE FloatIn(e)
      <4>1. Floaty(ex)
        BY <3>4 DEF Floaty
      <4>2. QED BY <3>2, <3>3, <4>1 DEF Fate
    <3>5. CASE ReadAll(e, keyed, bs)
      <4>1. PICK v, U : /\ v.e \in Seq(U) /\ ArrivedHere("params", e, v.e)
                        /\ \A behind \in Seq(Int) : GetAll(keyed, bs \o behind) = Ok(v, behind)
        BY <2>4, <3>5 DEF ReadAll
      <4>2. \A behind \in Seq(Int) : DecodeValue(t, bs \o behind) = Ok(v, behind)
        BY <2>5, <4>1
      <4>3. \A key : Same("params", ex, Made(key, t, v))
        <5> SUFFICES ASSUME NEW key PROVE Same("params", ex, Made(key, t, v))
          OBVIOUS
        <5> DEFINE x == Made(key, t, v)
        <5>1. x.type = t /\ x.val = v
          BY DEF Made
        <5> HIDE DEF x
        <5>2. ArrivedInside("params", e, x.val.e)
          BY <4>1, <5>1
        <5>3. Same("params", ex, x)
          BY <1>2, <5>1, <5>2 DEF Same
        <5>4. QED BY <5>3 DEF x
      <4>4. ReadAsValue(ex, t, bs, v)
        BY <4>2, <4>3 DEF ReadAsValue
      <4>5. QED BY <3>2, <3>3, <4>4 DEF Fate
    <3>6. QED BY <3>1, <3>4, <3>5
  <2>8. QED BY <2>6, <2>7
<1>6. QED BY <1>4, <1>5
-----------------------------------------------------------------------------
\* Parameters of any depth.

\* The key that is written with an entry, and an entry with it.
KeyOf(keyed, ex) == IF keyed THEN ex.key ELSE <<>>

\* The entries of a list are those of the map without their keys.
LEMMA KeysHave ==
  ASSUME NEW keyed \in BOOLEAN, NEW S, NEW hd \in Seq(S), NEW i \in 1 .. Len(hd),
         hd[i] = [key |-> hd[i].key, type |-> hd[i].type, val |-> hd[i].val, len |-> hd[i].len]
  PROVE  /\ DOMAIN Keys(keyed, hd) = 1 .. Len(hd)
         /\ Keys(keyed, hd)[i].key = KeyOf(keyed, hd[i])
         /\ Keys(keyed, hd)[i].type = hd[i].type
         /\ Keys(keyed, hd)[i].val = hd[i].val
<1>1. DOMAIN hd = 1 .. Len(hd)
  BY LenProperties
<1>2. CASE keyed
  BY <1>1, <1>2 DEF Keys, KeyOf
<1>3. CASE ~keyed
  <2> DEFINE f == [j \in 1 .. Len(hd) |-> [hd[j] EXCEPT !.key = <<>>]]
             ex == hd[i]
             x  == [ex EXCEPT !.key = <<>>]
  <2>1. Keys(keyed, hd) = f
    BY <1>1, <1>3 DEF Keys
  <2>2. DOMAIN f = 1 .. Len(hd) /\ f[i] = x
    OBVIOUS
  <2> HIDE DEF f, ex
  <2>3. x.key = <<>> /\ x.type = ex.type /\ x.val = ex.val
    <3>1. ex = [key |-> ex.key, type |-> ex.type, val |-> ex.val, len |-> ex.len]
      BY DEF ex
    <3>2. QED BY <3>1
  <2>4. QED BY <1>3, <2>1, <2>2, <2>3 DEF KeyOf, ex
<1>4. QED BY <1>2, <1>3

\* What an entry is made of.
LEMMA HolderIs ==
  ASSUME NEW S, NEW ex \in Holders(S)
  PROVE  ex = [key |-> ex.key, type |-> ex.type, val |-> ex.val, len |-> ex.len]
<1> DEFINE A == [n : Seq(Int), e : Seq(S)]
           B == Seq(Nat)
<1> HIDE DEF A, B
<1>1. ex \in [key : B, type : Types, val : A, len : Nat]
  BY DEF Holders, A, B
<1>2. QED BY <1>1

\* What the reader makes of an entry whose bytes are b: another one, or nothing.
PartHas(ex, key, p) ==
  IF p = <<>> THEN ~InParams(ex)
  ELSE p[1].key = key /\ (InParams(ex) => Same("params", ex, p[1]))
ElementGoes(keyed, ex, b, p) ==
  /\ b \in Seq(Int) /\ Element(keyed, ex) = Out(b)
  /\ p = <<>> \/ \E x : p = <<x>>
  /\ Floaty(ex) \/ (ParamReadAs(keyed, KeyOf(keyed, ex), b, p) /\ PartHas(ex, KeyOf(keyed, ex), p))

\* An entry of a map or of a list is refused, or is read as it was or as nothing.
LEMMA ElementFate ==
  ASSUME NEW keyed \in BOOLEAN, NEW S, NEW ex \in Holders(S), Fate(ex), ReadsInside,
         EncodeInside(ex, ex.type) = EncodeValue(ex, ex.type),
         keyed => InUnsigned(Len(ex.key), 2)
  PROVE  IF Bad(ex) THEN Element(keyed, ex) = Refused ELSE \E b, p : ElementGoes(keyed, ex, b, p)
<1> DEFINE key == KeyOf(keyed, ex)
           a   == IF keyed THEN WriteString(ex.key) ELSE <<>>
<1>1. Element(keyed, ex) = Cat(Out(a), EncodeValue(ex, ex.type))
  BY DEF Element
<1>2. \A b : Out(b).ok /\ Out(b).bytes = b /\ ~Refused.ok
  BY DEF Out, Refused
<1>3. CASE Bad(ex)
  <2>1. EncodeValue(ex, ex.type) = Refused
    BY <1>3 DEF Fate
  <2>2. QED BY <1>1, <1>2, <1>3, <2>1 DEF Cat
<1>4. CASE ~Bad(ex)
  <2>1. PICK t, vb : /\ WrittenAs(ex, t, vb)
                     /\ Floaty(ex) \/ ReadAsNone(ex, t, vb) \/ \E v : ReadAsValue(ex, t, vb, v)
    BY <1>4 DEF Fate
  <2> DEFINE b == a \o (PutInt(t, 1) \o vb)
  <2>2. InSigned(t, 1) /\ vb \in Seq(Int) /\ EncodeValue(ex, ex.type) = Out(PutInt(t, 1) \o vb)
    BY <2>1 DEF WrittenAs
  <2>3. Element(keyed, ex) = Out(b)
    BY <1>1, <1>2, <2>2 DEF Cat
  <2>4. key \in Seq(Int) /\ InUnsigned(Len(key), 2)
    <3>1. CASE keyed
      BY <3>1, HolderHas DEF KeyOf
    <3>2. CASE ~keyed
      <4>1. key = <<>> /\ Len(<<>>) = 0 /\ InUnsigned(0, 2)
        BY <3>2, EmptySeq, SMT DEF KeyOf, InUnsigned, Largest
      <4>2. QED BY <4>1
    <3>3. QED BY <3>1, <3>2
  <2>5. a = IF keyed THEN WriteString(key) ELSE <<>>
    BY DEF KeyOf
  <2>6. key = IF keyed THEN key ELSE <<>>
    BY DEF KeyOf
  <2> HIDE DEF a, key
  <2>7. /\ b \in Seq(Int)
        /\ \A v : (\A behind \in Seq(Int) : DecodeValue(t, vb \o behind) = Ok(v, behind))
                    => ParamReadAs(keyed, key, b, <<Made(key, t, v)>>)
        /\ (\A behind \in Seq(Int) : DecodeValue(t, vb \o behind) = Fail(behind))
             => ParamReadAs(keyed, key, b, <<>>)
    <3> DEFINE kk == IF keyed THEN key ELSE <<>>
               bb == (IF keyed THEN WriteString(key) ELSE <<>>) \o (PutInt(t, 1) \o vb)
    <3>1. kk = key /\ bb = b
      BY <2>5, <2>6
    <3>2. /\ bb \in Seq(Int)
          /\ \A v : (\A behind \in Seq(Int) : DecodeValue(t, vb \o behind) = Ok(v, behind))
                      => ParamReadAs(keyed, kk, bb, <<Made(kk, t, v)>>)
          /\ (\A behind \in Seq(Int) : DecodeValue(t, vb \o behind) = Fail(behind))
               => ParamReadAs(keyed, kk, bb, <<>>)
      BY <2>2, <2>4, ElementReadAs
    <3> HIDE DEF kk, bb, b
    <3>3. QED BY <3>1, <3>2
  <2> HIDE DEF b
  <2>8. CASE Floaty(ex)
    <3>1. ElementGoes(keyed, ex, b, <<>>)
      BY <2>3, <2>7, <2>8 DEF ElementGoes
    <3>2. QED BY <1>4, <3>1
  <2>9. CASE ReadAsNone(ex, t, vb)
    <3>1. ParamReadAs(keyed, key, b, <<>>) /\ PartHas(ex, key, <<>>)
      BY <2>7, <2>9 DEF ReadAsNone, PartHas
    <3>2. ElementGoes(keyed, ex, b, <<>>)
      BY <2>3, <2>7, <3>1 DEF ElementGoes, key
    <3>3. QED BY <1>4, <3>2
  <2>10. CASE \E v : ReadAsValue(ex, t, vb, v)
    <3>1. PICK v : ReadAsValue(ex, t, vb, v)
      BY <2>10
    <3> DEFINE x == Made(key, t, v)
               p == <<x>>
    <3>2. ParamReadAs(keyed, key, b, p) /\ (InParams(ex) => Same("params", ex, x))
      BY <2>7, <3>1 DEF ReadAsValue
    <3>3. x.key = key /\ p # <<>> /\ p[1] = x /\ \E y : p = <<y>>
      BY DEF Made
    <3> HIDE DEF x, p
    <3>4. PartHas(ex, key, p)
      BY <3>2, <3>3 DEF PartHas
    <3>5. ElementGoes(keyed, ex, b, p)
      BY <2>3, <2>7, <3>2, <3>3, <3>4 DEF ElementGoes, key
    <3>6. QED BY <1>4, <3>5
  <2>11. QED BY <2>1, <2>8, <2>9, <2>10
<1>5. QED BY <1>3, <1>4

\* The bytes of an entry, and what is read.
BytesFor(keyed, ex) == CHOOSE b : \E p : ElementGoes(keyed, ex, b, p)
ReadFor(keyed, ex)  == CHOOSE p : ElementGoes(keyed, ex, BytesFor(keyed, ex), p)

\* The bytes and the entry that are chosen for an entry do so.
LEMMA ChosenGoes ==
  ASSUME NEW keyed, NEW ex, \E b, p : ElementGoes(keyed, ex, b, p)
  PROVE  ElementGoes(keyed, ex, BytesFor(keyed, ex), ReadFor(keyed, ex))
<1>1. \E b : \E p : ElementGoes(keyed, ex, b, p)
  OBVIOUS
<1>2. \E p : ElementGoes(keyed, ex, BytesFor(keyed, ex), p)
  BY <1>1 DEF BytesFor
<1>3. QED BY <1>2 DEF ReadFor

\* A key is not that of an entry that came from an earlier one.
LEMMA KeysStayNew ==
  ASSUME NEW S, NEW hd \in Seq(S), OwnKeys(hd), NEW i \in 1 .. Len(hd), NEW U, NEW r \in Seq(U),
         ArrivedUpTo("params", hd, i - 1, r)
  PROVE  NewKey(r, hd[i].key)
<1>1. DOMAIN hd = 1 .. Len(hd) /\ Len(hd) \in Nat /\ DOMAIN r = 1 .. Len(r)
  BY LenProperties
<1>2. PICK from \in [1 .. Len(r) -> 1 .. i - 1] : Comes("params", hd, i - 1, r, Len(r), from)
  BY DEF ArrivedUpTo
<1>3. ASSUME NEW j \in DOMAIN r PROVE ~SameKey(StringT, hd[i].key, r[j].key)
  <2>1. from[j] \in 1 .. i - 1 /\ from[j] \in 1 .. Len(hd) /\ from[j] < i
    BY <1>1, <1>2
  <2>2. r[j].key = hd[from[j]].key
    BY <1>1, <1>2 DEF Comes
  <2>3. ~SameKey(StringT, hd[i].key, hd[from[j]].key)
    BY <1>1, <2>1 DEF OwnKeys
  <2>4. QED BY <2>2, <2>3
<1>4. QED BY <1>3 DEF NewKey

\* The entries of a map or of a list arrive when what is inside them does.
LEMMA ParamsCross ==
  ASSUME NEW keyed \in BOOLEAN, NEW S, NEW hd \in Seq(Holders(S)), InUnsigned(Len(hd), 2),
         keyed => OwnKeys(hd) /\ KeysFit(hd), ReadsInside,
         \A i \in 1 .. Len(hd) :
           Fate(hd[i]) /\ EncodeInside(hd[i], hd[i].type) = EncodeValue(hd[i], hd[i].type),
         NullIn(hd) <=> \E i \in 1 .. Len(hd) : Bad(hd[i]),
         FloatIn(hd) <=> \E i \in 1 .. Len(hd) : Floaty(hd[i])
  PROVE  AllArrive(hd, keyed)
<1> DEFINE n     == Len(hd)
           good  == {i \in 1 .. n : ~Bad(hd[i])}
           bs    == [i \in 1 .. n |-> IF i \in good THEN BytesFor(keyed, hd[i]) ELSE <<>>]
           parts == [i \in 1 .. n |-> IF i \in good THEN ReadFor(keyed, hd[i]) ELSE <<>>]
           U     == {parts[i][1] : i \in 1 .. n}
           front == PutInt(n, 2)
           ref   == Keys(keyed, hd)
           keys  == [i \in 1 .. n |-> KeyOf(keyed, hd[i])]
<1>1. n \in Nat /\ DOMAIN hd = 1 .. n /\ \A i \in 1 .. n : hd[i] \in Holders(S)
  BY LenProperties, ElementOfSeq
<1>2. ASSUME NEW i \in 1 .. n
      PROVE  IF i \in good
             THEN ElementGoes(keyed, hd[i], BytesFor(keyed, hd[i]), ReadFor(keyed, hd[i]))
             ELSE Element(keyed, hd[i]) = Refused
  <2>1. keyed => InUnsigned(Len(hd[i].key), 2)
    BY <1>1 DEF KeysFit
  <2>2. IF Bad(hd[i]) THEN Element(keyed, hd[i]) = Refused
        ELSE \E b, p : ElementGoes(keyed, hd[i], b, p)
    BY <1>1, <2>1, ElementFate
  <2>3. QED BY <2>2, ChosenGoes
<1>3. ASSUME NEW i \in 1 .. n
      PROVE  bs[i] \in Seq(Int) /\ (parts[i] = <<>> \/ \E x : parts[i] = <<x>>)
  BY <1>2 DEF ElementGoes
<1>4. bs \in Seq(Seq(Int)) /\ Len(bs) = n
  <2>1. bs \in [1 .. n -> Seq(Int)]
    BY <1>3
  <2> HIDE DEF bs
  <2>2. QED BY <1>1, <2>1, ListIsSeq
<1>5. ASSUME NEW i \in 1 .. n PROVE parts[i] \in Seq(U)
  <2>1. parts[i] = <<>> \/ \E x : parts[i] = <<x>>
    BY <1>3
  <2> HIDE DEF parts
  <2>2. CASE parts[i] = <<>>
    BY <2>2
  <2>3. CASE parts[i] # <<>>
    <3>1. PICK x : parts[i] = <<x>>
      BY <2>1, <2>3
    <3>2. parts[i][1] = x /\ parts[i][1] \in U
      BY <3>1
    <3>3. QED BY <2>1, <3>1, <3>2
  <2>4. QED BY <2>2, <2>3
<1>6. parts \in Seq(Seq(U)) /\ Len(parts) = n
  <2> HIDE DEF U
  <2>1. parts \in [1 .. n -> Seq(U)]
    BY <1>5
  <2> HIDE DEF parts
  <2>2. QED BY <1>1, <2>1, ListIsSeq
<1>7. \A i \in 1 .. n : Element(keyed, hd[i]) = IF i \in good THEN Out(bs[i]) ELSE Refused
  BY <1>2 DEF ElementGoes
<1>8. EncodeAll(hd, keyed) = Written(front, bs, good, n)
  <2> HIDE DEF bs, good
  <2>1. Len(bs) = Len(hd) /\ bs \in Seq(Seq(Int))
    BY <1>4
  <2>2. ElementsAre(keyed, hd, bs, good)
    BY <1>7 DEF ElementsAre
  <2>3. EncodeAll(hd, keyed) = Written(PutInt(Len(hd), 2), bs, good, Len(hd))
    BY <2>1, <2>2, AllWritten
  <2>4. QED BY <2>3
<1>9. CASE NullIn(hd)
  <2>1. ~(1 .. n \subseteq good)
    BY <1>9
  <2>2. EncodeAll(hd, keyed) = Refused
    BY <1>8, <2>1 DEF Written
  <2>3. QED BY <1>9, <2>2 DEF AllArrive
<1>10. CASE ~NullIn(hd)
  <2> DEFINE a   == FlattenSeq(bs)
             r   == FlattenSeq(parts)
             v   == ValueOf(keyed, r)
             out == front \o a
  <2>1. 1 .. n \subseteq good
    BY <1>10
  <2>2. \A i \in 1 .. n : ElementGoes(keyed, hd[i], bs[i], parts[i])
    BY <1>2, <2>1
  <2> HIDE DEF bs, parts, U, good
  <2>3. Before(bs, n) = a /\ r \in Seq(U) /\ a \in Seq(Int)
    <3>1. n \in 0 .. n
      BY <1>1
    <3>2. Before(bs, n) = a /\ Before(bs, n) \in Seq(Int)
      BY <1>4, <3>1, BeforeGrows
    <3>3. Before(parts, n) = r /\ Before(parts, n) \in Seq(U)
      BY <1>6, <3>1, BeforeGrows
    <3>4. QED BY <3>2, <3>3
  <2>4. EncodeAll(hd, keyed) = Out(out) /\ out \in Seq(Int)
    <3>1. front \in Seq(Int)
      BY <1>1, IntSeq
    <3>2. EncodeAll(hd, keyed) = Out(out)
      BY <1>8, <2>1, <2>3 DEF Written
    <3> HIDE DEF front, a
    <3>3. QED BY <2>3, <3>1, <3>2, ConcatProperties
  <2>5. CASE FloatIn(hd)
    BY <1>10, <2>4, <2>5 DEF AllArrive
  <2>6. CASE ~FloatIn(hd)
    <3>1. \A i \in 1 .. n : /\ ParamReadAs(keyed, KeyOf(keyed, hd[i]), bs[i], parts[i])
                            /\ PartHas(hd[i], KeyOf(keyed, hd[i]), parts[i])
      BY <2>2, <2>6 DEF ElementGoes
    <3>2. ASSUME NEW i \in 1 .. n
          PROVE  /\ DOMAIN ref = 1 .. n
                 /\ ref[i].key = KeyOf(keyed, hd[i])
                 /\ ref[i].type = hd[i].type /\ ref[i].val = hd[i].val
      BY <1>1, HolderIs, KeysHave
    <3>3. ASSUME NEW i \in 1 .. n
          PROVE  Len(parts[i]) <= 1 /\ PartOf("params", ref[i], parts[i])
      <4> DEFINE ex == hd[i]
                 x  == ref[i]
                 p  == parts[i]
      <4>1. Len(p) <= 1
        <5>1. p = <<>> \/ \E y : p = <<y>>
          BY <2>2 DEF ElementGoes
        <5> HIDE DEF p
        <5>2. CASE p = <<>>
          BY <5>2, EmptySeq
        <5>3. CASE \E y : p = <<y>>
          BY <5>3
        <5>4. QED BY <5>1, <5>2, <5>3
      <4>2. x.key = KeyOf(keyed, ex) /\ x.type = ex.type /\ x.val = ex.val
        BY <3>2
      <4>3. PartHas(ex, KeyOf(keyed, ex), p)
        BY <3>1
      <4> HIDE DEF x, ex, p
      <4>4. InParams(x) <=> InParams(ex)
        BY <4>2 DEF InParams, ShortText
      <4>5. \A y : Same("params", x, y) <=> Same("params", ex, y)
        BY <4>2 DEF Same
      <4>6. \A y : Carried("params", y) <=> InParams(y)
        BY DEF Carried
      <4>7. PartOf("params", x, p)
        BY <4>2, <4>3, <4>4, <4>5, <4>6 DEF PartOf, PartHas
      <4>8. QED BY <4>1, <4>7 DEF x, p
    <3> HIDE DEF ref
    <3>4. \A k \in 0 .. n : ArrivedUpTo("params", ref, k, Before(parts, k))
      <4> SUFFICES ASSUME NEW k \in 0 .. n PROVE ArrivedUpTo("params", ref, k, Before(parts, k))
        OBVIOUS
      <4>1. k \in 0 .. Len(parts) /\ \A i \in 1 .. k : i \in 1 .. n
        BY <1>1, <1>6
      <4>2. \A i \in 1 .. k : Len(parts[i]) <= 1 /\ PartOf("params", ref[i], parts[i])
        BY <3>3, <4>1
      <4>3. QED BY <1>6, <4>1, <4>2, PartsArrive
    <3>5. PartsRead(keyed, keys, bs, parts)
      <4> SUFFICES ASSUME NEW i \in 1 .. n
                   PROVE  /\ parts[i] = <<>> \/ \E x : parts[i] = <<x>>
                          /\ ParamReadAs(keyed, keys[i], bs[i], parts[i])
                          /\ keyed => NewKey(Before(parts, i - 1), keys[i])
        BY <1>4 DEF PartsRead
      <4>1. keys[i] = KeyOf(keyed, hd[i])
        OBVIOUS
      <4>2. ASSUME keyed PROVE NewKey(Before(parts, i - 1), hd[i].key)
        <5>1. i - 1 \in 0 .. n
          BY <1>1
        <5>2. ref = hd
          BY <4>2 DEF ref, Keys
        <5>3. ArrivedUpTo("params", hd, i - 1, Before(parts, i - 1))
          BY <3>4, <5>1, <5>2
        <5>4. Before(parts, i - 1) \in Seq(U)
          BY <1>6, <5>1, BeforeGrows
        <5>5. QED BY <4>2, <5>3, <5>4, KeysStayNew
      <4>3. keyed => keys[i] = hd[i].key
        BY <4>1 DEF KeyOf
      <4>4. QED BY <2>2, <3>1, <4>1, <4>2, <4>3 DEF ElementGoes
    <3> HIDE DEF keys
    <3>6. ASSUME NEW behind \in Seq(Int) PROVE GetAll(keyed, out \o behind) = Ok(v, behind)
      <4>1. InUnsigned(Len(bs), 2) /\ Len(parts) = Len(bs)
        BY <1>4, <1>6
      <4>2. GetAll(keyed, (PutInt(Len(bs), 2) \o FlattenSeq(bs)) \o behind)
              = Ok(ValueOf(keyed, FlattenSeq(parts)), behind)
        BY <1>4, <1>6, <3>5, <4>1, AllRead
      <4>3. QED BY <1>4, <4>2
    <3>7. v.e = r
      <4> HIDE DEF r
      <4>1. MapVal(With(r)).e = r /\ ListVal(ListWith(r)).e = r
        BY DEF MapVal, ListVal, With, ListWith
      <4>2. QED BY <4>1 DEF ValueOf
    <3>11. keyed => v.n = <<StringT>>
      <4> HIDE DEF r
      <4>1. MapVal(With(r)).n = <<StringT>>
        BY DEF MapVal, With
      <4>2. QED BY <4>1 DEF ValueOf
    <3>8. ArrivedHere("params", ref, r)
      <4>1. n \in 0 .. n
        BY <1>1
      <4>2. ArrivedUpTo("params", ref, n, Before(parts, n))
        BY <3>4, <4>1
      <4>3. Before(parts, n) = r
        BY <1>6, BeforeGrows
      <4>4. ref \in Seq({ref[i] : i \in 1 .. n}) /\ Len(ref) = n
        <5> DEFINE T == {ref[i] : i \in 1 .. n}
        <5>1. ref = [i \in 1 .. n |-> ref[i]]
          <6>1. CASE keyed
            BY <1>1, <6>1 DEF ref, Keys
          <6>2. CASE ~keyed
            BY <1>1, <6>2 DEF ref, Keys
          <6>3. QED BY <6>1, <6>2
        <5>2. \A i \in 1 .. n : ref[i] \in T
          OBVIOUS
        <5> HIDE DEF T
        <5>3. ref \in [1 .. n -> T]
          BY <5>1, <5>2
        <5>4. QED BY <1>1, <5>3, ListIsSeq DEF T
      <4>5. QED BY <2>3, <4>2, <4>3, <4>4, AllArrived
    <3> HIDE DEF v, r, out
    <3>9. ReadAll(hd, keyed, out)
      BY <2>3, <3>6, <3>7, <3>8, <3>11 DEF ReadAll, ref
    <3>10. QED BY <1>10, <2>4, <3>9 DEF AllArrive
  <2>7. QED BY <2>5, <2>6
<1>11. QED BY <1>9, <1>10
-----------------------------------------------------------------------------
\* The entries at any depth are those of the map or list, and those in them.
LEMMA EntriesAre ==
  ASSUME OneLayout, NEW d \in Nat, NEW hd \in Seq(Holders(Level[d])), NEW y
  PROVE  y \in Entries(hd) <=>
           \E i \in 1 .. Len(hd) :
             \/ y = hd[i]
             \/ hd[i].type \in Maps \cup Colls /\ y \in Entries(hd[i].val.e)
<1>1. DOMAIN hd = 1 .. Len(hd) /\ \A i \in 1 .. Len(hd) : hd[i] \in Holders(Level[d])
  BY LenProperties, ElementOfSeq
<1>2. Entries(hd) = EntriesHere(hd)
  <2> DEFINE k == d + 1
  <2>1. Level[k] = Holders(Level[d]) /\ k \in Nat
    BY LevelIs
  <2> HIDE DEF k
  <2>2. hd \in Seq(Level[k])
    BY <2>1
  <2>3. QED BY <2>1, <2>2 DEF OneLayout
<1>3. ASSUME NEW i \in 1 .. Len(hd)
      PROVE  EntriesInside(hd[i].val.e) = Entries(hd[i].val.e)
  <2>1. hd[i].val.e \in Seq(Level[d])
    BY <1>1, HolderHas
  <2>2. QED BY <2>1 DEF OneLayout
<1>4. \A x : x \in ToSet(hd) <=> \E i \in 1 .. Len(hd) : x = hd[i]
  BY <1>1 DEF ToSet
<1>5. y \in Entries(hd) <=>
        \/ y \in ToSet(hd)
        \/ \E x \in ToSet(hd) : x.type \in Maps \cup Colls /\ y \in EntriesInside(x.val.e)
  BY <1>2 DEF EntriesHere
<1>6. QED BY <1>3, <1>4, <1>5

\* What is at any depth of a list is an entry of it or is inside one.
LEMMA InsideIs ==
  ASSUME OneLayout, NEW d \in Nat, NEW hd \in Seq(Holders(Level[d]))
  PROVE  /\ NullIn(hd) <=> \E i \in 1 .. Len(hd) : Bad(hd[i])
         /\ FloatIn(hd) <=> \E i \in 1 .. Len(hd) : Floaty(hd[i])
         /\ EmptyMapIn(hd) <=> \E i \in 1 .. Len(hd) :
              \/ hd[i].type = MapT /\ hd[i].val.e = <<>>
              \/ hd[i].type \in Maps \cup Colls /\ EmptyMapIn(hd[i].val.e)
<1>1. \A y : y \in Entries(hd) <=>
        \E i \in 1 .. Len(hd) :
          \/ y = hd[i]
          \/ hd[i].type \in Maps \cup Colls /\ y \in Entries(hd[i].val.e)
  BY EntriesAre
<1>2. NullIn(hd) <=> \E i \in 1 .. Len(hd) : Bad(hd[i])
  BY <1>1 DEF NullIn, Bad
<1>3. FloatIn(hd) <=> \E i \in 1 .. Len(hd) : Floaty(hd[i])
  BY <1>1 DEF FloatIn, Floaty
<1>4. EmptyMapIn(hd) <=> \E i \in 1 .. Len(hd) :
        \/ hd[i].type = MapT /\ hd[i].val.e = <<>>
        \/ hd[i].type \in Maps \cup Colls /\ EmptyMapIn(hd[i].val.e)
  BY <1>1 DEF EmptyMapIn
<1>5. QED BY <1>2, <1>3, <1>4

\* Nothing is inside an empty list.
LEMMA NothingIn ==
  ASSUME OneLayout
  PROVE  ~NullIn(<<>>) /\ ~FloatIn(<<>>)
<1>1. <<>> \in Seq(Level[0]) /\ 0 \in Nat
  OBVIOUS
<1>2. Entries(<<>>) = EntriesHere(<<>>)
  BY <1>1 DEF OneLayout
<1>3. ToSet(<<>>) = {}
  <2>1. Len(<<>>) = 0 /\ DOMAIN <<>> = {}
    BY EmptySeq
  <2>2. QED BY <2>1 DEF ToSet
<1>4. Entries(<<>>) = {}
  BY <1>2, <1>3 DEF EntriesHere
<1>5. QED BY <1>4 DEF NullIn, FloatIn

\* A map or list is refused for a null pointer in it, or it arrives unless
\* there is a FLOAT or DOUBLE in it.
ParamsGo(hd) ==
  /\ AllArrive(hd, FALSE)
  /\ OwnKeys(hd) /\ KeysFit(hd) => AllArrive(hd, TRUE)

(* A map or a list of any entries, nested to any depth, arrives as a       *)
(* parameter; it is not sent if a string or byte buffer in it was replaced *)
(* by a null pointer, and only a FLOAT or DOUBLE puts the reader out of    *)
(* step (jm_cli_encodeExtra, jm_cli_decodeExtra).                          *)
THEOREM ParamLevels ==
  ASSUME OneLayout
  PROVE  \A d \in Nat : \A hd \in Seq(Level[d]) : InUnsigned(Len(hd), 2) => ParamsGo(hd)
<1> DEFINE P(d) == \A hd \in Seq(Level[d]) : InUnsigned(Len(hd), 2) => ParamsGo(hd)
           D    == {d \in Nat : ~P(d)}
<1>1. SUFFICES ASSUME D # {} PROVE FALSE
  OBVIOUS
<1>2. D \in SUBSET Nat
  OBVIOUS
<1> HIDE DEF D
<1>3. PICK d \in D : \A k \in D : d <= k
  BY <1>1, <1>2, LeastOf
<1>4. d \in Nat /\ ~P(d)
  BY <1>3 DEF D
<1>5. PICK hd \in Seq(Level[d]) : InUnsigned(Len(hd), 2) /\ ~ParamsGo(hd)
  BY <1>4
<1>6. PICK c \in Nat : /\ hd \in Seq(Holders(Level[c]))
                       /\ \A s \in Seq(Level[c]) : InUnsigned(Len(s), 2) => ParamsGo(s)
  <2>1. CASE d = 0
    <3>1. Level[0] \subseteq Holders(Level[0]) /\ hd \in Seq(Level[0])
      BY <1>5, <2>1, LevelIs
    <3>2. hd \in Seq(Holders(Level[0]))
      BY <3>1, SeqGrows
    <3>3. hd = <<>> /\ \A s \in Seq(Level[0]) : s = <<>>
      <4>1. \A s \in Seq({}) : s = <<>>
        OBVIOUS
      <4>2. QED BY <3>1, <4>1, LevelIs
    <3>4. ParamsGo(hd)
      <4>1. Len(hd) = 0
        BY <3>3, EmptySeq
      <4>2. ASSUME NEW keyed \in BOOLEAN, keyed => OwnKeys(hd) /\ KeysFit(hd)
            PROVE  AllArrive(hd, keyed)
        <5>1. \A i \in 1 .. Len(hd) : FALSE
          BY <4>1
        <5>2. ~NullIn(hd) /\ ~FloatIn(hd)
          BY <3>3, NothingIn
        <5>3. ReadsInside
          BY DEF OneLayout, ReadsInside
        <5>4. QED BY <1>5, <3>2, <4>2, <5>1, <5>2, <5>3, ParamsCross
      <4>3. QED BY <4>2 DEF ParamsGo
    <3>5. QED BY <1>5, <3>4
  <2>2. CASE d # 0
    <3> DEFINE c == d - 1
    <3>1. c \in Nat /\ d = c + 1 /\ ~(d <= c)
      BY <1>4, <2>2
    <3> HIDE DEF c
    <3>2. P(c)
      BY <1>3, <3>1 DEF D
    <3>3. hd \in Seq(Holders(Level[c]))
      BY <1>5, <3>1, LevelIs
    <3>4. QED BY <3>1, <3>2, <3>3
  <2>3. QED BY <2>1, <2>2
<1>7. ASSUME NEW i \in 1 .. Len(hd)
      PROVE  Fate(hd[i]) /\ EncodeInside(hd[i], hd[i].type) = EncodeValue(hd[i], hd[i].type)
  <2> DEFINE ex == hd[i]
             e  == ex.val.e
  <2>1. ex \in Holders(Level[c])
    BY <1>6, ElementOfSeq
  <2>2. e \in Seq(Level[c]) /\ Fits(ex)
    BY <2>1, HolderHas
  <2>3. \A type : EncodeInside(ex, type) = EncodeValue(ex, type)
    BY <1>6, <2>2 DEF OneLayout
  <2>4. \A r : ArrivedInside("params", e, r) = ArrivedHere("params", e, r)
    BY <1>6, <2>2 DEF OneLayout
  <2>5. CASE ex.type \notin Maps \cup Colls
    BY <2>1, <2>3, <2>5, PlainFate
  <2>6. CASE ex.type \in Maps \cup Colls
    <3>1. e = <<>> => ~NullIn(e)
      BY NothingIn
    <3>2. InUnsigned(Len(e), 2)
      <4>1. InUnsigned(Len(e), 1) => InUnsigned(Len(e), 2)
        BY SMT DEF InUnsigned, Largest
      <4>2. QED BY <2>2, <2>6, <4>1 DEF Fits, ValueFits
    <3>3. ParamsGo(e)
      BY <1>6, <2>2, <3>2
    <3>4. CASE ex.type \in Maps
      <4>1. AllArrive(e, TRUE)
        BY <2>2, <3>3, <3>4 DEF Fits, ValueFits, ParamsGo
      <4>2. AllArrive(e, ex.type \in Maps)
        <5>1. (ex.type \in Maps) = TRUE
          BY <3>4
        <5>2. QED BY <4>1, <5>1
      <4>3. ex.type \notin Colls
        BY <3>4, TypesTell
      <4>4. QED BY <2>1, <2>3, <2>4, <2>6, <3>1, <4>2, <4>3, NestedFate
    <3>5. CASE ex.type \in Colls
      <4>1. AllArrive(e, FALSE)
        BY <3>3 DEF ParamsGo
      <4>2. AllArrive(e, ex.type \in Maps)
        <5>1. (ex.type \in Maps) = FALSE
          BY <3>5, TypesTell
        <5>2. QED BY <4>1, <5>1
      <4>3. Keys(FALSE, e) = e
        <5>1. \A j \in DOMAIN e : e[j].key = <<>>
          BY <2>2, <3>5 DEF Fits, ValueFits
        <5>2. CASE c = 0
          <6>1. \A s \in Seq({}) : s = <<>>
            OBVIOUS
          <6>2. Level[c] \subseteq Holders({})
            BY <5>2, LevelIs
          <6>3. e \in Seq(Holders({}))
            BY <2>2, <6>2, SeqGrows
          <6>4. QED BY <5>1, <6>3, OwnKeysStay
        <5>3. CASE c # 0
          <6> DEFINE b == c - 1
          <6>1. b \in Nat /\ c = b + 1
            BY <1>6, <5>3
          <6> HIDE DEF b
          <6>2. e \in Seq(Holders(Level[b]))
            BY <2>2, <6>1, LevelIs
          <6>3. QED BY <5>1, <6>2, OwnKeysStay
        <5>4. QED BY <5>2, <5>3
      <4>4. QED BY <2>1, <2>3, <2>4, <2>6, <3>1, <4>2, <4>3, NestedFate
    <3>6. QED BY <2>6, <3>4, <3>5
  <2>7. QED BY <2>5, <2>6
<1>8. ASSUME NEW keyed \in BOOLEAN, keyed => OwnKeys(hd) /\ KeysFit(hd)
      PROVE  AllArrive(hd, keyed)
  <2>1. /\ NullIn(hd) <=> \E i \in 1 .. Len(hd) : Bad(hd[i])
        /\ FloatIn(hd) <=> \E i \in 1 .. Len(hd) : Floaty(hd[i])
    BY <1>6, InsideIs
  <2>2. ReadsInside
    BY DEF OneLayout, ReadsInside
  <2>3. QED BY <1>5, <1>6, <1>7, <1>8, <2>1, <2>2, ParamsCross
<1>9. ParamsGo(hd)
  BY <1>8 DEF ParamsGo
<1>10. QED BY <1>5, <1>9
-----------------------------------------------------------------------------
\* The maps and lists of the program, and the items that it publishes.

\* A list, an entry, and a map of entries with string keys.
IsList(s)   == s \in Seq(ToSet(s))
IsEntry(ex) == ex = [key |-> ex.key, type |-> ex.type, val |-> ex.val, len |-> ex.len]
IsMap(m)    == m = [keyType |-> m.keyType, hd |-> m.hd, size |-> m.size] /\ IsList(m.hd)

LEMMA ListOf ==
  ASSUME NEW S, NEW s \in Seq(S)
  PROVE  IsList(s) /\ ToSet(s) \subseteq S
<1>1. Len(s) \in Nat /\ DOMAIN s = 1 .. Len(s) /\ s \in [1 .. Len(s) -> S]
  BY LenProperties
<1>2. s \in [1 .. Len(s) -> ToSet(s)]
  BY <1>1 DEF ToSet
<1>3. s \in Seq(ToSet(s))
  BY <1>1, <1>2
<1>4. QED BY <1>1, <1>3 DEF IsList, ToSet

\* What an entry has when v is put into it.
HeldBy(type, v, old) == IF type \in Unset THEN old ELSE ThroughPointer(type, v)

LEMMA TypesApart ==
  /\ StringT # BytesT /\ StringT # LongT /\ BytesT # LongT
  /\ Unset \cap {StringT, BytesT, LongT, MapT, ListT} = {}
  /\ {StringT, BytesT, LongT} \cap {MapT, ListT} = {}
BY DEF Unset, NullT, FloatT, DoubleT, StringT, BytesT, LongT, MapT, ListT, Prefix

LEMMA SetValHolds ==
  ASSUME NEW ex, IsEntry(ex), NEW v
  PROVE  LET new == SetVal(ex, v) IN
         /\ IsEntry(new) /\ new.key = ex.key /\ new.type = ex.type
         /\ new.val = HeldBy(ex.type, v, ex.val)
<1> DEFINE text  == [ex EXCEPT !.val = v, !.len = IF v = NullVal THEN @ ELSE Len(v.n)]
           bytes == [ex EXCEPT !.val = v, !.len = 4]
           other == [ex EXCEPT !.val = ThroughPointer(ex.type, v)]
           new   == SetVal(ex, v)
<1>1. CASE ex.type = StringT
  <2>1. new = text
    BY <1>1, TypesApart DEF SetVal
  <2>2. HeldBy(ex.type, v, ex.val) = v
    BY <1>1, TypesApart DEF HeldBy, ThroughPointer
  <2>3. QED BY <2>1, <2>2 DEF IsEntry
<1>2. CASE ex.type = BytesT
  <2>1. new = bytes
    BY <1>2, TypesApart DEF SetVal
  <2>2. HeldBy(ex.type, v, ex.val) = v
    BY <1>2, TypesApart DEF HeldBy, ThroughPointer
  <2>3. QED BY <2>1, <2>2 DEF IsEntry
<1>3. CASE ex.type \in Unset
  <2>1. new = ex
    BY <1>3, TypesApart DEF SetVal
  <2>2. QED BY <1>3, <2>1 DEF HeldBy
<1>4. CASE ex.type \notin {StringT, BytesT} \cup Unset
  <2>1. new = other
    BY <1>4 DEF SetVal
  <2>2. QED BY <1>4, <2>1 DEF HeldBy, IsEntry
<1>5. QED BY <1>1, <1>2, <1>3, <1>4

LEMMA NewEntryHolds ==
  ASSUME NEW key, NEW type
  PROVE  LET ex == NewEntry(key, type) IN
         IsEntry(ex) /\ ex.key = key /\ ex.type = type /\ ex.val = Num(0)
BY DEF NewEntry, IsEntry

\* A value that was held once is held again.
LEMMA HeldAgain ==
  ASSUME NEW type, NEW v
  PROVE  HeldBy(type, HeldBy(type, v, Num(0)), Num(0)) = HeldBy(type, v, Num(0))
BY TypesApart DEF HeldBy, ThroughPointer, Long
-----------------------------------------------------------------------------
\* The place that a lookup finds is the first with that key.
LEMMA FindFirst ==
  ASSUME NEW m, IsMap(m), NEW key
  PROVE  LET n == Find(m, key)
             k == Len(m.hd)
         IN \/ n = 0 /\ \A i \in 1 .. k : ~SameKey(m.keyType, key, m.hd[i].key)
            \/ /\ n \in 1 .. k /\ SameKey(m.keyType, key, m.hd[n].key)
               /\ \A i \in 1 .. k : i < n => ~SameKey(m.keyType, key, m.hd[i].key)
<1> DEFINE n == Find(m, key)
           k == Len(m.hd)
           I == {i \in 1 .. k : SameKey(m.keyType, key, m.hd[i].key)}
<1>1. k \in Nat
  BY LenProperties DEF IsMap, IsList
<1>2. n = IF I # {} THEN Min(I) ELSE 0
  BY DEF Find, SelectInSeq
<1>3. CASE I = {}
  BY <1>2, <1>3
<1>4. CASE I # {}
  <2>1. I \in SUBSET Nat
    BY <1>1
  <2>2. PICK a \in I : \A b \in I : a <= b
    BY <1>4, <2>1, LeastOf
  <2>3. Min(I) \in I /\ \A b \in I : Min(I) <= b
    BY <2>2 DEF Min
  <2>4. \A i \in 1 .. k : i < Min(I) => i \notin I
    BY <1>1, <2>1, <2>3
  <2>5. QED BY <1>2, <1>4, <2>3, <2>4
<1>5. QED BY <1>3, <1>4

\* Is it at n that the key is found?
LEMMA FoundAt ==
  ASSUME NEW m, IsMap(m), NEW key, NEW n \in 1 .. Len(m.hd),
         SameKey(m.keyType, key, m.hd[n].key),
         \A i \in 1 .. Len(m.hd) : i < n => ~SameKey(m.keyType, key, m.hd[i].key)
  PROVE  Find(m, key) = n
<1>1. Len(m.hd) \in Nat
  BY LenProperties DEF IsMap, IsList
<1> DEFINE f == Find(m, key)
<1>2. \/ f = 0 /\ \A i \in 1 .. Len(m.hd) : ~SameKey(m.keyType, key, m.hd[i].key)
      \/ /\ f \in 1 .. Len(m.hd) /\ SameKey(m.keyType, key, m.hd[f].key)
         /\ \A i \in 1 .. Len(m.hd) : i < f => ~SameKey(m.keyType, key, m.hd[i].key)
  BY FindFirst
<1> HIDE DEF f
<1>3. ~(f < n) /\ ~(n < f) /\ f \in Int /\ n \in Int
  BY <1>1, <1>2
<1>4. QED BY <1>3 DEF f
-----------------------------------------------------------------------------
\* What replacing, adding and taking out an item make of a list.
LEMMA ReplaceList ==
  ASSUME NEW s, IsList(s), NEW n \in 1 .. Len(s), NEW e
  PROVE  LET t == ReplaceAt(s, n, e) IN
         /\ IsList(t) /\ Len(t) = Len(s)
         /\ \A i \in 1 .. Len(s) : t[i] = IF i = n THEN e ELSE s[i]
<1> DEFINE S == ToSet(s) \cup {e}
           t == [s EXCEPT ![n] = e]
<1>1. s \in Seq(S) /\ e \in S
  BY SeqMonotonic DEF IsList
<1> HIDE DEF S
<1>2. t \in Seq(S) /\ Len(t) = Len(s) /\ \A i \in 1 .. Len(s) : t[i] = IF i = n THEN e ELSE s[i]
  BY <1>1, ExceptSeq
<1>3. IsList(t)
  BY <1>2, ListOf
<1>4. QED BY <1>2, <1>3 DEF ReplaceAt

LEMMA AppendList ==
  ASSUME NEW s, IsList(s), NEW e
  PROVE  /\ IsList(Append(s, e)) /\ Len(Append(s, e)) = Len(s) + 1
         /\ \A i \in 1 .. Len(s) + 1 : Append(s, e)[i] = IF i <= Len(s) THEN s[i] ELSE e
<1> DEFINE S == ToSet(s) \cup {e}
<1>1. s \in Seq(S) /\ e \in S
  BY SeqMonotonic DEF IsList
<1> HIDE DEF S
<1>2. /\ Append(s, e) \in Seq(S) /\ Len(Append(s, e)) = Len(s) + 1 /\ Len(s) \in Nat
      /\ \A i \in 1 .. Len(s) : Append(s, e)[i] = s[i]
      /\ Append(s, e)[Len(s) + 1] = e
  BY <1>1, AppendProperties, LenProperties
<1>3. IsList(Append(s, e))
  BY <1>2, ListOf
<1>4. QED BY <1>2, <1>3

\* A part of a list, and two lists one behind the other.
LEMMA PartOfList ==
  ASSUME NEW S, NEW s \in Seq(S), NEW m \in 1 .. Len(s) + 1, NEW n \in 0 .. Len(s), m <= n + 1
  PROVE  LET t == SubSeq(s, m, n) IN
         /\ t \in Seq(S) /\ Len(t) = n - m + 1
         /\ \A i \in 1 .. n - m + 1 : t[i] = s[m + i - 1]
<1>1. Len(s) \in Nat
  BY LenProperties
<1>2. \A i \in m .. n : s[i] \in S
  BY <1>1, ElementOfSeq
<1>3. m \in Int /\ n \in Int
  BY <1>1
<1>4. QED BY <1>1, <1>2, <1>3, SubSeqProperties

LEMMA RemoveAtList ==
  ASSUME NEW s, IsList(s), NEW n \in 1 .. Len(s)
  PROVE  LET t == RemoveAt(s, n) IN
         /\ IsList(t) /\ Len(t) = Len(s) - 1
         /\ \A i \in 1 .. Len(s) - 1 : t[i] = IF i < n THEN s[i] ELSE s[i + 1]
<1> DEFINE S == ToSet(s)
           k == Len(s)
           l == SubSeq(s, 1, n - 1)
           r == SubSeq(s, n + 1, k)
           t == l \o r
<1>1. s \in Seq(S) /\ k \in Nat
  BY LenProperties DEF IsList
<1> HIDE DEF S
<1>2. l \in Seq(S) /\ Len(l) = n - 1 /\ \A i \in 1 .. n - 1 : l[i] = s[i]
  <2>1. /\ l \in Seq(S) /\ Len(l) = (n - 1) - 1 + 1
        /\ \A i \in 1 .. (n - 1) - 1 + 1 : l[i] = s[1 + i - 1]
    BY <1>1, PartOfList
  <2>2. QED BY <1>1, <2>1
<1>3. r \in Seq(S) /\ Len(r) = k - n /\ \A i \in 1 .. k - n : r[i] = s[n + i]
  <2>1. /\ r \in Seq(S) /\ Len(r) = k - (n + 1) + 1
        /\ \A i \in 1 .. k - (n + 1) + 1 : r[i] = s[(n + 1) + i - 1]
    BY <1>1, PartOfList
  <2>2. QED BY <1>1, <2>1
<1> HIDE DEF l, r
<1>4. /\ t \in Seq(S) /\ Len(t) = Len(l) + Len(r)
      /\ \A i \in 1 .. Len(l) + Len(r) : t[i] = IF i <= Len(l) THEN l[i] ELSE r[i - Len(l)]
  BY <1>2, <1>3, ConcatProperties
<1>5. t = RemoveAt(s, n)
  BY DEF RemoveAt, l, r
<1> HIDE DEF t, k
<1>6. n \in 1 .. k
  BY DEF k
<1>7. Len(t) = k - 1 /\ \A i \in 1 .. k - 1 : t[i] = IF i <= n - 1 THEN l[i] ELSE r[i - (n - 1)]
  <2>1. Len(l) + Len(r) = k - 1 /\ Len(l) = n - 1
    BY <1>1, <1>2, <1>3, <1>6
  <2>2. QED BY <1>4, <2>1
<1>8. ASSUME NEW i \in 1 .. k - 1 PROVE t[i] = IF i < n THEN s[i] ELSE s[i + 1]
  <2>1. CASE i < n
    <3>1. i \in 1 .. n - 1 /\ i <= n - 1
      BY <1>1, <1>6, <2>1
    <3>2. QED BY <1>2, <1>7, <2>1, <3>1
  <2>2. CASE ~(i < n)
    <3>1. i - (n - 1) \in 1 .. k - n /\ n + (i - (n - 1)) = i + 1
      BY <1>1, <1>6, <2>2
    <3>2. t[i] = r[i - (n - 1)]
      BY <1>1, <1>6, <1>7, <2>2
    <3>3. QED BY <1>3, <2>2, <3>1, <3>2
  <2>3. QED BY <2>1, <2>2
<1>9. IsList(t)
  BY <1>4, ListOf
<1>10. QED BY <1>5, <1>7, <1>8, <1>9 DEF k

\* A key is found as itself, and in place of those that it begins.
LEMMA TextsCompare ==
  ASSUME NEW a, a \in Seq(1 .. 127), a # <<>>, NEW b, b # <<>>
  PROVE  /\ SameKey(StringT, a, a)
         /\ SameKey(StringT, a, b) <=> IsPrefix(Upper(a), Upper(b))
<1>1. a \in Seq(1 .. 127) /\ a # <<>> /\ b # <<>>
  OBVIOUS
<1>2. Len(a) \in Nat /\ DOMAIN a = 1 .. Len(a) /\ \A i \in 1 .. Len(a) : a[i] \in 1 .. 127
  BY <1>1, LenProperties, ElementOfSeq
<1>3. Upper(a) \in [1 .. Len(a) -> Int]
  <2>1. ASSUME NEW i \in 1 .. Len(a)
        PROVE  (IF a[i] \in 97 .. 122 THEN a[i] - 32 ELSE a[i]) \in Int
    <3>1. a[i] \in 1 .. 127
      BY <1>1, ElementOfSeq
    <3> DEFINE c == a[i]
    <3>2. c \in 1 .. 127 => (IF c \in 97 .. 122 THEN c - 32 ELSE c) \in Int
      <4> HIDE DEF c
      <4>1. QED OBVIOUS
    <3>3. QED BY <3>1, <3>2
  <2>2. QED BY <1>2, <2>1 DEF Upper
<1>4. Upper(a) \in Seq(Int)
  BY <1>2, <1>3
<1>5. IsPrefix(Upper(a), Upper(a))
  BY <1>4, LenProperties DEF IsPrefix
<1>6. QED BY <1>1, <1>5 DEF SameKey, StrEqual

LEMMA KeysCompare ==
  ASSUME NEW a \in MapKeys, NEW b \in MapKeys
  PROVE  /\ SameKey(StringT, a, a)
         /\ SameKey(StringT, a, b) <=> IsPrefix(Upper(a), Upper(b))
<1>1. a \in Seq(1 .. 127) /\ a # <<>> /\ b # <<>>
  BY MapProgramAssumption
<1>2. QED BY <1>1, TextsCompare
-----------------------------------------------------------------------------
LEMMA MapWith ==
  ASSUME NEW m, IsMap(m), NEW h, NEW z, NEW p, p = [m EXCEPT !.hd = h, !.size = z]
  PROVE  p = [keyType |-> m.keyType, hd |-> h, size |-> z]
<1>1. m = [keyType |-> m.keyType, hd |-> m.hd, size |-> m.size]
  BY DEF IsMap
<1>2. p = [keyType |-> p.keyType, hd |-> p.hd, size |-> p.size]
  BY <1>1
<1>3. p.keyType = m.keyType /\ p.hd = h /\ p.size = z
  BY <1>1
<1>4. QED BY <1>2, <1>3

\* A put to a key that is not found, and to one that is found at n.
LEMMA PutNew ==
  ASSUME NEW m, IsMap(m), m.keyType = StringT, NEW key, NEW type, NEW v, Find(m, key) = 0
  PROVE  LET ex == SetVal(NewEntry(key, type), v)
         IN /\ Put(m, key, type, v) =
                 [keyType |-> StringT, hd |-> Append(m.hd, ex), size |-> m.size + 1]
            /\ IsEntry(ex) /\ ex.key = key /\ ex.type = type
            /\ ex.val = HeldBy(type, v, Num(0))
<1> DEFINE new == NewEntry(key, type)
           ex  == SetVal(new, v)
<1>1. IsEntry(new) /\ new.key = key /\ new.type = type /\ new.val = Num(0)
  BY NewEntryHolds
<1> HIDE DEF new
<1>2. IsEntry(ex) /\ ex.key = key /\ ex.type = type /\ ex.val = HeldBy(type, v, Num(0))
  BY <1>1, SetValHolds
<1>3. Put(m, key, type, v) = [m EXCEPT !.hd = PutEntry(m, ex, 0), !.size = @ + 1]
  BY DEF Put, new
<1> HIDE DEF ex
<1>4. PutEntry(m, ex, 0) = Append(m.hd, ex)
  BY DEF PutEntry
<1>5. [m EXCEPT !.hd = PutEntry(m, ex, 0), !.size = @ + 1] =
        [keyType |-> StringT, hd |-> Append(m.hd, ex), size |-> m.size + 1]
  <2> DEFINE p == [m EXCEPT !.hd = PutEntry(m, ex, 0), !.size = @ + 1]
  <2>1. p = [keyType |-> m.keyType, hd |-> PutEntry(m, ex, 0), size |-> m.size + 1]
    BY MapWith
  <2>2. QED BY <1>4, <2>1
<1>6. QED BY <1>2, <1>3, <1>5 DEF ex, new

LEMMA PutOld ==
  ASSUME NEW m, IsMap(m), m.keyType = StringT, NEW key \in MapKeys, NEW type, NEW v,
         NEW n \in 1 .. Len(m.hd), Find(m, key) = n, IsEntry(m.hd[n])
  PROVE  LET ex == SetVal([m.hd[n] EXCEPT !.type = type], v)
         IN /\ Put(m, key, type, v) =
                 [keyType |-> StringT, hd |-> ReplaceAt(m.hd, n, ex), size |-> m.size + 1]
            /\ IsEntry(ex) /\ ex.key = m.hd[n].key /\ ex.type = type
            /\ ex.val = HeldBy(type, v, m.hd[n].val)
<1> DEFINE old == [m.hd[n] EXCEPT !.type = type]
           ex  == SetVal(old, v)
<1>1. IsEntry(old) /\ old.key = m.hd[n].key /\ old.type = type /\ old.val = m.hd[n].val
  BY DEF IsEntry
<1>2. n # 0 /\ key # <<>>
  <2>1. Len(m.hd) \in Nat
    BY LenProperties DEF IsMap, IsList
  <2>2. QED BY <2>1, MapProgramAssumption
<1> HIDE DEF old
<1>3. IsEntry(ex) /\ ex.key = m.hd[n].key /\ ex.type = type
      /\ ex.val = HeldBy(type, v, m.hd[n].val)
  BY <1>1, SetValHolds
<1>4. Put(m, key, type, v) = [m EXCEPT !.hd = PutEntry(m, ex, n), !.size = @ + 1]
  BY <1>2 DEF Put, old
<1> HIDE DEF ex
<1>5. PutEntry(m, ex, n) = ReplaceAt(m.hd, n, ex)
  BY <1>2 DEF PutEntry
<1>6. [m EXCEPT !.hd = PutEntry(m, ex, n), !.size = @ + 1] =
        [keyType |-> StringT, hd |-> ReplaceAt(m.hd, n, ex), size |-> m.size + 1]
  <2> DEFINE p == [m EXCEPT !.hd = PutEntry(m, ex, n), !.size = @ + 1]
  <2>1. p = [keyType |-> m.keyType, hd |-> PutEntry(m, ex, n), size |-> m.size + 1]
    BY MapWith
  <2>2. QED BY <1>5, <2>1
<1>7. QED BY <1>3, <1>4, <1>6 DEF ex, old
-----------------------------------------------------------------------------
\* The entries of the map: each has a key of its own, is not found when a
\* later key is asked for, and holds what a put makes of its value.
Keyed(s) == \A i \in 1 .. Len(s) : s[i].key \in MapKeys
Kept(s) ==
  \A i \in 1 .. Len(s) :
    /\ IsEntry(s[i]) /\ s[i].key \in MapKeys
    /\ s[i].val = HeldBy(s[i].type, s[i].val, Num(0))

Sorted(s) ==
  \A i, j \in 1 .. Len(s) : i < j => ~SameKey(StringT, s[j].key, s[i].key)

\* The model has the keys of the map, with their types and values.
Shows(f, s) ==
  /\ DOMAIN f = {s[i].key : i \in 1 .. Len(s)}
  /\ \A i \in 1 .. Len(s) : f[s[i].key] = [type |-> s[i].type, val |-> s[i].val]
  /\ f = [k \in DOMAIN f |-> f[k]]

MapInv ==
  ~confused =>
    /\ IsMap(map) /\ map.keyType = StringT
    /\ Kept(map.hd) /\ Sorted(map.hd) /\ Shows(model, map.hd)

\* No key is in the map twice, and each is found where it is.
LEMMA KeysApart ==
  ASSUME NEW m, IsMap(m), m.keyType = StringT, Keyed(m.hd), Sorted(m.hd)
  PROVE  /\ \A i, j \in 1 .. Len(m.hd) : m.hd[i].key = m.hd[j].key => i = j
         /\ \A i \in 1 .. Len(m.hd) : Find(m, m.hd[i].key) = i
<1> DEFINE s == m.hd
           k == Len(s)
<1>1. k \in Nat
  BY LenProperties DEF IsMap, IsList
<1>2. \A i \in 1 .. k : s[i].key \in MapKeys /\ SameKey(StringT, s[i].key, s[i].key)
  BY KeysCompare DEF Keyed
<1>3. ASSUME NEW i \in 1 .. k, NEW j \in 1 .. k, s[i].key = s[j].key PROVE i = j
  <2>1. ~(i < j) /\ ~(j < i)
    BY <1>2, <1>3 DEF Sorted
  <2>2. QED BY <1>1, <2>1
<1>4. ASSUME NEW i \in 1 .. k PROVE Find(m, s[i].key) = i
  <2>1. \A j \in 1 .. k : j < i => ~SameKey(StringT, s[i].key, s[j].key)
    BY DEF Sorted
  <2>2. QED BY <1>2, <2>1, FoundAt
<1>5. QED BY <1>3, <1>4

\* A key of the program that begins no other is found only as itself.
LEMMA NotFoundElse ==
  ASSUME MapInv, ~confused, NEW key \in MapKeys, ~Begins(key), key \notin DOMAIN model
  PROVE  /\ Find(map, key) = 0
         /\ \A i \in 1 .. Len(map.hd) : ~SameKey(StringT, key, map.hd[i].key)
<1>1. ASSUME NEW i \in 1 .. Len(map.hd), SameKey(StringT, key, map.hd[i].key) PROVE FALSE
  <2>1. map.hd[i].key \in DOMAIN model \ {key} /\ map.hd[i].key \in MapKeys
    BY DEF MapInv, Shows, Kept
  <2>2. IsPrefix(Upper(key), Upper(map.hd[i].key))
    BY <1>1, <2>1, KeysCompare
  <2>3. QED BY <2>1, <2>2 DEF Begins
<1>2. IsMap(map) /\ map.keyType = StringT
  BY DEF MapInv
<1>3. QED BY <1>1, <1>2, FindFirst

\* What MapInv says, once the map and the model of the next state are known.
LEMMA NextMapInv ==
  ASSUME NEW t, NEW z, map' = [keyType |-> StringT, hd |-> t, size |-> z],
         IsList(t), Kept(t), Sorted(t), Shows(model', t)
  PROVE  MapInv'
<1>1. map'.hd = t /\ map'.keyType = StringT
      /\ map' = [keyType |-> map'.keyType, hd |-> map'.hd, size |-> map'.size]
  OBVIOUS
<1>2. QED BY <1>1 DEF MapInv, IsMap

LEMMA PutKeepsInv ==
  ASSUME MapInv, PutValue
  PROVE  MapInv'
<1>1. PICK k \in MapKeys, tv \in Values :
        /\ tv.type \in Unset => k \notin DOMAIN model
        /\ map' = Put(map, k, tv.type, tv.val)
        /\ model' = [j \in DOMAIN model \cup {k} |-> IF j = k THEN Wanted(tv) ELSE model[j]]
        /\ confused' = (confused \/ Begins(k))
  BY DEF PutValue
<1>2. SUFFICES ASSUME ~confused, ~Begins(k)
               PROVE  MapInv'
  BY <1>1 DEF MapInv
<1> DEFINE s == map.hd
           n == Len(s)
           want == HeldBy(tv.type, tv.val, Num(0))
<1>3. /\ IsMap(map) /\ map.keyType = StringT
      /\ Kept(s) /\ Sorted(s) /\ Shows(model, s) /\ IsList(s) /\ n \in Nat
  BY <1>2, LenProperties DEF MapInv, IsMap, IsList
<1>4. Wanted(tv) = [type |-> tv.type, val |-> want]
  BY DEF Wanted, HeldBy
<1>5. want = HeldBy(tv.type, want, Num(0))
  BY HeldAgain
<1>6. /\ DOMAIN model' = DOMAIN model \cup {k}
      /\ model'[k] = [type |-> tv.type, val |-> want]
      /\ \A j \in DOMAIN model \ {k} : model'[j] = model[j]
      /\ model' = [j \in DOMAIN model' |-> model'[j]]
  BY <1>1, <1>4
<1> HIDE DEF want
<1>7. CASE k \notin DOMAIN model
  <2> DEFINE ex == SetVal(NewEntry(k, tv.type), tv.val)
             t  == Append(s, ex)
  <2>1. Find(map, k) = 0 /\ \A i \in 1 .. n : ~SameKey(StringT, k, s[i].key)
    BY <1>2, <1>7, NotFoundElse
  <2>2. /\ map' = [keyType |-> StringT, hd |-> t, size |-> map.size + 1]
        /\ IsEntry(ex) /\ ex.key = k /\ ex.type = tv.type /\ ex.val = want
    <3>1. LET e == SetVal(NewEntry(k, tv.type), tv.val)
          IN /\ Put(map, k, tv.type, tv.val) =
                  [keyType |-> StringT, hd |-> Append(map.hd, e), size |-> map.size + 1]
             /\ IsEntry(e) /\ e.key = k /\ e.type = tv.type
             /\ e.val = HeldBy(tv.type, tv.val, Num(0))
      <4>1. ASSUME NEW type, NEW v
            PROVE  LET e == SetVal(NewEntry(k, type), v)
                   IN /\ Put(map, k, type, v) =
                           [keyType |-> StringT, hd |-> Append(map.hd, e), size |-> map.size + 1]
                      /\ IsEntry(e) /\ e.key = k /\ e.type = type /\ e.val = HeldBy(type, v, Num(0))
        BY ONLY <1>3, <2>1, PutNew, k \in MapKeys
      <4>2. QED BY ONLY <4>1
    <3>2. QED BY <1>1, <3>1 DEF want
  <2> HIDE DEF ex
  <2>3. /\ IsList(t) /\ Len(t) = n + 1
        /\ \A i \in 1 .. n + 1 : t[i] = IF i <= n THEN s[i] ELSE ex
    BY <1>3, AppendList
  <2> HIDE DEF t
  <2>4. /\ \A i \in 1 .. n : i \in 1 .. n + 1 /\ t[i] = s[i]
        /\ t[n + 1] = ex /\ n + 1 \in 1 .. n + 1
        /\ \A i \in 1 .. n + 1 : i \in 1 .. n \/ i = n + 1
    BY <1>3, <2>3
  <2>5. Kept(t)
    BY <1>3, <1>5, <2>2, <2>3, <2>4 DEF Kept
  <2>6. Sorted(t)
    <3>1. ASSUME NEW i \in 1 .. n + 1, NEW j \in 1 .. n + 1, i < j
          PROVE  ~SameKey(StringT, t[j].key, t[i].key)
      <4>1. i \in 1 .. n
        BY <1>3, <3>1
      <4>2. CASE j \in 1 .. n
        BY <1>3, <2>4, <3>1, <4>1, <4>2 DEF Sorted
      <4>3. CASE j = n + 1
        BY <2>1, <2>2, <2>4, <4>1, <4>3
      <4>4. QED BY <2>4, <4>2, <4>3
    <3>2. QED BY <2>3, <3>1 DEF Sorted
  <2>7. Shows(model', t)
    <3>1. DOMAIN model' = {t[i].key : i \in 1 .. n + 1}
      <4>1. DOMAIN model = {s[i].key : i \in 1 .. n}
        BY <1>3 DEF Shows
      <4>2. QED BY <1>6, <2>2, <2>4, <4>1
    <3>2. ASSUME NEW i \in 1 .. n + 1
          PROVE  model'[t[i].key] = [type |-> t[i].type, val |-> t[i].val]
      <4>1. CASE i \in 1 .. n
        <5>1. s[i].key \in DOMAIN model \ {k}
          BY <1>3, <1>7, <4>1 DEF Shows
        <5>2. model[s[i].key] = [type |-> s[i].type, val |-> s[i].val]
          BY <1>3, <4>1 DEF Shows
        <5>3. t[i] = s[i]
          BY <2>4, <4>1
        <5>4. QED BY <1>6, <5>1, <5>2, <5>3
      <4>2. CASE i = n + 1
        BY <1>6, <2>2, <2>4, <4>2
      <4>3. QED BY <2>4, <4>1, <4>2
    <3>3. QED BY <1>6, <2>3, <3>1, <3>2 DEF Shows
  <2>8. QED BY <2>2, <2>3, <2>5, <2>6, <2>7, NextMapInv
<1>8. CASE k \in DOMAIN model
  <2>1. PICK p \in 1 .. n : s[p].key = k
    BY <1>3, <1>8 DEF Shows
  <2>2. Find(map, k) = p /\ \A i \in 1 .. n : s[i].key = k => i = p
    BY <1>3, <2>1, KeysApart DEF Kept, Keyed
  <2> DEFINE ex == SetVal([s[p] EXCEPT !.type = tv.type], tv.val)
             t  == ReplaceAt(s, p, ex)
  <2>3. /\ map' = [keyType |-> StringT, hd |-> t, size |-> map.size + 1]
        /\ IsEntry(ex) /\ ex.key = k /\ ex.type = tv.type
        /\ ex.val = HeldBy(tv.type, tv.val, s[p].val)
    <3>1. IsEntry(s[p])
      BY <1>3 DEF Kept
    <3>2. QED BY <1>1, <1>3, <2>1, <2>2, <3>1, PutOld
  <2>4. ex.val = want
    BY <1>1, <1>8, <2>3 DEF HeldBy, want
  <2> HIDE DEF ex
  <2>5. /\ IsList(t) /\ Len(t) = n
        /\ \A i \in 1 .. n : t[i] = IF i = p THEN ex ELSE s[i]
    BY <1>3, ReplaceList
  <2> HIDE DEF t
  <2>6. \A i \in 1 .. n : t[i].key = s[i].key
    BY <2>1, <2>3, <2>5
  <2>7. Kept(t)
    BY <1>3, <1>5, <2>3, <2>4, <2>5 DEF Kept
  <2>8. Sorted(t)
    BY <1>3, <2>5, <2>6 DEF Sorted
  <2>9. Shows(model', t)
    <3>1. DOMAIN model' = {t[i].key : i \in 1 .. n}
      <4>1. DOMAIN model = {s[i].key : i \in 1 .. n}
        BY <1>3 DEF Shows
      <4>2. QED BY <1>6, <1>8, <2>6, <4>1
    <3>2. ASSUME NEW i \in 1 .. n
          PROVE  model'[t[i].key] = [type |-> t[i].type, val |-> t[i].val]
      <4>1. CASE i = p
        BY <1>6, <2>1, <2>3, <2>4, <2>5, <4>1
      <4>2. CASE i # p
        <5>1. s[i].key \in DOMAIN model \ {k}
          BY <1>3, <2>2, <4>2 DEF Shows
        <5>2. QED BY <1>3, <1>6, <2>5, <4>2, <5>1 DEF Shows
      <4>3. QED BY <4>1, <4>2
    <3>3. QED BY <1>6, <2>5, <3>1, <3>2 DEF Shows
  <2>10. QED BY <2>3, <2>5, <2>7, <2>8, <2>9, NextMapInv
<1>9. QED BY <1>7, <1>8

LEMMA RemoveKeepsInv ==
  ASSUME MapInv, RemoveEntry
  PROVE  MapInv'
<1>1. PICK k \in MapKeys :
        /\ map' = RemoveKey(map, k)
        /\ model' = [j \in DOMAIN model \ {k} |-> model[j]]
        /\ confused' = (confused \/ Begins(k))
  BY DEF RemoveEntry
<1>2. SUFFICES ASSUME ~confused, ~Begins(k)
               PROVE  MapInv'
  BY <1>1 DEF MapInv
<1> DEFINE s == map.hd
           n == Len(s)
<1>3. /\ IsMap(map) /\ map.keyType = StringT
      /\ Kept(s) /\ Sorted(s) /\ Shows(model, s) /\ IsList(s) /\ n \in Nat
  BY <1>2, LenProperties DEF MapInv, IsMap, IsList
<1>4. CASE k \notin DOMAIN model
  <2>1. Find(map, k) = 0
    BY <1>2, <1>4, NotFoundElse
  <2>2. map' = map
    BY <1>1, <2>1 DEF RemoveKey
  <2>3. model' = model
    <3>1. DOMAIN model \ {k} = DOMAIN model /\ model = [j \in DOMAIN model |-> model[j]]
      BY <1>3, <1>4 DEF Shows
    <3>2. QED BY <1>1, <3>1
  <2>4. QED BY <1>3, <2>2, <2>3 DEF MapInv
<1>5. CASE k \in DOMAIN model
  <2>1. PICK p \in 1 .. n : s[p].key = k
    BY <1>3, <1>5 DEF Shows
  <2>2. Find(map, k) = p /\ \A i \in 1 .. n : s[i].key = k => i = p
    BY <1>3, <2>1, KeysApart DEF Kept, Keyed
  <2> DEFINE t == RemoveAt(s, p)
             z == map.size - 1
  <2>3. map' = [keyType |-> StringT, hd |-> t, size |-> z]
    <3>1. p # 0
      BY <1>3
    <3>2. map' = [map EXCEPT !.hd = t, !.size = z]
      BY <1>1, <2>2, <3>1 DEF RemoveKey
    <3> HIDE DEF t, z
    <3>3. QED BY <1>3, <3>2, MapWith
  <2>4. /\ IsList(t) /\ Len(t) = n - 1
        /\ \A i \in 1 .. n - 1 : t[i] = IF i < p THEN s[i] ELSE s[i + 1]
    BY <1>3, RemoveAtList
  <2> HIDE DEF t, z
  <2> DEFINE at(i) == IF i < p THEN i ELSE i + 1
  <2>5. \A i \in 1 .. n - 1 : at(i) \in 1 .. n /\ at(i) # p /\ t[i] = s[at(i)]
    BY <1>3, <2>4
  <2>6. \A i, j \in 1 .. n - 1 : i < j => at(i) < at(j)
    BY <1>3
  <2>7. \A j \in 1 .. n : j # p => \E i \in 1 .. n - 1 : at(i) = j
    <3>1. ASSUME NEW j \in 1 .. n, j # p PROVE \E i \in 1 .. n - 1 : at(i) = j
      <4>1. CASE j < p
        BY <1>3, <4>1
      <4>2. CASE ~(j < p)
        <5>1. j - 1 \in 1 .. n - 1 /\ at(j - 1) = j
          BY <1>3, <3>1, <4>2
        <5>2. QED BY <5>1
      <4>3. QED BY <4>1, <4>2
    <3>2. QED BY <3>1
  <2> HIDE DEF at
  <2>8. Kept(t)
    BY <1>3, <2>4, <2>5 DEF Kept
  <2>9. Sorted(t)
    BY <1>3, <2>4, <2>5, <2>6 DEF Sorted
  <2>10. Shows(model', t)
    <3>1. DOMAIN model' = DOMAIN model \ {k} /\ \A j \in DOMAIN model' : model'[j] = model[j]
      BY <1>1
    <3>2. DOMAIN model' = {t[i].key : i \in 1 .. n - 1}
      <4>1. DOMAIN model = {s[i].key : i \in 1 .. n}
        BY <1>3 DEF Shows
      <4>2. ASSUME NEW i \in 1 .. n - 1 PROVE t[i].key \in DOMAIN model'
        BY <2>2, <2>5, <3>1, <4>1
      <4>3. ASSUME NEW x \in DOMAIN model' PROVE \E i \in 1 .. n - 1 : x = t[i].key
        <5>1. PICK j \in 1 .. n : x = s[j].key
          BY <3>1, <4>1
        <5>2. j # p
          BY <2>1, <3>1, <5>1
        <5>3. QED BY <2>5, <2>7, <5>1, <5>2
      <4>4. QED BY <4>2, <4>3
    <3>3. ASSUME NEW i \in 1 .. n - 1
          PROVE  model'[t[i].key] = [type |-> t[i].type, val |-> t[i].val]
      <4>1. t[i].key \in DOMAIN model' /\ at(i) \in 1 .. n /\ t[i] = s[at(i)]
        BY <2>5, <3>2
      <4>2. model[s[at(i)].key] = [type |-> s[at(i)].type, val |-> s[at(i)].val]
        BY <1>3, <4>1 DEF Shows
      <4>3. QED BY <3>1, <4>1, <4>2
    <3>4. model' = [j \in DOMAIN model' |-> model'[j]]
      BY <1>1
    <3>5. QED BY <2>4, <3>2, <3>3, <3>4 DEF Shows
  <2>11. QED BY <2>3, <2>4, <2>8, <2>9, <2>10, NextMapInv
<1>6. QED BY <1>4, <1>5

\* A new map is empty.
LEMMA NewMap ==
  LET m == EmptyMap(StringT) IN
  /\ IsMap(m) /\ m.keyType = StringT /\ m.hd = <<>> /\ Len(m.hd) = 0 /\ m.size = 0
<1>1. IsList(<<>>) /\ Len(<<>>) = 0
  BY EmptySeq DEF IsList
<1>2. QED BY <1>1 DEF EmptyMap, IsMap

LEMMA PutFirst ==
  ASSUME NEW k \in MapKeys, NEW type, NEW v, NEW ex, ex = SetVal(NewEntry(k, type), v)
  PROVE  /\ Put(EmptyMap(StringT), k, type, v) =
              [keyType |-> StringT, hd |-> Append(<<>>, ex), size |-> 1]
         /\ IsEntry(ex) /\ ex.key = k /\ ex.type = type /\ ex.val = HeldBy(type, v, Num(0))
<1> DEFINE m == EmptyMap(StringT)
<1>1. IsMap(m) /\ m.keyType = StringT /\ m.hd = <<>> /\ Len(m.hd) = 0 /\ m.size = 0
  BY NewMap
<1> HIDE DEF m
<1>2. Find(m, k) = 0
  BY <1>1, FindFirst
<1>3. LET e == SetVal(NewEntry(k, type), v)
      IN /\ Put(m, k, type, v) =
              [keyType |-> StringT, hd |-> Append(m.hd, e), size |-> m.size + 1]
         /\ IsEntry(e) /\ e.key = k /\ e.type = type /\ e.val = HeldBy(type, v, Num(0))
  <2>1. ASSUME NEW q, IsMap(q), q.keyType = StringT, Find(q, k) = 0
        PROVE  LET e == SetVal(NewEntry(k, type), v)
               IN /\ Put(q, k, type, v) =
                       [keyType |-> StringT, hd |-> Append(q.hd, e), size |-> q.size + 1]
                  /\ IsEntry(e) /\ e.key = k /\ e.type = type /\ e.val = HeldBy(type, v, Num(0))
    BY <2>1, PutNew
  <2>2. QED BY <1>1, <1>2, <2>1
<1>4. QED BY <1>1, <1>3 DEF m

\* A new map with one entry.
LEMMA NestKeepsInv ==
  ASSUME MapInv, Nest
  PROVE  MapInv'
<1>1. PICK k \in MapKeys, type \in {MapT, ListT} :
        /\ map' = Put(EmptyMap(StringT), k, type, Nested(type))
        /\ model' = [j \in {k} |-> [type |-> type, val |-> Nested(type)]]
  BY DEF Nest
<1> DEFINE v == Nested(type)
           m == EmptyMap(StringT)
           ex == SetVal(NewEntry(k, type), v)
           t == Append(<<>>, ex)
<1>2. map' = Put(m, k, type, v) /\ model' = [j \in {k} |-> [type |-> type, val |-> v]]
  BY <1>1
<1> HIDE DEF v
<1>5. /\ map' = [keyType |-> StringT, hd |-> t, size |-> 1]
      /\ IsEntry(ex) /\ ex.key = k /\ ex.type = type /\ ex.val = HeldBy(type, v, Num(0))
  BY <1>2, PutFirst
<1>6. HeldBy(type, v, Num(0)) = v
  BY TypesApart DEF HeldBy, ThroughPointer
<1> HIDE DEF ex
<1>7. IsList(t) /\ Len(t) = 1 /\ t[1] = ex
  <2> DEFINE s == <<>>
  <2>1. IsList(s) /\ Len(s) = 0
    BY EmptySeq DEF IsList
  <2> HIDE DEF s
  <2>2. /\ IsList(Append(s, ex)) /\ Len(Append(s, ex)) = Len(s) + 1
        /\ \A i \in 1 .. Len(s) + 1 : Append(s, ex)[i] = IF i <= Len(s) THEN s[i] ELSE ex
    BY <2>1, AppendList
  <2>3. Len(s) + 1 = 1 /\ 1 \in 1 .. Len(s) + 1 /\ ~(1 <= Len(s))
    BY <2>1
  <2>4. IsList(Append(s, ex)) /\ Len(Append(s, ex)) = 1 /\ Append(s, ex)[1] = ex
    BY <2>2, <2>3
  <2>5. QED BY <2>4 DEF s
<1> HIDE DEF t
<1>8. \A i \in 1 .. 1 : i = 1
  OBVIOUS
<1>9. Kept(t)
  BY <1>5, <1>6, <1>7, <1>8 DEF Kept
<1>10. Sorted(t)
  BY <1>7, <1>8 DEF Sorted
<1>11. Shows(model', t)
  BY <1>2, <1>5, <1>6, <1>7, <1>8 DEF Shows
<1>12. QED BY <1>5, <1>7, <1>9, <1>10, <1>11, NextMapInv
-----------------------------------------------------------------------------
\* What putting the entry i of src makes of the map p.
PutFrom(p, src, i) ==
  Put(p, Get(src, src.hd[i].key).key, Get(src, src.hd[i].key).type,
      Get(src, src.hd[i].key).val)

\* The map that PutAll makes, entry by entry.
LEMMA PutAllIs ==
  ASSUME NEW m, NEW src, NEW n \in Nat, n = Len(src.hd), NEW g,
         g[0] = m, \A i \in 1 .. n : g[i] = PutFrom(g[i - 1], src, i)
  PROVE  PutAll(m, src) = g[n]
<1> DEFINE h == CHOOSE f : f = [i \in 0 .. n |-> IF i = 0 THEN m ELSE PutFrom(f[i - 1], src, i)]
           D == {i \in 0 .. n : h[i] # g[i]}
<1>1. PutAll(m, src) = h[n]
  BY DEF PutAll, PutFrom
<1>2. h = [i \in 0 .. n |-> IF i = 0 THEN m ELSE PutFrom(h[i - 1], src, i)]
  <2> DEFINE F(f) == [i \in 0 .. n |-> IF i = 0 THEN m ELSE PutFrom(f[i - 1], src, i)]
  <2> DEFINE f == [i \in 0 .. n |-> g[i]]
  <2>1. f = F(f)
    <3>1. ASSUME NEW i \in 0 .. n
          PROVE  g[i] = IF i = 0 THEN m ELSE PutFrom(f[i - 1], src, i)
      <4>1. i # 0 => i \in 1 .. n /\ i - 1 \in 0 .. n
        OBVIOUS
      <4>2. i # 0 => f[i - 1] = g[i - 1]
        BY <4>1
      <4> HIDE DEF f
      <4>3. QED BY <4>1, <4>2
    <3>2. QED BY <3>1
  <2>2. h = CHOOSE q : q = F(q)
    OBVIOUS
  <2> HIDE DEF F, h, f
  <2>3. h = F(h)
    BY <2>1, <2>2
  <2>4. QED BY <2>3 DEF F
<1> HIDE DEF h
<1>3. ASSUME NEW i \in 0 .. n
      PROVE  /\ h[i] = IF i = 0 THEN m ELSE PutFrom(h[i - 1], src, i)
             /\ g[i] = IF i = 0 THEN m ELSE PutFrom(g[i - 1], src, i)
  <2>1. h[i] = IF i = 0 THEN m ELSE PutFrom(h[i - 1], src, i)
    BY <1>2
  <2>2. g[i] = IF i = 0 THEN m ELSE PutFrom(g[i - 1], src, i)
    OBVIOUS
  <2>3. QED BY <2>1, <2>2
<1>4. SUFFICES ASSUME D # {} PROVE FALSE
  BY <1>1
<1>5. D \in SUBSET Nat
  OBVIOUS
<1>6. PICK i \in D : \A j \in D : i <= j
  BY <1>4, <1>5, LeastOf
<1>7. i \in 0 .. n /\ h[i] # g[i]
  BY <1>6
<1>8. i # 0
  BY <1>3, <1>7
<1>9. i - 1 \in 0 .. n /\ ~(i <= i - 1)
  BY <1>7, <1>8
<1>10. h[i - 1] = g[i - 1]
  BY <1>6, <1>9
<1>11. QED BY <1>3, <1>7, <1>8, <1>10

\* A copy of a map: its entries in their order, put again.
Copied(s, j) == SetVal(NewEntry(s[j].key, s[j].type), s[j].val)

LEMMA CopiedHolds ==
  ASSUME NEW s, NEW j, s[j].val = HeldBy(s[j].type, s[j].val, Num(0))
  PROVE  LET ex == Copied(s, j) IN
         IsEntry(ex) /\ ex.key = s[j].key /\ ex.type = s[j].type /\ ex.val = s[j].val
<1> DEFINE new == NewEntry(s[j].key, s[j].type)
<1>1. IsEntry(new) /\ new.key = s[j].key /\ new.type = s[j].type /\ new.val = Num(0)
  BY NewEntryHolds
<1> HIDE DEF new
<1>2. LET ex == SetVal(new, s[j].val) IN
      /\ IsEntry(ex) /\ ex.key = new.key /\ ex.type = new.type
      /\ ex.val = HeldBy(new.type, s[j].val, new.val)
  BY <1>1, SetValHolds
<1>3. Copied(s, j) = SetVal(new, s[j].val)
  BY DEF Copied, new
<1>4. QED BY <1>1, <1>2, <1>3

LEMMA CopiedList ==
  ASSUME NEW s, NEW i \in Nat
  PROVE  LET t == [j \in 1 .. i |-> Copied(s, j)] IN
         IsList(t) /\ Len(t) = i /\ \A j \in 1 .. i : t[j] = Copied(s, j)
<1> DEFINE S == {Copied(s, j) : j \in 1 .. i}
           t == [j \in 1 .. i |-> Copied(s, j)]
<1>1. t \in [1 .. i -> S]
  OBVIOUS
<1> HIDE DEF S
<1>2. t \in Seq(S) /\ Len(t) = i
  BY <1>1
<1>3. IsList(t)
  BY <1>2, ListOf
<1>4. QED BY <1>2, <1>3

LEMMA CopyIs ==
  ASSUME NEW m, IsMap(m), m.keyType = StringT, Keyed(m.hd), Sorted(m.hd)
  PROVE  PutAll(EmptyMap(StringT), m) =
           [keyType |-> StringT, hd |-> [j \in 1 .. Len(m.hd) |-> Copied(m.hd, j)],
            size |-> Len(m.hd)]
<1> DEFINE s == m.hd
           n == Len(s)
           T(i) == [j \in 1 .. i |-> Copied(s, j)]
           G(i) == [keyType |-> StringT, hd |-> T(i), size |-> i]
           g == [i \in 0 .. n |-> G(i)]
<1>1. n \in Nat
  BY LenProperties DEF IsMap, IsList
<1>2. ASSUME NEW j \in 1 .. n
      PROVE  Copied(s, j).key = s[j].key
  <2> DEFINE new == NewEntry(s[j].key, s[j].type)
  <2>1. IsEntry(new) /\ new.key = s[j].key
    BY NewEntryHolds
  <2> HIDE DEF new
  <2>2. SetVal(new, s[j].val).key = new.key
    BY <2>1, SetValHolds
  <2>3. QED BY <2>1, <2>2 DEF Copied, new
<1>3. ASSUME NEW i \in 0 .. n
      PROVE  /\ IsList(T(i)) /\ Len(T(i)) = i
             /\ \A j \in 1 .. i : T(i)[j] = Copied(s, j)
  BY <1>1, CopiedList
<1>4. ASSUME NEW i \in 1 .. n
      PROVE  PutFrom(G(i - 1), m, i) = G(i)
  <2> DEFINE p == G(i - 1)
  <2>1. Get(m, s[i].key) = s[i]
    BY KeysApart DEF Get
  <2>2. i - 1 \in 0 .. n /\ i \in 0 .. n
    BY <1>1
  <2>3. p.keyType = StringT /\ p.hd = T(i - 1) /\ p.size = i - 1 /\ IsMap(p)
    BY <1>3, <2>2 DEF IsMap
  <2>4. Find(p, s[i].key) = 0
    <3>1. ASSUME NEW j \in 1 .. Len(p.hd), SameKey(p.keyType, s[i].key, p.hd[j].key) PROVE FALSE
      <4>1. j \in 1 .. n /\ j < i /\ p.hd[j].key = s[j].key
        BY <1>1, <1>2, <1>3, <2>2, <2>3
      <4>2. ~SameKey(StringT, s[i].key, s[j].key)
        BY <4>1 DEF Sorted
      <4>3. QED BY <2>3, <3>1, <4>1, <4>2
    <3> HIDE DEF p
    <3>2. QED BY <2>3, <3>1, FindFirst
  <2>5. PutFrom(p, m, i) = Put(p, s[i].key, s[i].type, s[i].val)
    BY <2>1 DEF PutFrom
  <2> HIDE DEF p
  <2>6. Put(p, s[i].key, s[i].type, s[i].val) =
          [keyType |-> StringT, hd |-> Append(p.hd, Copied(s, i)), size |-> p.size + 1]
    <3>1. s[i].key \in MapKeys
      BY DEF Keyed
    <3>2. ASSUME NEW q, IsMap(q), q.keyType = StringT, NEW key \in MapKeys, NEW type, NEW v,
                 Find(q, key) = 0
          PROVE  Put(q, key, type, v) =
                   [keyType |-> StringT, hd |-> Append(q.hd, SetVal(NewEntry(key, type), v)),
                    size |-> q.size + 1]
      BY <3>2, PutNew
    <3> DEFINE k == s[i].key
               ty == s[i].type
               v == s[i].val
               e == SetVal(NewEntry(k, ty), v)
    <3>3. e = Copied(s, i) /\ k \in MapKeys /\ Find(p, k) = 0
      BY <2>4, <3>1 DEF Copied
    <3> HIDE DEF k, ty, v
    <3>4. Put(p, k, ty, v) = [keyType |-> StringT, hd |-> Append(p.hd, e), size |-> p.size + 1]
      BY <2>3, <3>2, <3>3
    <3> HIDE DEF e
    <3>5. QED BY <3>3, <3>4 DEF k, ty, v
  <2>7. Append(T(i - 1), Copied(s, i)) = T(i)
    <3> DEFINE a == T(i - 1)
               b == T(i)
               c == Copied(s, i)
    <3>1. /\ IsList(a) /\ Len(a) = i - 1 /\ \A j \in 1 .. i - 1 : a[j] = Copied(s, j)
          /\ IsList(b) /\ Len(b) = i /\ \A j \in 1 .. i : b[j] = Copied(s, j)
      BY <1>3, <2>2
    <3> HIDE DEF a, b, c
    <3>2. /\ IsList(Append(a, c)) /\ Len(Append(a, c)) = Len(a) + 1
          /\ \A j \in 1 .. Len(a) + 1 : Append(a, c)[j] = IF j <= Len(a) THEN a[j] ELSE c
      BY <3>1, AppendList
    <3>3. Len(a) + 1 = i
      BY <1>1, <3>1
    <3>4. \A j \in 1 .. i : Append(a, c)[j] = b[j]
      BY <1>1, <3>1, <3>2, <3>3 DEF c
    <3>5. Append(a, c) = b
      BY <3>1, <3>2, <3>3, <3>4, SeqEqual DEF IsList
    <3>6. QED BY <3>5 DEF a, b, c
  <2>8. QED BY <1>1, <2>3, <2>5, <2>6, <2>7 DEF p
<1>5. G(0) = EmptyMap(StringT)
  <2>1. Len(T(0)) = 0 /\ IsList(T(0))
    <3>1. 0 \in 0 .. n
      BY <1>1
    <3> HIDE DEF T
    <3>2. QED BY <1>3, <3>1
  <2>2. T(0) = <<>>
    BY <2>1, EmptySeq DEF IsList
  <2>3. QED BY <2>2 DEF EmptyMap
<1>6. \A i \in 1 .. n : g[i] = PutFrom(g[i - 1], m, i)
  <2>1. ASSUME NEW i \in 1 .. n PROVE g[i] = G(i) /\ g[i - 1] = G(i - 1)
    <3>1. i \in 0 .. n /\ i - 1 \in 0 .. n
      BY <1>1
    <3> HIDE DEF G
    <3>2. QED BY <3>1
  <2> HIDE DEF g, G
  <2>2. QED BY <1>4, <2>1
<1>7. g[n] = G(n) /\ g[0] = G(0)
  BY <1>1
<1> HIDE DEF g, G
<1>8. PutAll(EmptyMap(StringT), m) = g[n]
  <2> DEFINE p == EmptyMap(StringT)
  <2>1. g[0] = p /\ n = Len(m.hd)
    BY <1>5, <1>7
  <2> HIDE DEF n, p
  <2>2. PutAll(p, m) = g[n]
    BY <1>1, <1>6, <2>1, PutAllIs
  <2>3. QED BY <2>2 DEF p
<1>9. QED BY <1>7, <1>8 DEF G
LEMMA CopyKeepsInv ==
  ASSUME MapInv, CopyAll
  PROVE  MapInv'
<1>1. SUFFICES ASSUME ~confused PROVE MapInv'
  BY DEF CopyAll, MapInv
<1> DEFINE s == map.hd
           n == Len(s)
           t == [j \in 1 .. n |-> Copied(s, j)]
<1>2. /\ IsMap(map) /\ map.keyType = StringT
      /\ Kept(s) /\ Sorted(s) /\ Shows(model, s) /\ n \in Nat
  BY <1>1, LenProperties DEF MapInv, IsMap, IsList
<1>3. map' = [keyType |-> StringT, hd |-> t, size |-> n] /\ model' = model
  BY <1>2, CopyIs DEF CopyAll, Kept, Keyed
<1>4. IsList(t) /\ Len(t) = n /\ \A j \in 1 .. n : t[j] = Copied(s, j)
  BY <1>2, CopiedList
<1> HIDE DEF t
<1>5. ASSUME NEW j \in 1 .. n
      PROVE  /\ IsEntry(t[j]) /\ t[j].key = s[j].key
             /\ t[j].type = s[j].type /\ t[j].val = s[j].val
  BY <1>2, <1>4, CopiedHolds DEF Kept
<1>6. Kept(t)
  BY <1>2, <1>4, <1>5 DEF Kept
<1>7. Sorted(t)
  BY <1>2, <1>4, <1>5 DEF Sorted
<1>8. Shows(model', t)
  <2>1. DOMAIN model = {s[i].key : i \in 1 .. n}
    BY <1>2 DEF Shows
  <2>2. DOMAIN model' = {t[i].key : i \in 1 .. n}
    BY <1>3, <1>5, <2>1
  <2>3. ASSUME NEW i \in 1 .. n
        PROVE  model'[t[i].key] = [type |-> t[i].type, val |-> t[i].val]
    BY <1>2, <1>3, <1>5 DEF Shows
  <2>4. model' = [k \in DOMAIN model' |-> model'[k]]
    BY <1>2, <1>3 DEF Shows
  <2>5. QED BY <1>4, <2>2, <2>3, <2>4 DEF Shows
<1>9. QED BY <1>3, <1>4, <1>6, <1>7, <1>8, NextMapInv
-----------------------------------------------------------------------------
\* An empty map shows an empty model.
LEMMA EmptyKept ==
  /\ Kept(<<>>) /\ Sorted(<<>>) /\ Shows([k \in {} |-> <<>>], <<>>)
  /\ IsMap(EmptyMap(StringT)) /\ EmptyMap(StringT).keyType = StringT
  /\ EmptyMap(StringT).hd = <<>>
<1>1. Len(<<>>) = 0 /\ 1 .. 0 = {}
  BY EmptySeq
<1>2. QED BY <1>1, NewMap DEF Kept, Sorted, Shows

\* The map holds what MapInv says, whatever is done with it.
LEMMA MapInvHolds == MapSpec => []MapInv
<1>1. MapInit => MapInv
  BY EmptyKept DEF MapInit, MapInv
<1>2. MapInv /\ [MapNext]_mapVars => MapInv'
  <2> SUFFICES ASSUME MapInv, [MapNext]_mapVars PROVE MapInv'
    OBVIOUS
  <2>1. CASE Build
    BY <2>1, PutKeepsInv, RemoveKeepsInv, CopyKeepsInv, NestKeepsInv DEF Build
  <2>2. CASE Release
    BY <2>2, EmptyKept DEF Release, MapInv
  <2>3. CASE UNCHANGED mapVars
    BY <2>3 DEF mapVars, MapInv
  <2>4. QED BY <2>1, <2>2, <2>3 DEF MapNext
<1>3. QED BY <1>1, <1>2, PTL DEF MapSpec

\* MapInv says that the map is its model.
LEMMA InvIsModel == MapInv => MapIsModel
<1> SUFFICES ASSUME MapInv, ~confused
             PROVE  /\ Len(map.hd) = Cardinality(DOMAIN model)
                    /\ \A k \in MapKeys :
                         IF k \in DOMAIN model
                         THEN HasKey(map, k) /\ [type |-> Get(map, k).type, val |-> Get(map, k).val] = model[k]
                         ELSE Begins(k) \/ ~HasKey(map, k)
  BY DEF MapIsModel
<1> DEFINE s == map.hd
           n == Len(s)
<1>1. /\ IsMap(map) /\ map.keyType = StringT
      /\ Kept(s) /\ Sorted(s) /\ Shows(model, s) /\ n \in Nat
  BY LenProperties DEF MapInv, IsMap, IsList
<1>2. /\ \A i, j \in 1 .. n : s[i].key = s[j].key => i = j
      /\ \A i \in 1 .. n : Find(map, s[i].key) = i
  BY <1>1, KeysApart DEF Kept, Keyed
<1>3. n = Cardinality(DOMAIN model)
  <2> DEFINE f == [i \in 1 .. n |-> s[i].key]
  <2>1. DOMAIN model = {s[i].key : i \in 1 .. n}
    BY <1>1 DEF Shows
  <2>2. f \in [1 .. n -> DOMAIN model] /\ \A i \in 1 .. n : f[i] = s[i].key
    BY <2>1
  <2> HIDE DEF f
  <2>3. ExistsBijection(1 .. n, DOMAIN model)
    <3>1. f \in Injection(1 .. n, DOMAIN model)
      BY <1>2, <2>2 DEF Injection, IsInjective
    <3>2. f \in Surjection(1 .. n, DOMAIN model)
      BY <2>1, <2>2 DEF Surjection
    <3>3. QED BY <3>1, <3>2 DEF Bijection, ExistsBijection
  <2>4. QED BY <1>1, <2>3, FS_CountingElements
<1>4. ASSUME NEW k \in DOMAIN model
      PROVE  HasKey(map, k) /\ [type |-> Get(map, k).type, val |-> Get(map, k).val] = model[k]
  <2>1. PICK i \in 1 .. n : k = s[i].key
    BY <1>1 DEF Shows
  <2>2. Find(map, k) = i /\ i # 0
    BY <1>1, <1>2, <2>1
  <2>3. model[k] = [type |-> s[i].type, val |-> s[i].val]
    BY <1>1, <2>1 DEF Shows
  <2>4. QED BY <2>2, <2>3 DEF HasKey, Get
<1>5. ASSUME NEW k \in MapKeys, k \notin DOMAIN model, ~Begins(k)
      PROVE  ~HasKey(map, k)
  BY <1>5, NotFoundElse DEF HasKey
<1>6. QED BY <1>3, <1>4, <1>5

(* Whatever is put, removed, copied from another map or replaced as a      *)
(* nested map, and in whatever order, a lookup returns the type and value  *)
(* that were put last for the key and not removed since, and finds no      *)
(* other key (jm_emap_put*, jm_emap_get*, jm_emap_remove, jm_emap_putAll). *)
THEOREM MapHoldsModel == MapSpec => []MapIsModel
BY MapInvHolds, InvIsModel, PTL
-----------------------------------------------------------------------------
\* A map whose keys are numbers, and where an entry with a key is in its list.
NumMap(m) ==
  IsMap(m) /\ m.keyType # StringT /\ \A i \in 1 .. Len(m.hd) : IsEntry(m.hd[i])
FirstAt(s, j, n) ==
  n \in 1 .. Len(s) /\ s[n].key = j /\ \A i \in 1 .. Len(s) : i < n => s[i].key # j
NotIn(s, j) == \A i \in 1 .. Len(s) : s[i].key # j

LEMMA NumMapSize == ASSUME NEW m, NumMap(m) PROVE Len(m.hd) \in Nat
BY LenProperties DEF NumMap, IsMap, IsList

LEMMA LookUp ==
  ASSUME NEW m, NumMap(m), NEW j
  PROVE  \/ Find(m, j) = 0 /\ ~HasKey(m, j) /\ NotIn(m.hd, j)
         \/ /\ FirstAt(m.hd, j, Find(m, j)) /\ HasKey(m, j)
            /\ Get(m, j) = m.hd[Find(m, j)]
<1>1. IsMap(m) /\ m.keyType # StringT /\ Len(m.hd) \in Nat
  BY NumMapSize DEF NumMap
<1>2. \A k : SameKey(m.keyType, j, k) <=> j = k
  BY <1>1 DEF SameKey
<1> DEFINE f == Find(m, j)
<1>3. \/ f = 0 /\ \A i \in 1 .. Len(m.hd) : ~SameKey(m.keyType, j, m.hd[i].key)
      \/ /\ f \in 1 .. Len(m.hd) /\ SameKey(m.keyType, j, m.hd[f].key)
         /\ \A i \in 1 .. Len(m.hd) : i < f => ~SameKey(m.keyType, j, m.hd[i].key)
  BY <1>1, FindFirst
<1>4. (HasKey(m, j) <=> f # 0) /\ Get(m, j) = m.hd[f]
  BY DEF HasKey, Get
<1> HIDE DEF f
<1>5. CASE f = 0
  BY <1>1, <1>2, <1>3, <1>4, <1>5 DEF NotIn, f
<1>6. CASE f # 0
  BY <1>1, <1>2, <1>3, <1>4, <1>6 DEF FirstAt, f
<1>7. QED BY <1>5, <1>6

\* The two answers of a lookup, known from the list.
LEMMA FoundFirst ==
  ASSUME NEW m, NumMap(m), NEW j, NEW n, FirstAt(m.hd, j, n)
  PROVE  Find(m, j) = n /\ HasKey(m, j) /\ Get(m, j) = m.hd[n]
<1> DEFINE f == Find(m, j)
<1>1. Len(m.hd) \in Nat
  BY NumMapSize
<1>2. ~NotIn(m.hd, j)
  BY DEF FirstAt, NotIn
<1>3. FirstAt(m.hd, j, f) /\ HasKey(m, j) /\ Get(m, j) = m.hd[f]
  BY <1>2, LookUp
<1> HIDE DEF f
<1>4. ~(f < n) /\ ~(n < f) /\ f \in Int /\ n \in Int
  BY <1>1, <1>3 DEF FirstAt
<1>5. f = n
  BY <1>4
<1>6. QED BY <1>3, <1>5 DEF f

LEMMA FoundNot ==
  ASSUME NEW m, NumMap(m), NEW j, NotIn(m.hd, j)
  PROVE  Find(m, j) = 0 /\ ~HasKey(m, j)
BY LookUp DEF FirstAt, NotIn

\* Is the same found for j in both maps?
LikeBut(m, p, j) ==
  (HasKey(m, j) <=> HasKey(p, j)) /\ (HasKey(m, j) => Get(m, j) = Get(p, j))

\* An entry with another key that is put in between is not found.
LEMMA Inserted ==
  ASSUME NEW m, NumMap(m), NEW p, NumMap(p), NEW n \in 1 .. Len(m.hd) + 1,
         Len(p.hd) = Len(m.hd) + 1,
         \A i \in 1 .. Len(m.hd) : p.hd[IF i < n THEN i ELSE i + 1] = m.hd[i],
         NEW j, p.hd[n].key # j
  PROVE  LikeBut(m, p, j)
<1> DEFINE s == m.hd
           t == p.hd
           k == Len(s)
           at(i) == IF i < n THEN i ELSE i + 1
<1>1. k \in Nat /\ Len(t) = k + 1
  BY NumMapSize
<1>2. \A i \in 1 .. k : at(i) \in 1 .. k + 1 /\ t[at(i)] = s[i]
  BY <1>1
<1>3. \A i \in 1 .. k + 1 : i # n => \E l \in 1 .. k : at(l) = i
  <2>1. ASSUME NEW i \in 1 .. k + 1, i # n PROVE \E l \in 1 .. k : at(l) = i
    <3>1. CASE i < n
      BY <1>1, <3>1
    <3>2. CASE ~(i < n)
      <4>1. i - 1 \in 1 .. k /\ at(i - 1) = i
        BY <1>1, <2>1, <3>2
      <4>2. QED BY <4>1
    <3>3. QED BY <3>1, <3>2
  <2>2. QED BY <2>1
<1>4. \A i, l \in 1 .. k : at(i) < at(l) => i < l
  BY <1>1
<1> HIDE DEF at
<1>5. CASE NotIn(s, j)
  <2>1. NotIn(t, j)
    <3>1. ASSUME NEW i \in 1 .. k + 1 PROVE t[i].key # j
      <4>1. CASE i = n
        BY <4>1
      <4>2. CASE i # n
        BY <1>2, <1>3, <1>5, <4>2 DEF NotIn
      <4>3. QED BY <4>1, <4>2
    <3>2. QED BY <1>1, <3>1 DEF NotIn
  <2>2. QED BY <1>5, <2>1, FoundNot DEF LikeBut
<1>6. CASE ~NotIn(s, j)
  <2> DEFINE f == Find(m, j)
  <2>1. FirstAt(s, j, f) /\ HasKey(m, j) /\ Get(m, j) = s[f]
    BY <1>6, LookUp
  <2> HIDE DEF f
  <2>2. f \in 1 .. k /\ s[f].key = j
    BY <2>1 DEF FirstAt
  <2>3. at(f) \in 1 .. k + 1 /\ t[at(f)] = s[f]
    BY <1>2, <2>2
  <2>4. ASSUME NEW i \in 1 .. k + 1, i < at(f) PROVE t[i].key # j
    <3>1. CASE i = n
      BY <3>1
    <3>2. CASE i # n
      <4>1. PICK l \in 1 .. k : at(l) = i
        BY <1>3, <3>2
      <4>2. l < f /\ t[i] = s[l]
        BY <1>2, <1>4, <2>2, <2>4, <4>1
      <4>3. QED BY <2>1, <4>2 DEF FirstAt
    <3>3. QED BY <3>1, <3>2
  <2>5. FirstAt(t, j, at(f))
    BY <1>1, <2>2, <2>3, <2>4 DEF FirstAt
  <2>6. HasKey(p, j) /\ Get(p, j) = t[at(f)]
    BY <2>5, FoundFirst
  <2>7. QED BY <2>1, <2>3, <2>6 DEF LikeBut
<1>7. QED BY <1>5, <1>6

\* Nor is one that replaces another of its key.
LEMMA Replaced ==
  ASSUME NEW m, NumMap(m), NEW p, NumMap(p), NEW n \in 1 .. Len(m.hd),
         Len(p.hd) = Len(m.hd), \A i \in 1 .. Len(m.hd) : i # n => p.hd[i] = m.hd[i],
         NEW j, p.hd[n].key # j, m.hd[n].key # j
  PROVE  LikeBut(m, p, j)
<1>1. CASE NotIn(m.hd, j)
  <2>1. NotIn(p.hd, j)
    BY <1>1 DEF NotIn
  <2>2. QED BY <1>1, <2>1, FoundNot DEF LikeBut
<1>2. CASE ~NotIn(m.hd, j)
  <2> DEFINE f == Find(m, j)
  <2>1. FirstAt(m.hd, j, f) /\ HasKey(m, j) /\ Get(m, j) = m.hd[f]
    BY <1>2, LookUp
  <2> HIDE DEF f
  <2>2. FirstAt(p.hd, j, f) /\ p.hd[f] = m.hd[f]
    BY <2>1 DEF FirstAt
  <2>3. HasKey(p, j) /\ Get(p, j) = p.hd[f]
    BY <2>2, FoundFirst
  <2>4. QED BY <2>1, <2>2, <2>3 DEF LikeBut
<1>3. QED BY <1>1, <1>2

\* An item put at the second place of a list.
LEMMA InsertAtList ==
  ASSUME NEW s, IsList(s), s # <<>>, NEW e
  PROVE  LET t == InsertAt(s, 2, e) IN
         /\ IsList(t) /\ Len(t) = Len(s) + 1 /\ t[2] = e /\ Len(s) \in Nat \ {0}
         /\ \A i \in 1 .. Len(s) : t[IF i < 2 THEN i ELSE i + 1] = s[i]
<1> DEFINE S == ToSet(s) \cup {e}
           k == Len(s)
           l == SubSeq(s, 1, 1)
           r == SubSeq(s, 2, k)
<1>1. s \in Seq(S) /\ k \in Nat \ {0} /\ e \in S
  BY SeqMonotonic, LenProperties, EmptySeq DEF IsList
<1> HIDE DEF S
<1>2. l \in Seq(S) /\ Len(l) = 1 /\ l[1] = s[1]
  <2>1. l \in Seq(S) /\ Len(l) = 1 - 1 + 1 /\ \A i \in 1 .. 1 - 1 + 1 : l[i] = s[1 + i - 1]
    BY <1>1, PartOfList
  <2>2. QED BY <2>1
<1>3. r \in Seq(S) /\ Len(r) = k - 1 /\ \A i \in 1 .. k - 1 : r[i] = s[i + 1]
  <2>1. /\ r \in Seq(S) /\ Len(r) = k - 2 + 1
        /\ \A i \in 1 .. k - 2 + 1 : r[i] = s[2 + i - 1]
    <3>1. 2 \in 1 .. k + 1 /\ k \in 0 .. k /\ 2 <= k + 1
      BY <1>1
    <3>2. QED BY <1>1, <3>1, PartOfList
  <2>2. QED BY <1>1, <2>1
<1> DEFINE a == l \o <<e>>
           t == a \o r
<1>4. InsertAt(s, 2, e) = t
  BY DEF InsertAt
<1> HIDE DEF l, r, k
<1>5. a \in Seq(S) /\ Len(a) = 2 /\ a[1] = s[1] /\ a[2] = e
  <2>1. <<e>> \in Seq(S) /\ Len(<<e>>) = 1 /\ <<e>>[1] = e
    BY <1>1
  <2>2. /\ a \in Seq(S) /\ Len(a) = Len(l) + Len(<<e>>)
        /\ \A i \in 1 .. Len(l) + Len(<<e>>) :
             a[i] = IF i <= Len(l) THEN l[i] ELSE <<e>>[i - Len(l)]
    BY <1>2, <2>1, ConcatProperties
  <2> HIDE DEF a
  <2>3. QED BY <1>2, <2>1, <2>2
<1> HIDE DEF a
<1>6. /\ t \in Seq(S) /\ Len(t) = Len(a) + Len(r)
      /\ \A i \in 1 .. Len(a) + Len(r) : t[i] = IF i <= Len(a) THEN a[i] ELSE r[i - Len(a)]
  BY <1>3, <1>5, ConcatProperties
<1> HIDE DEF t
<1>7. Len(t) = k + 1 /\ \A i \in 1 .. k + 1 : t[i] = IF i <= 2 THEN a[i] ELSE r[i - 2]
  <2>1. Len(a) = 2 /\ Len(a) + Len(r) = k + 1
    BY <1>1, <1>3, <1>5
  <2>2. QED BY <1>6, <2>1
<1>8. ASSUME NEW i \in 1 .. k PROVE t[IF i < 2 THEN i ELSE i + 1] = s[i]
  <2>1. CASE i < 2
    BY <1>1, <1>5, <1>7, <2>1
  <2>2. CASE ~(i < 2)
    <3>1. t[i + 1] = r[i - 1]
      BY <1>1, <1>7, <2>2
    <3>2. i - 1 \in 1 .. k - 1 /\ (i - 1) + 1 = i
      BY <1>1, <2>2
    <3>3. QED BY <1>3, <2>2, <3>1, <3>2
  <2>3. QED BY <2>1, <2>2
<1>9. IsList(t) /\ t[2] = e
  BY <1>1, <1>5, <1>6, <1>7, ListOf
<1>10. QED BY <1>1, <1>4, <1>7, <1>8, <1>9 DEF k
-----------------------------------------------------------------------------
\* A type that keeps the value that was put.
LEMMA PlainHeld == ASSUME NEW type, type \notin Unset \cup {LongT}, NEW v, NEW w PROVE HeldBy(type, v, w) = v
BY DEF HeldBy, ThroughPointer

\* jm_emap_put: the key has the type and, if the type keeps it, the value;
\* what is found for other keys stays.
LEMMA PutFound ==
  ASSUME NEW m, NumMap(m), NEW key, NEW type, NEW v, NEW p, p = Put(m, key, type, v)
  PROVE  /\ NumMap(p) /\ HasKey(p, key) /\ Get(p, key).type = type
         /\ type \notin Unset \cup {LongT} => Get(p, key).val = v
         /\ \A j : j # key => LikeBut(m, p, j)
<1> DEFINE s == m.hd
           k == Len(s)
           f == Find(m, key)
           was == IF f = 0 THEN NewEntry(key, type) ELSE [s[f] EXCEPT !.type = type]
           ex == SetVal(was, v)
           t == PutEntry(m, ex, f)
<1>1. IsMap(m) /\ m.keyType # StringT /\ IsList(s) /\ k \in Nat
  BY NumMapSize DEF NumMap, IsMap
<1>2. p = [m EXCEPT !.hd = t, !.size = @ + 1]
  BY <1>1 DEF Put
<1>3. p.hd = t /\ p.keyType = m.keyType /\ p = [keyType |-> p.keyType, hd |-> p.hd, size |-> p.size]
  <2> HIDE DEF t
  <2>1. p = [keyType |-> m.keyType, hd |-> t, size |-> m.size + 1]
    BY <1>1, <1>2, MapWith
  <2>2. QED BY <2>1
<1>4. IsEntry(was) /\ was.key = key /\ was.type = type
  <2>1. CASE f = 0
    BY <2>1, NewEntryHolds
  <2>2. CASE f # 0
    <3>1. FirstAt(s, key, f)
      BY <2>2, LookUp
    <3>2. IsEntry(s[f]) /\ s[f].key = key
      BY <3>1 DEF FirstAt, NumMap
    <3> HIDE DEF f
    <3>3. QED BY <2>2, <3>2 DEF IsEntry
  <2>3. QED BY <2>1, <2>2
<1> HIDE DEF was
<1>5. /\ IsEntry(ex) /\ ex.key = key /\ ex.type = type
      /\ type \notin Unset \cup {LongT} => ex.val = v
  BY <1>4, SetValHolds, PlainHeld
<1> HIDE DEF ex
<1>6. CASE f = 0
  <2>1. NotIn(s, key)
    BY <1>6, LookUp DEF FirstAt
  <2> DEFINE n == IF s = <<>> THEN 1 ELSE 2
  <2>2. t = IF s = <<>> THEN Append(s, ex) ELSE InsertAt(s, 2, ex)
    BY <1>1, <1>6 DEF PutEntry
  <2>3. /\ IsList(t) /\ Len(t) = k + 1 /\ n \in 1 .. k + 1 /\ t[n] = ex
        /\ \A i \in 1 .. k : t[IF i < n THEN i ELSE i + 1] = s[i]
    <3> HIDE DEF t
    <3>1. CASE s = <<>>
      <4>1. k = 0
        BY <3>1, EmptySeq
      <4>2. /\ IsList(t) /\ Len(t) = k + 1
            /\ \A i \in 1 .. k + 1 : t[i] = IF i <= k THEN s[i] ELSE ex
        BY <1>1, <2>2, <3>1, AppendList
      <4> HIDE DEF k
      <4>3. t[1] = ex
        BY <4>1, <4>2
      <4>4. QED BY <3>1, <4>1, <4>2, <4>3
    <3>2. CASE s # <<>>
      BY <1>1, <2>2, <3>2, InsertAtList
    <3>3. QED BY <3>1, <3>2
  <2> HIDE DEF n, t
  <2>4. \A i \in 1 .. k + 1 : i # n => \E l \in 1 .. k : t[i] = s[l] /\ l = IF i < n THEN i ELSE i - 1
    <3>1. ASSUME NEW i \in 1 .. k + 1, i # n
          PROVE  \E l \in 1 .. k : t[i] = s[l] /\ l = IF i < n THEN i ELSE i - 1
      <4> DEFINE l == IF i < n THEN i ELSE i - 1
      <4>1. l \in 1 .. k /\ (IF l < n THEN l ELSE l + 1) = i
        BY <1>1, <2>3, <3>1
      <4> HIDE DEF l
      <4>2. t[i] = s[l]
        BY <2>3, <4>1
      <4>3. QED BY <4>1, <4>2 DEF l
    <3>2. QED BY <3>1
  <2>5. NumMap(p)
    <3>1. ASSUME NEW i \in 1 .. k + 1 PROVE IsEntry(t[i])
      <4>1. CASE i = n
        BY <1>5, <2>3, <4>1
      <4>2. CASE i # n
        BY <2>4, <4>2 DEF NumMap
      <4>3. QED BY <4>1, <4>2
    <3>2. QED BY <1>1, <1>3, <2>3, <3>1 DEF NumMap, IsMap
  <2>6. FirstAt(t, key, n)
    <3>1. ASSUME NEW i \in 1 .. k + 1, i < n PROVE t[i].key # key
      <4>1. i # n
        BY <1>1, <2>3, <3>1
      <4>2. QED BY <2>1, <2>4, <4>1 DEF NotIn
    <3>2. QED BY <1>5, <2>3, <3>1 DEF FirstAt
  <2>7. HasKey(p, key) /\ Get(p, key) = ex
    BY <1>3, <2>3, <2>5, <2>6, FoundFirst
  <2>8. ASSUME NEW j, j # key PROVE LikeBut(m, p, j)
    BY <1>3, <1>5, <2>3, <2>5, <2>8, Inserted
  <2>9. QED BY <1>5, <2>5, <2>7, <2>8
<1>7. CASE f # 0
  <2>1. FirstAt(s, key, f)
    BY <1>7, LookUp
  <2>2. f \in 1 .. k /\ s[f].key = key /\ t = ReplaceAt(s, f, ex)
    BY <1>7, <2>1 DEF FirstAt, PutEntry
  <2> HIDE DEF f, t
  <2>3. /\ IsList(t) /\ Len(t) = k
        /\ \A i \in 1 .. k : t[i] = IF i = f THEN ex ELSE s[i]
    BY <1>1, <2>2, ReplaceList
  <2>4. NumMap(p)
    BY <1>1, <1>3, <1>5, <2>3 DEF NumMap, IsMap
  <2>5. FirstAt(t, key, f) /\ t[f] = ex
    <3>1. ASSUME NEW i \in 1 .. k, i < f PROVE t[i].key # key
      <4>1. i # f
        BY <1>1, <2>2, <3>1
      <4>2. QED BY <2>1, <2>3, <3>1, <4>1 DEF FirstAt
    <3>2. QED BY <1>5, <2>2, <2>3, <3>1 DEF FirstAt
  <2>6. HasKey(p, key) /\ Get(p, key) = ex
    BY <1>3, <2>4, <2>5, FoundFirst
  <2>7. ASSUME NEW j, j # key PROVE LikeBut(m, p, j)
    BY <1>3, <1>5, <2>2, <2>3, <2>4, <2>5, <2>7, Replaced
  <2>8. QED BY <1>5, <2>4, <2>6, <2>7
<1>8. QED BY <1>6, <1>7

\* jm_emap_remove leaves what is found for other keys.
LEMMA RemoveFound ==
  ASSUME NEW m, NumMap(m), NEW key, NEW p, p = RemoveKey(m, key)
  PROVE  NumMap(p) /\ \A j : j # key => LikeBut(m, p, j)
<1> DEFINE s == m.hd
           k == Len(s)
           f == Find(m, key)
           t == RemoveAt(s, f)
           z == m.size - 1
<1>1. IsMap(m) /\ m.keyType # StringT /\ IsList(s) /\ k \in Nat
  BY NumMapSize DEF NumMap, IsMap
<1>2. CASE f = 0
  BY <1>2 DEF RemoveKey, LikeBut
<1>3. CASE f # 0
  <2>1. FirstAt(s, key, f)
    BY <1>3, LookUp
  <2>2. f \in 1 .. k /\ s[f].key = key
    BY <2>1 DEF FirstAt
  <2>3. p = [m EXCEPT !.hd = t, !.size = z]
    BY <1>3 DEF RemoveKey
  <2> HIDE DEF f
  <2>4. /\ IsList(t) /\ Len(t) = k - 1
        /\ \A i \in 1 .. k - 1 : t[i] = IF i < f THEN s[i] ELSE s[i + 1]
    BY <1>1, <2>2, RemoveAtList
  <2> HIDE DEF t, z
  <2>5. p = [keyType |-> m.keyType, hd |-> t, size |-> z]
    BY <1>1, <2>3, MapWith
  <2>6. \A i \in 1 .. k - 1 : s[IF i < f THEN i ELSE i + 1] = t[i] /\ (IF i < f THEN i ELSE i + 1) \in 1 .. k
    BY <1>1, <2>2, <2>4
  <2>7. NumMap(p)
    <3>1. \A i \in 1 .. k - 1 : IsEntry(t[i])
      BY <2>6 DEF NumMap
    <3>2. QED BY <1>1, <2>4, <2>5, <3>1 DEF NumMap, IsMap
  <2>8. ASSUME NEW j, j # key PROVE LikeBut(m, p, j)
    <3>1. p.hd = t /\ k = Len(t) + 1 /\ f \in 1 .. Len(t) + 1
      BY <1>1, <2>2, <2>4, <2>5
    <3>2. \A i \in 1 .. Len(t) : s[IF i < f THEN i ELSE i + 1] = t[i]
      BY <2>4, <2>6
    <3>3. LikeBut(p, m, j)
      BY <2>2, <2>7, <2>8, <3>1, <3>2, Inserted
    <3>4. QED BY <3>3 DEF LikeBut
  <2>9. QED BY <2>7, <2>8
<1>4. QED BY <1>2, <1>3

\* What the first i entries of src leave in p, which was m: their keys have
\* the type and the value that src finds for them, the others what they had.
Merged(m, src, i, p) ==
  /\ NumMap(p)
  /\ \A j : IF \E k \in 1 .. i : src.hd[k].key = j
            THEN /\ HasKey(p, j) /\ Get(p, j).type = Get(src, j).type
                 /\ Get(src, j).type \notin Unset \cup {LongT} => Get(p, j).val = Get(src, j).val
            ELSE LikeBut(m, p, j)

LEMMA MergeOne ==
  ASSUME NEW m, NEW src, NumMap(src), NEW i \in 1 .. Len(src.hd),
         NEW q, Merged(m, src, i - 1, q)
  PROVE  Merged(m, src, i, PutFrom(q, src, i))
<1> DEFINE key == src.hd[i].key
           p == PutFrom(q, src, i)
           type == Get(src, key).type
           v == Get(src, key).val
<1>1. Len(src.hd) \in Nat
  BY NumMapSize
<1>2. Get(src, key).key = key
  BY LookUp DEF NotIn, FirstAt
<1>3. p = Put(q, key, type, v)
  BY <1>2 DEF PutFrom
<1> HIDE DEF p
<1>4. /\ NumMap(p) /\ HasKey(p, key) /\ Get(p, key).type = type
      /\ type \notin Unset \cup {LongT} => Get(p, key).val = v
      /\ \A j : j # key => LikeBut(q, p, j)
  <2>1. NumMap(q)
    BY DEF Merged
  <2> HIDE DEF key, type, v
  <2>2. QED BY <1>3, <2>1, PutFound
<1>5. ASSUME NEW j
      PROVE  IF \E k \in 1 .. i : src.hd[k].key = j
             THEN /\ HasKey(p, j) /\ Get(p, j).type = Get(src, j).type
                  /\ Get(src, j).type \notin Unset \cup {LongT} => Get(p, j).val = Get(src, j).val
             ELSE LikeBut(m, p, j)
  <2>1. CASE j = key
    BY <1>1, <1>4, <2>1
  <2>2. CASE j # key
    <3>1. (\E k \in 1 .. i : src.hd[k].key = j) <=> (\E k \in 1 .. i - 1 : src.hd[k].key = j)
      BY <1>1, <2>2
    <3>2. LikeBut(q, p, j)
      BY <1>4, <2>2
    <3> HIDE DEF key
    <3>3. IF \E k \in 1 .. i - 1 : src.hd[k].key = j
          THEN /\ HasKey(q, j) /\ Get(q, j).type = Get(src, j).type
               /\ Get(src, j).type \notin Unset \cup {LongT} => Get(q, j).val = Get(src, j).val
          ELSE LikeBut(m, q, j)
      BY DEF Merged
    <3>4. QED BY <3>1, <3>2, <3>3 DEF LikeBut
  <2>3. QED BY <2>1, <2>2
<1>6. QED BY <1>4, <1>5 DEF Merged, p

\* jm_emap_putAll.
LEMMA PutAllFound ==
  ASSUME NEW m, NumMap(m), NEW src, NumMap(src), NEW p, p = PutAll(m, src)
  PROVE  /\ NumMap(p)
         /\ \A j : IF HasKey(src, j)
                   THEN /\ HasKey(p, j) /\ Get(p, j).type = Get(src, j).type
                        /\ Get(src, j).type \notin Unset \cup {LongT} =>
                             Get(p, j).val = Get(src, j).val
                   ELSE LikeBut(m, p, j)
<1> DEFINE n == Len(src.hd)
           Steps(f, i) == f[0] = m /\ \A k \in 1 .. i : f[k] = PutFrom(f[k - 1], src, k)
           D == {i \in 0 .. n : ~\E f : Steps(f, i) /\ Merged(m, src, i, f[i])}
<1>1. n \in Nat
  BY NumMapSize
<1>2. D = {}
  <2>1. SUFFICES ASSUME D # {} PROVE FALSE
    OBVIOUS
  <2>2. D \in SUBSET Nat
    BY <1>1
  <2> HIDE DEF D
  <2>3. PICK i \in D : \A k \in D : i <= k
    BY <2>1, <2>2, LeastOf
  <2>4. i \in 0 .. n /\ ~\E f : Steps(f, i) /\ Merged(m, src, i, f[i])
    BY <2>3 DEF D
  <2>5. CASE i = 0
    <3> DEFINE f == [k \in {0} |-> m]
    <3>1. f[0] = m
      OBVIOUS
    <3>2. Steps(f, 0)
      BY <3>1
    <3>3. Merged(m, src, 0, m)
      BY DEF Merged, LikeBut
    <3> HIDE DEF f
    <3>4. Merged(m, src, 0, f[0])
      BY <3>1, <3>3
    <3> HIDE DEF Steps
    <3>5. QED BY <2>4, <2>5, <3>2, <3>4
  <2>6. CASE i # 0
    <3>1. i \in 1 .. n /\ i - 1 \in 0 .. n /\ ~(i <= i - 1)
      BY <1>1, <2>4, <2>6
    <3>2. PICK g : Steps(g, i - 1) /\ Merged(m, src, i - 1, g[i - 1])
      BY <2>3, <3>1 DEF D
    <3> DEFINE f == [k \in 0 .. i |-> IF k = i THEN PutFrom(g[i - 1], src, i) ELSE g[k]]
    <3>3. f[i] = PutFrom(g[i - 1], src, i) /\ \A k \in 0 .. i - 1 : f[k] = g[k]
      BY <1>1, <3>1
    <3> HIDE DEF f
    <3>4. Steps(f, i)
      <4>1. f[0] = m
        BY <1>1, <3>1, <3>2, <3>3
      <4>2. ASSUME NEW k \in 1 .. i PROVE f[k] = PutFrom(f[k - 1], src, k)
        <5>1. f[k - 1] = g[k - 1]
          BY <1>1, <3>1, <3>3
        <5>2. CASE k = i
          BY <3>3, <5>1, <5>2
        <5>3. CASE k # i
          <6>1. k \in 1 .. i - 1 /\ k \in 0 .. i - 1
            BY <1>1, <3>1, <5>3
          <6>2. g[k] = PutFrom(g[k - 1], src, k)
            BY <3>2, <6>1
          <6>3. QED BY <3>3, <5>1, <6>1, <6>2
        <5>4. QED BY <5>2, <5>3
      <4>3. QED BY <4>1, <4>2
    <3>5. Merged(m, src, i, f[i])
      BY <3>1, <3>2, <3>3, MergeOne
    <3> HIDE DEF Steps
    <3>6. QED BY <2>4, <3>4, <3>5
  <2>7. QED BY <2>5, <2>6
<1>3. PICK f : Steps(f, n) /\ Merged(m, src, n, f[n])
  <2>1. n \in 0 .. n
    BY <1>1
  <2> HIDE DEF Steps
  <2>2. QED BY <1>2, <2>1
<1>4. p = f[n]
  <2>1. f[0] = m /\ \A k \in 1 .. n : f[k] = PutFrom(f[k - 1], src, k)
    BY <1>3
  <2>2. QED BY <1>1, <2>1, PutAllIs
<1>5. \A j : HasKey(src, j) <=> \E k \in 1 .. n : src.hd[k].key = j
  BY LookUp DEF NotIn, FirstAt
<1> HIDE DEF n, D
<1>6. QED BY <1>3, <1>4, <1>5 DEF Merged
-----------------------------------------------------------------------------
\* Is the same read for the number k of both maps?
SameReads(m, p, k) ==
  /\ HasKey(m, <<k>>) <=> HasKey(p, <<k>>)
  /\ Number(m, k) = Number(p, k) /\ String(m, k) = String(p, k)

LEMMA AlikeReads == ASSUME NEW m, NEW p, NEW k, LikeBut(m, p, <<k>>) PROVE SameReads(m, p, k)
BY DEF LikeBut, SameReads, Number, String

PlainAt(m, k) == HasKey(m, <<k>>) => Get(m, <<k>>).type \notin Unset \cup {LongT}

LEMMA AlikePlain ==
  ASSUME NEW m, NEW p, NEW k, LikeBut(m, p, <<k>>), PlainAt(m, k)
  PROVE  PlainAt(p, k)
BY DEF LikeBut, PlainAt

\* A put of a value that its type keeps.
LEMMA PutReads ==
  ASSUME NEW m, NumMap(m), NEW key, NEW type, type \notin Unset \cup {LongT}, NEW v,
         NEW p, p = Put(m, <<key>>, type, v)
  PROVE  /\ NumMap(p) /\ HasKey(p, <<key>>) /\ PlainAt(p, key)
         /\ Number(p, key) = v.n[1] /\ String(p, key) = v.n
         /\ \A k : k # key => LikeBut(m, p, <<k>>)
<1>1. /\ NumMap(p) /\ HasKey(p, <<key>>) /\ Get(p, <<key>>).type = type
      /\ Get(p, <<key>>).val = v
      /\ \A j : j # <<key>> => LikeBut(m, p, j)
  BY PutFound
<1>2. \A k : k # key => <<k>> # <<key>>
  OBVIOUS
<1>3. QED BY <1>1, <1>2 DEF Number, String, PlainAt

LEMMA PlainTypes ==
  {ByteT, IntT, StringT} \cap (Unset \cup {LongT}) = {}
BY DEF Unset, NullT, FloatT, DoubleT, StringT, ByteT, IntT, LongT, Prefix

LEMMA NumReads ==
  ASSUME NEW m, NumMap(m), NEW key, NEW type, type \notin Unset \cup {LongT}, NEW x,
         NEW p, p = PutNum(m, key, type, x)
  PROVE  /\ NumMap(p) /\ HasKey(p, <<key>>) /\ PlainAt(p, key) /\ Number(p, key) = x
         /\ \A k : k # key => LikeBut(m, p, <<k>>)
<1>1. p = Put(m, <<key>>, type, Num(x))
  BY DEF PutNum
<1>2. Num(x).n[1] = x
  BY DEF Num
<1> DEFINE v == Num(x)
<1> HIDE DEF v
<1>3. p = Put(m, <<key>>, type, v) /\ v.n[1] = x
  BY <1>1, <1>2 DEF v
<1>4. QED BY <1>1, <1>3, PutReads

LEMMA StrReads ==
  ASSUME NEW m, NumMap(m), NEW key, NEW x, NEW p, p = PutStr(m, key, x)
  PROVE  /\ NumMap(p) /\ HasKey(p, <<key>>) /\ PlainAt(p, key) /\ String(p, key) = x
         /\ \A k : k # key => LikeBut(m, p, <<k>>)
<1> DEFINE v == Text(x)
<1>1. p = Put(m, <<key>>, StringT, v) /\ v.n = x /\ StringT \notin Unset \cup {LongT}
  BY PlainTypes DEF PutStr, Text
<1> HIDE DEF v
<1>2. QED BY <1>1, PutReads

\* A new map.
LEMMA NewNumMap ==
  ASSUME NEW p, p = EmptyMap(ByteT)
  PROVE  NumMap(p) /\ \A j : ~HasKey(p, j)
<1>1. IsList(<<>>) /\ Len(<<>>) = 0
  BY EmptySeq DEF IsList
<1>2. p.hd = <<>> /\ Len(p.hd) = 0 /\ IsMap(p) /\ p.keyType = ByteT
  BY <1>1 DEF EmptyMap, IsMap
<1>3. ByteT # StringT
  BY DEF ByteT, StringT, Prefix
<1>4. NumMap(p)
  BY <1>2, <1>3 DEF NumMap
<1>5. QED BY <1>2, <1>4, FoundNot DEF NotIn

LEMMA KeyNumbers ==
  /\ LOGIN_KEY = -119 /\ PS_OP_CODE = -114 /\ PS_ARGS = -113 /\ UDP_PORT = -111
  /\ UDP_HOST = -110 /\ UDP_ACK = -109 /\ CHANNEL_NO = -108 /\ GROUP_ID = -107 /\ CLIENT_ID = 122
BY DEF LOGIN_KEY, PS_OP_CODE, PS_ARGS, UDP_PORT, UDP_HOST, UDP_ACK, CHANNEL_NO, GROUP_ID, CLIENT_ID

\* The map of a caller.
LEMMA AskedReads ==
  ASSUME NEW ps \in Asked
  PROVE  /\ NumMap(ps)
         /\ PlainAt(ps, UDP_HOST) /\ PlainAt(ps, UDP_PORT) /\ PlainAt(ps, CHANNEL_NO)
         /\ PlainAt(ps, PS_OP_CODE)
         /\ Number(ps, UDP_PORT) \in Nat /\ Number(ps, CHANNEL_NO) \in Nat
         /\ HasKey(ps, <<PS_OP_CODE>>) => Number(ps, PS_OP_CODE) # 0
<1>1. /\ ps = [keyType |-> ps.keyType, hd |-> ps.hd, size |-> ps.size]
      /\ ps.keyType # StringT /\ ps.hd \in Seq(ToSet(ps.hd))
      /\ \A ex \in ToSet(ps.hd) :
           /\ ex = [key |-> ex.key, type |-> ex.type, val |-> ex.val, len |-> ex.len]
           /\ ex.key \in {<<UDP_HOST>>, <<UDP_PORT>>, <<CHANNEL_NO>>, <<PS_OP_CODE>>} =>
                ex.type \notin Unset \cup {LongT}
      /\ Number(ps, UDP_PORT) \in Nat /\ Number(ps, CHANNEL_NO) \in Nat
      /\ HasKey(ps, <<PS_OP_CODE>>) => Number(ps, PS_OP_CODE) # 0
  BY ItemAddressAssumption DEF AskedAssumption
<1>2. IsMap(ps)
  BY <1>1 DEF IsMap, IsList
<1>3. \A i \in 1 .. Len(ps.hd) : ps.hd[i] \in ToSet(ps.hd)
  BY <1>1, LenProperties DEF ToSet
<1>4. NumMap(ps)
  BY <1>1, <1>2, <1>3 DEF NumMap, IsEntry
<1>5. ASSUME NEW k, <<k>> \in {<<UDP_HOST>>, <<UDP_PORT>>, <<CHANNEL_NO>>, <<PS_OP_CODE>>}
      PROVE  PlainAt(ps, k)
  <2> DEFINE j == <<k>>
  <2>1. HasKey(ps, j) => Get(ps, j) \in ToSet(ps.hd) /\ Get(ps, j).key = j
    BY <1>3, <1>4, LookUp DEF FirstAt
  <2>2. QED BY <1>1, <1>5, <2>1 DEF PlainAt
<1>6. QED BY <1>1, <1>4, <1>5

\* What is put into it for the server.
LEMMA CloudReads ==
  ASSUME NEW ps \in Asked, NEW topic, NEW p, p = CloudArgs(ps, topic)
  PROVE  /\ NumMap(p)
         /\ HasKey(p, <<PS_ARGS>>) /\ PlainAt(p, PS_ARGS) /\ String(p, PS_ARGS) = topic
         /\ HasKey(p, <<PS_OP_CODE>>) /\ PlainAt(p, PS_OP_CODE) /\ Number(p, PS_OP_CODE) # 0
         /\ \A k \in {UDP_HOST, UDP_PORT, CHANNEL_NO} : LikeBut(ps, p, <<k>>)
<1> DEFINE q == IF HasKey(ps, <<PS_OP_CODE>>) THEN ps
                ELSE PutNum(ps, PS_OP_CODE, ByteT, FORWARD_BY_TOPIC)
<1>1. p = PutStr(q, PS_ARGS, topic)
  BY DEF CloudArgs
<1>2. /\ NumMap(q) /\ HasKey(q, <<PS_OP_CODE>>) /\ PlainAt(q, PS_OP_CODE)
      /\ Number(q, PS_OP_CODE) # 0
      /\ \A k : k # PS_OP_CODE => LikeBut(ps, q, <<k>>)
  <2>1. CASE HasKey(ps, <<PS_OP_CODE>>)
    BY <2>1, AskedReads DEF LikeBut
  <2>2. CASE ~HasKey(ps, <<PS_OP_CODE>>)
    <3>1. q = PutNum(ps, PS_OP_CODE, ByteT, FORWARD_BY_TOPIC) /\ NumMap(ps)
      BY <2>2, AskedReads
    <3> HIDE DEF q
    <3>2. FORWARD_BY_TOPIC # 0
      BY DEF FORWARD_BY_TOPIC
    <3>3. NumMap(ps) /\ ByteT \notin Unset \cup {LongT}
      BY <3>1, PlainTypes
    <3>4. /\ NumMap(q) /\ HasKey(q, <<PS_OP_CODE>>) /\ PlainAt(q, PS_OP_CODE)
          /\ Number(q, PS_OP_CODE) = FORWARD_BY_TOPIC
          /\ \A k : k # PS_OP_CODE => LikeBut(ps, q, <<k>>)
      BY <3>1, <3>3, NumReads
    <3>5. QED BY <3>2, <3>4
  <2>3. QED BY <2>1, <2>2
<1> HIDE DEF q
<1>3. /\ NumMap(p) /\ HasKey(p, <<PS_ARGS>>) /\ PlainAt(p, PS_ARGS) /\ String(p, PS_ARGS) = topic
      /\ \A k : k # PS_ARGS => LikeBut(q, p, <<k>>)
  BY <1>1, <1>2, StrReads
<1>4. LikeBut(q, p, <<PS_OP_CODE>>)
  BY <1>3, KeyNumbers
<1>5. HasKey(p, <<PS_OP_CODE>>) /\ PlainAt(p, PS_OP_CODE) /\ Number(p, PS_OP_CODE) # 0
  <2>1. PlainAt(p, PS_OP_CODE)
    BY <1>2, <1>4, AlikePlain
  <2>2. SameReads(q, p, PS_OP_CODE)
    BY <1>4, AlikeReads
  <2>3. QED BY <1>2, <2>1, <2>2 DEF SameReads
<1>6. ASSUME NEW k \in {UDP_HOST, UDP_PORT, CHANNEL_NO} PROVE LikeBut(ps, p, <<k>>)
  <2>1. k # PS_ARGS /\ k # PS_OP_CODE
    BY KeyNumbers
  <2>2. LikeBut(ps, q, <<k>>) /\ LikeBut(q, p, <<k>>)
    BY <1>2, <1>3, <2>1
  <2>3. QED BY <2>2 DEF LikeBut
<1>7. QED BY <1>3, <1>5, <1>6

\* A put that is left out when cond holds.
LEMMA UnlessReads ==
  ASSUME NEW m, NumMap(m), NEW cond, NEW key, NEW type, type \notin Unset \cup {LongT}, NEW v,
         NEW p, p = PutUnless(cond, m, key, type, v)
  PROVE  /\ NumMap(p)
         /\ IF cond THEN p = m ELSE HasKey(p, <<key>>) /\ Number(p, key) = v.n[1] /\ String(p, key) = v.n
         /\ \A k : k # key => LikeBut(m, p, <<k>>)
<1>1. CASE cond
  BY <1>1 DEF PutUnless, LikeBut
<1>2. CASE ~cond
  <2>1. p = Put(m, <<key>>, type, v)
    BY <1>2 DEF PutUnless
  <2>2. QED BY <1>2, <2>1, PutReads
<1>3. QED BY <1>1, <1>2

\* The map of a message: where it goes, in whose name, and what the server gets.
Addressed(ps, topic, m) ==
  LET host == String(ps, UDP_HOST)
      port == Number(ps, UDP_PORT)
      chan == Number(ps, CHANNEL_NO)
  IN /\ NumMap(m)
     /\ Number(m, GROUP_ID) = Env.grpId /\ Number(m, CLIENT_ID) = Env.clientId
     /\ String(m, UDP_HOST) = IF host = NoText THEN Env.jmHost ELSE host
     /\ Number(m, UDP_PORT) = IF port = 0 THEN Env.jmPort ELSE port
     /\ Number(m, CHANNEL_NO) = IF chan = 0 /\ ~ToCloud(ps, Env) THEN Env.channelNo ELSE chan
     /\ ToCloud(ps, Env) =>
          /\ String(m, PS_ARGS) = topic /\ Number(m, PS_OP_CODE) # 0
          /\ Env.loginKey # NoText => HasKey(m, <<LOGIN_KEY>>)

\* What two maps have in common that are read alike at a key.
LEMMA ReadsTrans ==
  ASSUME NEW a, NEW b, NEW c, NEW k, SameReads(a, b, k), LikeBut(b, c, <<k>>)
  PROVE  SameReads(a, c, k)
BY AlikeReads DEF SameReads

LEMMA PublishReads ==
  ASSUME NEW ps \in Asked, NEW topic
  PROVE  Addressed(ps, topic, PublishExtra(ps, topic, Env))
<1> DEFINE cloud == ToCloud(ps, Env)
           own  == EmptyMap(ByteT)
           key  == PutUnless(~cloud \/ Env.loginKey = NoText, own,
                             LOGIN_KEY, StringT, Text(Env.loginKey))
           x    == IF cloud THEN CloudArgs(ps, topic) ELSE ps
           all  == PutAll(key, x)
           chan == IF cloud THEN Env.channelNo ELSE Number(ps, CHANNEL_NO)
           host == PutUnless(String(ps, UDP_HOST) # NoText, all, UDP_HOST, StringT, Text(Env.jmHost))
           port == PutUnless(Number(ps, UDP_PORT) > 0, host, UDP_PORT, IntT, Num(Env.jmPort))
           m    == PutUnless(chan > 0, port, CHANNEL_NO, IntT, Num(Env.channelNo))
           g    == PutNum(m, GROUP_ID, IntT, Env.grpId)
           p    == PutNum(g, CLIENT_ID, IntT, Env.clientId)
<1>1. p = PublishExtra(ps, topic, Env)
  BY DEF PublishExtra
<1>2. NumMap(own) /\ \A j : ~HasKey(own, j)
  BY NewNumMap
<1>3. /\ NumMap(key)
      /\ cloud /\ Env.loginKey # NoText => HasKey(key, <<LOGIN_KEY>>)
      /\ \A k : k # LOGIN_KEY => ~HasKey(key, <<k>>)
  <2> DEFINE cond == ~cloud \/ Env.loginKey = NoText
             v == Text(Env.loginKey)
  <2> HIDE DEF own, cond, v
  <2>1. StringT \notin Unset \cup {LongT}
    BY PlainTypes
  <2>2. key = PutUnless(cond, own, LOGIN_KEY, StringT, v)
    BY DEF cond, v
  <2> HIDE DEF key
  <2>3. /\ NumMap(key)
        /\ IF cond THEN key = own
           ELSE HasKey(key, <<LOGIN_KEY>>) /\ Number(key, LOGIN_KEY) = v.n[1] /\ String(key, LOGIN_KEY) = v.n
        /\ \A k : k # LOGIN_KEY => LikeBut(own, key, <<k>>)
    BY <1>2, <2>1, <2>2, UnlessReads
  <2>4. QED BY <1>2, <2>3 DEF cond, LikeBut
<1>4. /\ NumMap(x)
      /\ \A k \in {UDP_HOST, UDP_PORT, CHANNEL_NO} : SameReads(ps, x, k) /\ PlainAt(x, k)
      /\ cloud => /\ HasKey(x, <<PS_ARGS>>) /\ PlainAt(x, PS_ARGS) /\ String(x, PS_ARGS) = topic
                  /\ HasKey(x, <<PS_OP_CODE>>) /\ PlainAt(x, PS_OP_CODE) /\ Number(x, PS_OP_CODE) # 0
  <2>1. \A k \in {UDP_HOST, UDP_PORT, CHANNEL_NO} : PlainAt(ps, k)
    BY AskedReads
  <2>2. CASE cloud
    <3>1. x = CloudArgs(ps, topic)
      BY <2>2
    <3> HIDE DEF x, cloud
    <3>2. /\ NumMap(x)
          /\ HasKey(x, <<PS_ARGS>>) /\ PlainAt(x, PS_ARGS) /\ String(x, PS_ARGS) = topic
          /\ HasKey(x, <<PS_OP_CODE>>) /\ PlainAt(x, PS_OP_CODE) /\ Number(x, PS_OP_CODE) # 0
          /\ \A k \in {UDP_HOST, UDP_PORT, CHANNEL_NO} : LikeBut(ps, x, <<k>>)
      BY <3>1, CloudReads
    <3>3. QED BY <2>1, <3>2, AlikeReads, AlikePlain
  <2>3. CASE ~cloud
    <3>1. x = ps
      BY <2>3
    <3> HIDE DEF x, cloud
    <3>2. QED BY <2>1, <2>3, <3>1, AskedReads DEF SameReads
  <2>4. QED BY <2>2, <2>3
<1> HIDE DEF key, x
<1>5. /\ NumMap(all)
      /\ HasKey(key, <<LOGIN_KEY>>) => HasKey(all, <<LOGIN_KEY>>)
      /\ \A k : k # LOGIN_KEY /\ PlainAt(x, k) => SameReads(x, all, k)
  <2>1. /\ NumMap(all)
        /\ \A j : IF HasKey(x, j)
                  THEN /\ HasKey(all, j) /\ Get(all, j).type = Get(x, j).type
                       /\ Get(x, j).type \notin Unset \cup {LongT} =>
                            Get(all, j).val = Get(x, j).val
                  ELSE LikeBut(key, all, j)
    BY <1>3, <1>4, PutAllFound
  <2> HIDE DEF all
  <2>2. HasKey(key, <<LOGIN_KEY>>) => HasKey(all, <<LOGIN_KEY>>)
    BY <2>1 DEF LikeBut
  <2>3. ASSUME NEW k, k # LOGIN_KEY, PlainAt(x, k) PROVE SameReads(x, all, k)
    <3>1. CASE HasKey(x, <<k>>)
      BY <2>1, <2>3, <3>1 DEF PlainAt, SameReads, Number, String
    <3>2. CASE ~HasKey(x, <<k>>)
      <4>1. ~HasKey(key, <<k>>) /\ LikeBut(key, all, <<k>>)
        BY <1>3, <2>1, <2>3, <3>2
      <4>2. QED BY <3>2, <4>1 DEF LikeBut, SameReads, Number, String
    <3>3. QED BY <3>1, <3>2
  <2>4. QED BY <2>1, <2>2, <2>3
<1> HIDE DEF all
<1>6. \A k \in {UDP_HOST, UDP_PORT, CHANNEL_NO} : SameReads(ps, all, k)
  <2>1. ASSUME NEW k \in {UDP_HOST, UDP_PORT, CHANNEL_NO} PROVE SameReads(ps, all, k)
    <3>1. k # LOGIN_KEY
      BY KeyNumbers
    <3>2. SameReads(ps, x, k) /\ SameReads(x, all, k)
      BY <1>4, <1>5, <3>1
    <3>3. QED BY <3>2 DEF SameReads
  <2>2. QED BY <2>1
<1>7. cloud => /\ String(all, PS_ARGS) = topic /\ Number(all, PS_OP_CODE) # 0
               /\ Env.loginKey # NoText => HasKey(all, <<LOGIN_KEY>>)
  <2>1. PS_ARGS # LOGIN_KEY /\ PS_OP_CODE # LOGIN_KEY
    BY KeyNumbers
  <2> HIDE DEF cloud
  <2>2. QED BY <1>3, <1>4, <1>5, <2>1 DEF SameReads
<1>8. IntT \notin Unset \cup {LongT} /\ StringT \notin Unset \cup {LongT}
  BY PlainTypes
<1>9. /\ NumMap(host)
      /\ String(host, UDP_HOST) = IF String(ps, UDP_HOST) = NoText THEN Env.jmHost ELSE String(ps, UDP_HOST)
      /\ \A k : k # UDP_HOST => LikeBut(all, host, <<k>>)
  <2> DEFINE v == Text(Env.jmHost)
             cond == String(ps, UDP_HOST) # NoText
  <2>1. v.n = Env.jmHost
    BY DEF Text
  <2> HIDE DEF v, cond
  <2>2. host = PutUnless(cond, all, UDP_HOST, StringT, v)
    BY DEF v, cond
  <2> HIDE DEF host
  <2>3. /\ NumMap(host)
        /\ IF cond THEN host = all
           ELSE HasKey(host, <<UDP_HOST>>) /\ Number(host, UDP_HOST) = v.n[1] /\ String(host, UDP_HOST) = v.n
        /\ \A k : k # UDP_HOST => LikeBut(all, host, <<k>>)
    <3>1. NumMap(all) /\ StringT \notin Unset \cup {LongT}
      BY <1>5, <1>8
    <3>2. QED BY <2>2, <3>1, UnlessReads
  <2>4. QED BY <1>6, <2>1, <2>3 DEF cond, SameReads
<1> HIDE DEF host
<1>10. /\ NumMap(port)
       /\ Number(port, UDP_PORT) = IF Number(ps, UDP_PORT) = 0 THEN Env.jmPort ELSE Number(ps, UDP_PORT)
       /\ \A k : k # UDP_PORT => LikeBut(host, port, <<k>>)
  <2> DEFINE v == Num(Env.jmPort)
             cond == Number(ps, UDP_PORT) > 0
  <2>1. v.n[1] = Env.jmPort
    BY DEF Num
  <2> HIDE DEF v, cond
  <2>2. port = PutUnless(cond, host, UDP_PORT, IntT, v)
    BY DEF v, cond
  <2> HIDE DEF port
  <2>3. /\ NumMap(port)
        /\ IF cond THEN port = host
           ELSE HasKey(port, <<UDP_PORT>>) /\ Number(port, UDP_PORT) = v.n[1] /\ String(port, UDP_PORT) = v.n
        /\ \A k : k # UDP_PORT => LikeBut(host, port, <<k>>)
    <3>1. NumMap(host) /\ IntT \notin Unset \cup {LongT}
      BY <1>8, <1>9
    <3>2. QED BY <2>2, <3>1, UnlessReads
  <2>4. SameReads(ps, host, UDP_PORT)
    <3>1. UDP_PORT # UDP_HOST
      BY KeyNumbers
    <3>2. QED BY <1>6, <1>9, <3>1, ReadsTrans
  <2>5. cond <=> Number(ps, UDP_PORT) # 0
    BY AskedReads DEF cond
  <2>6. QED BY <2>1, <2>3, <2>4, <2>5 DEF SameReads
<1> HIDE DEF port
<1>11. /\ NumMap(m)
       /\ Number(m, CHANNEL_NO) = IF Number(ps, CHANNEL_NO) = 0 /\ ~cloud THEN Env.channelNo
                                  ELSE Number(ps, CHANNEL_NO)
       /\ \A k : k # CHANNEL_NO => LikeBut(port, m, <<k>>)
  <2> DEFINE v == Num(Env.channelNo)
             cond == chan > 0
  <2>1. v.n[1] = Env.channelNo
    BY DEF Num
  <2> HIDE DEF v, cond
  <2>2. m = PutUnless(cond, port, CHANNEL_NO, IntT, v)
    BY DEF v, cond
  <2> HIDE DEF m
  <2>3. /\ NumMap(m)
        /\ IF cond THEN m = port
           ELSE HasKey(m, <<CHANNEL_NO>>) /\ Number(m, CHANNEL_NO) = v.n[1] /\ String(m, CHANNEL_NO) = v.n
        /\ \A k : k # CHANNEL_NO => LikeBut(port, m, <<k>>)
    <3>1. NumMap(port) /\ IntT \notin Unset \cup {LongT}
      BY <1>8, <1>10
    <3>2. QED BY <2>2, <3>1, UnlessReads
  <2>4. SameReads(ps, port, CHANNEL_NO)
    <3>1. CHANNEL_NO # UDP_HOST /\ CHANNEL_NO # UDP_PORT
      BY KeyNumbers
    <3>2. SameReads(ps, host, CHANNEL_NO)
      BY <1>6, <1>9, <3>1, ReadsTrans
    <3>3. QED BY <1>10, <3>1, <3>2, ReadsTrans
  <2>5. cond <=> cloud \/ Number(ps, CHANNEL_NO) # 0
    <3>1. Env.channelNo \in Nat \ {0}
      BY ItemAddressAssumption DEF EnvAssumption
    <3> HIDE DEF cloud
    <3>2. QED BY <3>1, AskedReads DEF cond
  <2>6. QED BY <2>1, <2>3, <2>4, <2>5 DEF SameReads
<1> HIDE DEF m
<1>12. /\ NumMap(g) /\ Number(g, GROUP_ID) = Env.grpId
       /\ \A k : k # GROUP_ID => LikeBut(m, g, <<k>>)
  <2> DEFINE y == Env.grpId
             t == IntT
  <2>1. g = PutNum(m, GROUP_ID, t, y)
    OBVIOUS
  <2>2. NumMap(m) /\ t \notin Unset \cup {LongT}
    BY <1>8, <1>11
  <2> HIDE DEF y, t, g
  <2>3. /\ NumMap(g) /\ HasKey(g, <<GROUP_ID>>) /\ PlainAt(g, GROUP_ID) /\ Number(g, GROUP_ID) = y
        /\ \A k : k # GROUP_ID => LikeBut(m, g, <<k>>)
    BY <2>1, <2>2, NumReads
  <2>4. QED BY <2>3 DEF y
<1> HIDE DEF g
<1>13. /\ NumMap(p) /\ Number(p, CLIENT_ID) = Env.clientId
       /\ \A k : k # CLIENT_ID => LikeBut(g, p, <<k>>)
  <2> DEFINE y == Env.clientId
             t == IntT
  <2>1. p = PutNum(g, CLIENT_ID, t, y)
    OBVIOUS
  <2>2. NumMap(g) /\ t \notin Unset \cup {LongT}
    BY <1>8, <1>12
  <2> HIDE DEF y, t, p
  <2>3. /\ NumMap(p) /\ HasKey(p, <<CLIENT_ID>>) /\ PlainAt(p, CLIENT_ID) /\ Number(p, CLIENT_ID) = y
        /\ \A k : k # CLIENT_ID => LikeBut(g, p, <<k>>)
    BY <2>1, <2>2, NumReads
  <2>4. QED BY <2>3 DEF y
<1> HIDE DEF p
<1>14. Number(p, GROUP_ID) = Env.grpId
  <2>1. LikeBut(g, p, <<GROUP_ID>>)
    BY <1>13, KeyNumbers
  <2>2. QED BY <1>12, <2>1, AlikeReads DEF SameReads
<1>15. ASSUME NEW k, k # GROUP_ID, k # CLIENT_ID PROVE SameReads(m, p, k)
  <2>1. LikeBut(m, g, <<k>>) /\ LikeBut(g, p, <<k>>)
    BY <1>12, <1>13, <1>15
  <2>2. QED BY <2>1, AlikeReads DEF SameReads
<1>16. ASSUME NEW k, k # UDP_PORT, k # CHANNEL_NO, k # GROUP_ID, k # CLIENT_ID
       PROVE  SameReads(host, p, k)
  <2>1. LikeBut(host, port, <<k>>) /\ LikeBut(port, m, <<k>>)
    BY <1>10, <1>11, <1>16
  <2>2. QED BY <1>15, <1>16, <2>1, AlikeReads DEF SameReads
<1>17. SameReads(m, p, CHANNEL_NO) /\ SameReads(port, p, UDP_PORT) /\ SameReads(host, p, UDP_HOST)
  <2>1. SameReads(m, p, CHANNEL_NO) /\ SameReads(m, p, UDP_PORT)
    BY <1>15, KeyNumbers
  <2>2. LikeBut(port, m, <<UDP_PORT>>)
    BY <1>11, KeyNumbers
  <2>3. SameReads(port, p, UDP_PORT)
    BY <2>1, <2>2, AlikeReads DEF SameReads
  <2>4. SameReads(host, p, UDP_HOST)
    BY <1>16, KeyNumbers
  <2>5. QED BY <2>1, <2>3, <2>4
<1>18. ASSUME NEW k \in {PS_ARGS, PS_OP_CODE, LOGIN_KEY} PROVE SameReads(all, p, k)
  <2>1. k # UDP_HOST /\ k # UDP_PORT /\ k # CHANNEL_NO /\ k # GROUP_ID /\ k # CLIENT_ID
    BY KeyNumbers
  <2>2. LikeBut(all, host, <<k>>)
    BY <1>9, <2>1
  <2>3. SameReads(host, p, k)
    BY <1>16, <2>1
  <2>4. QED BY <2>2, <2>3, AlikeReads DEF SameReads
<1>19. Addressed(ps, topic, p)
  BY <1>7, <1>9, <1>10, <1>11, <1>13, <1>14, <1>17, <1>18 DEF Addressed, SameReads
<1>20. QED BY <1>1, <1>19

\* What the sender takes out of the map leaves the other keys.
LEMMA WithoutReads ==
  ASSUME NEW m, NumMap(m), NEW key, NEW p, p = Without(m, key)
  PROVE  NumMap(p) /\ \A k : k # key => LikeBut(m, p, <<k>>)
<1>1. CASE m.hd = <<>>
  BY <1>1 DEF Without, LikeBut
<1>2. CASE m.hd # <<>>
  <2>1. p = RemoveKey(m, <<key>>)
    BY <1>2 DEF Without
  <2>2. NumMap(p) /\ \A j : j # <<key>> => LikeBut(m, p, j)
    BY <1>2, <2>1, RemoveFound
  <2>3. \A k : k # key => <<k>> # <<key>>
    OBVIOUS
  <2>4. QED BY <2>2, <2>3
<1>3. QED BY <1>1, <1>2

\* A message that is sent goes where its map says, and the rest of the map goes
\* with it.
LEMMA SendReads ==
  ASSUME NEW m, NumMap(m), NEW isUdp, NEW out, out = SendMessage(m, isUdp, Channels)
  PROVE  /\ out.sent = (Number(m, CHANNEL_NO) \in Channels)
         /\ out.sent =>
              /\ out.host = String(m, UDP_HOST) /\ out.port = Number(m, UDP_PORT)
              /\ \A k : k \notin {CHANNEL_NO, UDP_HOST, UDP_PORT, UDP_ACK} =>
                   SameReads(m, out.extra, k)
<1> DEFINE a == Without(m, CHANNEL_NO)
           b == Without(a, UDP_HOST)
           c == Without(b, UDP_PORT)
           d == Without(c, UDP_ACK)
           x == IF isUdp THEN d ELSE a
<1>1. CASE Number(m, CHANNEL_NO) \notin Channels
  <2>1. out = [sent |-> FALSE]
    BY <1>1 DEF SendMessage
  <2>2. out.sent = FALSE
    BY ONLY <2>1
  <2>3. (Number(m, CHANNEL_NO) \in Channels) = FALSE
    BY <1>1
  <2>4. QED BY ONLY <2>2, <2>3
<1>2. CASE Number(m, CHANNEL_NO) \in Channels
  <2>1. out = [sent |-> TRUE, channelNo |-> Number(m, CHANNEL_NO),
               host |-> String(m, UDP_HOST), port |-> Number(m, UDP_PORT), extra |-> x]
    BY <1>2 DEF SendMessage
  <2>2. /\ NumMap(a) /\ \A k : k # CHANNEL_NO => LikeBut(m, a, <<k>>)
    BY WithoutReads
  <2> HIDE DEF a
  <2>3. /\ NumMap(b) /\ \A k : k # UDP_HOST => LikeBut(a, b, <<k>>)
    BY <2>2, WithoutReads
  <2> HIDE DEF b
  <2>4. /\ NumMap(c) /\ \A k : k # UDP_PORT => LikeBut(b, c, <<k>>)
    BY <2>3, WithoutReads
  <2> HIDE DEF c
  <2>5. /\ NumMap(d) /\ \A k : k # UDP_ACK => LikeBut(c, d, <<k>>)
    BY <2>4, WithoutReads
  <2> HIDE DEF d
  <2>6. ASSUME NEW k, k \notin {CHANNEL_NO, UDP_HOST, UDP_PORT, UDP_ACK}
        PROVE  SameReads(m, x, k)
    <3>1. LikeBut(m, a, <<k>>) /\ LikeBut(a, b, <<k>>) /\ LikeBut(b, c, <<k>>) /\ LikeBut(c, d, <<k>>)
      BY <2>2, <2>3, <2>4, <2>5, <2>6
    <3>2. SameReads(m, a, k)
      BY <3>1, AlikeReads
    <3>3. SameReads(m, b, k)
      BY <3>1, <3>2, ReadsTrans
    <3>4. SameReads(m, c, k)
      BY <3>1, <3>3, ReadsTrans
    <3>5. SameReads(m, d, k)
      BY <3>1, <3>4, ReadsTrans
    <3>6. QED BY <3>2, <3>5
  <2> HIDE DEF x
  <2>7. /\ out.sent = TRUE /\ out.extra = x
        /\ out.host = String(m, UDP_HOST) /\ out.port = Number(m, UDP_PORT)
    BY <2>1
  <2>8. QED BY <1>2, <2>6, <2>7
<1>3. QED BY <1>1, <1>2

\* The item that is published is sent by this code.
ItemSent ==
  \A item \in published :
    /\ item.ps \in Asked
    /\ item.out = SendMessage(PublishExtra(item.ps, item.topic, Env),
                              Number(item.ps, UDP_ACK) # 0, Channels)

LEMMA SentAsAsked ==
  ASSUME NEW ps \in Asked, NEW topic, NEW out,
         out = SendMessage(PublishExtra(ps, topic, Env), Number(ps, UDP_ACK) # 0, Channels)
  PROVE  LET host == String(ps, UDP_HOST)
             port == Number(ps, UDP_PORT)
         IN /\ out.sent = IF ToCloud(ps, Env) THEN Number(ps, CHANNEL_NO) \in Channels
                          ELSE Number(ps, CHANNEL_NO) = 0 \/ Number(ps, CHANNEL_NO) \in Channels
            /\ out.sent =>
                 /\ out.host = (IF host = NoText THEN Env.jmHost ELSE host)
                 /\ out.port = (IF port = 0 THEN Env.jmPort ELSE port)
                 /\ Number(out.extra, GROUP_ID) = Env.grpId
                 /\ Number(out.extra, CLIENT_ID) = Env.clientId
                 /\ ToCloud(ps, Env) =>
                      /\ String(out.extra, PS_ARGS) = topic
                      /\ Number(out.extra, PS_OP_CODE) # 0
                      /\ Env.loginKey # NoText => HasKey(out.extra, <<LOGIN_KEY>>)
<1> DEFINE m     == PublishExtra(ps, topic, Env)
           isUdp == Number(ps, UDP_ACK) # 0
           cloud == ToCloud(ps, Env)
<1>1. Addressed(ps, topic, m)
  BY PublishReads
<1>2. out = SendMessage(m, isUdp, Channels)
  OBVIOUS
<1> HIDE DEF m, isUdp
<1>3. NumMap(m)
  BY <1>1 DEF Addressed
<1>4. /\ out.sent = (Number(m, CHANNEL_NO) \in Channels)
      /\ out.sent =>
           /\ out.host = String(m, UDP_HOST) /\ out.port = Number(m, UDP_PORT)
           /\ \A k : k \notin {CHANNEL_NO, UDP_HOST, UDP_PORT, UDP_ACK} =>
                SameReads(m, out.extra, k)
  BY <1>2, <1>3, SendReads
<1>5. out.sent = IF cloud THEN Number(ps, CHANNEL_NO) \in Channels
                 ELSE Number(ps, CHANNEL_NO) = 0 \/ Number(ps, CHANNEL_NO) \in Channels
  <2>1. Env.channelNo \in Channels
    BY ItemAddressAssumption DEF EnvAssumption
  <2>2. Number(m, CHANNEL_NO) = IF Number(ps, CHANNEL_NO) = 0 /\ ~cloud THEN Env.channelNo
                                ELSE Number(ps, CHANNEL_NO)
    BY <1>1 DEF Addressed
  <2> HIDE DEF cloud
  <2>3. CASE Number(ps, CHANNEL_NO) = 0 /\ ~cloud
    BY <1>4, <2>1, <2>2, <2>3
  <2>4. CASE ~(Number(ps, CHANNEL_NO) = 0 /\ ~cloud)
    BY <1>4, <2>2, <2>4
  <2>5. QED BY <2>3, <2>4
<1>6. ASSUME NEW k \in {GROUP_ID, CLIENT_ID, PS_ARGS, PS_OP_CODE, LOGIN_KEY}
      PROVE  k \notin {CHANNEL_NO, UDP_HOST, UDP_PORT, UDP_ACK}
  BY KeyNumbers
<1>7. out.sent =>
        /\ Number(out.extra, GROUP_ID) = Number(m, GROUP_ID)
        /\ Number(out.extra, CLIENT_ID) = Number(m, CLIENT_ID)
        /\ String(out.extra, PS_ARGS) = String(m, PS_ARGS)
        /\ Number(out.extra, PS_OP_CODE) = Number(m, PS_OP_CODE)
        /\ HasKey(m, <<LOGIN_KEY>>) => HasKey(out.extra, <<LOGIN_KEY>>)
  BY <1>4, <1>6 DEF SameReads
<1>8. QED BY <1>1, <1>4, <1>5, <1>7 DEF Addressed

(* An item goes where its caller asks, or else to the server, in the name  *)
(* of this device's account, and for the server it names its topic and the *)
(* login; it is sent when the channel it is for has a sender               *)
(* (jm_cli_publishPubsubItem, jm_cli_sendMessage).                         *)
THEOREM ItemGoesWhereAsked == AddressSpec => []ItemIsAddressed
<1>1. AddressInit => ItemSent
  BY DEF AddressInit, ItemSent
<1>2. ItemSent /\ [AddressNext]_published => ItemSent'
  <2> SUFFICES ASSUME ItemSent, [AddressNext]_published PROVE ItemSent'
    OBVIOUS
  <2>1. CASE Address
    <3>1. PICK topic \in Topics, ps \in Asked :
            published' = {[topic |-> topic, ps |-> ps,
                           out |-> SendMessage(PublishExtra(ps, topic, Env),
                                               Number(ps, UDP_ACK) # 0, Channels)]}
      BY <2>1 DEF Address
    <3>2. QED BY <3>1 DEF ItemSent
  <2>2. CASE ReleaseMsg
    BY <2>2 DEF ReleaseMsg, ItemSent
  <2>3. CASE UNCHANGED published
    BY <2>3 DEF ItemSent
  <2>4. QED BY <2>1, <2>2, <2>3 DEF AddressNext
<1>3. ItemSent => ItemIsAddressed
  BY SentAsAsked DEF ItemSent, ItemIsAddressed
<1>4. QED BY <1>1, <1>2, <1>3, PTL DEF AddressSpec
-----------------------------------------------------------------------------
\* Entries that get their values.

\* An entry that may be put into: all but what it holds.
Open(ex, S) ==
  /\ IsEntry(ex) /\ ex.key \in Seq(Nat) /\ ex.type \in Types /\ ex.len \in Nat
  /\ ex.val \in [n : Seq(Int), e : Seq(S)]

\* A new entry waits for its value.
LEMMA NewIsOpen ==
  ASSUME NEW S, NEW key \in Seq(Nat), NEW type \in Types
  PROVE  Open(NewEntry(key, type), S)
<1> DEFINE A == Seq(S)
<1>1. <<>> \in A /\ <<0>> \in Seq(Int)
  OBVIOUS
<1> HIDE DEF A
<1>2. Num(0) \in [n : Seq(Int), e : A]
  BY <1>1 DEF Num
<1>3. QED BY <1>2 DEF Open, IsEntry, NewEntry, A

\* An entry with a value can take another one of its type.
LEMMA HolderIsOpen ==
  ASSUME NEW S, NEW ex \in Holders(S)
  PROVE  Open(ex, S) /\ ValueFits(ex.type, ex.val)
<1> DEFINE A == [n : Seq(Int), e : Seq(S)]
           B == Seq(Nat)
<1> HIDE DEF A, B
<1>1. ex \in [key : B, type : Types, val : A, len : Nat] /\ Fits(ex)
  BY DEF Holders, A, B
<1>2. QED BY <1>1 DEF Open, IsEntry, A, B, Fits

\* The halves of a LONG behind a pointer of 32 bits.
LEMMA HalvesFit ==
  ASSUME NEW x \in Int, InSigned(x, 4)
  PROVE  InSigned(IF x < 0 THEN -1 ELSE 0, 4)
BY SMT DEF InSigned, Largest

\* Another value in an entry, and another length.
OneSet(p, ex, w)       == p = [ex EXCEPT !.val = w]
BothSet(p, ex, w, len) == p = [ex EXCEPT !.val = w, !.len = len]
Parts(ex, w, len)      == [key |-> ex.key, type |-> ex.type, val |-> w, len |-> len]

\* An entry with another value, and with another length (jm_emap_put* of src/jm_msg_extra.h).
LEMMA SetIs ==
  ASSUME NEW ex, IsEntry(ex), NEW w, NEW len, NEW p
  PROVE  /\ OneSet(p, ex, w) => p = Parts(ex, w, ex.len)
         /\ BothSet(p, ex, w, len) => p = Parts(ex, w, len)
<1>1. ex = [key |-> ex.key, type |-> ex.type, val |-> ex.val, len |-> ex.len]
  BY DEF IsEntry
<1>2. ASSUME OneSet(p, ex, w) PROVE p = Parts(ex, w, ex.len)
  <2>1. p = [key |-> p.key, type |-> p.type, val |-> p.val, len |-> p.len]
    BY <1>1, <1>2 DEF OneSet
  <2>2. p.key = ex.key /\ p.type = ex.type /\ p.val = w /\ p.len = ex.len
    BY <1>1, <1>2 DEF OneSet
  <2>3. QED BY <2>1, <2>2 DEF Parts
<1>3. ASSUME BothSet(p, ex, w, len) PROVE p = Parts(ex, w, len)
  <2>1. p = [key |-> p.key, type |-> p.type, val |-> p.val, len |-> p.len]
    BY <1>1, <1>3 DEF BothSet
  <2>2. p.key = ex.key /\ p.type = ex.type /\ p.val = w /\ p.len = len
    BY <1>1, <1>3 DEF BothSet
  <2>3. QED BY <2>1, <2>2 DEF Parts
<1>4. QED BY <1>2, <1>3

\* An entry into which a value of its type is put has what its type can hold.
LEMMA ValueSet ==
  ASSUME NEW S, NEW ex, Open(ex, S), NEW w \in [n : Seq(Int), e : Seq(S)], NEW len \in Nat,
         ValueFits(ex.type, w), ex.type = StringT /\ w # NullVal => len = Len(w.n),
         ex.type = BytesT => len = 4, NEW new, new = Parts(ex, w, len)
  PROVE  new \in Holders(S)
<1> DEFINE A == [n : Seq(Int), e : Seq(S)]
           B == Seq(Nat)
           t == ex.type
<1>1. /\ ex = [key |-> ex.key, type |-> t, val |-> ex.val, len |-> ex.len]
      /\ ex.key \in B /\ t \in Types /\ w \in A
  BY DEF Open, IsEntry
<1> HIDE DEF A, B
<1>2. new = [key |-> ex.key, type |-> t, val |-> w, len |-> len]
  BY DEF Parts
<1>3. new \in [key : B, type : Types, val : A, len : Nat]
  BY <1>1, <1>2
<1>4. Fits(new)
  <2>1. new.type = t /\ new.val = w /\ new.len = len
    BY <1>2
  <2>2. QED BY <2>1 DEF Fits
<1>5. QED BY <1>3, <1>4 DEF Holders, A, B

\* An entry that a value of its type was put into.
LEMMA PutFits ==
  ASSUME NEW S, NEW ex, Open(ex, S), NEW v \in [n : Seq(Int), e : Seq(S)], ValueFits(ex.type, v)
  PROVE  SetVal(ex, v) \in Holders(S)
<1> DEFINE A == [n : Seq(Int), e : Seq(S)]
           t == ex.type
           new == SetVal(ex, v)
<1>1. IsEntry(ex) /\ ex.len \in Nat /\ ex.val \in A /\ v \in A /\ t \in Types
  BY DEF Open
<1>2. CASE t = StringT
  <2> DEFINE len == IF v = NullVal THEN ex.len ELSE Len(v.n)
  <2>1. new = Parts(ex, v, len)
    <3>1. BothSet(new, ex, v, len)
      BY <1>2, TypesApart DEF SetVal, BothSet
    <3> HIDE DEF new, len
    <3>2. QED BY <1>1, <3>1, SetIs
  <2>2. len \in Nat
    <3>1. v.n \in Seq(Int)
      OBVIOUS
    <3>2. Len(v.n) \in Nat
      BY <3>1, LenProperties
    <3>3. QED BY <1>1, <3>2
  <2>3. (v # NullVal => len = Len(v.n)) /\ t # BytesT
    BY <1>2, TypesApart
  <2> HIDE DEF len, new
  <2>4. new \in Holders(S)
    BY <2>1, <2>2, <2>3, ValueSet
  <2>5. QED BY <2>4 DEF new
<1>3. CASE t = BytesT
  <2>1. new = Parts(ex, v, 4) /\ t # StringT
    <3>1. BothSet(new, ex, v, 4) /\ t # StringT
      BY <1>3, TypesApart DEF SetVal, BothSet
    <3> HIDE DEF new
    <3>2. QED BY <1>1, <3>1, SetIs
  <2> HIDE DEF new
  <2>2. new \in Holders(S)
    BY <2>1, ValueSet
  <2>3. QED BY <2>2 DEF new
<1>4. CASE t \in Unset
  <2>1. new = ex /\ t # StringT /\ t # BytesT
    BY <1>4, TypesApart DEF SetVal
  <2>2. ValueFits(t, ex.val)
    BY <1>4, TypesTell DEF ValueFits
  <2> HIDE DEF new
  <2>3. new = Parts(ex, ex.val, ex.len)
    BY <1>1, <2>1 DEF IsEntry, Parts
  <2>4. new \in Holders(S)
    <3> DEFINE w == ex.val
               len == ex.len
    <3>1. w \in A /\ len \in Nat /\ ValueFits(t, w) /\ new = Parts(ex, w, len)
      BY <1>1, <2>2, <2>3
    <3> HIDE DEF w, len
    <3>2. QED BY <2>1, <3>1, ValueSet
  <2>5. QED BY <2>4 DEF new
<1>5. CASE t \notin {StringT, BytesT} \cup Unset
  <2> DEFINE w == ThroughPointer(t, v)
  <2>1. new = Parts(ex, w, ex.len)
    <3>1. OneSet(new, ex, w)
      BY <1>5 DEF SetVal, OneSet
    <3> HIDE DEF new, w
    <3>2. QED BY <1>1, <3>1, SetIs
  <2>2. w \in A /\ ValueFits(t, w)
    <3>1. CASE t # LongT
      BY <3>1 DEF ThroughPointer
    <3>2. CASE t = LongT
      <4>1. LongT \in DOMAIN Width /\ LongT \notin {BoolT, CharT, ByteT, ShortT, IntT}
        BY DEF Width, LongT, BoolT, CharT, ByteT, ShortT, IntT, Prefix
      <4>2. Holds(t, v) /\ t = LongT
        BY <3>2, <4>1 DEF ValueFits
      <4>3. v = Long(v.n[1], v.n[2]) /\ InSigned(v.n[2], 4) /\ v.n[2] \in Int
        BY <4>1, <4>2 DEF Holds, InSigned
      <4> DEFINE l == v.n[2]
                 h == IF l < 0 THEN -1 ELSE 0
      <4>4. w = Long(h, l)
        BY <3>2 DEF ThroughPointer
      <4>5. InSigned(h, 4) /\ InSigned(l, 4) /\ h \in Int /\ l \in Int
        BY <4>3, HalvesFit
      <4> HIDE DEF h, l
      <4>6. w.n = <<h, l>> /\ w.n[1] = h /\ w.n[2] = l /\ w.e = <<>>
        BY <4>4 DEF Long
      <4>7. Holds(LongT, w)
        BY <4>4, <4>5, <4>6 DEF Holds
      <4>8. w \in A
        <5>1. <<h, l>> \in Seq(Int) /\ <<>> \in Seq(S)
          BY <4>5
        <5>2. QED BY <4>4, <5>1 DEF Long
      <4>9. LongT \notin {StringT, BytesT} \cup Maps \cup Colls
        BY <4>1, TypesTell
      <4>10. ValueFits(LongT, w)
        <5> HIDE DEF w
        <5>1. QED BY <4>7, <4>9 DEF ValueFits
      <4>11. QED BY <3>2, <4>8, <4>10
    <3>3. QED BY <3>1, <3>2
  <2> HIDE DEF w
  <2> HIDE DEF new
  <2>4. t # StringT /\ t # BytesT
    BY <1>5
  <2>5. new \in Holders(S)
    <3> DEFINE len == ex.len
    <3>1. len \in Nat /\ new = Parts(ex, w, len)
      BY <1>1, <2>1
    <3> HIDE DEF len
    <3>2. QED BY <2>2, <2>4, <3>1, ValueSet
  <2>6. QED BY <2>5 DEF new
<1>6. QED BY <1>2, <1>3, <1>4, <1>5
-----------------------------------------------------------------------------
\* The contents of the map that the program builds.

\* A list of which every item is in T.
LEMMA ListFrom ==
  ASSUME NEW t, IsList(t), NEW T, \A i \in 1 .. Len(t) : t[i] \in T
  PROVE  t \in Seq(T)
<1> DEFINE n == Len(t)
<1>1. n \in Nat /\ DOMAIN t = 1 .. n /\ t = [i \in 1 .. n |-> t[i]]
  BY LenProperties DEF IsList
<1>2. t \in [1 .. n -> T]
  BY <1>1
<1>3. QED BY <1>1, <1>2

\* The list that the values of a list of entries are added to.
Values1(s, i) == [j \in 1 .. i |-> SetVal(NewEntry(<<>>, s[j].type), s[j].val)]

\* Adding the values of the entries one by one makes the list of them.
LEMMA ListOfValues ==
  ASSUME NEW s, NEW n \in Nat
  PROVE  LET list[i \in 0 .. n] ==
               IF i = 0 THEN EmptyList ELSE Add(list[i - 1], s[i].type, s[i].val)
         IN list[n].hd = Values1(s, n)
<1> DEFINE T(i) == Values1(s, i)
           e(i) == SetVal(NewEntry(<<>>, s[i].type), s[i].val)
           F(f) == [i \in 0 .. n |-> IF i = 0 THEN EmptyList ELSE Add(f[i - 1], s[i].type, s[i].val)]
           G(i) == [hd |-> T(i), size |-> i]
           g == [i \in 0 .. n |-> G(i)]
           h == CHOOSE f : f = F(f)
<1>1. ASSUME NEW i \in 0 .. n PROVE T(i) \in Seq({e(j) : j \in 1 .. i}) /\ Len(T(i)) = i
      /\ \A j \in 1 .. i : T(i)[j] = e(j)
  <2> DEFINE S == {e(j) : j \in 1 .. i}
  <2>1. T(i) \in [1 .. i -> S]
    BY DEF Values1
  <2>2. \A j \in 1 .. i : T(i)[j] = e(j)
    BY DEF Values1
  <2> HIDE DEF S, T
  <2>3. T(i) \in Seq(S) /\ Len(T(i)) = i
    BY <2>1
  <2>4. QED BY <2>2, <2>3 DEF S
<1>2. ASSUME NEW i \in 1 .. n PROVE Append(T(i - 1), e(i)) = T(i)
  <2> DEFINE S == {e(j) : j \in 1 .. i}
             a == T(i - 1)
             b == T(i)
             c == e(i)
  <2>1. i - 1 \in 0 .. n /\ i \in 0 .. n /\ i - 1 \in Nat /\ i \in Nat
    OBVIOUS
  <2>2. /\ a \in Seq({e(j) : j \in 1 .. i - 1}) /\ Len(a) = i - 1 /\ \A j \in 1 .. i - 1 : a[j] = e(j)
        /\ b \in Seq(S) /\ Len(b) = i /\ \A j \in 1 .. i : b[j] = e(j)
    BY <1>1, <2>1
  <2>3. {e(j) : j \in 1 .. i - 1} \subseteq S /\ c \in S
    OBVIOUS
  <2>4. a \in Seq(S)
    BY <2>2, <2>3, SeqGrows
  <2>5. b[i] = c
    BY <2>2
  <2> HIDE DEF a, b, c, S, e
  <2>6. /\ Append(a, c) \in Seq(S) /\ Len(Append(a, c)) = Len(a) + 1
        /\ \A j \in 1 .. Len(a) : Append(a, c)[j] = a[j]
        /\ Append(a, c)[Len(a) + 1] = c
    BY <2>3, <2>4, AppendProperties
  <2>7. \A j \in 1 .. i : Append(a, c)[j] = b[j]
    BY <2>1, <2>2, <2>5, <2>6
  <2>8. Append(a, c) = b
    BY <2>2, <2>6, <2>7, SeqEqual
  <2>9. QED BY <2>8 DEF a, b, c
<1>3. T(0) = <<>>
  <2>1. T(0) \in Seq({e(j) : j \in 1 .. 0}) /\ Len(T(0)) = 0
    BY <1>1
  <2>2. QED BY <2>1, EmptySeq
<1>4. ASSUME NEW i \in 0 .. n
      PROVE  G(i) = IF i = 0 THEN EmptyList ELSE Add(g[i - 1], s[i].type, s[i].val)
  <2>1. CASE i = 0
    BY <1>3, <2>1 DEF EmptyList
  <2>2. CASE i # 0
    <3>1. i \in 1 .. n /\ i - 1 \in 0 .. n
      BY <2>2
    <3>2. g[i - 1] = G(i - 1)
      BY <3>1
    <3>3. Append(T(i - 1), e(i)) = T(i)
      BY <1>2, <3>1
    <3>4. G(i - 1).hd = T(i - 1) /\ G(i - 1).size = i - 1
      OBVIOUS
    <3> HIDE DEF g, T
    <3>5. Add(g[i - 1], s[i].type, s[i].val) = [hd |-> T(i), size |-> i]
      <4>1. Add(G(i - 1), s[i].type, s[i].val) = [hd |-> Append(T(i - 1), e(i)), size |-> (i - 1) + 1]
        BY DEF Add
      <4>2. (i - 1) + 1 = i
        BY <3>1
      <4>3. QED BY <3>2, <3>3, <4>1, <4>2
    <3>6. QED BY <2>2, <3>5
  <2>3. QED BY <2>1, <2>2
<1>5. g = F(g)
  <2> HIDE DEF G
  <2>1. g = [i \in 0 .. n |-> G(i)]
    OBVIOUS
  <2> HIDE DEF g
  <2>2. QED BY <1>4, <2>1
<1>6. h = F(h)
  <2> HIDE DEF F, g
  <2>1. QED BY <1>5
<1>7. h[n].hd = T(n)
  <2> DEFINE D == {i \in 0 .. n : h[i] # g[i]}
  <2>0. /\ \A i \in 0 .. n : h[i] = IF i = 0 THEN EmptyList ELSE Add(h[i - 1], s[i].type, s[i].val)
        /\ \A i \in 0 .. n : g[i] = IF i = 0 THEN EmptyList ELSE Add(g[i - 1], s[i].type, s[i].val)
    <3> HIDE DEF h, g
    <3>1. QED BY <1>5, <1>6
  <2>1. D = {}
    <3> HIDE DEF h, g
    <3>1. SUFFICES ASSUME D # {} PROVE FALSE
      OBVIOUS
    <3>2. D \in SUBSET Nat
      OBVIOUS
    <3>3. PICK i \in D : \A j \in D : i <= j
      BY <3>1, <3>2, LeastOf
    <3>4. i \in 0 .. n /\ h[i] # g[i]
      BY <3>3
    <3>5. i # 0
      BY <2>0, <3>4
    <3>6. i - 1 \in 0 .. n /\ ~(i <= i - 1)
      BY <3>4, <3>5
    <3>7. h[i - 1] = g[i - 1]
      BY <3>3, <3>6
    <3>8. QED BY <2>0, <3>4, <3>5, <3>7
  <2>2. h[n] = g[n] /\ g[n] = G(n)
    <3>1. n \in 0 .. n
      OBVIOUS
    <3>2. g[n] = G(n)
      BY <3>1
    <3> HIDE DEF h, g, G
    <3>3. QED BY <2>1, <3>1, <3>2
  <2>3. G(n).hd = T(n)
    OBVIOUS
  <2> HIDE DEF h, g, G, T
  <2>4. QED BY <2>2, <2>3
<1>8. QED BY <1>7
-----------------------------------------------------------------------------
\* Contents with one entry more, or another one.

\* What the map of the program holds, whatever keys were asked for: entries
\* with values of their types, under keys that find them.
Contents(m, n) ==
  /\ IsMap(m) /\ m.keyType = StringT
  /\ Keyed(m.hd) /\ Sorted(m.hd)
  /\ n \in 0 .. MaxPuts /\ Len(m.hd) <= n
  /\ \E d \in Nat : m.hd \in Seq(Level[d])

\* The keys of the program are written.
LEMMA KeysAre == \A k \in MapKeys : k \in Seq(Nat) /\ k # <<>> /\ InUnsigned(Len(k), 2)
<1>1. Seq(1 .. 127) \subseteq Seq(Nat)
  BY SeqGrows, 1 .. 127 \subseteq Nat
<1>2. QED BY <1>1, MapProgramAssumption, TypedDataAssumption DEF ValuesAssumption

\* What a byte can count, two bytes can.
LEMMA BytesCount ==
  ASSUME NEW x \in Nat, NEW y, InUnsigned(y, 1), x <= y
  PROVE  InUnsigned(x, 1) /\ InUnsigned(x, 2)
BY SMT DEF InUnsigned, Largest

\* A map that is sent.
LEMMA ContentsSend ==
  ASSUME NEW m, NEW n, Contents(m, n)
  PROVE  /\ m.hd \in Seq(ToSet(m.hd)) /\ Len(m.hd) \in Nat
         /\ InUnsigned(Len(m.hd), 1) /\ InUnsigned(Len(m.hd), 2)
         /\ OwnKeys(m.hd) /\ KeysFit(m.hd)
<1> DEFINE s == m.hd
           k == Len(s)
<1>1. s \in Seq(ToSet(s)) /\ k \in Nat /\ DOMAIN s = 1 .. k
  BY LenProperties DEF Contents, IsMap, IsList
<1>2. k <= n /\ n \in 0 .. MaxPuts /\ MaxPuts \in Nat /\ InUnsigned(MaxPuts, 1)
  BY MapProgramAssumption, TypedDataAssumption DEF ValuesAssumption, Contents
<1>3. InUnsigned(k, 1) /\ InUnsigned(k, 2)
  <2> HIDE DEF k
  <2>1. k <= MaxPuts
    BY <1>1, <1>2
  <2>2. QED BY <1>1, <1>2, <2>1, BytesCount
<1>4. OwnKeys(s)
  BY <1>1 DEF Contents, Sorted, OwnKeys
<1>5. KeysFit(s)
  BY <1>1, KeysAre DEF Contents, Keyed, KeysFit
<1>6. QED BY <1>1, <1>3, <1>4, <1>5

\* A level that has both the entries of the map and the values in use.
LEMMA OneLevel ==
  ASSUME NEW s, \E d \in Nat : s \in Seq(Level[d])
  PROVE  \E d \in Nat :
           /\ s \in Seq(Holders(Level[d]))
           /\ \A tv \in Values : /\ tv.type \in Types /\ ValueFits(tv.type, tv.val)
                                 /\ tv.val \in [n : Seq(Int), e : Seq(Level[d])]
           /\ Level[d + 1] = Holders(Level[d])
<1>1. PICK c \in Nat : s \in Seq(Level[c])
  OBVIOUS
<1>2. Depth \in Nat
  BY TypedDataAssumption DEF ValuesAssumption
<1> DEFINE d == c + Depth
           k == d + 1
<1>3. d \in Nat /\ k \in Nat /\ c <= k /\ Depth <= d
  BY <1>2
<1>4. Level[k] = Holders(Level[d])
  <2> HIDE DEF d
  <2>1. QED BY <1>3, LevelIs
<1> HIDE DEF d, k
<1>5. Level[c] \subseteq Level[k] /\ Level[Depth] \subseteq Level[d]
  BY <1>2, <1>3, LevelGrows
<1>6. s \in Seq(Holders(Level[d]))
  <2>1. Seq(Level[c]) \subseteq Seq(Level[k])
    BY <1>5, SeqGrows
  <2>2. QED BY <1>1, <1>4, <2>1
<1>7. ASSUME NEW tv \in Values
      PROVE  /\ tv.type \in Types /\ ValueFits(tv.type, tv.val)
             /\ tv.val \in [n : Seq(Int), e : Seq(Level[d])]
  <2> DEFINE A == Seq(Level[Depth])
             B == Seq(Level[d])
  <2>1. A \subseteq B
    BY <1>5, SeqGrows
  <2>2. tv.val \in [n : Seq(Int), e : A] /\ tv.type \in Types /\ ValueFits(tv.type, tv.val)
    BY TypedDataAssumption DEF ValuesAssumption
  <2> HIDE DEF A, B
  <2>3. tv.val \in [n : Seq(Int), e : B]
    BY <2>1, <2>2
  <2>4. QED BY <2>2, <2>3 DEF B
<1>8. QED BY <1>3, <1>4, <1>6, <1>7 DEF k

\* An entry behind the others, under a key that was not found.
LEMMA AppendContents ==
  ASSUME NEW m, NEW n \in Nat, Contents(m, n), n + 1 <= MaxPuts, NEW d \in Nat,
         m.hd \in Seq(Level[d]), NEW ex \in Level[d], ex.key \in MapKeys, Find(m, ex.key) = 0,
         NEW z, NEW p, p = [keyType |-> StringT, hd |-> Append(m.hd, ex), size |-> z]
  PROVE  Contents(p, n + 1)
<1> DEFINE s == m.hd
           t == Append(s, ex)
           k == Len(s)
           l == Len(t)
<1>1. /\ IsMap(m) /\ m.keyType = StringT /\ Keyed(s) /\ Sorted(s) /\ IsList(s)
      /\ k \in Nat /\ k <= n
  BY LenProperties DEF Contents, IsMap, IsList
<1>2. /\ IsList(t) /\ l = k + 1 /\ \A i \in 1 .. k + 1 : t[i] = IF i <= k THEN s[i] ELSE ex
  BY <1>1, AppendList
<1>3. t \in Seq(Level[d])
  BY AppendProperties
<1>4. \A i \in 1 .. k : ~SameKey(StringT, ex.key, s[i].key)
  BY <1>1, FindFirst
<1>5. p.hd = t /\ p.keyType = StringT /\ p = [keyType |-> p.keyType, hd |-> p.hd, size |-> p.size]
  OBVIOUS
<1> HIDE DEF t, k, l
<1>6. Keyed(t)
  <2>1. \A i \in 1 .. k : s[i].key \in MapKeys
    BY <1>1 DEF Keyed, k
  <2>2. ASSUME NEW i \in 1 .. l PROVE t[i].key \in MapKeys
    <3>1. i \in 1 .. k + 1 /\ (i <= k => i \in 1 .. k)
      BY <1>1, <1>2
    <3>2. QED BY <1>2, <2>1, <3>1
  <2>3. QED BY <2>2 DEF Keyed, l
<1>7. Sorted(t)
  <2>1. \A i, j \in 1 .. k : i < j => ~SameKey(StringT, s[j].key, s[i].key)
    BY <1>1 DEF Sorted, k
  <2>2. ASSUME NEW i \in 1 .. l, NEW j \in 1 .. l, i < j
        PROVE  ~SameKey(StringT, t[j].key, t[i].key)
    <3>1. i \in 1 .. k /\ i <= k /\ i \in 1 .. k + 1 /\ j \in 1 .. k + 1 /\ (j <= k => j \in 1 .. k)
      BY <1>1, <1>2, <2>2
    <3>2. t[i] = s[i] /\ t[j] = IF j <= k THEN s[j] ELSE ex
      BY <1>2, <3>1
    <3>3. QED BY <1>4, <2>1, <2>2, <3>1, <3>2
  <2>3. QED BY <2>2 DEF Sorted, l
<1>8. l <= n + 1 /\ n + 1 \in 0 .. MaxPuts
  BY <1>1, <1>2, MapProgramAssumption
<1>9. QED BY <1>2, <1>3, <1>5, <1>6, <1>7, <1>8 DEF Contents, IsMap, l

\* The entry at i with another value.
LEMMA ReplaceContents ==
  ASSUME NEW m, NEW n \in Nat, Contents(m, n), n + 1 <= MaxPuts, NEW d \in Nat,
         m.hd \in Seq(Level[d]), NEW a \in 1 .. Len(m.hd), NEW ex \in Level[d], ex.key = m.hd[a].key,
         NEW z, NEW p, p = [keyType |-> StringT, hd |-> ReplaceAt(m.hd, a, ex), size |-> z]
  PROVE  Contents(p, n + 1)
<1> DEFINE s == m.hd
           t == ReplaceAt(s, a, ex)
           k == Len(s)
           l == Len(t)
<1>1. /\ IsMap(m) /\ m.keyType = StringT /\ Keyed(s) /\ Sorted(s) /\ IsList(s)
      /\ k \in Nat /\ k <= n
  BY LenProperties DEF Contents, IsMap, IsList
<1>2. /\ IsList(t) /\ l = k /\ \A i \in 1 .. k : t[i] = IF i = a THEN ex ELSE s[i]
  BY <1>1, ReplaceList
<1>3. \A i \in 1 .. k : t[i].key = s[i].key
  BY <1>2
<1>4. t \in Seq(Level[d])
  <2>1. \A i \in 1 .. k : s[i] \in Level[d]
    BY ElementOfSeq
  <2>2. \A i \in 1 .. l : t[i] \in Level[d]
    BY <1>2, <2>1
  <2> HIDE DEF t
  <2>3. QED BY <1>2, <2>2, ListFrom
<1>5. p.hd = t /\ p.keyType = StringT /\ p = [keyType |-> p.keyType, hd |-> p.hd, size |-> p.size]
  OBVIOUS
<1> HIDE DEF t
<1>6. Keyed(t) /\ Sorted(t)
  BY <1>1, <1>2, <1>3 DEF Keyed, Sorted
<1>7. l <= n + 1 /\ n + 1 \in 0 .. MaxPuts
  BY <1>1, <1>2, MapProgramAssumption
<1>8. QED BY <1>2, <1>4, <1>5, <1>6, <1>7 DEF Contents, IsMap
-----------------------------------------------------------------------------
\* The steps of the program keep the contents good.

\* PutNew and PutOld with names for what they depend on.
PutsNew(m, key, type, v, e) ==
  /\ Put(m, key, type, v) = [keyType |-> StringT, hd |-> Append(m.hd, e), size |-> m.size + 1]
  /\ e.key = key
PutsOld(m, key, type, v, a, e) ==
  /\ Put(m, key, type, v) = [keyType |-> StringT, hd |-> ReplaceAt(m.hd, a, e), size |-> m.size + 1]
  /\ e.key = m.hd[a].key

TypeSet(p, ex, type) == p = [ex EXCEPT !.type = type]

\* An entry that becomes one of another type.
LEMMA TypeSetIs ==
  ASSUME NEW ex, IsEntry(ex), NEW type, NEW p, TypeSet(p, ex, type)
  PROVE  p = [key |-> ex.key, type |-> type, val |-> ex.val, len |-> ex.len]
<1>1. ex = [key |-> ex.key, type |-> ex.type, val |-> ex.val, len |-> ex.len]
  BY DEF IsEntry
<1>2. p = [key |-> p.key, type |-> p.type, val |-> p.val, len |-> p.len]
  BY <1>1 DEF TypeSet
<1>3. p.key = ex.key /\ p.type = type /\ p.val = ex.val /\ p.len = ex.len
  BY <1>1 DEF TypeSet
<1>4. QED BY <1>2, <1>3

\* A key that is found gets the type and the value, in its place.
LEMMA PutReplaces ==
  ASSUME NEW m, IsMap(m), m.keyType = StringT, NEW key \in MapKeys, NEW type, NEW v,
         NEW n \in 1 .. Len(m.hd), Find(m, key) = n, NEW old, IsEntry(old),
         TypeSet(old, m.hd[n], type), old.key = m.hd[n].key
  PROVE  PutsOld(m, key, type, v, n, SetVal(old, v))
<1> DEFINE ex == SetVal(old, v)
<1>1. n # 0 /\ key # <<>>
  <2>1. Len(m.hd) \in Nat
    BY LenProperties DEF IsMap, IsList
  <2>2. QED BY <2>1, MapProgramAssumption
<1>2. ex.key = m.hd[n].key
  BY SetValHolds
<1>3. Put(m, key, type, v) = [m EXCEPT !.hd = PutEntry(m, ex, n), !.size = @ + 1]
  BY <1>1 DEF Put, TypeSet
<1> HIDE DEF ex
<1>4. PutEntry(m, ex, n) = ReplaceAt(m.hd, n, ex)
  BY <1>1 DEF PutEntry
<1> DEFINE p == [m EXCEPT !.hd = PutEntry(m, ex, n), !.size = @ + 1]
<1>5. p = [keyType |-> m.keyType, hd |-> PutEntry(m, ex, n), size |-> m.size + 1]
  BY MapWith
<1> HIDE DEF p
<1>6. Put(m, key, type, v) = p
  BY <1>3 DEF p
<1>7. QED BY <1>2, <1>4, <1>5, <1>6 DEF PutsOld, ex

\* Put adds an entry or replaces one, and either has what its type can hold.
LEMMA PutIs ==
  ASSUME NEW m, IsMap(m), m.keyType = StringT, NEW key \in MapKeys, NEW type \in Types, NEW S,
         m.hd \in Seq(Holders(S)), NEW v \in [n : Seq(Int), e : Seq(S)], ValueFits(type, v)
  PROVE  \/ Find(m, key) = 0 /\ \E e \in Holders(S) : PutsNew(m, key, type, v, e)
         \/ \E a \in 1 .. Len(m.hd), e \in Holders(S) : PutsOld(m, key, type, v, a, e)
<1> DEFINE f == Find(m, key)
<1>1. CASE f = 0
  <2> DEFINE new == NewEntry(key, type)
             e   == SetVal(new, v)
  <2>1. PutsNew(m, key, type, v, e)
    <3>1. \A w : LET x == SetVal(NewEntry(key, type), w)
                 IN /\ Put(m, key, type, w) =
                         [keyType |-> StringT, hd |-> Append(m.hd, x), size |-> m.size + 1]
                    /\ x.key = key
      BY <1>1, PutNew
    <3>2. QED BY <3>1 DEF PutsNew
  <2>2. Open(new, S) /\ new.type = type
    BY KeysAre, NewIsOpen, NewEntryHolds
  <2> HIDE DEF new
  <2>3. e \in Holders(S)
    BY <2>2, PutFits
  <2> HIDE DEF e
  <2>4. QED BY <1>1, <2>1, <2>3
<1>2. CASE f # 0
  <2>1. f \in 1 .. Len(m.hd)
    BY <1>2, FindFirst
  <2> DEFINE x == m.hd[f]
             old == [x EXCEPT !.type = type]
             e   == SetVal(old, v)
  <2>2. Open(x, S)
    BY <2>1, ElementOfSeq, HolderIsOpen
  <2>3. IsEntry(x)
    BY <2>2 DEF Open
  <2>4. Open(old, S) /\ old.type = type /\ old.key = x.key /\ TypeSet(old, x, type)
    <3> DEFINE A == [n : Seq(Int), e : Seq(S)]
    <3>1. /\ x = [key |-> x.key, type |-> x.type, val |-> x.val, len |-> x.len]
          /\ x.key \in Seq(Nat) /\ x.len \in Nat /\ x.val \in A
      BY <2>2 DEF Open, IsEntry
    <3>2. TypeSet(old, x, type)
      BY DEF TypeSet
    <3> HIDE DEF A, x, old
    <3>3. old = [key |-> x.key, type |-> type, val |-> x.val, len |-> x.len]
      BY <2>3, <3>2, TypeSetIs
    <3>4. QED BY <3>1, <3>2, <3>3 DEF Open, IsEntry, A
  <2> HIDE DEF old
  <2>5. PutsOld(m, key, type, v, f, e)
    <3> HIDE DEF f
    <3>1. f \in 1 .. Len(m.hd) /\ Find(m, key) = f
      BY <2>1 DEF f
    <3>2. IsEntry(old)
      BY <2>4 DEF Open
    <3>3. QED BY <2>4, <3>1, <3>2, PutReplaces
  <2>6. e \in Holders(S)
    BY <2>4, PutFits
  <2> HIDE DEF e
  <2>7. QED BY <2>1, <2>5, <2>6
<1>3. QED BY <1>1, <1>2

\* The contents of the map stay good when the program puts a value,
LEMMA PutStays ==
  ASSUME Contents(map, puts), PutValue
  PROVE  Contents(map', puts')
<1>1. PICK k \in MapKeys, tv \in Values :
        puts < MaxPuts /\ map' = Put(map, k, tv.type, tv.val) /\ puts' = puts + 1
  BY DEF PutValue
<1>2. PICK d \in Nat :
        /\ map.hd \in Seq(Holders(Level[d]))
        /\ \A x \in Values : /\ x.type \in Types /\ ValueFits(x.type, x.val)
                             /\ x.val \in [n : Seq(Int), e : Seq(Level[d])]
        /\ Level[d + 1] = Holders(Level[d])
  BY OneLevel DEF Contents
<1> DEFINE S == Level[d]
           c == d + 1
           ty == tv.type
           v == tv.val
<1>3. /\ c \in Nat /\ Level[c] = Holders(S) /\ map.hd \in Seq(Holders(S))
      /\ ty \in Types /\ ValueFits(ty, v) /\ v \in [n : Seq(Int), e : Seq(S)]
      /\ map' = Put(map, k, ty, v)
  BY <1>1, <1>2
<1> HIDE DEF S, c, ty, v
<1>4. IsMap(map) /\ map.keyType = StringT /\ puts \in Nat /\ puts + 1 <= MaxPuts
  BY <1>1, MapProgramAssumption DEF Contents
<1>5. CASE \E e \in Holders(S) : Find(map, k) = 0 /\ PutsNew(map, k, ty, v, e)
  <2>1. PICK e \in Holders(S) : Find(map, k) = 0 /\ PutsNew(map, k, ty, v, e)
    BY <1>5
  <2> DEFINE z == map.size + 1
  <2>2. map' = [keyType |-> StringT, hd |-> Append(map.hd, e), size |-> z] /\ e.key = k
    BY <1>3, <2>1 DEF PutsNew
  <2> HIDE DEF z
  <2>3. Contents(map', puts + 1)
    BY <1>3, <1>4, <2>1, <2>2, AppendContents
  <2>4. QED BY <1>1, <2>3
<1>6. CASE \E a \in 1 .. Len(map.hd), e \in Holders(S) : PutsOld(map, k, ty, v, a, e)
  <2>1. PICK a \in 1 .. Len(map.hd), e \in Holders(S) : PutsOld(map, k, ty, v, a, e)
    BY <1>6
  <2> DEFINE z == map.size + 1
  <2>2. map' = [keyType |-> StringT, hd |-> ReplaceAt(map.hd, a, e), size |-> z]
        /\ e.key = map.hd[a].key
    BY <1>3, <2>1 DEF PutsOld
  <2> HIDE DEF z
  <2>3. Contents(map', puts + 1)
    BY <1>3, <1>4, <2>1, <2>2, ReplaceContents
  <2>4. QED BY <1>1, <2>3
<1>7. QED BY <1>3, <1>4, <1>5, <1>6, PutIs

\* removes one,
LEMMA RemoveStays ==
  ASSUME Contents(map, puts), RemoveEntry
  PROVE  Contents(map', puts')
<1>1. PICK k \in MapKeys : map' = RemoveKey(map, k) /\ puts' = puts
  BY DEF RemoveEntry
<1> DEFINE s == map.hd
           n == Len(s)
           a == Find(map, k)
           t == RemoveAt(s, a)
<1>2. /\ IsMap(map) /\ map.keyType = StringT /\ Keyed(s) /\ Sorted(s) /\ IsList(s)
      /\ n \in Nat /\ n <= puts /\ puts \in 0 .. MaxPuts /\ puts \in Nat
  BY LenProperties, MapProgramAssumption DEF Contents, IsMap, IsList
<1>3. PICK d \in Nat : s \in Seq(Level[d])
  BY DEF Contents
<1>4. CASE a = 0
  BY <1>1, <1>4 DEF RemoveKey
<1>5. CASE a # 0
  <2>1. a \in 1 .. n
    BY <1>2, <1>5, FindFirst
  <2>2. /\ IsList(t) /\ Len(t) = n - 1
        /\ \A i \in 1 .. n - 1 : t[i] = IF i < a THEN s[i] ELSE s[i + 1]
    BY <1>2, <2>1, RemoveAtList
  <2>3. map' = [keyType |-> StringT, hd |-> t, size |-> map.size - 1]
    <3> DEFINE z == map.size - 1
               p == [map EXCEPT !.hd = t, !.size = z]
    <3>1. map' = p
      BY <1>1, <1>5 DEF RemoveKey
    <3>2. p = [keyType |-> map.keyType, hd |-> t, size |-> z]
      <4> HIDE DEF t, z
      <4>1. QED BY <1>2, MapWith
    <3> HIDE DEF p
    <3>3. QED BY <1>2, <3>1, <3>2
  <2>4. /\ map'.hd = t /\ map'.keyType = StringT
        /\ map' = [keyType |-> map'.keyType, hd |-> map'.hd, size |-> map'.size]
    BY <2>3
  <2> DEFINE At(i) == IF i < a THEN i ELSE i + 1
  <2>5. \A i \in 1 .. n - 1 : At(i) \in 1 .. n /\ t[i] = s[At(i)]
    BY <1>2, <2>1, <2>2
  <2>6. \A i, j \in 1 .. n - 1 : i < j => At(i) < At(j)
    BY <1>2, <2>1
  <2> HIDE DEF At, t
  <2>7. Keyed(t)
    BY <1>2, <2>2, <2>5 DEF Keyed
  <2>8. Sorted(t)
    BY <1>2, <2>2, <2>5, <2>6 DEF Sorted
  <2>9. t \in Seq(Level[d])
    <3>1. \A i \in 1 .. n : s[i] \in Level[d]
      BY <1>3, ElementOfSeq
    <3>2. \A i \in 1 .. Len(t) : t[i] \in Level[d]
      BY <2>2, <2>5, <3>1
    <3>3. QED BY <2>2, <3>2, ListFrom
  <2>10. n - 1 <= puts
    BY <1>2
  <2>11. QED BY <1>1, <1>2, <2>2, <2>4, <2>7, <2>8, <2>9, <2>10 DEF Contents, IsMap
<1>6. QED BY <1>4, <1>5

\* or copies them into another map (jm_emap_putAll).
LEMMA CopyStays ==
  ASSUME Contents(map, puts), CopyAll
  PROVE  Contents(map', puts')
<1> DEFINE s == map.hd
           n == Len(s)
           t == [j \in 1 .. n |-> Copied(s, j)]
<1>1. /\ IsMap(map) /\ map.keyType = StringT /\ Keyed(s) /\ Sorted(s) /\ IsList(s)
      /\ n \in Nat /\ n <= puts /\ puts \in 0 .. MaxPuts
  BY LenProperties DEF Contents, IsMap, IsList
<1>2. map' = [keyType |-> StringT, hd |-> t, size |-> n] /\ puts' = puts
  BY <1>1, CopyIs DEF CopyAll
<1>3. IsList(t) /\ Len(t) = n /\ \A j \in 1 .. n : t[j] = Copied(s, j)
  BY <1>1, CopiedList
<1>4. PICK d \in Nat : s \in Seq(Holders(Level[d])) /\ Level[d + 1] = Holders(Level[d])
  BY OneLevel DEF Contents
<1> DEFINE S == Level[d]
           c == d + 1
<1>5. c \in Nat /\ s \in Seq(Holders(S)) /\ Level[c] = Holders(S)
  BY <1>4
<1> HIDE DEF S, c, t
<1>6. ASSUME NEW j \in 1 .. n PROVE t[j] \in Holders(S) /\ t[j].key = s[j].key
  <2> DEFINE x == s[j]
             new == NewEntry(x.key, x.type)
  <2>1. x \in Holders(S)
    BY <1>5, ElementOfSeq
  <2>2. Open(x, S) /\ ValueFits(x.type, x.val)
    BY <2>1, HolderIsOpen
  <2>3. x.key \in Seq(Nat) /\ x.type \in Types /\ x.val \in [n : Seq(Int), e : Seq(S)]
    BY <2>2 DEF Open
  <2>4. Open(new, S) /\ new.type = x.type /\ new.key = x.key /\ IsEntry(new)
    BY <2>3, NewIsOpen, NewEntryHolds
  <2>5. t[j] = SetVal(new, x.val)
    BY <1>3 DEF Copied
  <2> HIDE DEF new, x
  <2>6. SetVal(new, x.val) \in Holders(S)
    BY <2>2, <2>3, <2>4, PutFits
  <2>7. SetVal(new, x.val).key = x.key
    BY <2>4, SetValHolds
  <2>8. QED BY <2>5, <2>6, <2>7 DEF x
<1>7. /\ map'.hd = t /\ map'.keyType = StringT
      /\ map' = [keyType |-> map'.keyType, hd |-> map'.hd, size |-> map'.size]
  BY <1>2
<1>8. Keyed(t) /\ Sorted(t)
  BY <1>1, <1>3, <1>6 DEF Keyed, Sorted
<1>9. t \in Seq(Level[c])
  BY <1>3, <1>5, <1>6, ListFrom
<1>10. QED BY <1>1, <1>2, <1>3, <1>5, <1>7, <1>8, <1>9 DEF Contents, IsMap
-----------------------------------------------------------------------------
\* Maps that are put into others.

\* An empty map is good, whatever number of values may be put.
LEMMA EmptyContents ==
  ASSUME NEW n \in 0 .. MaxPuts
  PROVE  Contents(EmptyMap(StringT), n)
<1> DEFINE m == EmptyMap(StringT)
<1>1. IsMap(m) /\ m.keyType = StringT /\ m.hd = <<>> /\ Len(m.hd) = 0
  BY NewMap
<1>2. m.hd \in Seq(Level[0]) /\ 0 \in Nat
  BY <1>1
<1>3. Keyed(m.hd) /\ Sorted(m.hd)
  BY <1>1 DEF Keyed, Sorted
<1> HIDE DEF m
<1>4. Len(m.hd) <= n
  BY <1>1, MapProgramAssumption
<1>5. Contents(m, n)
  BY <1>1, <1>2, <1>3, <1>4 DEF Contents
<1>6. QED BY <1>5 DEF m

\* Maps and lists are different types.
LEMMA NestedTypes ==
  /\ MapT \in Types /\ ListT \in Types /\ MapT # ListT
  /\ MapT \in Maps /\ ListT \in Colls /\ MapT \notin Colls /\ ListT \notin Maps
  /\ {MapT, ListT} \cap (DOMAIN Width \cup {StringT, BytesT}) = {} /\ StringT \in Int
<1>1. /\ MapT \in Maps /\ ListT \in Colls /\ MapT # ListT /\ StringT \in Int
  BY DEF Maps, Colls, MapT, ListT, StringT, Prefix
<1>2. QED BY <1>1, TypesTell DEF Types

\* A list of the values of the entries.
LEMMA ListFits ==
  ASSUME NEW S, NEW s \in Seq(Holders(S)), InUnsigned(Len(s), 2), NEW v,
         v = [n |-> <<>>, e |-> Values1(s, Len(s))]
  PROVE  ValueFits(ListT, v) /\ v \in [n : Seq(Int), e : Seq(Holders(S))]
<1> DEFINE n == Len(s)
           t == Values1(s, n)
           E(j) == SetVal(NewEntry(<<>>, s[j].type), s[j].val)
<1>1. n \in Nat
  BY LenProperties
<1>2. ASSUME NEW j \in 1 .. n PROVE E(j) \in Holders(S) /\ E(j).key = <<>>
  <2> DEFINE x == s[j]
             new == NewEntry(<<>>, x.type)
  <2>1. x \in Holders(S)
    BY ElementOfSeq
  <2>2. Open(x, S) /\ ValueFits(x.type, x.val)
    BY <2>1, HolderIsOpen
  <2>3. <<>> \in Seq(Nat) /\ x.type \in Types /\ x.val \in [n : Seq(Int), e : Seq(S)]
    BY <2>2 DEF Open
  <2>4. Open(new, S) /\ new.type = x.type /\ new.key = <<>> /\ IsEntry(new)
    BY <2>3, NewIsOpen, NewEntryHolds
  <2>5. E(j) = SetVal(new, x.val)
    OBVIOUS
  <2> HIDE DEF new, x, E
  <2>6. SetVal(new, x.val) \in Holders(S)
    BY <2>2, <2>3, <2>4, PutFits
  <2>7. SetVal(new, x.val).key = <<>>
    BY <2>4, SetValHolds
  <2>8. QED BY <2>5, <2>6, <2>7
<1>3. /\ t \in Seq(Holders(S)) /\ Len(t) = n /\ DOMAIN t = 1 .. n
      /\ \A j \in 1 .. n : t[j].key = <<>>
  <2>1. t = [j \in 1 .. n |-> E(j)]
    BY DEF Values1
  <2> HIDE DEF t, E
  <2>2. t \in [1 .. n -> Holders(S)]
    BY <1>2, <2>1
  <2>3. t \in Seq(Holders(S)) /\ Len(t) = n
    BY <1>1, <2>2
  <2>4. QED BY <1>2, <2>1, <2>3
<1> HIDE DEF t
<1>4. v.n = <<>> /\ v.e = t
  BY DEF t
<1>5. v \in [n : Seq(Int), e : Seq(Holders(S))]
  <2> DEFINE A == Seq(Holders(S))
  <2>1. <<>> \in Seq(Int) /\ t \in A /\ v = [n |-> <<>>, e |-> t]
    BY <1>3 DEF t
  <2> HIDE DEF A
  <2>2. v \in [n : Seq(Int), e : A]
    BY <2>1
  <2>3. QED BY <2>2 DEF A
<1>6. ValueFits(ListT, v)
  BY <1>3, <1>4, NestedTypes DEF ValueFits
<1>7. QED BY <1>5, <1>6

\* The map or list that is put into another one has good contents itself.
LEMMA NestedFits ==
  ASSUME NEW n, Contents(map, n), NEW S, map.hd \in Seq(Holders(S)), NEW type \in {MapT, ListT}
  PROVE  ValueFits(type, Nested(type)) /\ Nested(type) \in [n : Seq(Int), e : Seq(Holders(S))]
<1> DEFINE s == map.hd
           A == Seq(Holders(S))
<1>1. /\ Len(s) \in Nat /\ InUnsigned(Len(s), 1) /\ InUnsigned(Len(s), 2)
      /\ OwnKeys(s) /\ KeysFit(s) /\ map.keyType = StringT
  BY ContentsSend DEF Contents
<1>2. CASE type = MapT
  <2> DEFINE v == MapVal(map)
  <2>1. Nested(type) = v
    BY <1>2 DEF Nested
  <2>2. v = [n |-> <<StringT>>, e |-> s]
    BY <1>1 DEF MapVal
  <2>3. <<StringT>> \in Seq(Int) /\ s \in A
    BY NestedTypes
  <2> HIDE DEF A, v, s
  <2>4. v \in [n : Seq(Int), e : A]
    BY <2>2, <2>3
  <2>5. v.n = <<StringT>> /\ v.e = s
    BY <2>2
  <2>6. ValueFits(MapT, v)
    BY <1>1, <2>5, NestedTypes DEF ValueFits
  <2>7. QED BY <1>2, <2>1, <2>4, <2>6 DEF A
<1>3. CASE type = ListT
  <2> DEFINE n1 == Len(s)
             list == LET l[i \in 0 .. n1] ==
                           IF i = 0 THEN EmptyList ELSE Add(l[i - 1], s[i].type, s[i].val)
                     IN l[n1]
  <2>1. Nested(type) = ListVal(list)
    BY <1>3, NestedTypes DEF Nested
  <2>2. list.hd = Values1(s, n1)
    BY <1>1, ListOfValues
  <2> HIDE DEF list
  <2>3. Nested(type) = [n |-> <<>>, e |-> Values1(s, n1)]
    BY <2>1, <2>2 DEF ListVal
  <2>4. ValueFits(ListT, Nested(type)) /\ Nested(type) \in [n : Seq(Int), e : Seq(Holders(S))]
    <3> DEFINE v == Nested(type)
    <3>1. v = [n |-> <<>>, e |-> Values1(s, Len(s))]
      BY <2>3
    <3> HIDE DEF v, s
    <3>2. s \in Seq(Holders(S))
      BY DEF s
    <3>3. ValueFits(ListT, v) /\ v \in [n : Seq(Int), e : Seq(Holders(S))]
      BY <1>1, <3>1, <3>2, ListFits
    <3>4. QED BY <3>3 DEF v
  <2>5. QED BY <1>3, <2>4
<1>4. QED BY <1>2, <1>3

\* The contents of the map stay good when it is put into a new one,
LEMMA NestStays ==
  ASSUME Contents(map, puts), Nest
  PROVE  Contents(map', puts')
<1>1. PICK k \in MapKeys, type \in {MapT, ListT} :
        map.hd # <<>> /\ map' = Put(EmptyMap(StringT), k, type, Nested(type)) /\ puts' = puts
  BY DEF Nest
<1>2. PICK d \in Nat : map.hd \in Seq(Holders(Level[d])) /\ Level[d + 1] = Holders(Level[d])
  BY OneLevel DEF Contents
<1> DEFINE S == Level[d]
           T == Holders(S)
           c == d + 1
           b == c + 1
           v == Nested(type)
           m == EmptyMap(StringT)
           n == puts - 1
<1>3. c \in Nat /\ b \in Nat /\ Level[c] = T /\ Level[b] = Holders(T) /\ map.hd \in Seq(T)
  <2>1. c \in Nat /\ b \in Nat /\ Level[c] = T /\ map.hd \in Seq(T)
    BY <1>2
  <2> HIDE DEF c, T
  <2>2. Level[b] = Holders(T)
    BY <2>1, LevelIs
  <2>3. QED BY <2>1, <2>2
<1>4. n \in Nat /\ n + 1 = puts /\ n \in 0 .. MaxPuts /\ n + 1 <= MaxPuts
  <2>1. Len(map.hd) \in Nat /\ Len(map.hd) # 0
    BY <1>1, <1>2, LenProperties, EmptySeq
  <2>2. puts \in 0 .. MaxPuts /\ Len(map.hd) <= puts /\ MaxPuts \in Nat
    BY MapProgramAssumption DEF Contents
  <2>3. QED BY <2>1, <2>2
<1>5. ValueFits(type, v) /\ v \in [n : Seq(Int), e : Seq(T)]
  BY <1>2, NestedFits
<1>6. type \in Types
  BY NestedTypes
<1>7. Contents(m, n) /\ IsMap(m) /\ m.keyType = StringT /\ m.hd = <<>> /\ Len(m.hd) = 0
  BY <1>4, EmptyContents, NewMap
<1> HIDE DEF S, T, c, b, v, m, n
<1>8. Find(m, k) = 0
  BY <1>7, FindFirst
<1>9. m.hd \in Seq(Holders(T)) /\ m.hd \in Seq(Level[b])
  BY <1>7
<1>10. PICK e \in Holders(T) : PutsNew(m, k, type, v, e)
  <2>1. \A a \in 1 .. Len(m.hd) : FALSE
    BY <1>7
  <2>2. QED BY <1>5, <1>6, <1>7, <1>9, <2>1, PutIs
<1> DEFINE z == m.size + 1
<1>11. map' = [keyType |-> StringT, hd |-> Append(m.hd, e), size |-> z] /\ e.key = k
  BY <1>1, <1>10 DEF PutsNew, m, v
<1> HIDE DEF z
<1>12. Contents(map', n + 1)
  BY <1>3, <1>4, <1>7, <1>8, <1>9, <1>11, AppendContents
<1>13. QED BY <1>1, <1>4, <1>12

\* or built on in any of these ways,
LEMMA BuildStays ==
  ASSUME Contents(map, puts), Build
  PROVE  Contents(map', puts')
BY PutStays, RemoveStays, CopyStays, NestStays DEF Build

\* or released.
LEMMA ReleaseStays ==
  ASSUME Release
  PROVE  Contents(map', puts')
BY EmptyContents, MapProgramAssumption DEF Release
-----------------------------------------------------------------------------
\* The program sends its map with a message.

\* The map has entries that can be sent, and so it has in every state.
MapContents == Contents(map, puts)

\* The contents of the map are always good: at first and after every step.
LEMMA InitContents == Init => MapContents
BY EmptyContents, MapProgramAssumption DEF Init, MapInit, MapContents

LEMMA NextContents ==
  ASSUME MapContents, [Next]_vars
  PROVE  MapContents'
<1>1. CASE BuildMap
  BY <1>1, BuildStays DEF BuildMap, MapContents
<1>2. CASE Deliver
  BY <1>2 DEF Deliver, mapVars, MapContents
<1>3. CASE ReleaseMap
  BY <1>3, ReleaseStays DEF ReleaseMap, MapContents
<1>4. CASE AddressItem
  BY <1>4 DEF AddressItem, mapVars, MapContents
<1>5. CASE UNCHANGED vars
  BY <1>5 DEF vars, mapVars, MapContents
<1>6. QED BY <1>1, <1>2, <1>3, <1>4, <1>5 DEF Next

\* What is received stays what it was, of the map that it was received of,
\* until the next map is begun.
LEMMA ReceivedStays ==
  ASSUME [Next]_vars
  PROVE  \/ got' = got /\ map' = map
         \/ got' = got /\ got = Nothing
         \/ got' = Nothing
         \/ Deliver /\ map' = map
<1>1. CASE BuildMap
  BY <1>1 DEF BuildMap
<1>2. CASE Deliver
  BY <1>2 DEF Deliver, mapVars
<1>3. CASE ReleaseMap
  BY <1>3 DEF ReleaseMap
<1>4. CASE AddressItem
  BY <1>4 DEF AddressItem, mapVars
<1>5. CASE UNCHANGED vars
  BY <1>5 DEF vars, mapVars
<1>6. QED BY <1>1, <1>2, <1>3, <1>4, <1>5 DEF Next

\* The three ways of sending tell what they are.
LEMMA OpsTell ==
  /\ SendExtra  => got'.op = "extra"
  /\ SendParams => got'.op = "params"
  /\ Publish    => got'.op = "item"
  /\ Nothing.op = "none"
<1>1. SendExtra => got'.op = "extra"
  <2> SUFFICES ASSUME SendExtra PROVE got'.op = "extra"
    OBVIOUS
  <2> DEFINE ok == EncodeExtra(map.hd, StringT).ok
             r  == DecodeExtra(EncodeExtra(map.hd, StringT).bytes \o Payload)
  <2>1. got' = [op |-> "extra", ok |-> ok, r |-> r]
    BY DEF SendExtra
  <2> HIDE DEF ok, r
  <2>2. QED BY <2>1
<1>2. SendParams => got'.op = "params"
  <2> SUFFICES ASSUME SendParams PROVE got'.op = "params"
    OBVIOUS
  <2>1. PICK type \in {ListT, MapT} :
          LET out == EncodeParam([NewEntry(<<>>, type) EXCEPT !.val.e = map.hd], type) IN
          got' = [op |-> "params", ok |-> out.ok, type |-> type,
                  r |-> Bind(GetInt(out.bytes, 1), LAMBDA t, rest : DecodeParam(t, rest))]
    BY DEF SendParams
  <2> DEFINE out == EncodeParam([NewEntry(<<>>, type) EXCEPT !.val.e = map.hd], type)
             ok  == out.ok
             r   == Bind(GetInt(out.bytes, 1), LAMBDA t, rest : DecodeParam(t, rest))
  <2>2. got' = [op |-> "params", ok |-> ok, type |-> type, r |-> r]
    BY <2>1
  <2> HIDE DEF ok, r
  <2>3. QED BY <2>2
<1>3. Publish => got'.op = "item"
  <2> SUFFICES ASSUME Publish PROVE got'.op = "item"
    OBVIOUS
  <2>1. \E it, r : got' = [op |-> "item", item |-> it, r |-> r]
    BY DEF Publish
  <2>2. QED BY <2>1
<1>4. QED BY <1>1, <1>2, <1>3 DEF Nothing

\* The message that is sent arrives, and stays so until another one is sent.
LEMMA ExtraSent ==
  ASSUME OneLayout, MapContents, SendExtra, map' = map
  PROVE  ExtraArrives'
<1> DEFINE hd  == map.hd
           out == EncodeExtra(hd, StringT)
           res == DecodeExtra(out.bytes \o Payload)
<1>1. PICK d \in Nat : hd \in Seq(Level[d])
  BY DEF MapContents, Contents
<1>2. InUnsigned(Len(hd), 1) /\ KeysFit(hd)
  BY ContentsSend DEF MapContents
<1>3. MapsArrive(hd)
  BY <1>1, <1>2, LevelsArrive
<1>4. out = EncodeEntries(hd, StringT) /\ \A r : Arrived("extra", hd, r) = ArrivedHere("extra", hd, r)
  BY <1>1 DEF OneLayout
<1>5. \A b : Out(b).ok = TRUE /\ Out(b).bytes = b
  BY DEF Out
<1>6. Refused.ok = FALSE
  BY DEF Refused
<1>7. got' = [op |-> "extra", ok |-> out.ok, r |-> res]
  BY DEF SendExtra
<1>8. got'.op = "extra" /\ got'.ok = out.ok /\ got'.r = res
  BY <1>7
<1> HIDE DEF out, res
<1>9. ~out.ok => hd = <<>> \/ EmptyMapIn(hd)
  BY <1>3, <1>4, <1>5 DEF MapsArrive, MapArrives
<1>10. ASSUME out.ok
       PROVE  res.st = "ok" /\ res.buf = Payload /\ Arrived("extra", hd, res.v.e)
  <2>1. MapArrives(hd)
    BY <1>3, <1>4, <1>6, <1>10 DEF MapsArrive
  <2>2. PICK bs, v, U :
          /\ bs \in Seq(Int) /\ EncodeEntries(hd, StringT) = Out(bs)
          /\ v.e \in Seq(U) /\ ArrivedHere("extra", hd, v.e)
          /\ \A behind \in Seq(Int) : DecodeEntries(bs \o behind) = Ok(v, behind)
    BY <2>1 DEF MapArrives
  <2>3. out.bytes = bs
    BY <1>4, <1>5, <2>2
  <2>4. Payload \in Seq(Int)
    BY TypedDataAssumption
  <2>5. bs \o Payload \in Seq(Int)
    BY <2>2, <2>4, ConcatProperties
  <2>6. DecodeExtra(bs \o Payload) = DecodeEntries(bs \o Payload)
    BY <2>5 DEF OneLayout
  <2>7. res = Ok(v, Payload)
    BY <2>2, <2>3, <2>4, <2>6 DEF res
  <2>8. res.st = "ok" /\ res.v = v /\ res.buf = Payload
    BY <2>7, OkFields
  <2>9. QED BY <1>4, <2>2, <2>8
<1>11. hd' = hd
  OBVIOUS
<1>12. EmptyMapIn(map.hd)' = EmptyMapIn(hd)
  BY DEF EmptyMapIn
<1>13. Arrived("extra", map.hd, got.r.v.e)' = Arrived("extra", hd, res.v.e)
  BY <1>8
<1>14. QED BY <1>8, <1>9, <1>10, <1>11, <1>12, <1>13 DEF ExtraArrives

LEMMA NextExtra ==
  ASSUME OneLayout, MapContents, ExtraArrives, [Next]_vars
  PROVE  ExtraArrives'
<1>1. CASE got' = got /\ map' = map
  <2>1. EmptyMapIn(map.hd)' = EmptyMapIn(map.hd)
    BY <1>1 DEF EmptyMapIn
  <2>2. Arrived("extra", map.hd, got.r.v.e)' = Arrived("extra", map.hd, got.r.v.e)
    BY <1>1
  <2>3. QED BY <1>1, <2>1, <2>2 DEF ExtraArrives
<1>2. CASE got' = Nothing
  BY <1>2, OpsTell DEF ExtraArrives
<1>3. CASE Deliver /\ map' = map
  <2>1. CASE SendExtra
    BY <1>3, <2>1, ExtraSent
  <2>2. CASE SendParams \/ Publish
    <3>1. got'.op # "extra"
      BY <2>2, OpsTell
    <3>2. QED BY <3>1 DEF ExtraArrives
  <2>3. QED BY <1>3, <2>1, <2>2 DEF Deliver
<1>4. QED BY <1>1, <1>2, <1>3, ReceivedStays

(* Whatever the program has put into its map, removed, copied and nested,  *)
(* the map arrives with the message that it is sent with, and the payload  *)
(* behind it (jm_extra_encode, jm_extra_decode).                           *)
THEOREM ExtrasArrive ==
  ASSUME OneLayout
  PROVE  Spec => []ExtraArrives
<1>1. Init => MapContents /\ ExtraArrives
  BY InitContents, OpsTell DEF Init, ExtraArrives
<1>2. MapContents /\ ExtraArrives /\ [Next]_vars => (MapContents /\ ExtraArrives)'
  BY NextContents, NextExtra
<1>3. QED BY <1>1, <1>2, PTL DEF Spec
-----------------------------------------------------------------------------
\* The program sends its map as parameters of a request.

KeySet(p, ex) == p = [ex EXCEPT !.key = <<>>]

\* Without its key an entry holds the same.
LEMMA KeyGone ==
  ASSUME NEW S, NEW ex \in Holders(S), NEW p, KeySet(p, ex)
  PROVE  p \in Holders(S)
<1> DEFINE A == [n : Seq(Int), e : Seq(S)]
           B == Seq(Nat)
<1> HIDE DEF A, B
<1>1. ex \in [key : B, type : Types, val : A, len : Nat] /\ Fits(ex) /\ <<>> \in B
  BY DEF Holders, A, B
<1>2. p \in [key : B, type : Types, val : A, len : Nat]
  BY <1>1 DEF KeySet
<1>3. p.type = ex.type /\ p.val = ex.val /\ p.len = ex.len
  BY <1>1 DEF KeySet
<1>4. Fits(p)
  BY <1>1, <1>3 DEF Fits
<1>5. QED BY <1>2, <1>4 DEF Holders, A, B

LEMMA KeysGone ==
  ASSUME NEW S, NEW s \in Seq(Holders(S)), NEW keyed \in BOOLEAN
  PROVE  Keys(keyed, s) \in Seq(Holders(S))
<1>1. CASE keyed
  BY <1>1 DEF Keys
<1>2. CASE ~keyed
  <2> DEFINE n == Len(s)
             E(i) == [s[i] EXCEPT !.key = <<>>]
             t == [i \in 1 .. n |-> E(i)]
  <2>1. DOMAIN s = 1 .. n /\ n \in Nat
    BY LenProperties
  <2>2. Keys(keyed, s) = t
    BY <1>2, <2>1 DEF Keys
  <2>3. ASSUME NEW i \in 1 .. n PROVE E(i) \in Holders(S)
    <3>1. s[i] \in Holders(S) /\ KeySet(E(i), s[i])
      BY ElementOfSeq DEF KeySet
    <3> HIDE DEF E
    <3>2. QED BY <3>1, KeyGone
  <2> HIDE DEF E
  <2>4. t \in [1 .. n -> Holders(S)]
    BY <2>3
  <2> HIDE DEF t
  <2>5. QED BY <2>1, <2>2, <2>4
<1>3. QED BY <1>1, <1>2

\* The value that is encoded, which holds the entries of the map.
MapEntry(p, type, hd) == p = [NewEntry(<<>>, type) EXCEPT !.val.e = hd]

LEMMA MapEntryIs ==
  ASSUME NEW type, NEW hd, NEW p, MapEntry(p, type, hd)
  PROVE  p.type = type /\ p.val.e = hd /\ p.val.n = <<0>> /\ p.len = 0
BY DEF MapEntry, NewEntry, Num

\* What a reader makes of the bytes of a list or a map.
LEMMA CollectionRead ==
  ASSUME NEW buf, NEW v, NEW behind
  PROVE  /\ GetAll(TRUE, buf) = Ok(v, behind) => DecodeValue(MapT, buf) = Ok(v, behind)
         /\ GetAll(FALSE, buf) = Ok(v, behind) => DecodeValue(ListT, buf) = Ok(v, behind)
<1>1. MapT \in Types /\ MapT \in Maps /\ ListT \in Types /\ ListT \in Colls
  BY NestedTypes
<1>2. DecodeValue(MapT, buf) = GetAll(TRUE, buf)
  BY <1>1, DecodeValueIs
<1>3. DecodeValue(ListT, buf) = Released(GetAll(FALSE, buf))
  BY <1>1, DecodeValueIs
<1>4. Released(Ok(v, behind)) = Ok(v, behind)
  BY OkFields DEF Released
<1>5. QED BY <1>2, <1>3, <1>4

\* The bytes of a list or a map that is written.
LEMMA CollectionWritten ==
  ASSUME OneLayout, NEW d \in Nat, NEW hd \in Seq(Level[d]), hd # <<>>,
         NEW type \in {ListT, MapT}, NEW ex, ex.type = type, ex.val.e = hd
  PROVE  EncodeParam(ex, type) = Cat(Out(PutInt(type, 1)), EncodeAll(hd, type = MapT))
<1>1. EncodeParam(ex, type) = EncodeValue(ex, type)
  BY DEF OneLayout
<1>2. type \in Types /\ (type = MapT => type \in Maps) /\ (type # MapT => type \in Colls)
  BY NestedTypes
<1>3. type # NullT /\ type \notin {StringT, BytesT}
  BY NestedTypes, TypesTell
<1>4. ~NoValue(ex) /\ ~ReadsNull(ex)
  BY <1>3 DEF NoValue, ReadsNull
<1>5. CASE type = MapT
  <2>1. EncodeValue(ex, type) = Cat(Out(PutInt(type, 1)), EncodeAll(hd, TRUE))
    BY <1>2, <1>4, <1>5, EncodeValueIs
  <2>2. QED BY <1>1, <1>5, <2>1
<1>6. CASE type # MapT
  <2>1. EncodeValue(ex, type) = Cat(Out(PutInt(type, 1)), EncodeAll(hd, FALSE))
    BY <1>2, <1>4, <1>6, EncodeValueIs
  <2>2. (type = MapT) = FALSE
    BY <1>6
  <2>3. QED BY <1>1, <2>1, <2>2
<1>7. QED BY <1>5, <1>6
-----------------------------------------------------------------------------
LEMMA ContentsGo ==
  ASSUME OneLayout, MapContents, NEW keyed \in BOOLEAN
  PROVE  AllArrive(map.hd, keyed)
<1>1. PICK d \in Nat : map.hd \in Seq(Level[d])
  BY DEF MapContents, Contents
<1>2. InUnsigned(Len(map.hd), 2) /\ OwnKeys(map.hd) /\ KeysFit(map.hd)
  BY ContentsSend DEF MapContents
<1>3. ParamsGo(map.hd)
  BY <1>1, <1>2, ParamLevels
<1>4. AllArrive(map.hd, FALSE) /\ AllArrive(map.hd, TRUE)
  BY <1>2, <1>3 DEF ParamsGo
<1>5. QED BY <1>4

LEMMA ParamsSent ==
  ASSUME OneLayout, MapContents, SendParams, map.hd # <<>>, map' = map
  PROVE  ParamsArrive'
<1>1. PICK type \in {ListT, MapT} :
        LET out == EncodeParam([NewEntry(<<>>, type) EXCEPT !.val.e = map.hd], type) IN
        got' = [op |-> "params", ok |-> out.ok, type |-> type,
                r |-> Bind(GetInt(out.bytes, 1), LAMBDA t, rest : DecodeParam(t, rest))]
  BY DEF SendParams
<1> DEFINE hd    == map.hd
           keyed == (type = MapT)
           keys  == Keys(keyed, hd)
           ex    == [NewEntry(<<>>, type) EXCEPT !.val.e = hd]
           out   == EncodeParam(ex, type)
           res   == Bind(GetInt(out.bytes, 1), LAMBDA t, rest : DecodeParam(t, rest))
<1>2. got' = [op |-> "params", ok |-> out.ok, type |-> type, r |-> res]
  BY <1>1
<1>3. PICK d \in Nat : hd \in Seq(Holders(Level[d])) /\ Level[d + 1] = Holders(Level[d])
  BY OneLevel DEF MapContents, Contents
<1>4. ex.type = type /\ ex.val.e = hd
  <2>1. MapEntry(ex, type, hd)
    BY DEF MapEntry
  <2> HIDE DEF ex
  <2>2. QED BY <2>1, MapEntryIs
<1>5. out = Cat(Out(PutInt(type, 1)), EncodeAll(hd, keyed))
  <2> DEFINE c == d + 1
  <2>1. c \in Nat /\ hd \in Seq(Level[c])
    BY <1>3
  <2> HIDE DEF c, ex
  <2>2. QED BY <1>4, <2>1, CollectionWritten
<1>6. AllArrive(hd, keyed) /\ keyed \in BOOLEAN
  BY ContentsGo
<1>7. type \in Types /\ InSigned(type, 1) /\ type \in Int
  BY NestedTypes, TypeFits DEF InSigned
<1>8. \A b : Out(b).ok = TRUE /\ Out(b).bytes = b
  BY DEF Out
<1>9. Refused.ok = FALSE
  BY DEF Refused
<1>10. got'.op = "params" /\ got'.ok = out.ok /\ got'.type = type /\ got'.r = res
  <2> DEFINE ok == out.ok
  <2>1. got' = [op |-> "params", ok |-> ok, type |-> type, r |-> res]
    BY <1>2
  <2> HIDE DEF ok, res
  <2>2. got'.op = "params" /\ got'.ok = ok /\ got'.type = type /\ got'.r = res
    BY <2>1
  <2>3. QED BY <2>2 DEF ok
<1>11. res = IF GetInt(out.bytes, 1).st = "ok"
             THEN DecodeParam(GetInt(out.bytes, 1).v, GetInt(out.bytes, 1).buf)
             ELSE GetInt(out.bytes, 1)
  BY DEF Bind
<1> HIDE DEF out, res, keyed, ex
<1>12. out.ok = ~NullIn(hd)
  <2>1. CASE NullIn(hd)
    <3>1. EncodeAll(hd, keyed) = Refused
      BY <1>6, <2>1 DEF AllArrive
    <3>2. out = Refused
      BY <1>5, <1>7, <3>1, TypedBytes, <<>> \in Seq(Int)
    <3>3. QED BY <1>9, <2>1, <3>2
  <2>2. CASE ~NullIn(hd)
    <3>1. PICK bs : bs \in Seq(Int) /\ EncodeAll(hd, keyed) = Out(bs)
      BY <1>6, <2>2 DEF AllArrive
    <3>2. out = Out(PutInt(type, 1) \o bs)
      BY <1>5, <1>7, <3>1, TypedBytes
    <3>3. QED BY <1>8, <2>2, <3>2
  <2>3. QED BY <2>1, <2>2
<1>13. ASSUME ~NullIn(hd), ~FloatIn(hd)
       PROVE  res.st = "ok" /\ res.buf = <<>> /\ Arrived("params", keys, res.v.e)
  <2>1. PICK bs : bs \in Seq(Int) /\ EncodeAll(hd, keyed) = Out(bs) /\ ReadAll(hd, keyed, bs)
    BY <1>6, <1>13 DEF AllArrive
  <2>2. PICK v, U : /\ v.e \in Seq(U) /\ ArrivedHere("params", keys, v.e)
                    /\ \A behind \in Seq(Int) : GetAll(keyed, bs \o behind) = Ok(v, behind)
    BY <2>1 DEF ReadAll
  <2>3. out.bytes = PutInt(type, 1) \o bs
    BY <1>5, <1>7, <1>8, <2>1, TypedBytes
  <2>4. GetInt(out.bytes, 1) = Ok(type, bs)
    BY <1>7, <2>1, <2>3, IntRead
  <2>5. res = DecodeParam(type, bs)
    BY <1>11, <2>4, OkFields
  <2>6. DecodeParam(type, bs) = DecodeValue(type, bs)
    BY <1>7, <2>1 DEF OneLayout
  <2>7. bs \o <<>> = bs /\ <<>> \in Seq(Int)
    BY <2>1, ConcatEmptySeq
  <2>8. DecodeValue(type, bs) = Ok(v, <<>>)
    <3>1. GetAll(keyed, bs \o <<>>) = Ok(v, <<>>)
      BY <2>2, <2>7
    <3>2. GetAll(keyed, bs) = Ok(v, <<>>)
      BY <2>7, <3>1
    <3>3. CASE type = MapT
      <4>1. keyed = TRUE
        BY <3>3 DEF keyed
      <4>2. GetAll(TRUE, bs) = Ok(v, <<>>)
        BY <3>2, <4>1
      <4>3. QED BY <3>3, <4>2, CollectionRead
    <3>4. CASE type = ListT
      <4>1. keyed = FALSE
        BY <3>4, NestedTypes DEF keyed
      <4>2. GetAll(FALSE, bs) = Ok(v, <<>>)
        BY <3>2, <4>1
      <4>3. QED BY <3>4, <4>2, CollectionRead
    <3>5. QED BY <3>3, <3>4
  <2>9. res.st = "ok" /\ res.v = v /\ res.buf = <<>>
    BY <2>5, <2>6, <2>8, OkFields
  <2>10. Arrived("params", keys, v.e) = ArrivedHere("params", keys, v.e)
    <3> DEFINE c == d + 1
               S == Level[d]
    <3>1. c \in Nat /\ Level[c] = Holders(S) /\ hd \in Seq(Holders(S))
      BY <1>3
    <3> HIDE DEF c, S, hd, keys
    <3>2. keys \in Seq(Level[c])
      BY <1>6, <3>1, KeysGone DEF keys
    <3>3. QED BY <3>1, <3>2 DEF OneLayout
  <2>11. QED BY <2>2, <2>9, <2>10
<1>14. NullIn(map.hd)' = NullIn(hd) /\ FloatIn(map.hd)' = FloatIn(hd)
  BY DEF NullIn, FloatIn
<1>15. Arrived("params", IF got.type = MapT THEN map.hd
                         ELSE [i \in DOMAIN map.hd |-> [map.hd[i] EXCEPT !.key = <<>>]],
               got.r.v.e)' = Arrived("params", keys, res.v.e)
  BY <1>10 DEF Keys, keyed
<1>16. QED BY <1>10, <1>12, <1>13, <1>14, <1>15 DEF ParamsArrive

LEMMA NextParams ==
  ASSUME OneLayout, MapContents, ParamsArrive, [Next]_vars
  PROVE  ParamsArrive'
<1>1. CASE got' = got /\ map' = map
  <2>1. NullIn(map.hd)' = NullIn(map.hd) /\ FloatIn(map.hd)' = FloatIn(map.hd)
    BY <1>1 DEF NullIn, FloatIn
  <2>2. Arrived("params", IF got.type = MapT THEN map.hd
                          ELSE [i \in DOMAIN map.hd |-> [map.hd[i] EXCEPT !.key = <<>>]],
                got.r.v.e)'
          = Arrived("params", IF got.type = MapT THEN map.hd
                              ELSE [i \in DOMAIN map.hd |-> [map.hd[i] EXCEPT !.key = <<>>]],
                    got.r.v.e)
    BY <1>1
  <2>3. QED BY <1>1, <2>1, <2>2 DEF ParamsArrive
<1>2. CASE got' = Nothing
  BY <1>2, OpsTell DEF ParamsArrive
<1>3. CASE Deliver /\ map' = map
  <2>1. CASE map.hd # <<>> /\ SendParams
    BY <1>3, <2>1, ParamsSent
  <2>2. CASE SendExtra \/ Publish
    <3>1. got'.op # "params"
      BY <2>2, OpsTell
    <3>2. QED BY <3>1 DEF ParamsArrive
  <2>3. QED BY <1>3, <2>1, <2>2 DEF Deliver
<1>4. QED BY <1>1, <1>2, <1>3, ReceivedStays

(* Whatever the program has built, it arrives as the parameters of a       *)
(* request, as a map or as a list (jm_cli_encodeExtra,                     *)
(* jm_cli_decodeExtra).                                                    *)
THEOREM RequestsArrive ==
  ASSUME OneLayout
  PROVE  Spec => []ParamsArrive
<1>1. Init => MapContents /\ ParamsArrive
  BY InitContents, OpsTell DEF Init, ParamsArrive
<1>2. MapContents /\ ParamsArrive /\ [Next]_vars => (MapContents /\ ParamsArrive)'
  BY NextContents, NextParams
<1>3. QED BY <1>1, <1>2, PTL DEF Spec
-----------------------------------------------------------------------------
\* The bits and the fields of an item.

\* Is the i-th field of an item sent?
Sent(it, i) == it[Fields[i]] # NewItem[Fields[i]]

LEMMA FieldNames ==
  /\ Fields[1] = "id" /\ Fields[2] = "type" /\ Fields[3] = "topic" /\ Fields[4] = "srcClientId"
  /\ Fields[5] = "to" /\ Fields[6] = "callback" /\ Fields[7] = "cxt" /\ Fields[8] = "data"
BY DEF Fields

LEMMA SentFields ==
  ASSUME NEW it
  PROVE  /\ Sent(it, 1) <=> it.id # 0
         /\ Sent(it, 2) <=> it.type # 0
         /\ Sent(it, 3) <=> it.topic # NoText
         /\ Sent(it, 4) <=> it.srcClientId # 0
         /\ Sent(it, 5) <=> it.to # 0
         /\ Sent(it, 6) <=> it.callback # NoText
         /\ Sent(it, 7) <=> it.cxt # NullVal
         /\ Sent(it, 8) <=> it.data # NullVal
<1>1. /\ NewItem.id = 0 /\ NewItem.type = 0 /\ NewItem.topic = NoText /\ NewItem.srcClientId = 0
      /\ NewItem.to = 0 /\ NewItem.callback = NoText /\ NewItem.cxt = NullVal
      /\ NewItem.data = NullVal
  BY DEF NewItem
<1>2. QED BY <1>1, FieldNames DEF Sent

LEMMA SumOfBits ==
  ASSUME NEW a \in 0 .. 1, NEW b \in 0 .. 1, NEW c \in 0 .. 1, NEW d \in 0 .. 1,
         NEW e \in 0 .. 1, NEW f \in 0 .. 1, NEW g \in 0 .. 1, NEW h \in 0 .. 1, NEW n,
         n = a + 2 * b + 4 * c + 8 * d + 16 * e + 32 * f + 64 * g + 128 * h
  PROVE  /\ n \in 0 .. 255
         /\ (n \div 1) % 2 = a /\ (n \div 2) % 2 = b /\ (n \div 4) % 2 = c /\ (n \div 8) % 2 = d
         /\ (n \div 16) % 2 = e /\ (n \div 32) % 2 = f /\ (n \div 64) % 2 = g
         /\ (n \div 128) % 2 = h
BY SMT

\* The powers that _psitem_isDataFlag divides by.
LEMMA Powers ==
  /\ 2^0 = 1 /\ 2^1 = 2 /\ 2^2 = 4 /\ 2^3 = 8 /\ 2^4 = 16 /\ 2^5 = 32 /\ 2^6 = 64 /\ 2^7 = 128
  /\ 1 - 1 = 0 /\ 2 - 1 = 1 /\ 3 - 1 = 2 /\ 4 - 1 = 3 /\ 5 - 1 = 4 /\ 6 - 1 = 5 /\ 7 - 1 = 6
  /\ 8 - 1 = 7
BY SMT

\* The bits of an item tell which of its fields are sent.
LEMMA BitsTell ==
  ASSUME NEW it
  PROVE  /\ InUnsigned(DataFlag(it), 1)
         /\ \A i \in 1 .. 8 : IsDataFlag(i - 1, DataFlag(it)) <=> Sent(it, i)
<1> DEFINE One(s) == IF s THEN 1 ELSE 0
           a == One(it.id # 0)
           b == One(it.type # 0)
           c == One(it.topic # NoText)
           d == One(it.srcClientId # 0)
           e == One(it.to # 0)
           f == One(it.callback # NoText)
           g == One(it.cxt # NullVal)
           h == One(it.data # NullVal)
           n == DataFlag(it)
<1>1. /\ a \in 0 .. 1 /\ b \in 0 .. 1 /\ c \in 0 .. 1 /\ d \in 0 .. 1 /\ e \in 0 .. 1
      /\ f \in 0 .. 1 /\ g \in 0 .. 1 /\ h \in 0 .. 1
  OBVIOUS
<1>2. /\ Bit(0, it.id # 0) = a /\ Bit(1, it.type # 0) = 2 * b /\ Bit(2, it.topic # NoText) = 4 * c
      /\ Bit(3, it.srcClientId # 0) = 8 * d /\ Bit(4, it.to # 0) = 16 * e
      /\ Bit(5, it.callback # NoText) = 32 * f /\ Bit(6, it.cxt # NullVal) = 64 * g
      /\ Bit(7, it.data # NullVal) = 128 * h
  BY Powers DEF Bit
<1>3. /\ Sent(it, 1) <=> a = 1
      /\ Sent(it, 2) <=> b = 1
      /\ Sent(it, 3) <=> c = 1
      /\ Sent(it, 4) <=> d = 1
      /\ Sent(it, 5) <=> e = 1
      /\ Sent(it, 6) <=> f = 1
      /\ Sent(it, 7) <=> g = 1
      /\ Sent(it, 8) <=> h = 1
  BY SentFields
<1> HIDE DEF a, b, c, d, e, f, g, h
<1>4. n = a + 2 * b + 4 * c + 8 * d + 16 * e + 32 * f + 64 * g + 128 * h
  BY <1>2 DEF DataFlag
<1> HIDE DEF n
<1>5. /\ n \in 0 .. 255
      /\ (n \div 1) % 2 = a /\ (n \div 2) % 2 = b /\ (n \div 4) % 2 = c /\ (n \div 8) % 2 = d
      /\ (n \div 16) % 2 = e /\ (n \div 32) % 2 = f /\ (n \div 64) % 2 = g
      /\ (n \div 128) % 2 = h
  BY <1>1, <1>4, SumOfBits
<1>6. InUnsigned(n, 1)
  BY <1>5, SMT DEF InUnsigned, Largest
<1>7. /\ IsDataFlag(1 - 1, n) <=> a = 1
      /\ IsDataFlag(2 - 1, n) <=> b = 1
      /\ IsDataFlag(3 - 1, n) <=> c = 1
      /\ IsDataFlag(4 - 1, n) <=> d = 1
      /\ IsDataFlag(5 - 1, n) <=> e = 1
      /\ IsDataFlag(6 - 1, n) <=> f = 1
      /\ IsDataFlag(7 - 1, n) <=> g = 1
      /\ IsDataFlag(8 - 1, n) <=> h = 1
  BY <1>5, Powers DEF IsDataFlag
<1>8. ASSUME NEW i \in 1 .. 8 PROVE IsDataFlag(i - 1, n) <=> Sent(it, i)
  <2>1. i \in {1, 2, 3, 4, 5, 6, 7, 8}
    OBVIOUS
  <2>2. QED BY <1>3, <1>7, <2>1
<1>9. QED BY <1>6, <1>8 DEF n
-----------------------------------------------------------------------------
\* The item with its first n fields, of which the data is x.
Built(it, x, n) ==
  [flag |-> it.flag, fr |-> it.fr,
   id |-> IF n >= 1 THEN it.id ELSE 0,
   type |-> IF n >= 2 THEN it.type ELSE 0,
   topic |-> IF n >= 3 THEN it.topic ELSE NoText,
   srcClientId |-> IF n >= 4 THEN it.srcClientId ELSE 0,
   to |-> IF n >= 5 THEN it.to ELSE 0,
   callback |-> IF n >= 6 THEN it.callback ELSE NoText,
   cxt |-> IF n >= 7 THEN it.cxt ELSE NullVal,
   data |-> IF n >= 8 THEN x ELSE NullVal]

\* A field of the item that is read.
Field(it, x, i) == IF i = 8 THEN x ELSE it[Fields[i]]

LEMMA FieldBuilt ==
  ASSUME NEW it, NEW x, NEW i \in 1 .. 8
  PROVE  [Built(it, x, i - 1) EXCEPT ![Fields[i]] = Field(it, x, i)] = Built(it, x, i)
<1>1. i \in {1, 2, 3, 4, 5, 6, 7, 8}
  OBVIOUS
<1>2. CASE i = 1 BY <1>2, FieldNames DEF Built, Field
<1>3. CASE i = 2 BY <1>3, FieldNames DEF Built, Field
<1>4. CASE i = 3 BY <1>4, FieldNames DEF Built, Field
<1>5. CASE i = 4 BY <1>5, FieldNames DEF Built, Field
<1>6. CASE i = 5 BY <1>6, FieldNames DEF Built, Field
<1>7. CASE i = 6 BY <1>7, FieldNames DEF Built, Field
<1>8. CASE i = 7 BY <1>8, FieldNames DEF Built, Field
<1>9. CASE i = 8 BY <1>9, FieldNames DEF Built, Field
<1>10. QED BY <1>1, <1>2, <1>3, <1>4, <1>5, <1>6, <1>7, <1>8, <1>9

LEMMA FieldLeftOut ==
  ASSUME NEW it, NEW x, NEW i \in 1 .. 8, ~Sent(it, i), it.data = NullVal => x = NullVal
  PROVE  Built(it, x, i - 1) = Built(it, x, i)
<1>1. i \in {1, 2, 3, 4, 5, 6, 7, 8}
  OBVIOUS
<1>2. CASE i = 1 BY <1>2, SentFields DEF Built
<1>3. CASE i = 2 BY <1>3, SentFields DEF Built
<1>4. CASE i = 3 BY <1>4, SentFields DEF Built
<1>5. CASE i = 4 BY <1>5, SentFields DEF Built
<1>6. CASE i = 5 BY <1>6, SentFields DEF Built
<1>7. CASE i = 6 BY <1>7, SentFields DEF Built
<1>8. CASE i = 7 BY <1>8, SentFields DEF Built
<1>9. CASE i = 8 BY <1>9, SentFields DEF Built
<1>10. QED BY <1>1, <1>2, <1>3, <1>4, <1>5, <1>6, <1>7, <1>8, <1>9
-----------------------------------------------------------------------------
\* Each field in its bytes.

\* The data of an item is written as bs, which is read as x.
DataGoes(it, bs, x) ==
  /\ SerialData(it) = Out(bs) /\ bs \in Seq(Int)
  /\ it.data = NullVal => bs = <<>> /\ x = NullVal
  /\ it.data # NullVal =>
       \A behind \in Seq(Int) : GetData(it.flag, Peer, bs \o behind) = Ok(x, behind)

\* What is written for each of the fields of an item without a context.
Pieces(it, bs) ==
  <<If(it.id # 0, PutLong(<<0, it.id>>)), If(it.type # 0, PutInt(it.type, 1)),
    If(it.topic # NoText, WriteString(it.topic)), If(it.srcClientId # 0, PutInt(it.srcClientId, 4)),
    If(it.to # 0, PutInt(it.to, 4)), If(it.callback # NoText, WriteString(it.callback)), <<>>, bs>>

\* The piece of each field.
LEMMA PieceIs ==
  ASSUME NEW it, NEW bs
  PROVE  /\ Pieces(it, bs)[1] = IF it.id # 0 THEN PutLong(<<0, it.id>>) ELSE <<>>
         /\ Pieces(it, bs)[2] = IF it.type # 0 THEN PutInt(it.type, 1) ELSE <<>>
         /\ Pieces(it, bs)[3] = IF it.topic # NoText THEN WriteString(it.topic) ELSE <<>>
         /\ Pieces(it, bs)[4] = IF it.srcClientId # 0 THEN PutInt(it.srcClientId, 4) ELSE <<>>
         /\ Pieces(it, bs)[5] = IF it.to # 0 THEN PutInt(it.to, 4) ELSE <<>>
         /\ Pieces(it, bs)[6] = IF it.callback # NoText THEN WriteString(it.callback) ELSE <<>>
         /\ Pieces(it, bs)[7] = <<>>
         /\ Pieces(it, bs)[8] = bs
BY DEF Pieces, If

\* The reader of each field.
LEMMA FieldGets ==
  ASSUME NEW flag, NEW buf
  PROVE  /\ GetField("id", flag, Peer, buf) = GetId(buf)
         /\ GetField("type", flag, Peer, buf) = GetInt(buf, 1)
         /\ GetField("topic", flag, Peer, buf) = ReadString(buf)
         /\ GetField("srcClientId", flag, Peer, buf) = GetInt(buf, 4)
         /\ GetField("to", flag, Peer, buf) = GetInt(buf, 4)
         /\ GetField("callback", flag, Peer, buf) = ReadString(buf)
         /\ GetField("data", flag, Peer, buf) = GetData(flag, Peer, buf)
<1>1. GetField("id", flag, Peer, buf) = GetId(buf)
  BY DEF GetField
<1>2. GetField("type", flag, Peer, buf) = GetInt(buf, 1)
  BY DEF GetField
<1>3. GetField("topic", flag, Peer, buf) = ReadString(buf)
  BY DEF GetField
<1>4. GetField("srcClientId", flag, Peer, buf) = GetInt(buf, 4)
  BY DEF GetField
<1>5. GetField("to", flag, Peer, buf) = GetInt(buf, 4)
  BY DEF GetField
<1>6. GetField("callback", flag, Peer, buf) = ReadString(buf)
  BY DEF GetField
<1>7. GetField("data", flag, Peer, buf) = GetData(flag, Peer, buf)
  BY DEF GetField
<1>8. QED BY <1>1, <1>2, <1>3, <1>4, <1>5, <1>6, <1>7

\* The id of an item is read from the low half of a long number.
LEMMA IdRead ==
  ASSUME NEW x, InSigned(x, 4), NEW behind \in Seq(Int)
  PROVE  /\ PutLong(<<0, x>>) \in Seq(Int)
         /\ GetId(PutLong(<<0, x>>) \o behind) = Ok(x, behind)
<1> DEFINE n == <<0, x>>
<1>1. InSigned(0, 4) /\ 0 \in Int /\ x \in Int
  BY DEF InSigned, Largest
<1>2. n[1] = 0 /\ n[2] = x
  OBVIOUS
<1>3. PutLong(n) \in Seq(Int)
  <2>1. PutInt(0, 4) \in Seq(Int) /\ PutInt(x, 4) \in Seq(Int)
    BY <1>1, IntSeq
  <2> HIDE DEF n
  <2>2. QED BY <1>2, <2>1, ConcatProperties DEF PutLong
<1>4. GetLong(PutLong(n) \o behind) = Ok(n, behind)
  BY <1>1, LongRead
<1> HIDE DEF n
<1> DEFINE r == GetLong(PutLong(n) \o behind)
<1>5. r.st = "ok" /\ r.v = n /\ r.buf = behind
  BY <1>4, OkFields
<1>6. GetId(PutLong(n) \o behind) = IF r.st = "ok" THEN Ok(r.v[2], r.buf) ELSE r
  BY DEF GetId, Bind
<1> HIDE DEF r
<1>7. GetId(PutLong(n) \o behind) = Ok(x, behind)
  BY <1>2, <1>5, <1>6
<1>8. QED BY <1>3, <1>7 DEF n

\* The field i, written as p, is read if it is sent, and takes no bytes if not.
PieceGoes(it, x, i, p, behind) ==
  /\ p \in Seq(Int)
  /\ ~Sent(it, i) => p = <<>>
  /\ Sent(it, i) => GetField(Fields[i], it.flag, Peer, p \o behind) = Ok(Field(it, x, i), behind)

\* Every field is read from its piece.
LEMMA FieldGoes ==
  ASSUME NEW it, FieldsFit(it), it.cxt = NullVal, NEW bs, NEW x, DataGoes(it, bs, x),
         NEW i \in 1 .. 8, NEW behind \in Seq(Int)
  PROVE  PieceGoes(it, x, i, Pieces(it, bs)[i], behind)
<1> DEFINE q == Pieces(it, bs)
           p == q[i]
           Goes == PieceGoes(it, x, i, p, behind)
<1> SUFFICES Goes
  OBVIOUS
<1>1. i \in {1, 2, 3, 4, 5, 6, 7, 8} /\ <<>> \in Seq(Int)
  OBVIOUS
<1>2. /\ InSigned(it.id, 4) /\ InSigned(it.srcClientId, 4) /\ InSigned(it.to, 4)
      /\ InSigned(it.type, 1)
      /\ it.id \in Int /\ it.srcClientId \in Int /\ it.to \in Int /\ it.type \in Int
  BY DEF FieldsFit, InSigned
<1>3. /\ it.topic \in Seq(Int) /\ InUnsigned(Len(it.topic), 2)
      /\ it.callback \in Seq(Int) /\ InUnsigned(Len(it.callback), 2)
  BY DEF FieldsFit, Sendable
<1>14. /\ q[1] = IF it.id # 0 THEN PutLong(<<0, it.id>>) ELSE <<>>
       /\ q[2] = IF it.type # 0 THEN PutInt(it.type, 1) ELSE <<>>
       /\ q[3] = IF it.topic # NoText THEN WriteString(it.topic) ELSE <<>>
       /\ q[4] = IF it.srcClientId # 0 THEN PutInt(it.srcClientId, 4) ELSE <<>>
       /\ q[5] = IF it.to # 0 THEN PutInt(it.to, 4) ELSE <<>>
       /\ q[6] = IF it.callback # NoText THEN WriteString(it.callback) ELSE <<>>
       /\ q[7] = <<>>
       /\ q[8] = bs
  BY PieceIs
<1> HIDE DEF q
<1>4. CASE i = 1
  <2> DEFINE b == PutLong(<<0, it.id>>)
  <2>1. b \in Seq(Int) /\ GetId(b \o behind) = Ok(it.id, behind)
    BY <1>2, IdRead
  <2>2. p = IF it.id # 0 THEN b ELSE <<>>
    BY <1>4, <1>14
  <2>3. Field(it, x, i) = it.id /\ Fields[i] = "id"
    BY <1>4, FieldNames DEF Field
  <2>4. Sent(it, i) <=> it.id # 0
    BY <1>4, SentFields
  <2> HIDE DEF b, p
  <2>5. QED BY <1>1, <2>1, <2>2, <2>3, <2>4, FieldGets DEF PieceGoes
<1>5. CASE i = 2
  <2> DEFINE b == PutInt(it.type, 1)
  <2>1. b \in Seq(Int) /\ GetInt(b \o behind, 1) = Ok(it.type, behind)
    BY <1>2, IntSeq, IntRead
  <2>2. p = IF it.type # 0 THEN b ELSE <<>>
    BY <1>5, <1>14
  <2>3. Field(it, x, i) = it.type /\ Fields[i] = "type"
    BY <1>5, FieldNames DEF Field
  <2>4. Sent(it, i) <=> it.type # 0
    BY <1>5, SentFields
  <2> HIDE DEF b, p
  <2>5. QED BY <1>1, <2>1, <2>2, <2>3, <2>4, FieldGets DEF PieceGoes
<1>6. CASE i = 3
  <2> DEFINE b == WriteString(it.topic)
  <2>1. b \in Seq(Int) /\ ReadString(b \o behind) = Ok(it.topic, behind)
    BY <1>3, StringBytes, StringsArrive
  <2>2. p = IF it.topic # NoText THEN b ELSE <<>>
    BY <1>6, <1>14
  <2>3. Field(it, x, i) = it.topic /\ Fields[i] = "topic"
    BY <1>6, FieldNames DEF Field
  <2>4. Sent(it, i) <=> it.topic # NoText
    BY <1>6, SentFields
  <2> HIDE DEF b, p
  <2>5. QED BY <1>1, <2>1, <2>2, <2>3, <2>4, FieldGets DEF PieceGoes
<1>7. CASE i = 4
  <2> DEFINE b == PutInt(it.srcClientId, 4)
  <2>1. b \in Seq(Int) /\ GetInt(b \o behind, 4) = Ok(it.srcClientId, behind)
    BY <1>2, IntSeq, IntRead
  <2>2. p = IF it.srcClientId # 0 THEN b ELSE <<>>
    BY <1>7, <1>14
  <2>3. Field(it, x, i) = it.srcClientId /\ Fields[i] = "srcClientId"
    BY <1>7, FieldNames DEF Field
  <2>4. Sent(it, i) <=> it.srcClientId # 0
    BY <1>7, SentFields
  <2> HIDE DEF b, p
  <2>5. QED BY <1>1, <2>1, <2>2, <2>3, <2>4, FieldGets DEF PieceGoes
<1>8. CASE i = 5
  <2> DEFINE b == PutInt(it.to, 4)
  <2>1. b \in Seq(Int) /\ GetInt(b \o behind, 4) = Ok(it.to, behind)
    BY <1>2, IntSeq, IntRead
  <2>2. p = IF it.to # 0 THEN b ELSE <<>>
    BY <1>8, <1>14
  <2>3. Field(it, x, i) = it.to /\ Fields[i] = "to"
    BY <1>8, FieldNames DEF Field
  <2>4. Sent(it, i) <=> it.to # 0
    BY <1>8, SentFields
  <2> HIDE DEF b, p
  <2>5. QED BY <1>1, <2>1, <2>2, <2>3, <2>4, FieldGets DEF PieceGoes
<1>9. CASE i = 6
  <2> DEFINE b == WriteString(it.callback)
  <2>1. b \in Seq(Int) /\ ReadString(b \o behind) = Ok(it.callback, behind)
    BY <1>3, StringBytes, StringsArrive
  <2>2. p = IF it.callback # NoText THEN b ELSE <<>>
    BY <1>9, <1>14
  <2>3. Field(it, x, i) = it.callback /\ Fields[i] = "callback"
    BY <1>9, FieldNames DEF Field
  <2>4. Sent(it, i) <=> it.callback # NoText
    BY <1>9, SentFields
  <2> HIDE DEF b, p
  <2>5. QED BY <1>1, <2>1, <2>2, <2>3, <2>4, FieldGets DEF PieceGoes
<1>10. CASE i = 7
  <2>1. p = <<>> /\ ~Sent(it, i)
    BY <1>10, <1>14, SentFields
  <2> HIDE DEF p
  <2>2. QED BY <1>1, <2>1 DEF PieceGoes
<1>11. CASE i = 8
  <2>1. p = bs /\ Field(it, x, i) = x /\ Fields[i] = "data"
    BY <1>11, <1>14, FieldNames DEF Field
  <2>2. Sent(it, i) <=> it.data # NullVal
    BY <1>11, SentFields
  <2>3. bs \in Seq(Int) /\ (it.data = NullVal => bs = <<>>)
    BY DEF DataGoes
  <2>4. it.data # NullVal => GetData(it.flag, Peer, bs \o behind) = Ok(x, behind)
    BY DEF DataGoes
  <2> HIDE DEF p
  <2>5. QED BY <2>1, <2>2, <2>3, <2>4, FieldGets DEF PieceGoes
<1>12. QED BY <1>1, <1>4, <1>5, <1>6, <1>7, <1>8, <1>9, <1>10, <1>11
-----------------------------------------------------------------------------
\* A turn of the loop over the fields.
NextTurn(it, i, r) ==
  IF IsDataFlag(i - 1, DataFlag(it)) THEN NextField(r, Fields[i], it.flag, Peer) ELSE r

\* One turn of the loop reads one field, or leaves it as it is in the zeroed item.
LEMMA TurnGoes ==
  ASSUME NEW it, FieldsFit(it), it.cxt = NullVal, NEW bs, NEW x, DataGoes(it, bs, x),
         NEW i \in 1 .. 8, NEW behind \in Seq(Int)
  PROVE  NextTurn(it, i, Ok(Built(it, x, i - 1), Pieces(it, bs)[i] \o behind))
           = Ok(Built(it, x, i), behind)
<1> DEFINE p   == Pieces(it, bs)[i]
           old == Built(it, x, i - 1)
           new == Built(it, x, i)
           r   == Ok(old, p \o behind)
           res == GetField(Fields[i], it.flag, Peer, p \o behind)
<1>1. /\ p \in Seq(Int) /\ (~Sent(it, i) => p = <<>>)
      /\ Sent(it, i) => res = Ok(Field(it, x, i), behind)
  <2>1. PieceGoes(it, x, i, p, behind)
    BY FieldGoes
  <2>2. QED BY <2>1 DEF PieceGoes
<1>2. IsDataFlag(i - 1, DataFlag(it)) <=> Sent(it, i)
  BY BitsTell
<1>3. [old EXCEPT ![Fields[i]] = Field(it, x, i)] = new
  BY FieldBuilt
<1>4. ~Sent(it, i) => old = new
  BY FieldLeftOut DEF DataGoes
<1>5. r.st = "ok" /\ r.v = old /\ r.buf = p \o behind
  BY OkFields
<1>6. NextField(r, Fields[i], it.flag, Peer) = Store(r, Fields[i], res)
  BY <1>5 DEF NextField
<1> HIDE DEF p, old, new, r, res
<1>7. CASE Sent(it, i)
  <2> DEFINE c == Field(it, x, i)
  <2>1. res.st = "ok" /\ res.v = c /\ res.buf = behind
    BY <1>1, <1>7, OkFields
  <2>2. [old EXCEPT ![Fields[i]] = c] = new
    BY <1>3
  <2> HIDE DEF c
  <2>3. Store(r, Fields[i], res) = Ok(new, behind)
    BY <1>5, <2>1, <2>2 DEF Store
  <2>4. NextTurn(it, i, r) = Ok(new, behind)
    BY <1>2, <1>6, <1>7, <2>3 DEF NextTurn
  <2>5. QED BY <2>4 DEF r, old, new, p
<1>8. CASE ~Sent(it, i)
  <2>1. p \o behind = behind
    BY <1>1, <1>8, ConcatEmptySeq
  <2>2. r = Ok(new, behind)
    BY <1>4, <1>8, <2>1 DEF r
  <2>3. NextTurn(it, i, r) = Ok(new, behind)
    BY <1>2, <1>8, <2>2 DEF NextTurn
  <2>4. QED BY <2>3 DEF r, old, new, p
<1>9. QED BY <1>7, <1>8
-----------------------------------------------------------------------------
\* The bytes of an item.

\* What is left of an item behind its first i fields.
Left(p, i) ==
  LET left8 == <<>>
      left7 == p[8] \o left8
      left6 == p[7] \o left7
      left5 == p[6] \o left6
      left4 == p[5] \o left5
      left3 == p[4] \o left4
      left2 == p[3] \o left3
      left1 == p[2] \o left2
      left0 == p[1] \o left1
  IN IF i = 8 THEN left8 ELSE IF i = 7 THEN left7 ELSE IF i = 6 THEN left6
     ELSE IF i = 5 THEN left5 ELSE IF i = 4 THEN left4 ELSE IF i = 3 THEN left3
     ELSE IF i = 2 THEN left2 ELSE IF i = 1 THEN left1 ELSE left0

\* The pieces behind the first ones, by their number.
LEMMA LeftIs ==
  ASSUME NEW p
  PROVE  /\ Left(p, 8) = <<>>
         /\ Left(p, 7) = p[8] \o Left(p, 8)
         /\ Left(p, 6) = p[7] \o Left(p, 7)
         /\ Left(p, 5) = p[6] \o Left(p, 6)
         /\ Left(p, 4) = p[5] \o Left(p, 5)
         /\ Left(p, 3) = p[4] \o Left(p, 4)
         /\ Left(p, 2) = p[3] \o Left(p, 3)
         /\ Left(p, 1) = p[2] \o Left(p, 2)
         /\ Left(p, 0) = p[1] \o Left(p, 1)
<1>8. Left(p, 8) = <<>>
  BY DEF Left
<1>7. Left(p, 7) = p[8] \o Left(p, 8)
  BY DEF Left
<1>6. Left(p, 6) = p[7] \o Left(p, 7)
  BY DEF Left
<1>5. Left(p, 5) = p[6] \o Left(p, 6)
  BY DEF Left
<1>4. Left(p, 4) = p[5] \o Left(p, 5)
  BY DEF Left
<1>3. Left(p, 3) = p[4] \o Left(p, 4)
  BY DEF Left
<1>2. Left(p, 2) = p[3] \o Left(p, 3)
  BY DEF Left
<1>1. Left(p, 1) = p[2] \o Left(p, 2)
  BY DEF Left
<1>9. Left(p, 0) = p[1] \o Left(p, 1)
  BY DEF Left
<1>10. QED BY <1>1, <1>2, <1>3, <1>4, <1>5, <1>6, <1>7, <1>8, <1>9

\* Bytes in front of bytes.
LEMMA InFront == ASSUME NEW a \in Seq(Int), NEW b \in Seq(Int), NEW c, c = a \o b PROVE c \in Seq(Int)
BY ConcatProperties

\* What is left of an item is bytes.
LEMMA LeftBytes ==
  ASSUME NEW p, \A i \in 1 .. 8 : p[i] \in Seq(Int)
  PROVE  \A i \in 0 .. 8 : Left(p, i) \in Seq(Int)
<1> DEFINE L(i) == Left(p, i)
<1>8. L(8) \in Seq(Int)
  <2>1. L(8) = <<>>
    BY LeftIs
  <2>2. <<>> \in Seq(Int)
    BY EmptySeq
  <2> HIDE DEF L
  <2>3. QED BY ONLY <2>1, <2>2
<1>7. L(7) \in Seq(Int)
  <2>1. L(7) = p[8] \o L(8)
    BY LeftIs
  <2>2. p[8] \in Seq(Int)
    OBVIOUS
  <2> HIDE DEF L
  <2>3. QED BY <1>8, <2>1, <2>2, InFront
<1>6. L(6) \in Seq(Int)
  <2>1. L(6) = p[7] \o L(7)
    BY LeftIs
  <2>2. p[7] \in Seq(Int)
    OBVIOUS
  <2> HIDE DEF L
  <2>3. QED BY <1>7, <2>1, <2>2, InFront
<1>5. L(5) \in Seq(Int)
  <2>1. L(5) = p[6] \o L(6)
    BY LeftIs
  <2>2. p[6] \in Seq(Int)
    OBVIOUS
  <2> HIDE DEF L
  <2>3. QED BY <1>6, <2>1, <2>2, InFront
<1>4. L(4) \in Seq(Int)
  <2>1. L(4) = p[5] \o L(5)
    BY LeftIs
  <2>2. p[5] \in Seq(Int)
    OBVIOUS
  <2> HIDE DEF L
  <2>3. QED BY <1>5, <2>1, <2>2, InFront
<1>3. L(3) \in Seq(Int)
  <2>1. L(3) = p[4] \o L(4)
    BY LeftIs
  <2>2. p[4] \in Seq(Int)
    OBVIOUS
  <2> HIDE DEF L
  <2>3. QED BY <1>4, <2>1, <2>2, InFront
<1>2. L(2) \in Seq(Int)
  <2>1. L(2) = p[3] \o L(3)
    BY LeftIs
  <2>2. p[3] \in Seq(Int)
    OBVIOUS
  <2> HIDE DEF L
  <2>3. QED BY <1>3, <2>1, <2>2, InFront
<1>1. L(1) \in Seq(Int)
  <2>1. L(1) = p[2] \o L(2)
    BY LeftIs
  <2>2. p[2] \in Seq(Int)
    OBVIOUS
  <2> HIDE DEF L
  <2>3. QED BY <1>2, <2>1, <2>2, InFront
<1>9. L(0) \in Seq(Int)
  <2>1. L(0) = p[1] \o L(1)
    BY LeftIs
  <2>2. p[1] \in Seq(Int)
    OBVIOUS
  <2> HIDE DEF L
  <2>3. QED BY <1>1, <2>1, <2>2, InFront
<1>10. ASSUME NEW i \in 0 .. 8 PROVE L(i) \in Seq(Int)
  <2>1. i \in {0, 1, 2, 3, 4, 5, 6, 7, 8}
    OBVIOUS
  <2> HIDE DEF L
  <2>2. QED BY <1>1, <1>2, <1>3, <1>4, <1>5, <1>6, <1>7, <1>8, <1>9, <2>1
<1>12. QED BY <1>10 DEF L

\* What is written for an item, from its front.
LEMMA ItemWritten ==
  ASSUME NEW it, FieldsFit(it), it.cxt = NullVal, NEW bs, SerialData(it) = Out(bs),
         \A i \in 1 .. 8 : Pieces(it, bs)[i] \in Seq(Int)
  PROVE  LET b == PutInt(DataFlag(it), 1)
                    \o (PutInt(it.flag, 1) \o (PutInt(it.fr, 4) \o Left(Pieces(it, bs), 0)))
         IN SerialPsItem(it) = Out(b) /\ b \in Seq(Int)
<1> DEFINE a  == PutInt(DataFlag(it), 1)
           b  == PutInt(it.flag, 1)
           c  == PutInt(it.fr, 4)
           p  == Pieces(it, bs)
           L(i) == Left(p, i)
           p1 == If(it.id # 0, PutLong(<<0, it.id>>))
           p2 == If(it.type # 0, PutInt(it.type, 1))
           p3 == If(it.topic # NoText, WriteString(it.topic))
           p4 == If(it.srcClientId # 0, PutInt(it.srcClientId, 4))
           p5 == If(it.to # 0, PutInt(it.to, 4))
           p6 == If(it.callback # NoText, WriteString(it.callback))
           h0 == (a \o b) \o c
           h1 == h0 \o p1
           h2 == h1 \o p2
           h3 == h2 \o p3
           h4 == h3 \o p4
           h5 == h4 \o p5
           h6 == h5 \o p6
<1>1. SerialPsItem(it) = Cat(Cat(Out(h6), Out(<<>>)), Out(bs))
  BY DEF SerialPsItem
<1>2. p[1] = p1 /\ p[2] = p2 /\ p[3] = p3 /\ p[4] = p4 /\ p[5] = p5 /\ p[6] = p6 /\ p[7] = <<>> /\ p[8] = bs
  BY DEF Pieces
<1>3. a \in Seq(Int) /\ b \in Seq(Int) /\ c \in Seq(Int)
  <2>1. DataFlag(it) \in Int /\ it.flag \in Int /\ it.fr \in Int
    BY BitsTell DEF FieldsFit, InUnsigned, InSigned
  <2>2. QED BY <2>1, IntSeq
<1>4. /\ p1 \in Seq(Int) /\ p2 \in Seq(Int) /\ p3 \in Seq(Int) /\ p4 \in Seq(Int) /\ p5 \in Seq(Int)
      /\ p6 \in Seq(Int) /\ bs \in Seq(Int)
  <2> HIDE DEF p, p1, p2, p3, p4, p5, p6
  <2>1. \A i \in 1 .. 8 : p[i] \in Seq(Int)
    BY DEF p
  <2>2. /\ p[1] \in Seq(Int) /\ p[2] \in Seq(Int) /\ p[3] \in Seq(Int) /\ p[4] \in Seq(Int)
        /\ p[5] \in Seq(Int) /\ p[6] \in Seq(Int) /\ p[8] \in Seq(Int)
    BY <2>1
  <2>3. QED BY <1>2, <2>2
<1>5. \A i \in 0 .. 8 : L(i) \in Seq(Int)
  BY LeftBytes
<1>6. /\ L(0) \in Seq(Int) /\ L(1) \in Seq(Int) /\ L(2) \in Seq(Int) /\ L(3) \in Seq(Int)
      /\ L(4) \in Seq(Int) /\ L(5) \in Seq(Int) /\ L(6) \in Seq(Int)
  BY <1>5
<1>7. /\ L(8) = <<>> /\ L(7) = bs \o L(8) /\ L(6) = <<>> \o L(7) /\ L(5) = p6 \o L(6)
      /\ L(4) = p5 \o L(5) /\ L(3) = p4 \o L(4) /\ L(2) = p3 \o L(3) /\ L(1) = p2 \o L(2)
      /\ L(0) = p1 \o L(1)
  BY <1>2, LeftIs
<1> HIDE DEF a, b, c, p, p1, p2, p3, p4, p5, p6, L
<1>8. L(6) = bs
  BY <1>4, <1>7, ConcatEmptySeq
<1>9. h0 \in Seq(Int) /\ h0 \o L(0) = a \o (b \o (c \o L(0)))
  <2>1. Joined(a \o b, c, L(0)) /\ Joined(a, b, c \o L(0)) /\ a \o b \in Seq(Int) /\ c \o L(0) \in Seq(Int)
    <3>1. a \o b \in Seq(Int) /\ c \o L(0) \in Seq(Int)
      BY <1>3, <1>6, ConcatProperties
    <3>2. QED BY <1>3, <1>6, <3>1, TwoParts
  <2>2. QED BY <2>1 DEF Joined
<1> HIDE DEF h0
<1>10. h1 \in Seq(Int) /\ h1 \o L(1) = h0 \o L(0)
  <2>1. Joined(h0, p1, L(1))
    BY <1>4, <1>6, <1>9, TwoParts
  <2>2. QED BY <1>7, <2>1 DEF Joined
<1> HIDE DEF h1
<1>11. h2 \in Seq(Int) /\ h2 \o L(2) = h1 \o L(1)
  <2>1. Joined(h1, p2, L(2))
    BY <1>4, <1>6, <1>10, TwoParts
  <2>2. QED BY <1>7, <2>1 DEF Joined
<1> HIDE DEF h2
<1>12. h3 \in Seq(Int) /\ h3 \o L(3) = h2 \o L(2)
  <2>1. Joined(h2, p3, L(3))
    BY <1>4, <1>6, <1>11, TwoParts
  <2>2. QED BY <1>7, <2>1 DEF Joined
<1> HIDE DEF h3
<1>13. h4 \in Seq(Int) /\ h4 \o L(4) = h3 \o L(3)
  <2>1. Joined(h3, p4, L(4))
    BY <1>4, <1>6, <1>12, TwoParts
  <2>2. QED BY <1>7, <2>1 DEF Joined
<1> HIDE DEF h4
<1>14. h5 \in Seq(Int) /\ h5 \o L(5) = h4 \o L(4)
  <2>1. Joined(h4, p5, L(5))
    BY <1>4, <1>6, <1>13, TwoParts
  <2>2. QED BY <1>7, <2>1 DEF Joined
<1> HIDE DEF h5
<1>15. h6 \in Seq(Int) /\ h6 \o L(6) = h5 \o L(5)
  <2>1. Joined(h5, p6, L(6))
    BY <1>4, <1>6, <1>14, TwoParts
  <2>2. QED BY <1>7, <2>1 DEF Joined
<1> HIDE DEF h6
<1>16. h6 \o bs = a \o (b \o (c \o L(0)))
  BY <1>8, <1>9, <1>10, <1>11, <1>12, <1>13, <1>14, <1>15
<1>17. Cat(Cat(Out(h6), Out(<<>>)), Out(bs)) = Out(h6 \o bs)
  <2>1. \A x : Out(x).ok /\ Out(x).bytes = x
    BY DEF Out
  <2>2. h6 \o <<>> = h6
    BY <1>15, ConcatEmptySeq
  <2>3. Cat(Out(h6), Out(<<>>)) = Out(h6)
    BY <2>1, <2>2 DEF Cat
  <2>4. QED BY <2>1, <2>3 DEF Cat
<1>18. h6 \o bs \in Seq(Int)
  BY <1>4, <1>15, ConcatProperties
<1>19. QED BY <1>1, <1>16, <1>17, <1>18 DEF a, b, c, L, p
-----------------------------------------------------------------------------
\* An item from its bytes.

\* One turn of the loop over what is left of an item.
LEMMA ReadGoesOn ==
  ASSUME NEW it, FieldsFit(it), it.cxt = NullVal, NEW bs, NEW x, DataGoes(it, bs, x),
         \A j \in 0 .. 8 : Left(Pieces(it, bs), j) \in Seq(Int), NEW i \in 1 .. 8
  PROVE  NextTurn(it, i, Ok(Built(it, x, i - 1), Left(Pieces(it, bs), i - 1)))
           = Ok(Built(it, x, i), Left(Pieces(it, bs), i))
<1> DEFINE p == Pieces(it, bs)
<1>1. Left(p, i - 1) = p[i] \o Left(p, i)
  <2>1. i \in {1, 2, 3, 4, 5, 6, 7, 8}
    OBVIOUS
  <2> HIDE DEF p
  <2>2. CASE i = 1 BY <2>2, LeftIs, Powers
  <2>3. CASE i = 2 BY <2>3, LeftIs, Powers
  <2>4. CASE i = 3 BY <2>4, LeftIs, Powers
  <2>5. CASE i = 4 BY <2>5, LeftIs, Powers
  <2>6. CASE i = 5 BY <2>6, LeftIs, Powers
  <2>7. CASE i = 6 BY <2>7, LeftIs, Powers
  <2>8. CASE i = 7 BY <2>8, LeftIs, Powers
  <2>9. CASE i = 8 BY <2>9, LeftIs, Powers
  <2>10. QED BY <2>1, <2>2, <2>3, <2>4, <2>5, <2>6, <2>7, <2>8, <2>9
<1>2. Left(p, i) \in Seq(Int)
  OBVIOUS
<1> DEFINE behind == Left(p, i)
<1>3. NextTurn(it, i, Ok(Built(it, x, i - 1), p[i] \o behind)) = Ok(Built(it, x, i), behind)
  <2> HIDE DEF behind
  <2>1. behind \in Seq(Int)
    BY <1>2 DEF behind
  <2>2. FieldsFit(it) /\ it.cxt = NullVal /\ DataGoes(it, bs, x) /\ i \in 1 .. 8
    OBVIOUS
  <2>3. QED BY ONLY <2>1, <2>2, TurnGoes
<1>4. QED BY <1>1, <1>3

\* The zeroed item with the flag and the sender that are read first.
LEMMA ZeroedItem ==
  ASSUME NEW u, NEW v
  PROVE  [NewItem EXCEPT !.flag = u, !.fr = v]
           = [flag |-> u, fr |-> v, id |-> 0, type |-> 0, topic |-> NoText, srcClientId |-> 0,
              to |-> 0, callback |-> NoText, cxt |-> NullVal, data |-> NullVal]
<1> DEFINE q == [NewItem EXCEPT !.flag = u]
           r == [q EXCEPT !.fr = v]
<1>1. NewItem = [flag |-> 0, fr |-> 0, id |-> 0, type |-> 0, topic |-> NoText, srcClientId |-> 0,
                 to |-> 0, callback |-> NoText, cxt |-> NullVal, data |-> NullVal]
  BY DEF NewItem
<1>2. q = [flag |-> u, fr |-> 0, id |-> 0, type |-> 0, topic |-> NoText, srcClientId |-> 0,
           to |-> 0, callback |-> NoText, cxt |-> NullVal, data |-> NullVal]
  BY <1>1
<1>3. r = [NewItem EXCEPT !.flag = u, !.fr = v]
  OBVIOUS
<1> HIDE DEF q
<1>4. r = [flag |-> u, fr |-> v, id |-> 0, type |-> 0, topic |-> NoText, srcClientId |-> 0,
           to |-> 0, callback |-> NoText, cxt |-> NullVal, data |-> NullVal]
  BY <1>2
<1>5. QED BY <1>3, <1>4

\* The loop over the fields reads the item from its bytes.
LEMMA ItemParsed ==
  ASSUME NEW it, FieldsFit(it), it.cxt = NullVal, NEW bs, NEW x, DataGoes(it, bs, x),
         \A j \in 0 .. 8 : Left(Pieces(it, bs), j) \in Seq(Int)
  PROVE  ParseBin(PutInt(DataFlag(it), 1)
                    \o (PutInt(it.flag, 1) \o (PutInt(it.fr, 4) \o Left(Pieces(it, bs), 0))), Peer)
           = Ok(Built(it, x, 8), <<>>)
<1> DEFINE a  == PutInt(DataFlag(it), 1)
           b  == PutInt(it.flag, 1)
           c  == PutInt(it.fr, 4)
           p  == Pieces(it, bs)
           L(i) == Left(p, i)
           m2 == c \o L(0)
           m1 == b \o m2
           m0 == a \o m1
           dataFlag == GetUint(m0, 1)
           flag     == GetUint(dataFlag.buf, 1)
           fr       == GetInt(flag.buf, 4)
           start    == Ok([NewItem EXCEPT !.flag = flag.v, !.fr = fr.v], fr.buf)
           F(f) == [i \in 0 .. 8 |->
                      IF i = 0 THEN start
                      ELSE IF IsDataFlag(i - 1, dataFlag.v)
                      THEN NextField(f[i - 1], Fields[i], flag.v, Peer) ELSE f[i - 1]]
           h    == CHOOSE f : f = F(f)
           W(i) == Ok(Built(it, x, i), L(i))
           w    == [i \in 0 .. 8 |-> W(i)]
<1>1. ParseBin(m0, Peer) = IF fr.st # "ok" THEN fr ELSE h[8]
  BY DEF ParseBin
<1>2. /\ InUnsigned(DataFlag(it), 1) /\ InUnsigned(it.flag, 1) /\ InSigned(it.fr, 4)
      /\ a \in Seq(Int) /\ b \in Seq(Int) /\ c \in Seq(Int)
  <2>1. InUnsigned(DataFlag(it), 1) /\ InUnsigned(it.flag, 1) /\ InSigned(it.fr, 4)
    BY BitsTell DEF FieldsFit
  <2>2. DataFlag(it) \in Int /\ it.flag \in Int /\ it.fr \in Int
    BY <2>1 DEF InUnsigned, InSigned
  <2>3. QED BY <2>1, <2>2, IntSeq
<1>3. L(0) \in Seq(Int)
  OBVIOUS
<1>4. m2 \in Seq(Int) /\ m1 \in Seq(Int)
  <2> HIDE DEF L, b, c
  <2>1. m2 \in Seq(Int)
    BY <1>2, <1>3, ConcatProperties
  <2> HIDE DEF m2
  <2>2. QED BY <1>2, <2>1, ConcatProperties
<1>5. dataFlag.v = DataFlag(it) /\ dataFlag.buf = m1
  <2> HIDE DEF m1, m2
  <2>1. dataFlag = Ok(DataFlag(it), m1)
    BY <1>2, <1>4, UintRead
  <2>2. QED BY <2>1, OkFields
<1>6. flag.v = it.flag /\ flag.buf = m2
  <2> HIDE DEF dataFlag
  <2>1. flag = GetUint(m1, 1)
    BY <1>5
  <2> HIDE DEF flag, m2
  <2>2. flag = Ok(it.flag, m2)
    BY <1>2, <1>4, <2>1, UintRead
  <2>3. QED BY <2>2, OkFields
<1>7. fr.st = "ok" /\ fr.v = it.fr /\ fr.buf = L(0)
  <2> HIDE DEF flag
  <2>1. fr = GetInt(m2, 4)
    BY <1>6
  <2> HIDE DEF fr, L
  <2>2. fr = Ok(it.fr, L(0))
    BY <1>2, <1>3, <2>1, IntRead
  <2>3. QED BY <2>2, OkFields
<1>8. start = W(0)
  <2> HIDE DEF flag, fr, L
  <2>1. [NewItem EXCEPT !.flag = it.flag, !.fr = it.fr] = Built(it, x, 0)
    <3> DEFINE u == it.flag
               v == it.fr
    <3>1. Built(it, x, 0) = [flag |-> u, fr |-> v, id |-> 0, type |-> 0, topic |-> NoText,
                             srcClientId |-> 0, to |-> 0, callback |-> NoText, cxt |-> NullVal,
                             data |-> NullVal]
      BY DEF Built
    <3> HIDE DEF u, v
    <3>2. [NewItem EXCEPT !.flag = u, !.fr = v]
            = [flag |-> u, fr |-> v, id |-> 0, type |-> 0, topic |-> NoText, srcClientId |-> 0,
               to |-> 0, callback |-> NoText, cxt |-> NullVal, data |-> NullVal]
      BY ZeroedItem
    <3>3. QED BY <3>1, <3>2 DEF u, v
  <2>2. QED BY <1>6, <1>7, <2>1
<1> HIDE DEF start, flag, fr
<1>9. ASSUME NEW i \in 1 .. 8 PROVE W(i) = NextTurn(it, i, W(i - 1))
  BY ReadGoesOn
<1> HIDE DEF W
<1>10. ASSUME NEW i \in 1 .. 8, NEW r
       PROVE  (IF IsDataFlag(i - 1, dataFlag.v) THEN NextField(r, Fields[i], flag.v, Peer) ELSE r)
                = NextTurn(it, i, r)
  <2> HIDE DEF dataFlag
  <2>1. QED BY <1>5, <1>6 DEF NextTurn
<1> HIDE DEF dataFlag
<1>11. w = F(w)
  <2> DEFINE G(i) == IF i = 0 THEN start
                     ELSE IF IsDataFlag(i - 1, dataFlag.v)
                     THEN NextField(w[i - 1], Fields[i], flag.v, Peer) ELSE w[i - 1]
  <2>1. ASSUME NEW i \in 0 .. 8 PROVE w[i] = G(i)
    <3>1. CASE i = 0
      BY <1>8, <3>1
    <3>2. CASE i # 0
      <4>1. i \in 1 .. 8 /\ i - 1 \in 0 .. 8
        BY <3>2
      <4>2. w[i] = W(i) /\ w[i - 1] = W(i - 1)
        BY <4>1
      <4> HIDE DEF w
      <4>3. G(i) = NextTurn(it, i, w[i - 1])
        BY <1>10, <3>2, <4>1
      <4> HIDE DEF G
      <4>4. QED BY <1>9, <4>1, <4>2, <4>3
    <3>3. QED BY <3>1, <3>2
  <2>2. w = [i \in 0 .. 8 |-> w[i]]
    OBVIOUS
  <2>3. F(w) = [i \in 0 .. 8 |-> G(i)]
    OBVIOUS
  <2> HIDE DEF w, G, F
  <2>4. [i \in 0 .. 8 |-> w[i]] = [i \in 0 .. 8 |-> G(i)]
    BY <2>1
  <2>5. QED BY <2>2, <2>3, <2>4
<1>12. h = F(h)
  <2> HIDE DEF w, F
  <2>1. QED BY <1>11
<1> HIDE DEF h
<1>13. h[0] = W(0) /\ \A i \in 1 .. 8 : h[i] = NextTurn(it, i, h[i - 1])
  <2> DEFINE G(i) == IF i = 0 THEN start
                     ELSE IF IsDataFlag(i - 1, dataFlag.v)
                     THEN NextField(h[i - 1], Fields[i], flag.v, Peer) ELSE h[i - 1]
  <2>1. F(h) = [i \in 0 .. 8 |-> G(i)]
    OBVIOUS
  <2> HIDE DEF G, F
  <2>2. \A i \in 0 .. 8 : h[i] = G(i)
    BY <1>12, <2>1
  <2>3. h[0] = W(0)
    <3>1. G(0) = start
      BY DEF G
    <3>2. QED BY <1>8, <2>2, <3>1
  <2>4. ASSUME NEW i \in 1 .. 8 PROVE h[i] = NextTurn(it, i, h[i - 1])
    <3>1. i \in 0 .. 8 /\ i # 0
      OBVIOUS
    <3>2. h[i] = G(i)
      BY <2>2, <3>1
    <3>3. G(i) = IF IsDataFlag(i - 1, dataFlag.v)
                 THEN NextField(h[i - 1], Fields[i], flag.v, Peer) ELSE h[i - 1]
      BY <3>1 DEF G
    <3>4. QED BY <1>10, <3>2, <3>3
  <2>5. QED BY <2>3, <2>4
<1> DEFINE T(i) == h[i] = W(i)
<1>14. ASSUME NEW i \in 1 .. 8, T(i - 1) PROVE T(i)
  <2>1. h[i] = NextTurn(it, i, h[i - 1])
    BY <1>13
  <2>2. W(i) = NextTurn(it, i, W(i - 1))
    BY <1>9
  <2>3. QED BY <1>14, <2>1, <2>2
<1>15. T(0)
  BY <1>13
<1> HIDE DEF T
<1>16. T(8)
  <2>1. T(1) BY <1>14, <1>15, Powers
  <2>2. T(2) BY <1>14, <2>1, Powers
  <2>3. T(3) BY <1>14, <2>2, Powers
  <2>4. T(4) BY <1>14, <2>3, Powers
  <2>5. T(5) BY <1>14, <2>4, Powers
  <2>6. T(6) BY <1>14, <2>5, Powers
  <2>7. T(7) BY <1>14, <2>6, Powers
  <2>8. QED BY <1>14, <2>7, Powers
<1>17. L(8) = <<>>
  BY LeftIs
<1>18. h[8] = Ok(Built(it, x, 8), <<>>)
  BY <1>16, <1>17 DEF T, W
<1>19. ParseBin(m0, Peer) = Ok(Built(it, x, 8), <<>>)
  BY <1>1, <1>7, <1>18
<1>20. QED BY <1>19

(* An item without a context arrives with all its fields, whichever of     *)
(* them are sent, when its data goes over the wire (_c_serialPsItem,       *)
(* psitem_pubsubItemParseBin).                                             *)
THEOREM ItemGoes ==
  ASSUME NEW it, FieldsFit(it), it.cxt = NullVal, NEW bs, NEW x, DataGoes(it, bs, x)
  PROVE  ParseBin(SerialPsItem(it).bytes, Peer) = Ok(Built(it, x, 8), <<>>)
<1> DEFINE p == Pieces(it, bs)
           b == PutInt(DataFlag(it), 1) \o (PutInt(it.flag, 1) \o (PutInt(it.fr, 4) \o Left(p, 0)))
<1>1. ASSUME NEW i \in 1 .. 8 PROVE p[i] \in Seq(Int)
  <2>1. <<>> \in Seq(Int)
    OBVIOUS
  <2>2. PieceGoes(it, x, i, p[i], <<>>)
    BY <2>1, FieldGoes
  <2>3. QED BY <2>2 DEF PieceGoes
<1>2. \A j \in 0 .. 8 : Left(p, j) \in Seq(Int)
  <2> HIDE DEF p
  <2>1. QED BY <1>1, LeftBytes
<1>3. SerialPsItem(it) = Out(b)
  BY <1>1, ItemWritten DEF DataGoes
<1>4. SerialPsItem(it).bytes = b
  <2> HIDE DEF b
  <2>1. QED BY <1>3 DEF Out
<1>5. ParseBin(b, Peer) = Ok(Built(it, x, 8), <<>>)
  BY <1>2, ItemParsed
<1>6. QED BY <1>4, <1>5
-----------------------------------------------------------------------------
\* The address of the sender in the data of an item.

\* The keys of the address of the sender.
LEMMA PeerKeys ==
  /\ HostKey \in Seq(1 .. 127) /\ HostKey # <<>>
  /\ PortKey \in Seq(1 .. 127) /\ PortKey # <<>>
<1>1. HostKey \in Seq(1 .. 127)
  BY SMT DEF HostKey
<1>2. PortKey \in Seq(1 .. 127)
  BY SMT DEF PortKey
<1>3. Len(HostKey) = 4 /\ Len(PortKey) = 4
  BY SMT DEF HostKey, PortKey
<1>4. HostKey # <<>> /\ PortKey # <<>>
  <2>1. Len(<<>>) = 0
    OBVIOUS
  <2>2. Len(HostKey) # 0 /\ Len(PortKey) # 0
    BY <1>3
  <2>3. QED BY ONLY <2>1, <2>2
<1>5. QED BY <1>1, <1>2, <1>4

\* A key that is put into a map in which it is not found.
PutInto(m, key, p) ==
  /\ IsMap(p) /\ p.keyType = StringT
  /\ HasKey(p, key)
  /\ Len(p.hd) \in Len(m.hd) .. Len(m.hd) + 1
  /\ \A i \in 1 .. Len(m.hd) : p.hd[i] = m.hd[i]

\* A key is put unless it is there; what was in the map stays.
LEMMA PutIfNew ==
  ASSUME NEW m, IsMap(m), m.keyType = StringT, NEW key \in Seq(1 .. 127), key # <<>>, NEW type, NEW v
  PROVE  /\ PutInto(m, key, IF HasKey(m, key) THEN m ELSE Put(m, key, type, v))
         /\ \A k : HasKey(m, k) => HasKey(IF HasKey(m, key) THEN m ELSE Put(m, key, type, v), k)
<1>1. Len(m.hd) \in Nat
  BY LenProperties DEF IsMap, IsList
<1>2. CASE HasKey(m, key)
  BY <1>1, <1>2 DEF PutInto
<1>3. CASE ~HasKey(m, key)
  <2> DEFINE ex == SetVal(NewEntry(key, type), v)
             h  == Append(m.hd, ex)
             p  == Put(m, key, type, v)
             n  == Len(m.hd)
  <2>1. Find(m, key) = 0
    BY <1>3 DEF HasKey
  <2>2. p = [keyType |-> StringT, hd |-> h, size |-> m.size + 1] /\ IsEntry(ex) /\ ex.key = key
    BY <2>1, PutNew
  <2> HIDE DEF ex, p
  <2>3. p.keyType = StringT /\ p.hd = h
    BY <2>2
  <2>4. /\ IsList(h) /\ Len(h) = n + 1 /\ h[n + 1] = ex
        /\ \A i \in 1 .. n : h[i] = m.hd[i]
    <3> DEFINE S == ToSet(m.hd) \cup {ex}
    <3>1. m.hd \in Seq(S) /\ ex \in S
      <4>1. m.hd \in Seq(ToSet(m.hd)) /\ ToSet(m.hd) \subseteq S
        BY DEF IsMap, IsList
      <4> HIDE DEF S
      <4>2. m.hd \in Seq(S)
        BY <4>1, SeqGrows
      <4>3. QED BY <4>2 DEF S
    <3> HIDE DEF S
    <3>2. h \in Seq(S) /\ Len(h) = n + 1 /\ h[n + 1] = ex /\ \A i \in 1 .. n : h[i] = m.hd[i]
      BY <3>1, AppendProperties
    <3> HIDE DEF h
    <3>3. QED BY <3>2, ListOf
  <2> HIDE DEF h
  <2>5. IsMap(p)
    BY <2>2, <2>4 DEF IsMap
  <2>6. ASSUME NEW k, NEW i \in 1 .. Len(p.hd), SameKey(StringT, k, p.hd[i].key)
        PROVE  HasKey(p, k)
    <3>1. \/ Find(p, k) = 0 /\ \A j \in 1 .. Len(p.hd) : ~SameKey(p.keyType, k, p.hd[j].key)
          \/ Find(p, k) \in 1 .. Len(p.hd)
      BY <2>5, FindFirst
    <3>2. Find(p, k) \in 1 .. Len(p.hd)
      BY <2>3, <2>6, <3>1
    <3>3. Len(p.hd) \in Nat
      BY <1>1, <2>3, <2>4
    <3>4. QED BY <3>2, <3>3 DEF HasKey
  <2>7. HasKey(p, key)
    <3>1. SameKey(StringT, key, p.hd[n + 1].key) /\ n + 1 \in 1 .. Len(p.hd)
      BY <1>1, <2>2, <2>3, <2>4, TextsCompare
    <3>2. QED BY <2>6, <3>1
  <2>8. ASSUME NEW k, HasKey(m, k) PROVE HasKey(p, k)
    <3> DEFINE i == Find(m, k)
    <3>1. i # 0
      BY <2>8 DEF HasKey
    <3>2. i \in 1 .. n /\ SameKey(StringT, k, m.hd[i].key)
      BY <3>1, FindFirst
    <3> HIDE DEF i
    <3>3. i \in 1 .. Len(p.hd) /\ p.hd[i] = m.hd[i]
      BY <1>1, <2>3, <2>4, <3>2
    <3>4. QED BY <2>6, <3>2, <3>3
  <2>9. PutInto(m, key, p)
    BY <1>1, <2>3, <2>4, <2>5, <2>7 DEF PutInto
  <2>10. QED BY <1>3, <2>8, <2>9 DEF p
<1>4. QED BY <1>2, <1>3

\* The data with the address of its sender: at most two entries behind it.
PeerIn(v, x) ==
  LET m == MapOf(x) IN
  /\ HasKey(m, HostKey) /\ HasKey(m, PortKey)
  /\ \E n \in 0 .. 2 : SubSeq(m.hd, 1, Len(m.hd) - n) = v.e

(* The address of the sender is in the data of an item, whatever map that  *)
(* is, behind all that was in it (psitem_pubsubItemParseBin).              *)
THEOREM PeerAdded ==
  ASSUME NEW U, NEW v, v.e \in Seq(U), v.n = <<StringT>>, NEW peer
  PROVE  PeerIn(v, WithPeer(v, peer))
<1> DEFINE m == MapOf(v)
           a == IF HasKey(m, HostKey) THEN m ELSE Put(m, HostKey, StringT, Text(peer.host))
           b == IF HasKey(a, PortKey) THEN a ELSE Put(a, PortKey, IntT, Num(peer.port))
           x == WithPeer(v, peer)
<1>1. m.keyType = StringT /\ m.hd = v.e /\ IsMap(m)
  <2>1. IsList(v.e)
    BY ListOf
  <2>2. v.n[1] = StringT
    <3> DEFINE t == StringT
    <3>1. v.n = <<t>>
      OBVIOUS
    <3> HIDE DEF t
    <3>2. v.n[1] = t
      BY <3>1
    <3>3. QED BY <3>2 DEF t
  <2>3. QED BY <2>1, <2>2 DEF MapOf, IsMap
<1>2. x = MapVal(b)
  BY DEF WithPeer
<1> HIDE DEF m, x
<1>3. PutInto(m, HostKey, a)
  BY <1>1, PeerKeys, PutIfNew
<1> HIDE DEF a
<1>4. PutInto(a, PortKey, b) /\ \A k : HasKey(a, k) => HasKey(b, k)
  <2>1. IsMap(a) /\ a.keyType = StringT
    BY <1>3 DEF PutInto
  <2>2. QED BY <2>1, PeerKeys, PutIfNew
<1> HIDE DEF b
<1>5. HasKey(b, HostKey) /\ HasKey(b, PortKey) /\ IsMap(b) /\ b.keyType = StringT
  BY <1>3, <1>4 DEF PutInto
<1>6. MapOf(x).keyType = StringT /\ MapOf(x).hd = b.hd
  <2>1. x.n = <<b.keyType>> /\ x.e = b.hd
    BY <1>2 DEF MapVal
  <2>2. x.n[1] = b.keyType
    BY <2>1
  <2>3. QED BY <1>5, <2>1, <2>2 DEF MapOf
<1>7. \A k : HasKey(MapOf(x), k) = HasKey(b, k)
  BY <1>5, <1>6 DEF HasKey, Find
<1> DEFINE k == Len(m.hd)
           l == Len(b.hd)
           n == l - k
<1>8. k \in Nat /\ l \in Nat
  <2>1. IsList(m.hd) /\ IsList(b.hd)
    BY <1>1, <1>5 DEF IsMap
  <2>2. QED BY <2>1, LenProperties DEF IsList
<1>9. Len(a.hd) \in k .. k + 1 /\ l \in Len(a.hd) .. Len(a.hd) + 1
  BY <1>3, <1>4 DEF PutInto
<1>10. n \in 0 .. 2 /\ l - n = k /\ k <= l
  <2> HIDE DEF k, l
  <2>1. QED BY <1>8, <1>9
<1>11. \A i \in 1 .. k : b.hd[i] = m.hd[i]
  <2>1. \A i \in 1 .. k : a.hd[i] = m.hd[i]
    BY <1>3 DEF PutInto
  <2>2. \A i \in 1 .. Len(a.hd) : b.hd[i] = a.hd[i]
    BY <1>4 DEF PutInto
  <2> HIDE DEF k, l
  <2>3. \A i \in 1 .. k : i \in 1 .. Len(a.hd)
    BY <1>8, <1>9
  <2>4. QED BY <2>1, <2>2, <2>3
<1>12. SubSeq(b.hd, 1, k) = m.hd
  <2> DEFINE s == b.hd
             t == m.hd
  <2>1. s \in Seq(ToSet(s)) /\ t \in Seq(ToSet(t)) /\ k = Len(t) /\ k <= Len(s)
    BY <1>1, <1>5, <1>10 DEF IsMap, IsList
  <2>2. \A i \in 1 .. k : s[i] = t[i]
    BY <1>11
  <2> HIDE DEF s, t, k
  <2>3. /\ SubSeq(s, 1, k) \in Seq(ToSet(s))
        /\ Len(SubSeq(s, 1, k)) = k
        /\ \A i \in 1 .. k : SubSeq(s, 1, k)[i] = s[i]
    <3>1. 1 \in 1 .. Len(s) + 1 /\ k \in 0 .. Len(s)
      BY <1>8, <2>1, LenProperties
    <3>2. k = k - 1 + 1 /\ \A i \in 1 .. k : 1 + i - 1 = i
      BY <1>8
    <3>3. QED BY <1>8, <2>1, <3>1, <3>2, SubSeqProperties
  <2> DEFINE u == SubSeq(s, 1, k)
  <2> HIDE DEF u
  <2>4. u = t
    <3>1. u = [i \in 1 .. k |-> u[i]] /\ t = [i \in 1 .. k |-> t[i]]
      BY <2>1, <2>3, LenProperties DEF u
    <3>2. \A i \in 1 .. k : u[i] = t[i]
      BY <2>2, <2>3 DEF u
    <3>3. QED BY <3>1, <3>2
  <2>5. QED BY <2>4 DEF u, s, t
<1>13. SubSeq(MapOf(x).hd, 1, Len(MapOf(x).hd) - n) = v.e
  BY <1>1, <1>6, <1>10, <1>12
<1>14. HasKey(MapOf(x), HostKey) /\ HasKey(MapOf(x), PortKey)
  BY <1>5, <1>7
<1> HIDE DEF n
<1>15. QED BY <1>10, <1>13, <1>14 DEF PeerIn, x
-----------------------------------------------------------------------------
\* The data of the items that the program publishes.

\* The data of an item has one of the four encodings.
LEMMA FourEncodings ==
  ASSUME NEW flag, InUnsigned(flag, 1)
  PROVE  DataType(flag) \in {DATA_STRING, DATA_BIN, DATA_JSON, DATA_EXTRA}
<1>1. flag \in 0 .. 255
  BY SMT DEF InUnsigned, Largest
<1>2. DataType(flag) \in 0 .. 3
  BY <1>1, SMT DEF DataType
<1>3. QED BY <1>2 DEF DATA_STRING, DATA_BIN, DATA_JSON, DATA_EXTRA

\* The encodings are different numbers.
LEMMA EncodingsApart ==
  /\ DATA_BIN \notin {DATA_STRING, DATA_JSON, DATA_EXTRA}
  /\ DATA_EXTRA \notin {DATA_STRING, DATA_JSON}
BY DEF DATA_STRING, DATA_BIN, DATA_JSON, DATA_EXTRA

\* What is read of the data, by its encoding.
LEMMA GetDataIs ==
  ASSUME NEW flag, NEW buf
  PROVE  /\ DataType(flag) \in {DATA_STRING, DATA_JSON} =>
              GetData(flag, Peer, buf)
                = IF ReadString(buf).st = "ok"
                  THEN Ok(Text(ReadString(buf).v), ReadString(buf).buf) ELSE ReadString(buf)
         /\ DataType(flag) = DATA_EXTRA =>
              GetData(flag, Peer, buf)
                = IF GetInt(buf, 1).st = "ok"
                  THEN ExtraData(GetInt(buf, 1).v,
                                 DecodeParam(GetInt(buf, 1).v, GetInt(buf, 1).buf), Peer)
                  ELSE GetInt(buf, 1)
<1>1. CASE DataType(flag) \in {DATA_STRING, DATA_JSON}
  <2>1. DataType(flag) # DATA_BIN /\ DataType(flag) # DATA_EXTRA
    BY <1>1, EncodingsApart
  <2>2. QED BY <1>1, <2>1 DEF GetData, Bind
<1>2. CASE DataType(flag) = DATA_EXTRA
  <2>1. DataType(flag) # DATA_BIN /\ DataType(flag) \notin {DATA_STRING, DATA_JSON}
    BY <1>2, EncodingsApart
  <2>2. QED BY <1>2, <2>1 DEF GetData, Bind
<1>3. QED BY <1>1, <1>2, EncodingsApart

\* The data of an item that is a string, or none.
LEMMA TextDataGoes ==
  ASSUME NEW it, it.data = Text(it.data.n), Sendable(it.data.n),
         it.data # NullVal => DataType(it.flag) \in {DATA_STRING, DATA_JSON}
  PROVE  \E bs : DataGoes(it, bs, it.data)
<1>1. CASE it.data = NullVal
  <2>1. SerialData(it) = Out(<<>>)
    BY <1>1 DEF SerialData
  <2>2. <<>> \in Seq(Int)
    OBVIOUS
  <2>3. DataGoes(it, <<>>, it.data)
    BY <1>1, <2>1, <2>2 DEF DataGoes
  <2>4. QED BY <2>3
<1>2. CASE it.data # NullVal
  <2> DEFINE s  == it.data.n
             bs == WriteString(s)
             t  == DataType(it.flag)
  <2>1. t \in {DATA_STRING, DATA_JSON} /\ t # DATA_BIN /\ t # DATA_EXTRA
    BY <1>2, EncodingsApart
  <2>2. SerialData(it) = Out(bs)
    BY <1>2, <2>1 DEF SerialData
  <2>3. s \in Seq(Int) /\ InUnsigned(Len(s), 2) /\ bs \in Seq(Int)
    BY StringBytes DEF Sendable
  <2>4. ASSUME NEW behind \in Seq(Int)
        PROVE  GetData(it.flag, Peer, bs \o behind) = Ok(it.data, behind)
    <3> DEFINE b == bs \o behind
               r == ReadString(b)
    <3>1. r = Ok(s, behind)
      BY <2>3, StringsArrive
    <3>2. r.st = "ok" /\ r.v = s /\ r.buf = behind
      BY <3>1, OkFields
    <3> HIDE DEF b, s
    <3>3. GetData(it.flag, Peer, b) = IF r.st = "ok" THEN Ok(Text(r.v), r.buf) ELSE r
      BY <2>1, GetDataIs
    <3> HIDE DEF r
    <3>4. GetData(it.flag, Peer, b) = Ok(Text(s), behind)
      BY <3>2, <3>3
    <3>5. QED BY <3>4 DEF b, s
  <2> HIDE DEF bs
  <2>5. DataGoes(it, bs, it.data)
    BY <1>2, <2>2, <2>3, <2>4 DEF DataGoes
  <2>6. QED BY <2>5
<1>3. QED BY <1>1, <1>2

\* The map of the program as the data of an item, and what it arrives as.
DataArrives(hd, x) ==
  \E v, U : /\ v.e \in Seq(U) /\ v.n = <<StringT>> /\ ArrivedHere("params", hd, v.e)
            /\ x = WithPeer(v, Peer)

\* The map of the program goes over the wire as the data of an item.
LEMMA MapDataGoes ==
  ASSUME OneLayout, MapContents, map.hd # <<>>, ~FloatIn(map.hd),
         NEW it, it.data = MapVal(map), it.dt = MapT, DataType(it.flag) = DATA_EXTRA,
         SerialData(it).ok
  PROVE  \E bs, x : DataGoes(it, bs, x) /\ DataArrives(map.hd, x)
<1> DEFINE hd == map.hd
           ex == [type |-> it.dt, val |-> it.data, len |-> 0]
           t  == DataType(it.flag)
<1>1. it.data.e = hd /\ it.data # NullVal
  <2>1. MapVal(map).e = hd /\ NullVal.e = <<>>
    BY DEF MapVal, NullVal
  <2>2. QED BY <2>1
<1>2. t # DATA_BIN /\ t \notin {DATA_STRING, DATA_JSON}
  BY EncodingsApart
<1>3. SerialData(it) = EncodeParam(ex, MapT)
  BY <1>1, <1>2 DEF SerialData
<1>4. PICK d \in Nat : hd \in Seq(Holders(Level[d])) /\ Level[d + 1] = Holders(Level[d])
  BY OneLevel DEF MapContents, Contents
<1>5. EncodeParam(ex, MapT) = Cat(Out(PutInt(MapT, 1)), EncodeAll(hd, TRUE))
  <2> DEFINE c == d + 1
             m == MapT
  <2>1. c \in Nat /\ hd \in Seq(Level[c])
    BY <1>4
  <2>2. ex.type = m /\ ex.val.e = hd
    BY <1>1
  <2> HIDE DEF c, ex
  <2>3. EncodeParam(ex, m) = Cat(Out(PutInt(m, 1)), EncodeAll(hd, m = MapT))
    BY <2>1, <2>2, CollectionWritten
  <2>4. (m = MapT) = TRUE
    OBVIOUS
  <2>5. QED BY <2>3, <2>4
<1>6. AllArrive(hd, TRUE)
  BY ContentsGo
<1>7. MapT \in Types /\ MapT \in Maps /\ InSigned(MapT, 1) /\ MapT \in Int
  BY NestedTypes, TypeFits DEF InSigned
<1>8. ~NullIn(hd)
  <2>1. ASSUME NullIn(hd) PROVE FALSE
    <3>1. EncodeAll(hd, TRUE) = Refused
      BY <1>6, <2>1 DEF AllArrive
    <3>2. SerialData(it) = Refused
      BY <1>3, <1>5, <1>7, <3>1, TypedBytes, <<>> \in Seq(Int)
    <3>3. Refused.ok = FALSE
      BY DEF Refused
    <3>4. QED BY <3>2, <3>3
  <2>2. QED BY <2>1
<1>9. PICK bs : bs \in Seq(Int) /\ EncodeAll(hd, TRUE) = Out(bs) /\ ReadAll(hd, TRUE, bs)
  BY <1>6, <1>8 DEF AllArrive
<1>10. PICK v, U : /\ v.e \in Seq(U) /\ ArrivedHere("params", Keys(TRUE, hd), v.e)
                   /\ v.n = <<StringT>>
                   /\ \A behind \in Seq(Int) : GetAll(TRUE, bs \o behind) = Ok(v, behind)
  BY <1>9 DEF ReadAll
<1>11. Keys(TRUE, hd) = hd
  BY DEF Keys
<1> DEFINE out == PutInt(MapT, 1) \o bs
           x   == WithPeer(v, Peer)
<1>12. SerialData(it) = Out(out) /\ out \in Seq(Int)
  <2>1. SerialData(it) = Out(out)
    BY <1>3, <1>5, <1>7, <1>9, TypedBytes
  <2>2. PutInt(MapT, 1) \in Seq(Int)
    BY <1>7, IntSeq
  <2>3. QED BY <1>9, <2>1, <2>2, ConcatProperties
<1>13. ASSUME NEW behind \in Seq(Int)
       PROVE  GetData(it.flag, Peer, out \o behind) = Ok(x, behind)
  <2> DEFINE m     == MapT
             front == PutInt(m, 1)
             rest  == bs \o behind
             r     == GetInt(front \o rest, 1)
  <2>1. front \in Seq(Int) /\ rest \in Seq(Int)
    BY <1>7, <1>9, IntSeq, ConcatProperties
  <2>2. out \o behind = front \o rest
    <3>1. Joined(front, bs, behind)
      BY <1>9, <2>1, TwoParts
    <3>2. QED BY <3>1 DEF Joined
  <2>3. r.st = "ok" /\ r.v = m /\ r.buf = rest
    <3>1. InSigned(m, 1)
      BY <1>7
    <3> HIDE DEF m, rest
    <3>2. r = Ok(m, rest)
      BY <2>1, <3>1, IntRead
    <3> HIDE DEF r
    <3>3. QED BY <3>2, OkFields
  <2>4. GetData(it.flag, Peer, out \o behind)
          = IF r.st = "ok" THEN ExtraData(r.v, DecodeParam(r.v, r.buf), Peer) ELSE r
    <3> DEFINE b == out \o behind
    <3>1. b = front \o rest
      BY <2>2
    <3> HIDE DEF b, front, rest
    <3>2. GetData(it.flag, Peer, b) = IF r.st = "ok" THEN ExtraData(r.v, DecodeParam(r.v, r.buf), Peer) ELSE r
      BY <3>1, GetDataIs
    <3>3. QED BY <3>2 DEF b
  <2> HIDE DEF r
  <2>5. GetData(it.flag, Peer, out \o behind) = ExtraData(m, DecodeParam(m, rest), Peer)
    BY <2>3, <2>4
  <2>7. DecodeParam(MapT, rest) = Ok(v, behind)
    <3>1. DecodeParam(MapT, rest) = DecodeValue(MapT, rest)
      <4> HIDE DEF rest
      <4>1. QED BY <1>7, <2>1 DEF OneLayout
    <3>2. GetAll(TRUE, rest) = Ok(v, behind)
      BY <1>10
    <3> HIDE DEF rest
    <3>3. QED BY <3>1, <3>2, CollectionRead
  <2>8. ExtraData(MapT, Ok(v, behind), Peer) = Ok(x, behind)
    <3> DEFINE o == Ok(v, behind)
    <3>1. o.st = "ok" /\ o.v = v /\ o.buf = behind
      BY OkFields
    <3> HIDE DEF o
    <3>2. QED BY <1>7, <3>1 DEF ExtraData, o
  <2>9. QED BY <2>5, <2>7, <2>8
<1> HIDE DEF out
<1>14. DataGoes(it, out, x)
  BY <1>1, <1>12, <1>13 DEF DataGoes
<1>15. DataArrives(hd, x)
  <2>1. ArrivedHere("params", hd, v.e)
    BY <1>10, <1>11
  <2>2. QED BY <1>10, <2>1 DEF DataArrives
<1>16. QED BY <1>14, <1>15
-----------------------------------------------------------------------------
\* The program publishes items.

\* What arrives of an item is what was published.
FieldsCame(it, v) ==
  [v EXCEPT !.data = NullVal] = [f \in DOMAIN v |-> IF f = "data" THEN NullVal ELSE it[f]]
DataCame(it, v) ==
  IF DataType(v.flag) # DATA_EXTRA THEN v.data = it.data
  ELSE LET m == MapOf(v.data) IN
       /\ HasKey(m, HostKey) /\ HasKey(m, PortKey)
       /\ \E n \in 0 .. 2 : Arrived("params", it.data.e, SubSeq(m.hd, 1, Len(m.hd) - n))
ItemCame(it, r) ==
  r.st = "ok" /\ r.buf = <<>> /\ FieldsCame(it, r.v) /\ DataCame(it, r.v)

\* An item of which all fields are read is the one that was sent, but for its data.
LEMMA BuiltWhole ==
  ASSUME NEW it, it.cxt = NullVal, NEW x, NEW r, r = Built(it, x, 8)
  PROVE  /\ r.flag = it.flag /\ r.data = x
         /\ FieldsCame(it, r)
<1>1. r = [flag |-> it.flag, fr |-> it.fr, id |-> it.id, type |-> it.type, topic |-> it.topic,
           srcClientId |-> it.srcClientId, to |-> it.to, callback |-> it.callback,
           cxt |-> it.cxt, data |-> x]
  BY DEF Built
<1>2. r.flag = it.flag /\ r.data = x
  BY <1>1
<1>3. \A f \in DOMAIN r : f # "data" => r[f] = it[f]
  BY <1>1
<1>4. r = [f \in DOMAIN r |-> r[f]] /\ "data" \in DOMAIN r
  BY <1>1
<1>5. [r EXCEPT !.data = NullVal] = [f \in DOMAIN r |-> IF f = "data" THEN NullVal ELSE it[f]]
  BY <1>3, <1>4
<1>6. QED BY <1>2, <1>5 DEF FieldsCame

\* An item whose data goes.
LEMMA ItemCameText ==
  ASSUME NEW it, FieldsFit(it), it.cxt = NullVal, NEW bs, DataGoes(it, bs, it.data),
         DataType(it.flag) # DATA_EXTRA
  PROVE  ItemCame(it, ParseBin(SerialPsItem(it).bytes, Peer))
<1> DEFINE v == Built(it, it.data, 8)
           r == ParseBin(SerialPsItem(it).bytes, Peer)
<1>1. r = Ok(v, <<>>)
  BY ItemGoes
<1>2. r.st = "ok" /\ r.v = v /\ r.buf = <<>>
  <2> HIDE DEF r, v
  <2>1. QED BY <1>1, OkFields
<1>3. /\ v.flag = it.flag /\ v.data = it.data
      /\ FieldsCame(it, v)
  BY BuiltWhole
<1> HIDE DEF r, v
<1>4. DataCame(it, v)
  BY <1>3 DEF DataCame
<1>5. ItemCame(it, r)
  BY <1>2, <1>3, <1>4 DEF ItemCame
<1>6. QED BY <1>5 DEF r

\* An item with the map of the program as its data, which has the sender's address in it.
LEMMA ItemCameMap ==
  ASSUME OneLayout, MapContents, NEW it, FieldsFit(it), it.cxt = NullVal, it.data = MapVal(map),
         NEW bs, NEW x, DataGoes(it, bs, x), DataArrives(map.hd, x)
  PROVE  DataType(it.flag) = DATA_EXTRA => ItemCame(it, ParseBin(SerialPsItem(it).bytes, Peer))
<1> DEFINE v == Built(it, x, 8)
           r == ParseBin(SerialPsItem(it).bytes, Peer)
<1>1. r = Ok(v, <<>>)
  BY ItemGoes
<1>2. r.st = "ok" /\ r.v = v /\ r.buf = <<>>
  <2> HIDE DEF r, v
  <2>1. QED BY <1>1, OkFields
<1>3. /\ v.flag = it.flag /\ v.data = x
      /\ FieldsCame(it, v)
  BY BuiltWhole
<1> HIDE DEF r, v
<1>4. PICK u, U : /\ u.e \in Seq(U) /\ u.n = <<StringT>> /\ ArrivedHere("params", map.hd, u.e)
                  /\ x = WithPeer(u, Peer)
  BY DEF DataArrives
<1>5. PeerIn(u, x)
  BY <1>4, PeerAdded
<1>6. Arrived("params", map.hd, u.e)
  <2>1. PICK d \in Nat : map.hd \in Seq(Level[d])
    BY DEF MapContents, Contents
  <2>2. Arrived("params", map.hd, u.e) = ArrivedHere("params", map.hd, u.e)
    BY <2>1 DEF OneLayout
  <2>3. QED BY <1>4, <2>2
<1>7. it.data.e = map.hd
  BY DEF MapVal
<1> DEFINE m == MapOf(x)
<1>8. HasKey(m, HostKey) /\ HasKey(m, PortKey)
  BY <1>5 DEF PeerIn
<1>9. \E n \in 0 .. 2 : Arrived("params", it.data.e, SubSeq(m.hd, 1, Len(m.hd) - n))
  <2>1. PICK n \in 0 .. 2 : SubSeq(m.hd, 1, Len(m.hd) - n) = u.e
    BY <1>5 DEF PeerIn
  <2>2. QED BY <1>6, <1>7, <2>1
<1>10. ASSUME DataType(it.flag) = DATA_EXTRA PROVE DataCame(it, v)
  BY <1>3, <1>8, <1>9, <1>10 DEF DataCame
<1>11. ASSUME DataType(it.flag) = DATA_EXTRA PROVE ItemCame(it, r)
  BY <1>2, <1>3, <1>10, <1>11 DEF ItemCame
<1>12. QED BY <1>11 DEF r
-----------------------------------------------------------------------------
\* The map of the program, put into an item.
DataSet(it, item, data) == it = [item EXCEPT !.data = data]

\* Data that is put into an item changes nothing else of it.
LEMMA DataIn ==
  ASSUME NEW item, FieldsFit(item), NEW it, NEW data, DataSet(it, item, data)
  PROVE  FieldsFit(it) /\ it.data = data /\ it.flag = item.flag /\ it.dt = item.dt
<1>1. item = [flag |-> item.flag, fr |-> item.fr, id |-> item.id, type |-> item.type,
              topic |-> item.topic, srcClientId |-> item.srcClientId, to |-> item.to,
              callback |-> item.callback, cxt |-> item.cxt, dt |-> item.dt, data |-> item.data]
  BY DEF FieldsFit
<1>2. it = [flag |-> item.flag, fr |-> item.fr, id |-> item.id, type |-> item.type,
            topic |-> item.topic, srcClientId |-> item.srcClientId, to |-> item.to,
            callback |-> item.callback, cxt |-> item.cxt, dt |-> item.dt, data |-> data]
  BY <1>1 DEF DataSet
<1>3. /\ it.flag = item.flag /\ it.fr = item.fr /\ it.id = item.id /\ it.type = item.type
      /\ it.topic = item.topic /\ it.srcClientId = item.srcClientId /\ it.to = item.to
      /\ it.callback = item.callback /\ it.cxt = item.cxt /\ it.dt = item.dt /\ it.data = data
  BY <1>2
<1>4. it = [flag |-> it.flag, fr |-> it.fr, id |-> it.id, type |-> it.type, topic |-> it.topic,
            srcClientId |-> it.srcClientId, to |-> it.to, callback |-> it.callback,
            cxt |-> it.cxt, dt |-> it.dt, data |-> it.data]
  BY <1>2, <1>3
<1>5. /\ InUnsigned(item.flag, 1) /\ InSigned(item.type, 1)
      /\ InSigned(item.fr, 4) /\ InSigned(item.id, 4) /\ InSigned(item.srcClientId, 4)
      /\ InSigned(item.to, 4) /\ Sendable(item.topic) /\ Sendable(item.callback)
  BY DEF FieldsFit
<1>6. FieldsFit(it)
  BY <1>3, <1>4, <1>5 DEF FieldsFit
<1>7. QED BY <1>3, <1>6

\* The item that is published arrives, and stays so until another one is published.
LEMMA ItemPublished ==
  ASSUME OneLayout, MapContents, Publish, map' = map
  PROVE  ItemArrives'
<1>1. PICK item \in IF ops = 0 THEN Items ELSE MapItems :
        LET it  == IF ops = 0 THEN item ELSE [item EXCEPT !.data = MapVal(map)]
            out == SerialPsItem(it)
        IN out.ok /\ got' = [op |-> "item", item |-> it, r |-> ParseBin(out.bytes, Peer)]
  BY DEF Publish
<1> DEFINE it  == IF ops = 0 THEN item ELSE [item EXCEPT !.data = MapVal(map)]
           out == SerialPsItem(it)
           r   == ParseBin(out.bytes, Peer)
<1>2. out.ok /\ got' = [op |-> "item", item |-> it, r |-> r]
  BY <1>1
<1>3. ItemsAssumption
  BY TypedDataAssumption
<1>4. CASE ops = 0
  <2>1. it = item /\ item \in Items
    BY <1>4
  <2> HIDE DEF it
  <2>2. FieldsFit(it) /\ it.data = Text(it.data.n) /\ Sendable(it.data.n)
    BY <1>3, <2>1 DEF ItemsAssumption
  <2>3. ASSUME Agreed(it) PROVE ItemCame(it, r)
    <3>1. it.cxt = NullVal /\ DataType(it.flag) # DATA_BIN
      BY <2>3 DEF Agreed
    <3>2. it.data.e = <<>>
      <4>1. \A s : Text(s).e = <<>>
        BY DEF Text
      <4>2. QED BY <2>2, <4>1
    <3>3. DataType(it.flag) # DATA_EXTRA
      BY <2>3, <3>2 DEF Agreed
    <3>4. DataType(it.flag) \in {DATA_STRING, DATA_JSON}
      <4>1. InUnsigned(it.flag, 1)
        BY <2>2 DEF FieldsFit
      <4>2. QED BY <3>1, <3>3, <4>1, FourEncodings
    <3>5. PICK bs : DataGoes(it, bs, it.data)
      BY <2>2, <3>4, TextDataGoes
    <3>6. QED BY <2>2, <3>1, <3>3, <3>5, ItemCameText
  <2> HIDE DEF r
  <2>4. got'.op = "item" /\ got'.item = it /\ got'.r = r
    BY <1>2
  <2>5. Agreed(got.item)' = Agreed(it)
    BY <2>4 DEF Agreed, FloatIn
  <2>6. QED BY <2>3, <2>4, <2>5 DEF ItemArrives, ItemCame, FieldsCame, DataCame
<1>5. CASE ops # 0
  <2>1. DataSet(it, item, MapVal(map)) /\ item \in MapItems
    BY <1>5 DEF DataSet
  <2> HIDE DEF it
  <2>2. FieldsFit(item) /\ DataType(item.flag) = DATA_EXTRA /\ item.dt = MapT
    BY <1>3, <2>1 DEF ItemsAssumption
  <2>3. FieldsFit(it) /\ it.data = MapVal(map) /\ DataType(it.flag) = DATA_EXTRA /\ it.dt = MapT
    BY <2>1, <2>2, DataIn
  <2>4. ASSUME Agreed(it) PROVE ItemCame(it, r)
    <3>1. it.cxt = NullVal /\ it.data.e # <<>> /\ ~FloatIn(it.data.e)
      BY <2>3, <2>4 DEF Agreed
    <3>2. it.data.e = map.hd
      BY <2>3 DEF MapVal
    <3>3. SerialData(it).ok
      <4>1. \A a, b : Cat(a, b).ok => b.ok
        BY DEF Cat, Refused
      <4>2. \E a : out = Cat(a, SerialData(it))
        BY DEF SerialPsItem
      <4>3. QED BY <1>2, <4>1, <4>2
    <3>4. PICK bs, x : DataGoes(it, bs, x) /\ DataArrives(map.hd, x)
      BY <2>3, <3>1, <3>2, <3>3, MapDataGoes
    <3>5. QED BY <2>3, <3>1, <3>4, ItemCameMap
  <2> HIDE DEF r
  <2>5. got'.op = "item" /\ got'.item = it /\ got'.r = r
    BY <1>2
  <2>6. Agreed(got.item)' = Agreed(it)
    BY <2>5 DEF Agreed, FloatIn
  <2>7. QED BY <2>4, <2>5, <2>6 DEF ItemArrives, ItemCame, FieldsCame, DataCame
<1>6. QED BY <1>4, <1>5

LEMMA NextItems ==
  ASSUME OneLayout, MapContents, ItemArrives, [Next]_vars
  PROVE  ItemArrives'
<1>1. CASE got' = got /\ map' = map
  BY <1>1 DEF ItemArrives, Agreed, FloatIn
<1>2. CASE got' = Nothing
  BY <1>2, OpsTell DEF ItemArrives
<1>3. CASE Deliver /\ map' = map
  <2>1. CASE Publish
    BY <1>3, <2>1, ItemPublished
  <2>2. CASE SendExtra \/ SendParams
    <3>1. got'.op # "item"
      BY <2>2, OpsTell
    <3>2. QED BY <3>1 DEF ItemArrives
  <2>3. QED BY <1>3, <2>1, <2>2 DEF Deliver
<1>4. QED BY <1>1, <1>2, <1>3, ReceivedStays

(* An item that is published arrives with all its fields, whichever of     *)
(* them are set, and with its text, or with whatever map the program has   *)
(* built for it and the address of its sender (_c_serialPsItem,            *)
(* psitem_pubsubItemParseBin).                                             *)
THEOREM ItemsArrive ==
  ASSUME OneLayout
  PROVE  Spec => []ItemArrives
<1>1. Init => MapContents /\ ItemArrives
  BY InitContents, OpsTell DEF Init, ItemArrives
<1>2. MapContents /\ ItemArrives /\ [Next]_vars => (MapContents /\ ItemArrives)'
  BY NextContents, NextItems
<1>3. QED BY <1>1, <1>2, PTL DEF Spec
=============================================================================
