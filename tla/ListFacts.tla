----------------------------- MODULE ListFacts -----------------------------
(***************************************************************************)
(* What the operations on the lists of the program do: an item is added at *)
(* the end if it is not there, and unlinked once; and what FlattenSeq      *)
(* makes of a list of sequences, one more of them at the end or in front.  *)
(***************************************************************************)
EXTENDS Integers, SequencesExt, SequenceTheorems, WellFoundedInduction, TLAPS

\* A list without repetitions.
Simple(s, S) == s \in Seq(S) /\ IsInjective(s)

LEMMA SimpleEmpty == ASSUME NEW S PROVE Simple(<<>>, S) /\ ToSet(<<>>) = {}
BY DEF Simple, IsInjective, ToSet

\* Adding an element at the end.
LEMMA AppendSimple ==
  ASSUME NEW S, NEW s, Simple(s, S), NEW e \in S
  PROVE  /\ Append(s, e) \in Seq(S)
         /\ ToSet(Append(s, e)) = ToSet(s) \cup {e}
         /\ e \notin ToSet(s) => Simple(Append(s, e), S)
<1>1. /\ Append(s, e) \in Seq(S) /\ Len(s) \in Nat
      /\ DOMAIN s = 1 .. Len(s)
      /\ DOMAIN Append(s, e) = 1 .. Len(s) + 1
      /\ \A i \in 1 .. Len(s) : Append(s, e)[i] = s[i]
      /\ Append(s, e)[Len(s) + 1] = e
  BY LenProperties DEF Simple
<1>2. ToSet(Append(s, e)) = ToSet(s) \cup {e}
  <2>1. ASSUME NEW x \in ToSet(Append(s, e)) PROVE x \in ToSet(s) \cup {e}
    BY <1>1 DEF ToSet
  <2>2. ToSet(s) \subseteq ToSet(Append(s, e))
    BY <1>1 DEF ToSet
  <2>3. e \in ToSet(Append(s, e))
    BY <1>1 DEF ToSet
  <2>4. QED BY <2>1, <2>2, <2>3
<1>3. ASSUME e \notin ToSet(s) PROVE IsInjective(Append(s, e))
  <2>1. \A i \in 1 .. Len(s) : s[i] # e
    BY <1>1, <1>3 DEF ToSet
  <2>2. QED BY <1>1, <2>1 DEF IsInjective, Simple
<1>4. QED BY <1>1, <1>2, <1>3 DEF Simple

\* Adding an element in front.
LEMMA PrependSimple ==
  ASSUME NEW S, NEW s, Simple(s, S), NEW e \in S, e \notin ToSet(s)
  PROVE  /\ Simple(<<e>> \o s, S)
         /\ ToSet(<<e>> \o s) = {e} \cup ToSet(s)
<1> DEFINE t == <<e>> \o s
           n == Len(s)
<1>1. n \in Nat /\ DOMAIN s = 1 .. n
  BY LenProperties DEF Simple
<1>2. <<e>> \in Seq(S) /\ Len(<<e>>) = 1 /\ <<e>>[1] = e
  OBVIOUS
<1>3. /\ t \in Seq(S) /\ Len(t) = 1 + n
      /\ \A i \in 1 .. 1 + n : t[i] = IF i <= 1 THEN <<e>>[i] ELSE s[i - 1]
  BY <1>2, ConcatProperties DEF Simple
<1>4. DOMAIN t = 1 .. n + 1
  BY <1>1, <1>3, LenProperties
<1> HIDE DEF t, n
<1>5. t[1] = e /\ \A i \in 1 .. n : i + 1 \in 1 .. n + 1 /\ t[i + 1] = s[i]
  BY <1>1, <1>2, <1>3
<1>6. \A j \in 1 .. n + 1 : j = 1 \/ (j - 1 \in 1 .. n /\ t[j] = s[j - 1])
  BY <1>1, <1>3
<1>7. \A i \in 1 .. n : s[i] # e
  BY <1>1 DEF ToSet
<1>8. IsInjective(t)
  <2>1. ASSUME NEW i \in 1 .. n + 1, NEW j \in 1 .. n + 1, t[i] = t[j]
        PROVE  i = j
    <3>1. CASE i = 1 \/ j = 1
      BY <1>5, <1>6, <1>7, <2>1, <3>1
    <3>2. CASE i # 1 /\ j # 1
      <4>1. i - 1 \in 1 .. n /\ j - 1 \in 1 .. n /\ s[i - 1] = s[j - 1]
        BY <1>6, <2>1, <3>2
      <4>2. i - 1 = j - 1
        BY <1>1, <4>1 DEF Simple, IsInjective
      <4>3. QED BY <1>1, <4>2
    <3>3. QED BY <3>1, <3>2
  <2>2. QED BY <1>4, <2>1 DEF IsInjective
<1>9. ToSet(t) = {e} \cup ToSet(s)
  <2>1. ASSUME NEW x \in ToSet(t) PROVE x \in {e} \cup ToSet(s)
    <3>1. PICK j \in 1 .. n + 1 : x = t[j]
      BY <1>4 DEF ToSet
    <3>2. CASE j = 1
      BY <1>5, <3>1, <3>2
    <3>3. CASE j - 1 \in 1 .. n /\ t[j] = s[j - 1]
      BY <1>1, <3>1, <3>3 DEF ToSet
    <3>4. QED BY <1>6, <3>2, <3>3
  <2>2. 1 \in 1 .. n + 1
    BY <1>1
  <2>3. e \in ToSet(t)
    BY <1>4, <1>5, <2>2 DEF ToSet
  <2>4. ASSUME NEW x \in ToSet(s) PROVE x \in ToSet(t)
    BY <1>1, <1>4, <1>5 DEF ToSet
  <2>5. QED BY <2>1, <2>3, <2>4
<1>10. QED BY <1>3, <1>8, <1>9 DEF Simple, t

\* Taking the head off.
LEMMA TailSimple ==
  ASSUME NEW S, NEW s, Simple(s, S), s # <<>>
  PROVE  /\ Simple(Tail(s), S) /\ Head(s) \in S
         /\ ToSet(s) = {Head(s)} \cup ToSet(Tail(s))
         /\ Head(s) \notin ToSet(Tail(s))
<1> DEFINE n == Len(s)
<1>1. n \in Nat \ {0} /\ DOMAIN s = 1 .. n
  BY LenProperties, EmptySeq DEF Simple
<1>2. /\ Head(s) \in S /\ Head(s) = s[1]
      /\ Tail(s) \in Seq(S) /\ Len(Tail(s)) = n - 1
      /\ \A i \in 1 .. n - 1 : Tail(s)[i] = s[i + 1]
  BY HeadTailProperties DEF Simple
<1>3. DOMAIN Tail(s) = 1 .. n - 1
  BY <1>2, LenProperties
<1> HIDE DEF n
<1>4. IsInjective(Tail(s))
  <2>1. ASSUME NEW i \in 1 .. n - 1, NEW j \in 1 .. n - 1, Tail(s)[i] = Tail(s)[j]
        PROVE  i = j
    <3>1. i + 1 \in 1 .. n /\ j + 1 \in 1 .. n /\ s[i + 1] = s[j + 1]
      BY <1>1, <1>2, <2>1
    <3>2. i + 1 = j + 1
      BY <1>1, <3>1 DEF Simple, IsInjective
    <3>3. QED BY <3>2
  <2>2. QED BY <1>3, <2>1 DEF IsInjective
<1>5. Head(s) \notin ToSet(Tail(s))
  <2>1. ASSUME NEW i \in 1 .. n - 1 PROVE Tail(s)[i] # s[1]
    <3>1. i + 1 \in 1 .. n /\ 1 \in 1 .. n /\ i + 1 # 1
      BY <1>1
    <3>2. QED BY <1>1, <1>2, <3>1 DEF Simple, IsInjective
  <2>2. QED BY <1>2, <1>3, <2>1 DEF ToSet
<1>6. ToSet(s) = {Head(s)} \cup ToSet(Tail(s))
  <2>1. ASSUME NEW i \in 1 .. n, i # 1 PROVE s[i] \in ToSet(Tail(s))
    <3>1. i - 1 \in 1 .. n - 1 /\ (i - 1) + 1 = i
      BY <1>1, <2>1
    <3>2. Tail(s)[i - 1] = s[i]
      BY <1>2, <3>1
    <3>3. QED BY <1>3, <3>1, <3>2 DEF ToSet
  <2>2. ASSUME NEW i \in 1 .. n - 1 PROVE Tail(s)[i] \in ToSet(s)
    <3>1. i + 1 \in 1 .. n
      BY <1>1
    <3>2. QED BY <1>1, <1>2, <3>1 DEF ToSet
  <2>3. s[1] \in ToSet(s)
    BY <1>1 DEF ToSet
  <2>4. QED BY <1>1, <1>2, <1>3, <2>1, <2>2, <2>3 DEF ToSet
<1>7. QED BY <1>2, <1>4, <1>5, <1>6 DEF Simple

\* The one place where an element stands.
LEMMA PlaceOf ==
  ASSUME NEW S, NEW s, Simple(s, S), NEW e \in ToSet(s)
  PROVE  LET n == SelectInSeq(s, LAMBDA v : v = e) IN
         /\ n \in 1 .. Len(s) /\ s[n] = e
         /\ \A m \in 1 .. Len(s) : m # n => s[m] # e
<1> DEFINE I == {i \in 1 .. Len(s) : s[i] = e}
<1>1. Len(s) \in Nat /\ DOMAIN s = 1 .. Len(s)
  BY LenProperties DEF Simple
<1>2. PICK n \in 1 .. Len(s) : s[n] = e
  BY <1>1 DEF ToSet
<1>3. \A m \in 1 .. Len(s) : m # n => s[m] # e
  BY <1>1, <1>2 DEF Simple, IsInjective
<1>4. I = {n}
  BY <1>2, <1>3
<1>5. Min(I) = n
  BY <1>1, <1>4 DEF Min
<1>6. SelectInSeq(s, LAMBDA v : v = e) = Min(I)
  BY <1>4 DEF SelectInSeq
<1>7. QED BY <1>2, <1>3, <1>5, <1>6

\* Where the elements stand once one of them is unlinked.
LEMMA RemovePlaces ==
  ASSUME NEW S, NEW s, Simple(s, S), NEW n \in 1 .. Len(s)
  PROVE  LET t == RemoveFirst(s, s[n]) IN
         /\ t \in Seq(S) /\ Len(t) = Len(s) - 1
         /\ \A i \in 1 .. Len(s) - 1 : t[i] = IF i < n THEN s[i] ELSE s[i + 1]
<1> DEFINE l == SubSeq(s, 1, n - 1)
           r == SubSeq(s, n + 1, Len(s))
           t == l \o r
<1>1. Len(s) \in Nat /\ DOMAIN s = 1 .. Len(s) /\ s \in [1 .. Len(s) -> S] /\ n \in 1 .. Len(s)
  BY LenProperties DEF Simple
<1>2. /\ l \in Seq(S) /\ Len(l) = n - 1
      /\ \A i \in 1 .. n - 1 : l[i] = s[i]
  <2>1. \A i \in 1 .. n - 1 : s[i] \in S
    BY <1>1
  <2>2. 1 \in Int /\ n - 1 \in Int /\ (n - 1) - 1 + 1 = n - 1
    BY <1>1
  <2>3. /\ l \in Seq(S)
        /\ Len(l) = IF 1 <= n - 1 THEN (n - 1) - 1 + 1 ELSE 0
        /\ \A i \in 1 .. (n - 1) - 1 + 1 : l[i] = s[1 + i - 1]
    BY <2>1, <2>2, SubSeqProperties
  <2>4. QED BY <1>1, <2>2, <2>3
<1>3. /\ r \in Seq(S) /\ Len(r) = Len(s) - n
      /\ \A i \in 1 .. Len(s) - n : r[i] = s[n + i]
  <2>1. \A i \in n + 1 .. Len(s) : s[i] \in S
    BY <1>1
  <2>2. n + 1 \in Int /\ Len(s) \in Int /\ Len(s) - (n + 1) + 1 = Len(s) - n
    BY <1>1
  <2>3. /\ r \in Seq(S)
        /\ Len(r) = IF n + 1 <= Len(s) THEN Len(s) - (n + 1) + 1 ELSE 0
        /\ \A i \in 1 .. Len(s) - (n + 1) + 1 : r[i] = s[(n + 1) + i - 1]
    BY <2>1, <2>2, SubSeqProperties
  <2> HIDE DEF r
  <2>4. Len(r) = Len(s) - n
    <3>1. n \in Nat /\ n <= Len(s) /\ Len(s) \in Nat
      BY <1>1
    <3>2. CASE n + 1 <= Len(s)
      BY <2>3, <3>1, <3>2
    <3>3. CASE n = Len(s)
      BY <2>3, <3>1, <3>3
    <3>4. QED BY <3>1, <3>2, <3>3
  <2>5. ASSUME NEW i \in 1 .. Len(s) - n PROVE r[i] = s[n + i]
    <3>1. i \in 1 .. Len(s) - (n + 1) + 1 /\ (n + 1) + i - 1 = n + i
      BY <1>1
    <3>2. QED BY <2>3, <3>1
  <2>6. QED BY <2>3, <2>4, <2>5
<1> HIDE DEF l, r
<1>4. /\ t \in Seq(S) /\ Len(t) = Len(s) - 1
      /\ \A i \in 1 .. Len(s) - 1 : t[i] = IF i < n THEN s[i] ELSE s[i + 1]
  <2>1. /\ t \in Seq(S) /\ Len(t) = Len(l) + Len(r)
        /\ \A i \in 1 .. Len(l) + Len(r) : t[i] = IF i <= Len(l) THEN l[i] ELSE r[i - Len(l)]
    BY <1>2, <1>3, ConcatProperties
  <2>2. Len(l) + Len(r) = Len(s) - 1
    BY <1>1, <1>2, <1>3
  <2>3. ASSUME NEW i \in 1 .. Len(s) - 1
        PROVE  t[i] = IF i < n THEN s[i] ELSE s[i + 1]
    <3>1. t[i] = IF i <= n - 1 THEN l[i] ELSE r[i - (n - 1)]
      BY <1>2, <2>1, <2>2
    <3>2. CASE i < n
      <4>1. i \in 1 .. n - 1 /\ i <= n - 1
        BY <1>1, <3>2
      <4>2. QED BY <1>2, <3>1, <3>2, <4>1
    <3>3. CASE ~(i < n)
      <4>1. /\ ~(i <= n - 1) /\ i - (n - 1) \in 1 .. Len(s) - n
            /\ n + (i - (n - 1)) = i + 1
        BY <1>1, <3>3
      <4>2. t[i] = r[i - (n - 1)]
        BY <3>1, <4>1
      <4>3. r[i - (n - 1)] = s[n + (i - (n - 1))]
        BY <1>3, <4>1
      <4>4. QED BY <3>3, <4>1, <4>2, <4>3
    <3>4. QED BY <3>2, <3>3
  <2>4. QED BY <2>1, <2>2, <2>3
<1>5. RemoveFirst(s, s[n]) = t
  <2> DEFINE e == s[n]
             m == SelectInSeq(s, LAMBDA v : v = e)
  <2>1. m \in 1 .. Len(s) /\ \A k \in 1 .. Len(s) : k # m => s[k] # e
    <3>1. e \in ToSet(s)
      BY <1>1 DEF ToSet
    <3>2. QED BY <3>1, PlaceOf
  <2>2. m = n
    BY <1>1, <2>1
  <2>3. \E k \in 1 .. Len(s) : s[k] = e
    BY <1>1
  <2>4. RemoveFirst(s, e) = RemoveAt(s, m)
    BY <2>3 DEF RemoveFirst
  <2>5. QED BY <2>2, <2>4 DEF RemoveAt, t, l, r
<1>6. QED BY <1>4, <1>5

\* Unlinking an element.
LEMMA RemoveSimple ==
  ASSUME NEW S, NEW s, Simple(s, S), NEW e
  PROVE  /\ Simple(RemoveFirst(s, e), S)
         /\ ToSet(RemoveFirst(s, e)) = ToSet(s) \ {e}
         /\ s # <<>> /\ e # Head(s) =>
              RemoveFirst(s, e) # <<>> /\ Head(RemoveFirst(s, e)) = Head(s)
<1>1. Len(s) \in Nat /\ DOMAIN s = 1 .. Len(s) /\ s \in [1 .. Len(s) -> S]
  BY LenProperties DEF Simple
<1>2. CASE e \notin ToSet(s)
  <2>1. RemoveFirst(s, e) = s
    BY <1>1, <1>2 DEF RemoveFirst, ToSet
  <2>2. QED BY <1>2, <2>1
<1>3. CASE e \in ToSet(s)
  <2> DEFINE t == RemoveFirst(s, e)
  <2>1. PICK n \in 1 .. Len(s) : s[n] = e /\ \A m \in 1 .. Len(s) : m # n => s[m] # e
    BY <1>3, PlaceOf
  <2>2. /\ t \in Seq(S) /\ Len(t) = Len(s) - 1
        /\ \A i \in 1 .. Len(s) - 1 : t[i] = IF i < n THEN s[i] ELSE s[i + 1]
    BY <2>1, RemovePlaces
  <2> HIDE DEF t
  <2>3. DOMAIN t = 1 .. Len(s) - 1
    BY <2>2, LenProperties
  <2>4. IsInjective(t)
    <3>1. ASSUME NEW i \in 1 .. Len(s) - 1, NEW j \in 1 .. Len(s) - 1, t[i] = t[j]
          PROVE  i = j
      <4> DEFINE p == IF i < n THEN i ELSE i + 1
                 q == IF j < n THEN j ELSE j + 1
      <4>1. p \in 1 .. Len(s) /\ q \in 1 .. Len(s) /\ t[i] = s[p] /\ t[j] = s[q]
        BY <1>1, <2>1, <2>2
      <4>2. p = q
        BY <1>1, <3>1, <4>1 DEF Simple, IsInjective
      <4>3. QED BY <1>1, <2>1, <4>2
    <3>2. QED BY <2>3, <3>1 DEF IsInjective
  <2>5. ToSet(t) = ToSet(s) \ {e}
    <3>1. ASSUME NEW x \in ToSet(t) PROVE x \in ToSet(s) \ {e}
      <4>1. PICK i \in 1 .. Len(s) - 1 : x = t[i]
        BY <2>3 DEF ToSet
      <4> DEFINE p == IF i < n THEN i ELSE i + 1
      <4>2. p \in 1 .. Len(s) /\ p # n /\ x = s[p]
        BY <1>1, <2>1, <2>2, <4>1
      <4>3. QED BY <1>1, <2>1, <4>2 DEF ToSet
    <3>2. ASSUME NEW x \in ToSet(s) \ {e} PROVE x \in ToSet(t)
      <4>1. PICK i \in 1 .. Len(s) : x = s[i]
        BY <1>1 DEF ToSet
      <4> DEFINE p == IF i < n THEN i ELSE i - 1
      <4>2. i # n /\ p \in 1 .. Len(s) - 1 /\ x = t[p]
        BY <1>1, <2>1, <2>2, <3>2, <4>1
      <4>3. QED BY <2>3, <4>2 DEF ToSet
    <3>3. QED BY <3>1, <3>2
  <2>6. ASSUME s # <<>>, e # Head(s) PROVE t # <<>> /\ Head(t) = Head(s)
    <3>1. s \in Seq(S) /\ Head(s) = s[1]
      BY <2>6, HeadTailProperties DEF Simple
    <3>2. n # 1
      BY <2>1, <2>6, <3>1
    <3>3. 1 \in 1 .. Len(s) - 1 /\ 1 < n /\ Len(t) # 0
      BY <1>1, <2>1, <2>2, <3>2
    <3>4. t # <<>> /\ Head(t) = t[1]
      BY <2>2, <3>3, EmptySeq, HeadTailProperties
    <3>5. QED BY <2>2, <3>1, <3>3, <3>4
  <2>7. QED BY <2>2, <2>4, <2>5, <2>6 DEF Simple, t
<1>4. QED BY <1>2, <1>3
-----------------------------------------------------------------------------
\* The order of a list.
Precedes(s, a, b) == \E m, n \in DOMAIN s : m < n /\ s[m] = a /\ s[n] = b

\* An element that is added comes behind all the others.
LEMMA AppendOrder ==
  ASSUME NEW S, NEW s, Simple(s, S), NEW e \in S, NEW a, NEW b
  PROVE  Precedes(Append(s, e), a, b) <=> Precedes(s, a, b) \/ (a \in ToSet(s) /\ b = e)
<1> DEFINE t == Append(s, e)
           k == Len(s)
<1>1. /\ k \in Nat /\ DOMAIN s = 1 .. k /\ DOMAIN t = 1 .. k + 1
      /\ \A i \in 1 .. k : t[i] = s[i]
      /\ t[k + 1] = e
  BY AppendProperties, LenProperties DEF Simple
<1> HIDE DEF t, k
<1>2. ASSUME Precedes(t, a, b) PROVE Precedes(s, a, b) \/ (a \in ToSet(s) /\ b = e)
  <2>1. PICK m, n \in 1 .. k + 1 : m < n /\ t[m] = a /\ t[n] = b
    BY <1>1, <1>2 DEF Precedes
  <2>2. m \in 1 .. k /\ s[m] = a
    BY <1>1, <2>1
  <2>3. CASE n = k + 1
    BY <1>1, <2>1, <2>2, <2>3 DEF ToSet
  <2>4. CASE n # k + 1
    <3>1. n \in 1 .. k /\ s[n] = b
      BY <1>1, <2>1, <2>4
    <3>2. QED BY <1>1, <2>1, <2>2, <3>1 DEF Precedes
  <2>5. QED BY <2>3, <2>4
<1>3. ASSUME Precedes(s, a, b) PROVE Precedes(t, a, b)
  <2>1. PICK m, n \in 1 .. k : m < n /\ s[m] = a /\ s[n] = b
    BY <1>1, <1>3 DEF Precedes
  <2>2. m \in 1 .. k + 1 /\ n \in 1 .. k + 1
    BY <1>1
  <2>3. QED BY <1>1, <2>1, <2>2 DEF Precedes
<1>4. ASSUME a \in ToSet(s), b = e PROVE Precedes(t, a, b)
  <2>1. PICK m \in 1 .. k : s[m] = a
    BY <1>1, <1>4 DEF ToSet
  <2>2. m \in 1 .. k + 1 /\ k + 1 \in 1 .. k + 1 /\ m < k + 1
    BY <1>1
  <2>3. QED BY <1>1, <1>4, <2>1, <2>2 DEF Precedes
<1>5. QED BY <1>2, <1>3, <1>4 DEF t

\* Unlinking an element leaves the order of the others.
LEMMA RemoveOrder ==
  ASSUME NEW S, NEW s, Simple(s, S), NEW e, NEW a, NEW b
  PROVE  Precedes(RemoveFirst(s, e), a, b) <=> Precedes(s, a, b) /\ a # e /\ b # e
<1> DEFINE t == RemoveFirst(s, e)
           k == Len(s)
<1>1. k \in Nat /\ DOMAIN s = 1 .. k
  BY LenProperties DEF Simple
<1>2. CASE e \notin ToSet(s)
  <2>1. t = s
    BY <1>1, <1>2 DEF RemoveFirst, ToSet
  <2>2. QED BY <1>2, <2>1 DEF Precedes, ToSet
<1>3. CASE e \in ToSet(s)
  <2>1. PICK n \in 1 .. k : s[n] = e /\ \A m \in 1 .. k : m # n => s[m] # e
    BY <1>3, PlaceOf
  <2>2. /\ DOMAIN t = 1 .. k - 1
        /\ \A i \in 1 .. k - 1 : t[i] = IF i < n THEN s[i] ELSE s[i + 1]
    BY <2>1, RemovePlaces, LenProperties
  <2> HIDE DEF t, k
  <2>3. ASSUME Precedes(t, a, b) PROVE Precedes(s, a, b) /\ a # e /\ b # e
    <3>1. PICK i, j \in 1 .. k - 1 : i < j /\ t[i] = a /\ t[j] = b
      BY <2>2, <2>3 DEF Precedes
    <3> DEFINE p == IF i < n THEN i ELSE i + 1
               q == IF j < n THEN j ELSE j + 1
    <3>2. p \in 1 .. k /\ q \in 1 .. k /\ p < q /\ p # n /\ q # n
      BY <1>1, <2>1, <3>1
    <3>3. s[p] = a /\ s[q] = b
      BY <2>2, <3>1
    <3> HIDE DEF p, q
    <3>4. QED BY <1>1, <2>1, <3>2, <3>3 DEF Precedes
  <2>4. ASSUME Precedes(s, a, b), a # e, b # e PROVE Precedes(t, a, b)
    <3>1. PICK i, j \in 1 .. k : i < j /\ s[i] = a /\ s[j] = b
      BY <1>1, <2>4 DEF Precedes
    <3>2. i # n /\ j # n
      BY <2>1, <2>4, <3>1
    <3> DEFINE p == IF i < n THEN i ELSE i - 1
               q == IF j < n THEN j ELSE j - 1
    <3>3. p \in 1 .. k - 1 /\ q \in 1 .. k - 1 /\ p < q
      BY <1>1, <2>1, <3>1, <3>2
    <3>4. t[p] = a
      <4>1. CASE i < n
        BY <2>2, <3>1, <3>3, <4>1
      <4>2. CASE ~(i < n)
        <5>1. ~(p < n) /\ p + 1 = i
          BY <1>1, <2>1, <3>1, <3>2, <4>2
        <5>2. QED BY <2>2, <3>1, <3>3, <5>1
      <4>3. QED BY <4>1, <4>2
    <3>5. t[q] = b
      <4>1. CASE j < n
        BY <2>2, <3>1, <3>3, <4>1
      <4>2. CASE ~(j < n)
        <5>1. ~(q < n) /\ q + 1 = j
          BY <1>1, <2>1, <3>1, <3>2, <4>2
        <5>2. QED BY <2>2, <3>1, <3>3, <5>1
      <4>3. QED BY <4>1, <4>2
    <3> HIDE DEF p, q
    <3>6. QED BY <2>2, <3>3, <3>4, <3>5 DEF Precedes
  <2>5. QED BY <2>3, <2>4 DEF t
<1>4. QED BY <1>2, <1>3

\* The next element, the first one and the last one.
LEMMA NextInOrder ==
  ASSUME NEW S, NEW s, Simple(s, S), NEW p \in 1 .. Len(s), p + 1 \in 1 .. Len(s), NEW b
  PROVE  /\ Precedes(s, s[p], b) <=> b = s[p + 1] \/ Precedes(s, s[p + 1], b)
         /\ ~Precedes(s, s[p + 1], s[p + 1])
<1>1. Len(s) \in Nat /\ DOMAIN s = 1 .. Len(s)
  BY LenProperties DEF Simple
<1>2. \A m, n \in 1 .. Len(s) : s[m] = s[n] => m = n
  BY <1>1 DEF Simple, IsInjective
<1>3. ~Precedes(s, s[p + 1], s[p + 1])
  BY <1>1, <1>2 DEF Precedes
<1>4. ASSUME Precedes(s, s[p], b) PROVE b = s[p + 1] \/ Precedes(s, s[p + 1], b)
  <2>1. PICK n \in 1 .. Len(s) : p < n /\ s[n] = b
    BY <1>1, <1>2, <1>4 DEF Precedes
  <2>2. CASE n = p + 1
    BY <2>1, <2>2
  <2>3. CASE n # p + 1
    <3>1. p + 1 < n
      BY <1>1, <2>1, <2>3
    <3>2. QED BY <1>1, <2>1, <3>1 DEF Precedes
  <2>4. QED BY <2>2, <2>3
<1>5. ASSUME b = s[p + 1] PROVE Precedes(s, s[p], b)
  BY <1>1, <1>5 DEF Precedes
<1>6. ASSUME Precedes(s, s[p + 1], b) PROVE Precedes(s, s[p], b)
  <2>1. PICK n \in 1 .. Len(s) : p + 1 < n /\ s[n] = b
    BY <1>1, <1>2, <1>6 DEF Precedes
  <2>2. p < n
    BY <1>1, <2>1
  <2>3. QED BY <1>1, <2>1, <2>2 DEF Precedes
<1>7. QED BY <1>3, <1>4, <1>5, <1>6

LEMMA FirstAndLast ==
  ASSUME NEW S, NEW s, Simple(s, S), NEW b \in ToSet(s)
  PROVE  /\ b = Head(s) \/ Precedes(s, Head(s), b)
         /\ ~Precedes(s, b, Head(s)) /\ ~Precedes(s, Last(s), b)
         /\ Head(s) \in ToSet(s) /\ Last(s) \in ToSet(s)
<1>1. Len(s) \in Nat /\ DOMAIN s = 1 .. Len(s)
  BY LenProperties DEF Simple
<1>2. PICK n \in 1 .. Len(s) : s[n] = b
  BY <1>1 DEF ToSet
<1>3. 1 \in 1 .. Len(s) /\ Len(s) \in 1 .. Len(s) /\ Last(s) = s[Len(s)]
  BY <1>1, <1>2 DEF Last
<1>4. Head(s) = s[1]
  BY <1>1, <1>3, HeadTailProperties, EmptySeq DEF Simple
<1>5. \A i, j \in 1 .. Len(s) : s[i] = s[j] => i = j
  BY <1>1 DEF Simple, IsInjective
<1>6. b = Head(s) \/ Precedes(s, Head(s), b)
  <2>1. n = 1 \/ 1 < n
    BY <1>1, <1>2
  <2>2. QED BY <1>1, <1>2, <1>3, <1>4, <2>1 DEF Precedes
<1>7. ~Precedes(s, b, Head(s)) /\ ~Precedes(s, Last(s), b)
  BY <1>1, <1>3, <1>4, <1>5 DEF Precedes
<1>8. QED BY <1>1, <1>3, <1>4, <1>6, <1>7 DEF ToSet

\* Unlinking another element leaves the head.
LEMMA RemoveKeepsHead ==
  ASSUME NEW S, NEW s, Simple(s, S), NEW e \in ToSet(s), e # Head(s)
  PROVE  RemoveFirst(s, e) # <<>> /\ Head(RemoveFirst(s, e)) = Head(s)
<1>1. Len(s) \in Nat /\ DOMAIN s = 1 .. Len(s) /\ s \in Seq(S)
  BY LenProperties DEF Simple
<1>2. PICK n \in 1 .. Len(s) : s[n] = e
  BY <1>1 DEF ToSet
<1>3. n # 1
  BY <1>1, <1>2, HeadTailProperties, EmptySeq
<1> DEFINE t == RemoveFirst(s, e)
<1>4. /\ t \in Seq(S) /\ Len(t) = Len(s) - 1
      /\ \A i \in 1 .. Len(s) - 1 : t[i] = IF i < n THEN s[i] ELSE s[i + 1]
  BY <1>2, RemovePlaces
<1> HIDE DEF t
<1>5. 1 \in 1 .. Len(s) - 1 /\ 1 < n
  BY <1>1, <1>2, <1>3
<1>6. t[1] = s[1] /\ Len(t) # 0 /\ Len(s) # 0
  BY <1>1, <1>4, <1>5
<1>7. QED BY <1>1, <1>4, <1>6, HeadTailProperties, EmptySeq DEF t
-----------------------------------------------------------------------------
\* A set of numbers that is not empty has a least one.
LEMMA LeastOf ==
  ASSUME NEW D \in SUBSET Nat, D # {}
  PROVE  \E m \in D : \A k \in D : m <= k
<1>1. PICK m \in D : \A k \in D : ~(<<k, m>> \in OpToRel(<, Nat))
  BY NatLessThanWellFounded, WFMin
<1>2. \A k \in D : ~(k < m)
  BY <1>1 DEF OpToRel
<1>3. \A k \in D : k \in Nat
  OBVIOUS
<1>4. \A k \in D : m <= k
  BY <1>2, <1>3
<1>5. QED BY <1>4

\* The sequences that come of the first, of the first two ... of ss.
Joins(f, ss, n) ==
  \A i \in 1 .. n : f[i] = IF i = 1 THEN ss[i] ELSE f[i - 1] \o ss[i]

LEMMA JoinsExist ==
  ASSUME NEW S, NEW ss \in Seq(Seq(S))
  PROVE  \A m \in 1 .. Len(ss) : \E f \in [1 .. m -> Seq(S)] : Joins(f, ss, m)
<1> DEFINE D == {m \in 1 .. Len(ss) : ~\E f \in [1 .. m -> Seq(S)] : Joins(f, ss, m)}
<1>1. SUFFICES ASSUME D # {} PROVE FALSE
  OBVIOUS
<1>2. Len(ss) \in Nat /\ \A i \in 1 .. Len(ss) : ss[i] \in Seq(S)
  BY LenProperties, ElementOfSeq
<1>3. D \in SUBSET Nat
  BY <1>2
<1> HIDE DEF D
<1>4. PICK m \in D : \A k \in D : m <= k
  BY <1>1, <1>3, LeastOf
<1>5. m \in 1 .. Len(ss) /\ ~\E f \in [1 .. m -> Seq(S)] : Joins(f, ss, m)
  BY <1>4 DEF D
<1>6. CASE m = 1
  <2> DEFINE f == [i \in 1 .. m |-> ss[1]]
  <2>1. f \in [1 .. m -> Seq(S)] /\ Joins(f, ss, m)
    BY <1>2, <1>5, <1>6 DEF Joins
  <2>2. QED BY <1>5, <2>1
<1>7. CASE m # 1
  <2> DEFINE k == m - 1
  <2>1. k \in 1 .. Len(ss) /\ ~(m <= k) /\ k \in Nat /\ m = k + 1
    BY <1>2, <1>5, <1>7
  <2>2. k \notin D
    BY <1>4, <2>1
  <2>3. PICK g \in [1 .. k -> Seq(S)] : Joins(g, ss, k)
    BY <2>1, <2>2 DEF D
  <2> HIDE DEF k
  <2> DEFINE f == [i \in 1 .. m |-> IF i = m THEN g[k] \o ss[m] ELSE g[i]]
  <2>4. g[k] \o ss[m] \in Seq(S)
    BY <1>2, <1>5, <2>1, <2>3, ConcatProperties
  <2>5. \A i \in 1 .. m : i # m => i \in 1 .. k /\ (i # 1 => i - 1 \in 1 .. k)
    BY <2>1
  <2>6. f \in [1 .. m -> Seq(S)]
    BY <2>3, <2>4, <2>5
  <2>7. Joins(f, ss, m)
    <3> SUFFICES ASSUME NEW i \in 1 .. m
                 PROVE  f[i] = IF i = 1 THEN ss[i] ELSE f[i - 1] \o ss[i]
      BY DEF Joins
    <3>1. CASE i = m
      <4>1. i # 1 /\ i - 1 = k /\ k # m /\ k \in 1 .. m
        BY <1>7, <2>1, <3>1
      <4>2. QED BY <3>1, <4>1
    <3>2. CASE i # m
      <4>1. i \in 1 .. k /\ (i # 1 => i - 1 \in 1 .. k /\ i - 1 # m /\ i - 1 \in 1 .. m)
        BY <2>1, <3>2
      <4>2. g[i] = IF i = 1 THEN ss[i] ELSE g[i - 1] \o ss[i]
        BY <2>3, <4>1 DEF Joins
      <4>3. QED BY <3>2, <4>1, <4>2
    <3>3. QED BY <3>1, <3>2
  <2> HIDE DEF f
  <2>8. QED BY <1>5, <2>6, <2>7
<1>8. QED BY <1>6, <1>7

LEMMA JoinsAgree ==
  ASSUME NEW ss, NEW n \in Nat, NEW f, NEW g, Joins(f, ss, n), Joins(g, ss, n)
  PROVE  \A i \in 1 .. n : f[i] = g[i]
<1> DEFINE D == {m \in 1 .. n : f[m] # g[m]}
<1>1. SUFFICES ASSUME D # {} PROVE FALSE
  OBVIOUS
<1>2. D \in SUBSET Nat
  OBVIOUS
<1> HIDE DEF D
<1>3. PICK m \in D : \A k \in D : m <= k
  BY <1>1, <1>2, LeastOf
<1>4. m \in 1 .. n /\ f[m] # g[m]
  BY <1>3 DEF D
<1>5. m # 1
  BY <1>4 DEF Joins
<1>6. m - 1 \in 1 .. n /\ ~(m <= m - 1)
  BY <1>4, <1>5
<1>7. m - 1 \notin D
  BY <1>3, <1>6
<1>8. f[m - 1] = g[m - 1]
  BY <1>6, <1>7 DEF D
<1>9. QED BY <1>4, <1>5, <1>8 DEF Joins

LEMMA FlattenIsJoin ==
  ASSUME NEW S, NEW ss \in Seq(Seq(S)), ss # <<>>, NEW f \in [1 .. Len(ss) -> Seq(S)],
         Joins(f, ss, Len(ss))
  PROVE  FlattenSeq(ss) = f[Len(ss)]
<1> DEFINE n == Len(ss)
           j == CHOOSE flatten : flatten = [i \in 1 .. n |-> IF i = 1 THEN ss[i] ELSE flatten[i - 1] \o ss[i]]
<1>1. n \in Nat \ {0}
  BY EmptySeq
<1>2. f = [i \in 1 .. n |-> IF i = 1 THEN ss[i] ELSE f[i - 1] \o ss[i]]
  BY DEF Joins
<1>3. j = [i \in 1 .. n |-> IF i = 1 THEN ss[i] ELSE j[i - 1] \o ss[i]]
  BY <1>2
<1>4. FlattenSeq(ss) = j[n]
  BY <1>1 DEF FlattenSeq
<1> HIDE DEF j
<1>5. Joins(j, ss, n)
  BY <1>3 DEF Joins
<1>6. QED BY <1>1, <1>4, <1>5, JoinsAgree

LEMMA FlattenEmpty == ASSUME NEW ss, Len(ss) = 0 PROVE FlattenSeq(ss) = ss
BY DEF FlattenSeq

LEMMA JoinOf ==
  ASSUME NEW S, NEW ss \in Seq(Seq(S)), ss # <<>>
  PROVE  /\ Len(ss) \in Nat \ {0}
         /\ \E f \in [1 .. Len(ss) -> Seq(S)] :
              Joins(f, ss, Len(ss)) /\ FlattenSeq(ss) = f[Len(ss)]
<1>1. Len(ss) \in Nat \ {0}
  BY EmptySeq
<1>2. Len(ss) \in 1 .. Len(ss)
  BY <1>1
<1>3. PICK f \in [1 .. Len(ss) -> Seq(S)] : Joins(f, ss, Len(ss))
  BY <1>2, JoinsExist
<1>4. FlattenSeq(ss) = f[Len(ss)]
  BY <1>3, FlattenIsJoin
<1>5. QED BY <1>1, <1>3, <1>4

LEMMA FlattenIsSeq ==
  ASSUME NEW S, NEW ss \in Seq(Seq(S))
  PROVE  FlattenSeq(ss) \in Seq(S)
<1>1. CASE ss = <<>>
  BY <1>1, FlattenEmpty, EmptySeq
<1>2. CASE ss # <<>>
  <2>1. PICK f \in [1 .. Len(ss) -> Seq(S)] : FlattenSeq(ss) = f[Len(ss)]
    BY <1>2, JoinOf
  <2>2. Len(ss) \in 1 .. Len(ss)
    BY <1>2, EmptySeq
  <2>3. QED BY <2>1, <2>2
<1>3. QED BY <1>1, <1>2

\* One more at the end.
LEMMA FlattenAppend ==
  ASSUME NEW S, NEW ss \in Seq(Seq(S)), NEW s \in Seq(S)
  PROVE  FlattenSeq(Append(ss, s)) = FlattenSeq(ss) \o s
<1> DEFINE tt == Append(ss, s)
           n == Len(ss)
<1>1. /\ n \in Nat /\ tt \in Seq(Seq(S)) /\ tt # <<>> /\ Len(tt) = n + 1
      /\ \A i \in 1 .. n : tt[i] = ss[i]
      /\ tt[n + 1] = s
  BY LenProperties, AppendProperties
<1> HIDE DEF tt
<1>2. CASE ss = <<>>
  <2> DEFINE f == [i \in 1 .. 1 |-> s]
  <2>1. n = 0 /\ Len(tt) = 1 /\ tt[1] = s
    BY <1>1, <1>2, EmptySeq
  <2>2. f \in [1 .. Len(tt) -> Seq(S)] /\ Joins(f, tt, Len(tt)) /\ f[Len(tt)] = s
    BY <2>1 DEF Joins
  <2> HIDE DEF f
  <2>3. FlattenSeq(tt) = s
    BY <1>1, <2>2, FlattenIsJoin
  <2>4. FlattenSeq(ss) \o s = s
    BY <1>2, <2>1, FlattenEmpty, ConcatEmptySeq
  <2>5. QED BY <2>3, <2>4 DEF tt
<1>3. CASE ss # <<>>
  <2>1. PICK g \in [1 .. n -> Seq(S)] : Joins(g, ss, n) /\ FlattenSeq(ss) = g[n]
    BY <1>3, JoinOf
  <2>2. n \in Nat \ {0}
    BY <1>3, JoinOf
  <2> HIDE DEF n
  <2> DEFINE f == [i \in 1 .. n + 1 |-> IF i = n + 1 THEN g[n] \o s ELSE g[i]]
  <2>3. g[n] \o s \in Seq(S)
    BY <2>1, <2>2, ConcatProperties
  <2>4. f \in [1 .. Len(tt) -> Seq(S)]
    BY <1>1, <2>1, <2>3
  <2>5. Joins(f, tt, n + 1)
    <3> SUFFICES ASSUME NEW i \in 1 .. n + 1
                 PROVE  f[i] = IF i = 1 THEN tt[i] ELSE f[i - 1] \o tt[i]
      BY DEF Joins
    <3>1. CASE i = n + 1
      <4>1. i # 1 /\ i - 1 = n /\ n # n + 1 /\ n \in 1 .. n + 1
        BY <2>2, <3>1
      <4>2. QED BY <1>1, <3>1, <4>1
    <3>2. CASE i # n + 1
      <4>1. i \in 1 .. n /\ (i # 1 => i - 1 \in 1 .. n /\ i - 1 # n + 1 /\ i - 1 \in 1 .. n + 1)
        BY <2>2, <3>2
      <4>2. g[i] = IF i = 1 THEN ss[i] ELSE g[i - 1] \o ss[i]
        BY <2>1, <4>1 DEF Joins
      <4>3. QED BY <1>1, <3>2, <4>1, <4>2
    <3>3. QED BY <3>1, <3>2
  <2>6. f[n + 1] = g[n] \o s
    BY <2>2
  <2> HIDE DEF f
  <2>7. FlattenSeq(tt) = f[n + 1]
    BY <1>1, <2>4, <2>5, FlattenIsJoin DEF n
  <2>8. QED BY <2>1, <2>6, <2>7 DEF tt
<1>4. QED BY <1>2, <1>3

\* One more at the front.
LEMMA FlattenFirst ==
  ASSUME NEW S, NEW ss \in Seq(Seq(S)), ss # <<>>, NEW tt \in Seq(Seq(S)),
         Len(ss) = Len(tt) + 1, \A i \in 1 .. Len(tt) : tt[i] = ss[i + 1]
  PROVE  FlattenSeq(ss) = ss[1] \o FlattenSeq(tt)
<1> DEFINE n == Len(tt)
<1>1. n \in Nat /\ ss[1] \in Seq(S) /\ \A i \in 1 .. n : ss[i + 1] \in Seq(S)
  BY LenProperties, ElementOfSeq
<1>2. CASE tt = <<>>
  <2> DEFINE f == [i \in 1 .. 1 |-> ss[1]]
  <2>1. n = 0 /\ Len(ss) = 1
    BY <1>2, EmptySeq
  <2>2. f \in [1 .. Len(ss) -> Seq(S)] /\ Joins(f, ss, Len(ss)) /\ f[Len(ss)] = ss[1]
    BY <1>1, <2>1 DEF Joins
  <2> HIDE DEF f
  <2>3. FlattenSeq(ss) = ss[1]
    BY <2>2, FlattenIsJoin
  <2>4. ss[1] \o FlattenSeq(tt) = ss[1]
    BY <1>1, <1>2, <2>1, FlattenEmpty, ConcatEmptySeq
  <2>5. QED BY <2>3, <2>4
<1>3. CASE tt # <<>>
  <2>1. PICK g \in [1 .. n -> Seq(S)] : Joins(g, tt, n) /\ FlattenSeq(tt) = g[n]
    BY <1>3, JoinOf
  <2>2. n \in Nat \ {0}
    BY <1>3, JoinOf
  <2>3. Len(ss) = n + 1
    OBVIOUS
  <2> HIDE DEF n
  <2> DEFINE h == ss[1]
             f == [i \in 1 .. n + 1 |-> IF i = 1 THEN h ELSE h \o g[i - 1]]
  <2>4. \A i \in 1 .. n : g[i] \in Seq(S) /\ h \o g[i] \in Seq(S) /\ h \in Seq(S)
    BY <1>1, <2>1, ConcatProperties
  <2>5. \A i \in 1 .. n + 1 : i # 1 => i - 1 \in 1 .. n /\ (i - 1) + 1 = i /\ i - 1 \in 1 .. n + 1
    BY <2>2
  <2>6. f \in [1 .. Len(ss) -> Seq(S)]
    BY <1>1, <2>3, <2>4, <2>5
  <2>7. Joins(f, ss, n + 1)
    <3> SUFFICES ASSUME NEW i \in 1 .. n + 1
                 PROVE  f[i] = IF i = 1 THEN ss[i] ELSE f[i - 1] \o ss[i]
      BY DEF Joins
    <3>1. CASE i = 1
      BY <3>1
    <3>2. CASE i # 1
      <4> DEFINE k == i - 1
      <4>1. k \in 1 .. n /\ k + 1 = i /\ k \in 1 .. n + 1 /\ k \in Nat
        BY <2>2, <2>5, <3>2
      <4>2. f[i] = h \o g[k]
        BY <3>2
      <4> HIDE DEF k
      <4>3. g[k] = IF k = 1 THEN tt[k] ELSE g[k - 1] \o tt[k]
        BY <2>1, <4>1 DEF Joins
      <4>4. tt[k] = ss[i] /\ ss[i] \in Seq(S)
        BY <1>1, <4>1 DEF n
      <4>5. CASE k = 1
        <5>1. f[k] = h
          BY <4>1, <4>5
        <5>2. f[i] = f[k] \o ss[i]
          BY <4>2, <4>3, <4>4, <4>5, <5>1
        <5>3. QED BY <3>2, <5>2 DEF k
      <4>6. CASE k # 1
        <5> DEFINE j == k - 1
        <5>1. j \in 1 .. n
          BY <2>2, <4>1, <4>6
        <5>2. f[k] = h \o g[j] /\ g[k] = g[j] \o tt[k]
          BY <4>1, <4>3, <4>6
        <5> HIDE DEF j, f
        <5>3. h \o (g[j] \o ss[i]) = (h \o g[j]) \o ss[i]
          <6>1. h \in Seq(S) /\ g[j] \in Seq(S) /\ ss[i] \in Seq(S)
            BY <1>1, <2>4, <4>4, <5>1
          <6> DEFINE a == g[j]
                     c == ss[i]
          <6>2. a \in Seq(S) /\ c \in Seq(S)
            BY <6>1
          <6> HIDE DEF h, a, c
          <6>3. (h \o a) \o c = h \o (a \o c)
            BY ONLY <6>1, <6>2, ConcatAssociative, SMTT(30)
          <6>4. QED BY <6>3 DEF a, c
        <5>4. f[i] = f[k] \o ss[i]
          BY <4>2, <4>4, <5>2, <5>3
        <5>5. QED BY <3>2, <5>4 DEF k
      <4>7. QED BY <4>5, <4>6
    <3>3. QED BY <3>1, <3>2
  <2>8. f[n + 1] = h \o g[n]
    <3>1. n + 1 \in 1 .. n + 1 /\ n + 1 # 1 /\ n + 1 - 1 = n
      BY <2>2
    <3> DEFINE e(x) == h \o g[x]
    <3>2. \A i \in 1 .. n + 1 : i # 1 => f[i] = e(i - 1)
      BY Zenon
    <3> HIDE DEF f, e
    <3>3. f[n + 1] = e(n)
      BY <2>2, <3>1, <3>2
    <3>4. QED BY <3>3 DEF e
  <2> HIDE DEF f
  <2>9. FlattenSeq(ss) = f[n + 1]
    BY <2>3, <2>6, <2>7, FlattenIsJoin
  <2>10. QED BY <2>1, <2>8, <2>9
<1>4. QED BY <1>2, <1>3
=============================================================================
