--------------------------- MODULE HashTableFacts ---------------------------
(***************************************************************************)
(* What the operations of the hash table (HashTable, src/jm_mem.c) do, for *)
(* every set of keys and every number of chains: a key stands once, in its *)
(* own chain, and a walk over the table that removes the item it stands on *)
(* comes to every item that is ahead of it, once.                          *)
(***************************************************************************)
EXTENDS HashTable, ListFacts

\* The shape of a table: every chain lists keys of its own, each once.
Shape(t) ==
  /\ DOMAIN t = Chains
  /\ \A i \in Chains : Simple(t[i], Keys) /\ \A k \in ToSet(t[i]) : Bucket[k] = i

\* Is the key itself in the table, and the table without it?
Has(t, k)     == k \in ToSet(t[Bucket[k]])
TakeOut(t, k) == [t EXCEPT ![Bucket[k]] = RemoveFirst(@, k)]

\* No key of a chain is found instead of one that stands behind it.
Apart(t) == \A i \in Chains : \A j, k \in Keys : Precedes(t[i], j, k) => j \notin Matches[k]

\* An iterator that stands on an item of the table.
StandsOn(t, it) == it.cur \in Keys /\ it.idx = Bucket[it.cur] /\ Has(t, it.cur)

LEMMA BucketOf == \A k \in Keys : Bucket[k] \in Chains
BY HashTableAssumption DEF Chains

LEMMA NewShape ==
  Shape(NewTable) /\ Apart(NewTable) /\ \A k \in Keys : ~Has(NewTable, k)
<1>1. \A i \in Chains : NewTable[i] = <<>>
  BY DEF NewTable
<1>2. QED BY <1>1, SimpleEmpty, BucketOf DEF Shape, Apart, Precedes, NewTable, Has

\* A key that is in the table is found, but maybe one that it matches.
LEMMA HasIsFound ==
  ASSUME NEW t, NEW k \in Keys, Has(t, k)
  PROVE  Exist(t, k)
<1>1. PICK n \in DOMAIN t[Bucket[k]] : t[Bucket[k]][n] = k
  BY DEF Has, ToSet
<1>2. QED BY <1>1, HashTableAssumption DEF Exist, Hits

LEMMA FindsMatch ==
  ASSUME NEW t, Shape(t), NEW k \in Keys, Exist(t, k)
  PROVE  /\ Find(t, k) \in Keys /\ Bucket[Find(t, k)] = Bucket[k] /\ Has(t, Find(t, k))
         /\ Find(t, k) \in Matches[k]
         /\ \A j \in Matches[k] : ~Precedes(t[Bucket[k]], j, Find(t, k))
<1> DEFINE s == t[Bucket[k]]
           n == CHOOSE n \in Hits(t, k) : \A m \in Hits(t, k) : n <= m
<1>1. /\ Bucket[k] \in Chains /\ s \in Seq(Keys) /\ DOMAIN s = 1 .. Len(s) /\ Len(s) \in Nat
      /\ \A x, y \in DOMAIN s : s[x] = s[y] => x = y
  BY BucketOf, LenProperties DEF Shape, Simple, IsInjective
<1>2. Hits(t, k) \in SUBSET Nat /\ Hits(t, k) # {}
  BY <1>1 DEF Hits, Exist
<1>3. n \in Hits(t, k) /\ \A m \in Hits(t, k) : n <= m
  BY <1>2, LeastOf
<1>4. Find(t, k) = s[n]
  BY DEF Find
<1> HIDE DEF n
<1>5. n \in 1 .. Len(s) /\ s[n] \in Matches[k] /\ s[n] \in ToSet(s) /\ s[n] \in Keys
  BY <1>1, <1>3, ElementOfSeq DEF Hits, ToSet
<1>6. Bucket[s[n]] = Bucket[k]
  BY <1>1, <1>5 DEF Shape
<1>7. ASSUME NEW j \in Matches[k], Precedes(s, j, s[n]) PROVE FALSE
  <2>1. PICK x, y \in DOMAIN s : x < y /\ s[x] = j /\ s[y] = s[n]
    BY <1>7 DEF Precedes
  <2>2. y = n /\ x \in Hits(t, k)
    BY <1>1, <1>5, <2>1 DEF Hits
  <2>3. QED BY <1>1, <1>3, <2>1, <2>2
<1>8. QED BY <1>4, <1>5, <1>6, <1>7 DEF Has

\* jm_hashmap_get finds the key itself, if it is in the table.
LEMMA FindsItself ==
  ASSUME NEW t, Shape(t), Apart(t), NEW k \in Keys, Has(t, k)
  PROVE  Exist(t, k) /\ Find(t, k) = k
<1> DEFINE s == t[Bucket[k]]
           f == Find(t, k)
<1>1. Exist(t, k)
  BY HasIsFound
<1>2. /\ f \in Keys /\ f \in Matches[k] /\ f \in ToSet(s) /\ k \in ToSet(s)
      /\ \A j \in Matches[k] : ~Precedes(s, j, f)
      /\ Bucket[k] \in Chains
  BY <1>1, FindsMatch, BucketOf DEF Has
<1>3. DOMAIN s = 1 .. Len(s)
  BY <1>2, LenProperties DEF Shape, Simple
<1> HIDE DEF f
<1>4. k \in Matches[k]
  BY HashTableAssumption
<1>5. f = k
  <2> SUFFICES ASSUME f # k PROVE FALSE
    OBVIOUS
  <2>1. PICK x, y \in 1 .. Len(s) : s[x] = f /\ s[y] = k
    BY <1>2, <1>3 DEF ToSet
  <2>2. x < y \/ y < x
    BY <2>1
  <2>3. Precedes(s, f, k) \/ Precedes(s, k, f)
    BY <1>3, <2>1, <2>2 DEF Precedes
  <2>4. QED BY <1>2, <1>4, <2>3 DEF Apart
<1>6. QED BY <1>1, <1>5 DEF f

LEMMA ChainShape ==
  ASSUME NEW t, Shape(t), NEW k \in Keys, NEW s, Simple(s, Keys),
         \A j \in ToSet(s) : j = k \/ j \in ToSet(t[Bucket[k]])
  PROVE  /\ Shape([t EXCEPT ![Bucket[k]] = s])
         /\ \A j \in Keys : Has([t EXCEPT ![Bucket[k]] = s], j) <=>
                              IF Bucket[j] = Bucket[k] THEN j \in ToSet(s) ELSE Has(t, j)
<1> DEFINE b == Bucket[k]
           u == [t EXCEPT ![b] = s]
<1>1. b \in Chains /\ DOMAIN t = Chains
  BY BucketOf DEF Shape
<1>2. DOMAIN u = Chains /\ \A i \in Chains : u[i] = IF i = b THEN s ELSE t[i]
  BY <1>1
<1> HIDE DEF u
<1>3. Shape(u)
  BY <1>1, <1>2 DEF Shape
<1>4. \A j \in Keys : Has(u, j) <=> IF Bucket[j] = b THEN j \in ToSet(s) ELSE Has(t, j)
  BY <1>2, BucketOf DEF Has
<1>5. QED BY <1>3, <1>4 DEF u

\* jm_hashmap_put adds the key and nothing else.
LEMMA PutShape ==
  ASSUME NEW t, Shape(t), NEW k \in Keys, ~Exist(t, k)
  PROVE  /\ Shape(HashPut(t, k))
         /\ Apart(t) => Apart(HashPut(t, k))
         /\ \A j \in Keys : Has(HashPut(t, k), j) <=> Has(t, j) \/ j = k
<1> DEFINE c == t[Bucket[k]]
           s == Append(c, k)
<1>1. Simple(c, Keys) /\ k \notin ToSet(c)
  BY BucketOf, HasIsFound DEF Shape, Has
<1>2. Simple(s, Keys) /\ ToSet(s) = ToSet(c) \cup {k}
  BY <1>1, AppendSimple
<1>3. HashPut(t, k) = [t EXCEPT ![Bucket[k]] = s]
  BY DEF HashPut
<1> HIDE DEF s
<1>4. /\ Shape([t EXCEPT ![Bucket[k]] = s])
      /\ \A j \in Keys : Has([t EXCEPT ![Bucket[k]] = s], j) <=>
                           IF Bucket[j] = Bucket[k] THEN j \in ToSet(s) ELSE Has(t, j)
  BY <1>2, ChainShape
<1>5. ASSUME Apart(t) PROVE Apart(HashPut(t, k))
  <2> SUFFICES ASSUME NEW i \in Chains, NEW j \in Keys, NEW m \in Keys,
                      Precedes(HashPut(t, k)[i], j, m)
               PROVE  j \notin Matches[m]
    BY DEF Apart
  <2>1. CASE i # Bucket[k]
    <3>1. HashPut(t, k)[i] = t[i]
      BY <1>3, <2>1 DEF Shape
    <3>2. QED BY <1>5, <3>1 DEF Apart
  <2>2. CASE i = Bucket[k]
    <3>1. HashPut(t, k)[i] = Append(c, k)
      BY <1>3, <2>2 DEF Shape, s
    <3>2. Precedes(c, j, m) \/ (j \in ToSet(c) /\ m = k)
      BY <1>1, <3>1, AppendOrder
    <3>3. CASE Precedes(c, j, m)
      BY <1>5, <2>2, <3>3 DEF Apart
    <3>4. CASE j \in ToSet(c) /\ m = k
      BY <3>4 DEF Exist, Hits, ToSet
    <3>5. QED BY <3>2, <3>3, <3>4
  <2>3. QED BY <2>1, <2>2
<1>6. QED BY <1>2, <1>3, <1>4, <1>5 DEF Has

\* jm_hashmap_remove takes the key out that it finds,
LEMMA RemoveTakesOut ==
  ASSUME NEW t, Shape(t), NEW k \in Keys, Exist(t, k)
  PROVE  HashRemove(t, k) = TakeOut(t, Find(t, k))
BY FindsMatch DEF HashRemove, TakeOut

\* and nothing else.
LEMMA RemoveShape ==
  ASSUME NEW t, Shape(t), NEW k \in Keys
  PROVE  /\ Shape(TakeOut(t, k))
         /\ Apart(t) => Apart(TakeOut(t, k))
         /\ \A j \in Keys : Has(TakeOut(t, k), j) <=> Has(t, j) /\ j # k
<1> DEFINE c == t[Bucket[k]]
           s == RemoveFirst(c, k)
<1>1. Simple(c, Keys)
  BY BucketOf DEF Shape
<1>2. Simple(s, Keys) /\ ToSet(s) = ToSet(c) \ {k}
  BY <1>1, RemoveSimple
<1>3. TakeOut(t, k) = [t EXCEPT ![Bucket[k]] = s]
  BY DEF TakeOut
<1> HIDE DEF s
<1>4. /\ Shape([t EXCEPT ![Bucket[k]] = s])
      /\ \A j \in Keys : Has([t EXCEPT ![Bucket[k]] = s], j) <=>
                           IF Bucket[j] = Bucket[k] THEN j \in ToSet(s) ELSE Has(t, j)
  BY <1>2, ChainShape
<1>5. ASSUME Apart(t) PROVE Apart(TakeOut(t, k))
  <2> SUFFICES ASSUME NEW i \in Chains, NEW j \in Keys, NEW m \in Keys,
                      Precedes(TakeOut(t, k)[i], j, m)
               PROVE  Precedes(t[i], j, m)
    BY <1>5 DEF Apart
  <2>1. CASE i # Bucket[k]
    BY <1>3, <2>1 DEF Shape
  <2>2. CASE i = Bucket[k]
    <3>1. TakeOut(t, k)[i] = RemoveFirst(c, k)
      BY <1>3, <2>2 DEF Shape, s
    <3>2. QED BY <1>1, <2>2, <3>1, RemoveOrder
  <2>3. QED BY <2>1, <2>2
<1>6. QED BY <1>2, <1>3, <1>4, <1>5 DEF Has

\* jm_hashmap_iteRemove takes out the key that the iterator stands on.
LEMMA IteRemoveIsRemove ==
  ASSUME NEW t, NEW it, it.idx = Bucket[it.cur]
  PROVE  IteRemove(t, it) = TakeOut(t, it.cur)
BY DEF IteRemove, TakeOut

\* The keys of the table.
LEMMA KeysAreFound ==
  ASSUME NEW t, Shape(t)
  PROVE  KeysOf(t) = {k \in Keys : Has(t, k)}
<1>1. ASSUME NEW k \in KeysOf(t) PROVE k \in Keys /\ Has(t, k)
  <2>1. PICK i \in Chains : k \in ToSet(t[i])
    BY DEF KeysOf
  <2>2. Bucket[k] = i
    BY <2>1 DEF Shape
  <2>3. k \in Keys
    <3>1. t[i] \in Seq(Keys)
      BY DEF Shape, Simple
    <3>2. QED BY <2>1, <3>1, LenProperties, ElementOfSeq DEF ToSet
  <2>4. QED BY <2>1, <2>2, <2>3 DEF Has
<1>2. ASSUME NEW k \in Keys, Has(t, k) PROVE k \in KeysOf(t)
  BY <1>2, BucketOf DEF KeysOf, Has
<1>3. QED BY <1>1, <1>2

\* A place in a chain.
LEMMA ChainPlace ==
  ASSUME NEW t, Shape(t), NEW i \in Chains, NEW n \in 1 .. Len(t[i])
  PROVE  t[i][n] \in Keys /\ Bucket[t[i][n]] = i /\ Has(t, t[i][n])
<1>1. t[i] \in Seq(Keys) /\ DOMAIN t[i] = 1 .. Len(t[i])
  BY LenProperties DEF Shape, Simple
<1>2. t[i][n] \in Keys /\ t[i][n] \in ToSet(t[i])
  BY <1>1, ElementOfSeq DEF ToSet
<1>3. QED BY <1>2 DEF Shape, Has

\* The place of the item that an iterator stands on.
LEMMA PlaceOfCur ==
  ASSUME NEW t, Shape(t), NEW it, StandsOn(t, it)
  PROVE  /\ it.idx \in Chains
         /\ PosOf(t, it) \in 1 .. Len(t[it.idx])
         /\ t[it.idx][PosOf(t, it)] = it.cur
<1>1. it.idx \in Chains /\ it.cur \in ToSet(t[it.idx])
  BY BucketOf DEF StandsOn, Has
<1>2. t[it.idx] \in Seq(Keys) /\ DOMAIN t[it.idx] = 1 .. Len(t[it.idx])
  BY <1>1, LenProperties DEF Shape, Simple
<1>3. \E n \in 1 .. Len(t[it.idx]) : t[it.idx][n] = it.cur
  BY <1>1, <1>2 DEF ToSet
<1>4. QED BY <1>1, <1>3 DEF PosOf

\* A set of chains has a first one.
LEMMA FirstChain ==
  ASSUME NEW C \in SUBSET Chains, C # {}
  PROVE  \E i \in C : \A j \in C : i <= j
<1>1. C \subseteq Nat
  BY HashTableAssumption DEF Chains
<1>2. QED BY <1>1, LeastOf

\* jm_hashmap_iteNext stands on an item of the table, or is at its end.
LEMMA NextStands ==
  ASSUME NEW t, Shape(t), NEW it \in Iterators, it.cur # None => StandsOn(t, it),
         IteNext(t, it) # Ended
  PROVE  IteNext(t, it) \in Iterators /\ StandsOn(t, IteNext(t, it))
<1>1. CASE HasNext(t, it)
  <2> DEFINE p == PosOf(t, it)
             s == t[it.idx]
  <2>1. /\ it.idx \in Chains /\ p \in 1 .. Len(s) /\ s[p] = it.cur
        /\ it.cur # Last(s)
    BY <1>1, PlaceOfCur DEF HasNext
  <2>2. p # Len(s)
    BY <2>1 DEF Last
  <2>3. p + 1 \in 1 .. Len(s)
    <3>1. Len(s) \in Nat
      BY <2>1, LenProperties DEF Shape, Simple
    <3> HIDE DEF p, s
    <3>2. QED BY <2>1, <2>2, <3>1
  <2>4. s[p + 1] \in Keys /\ Bucket[s[p + 1]] = it.idx /\ Has(t, s[p + 1])
    BY <2>1, <2>3, ChainPlace
  <2>5. IteNext(t, it) = [it EXCEPT !.cur = s[p + 1]]
    BY <1>1 DEF IteNext
  <2> HIDE DEF p, s
  <2>6. QED BY <2>4, <2>5 DEF Iterators, StandsOn
<1>2. CASE ~HasNext(t, it)
  <2>1. Later(t, it) # {} /\ Later(t, it) \in SUBSET Chains
    BY <1>2 DEF IteNext, Later
  <2> DEFINE i == CHOOSE i \in Later(t, it) : \A j \in Later(t, it) : i <= j
  <2>2. i \in Later(t, it)
    BY <2>1, FirstChain
  <2>3. IteNext(t, it) = [idx |-> i, cur |-> Head(t[i])]
    BY <1>2, <2>1 DEF IteNext
  <2> HIDE DEF i
  <2>4. i \in Chains /\ t[i] # <<>> /\ t[i] \in Seq(Keys)
    BY <2>2 DEF Later, Shape, Simple
  <2>5. Len(t[i]) \in Nat \ {0} /\ Head(t[i]) = t[i][1]
    BY <2>4, LenProperties, EmptySeq, HeadTailProperties
  <2>6. 1 \in 1 .. Len(t[i])
    BY <2>5
  <2>7. Head(t[i]) \in Keys /\ Bucket[Head(t[i])] = i /\ Has(t, Head(t[i]))
    BY <2>4, <2>5, <2>6, ChainPlace
  <2>8. i \in -1 .. Cap - 1
    BY <2>4, HashTableAssumption DEF Chains
  <2>9. QED BY <2>3, <2>7, <2>8 DEF Iterators, StandsOn
<1>3. QED BY <1>1, <1>2

\* jm_hashmap_iteRemove leaves the iterator on another item of the table,
\* or on none.
LEMMA StepBackStands ==
  ASSUME NEW t, Shape(t), NEW it \in Iterators, StandsOn(t, it)
  PROVE  /\ StepBack(t, it) \in Iterators
         /\ StepBack(t, it).cur # None =>
              /\ StandsOn(t, StepBack(t, it))
              /\ StepBack(t, it).cur # it.cur
<1> DEFINE p == PosOf(t, it)
           s == t[it.idx]
<1>1. it.idx \in Chains /\ p \in 1 .. Len(s) /\ s[p] = it.cur
  BY PlaceOfCur
<1>2. s \in Seq(Keys) /\ Len(s) \in Nat /\ DOMAIN s = 1 .. Len(s) /\ IsInjective(s)
  BY <1>1, LenProperties DEF Shape, Simple
<1>3. CASE it.cur = Head(s)
  <2>1. StepBack(t, it) = [it EXCEPT !.cur = None]
    BY <1>3 DEF StepBack
  <2>2. QED BY <2>1 DEF Iterators
<1>4. CASE it.cur # Head(s)
  <2>1. StepBack(t, it) = [it EXCEPT !.cur = s[p - 1]]
    BY <1>4 DEF StepBack
  <2>2. p # 1
    BY <1>1, <1>2, <1>4, HeadTailProperties, EmptySeq
  <2>3. p - 1 \in 1 .. Len(s)
    BY <1>1, <1>2, <2>2
  <2>4. s[p - 1] \in Keys /\ Bucket[s[p - 1]] = it.idx /\ Has(t, s[p - 1])
    BY <1>1, <2>3, ChainPlace
  <2>5. s[p - 1] # it.cur
    BY <1>1, <1>2, <2>3 DEF IsInjective
  <2> HIDE DEF p, s
  <2>6. QED BY <2>1, <2>4, <2>5 DEF Iterators, StandsOn
<1>5. QED BY <1>3, <1>4
\* A walk that leaves its chain goes to the head of a later one.
LEMMA NextChain ==
  ASSUME NEW t, NEW it \in Iterators, ~HasNext(t, it), IteNext(t, it) # Ended
  PROVE  /\ IteNext(t, it).idx \in Chains /\ IteNext(t, it).idx > it.idx
         /\ IteNext(t, it).cur = Head(t[IteNext(t, it).idx])
<1> DEFINE i == CHOOSE i \in Later(t, it) : \A j \in Later(t, it) : i <= j
<1>1. Later(t, it) # {} /\ IteNext(t, it) = [idx |-> i, cur |-> Head(t[i])]
  BY DEF IteNext
<1>2. Later(t, it) \in SUBSET Chains
  BY DEF Later
<1>3. i \in Later(t, it)
  BY <1>1, <1>2, FirstChain
<1> HIDE DEF i
<1>4. QED BY <1>1, <1>3 DEF Later

\* Where jm_hashmap_iteRemove leaves the iterator.
LEMMA StepBackIdx ==
  ASSUME NEW t, Shape(t), NEW it \in Iterators, StandsOn(t, it)
  PROVE  /\ StepBack(t, it).idx = it.idx
         /\ StepBack(t, it).cur = None <=> it.cur = Head(t[it.idx])
<1> DEFINE p == PosOf(t, it)
           s == t[it.idx]
<1>1. /\ it.idx \in Chains /\ p \in 1 .. Len(s) /\ s[p] = it.cur
  BY PlaceOfCur DEF StandsOn
<1>2. s \in Seq(Keys) /\ Len(s) \in Nat
  BY <1>1, LenProperties DEF Shape, Simple
<1>3. StepBack(t, it) = [it EXCEPT !.cur = IF it.cur = Head(s) THEN None ELSE s[p - 1]]
  BY DEF StepBack
<1>4. CASE it.cur # Head(s)
  <2>1. p # 1
    BY <1>1, <1>2, <1>4, HeadTailProperties, EmptySeq
  <2> HIDE DEF p, s
  <2>2. p - 1 \in 1 .. Len(s)
    BY <1>1, <1>2, <2>1
  <2>3. s[p - 1] # None
    BY <1>2, <2>2, HashTableAssumption, ElementOfSeq
  <2>4. QED BY <1>3, <1>4, <2>3 DEF Iterators, s
<1>5. CASE it.cur = Head(s)
  BY <1>3, <1>5 DEF Iterators
<1>6. QED BY <1>4, <1>5
-----------------------------------------------------------------------------
\* The items that a walk has still to come to.
Ahead(t, it) ==
  {k \in Keys : /\ Has(t, k)
                /\ \/ Bucket[k] > it.idx
                   \/ /\ it.cur # None /\ Bucket[k] = it.idx
                      /\ Precedes(t[it.idx], it.cur, k)}

LEMMA AllAhead ==
  ASSUME NEW t, Shape(t)
  PROVE  Ahead(t, Start) = KeysOf(t)
<1>1. \A k \in Keys : Bucket[k] > -1
  BY BucketOf, HashTableAssumption DEF Chains
<1>2. QED BY <1>1, KeysAreFound DEF Ahead, Start

\* jm_hashmap_iteNext goes to an item that is ahead, and the others that
\* are ahead stay there; it ends when nothing is ahead.
LEMMA NextAhead ==
  ASSUME NEW t, Shape(t), NEW it \in Iterators, it.cur # None => StandsOn(t, it)
  PROVE  /\ IteNext(t, it) # Ended =>
              /\ IteNext(t, it).cur \in Ahead(t, it)
              /\ Ahead(t, IteNext(t, it)) = Ahead(t, it) \ {IteNext(t, it).cur}
         /\ IteNext(t, it) = Ended => Ahead(t, it) = {}
<1>1. CASE HasNext(t, it)
  <2> DEFINE p == PosOf(t, it)
             s == t[it.idx]
             c == s[p + 1]
  <2>1. /\ it.idx \in Chains /\ p \in 1 .. Len(s) /\ s[p] = it.cur
        /\ it.cur # None /\ it.cur # Last(s)
    BY <1>1, PlaceOfCur DEF HasNext
  <2>2. Simple(s, Keys) /\ Len(s) \in Nat /\ DOMAIN s = 1 .. Len(s)
    BY <2>1, LenProperties DEF Shape, Simple
  <2>3. p # Len(s)
    BY <2>1 DEF Last
  <2>4. IteNext(t, it) = [it EXCEPT !.cur = c]
    BY <1>1 DEF IteNext
  <2> HIDE DEF p, s, c
  <2>5. p + 1 \in 1 .. Len(s)
    <3>1. p \in 1 .. Len(s) /\ Len(s) \in Nat
      BY <2>1, <2>2
    <3>2. QED BY <2>3, <3>1
  <2>6. c \in Keys /\ Bucket[c] = it.idx /\ Has(t, c)
    BY <2>1, <2>5, ChainPlace DEF c, s
  <2>7. /\ \A k : Precedes(s, it.cur, k) <=> k = c \/ Precedes(s, c, k)
        /\ ~Precedes(s, c, c)
    BY <2>1, <2>2, <2>5, NextInOrder DEF c
  <2>8. it.idx \in Int /\ ~(it.idx > it.idx)
    BY <2>1, HashTableAssumption DEF Chains
  <2>9. IteNext(t, it).idx = it.idx /\ IteNext(t, it).cur = c /\ c # None
    BY <2>4, <2>6, HashTableAssumption DEF Iterators
  <2>10. c \in Ahead(t, it)
    BY <2>1, <2>6, <2>7 DEF Ahead, s
  <2>11. Ahead(t, IteNext(t, it)) = Ahead(t, it) \ {c}
    BY <2>1, <2>6, <2>7, <2>8, <2>9 DEF Ahead, s
  <2>12. IteNext(t, it) # Ended
    BY <2>9 DEF Ended
  <2>13. QED BY <2>9, <2>10, <2>11, <2>12
<1>2. CASE ~HasNext(t, it)
  <2>1. \A k \in Ahead(t, it) : Bucket[k] > it.idx
    <3> SUFFICES ASSUME NEW k \in Ahead(t, it), it.cur # None, Bucket[k] = it.idx,
                        Precedes(t[it.idx], it.cur, k)
                 PROVE  FALSE
      BY DEF Ahead
    <3>1. it.cur = Last(t[it.idx])
      BY <1>2 DEF HasNext
    <3>2. Simple(t[it.idx], Keys) /\ k \in ToSet(t[it.idx])
      BY BucketOf DEF Ahead, Has, Shape
    <3>3. QED BY <3>1, <3>2, FirstAndLast
  <2>2. \A k \in Ahead(t, it) : Bucket[k] \in Later(t, it)
    BY <2>1, BucketOf, SimpleEmpty DEF Later, Ahead, Has
  <2>3. CASE Later(t, it) = {}
    <3>1. Ahead(t, it) = {}
      BY <2>2, <2>3
    <3>2. IteNext(t, it) = Ended
      BY <1>2, <2>3 DEF IteNext
    <3>3. QED BY <3>1, <3>2
  <2>4. CASE Later(t, it) # {}
    <3> DEFINE i == CHOOSE i \in Later(t, it) : \A j \in Later(t, it) : i <= j
               h == Head(t[i])
    <3>1. Later(t, it) \in SUBSET Chains
      BY DEF Later
    <3>2. i \in Later(t, it) /\ \A j \in Later(t, it) : i <= j
      BY <2>4, <3>1, FirstChain
    <3>3. IteNext(t, it) = [idx |-> i, cur |-> h]
      BY <1>2, <2>4 DEF IteNext
    <3> HIDE DEF i
    <3>4. i \in Chains /\ i > it.idx /\ t[i] # <<>> /\ Simple(t[i], Keys)
      BY <3>2 DEF Later, Shape
    <3>5. h \in ToSet(t[i]) /\ h \in Keys
      BY <3>4, TailSimple
    <3>6. Bucket[h] = i /\ Has(t, h) /\ h # None
      BY <3>4, <3>5, HashTableAssumption DEF Shape, Has
    <3>7. \A k \in ToSet(t[i]) : (k = h \/ Precedes(t[i], h, k)) /\ ~Precedes(t[i], k, h)
      BY <3>4, FirstAndLast
    <3> HIDE DEF h
    <3>8. h \in Ahead(t, it)
      BY <3>4, <3>5, <3>6 DEF Ahead
    <3>9. ASSUME NEW k \in Ahead(t, it), k # h PROVE k \in Ahead(t, IteNext(t, it))
      <4>1. k \in Keys /\ Has(t, k) /\ Bucket[k] \in Int /\ i \in Int
        BY <3>4, BucketOf, HashTableAssumption DEF Ahead, Chains
      <4>2. i <= Bucket[k]
        BY <2>2, <3>2
      <4>3. CASE Bucket[k] = i
        <5>1. Precedes(t[i], h, k)
          BY <3>7, <3>9, <4>1, <4>3 DEF Has
        <5>2. QED BY <3>3, <3>6, <4>1, <4>3, <5>1 DEF Ahead
      <4>4. CASE Bucket[k] # i
        <5>1. Bucket[k] > i
          BY <4>1, <4>2, <4>4
        <5>2. QED BY <3>3, <4>1, <5>1 DEF Ahead
      <4>5. QED BY <4>3, <4>4
    <3>10. ASSUME NEW k \in Ahead(t, IteNext(t, it)) PROVE k \in Ahead(t, it) /\ k # h
      <4>1. /\ k \in Keys /\ Has(t, k)
            /\ Bucket[k] > i \/ (Bucket[k] = i /\ Precedes(t[i], h, k))
        BY <3>3 DEF Ahead
      <4>2. Bucket[k] \in Int /\ i \in Int /\ it.idx \in Int
        BY <3>4, <4>1, BucketOf, HashTableAssumption DEF Chains, Iterators
      <4>3. Bucket[k] > it.idx
        BY <3>4, <4>1, <4>2
      <4>4. k # h
        BY <3>5, <3>6, <3>7, <4>1, <4>2
      <4>5. QED BY <4>1, <4>3, <4>4 DEF Ahead
    <3>11. IteNext(t, it).cur = h /\ IteNext(t, it) # Ended
      BY <3>3, <3>6 DEF Ended
    <3>12. QED BY <3>8, <3>9, <3>10, <3>11
  <2>5. QED BY <2>3, <2>4
<1>3. QED BY <1>1, <1>2

\* A new item may be ahead, the others stay where they are.
LEMMA PutAhead ==
  ASSUME NEW t, Shape(t), NEW it \in Iterators, it.cur # None => StandsOn(t, it),
         NEW k \in Keys, ~Exist(t, k)
  PROVE  /\ Ahead(t, it) \subseteq Ahead(HashPut(t, k), it)
         /\ Ahead(HashPut(t, k), it) \subseteq Ahead(t, it) \cup {k}
<1> DEFINE u == HashPut(t, k)
<1>1. u = [t EXCEPT ![Bucket[k]] = Append(t[Bucket[k]], k)] /\ Bucket[k] \in Chains
  BY BucketOf DEF HashPut
<1>2. \A j \in Keys : Has(u, j) <=> Has(t, j) \/ j = k
  BY PutShape
<1>3. ASSUME it.cur # None, NEW j
      PROVE  Precedes(u[it.idx], it.cur, j) <=>
               Precedes(t[it.idx], it.cur, j) \/ (Bucket[k] = it.idx /\ j = k)
  <2>1. it.idx \in Chains /\ it.cur \in ToSet(t[it.idx]) /\ DOMAIN t = Chains
    BY <1>3, BucketOf DEF StandsOn, Has, Shape
  <2>2. CASE it.idx = Bucket[k]
    <3>1. u[it.idx] = Append(t[it.idx], k) /\ Simple(t[it.idx], Keys)
      BY <1>1, <2>1, <2>2 DEF Shape
    <3>2. QED BY <2>1, <2>2, <3>1, AppendOrder
  <2>3. CASE it.idx # Bucket[k]
    <3>1. u[it.idx] = t[it.idx]
      BY <1>1, <2>1, <2>3
    <3>2. QED BY <2>3, <3>1
  <2>4. QED BY <2>2, <2>3
<1> HIDE DEF u
<1>4. QED BY <1>2, <1>3 DEF Ahead, u

\* The item that the walk stands on is not ahead.
LEMMA CurNotAhead ==
  ASSUME NEW t, Shape(t), NEW it \in Iterators, StandsOn(t, it)
  PROVE  it.cur \notin Ahead(t, it)
<1>1. it.idx \in Chains /\ Bucket[it.cur] = it.idx /\ ~(it.idx > it.idx)
  BY BucketOf, HashTableAssumption DEF StandsOn, Chains
<1>2. ~Precedes(t[it.idx], it.cur, it.cur)
  <2>1. Simple(t[it.idx], Keys)
    BY <1>1 DEF Shape
  <2>2. QED BY <2>1 DEF Precedes, Simple, IsInjective
<1>3. QED BY <1>1, <1>2 DEF Ahead

\* jm_hashmap_iteRemove takes away the item that the walk stands on: the
\* others stay ahead, unless the item is the head of its chain - then the
\* walk goes on with the next chain.
LEMMA StepBackAhead ==
  ASSUME NEW t, Shape(t), NEW it \in Iterators, StandsOn(t, it)
  PROVE  Ahead(IteRemove(t, it), StepBack(t, it)) =
           IF it.cur = Head(t[it.idx]) THEN {k \in Ahead(t, it) : Bucket[k] # it.idx}
           ELSE Ahead(t, it)
<1> DEFINE s == t[it.idx]
           p == PosOf(t, it)
           u == IteRemove(t, it)
           b == StepBack(t, it)
<1>1. /\ it.idx \in Chains /\ p \in 1 .. Len(s) /\ s[p] = it.cur
      /\ it.cur \in Keys /\ it.cur # None /\ Bucket[it.cur] = it.idx /\ it.idx \in Int
  BY PlaceOfCur, HashTableAssumption DEF StandsOn, Chains
<1>2. Simple(s, Keys) /\ Len(s) \in Nat /\ DOMAIN s = 1 .. Len(s) /\ s \in Seq(Keys)
  BY <1>1, LenProperties DEF Shape, Simple
<1>3. u[it.idx] = RemoveFirst(s, it.cur)
  BY <1>1 DEF IteRemove, Shape
<1>4. \A k \in Keys : Has(u, k) <=> Has(t, k) /\ k # it.cur
  BY <1>1, IteRemoveIsRemove, RemoveShape
<1>5. b.idx = it.idx
  BY DEF StepBack, Iterators
<1>6. it.cur \notin Ahead(t, it)
  BY CurNotAhead
<1>7. \A k \in Keys : Bucket[k] \in Int
  BY BucketOf, HashTableAssumption DEF Chains
<1> HIDE DEF u, b
<1>8. CASE it.cur = Head(s)
  <2>1. b.cur = None
    BY <1>8 DEF StepBack, Iterators, b
  <2>2. QED BY <1>1, <1>4, <1>5, <1>7, <1>8, <2>1 DEF Ahead, u, b
<1>9. CASE it.cur # Head(s)
  <2>1. b.cur = s[p - 1]
    BY <1>9 DEF StepBack, Iterators, b
  <2> HIDE DEF p, s
  <2>2. p # 1
    BY <1>1, <1>2, <1>9, HeadTailProperties, EmptySeq
  <2>3. p - 1 \in 1 .. Len(s) /\ (p - 1) + 1 = p
    BY <1>1, <1>2, <2>2
  <2>4. \A k : Precedes(s, s[p - 1], k) <=> k = it.cur \/ Precedes(s, it.cur, k)
    <3>1. PICK q \in 1 .. Len(s) : q = p - 1
      BY <2>3
    <3>2. q + 1 \in 1 .. Len(s) /\ s[q + 1] = it.cur
      BY <1>1, <2>3, <3>1
    <3>3. QED BY <1>2, <3>1, <3>2, NextInOrder
  <2>5. s[p - 1] # it.cur
    BY <1>1, <1>2, <2>3 DEF Simple, IsInjective
  <2>6. \A k : Precedes(u[it.idx], b.cur, k) <=> Precedes(s, it.cur, k) /\ k # it.cur
    BY <1>2, <1>3, <2>1, <2>4, <2>5, RemoveOrder
  <2>7. b.cur # None
    BY <1>1, <2>1, <2>3, ChainPlace, HashTableAssumption DEF s
  <2>8. QED BY <1>1, <1>4, <1>5, <1>6, <1>9, <2>6, <2>7 DEF Ahead, u, b, s
<1>10. QED BY <1>8, <1>9
=============================================================================
