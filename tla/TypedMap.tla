------------------------------ MODULE TypedMap ------------------------------
(***************************************************************************)
(* The entries, maps and lists of typed values (src/jm_msg_extra.h,        *)
(* src/jm_msg_emap.h, src/jm_msg_elist.h) as operators.  Entries linked by *)
(* next are a sequence; strings are sequences of characters, and a byte    *)
(* used as a key is a sequence of one number.  A value holds its numbers   *)
(* or characters in n and the entries of a nested map or list in e.        *)
(***************************************************************************)
EXTENDS Integers, SequencesExt

\* GET_PREFIX: the number that is sent for a type.
Prefix(n) == n - 128
NullT   == Prefix(0)
ListT   == Prefix(4)
SetT    == Prefix(5)
MapT    == Prefix(6)
ByteT   == Prefix(7)
ShortT  == Prefix(8)
IntT    == Prefix(9)
LongT   == Prefix(10)
FloatT  == Prefix(11)
DoubleT == Prefix(12)
CharT   == Prefix(13)
BoolT   == Prefix(14)
StringT == Prefix(15)
BytesT  == Prefix(17)
ProxyT  == Prefix(20)

Maps  == {MapT, ProxyT}
Colls == {ListT, SetT}
Unset == {NullT, FloatT, DoubleT}   \* the types whose value is not set

NullVal    == [n |-> <<-1>>, e |-> <<>>]   \* the null pointer
Num(x)     == [n |-> <<x>>, e |-> <<>>]
Long(h, l) == [n |-> <<h, l>>, e |-> <<>>] \* h * 2^32 + l, both signed
Text(s)    == [n |-> s, e |-> <<>>]
MapVal(m)  == [n |-> <<m.keyType>>, e |-> m.hd]
ListVal(l) == [n |-> <<>>, e |-> l.hd]
MapOf(v)   == [keyType |-> v.n[1], hd |-> v.e, size |-> Len(v.e)]

\* jm_extra_create, from memory that is zeroed.
NewEntry(key, type) == [key |-> key, type |-> type, val |-> Num(0), len |-> 0]

\* jm_emap_create, jm_elist_create.
EmptyMap(keyType) == [keyType |-> keyType, hd |-> <<>>, size |-> 0]
EmptyList         == [hd |-> <<>>, size |-> 0]
-----------------------------------------------------------------------------
Upper(s) == [i \in DOMAIN s |-> IF s[i] \in 97 .. 122 THEN s[i] - 32 ELSE s[i]]

\* jm_strcasecmp(a, b) == 0: the comparison ends with a, not with b.
StrEqual(a, b) ==
  IF a = <<>> \/ b = <<>> THEN a = b ELSE IsPrefix(Upper(a), Upper(b))

SameKey(keyType, a, b) == IF keyType = StringT THEN StrEqual(a, b) ELSE a = b

\* jm_extra_get, jm_extra_sget: the place of the first entry found, or 0.
Find(m, key) == SelectInSeq(m.hd, LAMBDA ex : SameKey(m.keyType, key, ex.key))

\* jm_emap_exist, jm_emap_get and the typed gets.
HasKey(m, key) == Find(m, key) # 0
Get(m, key)   == m.hd[Find(m, key)]

\* Values of the maps pass through a pointer of 32 bits.
ThroughPointer(type, v) ==
  IF type = LongT THEN Long(IF v.n[2] < 0 THEN -1 ELSE 0, v.n[2]) ELSE v

\* _extra_setVal: the length of a string is its own, but for a null pointer;
\* the length of a byte buffer is that of the pointer.
SetVal(ex, v) ==
  CASE ex.type = StringT ->
         [ex EXCEPT !.val = v, !.len = IF v = NullVal THEN @ ELSE Len(v.n)]
    [] ex.type = BytesT -> [ex EXCEPT !.val = v, !.len = 4]
    [] ex.type \in Unset -> ex
    [] OTHER -> [ex EXCEPT !.val = ThroughPointer(ex.type, v)]

\* jm_extra_put and jm_extra_sput: a new entry goes behind the first one or
\* to the end; the empty key is not searched for.
PutEntry(m, ex, i) ==
  IF i # 0 THEN ReplaceAt(m.hd, i, ex)
  ELSE IF m.keyType = StringT \/ m.hd = <<>> THEN Append(m.hd, ex)
  ELSE InsertAt(m.hd, 2, ex)

\* Fault: an entry that exists keeps its old type.
PutKeepsType(m, key, type, v) ==
  LET i  == IF m.keyType = StringT /\ key = <<>> THEN 0 ELSE Find(m, key)
      ex == IF i = 0 THEN NewEntry(key, type) ELSE m.hd[i]
  IN [m EXCEPT !.hd = PutEntry(m, SetVal(ex, v), i), !.size = @ + 1]

\* jm_emap_put: an update counts like a new entry.
Put(m, key, type, v) ==
  LET i  == IF m.keyType = StringT /\ key = <<>> THEN 0 ELSE Find(m, key)
      ex == IF i = 0 THEN NewEntry(key, type) ELSE [m.hd[i] EXCEPT !.type = type]
  IN [m EXCEPT !.hd = PutEntry(m, SetVal(ex, v), i), !.size = @ + 1]

\* jm_emap_putExtra.
PutExtra(m, ex) == [m EXCEPT !.hd = Append(@, ex), !.size = @ + 1]

\* jm_emap_putAll: key by key, each looked up in the map it comes from.
PutAll(m, src) ==
  LET after[i \in 0 .. Len(src.hd)] ==
        IF i = 0 THEN m
        ELSE LET found == Get(src, src.hd[i].key)
             IN Put(after[i - 1], found.key, found.type, found.val)
  IN after[Len(src.hd)]

\* jm_emap_remove, of a map that is not empty.
RemoveKey(m, key) ==
  LET i == Find(m, key) IN
  IF i = 0 THEN m ELSE [m EXCEPT !.hd = RemoveAt(@, i), !.size = @ - 1]

\* jm_elist_add: an entry without a key.
Add(l, type, v) == [hd |-> Append(l.hd, SetVal(NewEntry(<<>>, type), v)), size |-> l.size + 1]

\* jm_elist_addExtra.
AddExtra(l, ex) == [hd |-> Append(l.hd, ex), size |-> l.size + 1]
=============================================================================
