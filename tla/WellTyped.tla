------------------------------ MODULE WellTyped ------------------------------
(***************************************************************************)
(* The entries that a program can make of its values: what each type holds *)
(* (jm_msg_extra_data_t of src/jm_msg.h) and how deep maps and lists are   *)
(* nested.                                                                 *)
(***************************************************************************)
EXTENDS ValueCodec

\* The numbers of w bytes, with a sign or without.
Largest(w) == IF w = 1 THEN 127 ELSE IF w = 2 THEN 32767 ELSE 2147483647
InSigned(x, w)   == x \in Int /\ -Largest(w) - 1 <= x /\ x <= Largest(w)
InUnsigned(x, w) == x \in Int /\ 0 <= x /\ x <= 2 * Largest(w) + 1

\* The numbers that an entry of each type can hold.
Holds(type, v) ==
  \/ type = LongT /\ v = Long(v.n[1], v.n[2]) /\ InSigned(v.n[1], 4) /\ InSigned(v.n[2], 4)
  \/ type = BoolT /\ v \in {Num(0), Num(1)}
  \/ type = CharT /\ v = Num(v.n[1]) /\ InUnsigned(v.n[1], 1)
  \/ type \in {ByteT, ShortT, IntT} /\ v = Num(v.n[1]) /\ InSigned(v.n[1], Width[type])

Types == DOMAIN Width \cup {StringT, BytesT} \cup Maps \cup Colls \cup Unset

\* Does the key of every entry of a map find that entry, not an earlier one?
OwnKeys(hd) == \A i, j \in DOMAIN hd : i < j => ~SameKey(StringT, hd[j].key, hd[i].key)

\* A key of a map, of a length that is written.
KeysFit(hd) == \A i \in DOMAIN hd : InUnsigned(Len(hd[i].key), 2)

\* The values that are put into an entry of a type.  Byte buffers have at least
\* the four bytes that are taken for their length.
ValueFits(type, v) ==
  /\ type \in DOMAIN Width => Holds(type, v)
  /\ type \in {StringT, BytesT} /\ v # NullVal => v = Text(v.n)
  /\ type = StringT /\ v # NullVal => v.n \in Seq(Nat)
  /\ type = BytesT /\ v # NullVal => Len(v.n) >= 4
  /\ type \in Maps => v.n = <<StringT>> /\ OwnKeys(v.e) /\ KeysFit(v.e)
  /\ type \in Colls => v.n = <<>> /\ \A i \in DOMAIN v.e : v.e[i].key = <<>>
  /\ type \in Maps \cup Colls => InUnsigned(Len(v.e), IF type = MapT THEN 1 ELSE 2)

\* An entry that its value was put into.
Fits(ex) ==
  /\ ValueFits(ex.type, ex.val)
  /\ ex.type = StringT /\ ex.val # NullVal => ex.len = Len(ex.val.n)
  /\ ex.type = BytesT => ex.len = 4

\* The entries that hold entries of S.
Holders(S) ==
  {ex \in [key : Seq(Nat), type : Types, val : [n : Seq(Int), e : Seq(S)], len : Nat] : Fits(ex)}

\* The entries of less than d maps and lists in one another.
Level[d \in Nat] == IF d = 0 THEN {} ELSE Holders(Level[d - 1])
=============================================================================
