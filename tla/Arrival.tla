------------------------------ MODULE Arrival ------------------------------
(***************************************************************************)
(* What it means that the entries of a map or a list arrive, at any depth, *)
(* through one of the two layouts.                                         *)
(***************************************************************************)
EXTENDS ValueCodec

CONSTANTS
  ArrivedInside(_, _, _),  \* ArrivedHere, for the entries of a map or a list
  EntriesInside(_)         \* EntriesHere, likewise

\* What the two layouts can carry: strings below 128 characters; null pointers
\* and the maps of a message, parameters that are no null pointers and not
\* empty.
ShortText(ex) == ex.val # NullVal /\ Len(ex.val.n) < 128
InExtra(ex) ==
  \/ ex.type \in DOMAIN Width \cup {BytesT, MapT}
  \/ ex.type = StringT /\ (ex.val = NullVal \/ ShortText(ex))
InParams(ex) ==
  \/ ex.type \in DOMAIN Width
  \/ ex.type = BytesT /\ ex.val # NullVal
  \/ ex.type = StringT /\ ShortText(ex)
  \/ ex.type \in Maps \cup Colls /\ ex.val.e # <<>>

Carried(layout, ex) == IF layout = "extra" THEN InExtra(ex) ELSE InParams(ex)

\* Has the entry s arrived as r?
Same(layout, s, r) ==
  IF s.type \in {StringT, BytesT} /\ s.val = NullVal THEN r.type = NullT
  ELSE /\ r.type = s.type
       /\ IF s.type \in Maps \cup Colls THEN ArrivedInside(layout, s.val.e, r.val.e)
          ELSE r.val.n = IF s.type = BytesT THEN SubSeq(s.val.n, 1, 4) ELSE s.val.n

\* Have the entries of s that can be carried arrived in r, in order and once,
\* and nothing that was not sent?  An entry of r is the one that it comes from.
ArrivedHere(layout, s, r) ==
  \E from \in [DOMAIN r -> DOMAIN s] :
    /\ \A i, j \in DOMAIN r : i < j => from[i] < from[j]
    /\ \A i \in DOMAIN s : Carried(layout, s[i]) => \E j \in DOMAIN r : from[j] = i
    /\ \A j \in DOMAIN r :
         LET ex == s[from[j]] IN
         r[j].key = ex.key /\ (Carried(layout, ex) => Same(layout, ex, r[j]))

\* The entries of s at any depth.
EntriesHere(s) ==
  ToSet(s)
    \cup UNION {EntriesInside(ex.val.e) : ex \in {x \in ToSet(s) : x.type \in Maps \cup Colls}}
=============================================================================
