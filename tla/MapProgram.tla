----------------------------- MODULE MapProgram -----------------------------
(***************************************************************************)
(* A program that keeps one map of typed values with string keys: it puts, *)
(* updates and removes entries, copies the map and nests it in another     *)
(* (src/jm_msg_emap.h, with the entries of src/jm_msg_extra.h).            *)
(***************************************************************************)
EXTENDS TypedMap, FiniteSets

CONSTANTS
  MapKeys,   \* the string keys in use
  Values,    \* the values in use, with their types
  MaxPuts,   \* bound: values put
  MaxOps     \* bound: operations on the map

ASSUME MapProgramAssumption ==
  /\ MapKeys \subseteq Seq(1 .. 127) \ {<<>>}
  /\ MaxPuts \in Nat /\ MaxOps \in Nat

VARIABLES
  map,       \* jm_emap_t: the map being built
  model,     \* history: the value last put for each key
  confused,  \* history: was a key asked for that begins another one?
  puts, ops  \* values put; operations

mapVars == <<map, model, confused, puts, ops>>

MapInit ==
  /\ map = EmptyMap(StringT)
  /\ model = [k \in {} |-> <<>>]
  /\ confused = FALSE
  /\ puts = 0 /\ ops = 0

\* Is k, but for the case, the beginning of another key of the map?
Begins(k) == \E j \in DOMAIN model \ {k} : IsPrefix(Upper(k), Upper(j))

\* What a caller can read again: the types without a value keep that of a new
\* entry, and a LONG has passed a pointer of 32 bits.
Wanted(tv) ==
  [type |-> tv.type,
   val  |-> IF tv.type \in Unset THEN Num(0) ELSE ThroughPointer(tv.type, tv.val)]

\* jm_emap_put and the typed puts.  A type without a value is only put for a
\* new key: its entry would keep the value of another type.
PutValue ==
  \E k \in MapKeys, tv \in Values :
    /\ puts < MaxPuts
    /\ tv.type \in Unset => k \notin DOMAIN model
    /\ map' = Put(map, k, tv.type, tv.val)
    /\ model' = [j \in DOMAIN model \cup {k} |-> IF j = k THEN Wanted(tv) ELSE model[j]]
    /\ confused' = (confused \/ Begins(k))
    /\ puts' = puts + 1

\* jm_emap_remove.
RemoveEntry ==
  \E k \in MapKeys :
    /\ map.hd # <<>>
    /\ map' = RemoveKey(map, k)
    /\ model' = [j \in DOMAIN model \ {k} |-> model[j]]
    /\ confused' = (confused \/ Begins(k))
    /\ UNCHANGED puts

\* jm_emap_putAll, into a new map.
CopyAll ==
  /\ map.hd # <<>>
  /\ map' = PutAll(EmptyMap(StringT), map)
  /\ confused' = (confused \/ \E k \in DOMAIN model : Begins(k))
  /\ UNCHANGED <<model, puts>>

\* The map, or its values, as the value of another entry.
Nested(type) ==
  LET list[i \in 0 .. Len(map.hd)] ==
        IF i = 0 THEN EmptyList ELSE Add(list[i - 1], map.hd[i].type, map.hd[i].val)
  IN IF type = MapT THEN MapVal(map) ELSE ListVal(list[Len(map.hd)])

\* jm_emap_putMap, jm_emap_putList, into a new map.
Nest ==
  \E k \in MapKeys, type \in {MapT, ListT} :
    /\ map.hd # <<>> /\ ~confused
    /\ map' = Put(EmptyMap(StringT), k, type, Nested(type))
    /\ model' = [j \in {k} |-> [type |-> type, val |-> Nested(type)]]
    /\ UNCHANGED <<confused, puts>>

Build ==
  /\ ops < MaxOps
  /\ ops' = ops + 1
  /\ PutValue \/ RemoveEntry \/ CopyAll \/ Nest

\* jm_emap_release: the next map is built.
Release ==
  /\ map' = EmptyMap(StringT) /\ model' = [k \in {} |-> <<>>]
  /\ confused' = FALSE /\ puts' = 0 /\ ops' = 0

MapNext == Build \/ Release

MapSpec == MapInit /\ [][MapNext]_mapVars
-----------------------------------------------------------------------------
(* A map finds for every key the value last put for it and nothing else,   *)
(* through updates that change the type, removals and copies, until a key  *)
(* is asked for that begins another one: the comparison of jm_strcasecmp   *)
(* ends with the key asked for.                                            *)
MapIsModel ==
  ~confused =>
    /\ Len(map.hd) = Cardinality(DOMAIN model)
    /\ \A k \in MapKeys :
         IF k \in DOMAIN model
         THEN HasKey(map, k) /\ [type |-> Get(map, k).type, val |-> Get(map, k).val] = model[k]
         ELSE Begins(k) \/ ~HasKey(map, k)
=============================================================================
