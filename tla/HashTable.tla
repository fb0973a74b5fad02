------------------------------ MODULE HashTable ------------------------------
(***************************************************************************)
(* The hash table of src/jm_mem.c that holds the timers, the waiting RPCs, *)
(* the event listeners and the sender channels: an array of chains, new    *)
(* items at the end of their chain, and an iterator that survives the      *)
(* removal of the item it stands on.  Keys stand for their items.          *)
(***************************************************************************)
EXTENDS Integers, FiniteSets, SequencesExt

CONSTANTS
  Keys,     \* the keys that can be in the table
  Cap,      \* the number of chains
  Bucket,   \* _hashmap_idx: the chain of a key
  Matches,  \* the keys that a key is taken for: itself; of strings all that it
            \* begins, but for the case, because of jm_strcmp
  None      \* the null pointer

ASSUME HashTableAssumption ==
  /\ Cap \in Nat \ {0}
  /\ Bucket \in [Keys -> 0 .. Cap - 1]
  /\ Matches \in [Keys -> SUBSET Keys]
  /\ \A k \in Keys : k \in Matches[k]
  /\ None \notin Keys

Chains   == 0 .. Cap - 1
Tables   == [Chains -> Seq(Keys)]
NewTable == [i \in Chains |-> <<>>]

KeysOf(arr) == UNION {ToSet(arr[i]) : i \in Chains}

\* _hashmap_getItem: the first item of the chain whose key matches.
Hits(arr, k)  == {n \in DOMAIN arr[Bucket[k]] : arr[Bucket[k]][n] \in Matches[k]}
Exist(arr, k) == Hits(arr, k) # {}
Find(arr, k)  == arr[Bucket[k]][CHOOSE n \in Hits(arr, k) : \A m \in Hits(arr, k) : n <= m]

\* Fault: the key is not hashed.
HashPutUnhashed(arr, k) ==
  IF Exist(arr, k) THEN arr ELSE [arr EXCEPT ![0] = Append(@, k)]

HashPut(arr, k) ==
  IF Exist(arr, k) THEN arr ELSE [arr EXCEPT ![Bucket[k]] = Append(@, k)]

HashRemove(arr, k) ==
  IF Exist(arr, k) THEN [arr EXCEPT ![Bucket[k]] = RemoveFirst(@, Find(arr, k))] ELSE arr

\* An iterator: the chain it is in and the item it stands on.
Iterators == [idx : -1 .. Cap - 1, cur : Keys \cup {None}]
Start     == [idx |-> -1, cur |-> None]
Ended     == [idx |-> Cap - 1, cur |-> None]

PosOf(arr, ite) == CHOOSE n \in 1 .. Len(arr[ite.idx]) : arr[ite.idx][n] = ite.cur
HasNext(arr, ite) == ite.cur # None /\ ite.cur # Last(arr[ite.idx])
Later(arr, ite) == {i \in Chains : i > ite.idx /\ arr[i] # <<>>}

\* Fault: the walk ends with its first chain.
IteNextOneChain(arr, ite) ==
  IF HasNext(arr, ite) THEN [ite EXCEPT !.cur = arr[ite.idx][PosOf(arr, ite) + 1]]
  ELSE IF Later(arr, ite) = {} \/ ite.idx # -1 THEN Ended
  ELSE LET i == CHOOSE i \in Later(arr, ite) : \A j \in Later(arr, ite) : i <= j
       IN [idx |-> i, cur |-> Head(arr[i])]

\* jm_hashmap_iteNext: the next of the chain, or the head of a later chain.
IteNext(arr, ite) ==
  IF HasNext(arr, ite) THEN [ite EXCEPT !.cur = arr[ite.idx][PosOf(arr, ite) + 1]]
  ELSE IF Later(arr, ite) = {} THEN Ended
  ELSE LET i == CHOOSE i \in Later(arr, ite) : \A j \in Later(arr, ite) : i <= j
       IN [idx |-> i, cur |-> Head(arr[i])]

\* Fault: removing the head of a chain sends the iterator back to the start.
StepBackToStart(arr, ite) == Start

\* jm_hashmap_iteRemove steps back to the previous item; there is none
\* before the head of a chain, and the iterator forgets where it was.
StepBack(arr, ite) ==
  [ite EXCEPT !.cur = IF @ = Head(arr[ite.idx]) THEN None
                      ELSE arr[ite.idx][PosOf(arr, ite) - 1]]

IteRemove(arr, ite) == [arr EXCEPT ![ite.idx] = RemoveFirst(@, ite.cur)]
=============================================================================
