----------------------------- MODULE PartsProofs -----------------------------
(***************************************************************************)
(* Theorems about five parts that share no state, for every set of         *)
(* listeners, devices, accounts, requests and bytes and every hash table:  *)
(* the walk over the listeners of an event (EventListeners), the items     *)
(* that devices answer (ItemAnswers), the pass over the waiting requests   *)
(* (RpcSweep), the ring of bytes of src/jm_buffer.c (RingBuffer), whose    *)
(* flags agree with its positions and which is a queue of bytes            *)
(* (ByteStream, ByteQueue) for every capacity, growth and sequence of      *)
(* calls, and the messages that go through it, which arrive until one is   *)
(* cut off (MsgFraming).                                                   *)
(***************************************************************************)
EXTENDS EventListeners, ItemAnswers, RpcSweep, ByteStream, MsgFraming, HashTableFacts,
        FiniteSetTheorems

(* The list has no listener twice and, until a removal goes wrong, those   *)
(* that want to be called.                                                 *)
ListInv ==
  /\ Simple(list, Listeners)
  /\ ~misplaced => ToSet(list) = wanted

LEMMA NextListed == ListInv /\ [ListenNext]_listenVars => ListInv'
<1> SUFFICES ASSUME ListInv, [ListenNext]_listenVars PROVE ListInv'
  OBVIOUS
<1>1. ASSUME NEW l \in Listeners, Reg(l)
      PROVE  ListInv'
  <2>1. CASE l \in ToSet(list)
    BY <1>1, <2>1 DEF Reg, ListInv
  <2>2. CASE l \notin ToSet(list)
    <3>1. /\ list' = Append(list, l) /\ wanted' = wanted \cup {l}
          /\ misplaced' = misplaced
      BY <1>1, <2>2 DEF Reg
    <3>2. Simple(list', Listeners) /\ ToSet(list') = ToSet(list) \cup {l}
      BY <2>2, <3>1, AppendSimple DEF ListInv
    <3>3. QED BY <3>1, <3>2 DEF ListInv
  <2>3. QED BY <2>1, <2>2
<1>2. ASSUME NEW l \in Listeners, Unreg(l)
      PROVE  ListInv'
  <2> DEFINE gone == Removed(l)
  <2>1. /\ list' = RemoveFirst(list, gone) /\ wanted' = wanted \ {l}
        /\ misplaced' = (misplaced \/ gone # l)
    BY <1>2 DEF Unreg, Unlink
  <2>2. Simple(list', Listeners) /\ ToSet(list') = ToSet(list) \ {gone}
    BY <2>1, RemoveSimple DEF ListInv
  <2>3. QED BY <2>1, <2>2 DEF ListInv
<1>3. CASE Invoke \/ ListenerReturns
  BY <1>3 DEF Invoke, ListenerReturns, ListInv
<1>4. CASE UNCHANGED listenVars
  BY <1>4 DEF listenVars, ListInv
<1>5. QED BY <1>1, <1>2, <1>3, <1>4 DEF ListenNext

LEMMA ListInvariant == ListenSpec => []ListInv
<1>1. ListenInit => ListInv
  BY SimpleEmpty DEF ListenInit, ListInv
<1>2. QED BY <1>1, NextListed, PTL DEF ListenSpec

(* Whoever registers and unregisters, and when, the listeners of an event  *)
(* are those that registered and did not unregister, each once, until the  *)
(* removal of the second of the list takes the first.                      *)
THEOREM ListenersListed == ListenSpec => []ListedAreWanted
<1>1. ListInv => ListedAreWanted
  BY DEF ListInv, ListedAreWanted, Simple
<1>2. QED BY <1>1, ListInvariant, PTL
-----------------------------------------------------------------------------
(* What a walk has done and has still to do.  A listener that has been     *)
(* called may be ahead of the walk again: it has registered anew, and has  *)
(* not been there all the while.                                           *)
WalkInv ==
  running =>
    /\ Simple(rest, Listeners) /\ ToSet(rest) \subseteq ToSet(list)
    /\ steady \subseteq ToSet(list)
    /\ steady \subseteq called \cup ToSet(rest)
    /\ steady \cap twice = {}
    /\ steady \cap called \cap ToSet(rest) = {}

\* The walk goes on to the head of what is left.
LEMMA CallNextWalks ==
  ASSUME WalkInv, running, rest # <<>>, CallNext(rest),
         UNCHANGED <<list, steady>>
  PROVE  WalkInv'
<1>1. /\ rest' = Tail(rest) /\ called' = called \cup {Head(rest)}
      /\ twice' = twice \cup (called \cap {Head(rest)})
  BY DEF CallNext
<1>2. /\ Simple(rest', Listeners)
      /\ ToSet(rest) = {Head(rest)} \cup ToSet(rest')
      /\ Head(rest) \notin ToSet(rest')
  BY <1>1, TailSimple DEF WalkInv
<1>3. QED BY <1>1, <1>2 DEF WalkInv

LEMMA NextWalks == ListInv /\ WalkInv /\ [ListenNext]_listenVars => WalkInv'
<1> SUFFICES ASSUME ListInv, WalkInv, [ListenNext]_listenVars PROVE WalkInv'
  OBVIOUS
<1>1. ASSUME NEW l \in Listeners, Reg(l)
      PROVE  WalkInv'
  <2>1. UNCHANGED <<running, called, twice, steady>>
    BY <1>1 DEF Reg, walk
  <2>2. CASE l \in ToSet(list)
    BY <1>1, <2>1, <2>2 DEF Reg, WalkInv
  <2>3. CASE l \notin ToSet(list)
    <3> SUFFICES ASSUME running PROVE WalkInv'
      BY <2>1 DEF WalkInv
    <3>1. list' = Append(list, l) /\ rest' \in {rest, Append(rest, l)}
      BY <1>1, <2>3 DEF Reg
    <3>2. ToSet(list') = ToSet(list) \cup {l}
      BY <3>1, AppendSimple DEF ListInv
    <3>3. CASE rest' = rest
      BY <2>1, <3>2, <3>3 DEF WalkInv
    <3>4. CASE rest' = Append(rest, l)
      <4>1. l \notin ToSet(rest)
        BY <2>3 DEF WalkInv
      <4>2. Simple(rest', Listeners) /\ ToSet(rest') = ToSet(rest) \cup {l}
        BY <3>4, <4>1, AppendSimple DEF WalkInv
      <4>3. l \notin steady
        BY <2>3 DEF WalkInv
      <4>4. QED BY <2>1, <3>2, <4>2, <4>3 DEF WalkInv
    <3>5. QED BY <3>1, <3>3, <3>4
  <2>4. QED BY <2>2, <2>3
<1>2. ASSUME NEW l \in Listeners, Unreg(l)
      PROVE  WalkInv'
  <2> DEFINE gone == Removed(l)
  <2>1. /\ list' = RemoveFirst(list, gone) /\ rest' = RemoveFirst(rest, gone)
        /\ steady' = steady \ {l, gone}
        /\ UNCHANGED <<running, called, twice>>
    BY <1>2 DEF Unreg, Unlink, walk
  <2> SUFFICES ASSUME running PROVE WalkInv'
    BY <2>1 DEF WalkInv
  <2>2. ToSet(list') = ToSet(list) \ {gone}
    BY <2>1, RemoveSimple DEF ListInv
  <2>3. Simple(rest', Listeners) /\ ToSet(rest') = ToSet(rest) \ {gone}
    BY <2>1, RemoveSimple DEF WalkInv
  <2>4. QED BY <2>1, <2>2, <2>3 DEF WalkInv
<1>3. CASE Invoke
  <2>1. /\ list # <<>> /\ rest' = Tail(list) /\ called' = {Head(list)}
        /\ twice' = {} /\ steady' = ToSet(list) /\ list' = list
    BY <1>3 DEF Invoke
  <2>2. /\ Simple(rest', Listeners)
        /\ ToSet(list) = {Head(list)} \cup ToSet(rest')
        /\ Head(list) \notin ToSet(rest')
    BY <2>1, TailSimple DEF ListInv
  <2>3. QED BY <2>1, <2>2 DEF WalkInv
<1>4. CASE ListenerReturns
  <2>1. CASE rest = <<>>
    BY <1>4, <2>1 DEF ListenerReturns, WalkInv
  <2>2. CASE rest # <<>>
    BY <1>4, <2>2, CallNextWalks DEF ListenerReturns
  <2>3. QED BY <2>1, <2>2
<1>5. CASE UNCHANGED listenVars
  BY <1>5 DEF listenVars, walk, WalkInv
<1>6. QED BY <1>1, <1>2, <1>3, <1>4, <1>5 DEF ListenNext

(* A walk calls every listener that was registered all the while, once,    *)
(* however many register and unregister behind and before it.              *)
THEOREM EverySteadyIsCalledOnce == ListenSpec => SteadyCalledOnce
<1>1. ListenInit => WalkInv
  BY DEF ListenInit, WalkInv
<1>2. WalkInv /\ [ListenNext]_listenVars =>
        [running /\ ~running' => steady \subseteq called \ twice]_listenVars
  <2> SUFFICES ASSUME WalkInv, ListenNext, running, ~running'
               PROVE  steady \subseteq called \ twice
    OBVIOUS
  <2>1. rest = <<>>
    BY DEF ListenNext, Reg, Unreg, Invoke, ListenerReturns, walk
  <2>2. ToSet(rest) = {}
    BY <2>1, SimpleEmpty
  <2>3. QED BY <2>2 DEF WalkInv
<1>3. QED BY <1>1, <1>2, NextWalks, ListInvariant, PTL DEF ListenSpec, SteadyCalledOnce
-----------------------------------------------------------------------------
\* An answer keeps the id of the item and goes back to its sender.
LEMMA AnswerFields ==
  ASSUME TypeOK, NEW it \in net
  PROVE  /\ Answer(it) \in Item
         /\ Answer(it).id = it.id /\ Answer(it).type = it.type
         /\ Answer(it).fr = it.to
         /\ Answer(it)._r = TRUE /\ Answer(it).deviceId = FALSE
<1>1. it \in Item /\ clientId[it.to] \in Account
  BY DEF TypeOK, Item
<1>2. QED BY <1>1 DEF Answer, Item

\* What the step of a receiver does to the items on their way.
LEMMA ReceiveCases ==
  ASSUME Receive
  PROVE  \E it \in net :
           /\ \/ net' = net \ {it}
              \/ /\ Rejected(it) \/ ~it._r
                 /\ net' = (net \ {it}) \cup {Answer(it)}
           /\ UNCHANGED <<sysCfg, clientId, items>>
BY DEF Receive

LEMMA NextTyped == TypeOK /\ [AnswerNext]_answerVars => TypeOK'
<1> SUFFICES ASSUME TypeOK, [AnswerNext]_answerVars PROVE TypeOK'
  OBVIOUS
<1> USE ItemAnswersAssumption
<1>1. ASSUME NEW d \in Devices, Publish(d)
      PROVE  TypeOK'
  <2>1. PICK to \in Devices \ {d}, type \in Types, named \in BOOLEAN :
          /\ items < MaxItems /\ items' = items + 1
          /\ named => type = "slave"
          /\ net' = net \cup {[id |-> items + 1, type |-> type, fr |-> d, to |-> to,
                               _r |-> FALSE, deviceId |-> named, cid |-> clientId[d]]}
          /\ UNCHANGED <<sysCfg, clientId>>
    BY <1>1 DEF Publish
  <2> DEFINE new == [id |-> items + 1, type |-> type, fr |-> d, to |-> to,
                     _r |-> FALSE, deviceId |-> named, cid |-> clientId[d]]
  <2>2. items \in Nat /\ items + 1 \in 1 .. MaxItems /\ clientId[d] \in Account
    BY <2>1 DEF TypeOK
  <2>3. new \in Item /\ new.id = items + 1 /\ new._r = FALSE
        /\ new.deviceId = named /\ new.type = type
    BY <2>2 DEF Item
  <2>4. ASSUME NEW it \in net'
        PROVE  it \in Item /\ it.id <= items' /\ (it.deviceId => it.type = "slave" /\ ~it._r)
    <3>1. CASE it = new
      BY <2>1, <2>2, <2>3, <3>1
    <3>2. CASE it \in net
      BY <2>1, <2>2, <3>2 DEF TypeOK, Item
    <3>3. QED BY <2>1, <3>1, <3>2
  <2>5. QED BY <2>1, <2>2, <2>4 DEF TypeOK
<1>2. CASE Receive
  <2>1. PICK it \in net :
           /\ net' = net \ {it} \/ net' = (net \ {it}) \cup {Answer(it)}
           /\ UNCHANGED <<sysCfg, clientId, items>>
    BY <1>2, ReceiveCases
  <2>2. Answer(it) \in Item /\ Answer(it).id <= items /\ Answer(it).deviceId = FALSE
    BY AnswerFields DEF TypeOK
  <2>3. QED BY <2>1, <2>2 DEF TypeOK
<1>3. CASE Lose
  BY <1>3 DEF Lose, TypeOK
<1>4. ASSUME NEW d \in Devices, LoginResult(d) \/ ReInit(d) \/ Logout(d)
      PROVE  TypeOK'
  <2>1. sysCfg \in [Devices -> Account] /\ clientId \in [Devices -> Account]
    BY DEF TypeOK
  <2>2. sysCfg' \in [Devices -> Account] /\ clientId' \in [Devices -> Account]
    BY <1>4, <2>1 DEF LoginResult, ReInit, Logout, Account
  <2>3. net' = net /\ items' = items
    BY <1>4 DEF LoginResult, ReInit, Logout
  <2>4. QED BY <2>2, <2>3 DEF TypeOK
<1>5. CASE UNCHANGED answerVars
  BY <1>5 DEF answerVars, TypeOK
<1>6. QED BY <1>1, <1>2, <1>3, <1>4, <1>5 DEF AnswerNext

(* The items keep their types, and the ids are those that were published.  *)
THEOREM TypeCorrect == AnswerSpec => []TypeOK
<1>1. AnswerInit => TypeOK
  BY ItemAnswersAssumption DEF AnswerInit, TypeOK
<1>2. QED BY <1>1, NextTyped, PTL DEF AnswerSpec
-----------------------------------------------------------------------------
\* Of an item and what is said about it, one is on its way at a time.
OneOfEach == \A i, j \in net : i.id = j.id => i = j

LEMMA NextOneOfEach == TypeOK /\ OneOfEach /\ [AnswerNext]_answerVars => OneOfEach'
<1> SUFFICES ASSUME TypeOK, OneOfEach, [AnswerNext]_answerVars PROVE OneOfEach'
  OBVIOUS
<1> USE DEF OneOfEach
<1>1. ASSUME NEW d \in Devices, Publish(d)
      PROVE  OneOfEach'
  <2>1. PICK new : net' = net \cup {new} /\ new.id = items + 1
    <3>1. PICK to \in Devices \ {d}, type \in Types, named \in BOOLEAN :
            net' = net \cup {[id |-> items + 1, type |-> type, fr |-> d, to |-> to,
                              _r |-> FALSE, deviceId |-> named, cid |-> clientId[d]]}
      BY <1>1 DEF Publish
    <3>2. [id |-> items + 1, type |-> type, fr |-> d, to |-> to,
           _r |-> FALSE, deviceId |-> named, cid |-> clientId[d]].id = items + 1
      OBVIOUS
    <3>3. QED BY <3>1, <3>2
  <2>2. \A it \in net : it.id \in Nat /\ it.id <= items /\ items \in Nat
    BY ItemAnswersAssumption DEF TypeOK, Item
  <2>3. \A it \in net : it.id # new.id
    BY <2>1, <2>2
  <2>4. QED BY <2>1, <2>3
<1>2. CASE Receive
  <2>1. PICK it \in net : net' = net \ {it} \/ net' = (net \ {it}) \cup {Answer(it)}
    BY <1>2, ReceiveCases
  <2>2. Answer(it).id = it.id
    BY AnswerFields
  <2>3. QED BY <2>1, <2>2
<1>3. CASE Lose
  BY <1>3 DEF Lose
<1>4. ASSUME NEW d \in Devices, LoginResult(d) \/ ReInit(d) \/ Logout(d)
      PROVE  OneOfEach'
  BY <1>4 DEF LoginResult, ReInit, Logout
<1>5. CASE UNCHANGED answerVars
  BY <1>5 DEF answerVars
<1>6. QED BY <1>1, <1>2, <1>3, <1>4, <1>5 DEF AnswerNext

(* Nothing rejects an answer: one of type ctrl is known by _r, one of type *)
(* slave by the device it does not name (_c_dispachPubsubItem).            *)
LEMMA AnswerIsAccepted ==
  ASSUME TypeOK, Types \subseteq {"ctrl", "slave"}, NEW it \in net, it._r
  PROVE  ~Rejected(it)
<1>1. it.type \in {"ctrl", "slave"} /\ ~it.deviceId
  BY DEF TypeOK, Item
<1>2. QED BY <1>1 DEF Rejected, IsResp, ComesOnline

(* Among items of the types ctrl and slave no answer is answered, however  *)
(* many devices of however many accounts take part, whichever of them are  *)
(* bound to another account meanwhile.  Of the type "other" it is not so.  *)
THEOREM AnswersEnd ==
  ASSUME Types \subseteq {"ctrl", "slave"}
  PROVE  AnswerSpec => NoAnswerToAnswer
<1> DEFINE Unanswered ==
      \A it \in net : it._r => ~\E new \in net' \ net : new.id = it.id /\ new.fr = it.to
<1>1. TypeOK /\ OneOfEach /\ [AnswerNext]_answerVars => [Unanswered]_answerVars
  <2> SUFFICES ASSUME TypeOK, OneOfEach, AnswerNext,
                      NEW it \in net, it._r, NEW new \in net' \ net, new.id = it.id
               PROVE  FALSE
    OBVIOUS
  <2>1. ASSUME NEW d \in Devices, Publish(d)
        PROVE  FALSE
    <3>1. new.id = items + 1
      BY <2>1 DEF Publish
    <3>2. it.id \in Nat /\ it.id <= items /\ items \in Nat
      BY ItemAnswersAssumption DEF TypeOK, Item
    <3>3. QED BY <3>1, <3>2
  <2>2. CASE Receive
    <3>1. PICK jt \in net : /\ Rejected(jt) \/ ~jt._r
                            /\ net' = (net \ {jt}) \cup {Answer(jt)}
      BY <2>2, ReceiveCases
    <3>2. new = Answer(jt) /\ jt.id = it.id
      BY <3>1, AnswerFields
    <3>3. jt = it
      BY <3>2 DEF OneOfEach
    <3>4. QED BY <3>1, <3>3, AnswerIsAccepted
  <2>3. CASE Lose
    BY <2>3 DEF Lose
  <2>4. ASSUME NEW d \in Devices, LoginResult(d) \/ ReInit(d) \/ Logout(d)
        PROVE  FALSE
    BY <2>4 DEF LoginResult, ReInit, Logout
  <2>5. QED BY <2>1, <2>2, <2>3, <2>4 DEF AnswerNext
<1>2. AnswerInit => OneOfEach
  BY DEF AnswerInit, OneOfEach
<1>3. QED BY <1>1, <1>2, NextOneOfEach, TypeCorrect, PTL DEF AnswerSpec, NoAnswerToAnswer
-----------------------------------------------------------------------------
\* The pass over the waiting requests: the table, the iterator, and the
\* request whose callback runs.
SweepTyped ==
  /\ Shape(table) /\ Shape(before) /\ ite \in Iterators /\ late \subseteq Keys
  /\ phase \in {"idle", "walk", "call"}
  /\ phase # "idle" /\ ite.cur # None => StandsOn(table, ite)
  /\ phase = "call" => ite.cur # None /\ ite.cur \in late

\* Only what Swept names leaves the table, and what it names has left, is
\* ahead, or is being called.
OnlySweptLeave == \A k \in Keys : Has(before, k) /\ ~Has(table, k) => k \in SweptOf(before)

SweptAhead ==
  \A k \in SweptOf(before) :
    ~Has(table, k) \/ k \in Ahead(table, ite) \/ (phase = "call" /\ k = ite.cur)

\* The walk goes on behind the head of a chain only when the head stays.
HeadStays ==
  ite.cur # None /\ before[ite.idx] # <<>> /\ Head(before[ite.idx]) \in late =>
    phase = "call" /\ ite.cur = Head(before[ite.idx])

\* The chains to come, and the one that the walk is in, have the head they
\* started with.
HeadsKept ==
  \A i \in Chains :
    (i > ite.idx \/ (i = ite.idx /\ ite.cur # None)) /\ before[i] # <<>> =>
      table[i] # <<>> /\ Head(table[i]) = Head(before[i])

\* What a callback issues is not late.
LateAreOld == \A k \in late : Has(table, k) => Has(before, k)

SweepInv ==
  /\ SweepTyped
  /\ phase # "idle" =>
       OnlySweptLeave /\ SweptAhead /\ HeadStays /\ HeadsKept /\ LateAreOld

\* Which requests Swept names.
LEMMA SweptFacts ==
  ASSUME SweepTyped, NEW k \in Keys
  PROVE  /\ k \in SweptOf(before) <=>
              /\ Has(before, k) /\ k \in late
              /\ Head(before[Bucket[k]]) = k \/ Head(before[Bucket[k]]) \notin late
         /\ Has(before, k) => before[Bucket[k]] # <<>>
<1>1. KeysOf(before) = {j \in Keys : Has(before, j)}
  BY KeysAreFound DEF SweepTyped
<1>2. Has(before, k) => before[Bucket[k]] # <<>>
  BY SimpleEmpty DEF Has
<1>3. QED BY <1>1, <1>2 DEF SweptOf

LEMMA SweptAreKeys == SweepTyped => SweptOf(before) \subseteq Keys
BY DEF SweptOf, SweepTyped

\* A new request, whoever issues it.
LEMMA RegisterKeeps ==
  ASSUME SweepInv, Register, UNCHANGED <<ite, phase, late, before>>
  PROVE  SweepInv'
<1>1. PICK k \in Keys : (\A j \in KeysOf(table) \cup late : j < k) /\ table' = HashPut(table, k)
  BY DEF Register
<1>2. ~Exist(table, k) /\ ~Has(table, k) /\ k \notin late
  <2>1. k \in Int /\ ~(k < k)
    BY SweepAssumption
  <2>2. KeysOf(table) = {j \in Keys : Has(table, j)}
    BY KeysAreFound DEF SweepInv, SweepTyped
  <2>3. Exist(table, k) => Has(table, k)
    BY SweepAssumption DEF Exist, Hits, Has, ToSet
  <2>4. QED BY <1>1, <2>1, <2>2, <2>3
<1>3. Shape(table') /\ \A j \in Keys : Has(table', j) <=> Has(table, j) \/ j = k
  BY <1>1, <1>2, PutShape DEF SweepInv, SweepTyped
<1>4. SweepTyped'
  BY <1>3 DEF SweepInv, SweepTyped, StandsOn, Iterators
<1>5. CASE phase # "idle"
  <2>1. SweptOf(before)' = SweptOf(before)
    BY DEF SweptOf
  <2>2. OnlySweptLeave'
    BY <1>3, <1>5, <2>1 DEF SweepInv, OnlySweptLeave, Has
  <2>3. SweptAhead'
    <3>1. Ahead(table, ite) \subseteq Ahead(table', ite)
      BY <1>1, <1>2, <1>5, PutAhead DEF SweepInv, SweepTyped
    <3>2. ASSUME NEW j \in SweptOf(before), Has(table', j)
          PROVE  Has(table, j)
      BY <1>2, <1>3, <3>2, SweptAreKeys DEF SweepInv, SweptOf
    <3>3. QED BY <1>5, <2>1, <3>1, <3>2 DEF SweepInv, SweptAhead, Has
  <2>4. HeadStays'
    BY <1>5 DEF SweepInv, HeadStays
  <2>5. HeadsKept'
    <3>1. table' = [table EXCEPT ![Bucket[k]] = Append(@, k)] /\ DOMAIN table = Chains
      BY <1>1, <1>2 DEF HashPut, SweepInv, SweepTyped, Shape
    <3>2. ASSUME NEW i \in Chains, table[i] # <<>>
          PROVE  table'[i] # <<>> /\ Head(table'[i]) = Head(table[i])
      <4>1. table[i] \in Seq(Keys)
        BY DEF SweepInv, SweepTyped, Shape, Simple
      <4>2. /\ Append(table[i], k) # <<>>
            /\ Head(Append(table[i], k)) = Head(table[i])
        BY <3>2, <4>1
      <4>3. table'[i] = table[i] \/ table'[i] = Append(table[i], k)
        BY <3>1
      <4>4. QED BY <3>2, <4>2, <4>3
    <3>3. QED BY <1>5, <3>2 DEF SweepInv, HeadsKept
  <2>6. LateAreOld'
    BY <1>2, <1>3, <1>5 DEF SweepInv, SweepTyped, LateAreOld, Has
  <2>7. QED BY <1>4, <2>2, <2>3, <2>4, <2>5, <2>6 DEF SweepInv
<1>6. QED BY <1>4, <1>5 DEF SweepInv

LEMMA StartSweeps ==
  ASSUME SweepInv, StartPass
  PROVE  SweepInv'
<1>1. CASE UNCHANGED sweepVars
  BY <1>1 DEF SweepInv, SweepTyped, OnlySweptLeave, SweptAhead, HeadStays, HeadsKept,
              LateAreOld, SweptOf, Ahead, Has, sweepVars
<1>2. CASE phase' = "walk" /\ ite' = Start /\ before' = table /\ UNCHANGED <<table, late>>
  <2>1. Start \in Iterators /\ Start.cur = None
    BY HashTableAssumption DEF Start, Iterators
  <2>2. SweepTyped'
    BY <1>2, <2>1 DEF SweepInv, SweepTyped
  <2>3. OnlySweptLeave' /\ LateAreOld'
    BY <1>2 DEF OnlySweptLeave, LateAreOld, Has
  <2>4. HeadStays' /\ HeadsKept'
    BY <1>2, <2>1 DEF HeadStays, HeadsKept
  <2>5. SweptAhead'
    <3>1. Ahead(table, Start) = KeysOf(table)
      BY AllAhead DEF SweepInv, SweepTyped
    <3>2. SweptOf(before)' \subseteq KeysOf(table)
      BY <1>2 DEF SweptOf, KeysOf
    <3>3. QED BY <1>2, <3>1, <3>2 DEF SweptAhead
  <2>6. QED BY <2>2, <2>3, <2>4, <2>5 DEF SweepInv
<1>3. QED BY <1>1, <1>2 DEF StartPass, sweepVars

\* The walk goes to the next item, which is the head of a chain or stands
\* behind a head that is not late.
LEMMA WalkSweeps ==
  ASSUME SweepInv, Walk
  PROVE  SweepInv'
<1> DEFINE next == IteNext(table, ite)
<1>1. phase = "walk" /\ UNCHANGED <<table, late, before>>
  BY DEF Walk
<1>2. Shape(table) /\ ite \in Iterators /\ (ite.cur # None => StandsOn(table, ite))
  BY <1>1 DEF SweepInv, SweepTyped
<1>3. CASE next = Ended
  <2>1. phase' = "idle" /\ ite' = ite
    BY <1>3 DEF Walk
  <2>2. QED BY <1>1, <2>1 DEF SweepInv, SweepTyped
<1>4. CASE next # Ended
  <2>1. /\ ite' = next /\ phase' = IF next.cur \in late THEN "call" ELSE "walk"
        /\ next \in Iterators /\ StandsOn(table, next) /\ next.cur # None
        /\ Ahead(table, next) = Ahead(table, ite) \ {next.cur}
    BY <1>2, <1>4, NextStands, NextAhead, HashTableAssumption DEF Walk, StandsOn
  <2>2. SweepTyped'
    BY <1>1, <2>1 DEF SweepInv, SweepTyped
  <2>3. SweptOf(before)' = SweptOf(before)
    BY <1>1 DEF SweptOf, KeysOf
  <2>4. OnlySweptLeave' /\ LateAreOld'
    BY <1>1, <2>3 DEF SweepInv, OnlySweptLeave, LateAreOld, Has
  <2>5. SweptAhead'
    <3>1. \A k \in SweptOf(before) : k \in late
      BY DEF SweptOf
    <3>2. QED BY <1>1, <2>1, <2>3, <3>1 DEF SweepInv, SweptAhead, Has
  <2>6. HeadStays' /\ HeadsKept'
    <3>1. CASE HasNext(table, ite)
      <4>1. next.idx = ite.idx /\ ite.cur # None
        BY <3>1 DEF next, IteNext, HasNext, Iterators
      <4>2. HeadsKept'
        BY <1>1, <2>1, <4>1 DEF SweepInv, HeadsKept
      <4>3. HeadStays'
        BY <1>1, <2>1, <4>1 DEF SweepInv, HeadStays
      <4>4. QED BY <4>2, <4>3
    <3>2. CASE ~HasNext(table, ite)
      <4>1. next.idx \in Chains /\ next.idx > ite.idx /\ next.cur = Head(table[next.idx])
        BY <1>2, <1>4, <3>2, NextChain
      <4>2. ite.idx \in Int
        BY <1>2, HashTableAssumption DEF Iterators
      <4>3. HeadsKept'
        <5>1. ASSUME NEW i \in Chains, i > next.idx \/ i = next.idx PROVE i > ite.idx
          BY <4>1, <4>2, <5>1, HashTableAssumption DEF Chains
        <5>2. QED BY <1>1, <2>1, <5>1 DEF SweepInv, HeadsKept
      <4>4. HeadStays'
        BY <1>1, <2>1, <4>1 DEF SweepInv, HeadsKept, HeadStays
      <4>5. QED BY <4>3, <4>4
    <3>3. QED BY <3>1, <3>2
  <2>7. QED BY <2>2, <2>4, <2>5, <2>6 DEF SweepInv
<1>5. QED BY <1>3, <1>4

\* A late request is removed.  When it is the head of its chain the walk
\* leaves the chain, and the late requests behind it are not swept.
LEMMA ReturnSweeps ==
  ASSUME SweepInv, CallbackReturns
  PROVE  SweepInv'
<1> DEFINE c == ite.cur
<1>1. /\ phase = "call" /\ phase' = "walk" /\ UNCHANGED <<late, before>>
      /\ table' = IteRemove(table, ite) /\ ite' = StepBack(table, ite)
  BY DEF CallbackReturns
<1>2. /\ Shape(table) /\ ite \in Iterators /\ StandsOn(table, ite) /\ c # None /\ c \in late
      /\ c \in Keys /\ Bucket[c] = ite.idx /\ Has(table, c) /\ ite.idx \in Chains
  BY <1>1, BucketOf DEF SweepInv, SweepTyped, StandsOn, Iterators
<1>3. Shape(table') /\ \A j \in Keys : Has(table', j) <=> Has(table, j) /\ j # c
  BY <1>1, <1>2, IteRemoveIsRemove, RemoveShape
<1>4. /\ ite' \in Iterators /\ ite'.idx = ite.idx
      /\ ite'.cur = None <=> c = Head(table[ite.idx])
      /\ ite'.cur # None => StandsOn(table', ite')
  <2>1. /\ StepBack(table, ite) \in Iterators
        /\ StepBack(table, ite).cur # None =>
             StandsOn(table, StepBack(table, ite)) /\ StepBack(table, ite).cur # c
    BY <1>2, StepBackStands
  <2>2. ite'.cur # None => StandsOn(table', ite')
    BY <1>1, <1>3, <2>1 DEF StandsOn
  <2>3. ite'.idx = ite.idx /\ (ite'.cur = None <=> c = Head(table[ite.idx]))
    BY <1>1, <1>2, StepBackIdx
  <2>4. QED BY <1>1, <2>1, <2>2, <2>3
<1>5. SweepTyped'
  BY <1>1, <1>3, <1>4 DEF SweepInv, SweepTyped
<1>6. SweptOf(before)' = SweptOf(before)
  BY <1>1 DEF SweptOf, KeysOf
<1>7. Has(before, c) /\ c \in SweptOf(before)
  <2>1. Has(before, c)
    BY <1>1, <1>2 DEF SweepInv, LateAreOld
  <2>2. before[ite.idx] # <<>>
    BY <1>2, <2>1, SweptFacts DEF SweepInv
  <2>3. Head(before[ite.idx]) \in late => Head(before[ite.idx]) = c
    BY <1>1, <1>2, <2>2 DEF SweepInv, HeadStays
  <2>4. QED BY <1>2, <2>1, <2>3, SweptFacts DEF SweepInv
<1>8. before[ite.idx] # <<>> /\ Head(table[ite.idx]) = Head(before[ite.idx])
  BY <1>1, <1>2, <1>7, SweptFacts DEF SweepInv, HeadsKept
<1>9. OnlySweptLeave'
  BY <1>1, <1>3, <1>6, <1>7 DEF SweepInv, OnlySweptLeave, Has
<1>10. LateAreOld'
  BY <1>1, <1>3 DEF SweepInv, SweepTyped, LateAreOld, Has
<1>11. SweptAhead'
  <2> SUFFICES ASSUME NEW k \in SweptOf(before), Has(table', k)
               PROVE  k \in Ahead(table', ite')
    BY <1>1, <1>6 DEF SweptAhead, Has
  <2>1. k \in Keys /\ Has(table, k) /\ k # c
    BY <1>3, SweptAreKeys DEF SweepInv
  <2>2. k \in Ahead(table, ite)
    BY <1>1, <2>1 DEF SweepInv, SweptAhead
  <2>3. c = Head(table[ite.idx]) => Bucket[k] # ite.idx
    BY <1>2, <1>8, <2>1, SweptFacts DEF SweepInv
  <2>4. QED BY <1>1, <1>2, <2>2, <2>3, StepBackAhead
<1>12. HeadStays'
  <2>1. Head(before[ite.idx]) \in late => c = Head(table[ite.idx])
    BY <1>1, <1>2, <1>8 DEF SweepInv, HeadStays
  <2>2. Head(before[ite.idx]) \in late => ite'.cur = None
    BY <1>4, <2>1
  <2>3. QED BY <1>1, <1>4, <2>2 DEF HeadStays
<1>13. HeadsKept'
  <2> SUFFICES ASSUME NEW i \in Chains, i > ite.idx \/ (i = ite.idx /\ ite'.cur # None),
                      before[i] # <<>>
               PROVE  table'[i] # <<>> /\ Head(table'[i]) = Head(before[i])
    BY <1>1, <1>4 DEF HeadsKept
  <2>1. table[i] # <<>> /\ Head(table[i]) = Head(before[i])
    BY <1>1, <1>2 DEF SweepInv, HeadsKept
  <2>2. DOMAIN table = Chains
    BY <1>2 DEF Shape
  <2>3. CASE i # ite.idx
    BY <1>1, <1>2, <2>1, <2>2, <2>3 DEF IteRemove
  <2>4. CASE i = ite.idx
    <3>1. table'[i] = RemoveFirst(table[i], c)
      BY <1>1, <1>2, <2>2, <2>4 DEF IteRemove
    <3>2. c # Head(table[i])
      <4>1. ~(ite.idx > ite.idx)
        BY <1>2, HashTableAssumption DEF Chains
      <4>2. QED BY <1>4, <2>4, <4>1
    <3>3. Simple(table[i], Keys) /\ c \in ToSet(table[i])
      BY <1>2, <2>4 DEF Shape, Has
    <3>4. table'[i] # <<>> /\ Head(table'[i]) = Head(table[i])
      BY <2>1, <3>1, <3>2, <3>3, RemoveKeepsHead
    <3>5. QED BY <2>1, <3>4
  <2>5. QED BY <2>3, <2>4
<1>14. QED BY <1>5, <1>9, <1>10, <1>11, <1>12, <1>13 DEF SweepInv

LEMMA SweepNextKeeps == SweepInv /\ [SweepNext]_sweepVars => SweepInv'
<1> SUFFICES ASSUME SweepInv, [SweepNext]_sweepVars PROVE SweepInv'
  OBVIOUS
<1>1. CASE InvokeRpc
  BY <1>1, RegisterKeeps DEF InvokeRpc
<1>2. CASE GrowLate
  <2>1. KeysOf(table) \subseteq Keys
    BY KeysAreFound DEF SweepInv, SweepTyped
  <2>2. late' \subseteq Keys /\ phase' = "idle" /\ UNCHANGED <<table, ite, before>>
    BY <1>2, <2>1 DEF GrowLate, SweepInv, SweepTyped
  <2>3. QED BY <1>2, <2>2 DEF GrowLate, SweepInv, SweepTyped
<1>3. CASE StartPass
  BY <1>3, StartSweeps
<1>4. CASE Walk
  BY <1>4, WalkSweeps
<1>5. CASE CallbackInvokes
  BY <1>5, RegisterKeeps DEF CallbackInvokes
<1>6. CASE CallbackReturns
  BY <1>6, ReturnSweeps
<1>7. CASE UNCHANGED sweepVars
  BY <1>7 DEF SweepInv, SweepTyped, OnlySweptLeave, SweptAhead, HeadStays, HeadsKept,
              LateAreOld, SweptOf, KeysOf, Ahead, Has, StandsOn, sweepVars
<1>8. QED BY <1>1, <1>2, <1>3, <1>4, <1>5, <1>6, <1>7 DEF SweepNext

(* A pass of _c_checkRpcTimeout removes exactly the late requests that do  *)
(* not stand behind a late head of their chain, whatever new requests the  *)
(* callbacks issue while it walks, for every table and every hash.         *)
THEOREM SweepIsSwept == SweepSpec => PassIsSwept
<1>1. SweepInit => SweepInv
  <2> SUFFICES ASSUME SweepInit PROVE SweepInv
    OBVIOUS
  <2>1. Start \in Iterators
    BY HashTableAssumption DEF Start, Iterators
  <2>2. QED BY <2>1, NewShape DEF SweepInit, SweepInv, SweepTyped
<1>2. SweepInv /\ [SweepNext]_sweepVars =>
        [phase = "walk" /\ phase' = "idle" =>
           KeysOf(before) \ KeysOf(table) = SweptOf(before)]_sweepVars
  <2> SUFFICES ASSUME SweepInv, [SweepNext]_sweepVars, phase = "walk", phase' = "idle"
               PROVE  KeysOf(before) \ KeysOf(table) = SweptOf(before)
    OBVIOUS
  <2>1. Walk
    BY DEF SweepNext, InvokeRpc, GrowLate, StartPass, CallbackInvokes, CallbackReturns, sweepVars
  <2>2. Ahead(table, ite) = {}
    <3>1. IteNext(table, ite) = Ended
      BY <2>1 DEF Walk
    <3>2. QED BY <3>1, NextAhead DEF SweepInv, SweepTyped
  <2>3. /\ KeysOf(before) = {k \in Keys : Has(before, k)}
        /\ KeysOf(table) = {k \in Keys : Has(table, k)}
    BY KeysAreFound DEF SweepInv, SweepTyped
  <2>4. \A k \in SweptOf(before) : ~Has(table, k) /\ k \in KeysOf(before)
    BY <2>2 DEF SweepInv, SweptAhead, SweptOf
  <2>5. QED BY <2>3, <2>4 DEF SweepInv, OnlySweptLeave
<1>3. QED BY <1>1, <1>2, SweepNextKeeps, PTL DEF SweepSpec, PassIsSwept
-----------------------------------------------------------------------------

\* The position after the last one is the first one.
LEMMA ModBelow ==
  ASSUME NEW c \in Nat \ {0}, NEW x \in 0 .. c - 1
  PROVE  x % c = x
OBVIOUS

LEMMA ModAbove ==
  ASSUME NEW c \in Nat \ {0}, NEW x \in c .. 2 * c - 1
  PROVE  x % c = x - c
OBVIOUS

LEMMA ModUnder ==
  ASSUME NEW c \in Nat \ {0}, NEW x \in (0 - c) .. -1
  PROVE  x % c = x + c
OBVIOUS

\* The position n places after p in a ring of c.
At(p, n, c) == IF p + n < c THEN p + n ELSE p + n - c

LEMMA AtIsMod ==
  ASSUME NEW c \in Nat \ {0}, NEW p \in 0 .. c - 1, NEW n \in 0 .. c
  PROVE  (p + n) % c = At(p, n, c) /\ At(p, n, c) \in 0 .. c - 1
<1>1. CASE p + n < c
  BY <1>1, ModBelow DEF At
<1>2. CASE p + n >= c
  <2>1. p + n \in c .. 2 * c - 1
    BY <1>2
  <2>2. (p + n) % c = p + n - c
    BY <2>1, ModAbove
  <2>3. QED BY <1>2, <2>2 DEF At
<1>3. QED BY <1>1, <1>2

\* Different places of a round have different positions.
LEMMA AtApart ==
  ASSUME NEW c \in Nat \ {0}, NEW p \in 0 .. c - 1,
         NEW m \in 0 .. c - 1, NEW n \in 0 .. c - 1, At(p, m, c) = At(p, n, c)
  PROVE  m = n
BY DEF At

\* Places add up.
LEMMA AtAdds ==
  ASSUME NEW c \in Nat \ {0}, NEW p \in 0 .. c - 1, NEW m \in Nat, NEW n \in Nat, m + n <= c
  PROVE  At(At(p, m, c), n, c) = At(p, m + n, c)
BY DEF At
-----------------------------------------------------------------------------
\* A buffer whose positions stand in the ring, and whose flags are set only
\* where they meet.
Flags == {"empty", "full"}

Buffers ==
  [data : UNION {[0 .. c - 1 -> Byte] : c \in 0 .. MaxCap}, capacity : 0 .. MaxCap,
   status : SUBSET Flags, rpos : Nat, wpos : Nat, rmark : Int, rmark_status : SUBSET Flags]

Shaped(b) ==
  /\ b \in Buffers /\ b.data \in [0 .. b.capacity - 1 -> Byte]
  /\ {b.rpos, b.wpos} \subseteq {0} \cup 0 .. b.capacity - 1
  /\ b.rpos # b.wpos => b.status = {}
  /\ b.rpos = b.wpos => b.status \in {{"empty"}, {"full"}, {}}
  /\ "full" \in b.status => b.capacity > 0

\* Neither flag says whether it is empty or full.
Stuck(b) == b.rpos = b.wpos /\ b.status = {}

\* Only a buffer that cannot grow any more is stuck.
Sound(b) == Shaped(b) /\ (Stuck(b) => b.capacity + Grow > MaxCap)

\* What can be read and written.
LEMMA Lengths ==
  ASSUME NEW b, Shaped(b)
  PROVE  LET c == b.capacity IN
         /\ c \in Nat /\ c <= MaxCap /\ MaxCap \in Nat
         /\ b.rpos \in Nat /\ b.wpos \in Nat
         /\ c # 0 => b.rpos \in 0 .. c - 1 /\ b.wpos \in 0 .. c - 1
         /\ ReadableLen(b) \in 0 .. c /\ WriteableLen(b) \in 0 .. c
         /\ c # 0 => b.wpos = At(b.rpos, ReadableLen(b), c)
         /\ Stuck(b) => ReadableLen(b) = 0 /\ WriteableLen(b) = 0
         /\ ~Stuck(b) => ReadableLen(b) + WriteableLen(b) = c
         /\ b.rpos = b.wpos <=> ReadableLen(b) \in {0, c}
         /\ IsEmpty(b) <=> b.status = {"empty"}
         /\ IsFull(b) <=> b.status = {"full"}
         /\ IsEmpty(b) => ReadableLen(b) = 0
         /\ IsFull(b) <=> ReadableLen(b) = c /\ c # 0
<1> DEFINE c == b.capacity
<1>1. /\ c \in Nat /\ c <= MaxCap /\ MaxCap \in Nat /\ b.rpos \in Nat /\ b.wpos \in Nat
      /\ c # 0 => b.rpos \in 0 .. c - 1 /\ b.wpos \in 0 .. c - 1
      /\ c = 0 => b.rpos = 0 /\ b.wpos = 0
  BY RingBufferAssumption DEF Shaped, Buffers
<1>2. /\ IsEmpty(b) <=> b.status = {"empty"}
      /\ IsFull(b) <=> b.status = {"full"}
  BY DEF Shaped, IsEmpty, IsFull
<1>3. CASE b.rpos = b.wpos
  <2>1. /\ ReadableLen(b) = IF IsFull(b) THEN c ELSE 0
        /\ WriteableLen(b) = IF IsEmpty(b) THEN c ELSE 0
    BY <1>3 DEF ReadableLen, WriteableLen
  <2>2. IsFull(b) => c # 0
    BY <1>1 DEF IsFull, Shaped
  <2>3. ~(IsFull(b) /\ IsEmpty(b)) /\ (Stuck(b) <=> ~IsFull(b) /\ ~IsEmpty(b))
    BY <1>2, <1>3 DEF Shaped, Stuck
  <2>4. c # 0 => At(b.rpos, 0, c) = b.rpos /\ At(b.rpos, c, c) = b.rpos
    BY <1>1 DEF At
  <2> HIDE DEF c
  <2>5. QED BY <1>1, <1>2, <1>3, <2>1, <2>2, <2>3, <2>4 DEF c
<1>4. CASE b.rpos # b.wpos
  <2>1. c # 0 /\ ~Stuck(b) /\ b.status = {} /\ ~IsEmpty(b) /\ ~IsFull(b)
    BY <1>1, <1>4 DEF Shaped, Stuck, IsEmpty, IsFull
  <2>2. /\ ReadableLen(b) = (b.wpos - b.rpos) % c
        /\ WriteableLen(b) = (b.rpos - b.wpos) % c
    BY <1>4 DEF ReadableLen, WriteableLen
  <2> HIDE DEF c
  <2>3. CASE b.rpos < b.wpos
    <3>1. (b.wpos - b.rpos) % c = b.wpos - b.rpos
      BY <1>1, <2>1, <2>3, ModBelow
    <3>2. (b.rpos - b.wpos) % c = b.rpos - b.wpos + c
      BY <1>1, <2>1, <2>3, ModUnder
    <3>3. /\ ReadableLen(b) = b.wpos - b.rpos /\ WriteableLen(b) = b.rpos - b.wpos + c
          /\ ReadableLen(b) \in 1 .. c - 1
      BY <1>1, <2>1, <2>2, <2>3, <3>1, <3>2
    <3>4. b.wpos = At(b.rpos, ReadableLen(b), c)
      BY <1>1, <2>1, <3>3 DEF At
    <3>5. QED BY <1>1, <1>4, <2>1, <3>3, <3>4 DEF c
  <2>4. CASE b.rpos > b.wpos
    <3>1. (b.wpos - b.rpos) % c = b.wpos - b.rpos + c
      BY <1>1, <2>1, <2>4, ModUnder
    <3>2. (b.rpos - b.wpos) % c = b.rpos - b.wpos
      BY <1>1, <2>1, <2>4, ModBelow
    <3>3. /\ ReadableLen(b) = b.wpos - b.rpos + c /\ WriteableLen(b) = b.rpos - b.wpos
          /\ ReadableLen(b) \in 1 .. c - 1
      BY <1>1, <2>1, <2>2, <2>4, <3>1, <3>2
    <3>4. b.wpos = At(b.rpos, ReadableLen(b), c)
      BY <1>1, <2>1, <3>3 DEF At
    <3>5. QED BY <1>1, <1>4, <2>1, <3>3, <3>4 DEF c
  <2>5. QED BY <1>1, <1>4, <2>3, <2>4
<1>5. QED BY <1>3, <1>4

\* The bytes that a reader gets next.
LEMMA NextBytesFacts ==
  ASSUME NEW b, Shaped(b), NEW n \in 0 .. ReadableLen(b)
  PROVE  /\ NextBytes(b, n) \in Seq(Byte) /\ Len(NextBytes(b, n)) = n
         /\ \A i \in 1 .. n : /\ NextBytes(b, n)[i] = b.data[At(b.rpos, i - 1, b.capacity)]
                              /\ At(b.rpos, i - 1, b.capacity) \in 0 .. b.capacity - 1
<1> DEFINE c == b.capacity
<1>1. /\ c \in Nat /\ ReadableLen(b) \in 0 .. c /\ n \in Nat /\ n <= c
      /\ c # 0 => b.rpos \in 0 .. c - 1
      /\ b.data \in [0 .. c - 1 -> Byte]
  BY Lengths DEF Shaped
<1>2. ASSUME NEW i \in 1 .. n
      PROVE  /\ (b.rpos + i - 1) % c = At(b.rpos, i - 1, c)
             /\ At(b.rpos, i - 1, c) \in 0 .. c - 1
  <2> HIDE DEF c
  <2>1. c # 0 /\ i - 1 \in 0 .. c /\ b.rpos + i - 1 = b.rpos + (i - 1)
    BY <1>1
  <2>2. QED BY <1>1, <2>1, AtIsMod
<1> HIDE DEF c
<1>3. NextBytes(b, n) = [i \in 1 .. n |-> b.data[At(b.rpos, i - 1, c)]]
  BY <1>2 DEF NextBytes, c
<1>4. NextBytes(b, n) \in [1 .. n -> Byte]
  BY <1>1, <1>2, <1>3
<1>5. NextBytes(b, n) \in Seq(Byte)
  BY <1>1, <1>4, SeqDef
<1>6. 1 .. Len(NextBytes(b, n)) = 1 .. n /\ Len(NextBytes(b, n)) \in Nat
  BY <1>4, <1>5, LenProperties
<1>7. Len(NextBytes(b, n)) = n
  BY <1>1, <1>6
<1>8. QED BY <1>2, <1>3, <1>5, <1>7 DEF c

LEMMA ContentsFacts ==
  ASSUME NEW b, Shaped(b)
  PROVE  /\ Contents(b) \in Seq(Byte) /\ Len(Contents(b)) = ReadableLen(b)
         /\ \A i \in 1 .. ReadableLen(b) :
              /\ Contents(b)[i] = b.data[At(b.rpos, i - 1, b.capacity)]
              /\ At(b.rpos, i - 1, b.capacity) \in 0 .. b.capacity - 1
<1>1. ReadableLen(b) \in 0 .. ReadableLen(b)
  BY Lengths
<1>2. QED BY <1>1, NextBytesFacts DEF Contents

\* The next bytes are the first ones.
LEMMA NextBytesAreFirst ==
  ASSUME NEW b, Shaped(b), NEW n \in 0 .. ReadableLen(b)
  PROVE  NextBytes(b, n) = SubSeq(Contents(b), 1, n)
<1> DEFINE q == Contents(b)
           f == NextBytes(b, n)
           g == SubSeq(q, 1, n)
<1>1. ReadableLen(b) \in Nat /\ n \in Nat /\ n <= ReadableLen(b)
  BY Lengths
<1>2. /\ f \in Seq(Byte) /\ Len(f) = n
      /\ \A i \in 1 .. n : f[i] = b.data[At(b.rpos, i - 1, b.capacity)]
  BY NextBytesFacts
<1>3. /\ q \in Seq(Byte) /\ Len(q) = ReadableLen(b)
      /\ \A i \in 1 .. ReadableLen(b) : q[i] = b.data[At(b.rpos, i - 1, b.capacity)]
  BY ContentsFacts
<1> HIDE DEF q, f
<1>4. \A i \in 1 .. n : q[i] \in Byte
  BY <1>1, <1>3, ElementOfSeq
<1>5. /\ g \in Seq(Byte) /\ Len(g) = IF 1 <= n THEN n - 1 + 1 ELSE 0
      /\ \A i \in 1 .. n - 1 + 1 : g[i] = q[1 + i - 1]
  BY <1>1, <1>4, SubSeqProperties
<1>6. Len(g) = n /\ \A i \in 1 .. n : g[i] = q[i]
  BY <1>1, <1>5
<1> HIDE DEF g
<1>7. \A i \in 1 .. n : f[i] = g[i]
  BY <1>1, <1>2, <1>3, <1>6
<1>8. QED BY <1>1, <1>2, <1>5, <1>6, <1>7, SeqEqual DEF f, g, q

\* A position that is reached from another one in less than a round.
LEMMA AtOnce ==
  ASSUME NEW c \in Nat \ {0}, NEW p \in 0 .. c - 1, NEW m \in 0 .. c, NEW n \in 0 .. c,
         m < n, At(p, m, c) = At(p, n, c)
  PROVE  m = 0 /\ n = c
BY DEF At
-----------------------------------------------------------------------------
\* Reading n bytes takes the first n bytes out.
LEMMA ReadTakesFirst ==
  ASSUME NEW b, Shaped(b), NEW n \in 1 .. ReadableLen(b)
  PROVE  LET m == MoveForward(b, n) IN
         /\ Shaped(m) /\ ~Stuck(m) /\ m.capacity = b.capacity
         /\ m.rmark = b.rmark /\ m.rmark_status = b.rmark_status
         /\ m.data = b.data /\ m.wpos = b.wpos
         /\ ReadableLen(m) = ReadableLen(b) - n
         /\ Contents(m) = SubSeq(Contents(b), n + 1, ReadableLen(b))
<1> DEFINE m == MoveForward(b, n)
           c == b.capacity
           r == ReadableLen(b)
<1>1. /\ c \in Nat \ {0} /\ c <= MaxCap /\ b.rpos \in 0 .. c - 1 /\ b.wpos \in 0 .. c - 1
      /\ r \in 1 .. c /\ n \in 1 .. r /\ b.wpos = At(b.rpos, r, c)
  BY Lengths
<1> HIDE DEF c, r
<1>2. /\ (b.rpos + n) % c = At(b.rpos, n, c) /\ At(b.rpos, n, c) \in 0 .. c - 1
  <2>1. n \in 0 .. c
    BY <1>1
  <2>2. QED BY <1>1, <2>1, AtIsMod
<1>3. (IF IsFull(b) THEN b.status \ {"full"} ELSE b.status) = {}
  <2>1. ~IsEmpty(b) /\ ~Stuck(b)
    BY <1>1, Lengths DEF r
  <2>2. (IsEmpty(b) <=> b.status = {"empty"}) /\ (IsFull(b) <=> b.status = {"full"})
    BY Lengths
  <2>3. b.status \in {{"empty"}, {"full"}, {}}
    BY DEF Shaped
  <2>4. QED BY <2>1, <2>2, <2>3
<1>4. m = [b EXCEPT !.rpos = At(b.rpos, n, c),
                    !.status = IF At(b.rpos, n, c) = b.wpos THEN {"empty"} ELSE {}]
  BY <1>2, <1>3 DEF MoveForward, c
<1>5. /\ m.rpos = At(b.rpos, n, c) /\ m.wpos = b.wpos /\ m.capacity = c /\ m.data = b.data
      /\ m.status = IF m.rpos = m.wpos THEN {"empty"} ELSE {}
      /\ m.rmark = b.rmark /\ m.rmark_status = b.rmark_status
      /\ m \in Buffers
  <2> DEFINE p == At(b.rpos, n, c)
             st == IF p = b.wpos THEN {"empty"} ELSE {}
  <2>1. p \in Nat /\ st \in SUBSET Flags /\ b \in Buffers
    BY <1>1, <1>2 DEF Flags, Shaped
  <2> HIDE DEF p, st
  <2>2. m = [b EXCEPT !.rpos = p, !.status = st]
    BY <1>4 DEF p, st
  <2>3. /\ m.rpos = p /\ m.wpos = b.wpos /\ m.capacity = c /\ m.data = b.data /\ m.status = st
        /\ m.rmark = b.rmark /\ m.rmark_status = b.rmark_status /\ m \in Buffers
    BY <2>1, <2>2 DEF Buffers, c
  <2>4. QED BY <2>3 DEF p, st
<1> HIDE DEF m
<1>6. Shaped(m) /\ ~Stuck(m)
  BY <1>1, <1>2, <1>5 DEF Shaped, Stuck, c
<1>7. ReadableLen(m) = r - n
  <2>1. CASE n = r
    <3>1. m.rpos = m.wpos /\ m.status = {"empty"}
      BY <1>1, <1>5, <2>1
    <3>2. IsEmpty(m) /\ ReadableLen(m) = 0
      BY <1>6, <3>1, Lengths
    <3>3. QED BY <1>1, <2>1, <3>2
  <2>2. CASE n # r
    <3> DEFINE k == ReadableLen(m)
    <3>1. m.rpos # m.wpos
      BY <1>1, <1>5, <2>2, AtOnce
    <3>2. k \in 0 .. c /\ k \notin {0, c} /\ m.wpos = At(m.rpos, k, c)
      BY <1>1, <1>5, <1>6, <3>1, Lengths
    <3> HIDE DEF k
    <3>3. n \in Nat /\ r - n \in Nat /\ n + (r - n) = r /\ r <= c /\ r - n \in 0 .. c - 1
      BY <1>1
    <3>4. At(m.rpos, r - n, c) = m.wpos
      BY <1>1, <1>5, <3>3, AtAdds
    <3>5. k \in 0 .. c - 1 /\ m.rpos \in 0 .. c - 1
      BY <1>1, <1>2, <1>5, <3>2
    <3>6. QED BY <1>1, <3>2, <3>3, <3>4, <3>5, AtApart DEF k
  <2>3. QED BY <2>1, <2>2
<1>8. Contents(m) = SubSeq(Contents(b), n + 1, r)
  <2> DEFINE q == Contents(b)
             f == Contents(m)
             g == SubSeq(q, n + 1, r)
  <2>1. /\ q \in Seq(Byte) /\ Len(q) = r
        /\ \A i \in 1 .. r : q[i] = b.data[At(b.rpos, i - 1, c)]
    BY ContentsFacts DEF r, c
  <2>2. /\ f \in Seq(Byte) /\ Len(f) = r - n
        /\ \A i \in 1 .. r - n : f[i] = b.data[At(m.rpos, i - 1, c)]
    BY <1>5, <1>6, <1>7, ContentsFacts
  <2> HIDE DEF q, f
  <2>3. \A i \in n + 1 .. r : q[i] \in Byte
    BY <1>1, <2>1, ElementOfSeq
  <2>4. /\ g \in Seq(Byte) /\ Len(g) = IF n + 1 <= r THEN r - (n + 1) + 1 ELSE 0
        /\ \A i \in 1 .. r - (n + 1) + 1 : g[i] = q[(n + 1) + i - 1]
    BY <1>1, <2>3, SubSeqProperties
  <2>5. Len(g) = r - n /\ \A i \in 1 .. r - n : g[i] = q[n + i]
    BY <1>1, <2>4
  <2> HIDE DEF g
  <2>6. ASSUME NEW i \in 1 .. r - n PROVE f[i] = g[i]
    <3>1. n + i \in 1 .. r /\ n \in Nat /\ i - 1 \in Nat /\ n + (i - 1) = n + i - 1 /\ n + (i - 1) <= c
      BY <1>1
    <3>2. At(m.rpos, i - 1, c) = At(b.rpos, n + i - 1, c)
      BY <1>1, <1>5, <3>1, AtAdds
    <3>3. QED BY <2>1, <2>2, <2>5, <3>1, <3>2
  <2>7. QED BY <1>1, <2>2, <2>4, <2>5, <2>6, SeqEqual DEF f, g, q
<1>9. QED BY <1>5, <1>6, <1>7, <1>8 DEF m, c, r

\* What is written comes after what is there, and the rest stays.
LEMMA StoreAppends ==
  ASSUME NEW b, Shaped(b), NEW s \in Seq(Byte),
         Len(s) \in 1 .. b.capacity - ReadableLen(b)
  PROVE  LET t == Store(b, s) IN
         /\ Shaped(t) /\ ~Stuck(t) /\ t.capacity = b.capacity
         /\ t.rmark = b.rmark /\ t.rmark_status = b.rmark_status
         /\ Contents(t) = Contents(b) \o s
<1> DEFINE t == Store(b, s)
           c == b.capacity
           r == ReadableLen(b)
           k == Len(s)
           pos(i) == (b.wpos + i - 1) % c
           data == [j \in DOMAIN b.data |->
                      IF \E i \in DOMAIN s : j = pos(i)
                      THEN s[CHOOSE i \in DOMAIN s : j = pos(i)] ELSE b.data[j]]
           w == At(b.rpos, r + k, c)
           st == IF w = b.rpos THEN {"full"} ELSE {}
<1>1. /\ c \in Nat /\ r \in 0 .. c /\ k \in 1 .. c - r
      /\ c # 0 => b.rpos \in 0 .. c - 1 /\ b.wpos \in 0 .. c - 1 /\ b.wpos = At(b.rpos, r, c)
      /\ DOMAIN s = 1 .. k /\ \A i \in 1 .. k : s[i] \in Byte
  BY Lengths, LenProperties, ElementOfSeq
<1>2. b.data \in [0 .. c - 1 -> Byte] /\ b \in Buffers
  BY DEF Shaped
<1> HIDE DEF c, r, k
<1>3. c # 0 /\ c \in Nat \ {0} /\ r + k \in 1 .. c /\ r \in 0 .. c - 1
  BY <1>1
<1>4. ASSUME NEW i \in 1 .. k
      PROVE  pos(i) = At(b.rpos, r + i - 1, c) /\ r + i - 1 \in 0 .. c - 1
  <2>1. i - 1 \in 0 .. c /\ b.wpos + i - 1 = b.wpos + (i - 1)
    BY <1>1, <1>3
  <2>2. pos(i) = At(b.wpos, i - 1, c)
    BY <1>1, <1>3, <2>1, AtIsMod
  <2>3. r \in Nat /\ i - 1 \in Nat /\ r + (i - 1) = r + i - 1 /\ r + (i - 1) <= c /\ r + i - 1 \in 0 .. c - 1
    BY <1>1, <1>3
  <2>4. At(b.wpos, i - 1, c) = At(b.rpos, r + i - 1, c)
    <3>1. At(At(b.rpos, r, c), i - 1, c) = At(b.rpos, r + (i - 1), c)
      BY <1>1, <1>3, <2>3, AtAdds
    <3>2. QED BY <1>1, <1>3, <2>3, <3>1
  <2>5. QED BY <2>2, <2>3, <2>4
<1>5. (b.wpos + k) % c = w /\ w \in 0 .. c - 1
  <2>1. k \in 0 .. c /\ r \in Nat /\ k \in Nat /\ r + k <= c /\ r + k \in 0 .. c
    BY <1>1, <1>3
  <2>2. (b.wpos + k) % c = At(b.wpos, k, c)
    BY <1>1, <1>3, <2>1, AtIsMod
  <2>3. At(b.wpos, k, c) = w
    BY <1>1, <1>3, <2>1, AtAdds
  <2>4. w \in 0 .. c - 1
    BY <1>1, <1>3, <2>1, AtIsMod
  <2>5. QED BY <2>2, <2>3, <2>4
<1>6. (IF IsEmpty(b) THEN b.status \ {"empty"} ELSE b.status) = {}
  <2>1. ~IsFull(b)
    BY <1>3, Lengths DEF r, c
  <2>2. (IsEmpty(b) <=> b.status = {"empty"}) /\ (IsFull(b) <=> b.status = {"full"})
    BY Lengths
  <2>3. b.status \in {{"empty"}, {"full"}, {}}
    BY DEF Shaped
  <2>4. QED BY <2>1, <2>2, <2>3
<1> HIDE DEF pos
<1>7. data \in [0 .. c - 1 -> Byte]
  <2>1. ASSUME NEW j \in 0 .. c - 1, \E i \in DOMAIN s : j = pos(i)
        PROVE  s[CHOOSE i \in DOMAIN s : j = pos(i)] \in Byte
    BY <1>1, <2>1
  <2>2. QED BY <1>2, <2>1
<1>8. \A i \in 1 .. k : data[At(b.rpos, r + i - 1, c)] = s[i]
  <2> SUFFICES ASSUME NEW i \in 1 .. k PROVE data[At(b.rpos, r + i - 1, c)] = s[i]
    OBVIOUS
  <2> DEFINE j == At(b.rpos, r + i - 1, c)
             h == CHOOSE h \in DOMAIN s : j = pos(h)
  <2>1. j = pos(i) /\ j \in 0 .. c - 1
    <3>1. r + i - 1 \in 0 .. c
      BY <1>3, <1>4
    <3>2. QED BY <1>1, <1>3, <1>4, <3>1, AtIsMod
  <2>2. h \in 1 .. k /\ j = pos(h)
    BY <1>1, <2>1
  <2> HIDE DEF h
  <2>3. At(b.rpos, r + h - 1, c) = At(b.rpos, r + i - 1, c)
        /\ r + h - 1 \in 0 .. c - 1 /\ r + i - 1 \in 0 .. c - 1
    BY <1>4, <2>1, <2>2
  <2>4. r + h - 1 = r + i - 1
    BY <1>1, <1>3, <2>3, AtApart
  <2>5. h = i
    BY <1>1, <2>2, <2>4
  <2>6. data[j] = s[h]
    <3>1. j \in DOMAIN b.data /\ \E x \in DOMAIN s : j = pos(x)
      BY <1>1, <1>2, <2>1
    <3>2. QED BY <3>1 DEF h
  <2>7. QED BY <2>5, <2>6
<1>9. \A i \in 0 .. r - 1 : data[At(b.rpos, i, c)] = b.data[At(b.rpos, i, c)]
  <2> SUFFICES ASSUME NEW i \in 0 .. r - 1
               PROVE  data[At(b.rpos, i, c)] = b.data[At(b.rpos, i, c)]
    OBVIOUS
  <2>1. i \in 0 .. c - 1 /\ i \in 0 .. c /\ \A x \in 1 .. k : r + x - 1 # i
    BY <1>1, <1>3
  <2>2. At(b.rpos, i, c) \in 0 .. c - 1
    BY <1>1, <1>3, <2>1, AtIsMod
  <2>3. ASSUME NEW x \in 1 .. k, At(b.rpos, i, c) = pos(x) PROVE FALSE
    <3>1. At(b.rpos, r + x - 1, c) = At(b.rpos, i, c) /\ r + x - 1 \in 0 .. c - 1
      BY <1>4, <2>3
    <3>2. r + x - 1 = i
      BY <1>1, <1>3, <2>1, <3>1, AtApart
    <3>3. QED BY <2>1, <3>2
  <2>4. QED BY <1>1, <1>2, <2>2, <2>3
<1> HIDE DEF data
<1>10. t = [b EXCEPT !.data = data, !.wpos = w, !.status = st]
  <2>1. t = [b EXCEPT !.data = data, !.wpos = (b.wpos + k) % c,
               !.status = IF (b.wpos + k) % c = b.rpos
                          THEN (IF IsEmpty(b) THEN b.status \ {"empty"} ELSE b.status) \cup {"full"}
                          ELSE IF IsEmpty(b) THEN b.status \ {"empty"} ELSE b.status]
    BY DEF Store, data, pos, c, k
  <2>2. QED BY <1>5, <1>6, <2>1
<1>11. /\ t.data = data /\ t.wpos = w /\ t.status = st /\ t.capacity = c /\ t.rpos = b.rpos
       /\ t.rmark = b.rmark /\ t.rmark_status = b.rmark_status /\ t \in Buffers
  <2>1. st \in SUBSET Flags /\ w \in Nat
    BY <1>5 DEF Flags
  <2> HIDE DEF st, w
  <2>2. /\ t.data = data /\ t.wpos = w /\ t.status = st /\ t.capacity = c /\ t.rpos = b.rpos
        /\ t.rmark = b.rmark /\ t.rmark_status = b.rmark_status
    BY <1>2, <1>10 DEF Buffers, c
  <2>3. c \in 0 .. MaxCap
    BY <1>2 DEF Buffers, c
  <2>4. data \in UNION {[0 .. x - 1 -> Byte] : x \in 0 .. MaxCap}
    BY <1>7, <2>3
  <2>5. t \in Buffers
    BY <1>2, <1>10, <2>1, <2>4 DEF Buffers
  <2>6. QED BY <2>2, <2>5
<1> HIDE DEF t, st
<1>12. Shaped(t) /\ ~Stuck(t)
  <2>1. st = IF w = b.rpos THEN {"full"} ELSE {}
    BY DEF st
  <2> HIDE DEF w
  <2>2. QED BY <1>1, <1>3, <1>5, <1>7, <1>11, <2>1 DEF Shaped, Stuck
<1>13. ReadableLen(t) = r + k
  <2> DEFINE x == ReadableLen(t)
  <2>1. /\ x \in 0 .. c /\ w = At(b.rpos, x, c)
        /\ t.status = {"full"} <=> x = c
        /\ w = b.rpos <=> x \in {0, c}
    BY <1>3, <1>11, <1>12, Lengths
  <2> HIDE DEF x
  <2>2. CASE r + k = c
    <3>1. w = b.rpos
      BY <1>1, <1>3, <2>2 DEF At
    <3>2. x = c
      BY <1>11, <2>1, <3>1 DEF st
    <3>3. QED BY <2>2, <3>2 DEF x
  <2>3. CASE r + k # c
    <3>1. w # b.rpos
      BY <1>1, <1>3, <2>3 DEF At
    <3>2. x \in 0 .. c - 1 /\ r + k \in 0 .. c - 1
      BY <1>1, <1>3, <2>1, <2>3, <3>1
    <3>3. QED BY <1>1, <1>3, <2>1, <3>2, AtApart DEF x
  <2>4. QED BY <2>2, <2>3
<1>14. Contents(t) = Contents(b) \o s
  <2> DEFINE q == Contents(b)
             f == Contents(t)
             g == q \o s
  <2>1. /\ q \in Seq(Byte) /\ Len(q) = r
        /\ \A i \in 1 .. r : q[i] = b.data[At(b.rpos, i - 1, c)]
    BY ContentsFacts DEF r, c
  <2>2. /\ f \in Seq(Byte) /\ Len(f) = r + k
        /\ \A i \in 1 .. r + k : f[i] = data[At(b.rpos, i - 1, c)]
    BY <1>11, <1>12, <1>13, ContentsFacts
  <2> HIDE DEF q, f
  <2>3. /\ g \in Seq(Byte) /\ Len(g) = r + k
        /\ \A i \in 1 .. r + k : g[i] = IF i <= r THEN q[i] ELSE s[i - r]
    BY <2>1, ConcatProperties DEF k
  <2> HIDE DEF g
  <2>4. ASSUME NEW i \in 1 .. r + k PROVE f[i] = g[i]
    <3>1. CASE i <= r
      <4>1. i - 1 \in 0 .. r - 1 /\ i \in 1 .. r
        BY <1>1, <3>1
      <4>2. QED BY <1>9, <2>1, <2>2, <2>3, <3>1, <4>1
    <3>2. CASE i > r
      <4>1. i - r \in 1 .. k /\ r + (i - r) - 1 = i - 1 /\ ~(i <= r)
        BY <1>1, <3>2
      <4>2. data[At(b.rpos, i - 1, c)] = s[i - r]
        BY <1>8, <4>1
      <4>3. QED BY <2>2, <2>3, <4>1, <4>2
    <3>3. QED BY <1>1, <3>1, <3>2
  <2>5. QED BY <1>1, <2>2, <2>3, <2>4, SeqEqual DEF f, g, q
<1>15. QED BY <1>11, <1>12, <1>14 DEF t, c

\* The new memory of a buffer that grows holds what was there.
LEMMA GrownHolds ==
  ASSUME NEW b, Shaped(b), NEW n \in Nat \ {0}, GrownCap(b, n) <= MaxCap
  PROVE  LET e == Grown(b, n) IN
         /\ Shaped(e) /\ e.capacity = GrownCap(b, n) /\ e.rmark = NoMark /\ e.rmark_status = {}
         /\ Contents(e) = Contents(b) /\ ReadableLen(e) = ReadableLen(b)
         /\ Stuck(e) <=> ReadableLen(b) = 0
<1> DEFINE e == Grown(b, n)
           c == GrownCap(b, n)
           r == ReadableLen(b)
           q == Contents(b)
           d == [i \in 0 .. c - 1 |-> IF i < r THEN q[i + 1] ELSE Zero]
<1>1. /\ r \in Nat /\ r <= b.capacity /\ b.capacity \in Nat
      /\ q \in Seq(Byte) /\ Len(q) = r
  BY Lengths, ContentsFacts
<1>2. c \in Nat \ {0} /\ c >= b.capacity + n /\ c <= MaxCap /\ r < c
  BY <1>1, RingBufferAssumption DEF GrownCap
<1>3. e = [data |-> d, capacity |-> c, status |-> {}, rpos |-> 0, wpos |-> r,
           rmark |-> NoMark, rmark_status |-> {}]
  <2> DEFINE z == Create(c)
  <2>1. /\ z = [data |-> [i \in 0 .. c - 1 |-> Zero], capacity |-> c, status |-> {"empty"},
                rpos |-> 0, wpos |-> 0, rmark |-> NoMark, rmark_status |-> {}]
        /\ z.data = [i \in 0 .. c - 1 |-> Zero] /\ DOMAIN z.data = 0 .. c - 1
    BY DEF Create
  <2>2. e = [z EXCEPT !.data = [i \in DOMAIN z.data |-> IF i < r THEN q[i + 1] ELSE z.data[i]],
                      !.status = {}, !.wpos = r]
    BY <1>1 DEF Grown
  <2>3. [i \in DOMAIN z.data |-> IF i < r THEN q[i + 1] ELSE z.data[i]] = d
    BY <2>1
  <2> HIDE DEF z, c, r, q, d
  <2>4. e = [z EXCEPT !.data = d, !.status = {}, !.wpos = r]
    BY <2>2, <2>3
  <2>5. QED BY <2>1, <2>4
<1> HIDE DEF c, r, q, e
<1>4. d \in [0 .. c - 1 -> Byte]
  <2>1. ASSUME NEW i \in 0 .. c - 1, i < r PROVE q[i + 1] \in Byte
    BY <1>1, <2>1, ElementOfSeq
  <2>2. QED BY <2>1, RingBufferAssumption
<1> HIDE DEF d
<1>5. /\ e.data = d /\ e.capacity = c /\ e.status = {} /\ e.rpos = 0 /\ e.wpos = r
      /\ e.rmark = NoMark /\ e.rmark_status = {}
  BY <1>3
<1>6. Shaped(e)
  <2>1. c \in 0 .. MaxCap /\ NoMark \in Int
    BY <1>2, RingBufferAssumption DEF NoMark
  <2>2. d \in UNION {[0 .. x - 1 -> Byte] : x \in 0 .. MaxCap}
    BY <1>4, <2>1
  <2>3. e \in Buffers
    BY <1>1, <1>3, <2>1, <2>2 DEF Buffers
  <2>4. QED BY <1>1, <1>2, <1>4, <1>5, <2>3 DEF Shaped
<1>7. Stuck(e) <=> r = 0
  BY <1>5 DEF Stuck
<1>8. ReadableLen(e) = r
  <2> DEFINE x == ReadableLen(e)
  <2>1. x \in 0 .. c /\ r = At(0, x, c) /\ (0 = r <=> x \in {0, c}) /\ (Stuck(e) => x = 0)
    BY <1>2, <1>5, <1>6, Lengths
  <2> HIDE DEF x
  <2>2. QED BY <1>1, <1>2, <1>7, <2>1 DEF At, x
<1>9. Contents(e) = q
  <2> DEFINE f == Contents(e)
  <2>1. /\ f \in Seq(Byte) /\ Len(f) = r
        /\ \A i \in 1 .. r : f[i] = d[At(0, i - 1, c)]
    BY <1>5, <1>6, <1>8, ContentsFacts
  <2> HIDE DEF f
  <2>2. ASSUME NEW i \in 1 .. r PROVE f[i] = q[i]
    <3>1. At(0, i - 1, c) = i - 1 /\ i - 1 \in 0 .. c - 1 /\ i - 1 < r /\ (i - 1) + 1 = i
      BY <1>1, <1>2 DEF At
    <3>2. d[i - 1] = q[(i - 1) + 1]
      BY <3>1 DEF d
    <3>3. QED BY <2>1, <3>1, <3>2
  <2>3. QED BY <1>1, <2>1, <2>2, SeqEqual DEF f
<1>10. QED BY <1>5, <1>6, <1>7, <1>8, <1>9 DEF e, c, r, q
-----------------------------------------------------------------------------
\* A write is refused only when the capacity cannot grow by what it asks for.
LEMMA WriteRefused ==
  ASSUME NEW b, Shaped(b), NEW n \in Nat \ {0}
  PROVE  ~CanWrite(b, n) <=> WriteableLen(b) < n /\ GrownCap(b, n) > MaxCap
<1>1. /\ ReadableLen(b) \in Nat /\ WriteableLen(b) \in Nat /\ b.capacity \in Nat /\ MaxCap \in Nat
      /\ IsEmpty(b) => ReadableLen(b) = 0
  BY Lengths
<1>2. GrownCap(b, n) \in Nat
  BY <1>1, RingBufferAssumption DEF GrownCap
<1>3. QED BY <1>1, <1>2 DEF CanWrite, CanRead

\* jm_buf_put_bytes: it appends all of s, does nothing when it is refused,
\* or leaves a buffer that is stuck.
LEMMA PutAppends ==
  ASSUME NEW b, Sound(b), NEW s \in Seq(Byte)
  PROVE  LET t == PutBytes(b, s) IN
         /\ Sound(t)
         /\ CanWrite(b, Len(s)) => Stuck(t) \/ Contents(t) = Contents(b) \o s
         /\ ~CanWrite(b, Len(s)) => t = b
         /\ \/ t.rmark = b.rmark /\ t.rmark_status = b.rmark_status
            \/ t.rmark = NoMark /\ t.rmark_status = {}
         /\ Stuck(t) => Stuck(b) \/ (ReadableLen(b) = 0 /\ WriteableLen(b) < Len(s))
         /\ t.capacity >= b.capacity
<1> DEFINE n == Len(s)
           t == PutBytes(b, s)
           e == CheckWriteLen(b, n)
<1>1. /\ Shaped(b) /\ b.capacity \in Nat /\ MaxCap \in Nat /\ Grow \in Nat \ {0} /\ n \in Nat
      /\ ReadableLen(b) \in 0 .. b.capacity /\ WriteableLen(b) \in 0 .. b.capacity
      /\ Stuck(b) => ReadableLen(b) = 0 /\ WriteableLen(b) = 0
      /\ ~Stuck(b) => ReadableLen(b) + WriteableLen(b) = b.capacity
  BY Lengths, LenProperties, RingBufferAssumption DEF Sound
<1>2. CASE s = <<>>
  <2>1. t = b
    BY <1>2 DEF PutBytes
  <2>2. Contents(b) \o s = Contents(b)
    BY <1>1, <1>2, ContentsFacts, ConcatEmptySeq
  <2>3. QED BY <1>1, <2>1, <2>2
<1>3. CASE s # <<>> /\ ~CanWrite(b, n)
  <2>1. t = b
    BY <1>3 DEF PutBytes
  <2>2. QED BY <1>1, <1>3, <2>1
<1>4. CASE s # <<>> /\ CanWrite(b, n)
  <2>1. n \in Nat \ {0}
    BY <1>1, <1>4, EmptySeq
  <2>2. t = IF ~CanWrite(e, 1) THEN e ELSE Store(CheckWriteLen(e, 1), s)
    BY <1>4 DEF PutBytes
  <2>3. CASE WriteableLen(b) >= n
    <3>1. e = b /\ CanWrite(b, 1) /\ CheckWriteLen(b, 1) = b
      BY <1>1, <2>1, <2>3 DEF CheckWriteLen, CanWrite
    <3>2. t = Store(b, s)
      BY <2>2, <3>1
    <3>3. n \in 1 .. b.capacity - ReadableLen(b)
      BY <1>1, <2>1, <2>3
    <3>4. Shaped(t) /\ ~Stuck(t) /\ t.rmark = b.rmark /\ t.rmark_status = b.rmark_status
          /\ t.capacity >= b.capacity /\ Contents(t) = Contents(b) \o s
      BY <1>1, <3>2, <3>3, StoreAppends
    <3> HIDE DEF t
    <3>5. QED BY <1>4, <3>4 DEF Sound, t
  <2>4. CASE WriteableLen(b) < n
    <3>1. GrownCap(b, n) <= MaxCap /\ e = Grown(b, n)
      BY <1>1, <1>4, <2>1, <2>4 DEF CanWrite, CheckWriteLen
    <3> HIDE DEF e
    <3>2. /\ Shaped(e) /\ e.capacity = GrownCap(b, n) /\ e.rmark = NoMark /\ e.rmark_status = {}
          /\ Contents(e) = Contents(b) /\ ReadableLen(e) = ReadableLen(b)
          /\ Stuck(e) <=> ReadableLen(b) = 0
      BY <1>1, <2>1, <3>1, GrownHolds
    <3>3. GrownCap(b, n) \in Nat /\ GrownCap(b, n) >= b.capacity + n
      BY <1>1, <2>1 DEF GrownCap
    <3>4. n \in 1 .. e.capacity - ReadableLen(e) /\ e.capacity >= b.capacity
          /\ GrownCap(e, 1) >= b.capacity
      BY <1>1, <2>1, <3>2, <3>3 DEF GrownCap
    <3>5. /\ WriteableLen(e) \in 0 .. e.capacity /\ (Stuck(e) => WriteableLen(e) = 0)
          /\ ~Stuck(e) => ReadableLen(e) + WriteableLen(e) = e.capacity
      BY <3>2, Lengths
    <3>6. GrownCap(e, 1) = e.capacity + Grow
      BY <1>1, <3>2, <3>3 DEF GrownCap
    <3>7. CASE ~Stuck(e)
      <4>1. WriteableLen(e) >= 1
        BY <1>1, <2>1, <3>2, <3>3, <3>4, <3>5, <3>7
      <4>2. CanWrite(e, 1) /\ CheckWriteLen(e, 1) = e
        BY <4>1 DEF CanWrite, CheckWriteLen
      <4>3. t = Store(e, s)
        BY <2>2, <4>2
      <4>4. Shaped(t) /\ ~Stuck(t) /\ t.rmark = NoMark /\ t.rmark_status = {}
            /\ t.capacity >= b.capacity /\ Contents(t) = Contents(b) \o s
        BY <3>2, <3>4, <4>3, StoreAppends
      <4> HIDE DEF t
      <4>5. QED BY <1>4, <4>4 DEF Sound, t
    <3>8. CASE Stuck(e) /\ ~CanWrite(e, 1)
      <4>1. t = e
        BY <2>2, <3>8
      <4>2. e.capacity + Grow > MaxCap
        BY <3>2, <3>6, <3>8, WriteRefused
      <4> HIDE DEF t
      <4>3. QED BY <1>4, <2>4, <3>2, <3>4, <3>8, <4>1, <4>2 DEF Sound, t
    <3>9. CASE Stuck(e) /\ CanWrite(e, 1)
      <4> DEFINE g == Grown(e, 1)
      <4>1. WriteableLen(e) < 1 /\ ~(WriteableLen(e) >= 1)
        BY <3>5, <3>9
      <4>2. GrownCap(e, 1) <= MaxCap
        BY <3>9, <4>1 DEF CanWrite
      <4>3. t = Store(g, s)
        BY <2>2, <3>9, <4>1 DEF CheckWriteLen
      <4>4. 1 \in Nat \ {0}
        OBVIOUS
      <4>5. /\ Shaped(g) /\ g.capacity = GrownCap(e, 1) /\ g.rmark = NoMark
            /\ g.rmark_status = {}
            /\ Contents(g) = Contents(e) /\ ReadableLen(g) = ReadableLen(e)
        BY <3>2, <4>2, <4>4, GrownHolds
      <4> HIDE DEF g
      <4>6. n \in 1 .. g.capacity - ReadableLen(g)
        BY <1>1, <3>2, <3>3, <3>4, <3>6, <4>5
      <4>7. Shaped(Store(g, s)) /\ ~Stuck(Store(g, s)) /\ Store(g, s).rmark = g.rmark
            /\ Store(g, s).capacity = g.capacity
            /\ Store(g, s).rmark_status = g.rmark_status
            /\ Contents(Store(g, s)) = Contents(g) \o s
        BY <4>5, <4>6, StoreAppends
      <4> HIDE DEF t
      <4>8. Shaped(t) /\ ~Stuck(t) /\ t.rmark = NoMark /\ t.rmark_status = {}
            /\ t.capacity >= b.capacity /\ Contents(t) = Contents(b) \o s
        BY <3>2, <3>4, <4>3, <4>5, <4>7
      <4>9. QED BY <1>4, <4>8 DEF Sound, t
    <3>10. QED BY <3>7, <3>8, <3>9
  <2>5. QED BY <1>1, <2>3, <2>4
<1>5. QED BY <1>2, <1>3, <1>4
-----------------------------------------------------------------------------
LEMMA SameFields ==
  ASSUME NEW a \in Buffers, NEW b \in Buffers, a.data = b.data, a.capacity = b.capacity,
         a.status = b.status, a.rpos = b.rpos, a.wpos = b.wpos, a.rmark = b.rmark,
         a.rmark_status = b.rmark_status
  PROVE  a = b
BY DEF Buffers

LEMMA MarkKeeps ==
  ASSUME NEW b, Shaped(b)
  PROVE  LET m == Rmark(b) IN
         /\ Shaped(m) /\ m.data = b.data /\ m.capacity = b.capacity /\ m.wpos = b.wpos
         /\ m.status = b.status /\ m.rpos = b.rpos
         /\ m.rmark = b.rpos /\ m.rmark_status = b.status /\ ReadableLen(m) = ReadableLen(b)
         /\ IsEmpty(m) <=> IsEmpty(b)
<1> DEFINE m == Rmark(b)
           p == b.rpos
           st == b.status
<1>1. m \in Buffers /\ m.data = b.data /\ m.capacity = b.capacity /\ m.wpos = b.wpos
      /\ m.status = b.status /\ m.rpos = b.rpos /\ m.rmark = b.rpos /\ m.rmark_status = b.status
  <2>1. b \in Buffers /\ p \in Int /\ st \in SUBSET Flags
    BY DEF Shaped, Buffers
  <2>2. m = [b EXCEPT !.rmark = p, !.rmark_status = st]
    BY DEF Rmark
  <2> HIDE DEF m, p, st
  <2>3. m \in Buffers /\ m.data = b.data /\ m.capacity = b.capacity /\ m.wpos = b.wpos
        /\ m.status = b.status /\ m.rpos = b.rpos /\ m.rmark = p /\ m.rmark_status = st
    BY <2>1, <2>2 DEF Buffers
  <2>4. QED BY <2>3 DEF p, st
<1> HIDE DEF m
<1>2. Shaped(m)
  BY <1>1 DEF Shaped
<1>3. ReadableLen(m) = ReadableLen(b) /\ (IsEmpty(m) <=> IsEmpty(b))
  BY <1>1 DEF ReadableLen, IsFull, IsEmpty
<1>4. QED BY <1>1, <1>2, <1>3 DEF m

\* Going back to the mark restores the read position and the flags of then.
LEMMA GoingBack ==
  ASSUME NEW b, b \in Buffers, b.rmark \in Nat
  PROVE  LET t == RmarkReset(b) IN
         /\ t \in Buffers /\ t.data = b.data /\ t.capacity = b.capacity /\ t.wpos = b.wpos
         /\ t.rpos = b.rmark /\ t.status = b.rmark_status /\ t.rmark = NoMark
         /\ t.rmark_status = {}
<1>1. b.rmark # NoMark
  BY DEF NoMark
<1>2. RmarkReset(b) = [b EXCEPT !.rpos = b.rmark, !.status = b.rmark_status,
                               !.rmark = NoMark, !.rmark_status = {}]
  BY <1>1 DEF RmarkReset
<1>3. b.rmark_status \in SUBSET Flags /\ NoMark \in Int /\ {} \in SUBSET Flags
  BY DEF Buffers, NoMark
<1> DEFINE st == b.rmark_status
<1>4. st \in SUBSET Flags
  BY <1>3
<1> HIDE DEF st
<1>5. RmarkReset(b) = [b EXCEPT !.rpos = b.rmark, !.status = st,
                               !.rmark = NoMark, !.rmark_status = {}]
  BY <1>2 DEF st
<1>6. QED BY <1>3, <1>4, <1>5 DEF Buffers, st

\* Looking ahead and going back leaves the buffer as it was, but for the mark.
LEMMA LookAheadGoesBack ==
  ASSUME NEW b, Shaped(b), NEW n \in 1 .. ReadableLen(b)
  PROVE  LET t == RmarkReset(GetBytes(Rmark(b), n)) IN
         /\ Shaped(t) /\ t.data = b.data /\ t.capacity = b.capacity /\ t.wpos = b.wpos
         /\ t.rpos = b.rpos /\ t.status = b.status /\ t.rmark = NoMark /\ t.rmark_status = {}
         /\ ReadableLen(t) = ReadableLen(b) /\ Contents(t) = Contents(b)
<1> DEFINE k == Rmark(b)
           m == MoveForward(k, n)
           t == RmarkReset(m)
<1>1. /\ Shaped(k) /\ k.data = b.data /\ k.capacity = b.capacity /\ k.wpos = b.wpos
      /\ k.rmark = b.rpos /\ k.rmark_status = b.status /\ ReadableLen(k) = ReadableLen(b)
  BY MarkKeeps
<1> HIDE DEF k
<1>2. /\ Shaped(m) /\ m.data = b.data /\ m.capacity = b.capacity /\ m.wpos = b.wpos
      /\ m.rmark = b.rpos /\ m.rmark_status = b.status
  BY <1>1, ReadTakesFirst
<1> HIDE DEF m
<1>3. m \in Buffers /\ m.rmark \in Nat
  BY <1>2 DEF Shaped, Buffers
<1>4. /\ t \in Buffers /\ t.data = b.data /\ t.capacity = b.capacity /\ t.wpos = b.wpos
      /\ t.rpos = b.rpos /\ t.status = b.status /\ t.rmark = NoMark /\ t.rmark_status = {}
  BY <1>2, <1>3, GoingBack
<1> HIDE DEF t
<1>5. Shaped(t)
  BY <1>4 DEF Shaped
<1>6. ReadableLen(t) = ReadableLen(b)
  BY <1>4 DEF ReadableLen, IsFull
<1>7. Contents(t) = Contents(b)
  BY <1>4, <1>6 DEF Contents, NextBytes
<1>8. GetBytes(k, n) = m
  BY Lengths DEF GetBytes, m
<1>9. QED BY <1>4, <1>5, <1>6, <1>7, <1>8 DEF t, k

LEMMA LookingAheadTakesNothing ==
  ASSUME NEW b, Shaped(b), b.rmark = NoMark, b.rmark_status = {}, NEW n \in 1 .. ReadableLen(b)
  PROVE  RmarkReset(GetBytes(Rmark(b), n)) = b
<1> DEFINE t == RmarkReset(GetBytes(Rmark(b), n))
<1>1. /\ Shaped(t) /\ t.data = b.data /\ t.capacity = b.capacity /\ t.wpos = b.wpos
      /\ t.rpos = b.rpos /\ t.status = b.status /\ t.rmark = NoMark /\ t.rmark_status = {}
  BY LookAheadGoesBack
<1> HIDE DEF t
<1>2. t \in Buffers /\ b \in Buffers
  BY <1>1 DEF Shaped
<1>3. t = b
  BY <1>1, <1>2, SameFields
<1>4. QED BY <1>3 DEF t

\* A buffer that is emptied holds nothing and can take all of its capacity.
LEMMA ResetEmpties ==
  ASSUME NEW b, Sound(b)
  PROVE  LET t == Reset(b) IN
         /\ Sound(t) /\ Contents(t) = <<>>
         /\ t.rmark = b.rmark /\ t.rmark_status = b.rmark_status
<1> DEFINE t == Reset(b)
<1>1. /\ t.data = b.data /\ t.capacity = b.capacity /\ t.status = {"empty"} /\ t.rpos = 0
      /\ t.wpos = 0 /\ t.rmark = b.rmark /\ t.rmark_status = b.rmark_status /\ t \in Buffers
  BY DEF Sound, Shaped, Buffers, Reset, Flags
<1> HIDE DEF t
<1>2. Shaped(t) /\ Sound(t)
  BY <1>1 DEF Sound, Shaped, Stuck
<1>3. ReadableLen(t) = 0
  BY <1>1, <1>2, Lengths
<1>4. Contents(t) = <<>>
  BY <1>2, <1>3, ContentsFacts, EmptySeq
<1>5. QED BY <1>1, <1>2, <1>4 DEF t

\* A new buffer.
LEMMA CreateIsSound ==
  ASSUME NEW cap \in 0 .. MaxCap
  PROVE  LET t == Create(cap) IN
         /\ Sound(t) /\ ~Stuck(t) /\ t.capacity = cap
         /\ Contents(t) = <<>> /\ t.rmark = NoMark /\ t.rmark_status = {}
<1> DEFINE t == Create(cap)
           d == [i \in 0 .. cap - 1 |-> Zero]
<1>1. d \in [0 .. cap - 1 -> Byte]
  BY RingBufferAssumption
<1>2. d \in UNION {[0 .. x - 1 -> Byte] : x \in 0 .. MaxCap}
  BY <1>1
<1> HIDE DEF d
<1>3. t = [data |-> d, capacity |-> cap, status |-> {"empty"}, rpos |-> 0, wpos |-> 0,
           rmark |-> NoMark, rmark_status |-> {}]
  BY DEF Create, d
<1> HIDE DEF t
<1>4. /\ t.data = d /\ t.capacity = cap /\ t.status = {"empty"} /\ t.rpos = 0
      /\ t.wpos = 0 /\ t.rmark = NoMark /\ t.rmark_status = {} /\ t \in Buffers
  BY <1>2, <1>3, RingBufferAssumption DEF Buffers, Flags, NoMark
<1>5. Shaped(t) /\ Sound(t) /\ ~Stuck(t)
  BY <1>1, <1>4 DEF Sound, Shaped, Stuck
<1>6. ReadableLen(t) = 0
  BY <1>4, <1>5, Lengths
<1>7. Contents(t) = <<>>
  BY <1>5, <1>6, ContentsFacts, EmptySeq
<1>8. QED BY <1>4, <1>5, <1>7 DEF t
-----------------------------------------------------------------------------
\* The inductive invariant of ByteStream: between two calls nothing is
\* marked, and only a buffer that cannot grow any more is stuck.
BufferInv == Sound(bb) /\ bb.rmark = NoMark /\ bb.rmark_status = {}

LEMMA LostIsStuck ==
  ASSUME Shaped(bb)
  PROVE  Lost <=> Stuck(bb)
BY Lengths DEF Lost, Stuck, IsFull

LEMMA InitSound ==
  ASSUME ChunksAndCaps, BufferInit
  PROVE  BufferInv /\ Contents(bb) = <<>>
BY CreateIsSound DEF ChunksAndCaps, BufferInit, BufferInv

\* Each action preserves the invariant, and moves the bytes as ByteQueue says.
LEMMA PutStep ==
  ASSUME ChunksAndCaps, BufferInv, Put
  PROVE  BufferInv' /\ (Lost \/ Lost' \/ Queue!QueueNext)
<1> USE DEF BufferInv
<1>1. PICK s \in Chunks : /\ bb' = PutBytes(bb, s)
                          /\ report' = Report("put", s, CanWrite(bb, Len(s)))
  BY DEF Put
<1>2. s \in Seq(Byte) /\ Len(s) \in Nat
  BY LenProperties DEF ChunksAndCaps
<1> DEFINE t == PutBytes(bb, s)
<1>3. /\ Sound(t)
      /\ CanWrite(bb, Len(s)) => Stuck(t) \/ Contents(t) = Contents(bb) \o s
      /\ ~CanWrite(bb, Len(s)) => t = bb
      /\ \/ t.rmark = bb.rmark /\ t.rmark_status = bb.rmark_status
         \/ t.rmark = NoMark /\ t.rmark_status = {}
  BY <1>2, PutAppends
<1> HIDE DEF t
<1>4. BufferInv'
  BY <1>1, <1>3 DEF t
<1>5. Shaped(bb) /\ Shaped(bb)'
  BY <1>4 DEF Sound
<1>6. (Lost <=> Stuck(bb)) /\ (Lost' <=> Stuck(bb'))
  <2>1. Lost <=> Stuck(bb)
    BY <1>5, LostIsStuck
  <2>2. (Lost <=> Stuck(bb))'
    BY <1>5, Lengths DEF Lost, Stuck, IsFull
  <2>3. QED BY <2>1, <2>2
<1>7. CASE CanWrite(bb, Len(s)) /\ ~Lost'
  <2>1. Contents(bb') = Contents(bb) \o s
    BY <1>1, <1>3, <1>6, <1>7 DEF t
  <2>2. Queue!Write(s)
    BY <1>1, <1>7, <2>1 DEF Queue!Write, Queue!Report, Report
  <2>3. QED BY <1>4, <2>2 DEF Queue!QueueNext
<1>8. CASE ~CanWrite(bb, Len(s)) /\ ~Lost
  <2> DEFINE r == ReadableLen(bb)
             w == WriteableLen(bb)
             n == Len(s)
             q == Contents(bb)
  <2>1. /\ r \in Nat /\ w \in Nat /\ r + w = bb.capacity /\ bb.capacity \in Nat /\ MaxCap \in Nat
        /\ Len(q) = r
    BY <1>5, <1>6, <1>8, Lengths, ContentsFacts
  <2>2. n \in Nat \ {0}
    BY <1>2, <1>8, <2>1 DEF CanWrite
  <2>3. w < n /\ GrownCap(bb, n) > MaxCap
    BY <1>5, <1>8, <2>2, WriteRefused
  <2>4. Len(q) + n + (IF n < Grow THEN Grow ELSE n) > MaxCap
    <3> HIDE DEF r, w, n, q
    <3>1. QED BY <2>1, <2>2, <2>3, RingBufferAssumption DEF GrownCap
  <2>5. bb' = bb
    BY <1>1, <1>3, <1>8 DEF t
  <2>6. Queue!RefuseWrite(s)
    <3>1. CanWrite(bb, Len(s)) = FALSE
      BY <1>8 DEF CanWrite
    <3>2. report' = Report("put", s, FALSE)
      BY <1>1, <3>1
    <3>3. UNCHANGED Contents(bb)
      BY <2>5
    <3>4. QED BY <2>4, <3>2, <3>3 DEF Queue!RefuseWrite, Queue!Report, Report
  <2>7. QED BY <1>4, <2>6 DEF Queue!QueueNext
<1>9. QED BY <1>4, <1>7, <1>8

\* Get and Skip take the first n bytes.
LEMMA TakeStep ==
  ASSUME BufferInv, NEW n \in 1 .. ReadableLen(bb),
         bb' = MoveForward(bb, n), report' = Report("get", NextBytes(bb, n), TRUE)
  PROVE  BufferInv' /\ Queue!Read(n) /\ n \in 1 .. MaxCap
<1>1. Shaped(bb) /\ ReadableLen(bb) \in Nat /\ ReadableLen(bb) <= MaxCap
      /\ bb.capacity + Grow \in Nat
  BY Lengths, RingBufferAssumption DEF BufferInv, Sound
<1>2. /\ Shaped(bb') /\ ~Stuck(bb') /\ bb'.capacity = bb.capacity
      /\ bb'.rmark = bb.rmark /\ bb'.rmark_status = bb.rmark_status
      /\ Contents(bb') = SubSeq(Contents(bb), n + 1, ReadableLen(bb))
  BY <1>1, ReadTakesFirst
<1>3. BufferInv'
  BY <1>2 DEF BufferInv, Sound
<1>4. Len(Contents(bb)) = ReadableLen(bb) /\ n <= ReadableLen(bb) /\ n \in Nat
  BY <1>1, ContentsFacts
<1>5. NextBytes(bb, n) = SubSeq(Contents(bb), 1, n)
  <2>1. n \in 0 .. ReadableLen(bb)
    BY <1>1, <1>4
  <2>2. QED BY <1>1, <2>1, NextBytesAreFirst
<1>6. Queue!Read(n)
  BY <1>2, <1>4, <1>5 DEF Queue!Read, Queue!Report, Report
<1>7. n \in 1 .. MaxCap
  BY <1>1, Lengths
<1>8. QED BY <1>3, <1>6, <1>7

LEMMA GetStep ==
  ASSUME BufferInv, Get
  PROVE  BufferInv' /\ Queue!QueueNext
<1>1. PICK n \in 1 .. MaxCap :
        IF CanRead(bb, n)
        THEN bb' = GetBytes(bb, n) /\ report' = Report("get", NextBytes(bb, n), TRUE)
        ELSE report' = Report("get", <<>>, FALSE) /\ UNCHANGED bb
  BY DEF Get
<1>2. /\ Shaped(bb) /\ ReadableLen(bb) \in Nat /\ Len(Contents(bb)) = ReadableLen(bb)
      /\ MaxCap \in Nat /\ (IsEmpty(bb) => ReadableLen(bb) = 0)
  BY Lengths, ContentsFacts DEF BufferInv, Sound
<1>3. CASE CanRead(bb, n)
  <2>1. n \in 1 .. ReadableLen(bb) /\ GetBytes(bb, n) = MoveForward(bb, n)
    BY <1>2, <1>3 DEF CanRead, GetBytes
  <2>2. BufferInv' /\ Queue!Read(n)
    BY <1>1, <1>3, <2>1, TakeStep
  <2>3. QED BY <2>2 DEF Queue!QueueNext
<1>4. CASE ~CanRead(bb, n)
  <2>1. n > Len(Contents(bb))
    BY <1>2, <1>4 DEF CanRead
  <2>2. Queue!RefuseRead(n)
    BY <1>1, <1>4, <2>1 DEF Queue!RefuseRead, Queue!Report, Report
  <2>3. BufferInv'
    BY <1>1, <1>4 DEF BufferInv
  <2>4. QED BY <2>2, <2>3 DEF Queue!QueueNext
<1>5. QED BY <1>3, <1>4

LEMMA SkipStep ==
  ASSUME BufferInv, Skip
  PROVE  BufferInv' /\ Queue!QueueNext
<1>1. PICK n \in 1 .. ReadableLen(bb) : /\ bb' = MoveForward(bb, n)
                                        /\ report' = Report("get", NextBytes(bb, n), TRUE)
  BY DEF Skip
<1>2. BufferInv' /\ Queue!Read(n) /\ n \in 1 .. MaxCap
  BY <1>1, TakeStep
<1>3. QED BY <1>2 DEF Queue!QueueNext

LEMMA PeekStep ==
  ASSUME BufferInv, Peek
  PROVE  BufferInv' /\ Queue!QueueNext
<1>1. PICK n \in 1 .. ReadableLen(bb) : /\ bb' = RmarkReset(GetBytes(Rmark(bb), n))
                                        /\ report' = Report("peek", NextBytes(bb, n), TRUE)
  BY DEF Peek
<1>2. Shaped(bb) /\ ReadableLen(bb) \in Nat /\ ReadableLen(bb) <= MaxCap /\ MaxCap \in Nat
      /\ Len(Contents(bb)) = ReadableLen(bb)
  BY Lengths, ContentsFacts DEF BufferInv, Sound
<1>3. bb' = bb
  BY <1>1, <1>2, LookingAheadTakesNothing DEF BufferInv
<1>4. n \in 0 .. ReadableLen(bb) /\ n \in 1 .. MaxCap /\ n <= ReadableLen(bb)
  BY <1>2
<1>5. NextBytes(bb, n) = SubSeq(Contents(bb), 1, n)
  BY <1>2, <1>4, NextBytesAreFirst
<1>6. Queue!LookAhead(n)
  BY <1>1, <1>2, <1>3, <1>4, <1>5 DEF Queue!LookAhead, Queue!Report, Report
<1>7. QED BY <1>3, <1>4, <1>6 DEF BufferInv, Queue!QueueNext

LEMMA ClearStep ==
  ASSUME BufferInv, Clear
  PROVE  BufferInv' /\ Queue!QueueNext
<1>1. BufferInv' /\ Contents(bb') = <<>>
  BY ResetEmpties DEF BufferInv, Clear
<1>2. Queue!Clear
  BY <1>1 DEF Queue!Clear, Clear, Queue!Report, Report
<1>3. QED BY <1>1, <1>2 DEF Queue!QueueNext

LEMMA BufferStep ==
  ASSUME ChunksAndCaps, BufferInv, [BufferNext]_bufferVars
  PROVE  BufferInv' /\ [Lost \/ Lost' \/ Queue!QueueNext]_bufferVars
<1>1. CASE Put   BY <1>1, PutStep
<1>2. CASE Get   BY <1>2, GetStep
<1>3. CASE Skip  BY <1>3, SkipStep
<1>4. CASE Peek  BY <1>4, PeekStep
<1>5. CASE Clear BY <1>5, ClearStep
<1>6. CASE UNCHANGED bufferVars
  BY <1>6 DEF BufferInv, bufferVars
<1>7. QED BY <1>1, <1>2, <1>3, <1>4, <1>5, <1>6 DEF BufferNext

LEMMA BufferInvAlways ==
  ASSUME ChunksAndCaps
  PROVE  BufferSpec => []BufferInv
<1>1. BufferInit => BufferInv
  BY InitSound
<1>2. BufferInv /\ [BufferNext]_bufferVars => BufferInv'
  BY BufferStep
<1>3. QED BY <1>1, <1>2, PTL DEF BufferSpec

\* For every alphabet, capacity, growth and sequence of calls: the positions
\* stay inside the ring, and what cannot be read can be written without
\* growing, unless a write was lost within one growth of the maximum
\* (jm_buf_check_write_len clears BB_EMPTY when it replaces the memory).
THEOREM FlagsAlwaysAgree ==
  ASSUME ChunksAndCaps
  PROVE  BufferSpec => []FlagsAgree
<1>1. BufferInv => FlagsAgree
  <2> SUFFICES ASSUME BufferInv PROVE FlagsAgree
    OBVIOUS
  <2>1. /\ Shaped(bb) /\ bb.capacity \in Nat /\ (Lost <=> Stuck(bb))
        /\ ~Stuck(bb) => ReadableLen(bb) + WriteableLen(bb) = bb.capacity
    BY Lengths, LostIsStuck DEF BufferInv, Sound
  <2>2. IsBuffer(bb)
    BY <2>1 DEF BufferInv, Shaped, Buffers, Flags, IsBuffer, NoMark
  <2>3. QED BY <2>1, <2>2 DEF BufferInv, Sound, FlagsAgree
<1>2. QED BY <1>1, BufferInvAlways, PTL

\* But for the write that is lost there, the ring with its flags, its growth
\* and its mark implements the queue of bytes, call by call: what
\* jm_buf_put_bytes reports as written comes out once, whole and in order,
\* and a call that is refused changes nothing.
THEOREM RingIsByteQueue ==
  ASSUME ChunksAndCaps
  PROVE  BufferSpec => QueueUnlessLost
<1>1. BufferInit => Queue!QueueInit
  BY InitSound DEF BufferInit, Queue!QueueInit, Queue!Report, Report
<1>2. BufferInv /\ [BufferNext]_bufferVars => [Lost \/ Lost' \/ Queue!QueueNext]_bufferVars
  BY BufferStep
<1>3. QED BY <1>1, <1>2, BufferInvAlways, PTL DEF BufferSpec, QueueUnlessLost
-----------------------------------------------------------------------------
\* Messages through the buffer (MsgFraming).
Messages == [id : 1 .. MaxMsgs, payload : Payloads]

\* The encoded messages of s after the first n.
Pending(s, n) == [i \in 1 .. Len(s) - n |-> Encode(s[n + i])]

LEMMA WideLength ==
  ASSUME NEW c \in Nat \ {0}, NEW x \in Nat, x < c * c
  PROVE  /\ x \div c \in 0 .. c - 1 /\ x % c \in 0 .. c - 1
         /\ (x \div c) * c + (x % c) = x
OBVIOUS

\* What jm_msg_encode writes: the flag that tells the width of the length,
\* the length, the type and id, the payload.
LEMMA EncodeFacts ==
  ASSUME FramingConstants, NEW m \in Messages
  PROVE  LET e   == Encode(m)
             len == Len(m.payload)
             h   == IF len <= MaxShortLen THEN 3 ELSE 4 IN
         /\ e \in Seq(Byte) /\ len \in Nat /\ Len(e) = h + len
         /\ e[1] = IF len <= MaxShortLen THEN 0 ELSE 1
         /\ len <= MaxShortLen => e[2] = len
         /\ len > MaxShortLen => e[2] * Base + e[3] = len
         /\ e[h] = m.id
         /\ \A i \in 1 .. len : e[h + i] = m.payload[i]
<1> DEFINE p == m.payload
           len == Len(p)
           hi == len \div Base
           lo == len % Base
           e == Encode(m)
           h == IF len <= MaxShortLen THEN 3 ELSE 4
           a == (IF len <= MaxShortLen THEN <<0, len>> ELSE <<1, hi, lo>>) \o <<m.id>>
<1>1. /\ MaxMsgs \in Nat /\ Byte = 0 .. MaxMsgs /\ MaxShortLen \in Byte
      /\ p \in Seq(Byte) /\ len \in Nat /\ m.id \in 1 .. MaxMsgs
      /\ 0 \in Byte /\ 1 \in Byte /\ m.id \in Byte
  BY LenProperties DEF FramingConstants, Messages
<1>2. hi \in Byte /\ lo \in Byte /\ hi * Base + lo = len
  <2>1. len < Base * Base /\ Base \in Nat \ {0} /\ 0 .. Base - 1 = Byte
    BY <1>1 DEF FramingConstants, Messages, Base
  <2> HIDE DEF len
  <2>2. hi \in 0 .. Base - 1 /\ lo \in 0 .. Base - 1 /\ (hi * Base) + lo = len
    BY <1>1, <2>1, WideLength
  <2>3. QED BY <2>1, <2>2
<1>3. e = a \o p
  BY DEF Encode, LengthInt
<1> HIDE DEF p, len, hi, lo, e
<1>4. /\ a \in Seq(Byte) /\ Len(a) = h
      /\ a[1] = IF len <= MaxShortLen THEN 0 ELSE 1
      /\ len <= MaxShortLen => a[2] = len
      /\ ~(len <= MaxShortLen) => a[2] = hi /\ a[3] = lo
      /\ a[h] = m.id
  <2>1. CASE len <= MaxShortLen
    <3>1. len \in Byte
      BY <1>1, <2>1
    <3>2. QED BY <1>1, <2>1, <3>1
  <2>2. CASE ~(len <= MaxShortLen)
    BY <1>1, <1>2, <2>2
  <2>3. QED BY <2>1, <2>2
<1> HIDE DEF a
<1>5. /\ e \in Seq(Byte) /\ Len(e) = Len(a) + Len(p)
      /\ \A i \in 1 .. Len(a) + Len(p) : e[i] = IF i <= Len(a) THEN a[i] ELSE p[i - Len(a)]
  BY <1>1, <1>3, <1>4, ConcatProperties
<1>6. /\ h \in {3, 4} /\ (len <= MaxShortLen <=> h = 3) /\ Len(e) = h + len
      /\ \A i \in 1 .. h : e[i] = a[i]
      /\ \A i \in 1 .. len : e[h + i] = p[i]
  <2>1. h \in {3, 4} /\ (len <= MaxShortLen <=> h = 3) /\ len = Len(p)
    BY DEF len
  <2> HIDE DEF h
  <2>2. /\ Len(e) = h + len
        /\ \A i \in 1 .. h + len : e[i] = IF i <= h THEN a[i] ELSE p[i - h]
    BY <1>4, <1>5, <2>1
  <2>3. \A i \in 1 .. len : h + i \in 1 .. h + len /\ ~(h + i <= h) /\ h + i - h = i
    BY <1>1, <2>1
  <2>4. \A i \in 1 .. h : i \in 1 .. h + len /\ i <= h
    BY <1>1, <2>1
  <2>5. QED BY <2>1, <2>2, <2>3, <2>4
<1>7. /\ e[1] = IF len <= MaxShortLen THEN 0 ELSE 1
      /\ len <= MaxShortLen => e[2] = len
      /\ ~(len <= MaxShortLen) => e[2] * Base + e[3] = len
      /\ e[h] = m.id
  <2> HIDE DEF h
  <2>1. 1 \in 1 .. h /\ 2 \in 1 .. h /\ 3 \in 1 .. h /\ h \in 1 .. h
    BY <1>6
  <2>2. e[1] = a[1] /\ e[2] = a[2] /\ e[3] = a[3] /\ e[h] = a[h]
    BY <1>6, <2>1
  <2>3. QED BY <1>2, <1>4, <2>2 DEF h
<1>8. len > MaxShortLen => ~(len <= MaxShortLen)
  BY <1>1
<1>9. QED BY <1>1, <1>5, <1>6, <1>7, <1>8 DEF e, len, p

LEMMA PendingFacts ==
  ASSUME FramingConstants, NEW s \in Seq(Messages), NEW n \in 0 .. Len(s)
  PROVE  /\ Pending(s, n) \in Seq(Seq(Byte)) /\ Len(Pending(s, n)) = Len(s) - n
         /\ \A i \in 1 .. Len(s) - n : Pending(s, n)[i] = Encode(s[n + i]) /\ n + i \in 1 .. Len(s)
<1>1. Len(s) \in Nat /\ Len(s) - n \in Nat
  BY LenProperties
<1>2. ASSUME NEW i \in 1 .. Len(s) - n PROVE Encode(s[n + i]) \in Seq(Byte) /\ n + i \in 1 .. Len(s)
  <2>1. n + i \in 1 .. Len(s)
    BY <1>1
  <2>2. s[n + i] \in Messages
    BY <2>1, ElementOfSeq
  <2>3. QED BY <2>1, <2>2, EncodeFacts
<1>3. Pending(s, n) \in [1 .. Len(s) - n -> Seq(Byte)]
  BY <1>2 DEF Pending
<1>4. Pending(s, n) \in Seq(Seq(Byte))
  BY <1>1, <1>3, SeqDef
<1>5. 1 .. Len(Pending(s, n)) = 1 .. Len(s) - n /\ Len(Pending(s, n)) \in Nat
  BY <1>3, <1>4, LenProperties
<1>6. Len(Pending(s, n)) = Len(s) - n
  BY <1>1, <1>5
<1>7. QED BY <1>2, <1>4, <1>6 DEF Pending

LEMMA PrefixFacts ==
  ASSUME NEW S, NEW s \in Seq(S), NEW t \in Seq(S)
  PROVE  IsPrefix(s, t) <=> Len(s) <= Len(t) /\ \A i \in 1 .. Len(s) : s[i] = t[i]
<1> DEFINE n == Len(s)
           f == SubSeq(s, 1, n)
           g == SubSeq(t, 1, n)
<1>1. n \in Nat /\ Len(t) \in Nat
  BY LenProperties
<1>2. CASE n <= Len(t)
  <2>1. f = s
    BY SubSeqFull
  <2>2. \A i \in 1 .. n : t[i] \in S
    BY <1>1, <1>2, ElementOfSeq
  <2>3. /\ g \in Seq(S) /\ Len(g) = IF 1 <= n THEN n - 1 + 1 ELSE 0
        /\ \A i \in 1 .. n - 1 + 1 : g[i] = t[1 + i - 1]
    BY <1>1, <2>2, SubSeqProperties
  <2>4. Len(g) = n /\ \A i \in 1 .. n : g[i] = t[i]
    BY <1>1, <2>3
  <2> HIDE DEF g
  <2>5. s = g <=> \A i \in 1 .. n : s[i] = t[i]
    <3>1. ASSUME \A i \in 1 .. n : s[i] = t[i] PROVE s = g
      BY <2>3, <2>4, <3>1, SeqEqual
    <3>2. QED BY <2>4, <3>1
  <2>6. IsPrefix(s, t) <=> s = g
    BY <1>2, <2>1 DEF IsPrefix, g
  <2>7. QED BY <1>2, <2>5, <2>6
<1>3. CASE ~(n <= Len(t))
  BY <1>3 DEF IsPrefix
<1>4. QED BY <1>2, <1>3
\* What is left of q \o w without its first part e.
LEMMA WithoutFirst ==
  ASSUME NEW S, NEW q \in Seq(S), NEW w \in Seq(S), NEW e \in Seq(S), NEW behind \in Seq(S),
         q \o w = e \o behind, Len(e) <= Len(q)
  PROVE  SubSeq(q, 1, Len(e)) = e /\ SubSeq(q, Len(e) + 1, Len(q)) \o w = behind
<1> DEFINE n == Len(e)
           r == Len(q)
           k == Len(w)
           f == SubSeq(q, 1, n)
           g == SubSeq(q, n + 1, r)
<1>1. n \in Nat /\ r \in Nat /\ k \in Nat /\ Len(behind) \in Nat /\ n <= r
  BY LenProperties
<1>2. /\ Len(q \o w) = r + k /\ Len(e \o behind) = n + Len(behind)
      /\ \A i \in 1 .. r + k : (q \o w)[i] = IF i <= r THEN q[i] ELSE w[i - r]
      /\ \A i \in 1 .. n + Len(behind) : (e \o behind)[i] = IF i <= n THEN e[i] ELSE behind[i - n]
  BY ConcatProperties
<1>3. r + k = n + Len(behind)
  BY <1>2
<1>4. \A i \in 1 .. r : q[i] \in S
  BY ElementOfSeq
<1> HIDE DEF n, r, k
<1>5. /\ f \in Seq(S) /\ Len(f) = n /\ \A i \in 1 .. n : f[i] = q[i]
  <2>1. /\ f \in Seq(S) /\ Len(f) = IF 1 <= n THEN n - 1 + 1 ELSE 0
        /\ \A i \in 1 .. n - 1 + 1 : f[i] = q[1 + i - 1]
    BY <1>1, <1>4, SubSeqProperties
  <2>2. QED BY <1>1, <2>1
<1>6. /\ g \in Seq(S) /\ Len(g) = r - n /\ \A i \in 1 .. r - n : g[i] = q[n + i]
  <2>1. /\ g \in Seq(S) /\ Len(g) = IF n + 1 <= r THEN r - (n + 1) + 1 ELSE 0
        /\ \A i \in 1 .. r - (n + 1) + 1 : g[i] = q[(n + 1) + i - 1]
    BY <1>1, <1>4, SubSeqProperties
  <2>2. QED BY <1>1, <2>1
<1> HIDE DEF f, g
<1>7. f = e
  <2>1. ASSUME NEW i \in 1 .. n PROVE f[i] = e[i]
    <3>1. i \in 1 .. r + k /\ i \in 1 .. n + Len(behind) /\ i <= r /\ i <= n
      BY <1>1, <1>3
    <3>2. QED BY <1>2, <1>5, <3>1
  <2>2. QED BY <1>5, <2>1, SeqEqual DEF n
<1>8. g \o w = behind
  <2> DEFINE x == g \o w
  <2>1. /\ x \in Seq(S) /\ Len(x) = (r - n) + k
        /\ \A i \in 1 .. (r - n) + k : x[i] = IF i <= r - n THEN g[i] ELSE w[i - (r - n)]
    <3>1. /\ x \in Seq(S) /\ Len(x) = Len(g) + Len(w)
          /\ \A i \in 1 .. Len(g) + Len(w) : x[i] = IF i <= Len(g) THEN g[i] ELSE w[i - Len(g)]
      BY <1>6, ConcatProperties
    <3>2. Len(g) = r - n /\ Len(w) = k
      BY <1>6 DEF k
    <3> HIDE DEF x
    <3>3. QED BY <3>1, <3>2
  <2>2. (r - n) + k = Len(behind)
    BY <1>1, <1>3
  <2> HIDE DEF x
  <2>3. ASSUME NEW i \in 1 .. Len(behind) PROVE x[i] = behind[i]
    <3> DEFINE j == n + i
    <3>1. /\ j \in 1 .. r + k /\ j \in 1 .. n + Len(behind) /\ ~(j <= n) /\ j - n = i
          /\ i \in 1 .. (r - n) + k /\ (i <= r - n <=> j <= r) /\ i - (r - n) = j - r
          /\ i <= r - n => i \in 1 .. r - n
      BY <1>1, <1>3
    <3>2. i <= r - n => g[i] = q[j]
      BY <1>6, <3>1
    <3> HIDE DEF j
    <3>3. (q \o w)[j] = (e \o behind)[j]
      OBVIOUS
    <3>4. (q \o w)[j] = x[i] /\ (e \o behind)[j] = behind[i]
      BY <1>2, <2>1, <3>1, <3>2
    <3>5. QED BY <3>3, <3>4
  <2>4. QED BY <2>1, <2>2, <2>3, SeqEqual DEF x
<1>9. QED BY <1>7, <1>8 DEF f, g, n, r

\* The header that jm_msg_readMessage finds in front of its buffer.
LEMMA HeaderFacts ==
  ASSUME FramingConstants, NEW b, Shaped(b), NEW w \in Seq(Byte), NEW m \in Messages,
         NEW behind \in Seq(Byte), Contents(b) \o w = Encode(m) \o behind,
         ReadableLen(b) >= HeaderLen
  PROVE  /\ HeadLen(b) = IF Len(m.payload) <= MaxShortLen THEN 3 ELSE 4
         /\ FieldLen(b) = HeadLen(b) - 1
         /\ PayloadLen(b) = Len(m.payload)
         /\ HeadLen(b) + PayloadLen(b) = Len(Encode(m))
<1> DEFINE q == Contents(b)
           e == Encode(m)
           r == ReadableLen(b)
           len == Len(m.payload)
           short == len <= MaxShortLen
<1>1. q \in Seq(Byte) /\ Len(q) = r /\ r \in Nat /\ r >= 3
  BY ContentsFacts, Lengths DEF HeaderLen
<1>2. /\ e \in Seq(Byte) /\ len \in Nat /\ Len(e) = (IF short THEN 3 ELSE 4) + len
      /\ e[1] = IF short THEN 0 ELSE 1
      /\ short => e[2] = len
      /\ len > MaxShortLen => e[2] * Base + e[3] = len
  BY EncodeFacts
<1>3. len > MaxShortLen <=> ~short
  BY <1>2 DEF FramingConstants
<1>4. \A k \in 0 .. r : \A i \in 1 .. k : NextBytes(b, k)[i] = q[i]
  <2> TAKE k \in 0 .. r
  <2> TAKE i \in 1 .. k
  <2>1. i \in 1 .. r
    BY <1>1
  <2>2. NextBytes(b, k)[i] = b.data[At(b.rpos, i - 1, b.capacity)]
    BY NextBytesFacts
  <2>3. q[i] = b.data[At(b.rpos, i - 1, b.capacity)]
    BY <2>1, ContentsFacts
  <2>4. QED BY <2>2, <2>3
<1>5. \A i \in 1 .. 3 : q[i] = e[i]
  <2> SUFFICES ASSUME NEW i \in 1 .. 3 PROVE q[i] = e[i]
    OBVIOUS
  <2> DEFINE n == Len(e)
             k == Len(w)
             o == Len(behind)
  <2>1. k \in Nat /\ o \in Nat
    BY LenProperties
  <2>2. q \o w = e \o behind
    OBVIOUS
  <2> HIDE DEF q, e, r, len
  <2>3. n \in Nat /\ n >= 3
    BY <1>2
  <2>4. /\ \A j \in 1 .. r + k : (q \o w)[j] = IF j <= r THEN q[j] ELSE w[j - r]
        /\ \A j \in 1 .. n + o : (e \o behind)[j] = IF j <= n THEN e[j] ELSE behind[j - n]
    BY <1>1, <1>2, ConcatProperties
  <2> HIDE DEF n, k, o
  <2>5. i \in 1 .. r + k /\ i \in 1 .. n + o /\ i <= r /\ i <= n
    BY <1>1, <2>1, <2>3
  <2>6. QED BY <2>2, <2>4, <2>5
<1> HIDE DEF q, e, r, len, short
<1>6. WithInt(b) <=> ~short
  <2>1. NextBytes(b, 1)[1] = e[1]
    BY <1>1, <1>4, <1>5
  <2>2. QED BY <1>2, <2>1 DEF WithInt, LengthInt
<1>7. /\ HeadLen(b) = IF short THEN 3 ELSE 4
      /\ FieldLen(b) = IF short THEN 2 ELSE 3
  BY <1>6 DEF HeadLen, FieldLen, HeaderLen
<1>8. PayloadLen(b) = len
  <2>1. CASE short
    <3>1. NextBytes(b, 2)[2] = e[2]
      <4>1. 2 \in 1 .. 3 /\ 2 \in 1 .. 2
        OBVIOUS
      <4>2. 2 <= r
        BY <1>1
      <4>3. NextBytes(b, 2)[2] = q[2]
        BY <1>4, <4>1, <4>2
      <4>4. QED BY <1>5, <4>1, <4>3
    <3>2. QED BY <1>2, <1>6, <1>7, <2>1, <3>1 DEF PayloadLen
  <2>2. CASE ~short
    <3>1. NextBytes(b, 3)[2] = e[2] /\ NextBytes(b, 3)[3] = e[3]
      <4>1. /\ 2 \in 1 .. 3 /\ 3 \in 1 .. 3
        OBVIOUS
      <4>2. 3 <= r
        BY <1>1
      <4>3. NextBytes(b, 3)[2] = q[2] /\ NextBytes(b, 3)[3] = q[3]
        BY <1>4, <4>1, <4>2
      <4>4. QED BY <1>5, <4>1, <4>3
    <3>2. QED BY <1>2, <1>3, <1>6, <1>7, <2>2, <3>1 DEF PayloadLen
  <2>3. QED BY <2>1, <2>2
<1>9. HeadLen(b) + PayloadLen(b) = Len(e) /\ FieldLen(b) = HeadLen(b) - 1
  BY <1>2, <1>7, <1>8
<1>10. QED BY <1>7, <1>8, <1>9 DEF e, len, short

\* jm_msg_decode gives back what jm_msg_encode was given.
LEMMA DecodeFacts ==
  ASSUME FramingConstants, NEW b, NEW m \in Messages,
         HeadLen(b) = IF Len(m.payload) <= MaxShortLen THEN 3 ELSE 4,
         PayloadLen(b) = Len(m.payload),
         NextBytes(b, HeadLen(b) + PayloadLen(b)) = Encode(m)
  PROVE  Decode(b) = m
<1> DEFINE e == Encode(m)
           p == m.payload
           len == Len(p)
           h == HeadLen(b)
           f == SubSeq(e, h + 1, Len(e))
<1>1. /\ e \in Seq(Byte) /\ len \in Nat /\ Len(e) = h + len /\ h \in {3, 4}
      /\ e[h] = m.id /\ \A i \in 1 .. len : e[h + i] = p[i]
  BY EncodeFacts
<1>2. p \in Seq(Byte) /\ m = [id |-> m.id, payload |-> p]
  BY DEF FramingConstants, Messages
<1>3. Decode(b) = [id |-> e[h], payload |-> f]
  BY DEF Decode
<1> HIDE DEF e, p, h, f
<1>4. \A i \in h + 1 .. Len(e) : e[i] \in Byte
  <2>1. \A i \in h + 1 .. Len(e) : i \in 1 .. Len(e)
    BY <1>1
  <2>2. QED BY <1>1, <2>1, ElementOfSeq
<1>5. /\ f \in Seq(Byte) /\ Len(f) = len /\ \A i \in 1 .. len : f[i] = e[h + i]
  <2>1. /\ f \in Seq(Byte) /\ Len(f) = IF h + 1 <= Len(e) THEN Len(e) - (h + 1) + 1 ELSE 0
        /\ \A i \in 1 .. Len(e) - (h + 1) + 1 : f[i] = e[(h + 1) + i - 1]
    BY <1>1, <1>4, SubSeqProperties DEF f
  <2> HIDE DEF len
  <2>2. QED BY <1>1, <2>1
<1>6. f = p
  BY <1>1, <1>2, <1>5, SeqEqual
<1>7. QED BY <1>1, <1>2, <1>3, <1>6
-----------------------------------------------------------------------------
\* The inductive invariant of MsgFraming: until a message is cut off, the
\* buffer can take one more read from the network when it is empty, and it
\* holds with the wire the bytes of the messages not yet returned.
Good(b) == Shaped(b) /\ ~Stuck(b) /\ b.capacity >= MaxRead

FramingTyped ==
  sent \in Seq(Messages) /\ wire \in Seq(Byte) /\ got \in Seq(Messages)

Whole == FramingTyped /\ Good(buf) /\ StreamIntact

FramingInv == cutOff \/ Whole

LEMMA WholeFacts ==
  ASSUME FramingConstants, Whole
  PROVE  /\ Len(got) \in 0 .. Len(sent) /\ Len(sent) \in Nat
         /\ \A i \in 1 .. Len(got) : got[i] = sent[i]
         /\ Contents(buf) \in Seq(Byte) /\ Len(Contents(buf)) = ReadableLen(buf)
         /\ Contents(buf) \o wire = FlattenSeq(Pending(sent, Len(got)))
         /\ ReadableLen(buf) \in Nat
<1>1. Len(got) \in Nat /\ Len(sent) \in Nat
  BY LenProperties DEF Whole, FramingTyped
<1>2. IsPrefix(got, sent) /\ Contents(buf) \o wire = FlattenSeq(Pending(sent, Len(got)))
  BY DEF Whole, StreamIntact, Pending
<1>3. Len(got) <= Len(sent) /\ \A i \in 1 .. Len(got) : got[i] = sent[i]
  BY <1>2, PrefixFacts DEF Whole, FramingTyped
<1>4. Contents(buf) \in Seq(Byte) /\ Len(Contents(buf)) = ReadableLen(buf)
      /\ ReadableLen(buf) \in Nat
  BY ContentsFacts, Lengths DEF Whole, Good
<1>5. QED BY <1>1, <1>2, <1>3, <1>4

LEMMA SendStep ==
  ASSUME FramingConstants, Whole, SendMessage
  PROVE  Whole'
<1>1. PICK p \in Payloads :
        /\ Len(sent) < MaxMsgs
        /\ sent' = Append(sent, [id |-> Len(sent) + 1, payload |-> p])
        /\ wire' = wire \o Encode([id |-> Len(sent) + 1, payload |-> p])
        /\ UNCHANGED <<split, buf, got, cutOff>>
  BY DEF SendMessage
<1> DEFINE m == [id |-> Len(sent) + 1, payload |-> p]
           n == Len(got)
           l == Len(sent)
           e == Encode(m)
           q == Contents(buf)
           old == Pending(sent, n)
           new == Pending(sent', n)
<1>2. /\ n \in 0 .. l /\ l \in Nat /\ \A i \in 1 .. n : got[i] = sent[i]
      /\ q \in Seq(Byte) /\ q \o wire = FlattenSeq(old)
      /\ sent \in Seq(Messages) /\ got \in Seq(Messages) /\ wire \in Seq(Byte)
  BY WholeFacts DEF Whole, FramingTyped
<1>3. m \in Messages
  BY <1>1, <1>2 DEF Messages, FramingConstants
<1>4. e \in Seq(Byte)
  BY <1>3, EncodeFacts
<1> HIDE DEF m
<1>5. /\ sent' = Append(sent, m) /\ wire' = wire \o e /\ buf' = buf /\ got' = got
  BY <1>1 DEF m
<1>6. /\ sent' \in Seq(Messages) /\ Len(sent') = l + 1
      /\ \A i \in 1 .. l : sent'[i] = sent[i]
      /\ sent'[l + 1] = m
  BY <1>2, <1>3, <1>5, AppendProperties
<1> HIDE DEF n, l, q
<1>7. new = Append(old, e)
  <2>1. /\ old \in Seq(Seq(Byte)) /\ Len(old) = l - n
        /\ \A i \in 1 .. l - n : old[i] = Encode(sent[n + i])
    BY <1>2, PendingFacts DEF l
  <2>2. n \in 0 .. Len(sent')
    BY <1>2, <1>6
  <2>3. /\ new \in Seq(Seq(Byte)) /\ Len(new) = (l + 1) - n
        /\ \A i \in 1 .. (l + 1) - n : new[i] = Encode(sent'[n + i])
    BY <1>6, <2>2, PendingFacts
  <2> DEFINE app == Append(old, e)
  <2>4. /\ app \in Seq(Seq(Byte)) /\ Len(app) = (l - n) + 1
        /\ \A i \in 1 .. l - n : app[i] = old[i]
        /\ app[(l - n) + 1] = e
    BY <1>4, <2>1, AppendProperties
  <2> HIDE DEF app, old, new
  <2>5. (l - n) + 1 = (l + 1) - n /\ l - n \in Nat
    BY <1>2
  <2>6. ASSUME NEW i \in 1 .. (l + 1) - n PROVE new[i] = app[i]
    <3>1. CASE i = (l - n) + 1
      <4>1. n + i = l + 1
        BY <1>2, <3>1
      <4>2. QED BY <1>6, <2>3, <2>4, <3>1, <4>1
    <3>2. CASE i # (l - n) + 1
      <4>1. i \in 1 .. l - n /\ n + i \in 1 .. l
        BY <1>2, <2>5, <3>2
      <4>2. QED BY <1>6, <2>1, <2>3, <2>4, <4>1
    <3>3. QED BY <3>1, <3>2
  <2>7. QED BY <2>3, <2>4, <2>5, <2>6, SeqEqual DEF app
<1>8. FlattenSeq(new) = (q \o wire) \o e
  <2>1. old \in Seq(Seq(Byte))
    BY <1>2, PendingFacts DEF l
  <2>2. FlattenSeq(Append(old, e)) = FlattenSeq(old) \o e
    BY <1>4, <2>1, FlattenAppend
  <2>3. QED BY <1>2, <1>7, <2>2
<1> HIDE DEF e, new, old
<1>9. q \o wire' = FlattenSeq(new) /\ wire' \in Seq(Byte)
  <2>1. q \in Seq(Byte) /\ wire \in Seq(Byte) /\ e \in Seq(Byte)
    BY <1>2, <1>4
  <2>2. (q \o wire) \o e = q \o (wire \o e)
    BY ONLY <2>1, ConcatAssociative, SMTT(30)
  <2>3. wire \o e \in Seq(Byte)
    BY <2>1, ConcatProperties
  <2>4. QED BY <1>5, <1>8, <2>2, <2>3
<1>10. IsPrefix(got', sent')
  <2>1. Len(got) <= Len(sent') /\ \A i \in 1 .. Len(got) : got[i] = sent'[i]
    BY <1>2, <1>6 DEF n
  <2>2. IsPrefix(got, sent')
    BY <1>2, <1>6, <2>1, PrefixFacts
  <2>3. QED BY <1>5, <2>2
<1>11. StreamIntact'
  BY <1>5, <1>9, <1>10 DEF StreamIntact, Pending, new, n, q
<1>12. QED BY <1>2, <1>5, <1>6, <1>9, <1>11 DEF Whole, FramingTyped, Good
LEMMA ArriveStep ==
  ASSUME FramingConstants, Whole, Arrive
  PROVE  Whole'
<1>1. PICK n \in 1 .. (IF Len(wire) < MaxRead THEN Len(wire) ELSE MaxRead) :
        /\ CanWrite(buf, n)
        /\ buf' = PutBytes(buf, SubSeq(wire, 1, n))
        /\ wire' = SubSeq(wire, n + 1, Len(wire))
        /\ UNCHANGED <<split, sent, got, cutOff>>
  BY DEF Arrive
<1> DEFINE s == SubSeq(wire, 1, n)
           u == SubSeq(wire, n + 1, Len(wire))
           q == Contents(buf)
           t == PutBytes(buf, s)
<1>2. /\ q \in Seq(Byte) /\ q \o wire = FlattenSeq(Pending(sent, Len(got)))
      /\ wire \in Seq(Byte) /\ Len(wire) \in Nat /\ MaxRead \in Nat
      /\ Shaped(buf) /\ ~Stuck(buf) /\ buf.capacity >= MaxRead
  BY WholeFacts, LenProperties DEF Whole, FramingTyped, Good, FramingConstants
<1>3. n \in Nat /\ n >= 1 /\ n <= Len(wire) /\ n <= MaxRead
  BY <1>2
<1>4. s \in Seq(Byte) /\ Len(s) = n /\ u \in Seq(Byte) /\ s \o u = wire
  <2>1. \A i \in 1 .. Len(wire) : wire[i] \in Byte
    BY <1>2, ElementOfSeq
  <2>2. \A i \in 1 .. n : wire[i] \in Byte
    BY <1>2, <1>3, <2>1
  <2>3. s \in Seq(Byte) /\ Len(s) = IF 1 <= n THEN n - 1 + 1 ELSE 0
    BY <1>3, <2>2, SubSeqProperties
  <2>4. \A i \in n + 1 .. Len(wire) : wire[i] \in Byte
    BY <1>2, <1>3, <2>1
  <2>5. u \in Seq(Byte)
    BY <1>2, <1>3, <2>4, SubSeqProperties
  <2>6. SubSeq(wire, 1, n) \o SubSeq(wire, n + 1, Len(wire)) = SubSeq(wire, 1, Len(wire))
    <3>1. 1 \in 1 .. Len(wire) + 1 /\ n \in 1 - 1 .. Len(wire) /\ Len(wire) \in n .. Len(wire)
      BY <1>2, <1>3
    <3>2. QED BY <1>2, <3>1, ConcatAdjacentSubSeq
  <2>7. SubSeq(wire, 1, Len(wire)) = wire
    BY <1>2, SubSeqFull
  <2>8. s \o u = wire
    BY <2>6, <2>7
  <2> HIDE DEF s, u
  <2>9. Len(s) = n
    BY <1>3, <2>3
  <2>10. QED BY <2>3, <2>5, <2>8, <2>9
<1> HIDE DEF s, u, q
<1>5. /\ Shaped(t) /\ ~Stuck(t) /\ t.capacity >= buf.capacity
      /\ Contents(t) = q \o s
  <2>1. Sound(buf)
    BY <1>2 DEF Sound
  <2>2. /\ Sound(t) /\ t.capacity >= buf.capacity
        /\ Stuck(t) \/ Contents(t) = q \o s
        /\ Stuck(t) => Stuck(buf) \/ (ReadableLen(buf) = 0 /\ WriteableLen(buf) < n)
    BY <1>1, <1>4, <2>1, PutAppends DEF q
  <2>3. ReadableLen(buf) = 0 => WriteableLen(buf) = buf.capacity
    BY <1>2, Lengths
  <2>4. buf.capacity \in Nat
    BY <1>2, Lengths
  <2>5. ~(ReadableLen(buf) = 0 /\ WriteableLen(buf) < n)
    BY <1>2, <1>3, <2>3, <2>4
  <2>6. QED BY <1>2, <2>2, <2>5 DEF Sound
<1> HIDE DEF t
<1>6. buf' = t /\ wire' = u /\ sent' = sent /\ got' = got
  BY <1>1 DEF t, s, u
<1>7. Contents(t) \o u = FlattenSeq(Pending(sent, Len(got)))
  <2>1. q \in Seq(Byte) /\ s \in Seq(Byte) /\ u \in Seq(Byte)
    BY <1>2, <1>4
  <2>2. (q \o s) \o u = q \o (s \o u)
    BY ONLY <2>1, ConcatAssociative, SMTT(30)
  <2>3. QED BY <1>2, <1>4, <1>5, <2>2
<1>8. StreamIntact'
  BY <1>6, <1>7 DEF Whole, StreamIntact, Pending
<1>9. Good(buf)'
  <2>1. t.capacity \in Nat /\ buf.capacity \in Nat
    BY <1>2, <1>5, Lengths
  <2>2. QED BY <1>2, <1>5, <1>6, <2>1 DEF Good
<1>10. QED BY <1>4, <1>6, <1>8, <1>9 DEF Whole, FramingTyped

LEMMA TooShortStep ==
  ASSUME FramingConstants, Whole, ReadTooShort
  PROVE  Whole'
<1> DEFINE t == Rmark(buf)
<1>1. Shaped(buf) /\ ~Stuck(buf) /\ buf.capacity >= MaxRead
  BY DEF Whole, Good
<1>2. /\ Shaped(t) /\ t.data = buf.data /\ t.capacity = buf.capacity /\ t.wpos = buf.wpos
      /\ t.status = buf.status /\ t.rpos = buf.rpos /\ ReadableLen(t) = ReadableLen(buf)
  BY <1>1, MarkKeeps
<1>3. buf' = t /\ UNCHANGED <<sent, wire, got>>
  BY DEF ReadTooShort
<1> HIDE DEF t
<1>4. Contents(t) = Contents(buf)
  BY <1>2 DEF Contents, NextBytes
<1>5. Good(t)
  BY <1>1, <1>2 DEF Good, Stuck
<1>6. StreamIntact'
  BY <1>3, <1>4 DEF Whole, StreamIntact
<1>7. QED BY <1>3, <1>5, <1>6 DEF Whole, FramingTyped
LEMMA WholeStep ==
  ASSUME FramingConstants, Whole, ReadWhole
  PROVE  Whole'
<1> DEFINE n == HeadLen(buf) + PayloadLen(buf)
           k == Len(got)
           l == Len(sent)
           m == sent[k + 1]
           e == Encode(m)
           q == Contents(buf)
           r == ReadableLen(buf)
           old == Pending(sent, k)
           new == Pending(sent, k + 1)
           b == RmarkReset(GetBytes(Rmark(buf), FieldLen(buf)))
           t == GetBytes(b, n)
<1>1. /\ r >= HeaderLen /\ r >= n /\ CanRead(b, n) /\ buf' = t
      /\ got' = Append(got, Decode(b)) /\ UNCHANGED <<sent, wire>>
  BY DEF ReadWhole
<1>2. /\ k \in 0 .. l /\ l \in Nat /\ \A i \in 1 .. k : got[i] = sent[i]
      /\ q \in Seq(Byte) /\ q \o wire = FlattenSeq(old) /\ Len(q) = r /\ r \in Nat
      /\ sent \in Seq(Messages) /\ got \in Seq(Messages) /\ wire \in Seq(Byte)
      /\ Shaped(buf) /\ ~Stuck(buf) /\ buf.capacity >= MaxRead
  BY WholeFacts DEF Whole, FramingTyped, Good
<1>3. /\ old \in Seq(Seq(Byte)) /\ Len(old) = l - k
      /\ \A i \in 1 .. l - k : old[i] = Encode(sent[k + i])
  BY <1>2, PendingFacts
<1> HIDE DEF b, t
<1>4. k < l
  <2>1. ASSUME k = l PROVE FALSE
    <3> HIDE DEF old, q, r
    <3>1. Len(old) = 0
      BY <1>2, <1>3, <2>1
    <3>2. q \o wire = old
      BY <1>2, <3>1, FlattenEmpty
    <3>3. Len(q \o wire) = r + Len(wire) /\ Len(wire) \in Nat
      BY <1>2, ConcatProperties, LenProperties
    <3>4. r + Len(wire) = 0
      BY <3>1, <3>2, <3>3
    <3>5. r >= 3
      BY <1>1 DEF HeaderLen
    <3>6. QED BY <1>2, <3>3, <3>4, <3>5
  <2> HIDE DEF k, l
  <2>2. QED BY <1>2, <2>1
<1>5. m \in Messages /\ old[1] = e
  <2>1. k + 1 \in 1 .. l /\ 1 \in 1 .. l - k
    BY <1>2, <1>4
  <2>2. QED BY <1>2, <1>3, <2>1, ElementOfSeq
<1>6. /\ new \in Seq(Seq(Byte)) /\ Len(new) = l - (k + 1)
      /\ \A i \in 1 .. l - (k + 1) : new[i] = Encode(sent[k + 1 + i])
  <2>1. k + 1 \in 0 .. l
    BY <1>2, <1>4
  <2>2. QED BY <1>2, <2>1, PendingFacts
<1> HIDE DEF q, r, old, new, m, e, k, l
<1>7. e \in Seq(Byte) /\ Len(e) \in Nat /\ Len(e) >= 3
  <2>1. /\ e \in Seq(Byte) /\ Len(m.payload) \in Nat
        /\ Len(e) = (IF Len(m.payload) <= MaxShortLen THEN 3 ELSE 4) + Len(m.payload)
    BY <1>5, EncodeFacts DEF e
  <2> DEFINE x == Len(m.payload)
             h == IF x <= MaxShortLen THEN 3 ELSE 4
  <2>2. h \in {3, 4}
    OBVIOUS
  <2>3. x \in Nat /\ Len(e) = h + x
    BY <2>1
  <2> HIDE DEF x, h
  <2>4. Len(e) \in Nat /\ Len(e) >= 3
    BY <2>2, <2>3
  <2>5. QED BY <2>1, <2>4
<1>8. q \o wire = e \o FlattenSeq(new) /\ FlattenSeq(new) \in Seq(Byte)
  <2>1. old # <<>>
    <3>1. Len(old) # 0
      BY <1>2, <1>3, <1>4
    <3>2. QED BY <3>1, EmptySeq
  <2>2. Len(old) = Len(new) + 1 /\ Len(new) = l - (k + 1)
    BY <1>2, <1>3, <1>6
  <2>3. \A i \in 1 .. Len(new) : new[i] = old[i + 1]
    <3> SUFFICES ASSUME NEW i \in 1 .. l - (k + 1) PROVE new[i] = old[i + 1]
      BY <2>2
    <3>1. i + 1 \in 1 .. l - k /\ k + (i + 1) = k + 1 + i
      <4>1. l \in Nat /\ k \in Nat
        BY <1>2, <1>4
      <4>2. QED BY <4>1
    <3>2. QED BY <1>3, <1>6, <3>1
  <2>4. FlattenSeq(old) = old[1] \o FlattenSeq(new)
    BY <1>3, <1>6, <2>1, <2>2, <2>3, FlattenFirst
  <2>5. FlattenSeq(new) \in Seq(Byte)
    BY <1>6, FlattenIsSeq
  <2>6. QED BY <1>2, <1>5, <2>4, <2>5
<1>9. /\ HeadLen(buf) = IF Len(m.payload) <= MaxShortLen THEN 3 ELSE 4
      /\ FieldLen(buf) = HeadLen(buf) - 1 /\ PayloadLen(buf) = Len(m.payload)
      /\ n = Len(e)
  BY <1>1, <1>2, <1>5, <1>8, HeaderFacts DEF q, e, r
<1> DEFINE j == Len(e)
<1>10. n = j /\ j \in Nat /\ j >= 3 /\ j <= r /\ FieldLen(buf) \in 1 .. r
  <2>1. FieldLen(buf) \in {2, 3}
    BY <1>9
  <2>2. n = j /\ j \in Nat /\ j >= 3 /\ r >= n /\ r \in Nat
    BY <1>1, <1>2, <1>7, <1>9
  <2> HIDE DEF n, j
  <2>3. QED BY <2>1, <2>2
<1> HIDE DEF n, j
<1>11. /\ SubSeq(q, 1, j) = e
       /\ SubSeq(q, j + 1, r) \o wire = FlattenSeq(new)
  <2>1. Len(e) <= Len(q)
    BY <1>2, <1>10 DEF j
  <2>2. SubSeq(q, 1, Len(e)) = e /\ SubSeq(q, Len(e) + 1, Len(q)) \o wire = FlattenSeq(new)
    BY <1>2, <1>7, <1>8, <2>1, WithoutFirst
  <2>3. QED BY <1>2, <2>2 DEF j
<1>12. /\ Shaped(b) /\ b.capacity = buf.capacity /\ ReadableLen(b) = r /\ Contents(b) = q
  BY <1>2, <1>10, LookAheadGoesBack DEF b, q, r
<1>13. j \in 1 .. r
  BY <1>2, <1>10
<1>14. t = MoveForward(b, j)
  BY <1>10 DEF t, GetBytes
<1>15. /\ Shaped(t) /\ ~Stuck(t) /\ t.capacity = b.capacity
       /\ Contents(t) = SubSeq(q, j + 1, r)
  BY <1>12, <1>13, <1>14, ReadTakesFirst
<1>16. Decode(b) = m
  <2>1. /\ HeadLen(b) = IF Len(m.payload) <= MaxShortLen THEN 3 ELSE 4
        /\ PayloadLen(b) = Len(m.payload) /\ HeadLen(b) + PayloadLen(b) = j
    BY <1>1, <1>2, <1>5, <1>8, <1>12, HeaderFacts DEF e, j
  <2>2. j \in 0 .. ReadableLen(b)
    BY <1>2, <1>12, <1>13
  <2>3. NextBytes(b, j) = e
    BY <1>11, <1>12, <2>2, NextBytesAreFirst
  <2>4. QED BY <1>5, <2>1, <2>3, DecodeFacts DEF e
<1>17. /\ got' \in Seq(Messages) /\ Len(got') = k + 1
       /\ \A i \in 1 .. k : got'[i] = got[i]
       /\ got'[k + 1] = m
  BY <1>1, <1>2, <1>5, <1>16, AppendProperties DEF k
<1>18. IsPrefix(got', sent)
  <2>1. Len(got') <= Len(sent)
    BY <1>2, <1>4, <1>17 DEF l
  <2>2. ASSUME NEW i \in 1 .. k + 1 PROVE got'[i] = sent[i]
    <3>1. CASE i = k + 1
      BY <1>17, <3>1 DEF m
    <3>2. CASE i # k + 1
      <4>1. i \in 1 .. k
        BY <1>2, <3>2
      <4>2. QED BY <1>2, <1>17, <4>1
    <3>3. QED BY <3>1, <3>2
  <2>3. QED BY <1>2, <1>17, <2>1, <2>2, PrefixFacts
<1>19. Contents(buf') \o wire' = FlattenSeq(Pending(sent', Len(got')))
  <2>1. Contents(t) \o wire = FlattenSeq(new)
    BY <1>11, <1>15
  <2>2. QED BY <1>1, <1>17, <2>1 DEF new
<1>20. StreamIntact'
  BY <1>1, <1>18, <1>19 DEF StreamIntact, Pending
<1>21. Good(buf)'
  BY <1>1, <1>2, <1>12, <1>15 DEF Good
<1>22. QED BY <1>1, <1>2, <1>17, <1>20, <1>21 DEF Whole, FramingTyped

LEMMA FramingStep ==
  ASSUME FramingConstants, FramingInv, [Next]_vars
  PROVE  FramingInv'
<1>1. CASE cutOff
  <2>1. cutOff'
    BY <1>1 DEF Next, vars, SendMessage, Arrive, ReadMessage, ReadTooShort, ReadCutOff, ReadWhole
  <2>2. QED BY <2>1 DEF FramingInv
<1>2. CASE Whole
  <2>1. CASE SendMessage  BY <1>2, <2>1, SendStep DEF FramingInv
  <2>2. CASE Arrive       BY <1>2, <2>2, ArriveStep DEF FramingInv
  <2>3. CASE ReadTooShort BY <1>2, <2>3, TooShortStep DEF FramingInv
  <2>4. CASE ReadCutOff   BY <2>4 DEF ReadCutOff, FramingInv
  <2>5. CASE ReadWhole    BY <1>2, <2>5, WholeStep DEF FramingInv
  <2>6. CASE UNCHANGED vars
    BY <1>2, <2>6 DEF vars, FramingInv, Whole, FramingTyped, Good, StreamIntact
  <2>7. QED BY <2>1, <2>2, <2>3, <2>4, <2>5, <2>6 DEF Next, ReadMessage
<1>3. QED BY <1>1, <1>2 DEF FramingInv

LEMMA FramingStart ==
  ASSUME FramingConstants, Init
  PROVE  FramingInv
<1>1. /\ sent = <<>> /\ wire = <<>> /\ got = <<>> /\ buf = Create(StartCap)
      /\ StartCap \in 0 .. MaxCap /\ StartCap >= MaxRead
  BY RingBufferAssumption DEF Init, FramingConstants
<1>2. Sound(buf) /\ ~Stuck(buf) /\ buf.capacity = StartCap /\ Contents(buf) = <<>>
  BY <1>1, CreateIsSound
<1>3. FramingTyped /\ Len(sent) = 0 /\ Len(got) = 0
  BY <1>1, EmptySeq DEF FramingTyped
<1>4. Len(Pending(sent, 0)) = 0 /\ Pending(sent, 0) = <<>>
  <2>1. 0 \in 0 .. Len(sent)
    BY <1>3
  <2>2. Pending(sent, 0) \in Seq(Seq(Byte)) /\ Len(Pending(sent, 0)) = Len(sent) - 0
    BY <1>3, <2>1, PendingFacts DEF FramingTyped
  <2>3. Len(Pending(sent, 0)) = 0
    BY <1>3, <2>2
  <2>4. QED BY <2>2, <2>3, EmptySeq
<1>5. Contents(buf) \o wire = FlattenSeq(Pending(sent, Len(got)))
  BY <1>1, <1>2, <1>3, <1>4, FlattenEmpty, ConcatEmptySeq, EmptySeq
<1>6. IsPrefix(got, sent)
  <2>1. Len(got) <= Len(sent) /\ \A i \in 1 .. Len(got) : got[i] = sent[i]
    BY <1>3
  <2>2. QED BY <1>3, <2>1, PrefixFacts DEF FramingTyped
<1>7. QED BY <1>1, <1>2, <1>3, <1>5, <1>6
          DEF FramingInv, Whole, Good, Sound, StreamIntact, Pending

\* For every alphabet, payloads, widths of the length and ways in which the
\* network splits the stream: until jm_msg_readMessage has taken the header of
\* a message whose payload is not all there (it then returns NULL without
\* going back to its mark), it returns the messages that were sent, in their
\* order, and the buffer and the wire hold exactly the bytes of the others.
THEOREM NothingLostUntilCutOff ==
  ASSUME FramingConstants
  PROVE  Spec => []IntactUntilCutOff
<1>1. Init => FramingInv
  BY FramingStart
<1>2. FramingInv /\ [Next]_vars => FramingInv'
  BY FramingStep
<1>3. FramingInv => IntactUntilCutOff
  BY DEF FramingInv, Whole, IntactUntilCutOff
<1>4. QED BY <1>1, <1>2, <1>3, PTL DEF Spec
=============================================================================
