-------------------------- MODULE EventQueueProofs --------------------------
(***************************************************************************)
(* Theorems about EventQueue, for every size of the ring, every set of     *)
(* event types and every heap, and the refinement: the ring implements the *)
(* bounded first-in first-out queue of BoundedFifo.                        *)
(***************************************************************************)
EXTENDS EventQueue, SequenceTheorems, TLAPS

LEMMA SuccValue ==
  ASSUME NEW i \in Slots
  PROVE  /\ Succ(i) \in Slots
         /\ Succ(i) = IF i = TASK_QUEUE_SIZE - 1 THEN 0 ELSE i + 1
<1>1. CASE i = TASK_QUEUE_SIZE - 1
  BY <1>1, EventQueueAssumption DEF Succ, Slots
<1>2. CASE i # TASK_QUEUE_SIZE - 1
  BY <1>2, EventQueueAssumption DEF Succ, Slots
<1>3. QED BY <1>1, <1>2

-----------------------------------------------------------------------------
(* An accepted or refused post keeps the ring, the history and the heap    *)
(* well typed (user_postEvent).                                            *)
LEMMA PostEventTyped ==
  ASSUME TypeOK, NEW e \in Events, PostEvent(e)
  PROVE  /\ taskQueue' \in [Slots -> Events]
         /\ taskHeaderIdx' \in Slots
         /\ taskTailIdx' \in Slots
         /\ taskEmpty' \in BOOLEAN
         /\ popped' \in Events
         /\ clobbered' \in BOOLEAN
         /\ lost' \subseteq Blocks
<1>1. Succ(taskTailIdx) \in Slots
  BY SuccValue DEF TypeOK
<1>2. {e.data} \ {NoData} \subseteq Blocks
  BY DEF Events
<1>3. CASE Full
  BY <1>2, <1>3 DEF PostEvent, TypeOK
<1>4. CASE ~Full
  BY <1>1, <1>4 DEF PostEvent, TypeOK
<1>5. QED BY <1>3, <1>4

\* Whatever is posted, with its data or without, is an event.
LEMMA PostIsPostEvent ==
  ASSUME NEW t \in Types \cup {CHECKER}, TypeOK,
         PostWithData(t) \/ PostWithoutData(t)
  PROVE  /\ heap' \subseteq Blocks
         /\ \E e \in Events : PostEvent(e)
<1>1. CASE PostWithData(t)
  <2>1. PICK b \in Blocks \ heap :
          heap' = heap \cup {b} /\ PostEvent([type |-> t, data |-> b])
    BY <1>1 DEF PostWithData
  <2>2. [type |-> t, data |-> b] \in Events
    BY DEF Events
  <2>3. QED BY <2>1, <2>2 DEF TypeOK
<1>2. CASE PostWithoutData(t)
  <2>1. [type |-> t, data |-> NoData] \in Events
    BY DEF Events
  <2>2. QED BY <1>2, <2>1 DEF TypeOK, PostWithoutData
<1>3. QED BY <1>1, <1>2

LEMMA InitTyped == Init => TypeOK
<1> SUFFICES ASSUME Init PROVE TypeOK
  OBVIOUS
<1>1. 0 \in Slots
  BY EventQueueAssumption DEF Slots
<1>2. ZeroEvent \in Events
  BY DEF ZeroEvent, Events
<1>3. 0 \in 0 .. SECOND - 1 /\ 0 \in 0 .. MaxPosts
  BY EventQueueAssumption
<1>4. QED BY <1>1, <1>2, <1>3 DEF Init, TypeOK

LEMMA NextTyped == TypeOK /\ [Next]_vars => TypeOK'
<1> SUFFICES ASSUME TypeOK, [Next]_vars PROVE TypeOK'
  OBVIOUS
<1>1. CASE AppPost
  <2>1. PICK t \in Types : Post(t)
    BY <1>1 DEF AppPost
  <2>2. /\ heap' \subseteq Blocks
        /\ \E e \in Events : PostEvent(e)
    BY <2>1, PostIsPostEvent DEF Post
  <2>3. QED BY <1>1, <2>2, PostEventTyped DEF AppPost, TypeOK
<1>2. CASE HandlerPost
  <2>1. PICK t \in Types : Post(t)
    BY <1>2 DEF HandlerPost
  <2>2. /\ heap' \subseteq Blocks
        /\ \E e \in Events : PostEvent(e)
    BY <2>1, PostIsPostEvent DEF Post
  <2>3. posts' \in 0 .. MaxPosts
    BY <1>2, EventQueueAssumption DEF HandlerPost, TypeOK
  <2>4. QED BY <1>2, <2>2, <2>3, PostEventTyped DEF HandlerPost, TypeOK
<1>3. CASE ElseMs
  <2>1. msEque' \in 0 .. SECOND - 1
    BY <1>3, EventQueueAssumption DEF ElseMs, TypeOK
  <2>2. CASE OnSecond(msEque, msEque')
    <3>1. PostWithoutData(CHECKER)
      BY <1>3, <2>2 DEF ElseMs
    <3>2. /\ heap' \subseteq Blocks
          /\ \E e \in Events : PostEvent(e)
      BY <3>1, PostIsPostEvent
    <3>3. QED BY <1>3, <2>1, <3>2, PostEventTyped DEF ElseMs, TypeOK
  <2>3. CASE ~OnSecond(msEque, msEque')
    BY <1>3, <2>1, <2>3 DEF ElseMs, TypeOK, ring, ghost
  <2>4. QED BY <2>2, <2>3
<1>4. CASE PopEvent
  <2>1. Succ(taskHeaderIdx) \in Slots
    BY SuccValue DEF TypeOK
  <2>2. taskQueue[taskHeaderIdx] \in Events /\ 0 \in 0 .. MaxPosts
    BY EventQueueAssumption DEF TypeOK
  <2>3. QED BY <1>4, <2>1, <2>2 DEF PopEvent, TypeOK
<1>5. CASE FinishEvent
  BY <1>5 DEF FinishEvent, TypeOK, ring, ghost
<1>6. CASE UNCHANGED vars
  BY <1>6 DEF vars, TypeOK
<1>7. QED BY <1>1, <1>2, <1>3, <1>4, <1>5, <1>6 DEF Next

(* The ring, the handler and the heap keep their types (jm_runner.c).      *)
THEOREM TypeCorrect == Spec => []TypeOK
BY InitTyped, NextTyped, PTL DEF Spec
-----------------------------------------------------------------------------
(* The slot being handled is the one just before the head of the ring, and *)
(* it still holds the event that was popped unless the ring is full.       *)
HandledInv ==
  jevent # Idle => /\ jevent \in Slots
                   /\ Succ(jevent) = taskHeaderIdx
                   /\ ~Full => taskQueue[jevent] = popped

\* A post by a handler reaches the slot being handled only by filling the ring.
LEMMA PostEventHandled ==
  ASSUME TypeOK, HandledInv, NEW e \in Events, PostEvent(e), jevent' = jevent
  PROVE  HandledInv'
<1>1. CASE Full
  BY <1>1 DEF PostEvent, HandledInv, Full, Succ
<1>2. CASE ~Full
  <2> SUFFICES ASSUME jevent # Idle PROVE HandledInv'
    BY DEF HandledInv
  <2>1. /\ jevent \in Slots
        /\ Succ(jevent) = taskHeaderIdx
        /\ taskQueue[jevent] = popped
    BY <1>2 DEF HandledInv
  <2>2. /\ taskQueue' = [taskQueue EXCEPT ![taskTailIdx] = e]
        /\ taskTailIdx' = Succ(taskTailIdx)
        /\ taskEmpty' = (taskEmpty /\ taskHeaderIdx # Succ(taskTailIdx))
        /\ UNCHANGED <<taskHeaderIdx, popped>>
    BY <1>2 DEF PostEvent
  <2>3. Succ(jevent)' = taskHeaderIdx'
    BY <2>1, <2>2 DEF Succ
  <2>4. CASE taskTailIdx = jevent
    <3>1. taskTailIdx' = taskHeaderIdx' /\ ~taskEmpty'
      BY <2>1, <2>2, <2>4
    <3>2. QED BY <2>1, <2>3, <3>1 DEF HandledInv, Full
  <2>5. CASE taskTailIdx # jevent
    <3>1. taskQueue'[jevent] = taskQueue[jevent]
      BY <2>1, <2>2, <2>5 DEF TypeOK
    <3>2. QED BY <2>1, <2>2, <2>3, <3>1 DEF HandledInv
  <2>6. QED BY <2>4, <2>5
<1>3. QED BY <1>1, <1>2

LEMMA NextHandled == TypeOK /\ HandledInv /\ [Next]_vars => HandledInv'
<1> SUFFICES ASSUME TypeOK, HandledInv, [Next]_vars PROVE HandledInv'
  OBVIOUS
<1>1. CASE AppPost
  BY <1>1 DEF AppPost, HandledInv
<1>2. CASE HandlerPost
  <2>1. PICK t \in Types : Post(t)
    BY <1>2 DEF HandlerPost
  <2>2. PICK e \in Events : PostEvent(e)
    BY <2>1, PostIsPostEvent DEF Post
  <2>3. QED BY <1>2, <2>2, PostEventHandled DEF HandlerPost
<1>3. CASE ElseMs
  BY <1>3 DEF ElseMs, HandledInv
<1>4. CASE PopEvent
  BY <1>4 DEF PopEvent, HandledInv, TypeOK, Succ
<1>5. CASE FinishEvent
  BY <1>5 DEF FinishEvent, HandledInv
<1>6. CASE UNCHANGED vars
  BY <1>6 DEF vars, HandledInv, Full, Succ
<1>7. QED BY <1>1, <1>2, <1>3, <1>4, <1>5, <1>6 DEF Next

LEMMA HandledInvariant == Spec => []HandledInv
<1>1. Init => HandledInv
  BY DEF Init, HandledInv
<1>2. QED BY <1>1, TypeCorrect, NextHandled, PTL DEF Spec

(* A handler's event is not changed under it while the ring is not full.   *)
THEOREM HandledIntact == Spec => []HandledIntactUnlessFull
<1>1. HandledInv => HandledIntactUnlessFull
  BY DEF HandledInv, HandledIntactUnlessFull
<1>2. QED BY <1>1, HandledInvariant, PTL
-----------------------------------------------------------------------------
(* Which slots hold an event that waits, in terms of the two indices.      *)
Held(s) ==
  \/ Full
  \/ taskHeaderIdx < taskTailIdx /\ taskHeaderIdx <= s /\ s < taskTailIdx
  \/ taskTailIdx < taskHeaderIdx /\ (taskHeaderIdx <= s \/ s < taskTailIdx)

LEMMA InQueueIsHeld == TypeOK => \A s \in Slots : InQueue(s) <=> Held(s)
<1> SUFFICES ASSUME TypeOK, NEW s \in Slots PROVE InQueue(s) <=> Held(s)
  OBVIOUS
<1> USE EventQueueAssumption DEF TypeOK, Slots
<1>1. Count \in 0 .. TASK_QUEUE_SIZE
  BY DEF Count
<1>2. InQueue(s) => Held(s)
  BY <1>1 DEF InQueue, SlotOf, Count, Held, Full
<1>3. ASSUME Held(s) PROVE InQueue(s)
  <2>1. CASE taskHeaderIdx <= s
    <3>1. s - taskHeaderIdx \in 0 .. Count - 1
      BY <1>3, <2>1 DEF Held, Full, Count
    <3>2. SlotOf(s - taskHeaderIdx) = s
      BY <2>1 DEF SlotOf
    <3>3. QED BY <3>1, <3>2 DEF InQueue
  <2>2. CASE s < taskHeaderIdx
    <3> DEFINE k == s - taskHeaderIdx + TASK_QUEUE_SIZE
    <3>1. k \in 0 .. Count - 1
      BY <1>3, <2>2 DEF Held, Full, Count
    <3>2. SlotOf(k) = s
      BY <2>2 DEF SlotOf
    <3>3. QED BY <3>1, <3>2 DEF InQueue
  <2>3. QED BY <2>1, <2>2
<1>4. QED BY <1>2, <1>3

\* A post that is not refused adds the tail slot, which no event held.
LEMMA PostAddsTail ==
  ASSUME TypeOK, TypeOK', NEW e \in Events, PostEvent(e), ~Full
  PROVE  /\ ~InQueue(taskTailIdx)
         /\ \A s \in Slots : InQueue(s)' <=> InQueue(s) \/ s = taskTailIdx
<1>1. /\ taskHeaderIdx' = taskHeaderIdx
      /\ taskTailIdx' = IF taskTailIdx = TASK_QUEUE_SIZE - 1 THEN 0 ELSE taskTailIdx + 1
      /\ taskEmpty' = (taskEmpty /\ taskHeaderIdx # taskTailIdx')
  BY SuccValue DEF PostEvent, TypeOK
<1>2. ~Held(taskTailIdx)
  BY EventQueueAssumption DEF Held, Full, TypeOK, Slots
<1>a. Full' <=> taskTailIdx' = taskHeaderIdx
  BY <1>1 DEF Full
<1>b. /\ taskHeaderIdx \in Slots /\ taskTailIdx \in Slots
      /\ ~Full
  BY DEF TypeOK
<1>3. ASSUME NEW s \in Slots
      PROVE  Held(s)' <=> Held(s) \/ s = taskTailIdx
  <2>1. CASE taskTailIdx = taskHeaderIdx
    BY <1>1, <1>a, <1>b, <2>1, EventQueueAssumption DEF Held, Slots
  <2>2. CASE taskTailIdx < taskHeaderIdx
    BY <1>1, <1>a, <1>b, <2>2, EventQueueAssumption DEF Held, Slots
  <2>3. CASE taskHeaderIdx < taskTailIdx
    BY <1>1, <1>a, <1>b, <2>3, EventQueueAssumption DEF Held, Slots
  <2>4. QED BY <1>b, <2>1, <2>2, <2>3, EventQueueAssumption DEF Slots
<1>4. (TypeOK => \A s \in Slots : InQueue(s) <=> Held(s))'
  BY InQueueIsHeld, PTL
<1>5. \A s \in Slots : InQueue(s)' <=> Held(s)'
  BY <1>4 DEF Slots
<1>6. QED BY <1>2, <1>3, <1>5, InQueueIsHeld DEF TypeOK

\* A pop removes the head slot, and only that one.
LEMMA PopRemovesHead ==
  ASSUME TypeOK, TypeOK', PopEvent
  PROVE  /\ InQueue(taskHeaderIdx)
         /\ \A s \in Slots : InQueue(s)' <=> InQueue(s) /\ s # taskHeaderIdx
<1>1. /\ taskTailIdx' = taskTailIdx
      /\ taskHeaderIdx' = IF taskHeaderIdx = TASK_QUEUE_SIZE - 1 THEN 0 ELSE taskHeaderIdx + 1
      /\ taskEmpty' = (taskEmpty \/ taskHeaderIdx' = taskTailIdx)
      /\ ~Empty
  BY SuccValue DEF PopEvent, TypeOK
<1>2. Held(taskHeaderIdx)
  BY <1>1, EventQueueAssumption DEF Held, Full, Empty, TypeOK, Slots
<1>a. ~Full'
  BY <1>1 DEF Full
<1>b. /\ taskHeaderIdx \in Slots /\ taskTailIdx \in Slots
      /\ Full <=> taskHeaderIdx = taskTailIdx
  BY <1>1 DEF TypeOK, Full, Empty
<1>3. ASSUME NEW s \in Slots
      PROVE  Held(s)' <=> Held(s) /\ s # taskHeaderIdx
  <2>1. CASE taskTailIdx = taskHeaderIdx
    BY <1>1, <1>a, <1>b, <2>1, EventQueueAssumption DEF Held, Slots
  <2>2. CASE taskTailIdx < taskHeaderIdx
    BY <1>1, <1>a, <1>b, <2>2, EventQueueAssumption DEF Held, Slots
  <2>3. CASE taskHeaderIdx < taskTailIdx
    BY <1>1, <1>a, <1>b, <2>3, EventQueueAssumption DEF Held, Slots
  <2>4. QED BY <1>b, <2>1, <2>2, <2>3, EventQueueAssumption DEF Slots
<1>4. (TypeOK => \A s \in Slots : InQueue(s) <=> Held(s))'
  BY InQueueIsHeld, PTL
<1>5. \A s \in Slots : InQueue(s)' <=> Held(s)'
  BY <1>4 DEF Slots
<1>6. QED BY <1>2, <1>3, <1>5, InQueueIsHeld DEF TypeOK

\* Steps that leave the ring alone leave the waiting events alone.
LEMMA RingUnchanged ==
  ASSUME UNCHANGED ring
  PROVE  \A s \in Slots : InQueue(s)' <=> InQueue(s)
BY DEF ring, InQueue, SlotOf, Count
-----------------------------------------------------------------------------
(* SoleOwner is inductive once it is known that a slot that was not        *)
(* overwritten is not at the same time waiting and being handled.          *)
OwnerInv ==
  /\ SoleOwner
  /\ ~clobbered /\ jevent # Idle => ~InQueue(jevent)

\* A post gives its block to the slot it fills, or loses it.
LEMMA PostEventOwners ==
  ASSUME TypeOK, TypeOK', OwnerInv, NEW e \in Events, PostEvent(e),
         e.data \notin heap,
         heap' = heap \cup ({e.data} \ {NoData}),
         jevent' = jevent
  PROVE  OwnerInv'
<1> DEFINE D == {e.data} \ {NoData}
<1> SUFFICES ASSUME ~clobbered'
             PROVE  OwnerInv'
  BY DEF OwnerInv, SoleOwner
<1>1. ~clobbered
  BY DEF PostEvent
<1>2. /\ \A s, r \in OwnedSlots : taskQueue[s].data = taskQueue[r].data => s = r
      /\ heap = Owned \cup lost
      /\ Owned \cap lost = {}
      /\ jevent # Idle => ~InQueue(jevent)
  BY <1>1 DEF OwnerInv, SoleOwner
<1>3. CASE Full
  <2>1. UNCHANGED ring /\ lost' = lost \cup D
    BY <1>3 DEF PostEvent, ring
  <2>2. \A s \in Slots : InQueue(s)' <=> InQueue(s)
    BY <2>1, RingUnchanged
  <2>3. taskQueue' = taskQueue
    BY <2>1 DEF ring
  <2>4. OwnedSlots' = OwnedSlots
    BY <2>2, <2>3 DEF OwnedSlots, Slots
  <2>5. Owned' = Owned
    BY <2>3, <2>4 DEF Owned
  <2>6. SoleOwner'
    BY <1>2, <2>1, <2>3, <2>4, <2>5 DEF SoleOwner
  <2>7. jevent' # Idle => ~InQueue(jevent)'
    <3>1. InQueue(jevent)' <=> InQueue(jevent)
      BY <2>1 DEF ring, InQueue, SlotOf, Count
    <3>2. QED BY <1>2, <3>1
  <2>8. QED BY <2>6, <2>7 DEF OwnerInv
<1>4. CASE ~Full
  <2>1. /\ taskQueue' = [taskQueue EXCEPT ![taskTailIdx] = e]
        /\ lost' = lost
        /\ taskTailIdx # jevent
    BY <1>4 DEF PostEvent
  <2>2. /\ ~InQueue(taskTailIdx)
        /\ \A s \in Slots : InQueue(s)' <=> InQueue(s) \/ s = taskTailIdx
    BY <1>4, PostAddsTail
  <2>3. /\ taskTailIdx \in Slots
        /\ taskQueue'[taskTailIdx] = e
        /\ \A s \in Slots \ {taskTailIdx} : taskQueue'[s] = taskQueue[s]
    BY <2>1 DEF TypeOK
  <2>4. taskTailIdx \notin OwnedSlots
    BY <2>1, <2>2 DEF OwnedSlots
  <2>5. OwnedSlots' = IF e.data = NoData THEN OwnedSlots ELSE OwnedSlots \cup {taskTailIdx}
    <3>1. ASSUME NEW s \in Slots \ {taskTailIdx}
          PROVE  s \in OwnedSlots' <=> s \in OwnedSlots
      BY <2>2, <2>3 DEF OwnedSlots, Slots
    <3>2. taskTailIdx \in OwnedSlots' <=> e.data # NoData
      BY <2>2, <2>3 DEF OwnedSlots, Slots
    <3>3. OwnedSlots \subseteq Slots /\ OwnedSlots' \subseteq Slots
      BY DEF OwnedSlots, Slots
    <3>4. QED BY <2>3, <2>4, <3>1, <3>2, <3>3
  <2>6. \A s \in OwnedSlots : s \in Slots \ {taskTailIdx} /\ taskQueue'[s] = taskQueue[s]
    BY <2>3, <2>4 DEF OwnedSlots
  <2>7. Owned' = Owned \cup D
    <3>1. Owned' = {taskQueue'[s].data : s \in OwnedSlots'}
      BY DEF Owned
    <3>2. CASE e.data = NoData
      BY <2>5, <2>6, <3>1, <3>2 DEF Owned
    <3>3. CASE e.data # NoData
      <4>1. OwnedSlots' = OwnedSlots \cup {taskTailIdx}
        BY <2>5, <3>3
      <4>2. Owned' = {taskQueue'[s].data : s \in OwnedSlots} \cup {taskQueue'[taskTailIdx].data}
        BY <3>1, <4>1
      <4>3. {taskQueue'[s].data : s \in OwnedSlots} = Owned
        BY <2>6 DEF Owned
      <4>4. QED BY <2>3, <3>3, <4>2, <4>3
    <3>4. QED BY <3>2, <3>3
  <2>8. \A s \in OwnedSlots : taskQueue[s].data \in heap
    BY <1>2 DEF Owned
  <2>9. \A s, r \in OwnedSlots' : taskQueue'[s].data = taskQueue'[r].data => s = r
    BY <1>2, <2>3, <2>5, <2>6, <2>8
  <2>10. heap' = Owned' \cup lost' /\ Owned' \cap lost' = {}
    BY <1>2, <2>1, <2>7
  <2>11. SoleOwner'
    BY <2>9, <2>10 DEF SoleOwner
  <2>12. jevent' # Idle => ~InQueue(jevent)'
    <3> SUFFICES ASSUME jevent # Idle PROVE ~InQueue(jevent)'
      OBVIOUS
    <3>1. jevent \in Slots
      BY DEF TypeOK
    <3>2. QED BY <1>2, <2>1, <2>2, <3>1
  <2>13. QED BY <2>11, <2>12 DEF OwnerInv
<1>5. QED BY <1>3, <1>4

\* What a poster does is a post of a fresh block or of no block.
LEMMA PostIsFresh ==
  ASSUME NEW t \in Types \cup {CHECKER}, TypeOK,
         PostWithData(t) \/ PostWithoutData(t)
  PROVE  \E e \in Events : /\ PostEvent(e)
                           /\ e.data \notin heap
                           /\ heap' = heap \cup ({e.data} \ {NoData})
<1>1. CASE PostWithData(t)
  <2>1. PICK b \in Blocks \ heap :
          heap' = heap \cup {b} /\ PostEvent([type |-> t, data |-> b])
    BY <1>1 DEF PostWithData
  <2>2. [type |-> t, data |-> b] \in Events /\ b # NoData
    BY EventQueueAssumption DEF Events
  <2>3. QED BY <2>1, <2>2
<1>2. CASE PostWithoutData(t)
  <2>1. [type |-> t, data |-> NoData] \in Events /\ NoData \notin heap
    BY EventQueueAssumption DEF Events, TypeOK
  <2>2. QED BY <1>2, <2>1 DEF PostWithoutData
<1>3. QED BY <1>1, <1>2

LEMMA NextOwners == TypeOK /\ TypeOK' /\ HandledInv /\ OwnerInv /\ [Next]_vars => OwnerInv'
<1> SUFFICES ASSUME TypeOK, TypeOK', HandledInv, OwnerInv, [Next]_vars PROVE OwnerInv'
  OBVIOUS
<1>1. CASE AppPost
  <2>1. PICK t \in Types : Post(t)
    BY <1>1 DEF AppPost
  <2>2. PICK e \in Events : /\ PostEvent(e)
                            /\ e.data \notin heap
                            /\ heap' = heap \cup ({e.data} \ {NoData})
    BY <2>1, PostIsFresh DEF Post
  <2>3. QED BY <1>1, <2>2, PostEventOwners DEF AppPost
<1>2. CASE HandlerPost
  <2>1. PICK t \in Types : Post(t)
    BY <1>2 DEF HandlerPost
  <2>2. PICK e \in Events : /\ PostEvent(e)
                            /\ e.data \notin heap
                            /\ heap' = heap \cup ({e.data} \ {NoData})
    BY <2>1, PostIsFresh DEF Post
  <2>3. QED BY <1>2, <2>2, PostEventOwners DEF HandlerPost
<1>3. CASE ElseMs
  <2>1. CASE OnSecond(msEque, msEque')
    <3>1. PostWithoutData(CHECKER)
      BY <1>3, <2>1 DEF ElseMs
    <3>2. PICK e \in Events : /\ PostEvent(e)
                              /\ e.data \notin heap
                              /\ heap' = heap \cup ({e.data} \ {NoData})
      BY <3>1, PostIsFresh
    <3>3. QED BY <1>3, <3>2, PostEventOwners DEF ElseMs
  <2>2. CASE ~OnSecond(msEque, msEque')
    <3>1. UNCHANGED <<ring, ghost, heap>> /\ jevent' = jevent
      BY <1>3, <2>2 DEF ElseMs
    <3>2. QED BY <3>1 DEF ring, ghost, OwnerInv, SoleOwner, Owned, OwnedSlots,
                          InQueue, SlotOf, Count
  <2>3. QED BY <2>1, <2>2
<1>4. CASE PopEvent
  <2>1. /\ jevent = Idle
        /\ jevent' = taskHeaderIdx
        /\ UNCHANGED <<taskQueue, heap, lost, clobbered>>
    BY <1>4 DEF PopEvent
  <2>2. /\ InQueue(taskHeaderIdx)
        /\ \A s \in Slots : InQueue(s)' <=> InQueue(s) /\ s # taskHeaderIdx
    BY <1>4, PopRemovesHead
  <2>3. taskHeaderIdx \in Slots /\ Idle \notin Slots
    BY EventQueueAssumption DEF TypeOK, Slots
  <2>4. ASSUME NEW s \in Slots
        PROVE  (InQueue(s) \/ s = jevent)' <=> InQueue(s) \/ s = jevent
    BY <2>1, <2>2, <2>3
  <2>5. OwnedSlots' = OwnedSlots
    BY <2>1, <2>4 DEF OwnedSlots, Slots
  <2>6. Owned' = Owned
    BY <2>1, <2>5 DEF Owned
  <2>7. SoleOwner'
    BY <2>1, <2>5, <2>6 DEF OwnerInv, SoleOwner
  <2>8. \A s \in Slots : s = jevent' => ~InQueue(s)'
    BY <2>1, <2>2
  <2>9. ~InQueue(jevent)'
    BY <2>1, <2>3, <2>8 DEF InQueue
  <2>10. QED BY <2>7, <2>9 DEF OwnerInv
<1>5. CASE FinishEvent
  <2>1. /\ jevent # Idle
        /\ jevent' = Idle
        /\ heap' = heap \ {taskQueue[jevent].data}
        /\ UNCHANGED <<ring, taskQueue, lost, clobbered>>
    BY <1>5 DEF FinishEvent, ring, ghost
  <2> SUFFICES ASSUME ~clobbered PROVE SoleOwner'
    BY <2>1 DEF OwnerInv, SoleOwner
  <2>2. /\ \A s, r \in OwnedSlots : taskQueue[s].data = taskQueue[r].data => s = r
        /\ heap = Owned \cup lost
        /\ Owned \cap lost = {}
        /\ ~InQueue(jevent)
    BY <2>1 DEF OwnerInv, SoleOwner
  <2>3. jevent \in Slots /\ Idle \notin Slots
    BY <2>1, EventQueueAssumption DEF TypeOK, Slots
  <2>4. \A s \in Slots : InQueue(s)' <=> InQueue(s)
    BY <2>1, RingUnchanged
  <2>5. OwnedSlots' = OwnedSlots \ {jevent}
    <3>1. ASSUME NEW s \in Slots
          PROVE  s \in OwnedSlots' <=> s \in OwnedSlots \ {jevent}
      BY <2>1, <2>2, <2>3, <2>4 DEF OwnedSlots, Slots
    <3>2. QED BY <3>1 DEF OwnedSlots, Slots
  <2>6. \A s, r \in OwnedSlots' : taskQueue'[s].data = taskQueue'[r].data => s = r
    BY <2>1, <2>2, <2>5
  <2>7. CASE taskQueue[jevent].data = NoData
    <3>1. jevent \notin OwnedSlots
      BY <2>7 DEF OwnedSlots
    <3>2. OwnedSlots' = OwnedSlots /\ Owned' = Owned
      BY <2>1, <2>5, <3>1 DEF Owned
    <3>3. NoData \notin heap
      BY EventQueueAssumption DEF TypeOK
    <3>4. heap' = heap
      BY <2>1, <2>7, <3>3
    <3>5. QED BY <2>1, <2>2, <2>6, <3>2, <3>4 DEF SoleOwner
  <2>8. CASE taskQueue[jevent].data # NoData
    <3>1. jevent \in OwnedSlots
      BY <2>3, <2>8 DEF OwnedSlots
    <3>2. Owned' = Owned \ {taskQueue[jevent].data}
      BY <2>1, <2>2, <2>5, <3>1 DEF Owned
    <3>3. taskQueue[jevent].data \notin lost
      BY <2>2, <3>1 DEF Owned
    <3>4. heap' = Owned' \cup lost' /\ Owned' \cap lost' = {}
      BY <2>1, <2>2, <3>2, <3>3
    <3>5. QED BY <2>6, <3>4 DEF SoleOwner
  <2>9. QED BY <2>7, <2>8
<1>6. CASE UNCHANGED vars
  BY <1>6 DEF vars, OwnerInv, SoleOwner, Owned, OwnedSlots, InQueue, SlotOf, Count
<1>7. QED BY <1>1, <1>2, <1>3, <1>4, <1>5, <1>6 DEF Next

(* Every allocated block has one owner as long as no slot in use was       *)
(* overwritten: events never share a block, nothing is freed twice and     *)
(* only refused posts leak.                                                *)
THEOREM SoleOwnership == Spec => []SoleOwner
<1>1. Init => OwnerInv
  <2> SUFFICES ASSUME Init PROVE OwnerInv
    OBVIOUS
  <2>1. OwnedSlots = {}
    BY EventQueueAssumption DEF Init, OwnedSlots, Slots, ZeroEvent
  <2>2. Owned = {}
    BY <2>1 DEF Owned
  <2>3. QED BY <2>1, <2>2 DEF Init, OwnerInv, SoleOwner
<1>2. OwnerInv => SoleOwner
  BY DEF OwnerInv
<1>3. QED BY <1>1, <1>2, TypeCorrect, HandledInvariant, NextOwners, PTL DEF Spec
-----------------------------------------------------------------------------
\* The ring as a queue: the events that wait, read off the slots, are a
\* sequence to which a post appends and from which the loop takes the head.

\* The slots from the head on, as a sequence.
LEMMA WaitingIsSeq ==
  ASSUME TypeOK
  PROVE  /\ Count \in 0 .. TASK_QUEUE_SIZE
         /\ Waiting \in Seq(Events) /\ Len(Waiting) = Count
         /\ \A k \in 1 .. Count : Waiting[k] = taskQueue[SlotOf(k - 1)]
<1>1. Count \in 0 .. TASK_QUEUE_SIZE /\ Count \in Nat
  BY EventQueueAssumption DEF Count, TypeOK, Slots
<1>2. ASSUME NEW k \in 1 .. Count
      PROVE  SlotOf(k - 1) \in Slots
  BY <1>1, <1>2, EventQueueAssumption DEF SlotOf, TypeOK, Slots
<1>3. Waiting \in [1 .. Count -> Events]
  BY <1>2 DEF Waiting, TypeOK
<1>4. Waiting \in Seq(Events)
  BY <1>1, <1>3, SeqDef
<1>5. 1 .. Len(Waiting) = 1 .. Count /\ Len(Waiting) \in Nat
  BY <1>3, <1>4, LenProperties
<1>6. Len(Waiting) = Count
  BY <1>1, <1>5
<1>7. QED BY <1>1, <1>4, <1>6 DEF Waiting

\* The indices are equal when the ring is full and when it is empty.
LEMMA CountAtLimits ==
  ASSUME TypeOK
  PROVE  (Full <=> Count = TASK_QUEUE_SIZE) /\ (Empty <=> Count = 0)
BY EventQueueAssumption DEF TypeOK, Slots, Full, Empty, Count

\* A post that is not refused appends the event.
LEMMA PostAppends ==
  ASSUME TypeOK, TypeOK', NEW e \in Events, PostEvent(e), ~Full
  PROVE  Waiting' = Append(Waiting, e)
<1>1. /\ taskHeaderIdx' = taskHeaderIdx
      /\ taskTailIdx' = IF taskTailIdx = TASK_QUEUE_SIZE - 1 THEN 0 ELSE taskTailIdx + 1
      /\ taskEmpty' = (taskEmpty /\ taskHeaderIdx # taskTailIdx')
      /\ taskQueue' = [taskQueue EXCEPT ![taskTailIdx] = e]
  BY SuccValue DEF PostEvent, TypeOK
<1>2. Count' = Count + 1
  <2>1. /\ taskHeaderIdx \in Slots /\ taskTailIdx \in Slots
        /\ taskHeaderIdx = taskTailIdx => taskEmpty
        /\ taskEmpty' => taskHeaderIdx # taskTailIdx'
    BY <1>1 DEF Full, TypeOK
  <2>2. Count' = IF taskHeaderIdx = taskTailIdx' THEN TASK_QUEUE_SIZE
                 ELSE IF taskHeaderIdx < taskTailIdx'
                 THEN taskTailIdx' - taskHeaderIdx
                 ELSE taskTailIdx' - taskHeaderIdx + TASK_QUEUE_SIZE
    BY <1>1, <2>1 DEF Count
  <2>3. Count = IF taskHeaderIdx = taskTailIdx THEN 0
                ELSE IF taskHeaderIdx < taskTailIdx
                THEN taskTailIdx - taskHeaderIdx
                ELSE taskTailIdx - taskHeaderIdx + TASK_QUEUE_SIZE
    BY <2>1 DEF Count
  <2>4. QED BY <1>1, <2>1, <2>2, <2>3, EventQueueAssumption DEF Slots
<1>3. SlotOf(Count) = taskTailIdx
  BY EventQueueAssumption DEF SlotOf, Count, Full, TypeOK, Slots
<1>4. ASSUME NEW k \in 0 .. Count - 1
      PROVE  SlotOf(k) \in Slots /\ SlotOf(k) # taskTailIdx
  BY <1>4, EventQueueAssumption DEF SlotOf, Count, Full, TypeOK, Slots
<1>5. \A k : SlotOf(k)' = SlotOf(k)
  BY <1>1 DEF SlotOf
<1>6. /\ Waiting \in Seq(Events) /\ Len(Waiting) = Count /\ Count \in Nat
      /\ \A k \in 1 .. Count : Waiting[k] = taskQueue[SlotOf(k - 1)]
  BY WaitingIsSeq
<1>7. /\ Waiting' \in Seq(Events) /\ Len(Waiting') = Count'
      /\ \A k \in 1 .. Count' : Waiting'[k] = taskQueue'[SlotOf(k - 1)']
  <2>1. (TypeOK => /\ Waiting \in Seq(Events) /\ Len(Waiting) = Count
                   /\ \A k \in 1 .. Count : Waiting[k] = taskQueue[SlotOf(k - 1)])'
    BY WaitingIsSeq, PTL
  <2>2. QED BY <2>1 DEF Events
<1>8. ASSUME NEW k \in 1 .. Count + 1
      PROVE  Waiting'[k] = Append(Waiting, e)[k]
  <2>1. Waiting'[k] = taskQueue'[SlotOf(k - 1)]
    BY <1>2, <1>5, <1>7
  <2>2. CASE k = Count + 1
    <3>1. SlotOf(k - 1) = taskTailIdx
      BY <1>3, <1>6, <2>2
    <3>2. Waiting'[k] = e
      BY <1>1, <2>1, <3>1 DEF TypeOK
    <3>3. QED BY <1>6, <2>2, <3>2
  <2>3. CASE k # Count + 1
    <3>1. k - 1 \in 0 .. Count - 1 /\ k \in 1 .. Count
      BY <1>6, <2>3
    <3>2. SlotOf(k - 1) \in Slots /\ SlotOf(k - 1) # taskTailIdx
      BY <1>4, <3>1
    <3>3. Waiting'[k] = taskQueue[SlotOf(k - 1)]
      BY <1>1, <2>1, <3>2 DEF TypeOK
    <3>4. QED BY <1>6, <3>1, <3>3
  <2>4. QED BY <2>2, <2>3
<1>9. Append(Waiting, e) \in Seq(Events) /\ Len(Append(Waiting, e)) = Count + 1
  BY <1>6
<1>10. QED BY <1>2, <1>7, <1>8, <1>9, SeqEqual

\* A pop takes the head.
LEMMA PopTakesHead ==
  ASSUME TypeOK, TypeOK', PopEvent
  PROVE  Waiting # <<>> /\ popped' = Head(Waiting) /\ Waiting' = Tail(Waiting)
<1>1. /\ taskTailIdx' = taskTailIdx /\ taskQueue' = taskQueue
      /\ taskHeaderIdx' = IF taskHeaderIdx = TASK_QUEUE_SIZE - 1 THEN 0 ELSE taskHeaderIdx + 1
      /\ taskEmpty' = (taskEmpty \/ taskHeaderIdx' = taskTailIdx)
      /\ popped' = taskQueue[taskHeaderIdx]
      /\ ~Empty
  BY SuccValue DEF PopEvent, TypeOK
<1>2. /\ Waiting \in Seq(Events) /\ Len(Waiting) = Count /\ Count \in Nat
      /\ \A k \in 1 .. Count : Waiting[k] = taskQueue[SlotOf(k - 1)]
  BY WaitingIsSeq
<1>3. Count # 0
  BY <1>1, CountAtLimits
<1>4. Count' = Count - 1
  <2>1. /\ taskHeaderIdx \in Slots /\ taskTailIdx \in Slots
        /\ taskHeaderIdx = taskTailIdx => ~taskEmpty
        /\ taskHeaderIdx' = taskTailIdx' => taskEmpty'
    BY <1>1 DEF Empty, TypeOK
  <2>2. Count' = IF taskHeaderIdx' = taskTailIdx THEN 0
                 ELSE IF taskHeaderIdx' < taskTailIdx
                 THEN taskTailIdx - taskHeaderIdx'
                 ELSE taskTailIdx - taskHeaderIdx' + TASK_QUEUE_SIZE
    BY <1>1, <2>1 DEF Count
  <2>3. Count = IF taskHeaderIdx = taskTailIdx THEN TASK_QUEUE_SIZE
                ELSE IF taskHeaderIdx < taskTailIdx
                THEN taskTailIdx - taskHeaderIdx
                ELSE taskTailIdx - taskHeaderIdx + TASK_QUEUE_SIZE
    BY <2>1 DEF Count
  <2>4. QED BY <1>1, <2>1, <2>2, <2>3, EventQueueAssumption DEF Slots
<1>5. ASSUME NEW k \in 0 .. Count - 2
      PROVE  SlotOf(k)' = SlotOf(k + 1)
  BY <1>1, <1>2, <1>5, EventQueueAssumption DEF SlotOf, Count, TypeOK, Slots
<1>6. /\ Waiting' \in Seq(Events) /\ Len(Waiting') = Count'
      /\ \A k \in 1 .. Count' : Waiting'[k] = taskQueue'[SlotOf(k - 1)']
  <2>1. (TypeOK => /\ Waiting \in Seq(Events) /\ Len(Waiting) = Count
                   /\ \A k \in 1 .. Count : Waiting[k] = taskQueue[SlotOf(k - 1)])'
    BY WaitingIsSeq, PTL
  <2>2. QED BY <2>1 DEF Events
<1>7. Waiting # <<>>
  BY <1>2, <1>3
<1>8. popped' = Head(Waiting)
  <2>1. SlotOf(0) = taskHeaderIdx
    BY EventQueueAssumption DEF SlotOf, TypeOK, Slots
  <2>2. Head(Waiting) = Waiting[1]
    BY <1>2, <1>7
  <2>3. QED BY <1>1, <1>2, <1>3, <2>1, <2>2
<1>9. /\ Tail(Waiting) \in Seq(Events) /\ Len(Tail(Waiting)) = Count - 1
      /\ \A k \in 1 .. Count - 1 : Tail(Waiting)[k] = Waiting[k + 1]
  BY <1>2, <1>7, HeadTailProperties
<1>10. ASSUME NEW k \in 1 .. Count - 1
       PROVE  Waiting'[k] = Tail(Waiting)[k]
  <2>1. k - 1 \in 0 .. Count - 2 /\ k + 1 \in 1 .. Count /\ (k - 1) + 1 = k
    BY <1>2
  <2>2. SlotOf(k - 1)' = SlotOf(k)
    BY <1>5, <2>1
  <2>3. Waiting'[k] = taskQueue[SlotOf(k)]
    BY <1>1, <1>4, <1>6, <2>2
  <2>4. Waiting[k + 1] = taskQueue[SlotOf(k)]
    BY <1>2, <2>1
  <2>5. QED BY <1>9, <2>3, <2>4
<1>11. QED BY <1>4, <1>6, <1>7, <1>8, <1>9, <1>10, SeqEqual
-----------------------------------------------------------------------------
\* What the abstract queue is offered by a post, refused or not.
LEMMA PostIsOffer ==
  ASSUME TypeOK, TypeOK', NEW e \in Events, PostEvent(e), jevent' = jevent
  PROVE  Fifo!Offer(e)
<1>1. popped' = popped
  BY DEF PostEvent
<1>2. CASE Full
  <2>1. Waiting' = Waiting
    BY <1>2 DEF PostEvent, Waiting, Count, SlotOf
  <2>2. ~(Len(Waiting) < TASK_QUEUE_SIZE)
    BY <1>2, WaitingIsSeq, CountAtLimits, EventQueueAssumption
  <2>3. QED BY <1>1, <2>1, <2>2 DEF Fifo!Offer
<1>3. CASE ~Full
  <2>1. Waiting' = Append(Waiting, e)
    BY <1>3, PostAppends
  <2>2. Len(Waiting) < TASK_QUEUE_SIZE
    BY <1>3, WaitingIsSeq, CountAtLimits, EventQueueAssumption
  <2>3. QED BY <1>1, <2>1, <2>2 DEF Fifo!Offer
<1>4. QED BY <1>2, <1>3

LEMMA SomePostIsOffer ==
  ASSUME TypeOK, TypeOK', NEW t \in Types \cup {CHECKER},
         PostWithData(t) \/ PostWithoutData(t), jevent' = jevent
  PROVE  \E e \in Events : Fifo!Offer(e)
BY PostIsFresh, PostIsOffer

LEMMA NextImplements ==
  TypeOK /\ TypeOK' /\ [Next]_vars => [Fifo!FifoNext]_(Fifo!fifoVars)
<1> SUFFICES ASSUME TypeOK, TypeOK', [Next]_vars
             PROVE  [Fifo!FifoNext]_(Fifo!fifoVars)
  OBVIOUS
<1>a. ASSUME UNCHANGED ring, UNCHANGED popped, UNCHANGED jevent
      PROVE  UNCHANGED Fifo!fifoVars
  BY <1>a DEF ring, Fifo!fifoVars, Waiting, Count, SlotOf
<1>1. CASE AppPost
  <2>1. PICK t \in Types : Post(t)
    BY <1>1 DEF AppPost
  <2>2. QED BY <1>1, <2>1, SomePostIsOffer DEF AppPost, Post, Fifo!FifoNext
<1>2. CASE HandlerPost
  <2>1. PICK t \in Types : Post(t)
    BY <1>2 DEF HandlerPost
  <2>2. QED BY <1>2, <2>1, SomePostIsOffer DEF HandlerPost, Post, Fifo!FifoNext
<1>3. CASE ElseMs
  <2>1. CASE OnSecond(msEque, msEque')
    BY <1>3, <2>1, SomePostIsOffer DEF ElseMs, Fifo!FifoNext
  <2>2. CASE ~OnSecond(msEque, msEque')
    BY <1>3, <2>2, <1>a DEF ElseMs, ghost
  <2>3. QED BY <2>1, <2>2
<1>4. CASE PopEvent
  <2>1. jevent = Idle /\ jevent' \in Slots /\ Idle \notin Slots
    BY <1>4, EventQueueAssumption DEF PopEvent, TypeOK, Slots
  <2>2. Fifo!Take
    BY <1>4, <2>1, PopTakesHead DEF Fifo!Take
  <2>3. QED BY <2>2 DEF Fifo!FifoNext
<1>5. CASE FinishEvent
  <2>1. /\ jevent # Idle /\ jevent' = Idle
        /\ Waiting' = Waiting
    BY <1>5 DEF FinishEvent, ring, Waiting, Count, SlotOf
  <2>2. popped # Idle
    BY EventQueueAssumption DEF TypeOK, Events
  <2>3. Fifo!Done
    BY <2>1, <2>2 DEF Fifo!Done
  <2>4. QED BY <2>3 DEF Fifo!FifoNext
<1>6. CASE UNCHANGED vars
  BY <1>6, <1>a DEF vars, ring
<1>7. QED BY <1>1, <1>2, <1>3, <1>4, <1>5, <1>6 DEF Next

(* The ring implements the bounded queue: what waits is neither lost, nor   *)
(* repeated, nor reordered, and an event is refused only when all the      *)
(* slots are taken (user_postEvent, _jm_user_popEvent).                    *)
THEOREM Implements == Spec => Fifo!FifoSafety
<1>1. Init => Fifo!FifoInit
  <2> SUFFICES ASSUME Init PROVE Fifo!FifoInit
    OBVIOUS
  <2>1. Count = 0 /\ jevent = Idle
    BY DEF Init, Count
  <2>2. TypeOK
    BY InitTyped
  <2>3. Waiting = <<>>
    BY <2>1, <2>2, WaitingIsSeq, EmptySeq
  <2>4. QED BY <2>1, <2>3 DEF Fifo!FifoInit
<1>2. QED BY <1>1, TypeCorrect, NextImplements, PTL DEF Spec, Fifo!FifoSafety
-----------------------------------------------------------------------------
(* The clock stands at a multiple of its step, when the step divides a     *)
(* second.                                                                 *)
OnStep == \E m \in Nat : msEque = m * STEP

StepDivides == \E n \in Nat \ {0} : SECOND = n * STEP

\* The next multiple is below a second, or is one.
LEMMA NextMultiple ==
  ASSUME TypeOK, OnStep, StepDivides
  PROVE  /\ \E m \in Nat : (msEque + STEP) % SECOND = m * STEP
         /\ (msEque + STEP) % SECOND < msEque => (msEque + STEP) % SECOND = 0
<1>1. PICK m \in Nat : msEque = m * STEP
  BY DEF OnStep
<1>2. PICK n \in Nat \ {0} : SECOND = n * STEP
  BY DEF StepDivides
<1>3. /\ STEP \in Nat /\ STEP > 0 /\ SECOND \in Nat /\ SECOND > 0
      /\ msEque \in Nat /\ msEque < SECOND
  BY EventQueueAssumption DEF TypeOK
<1>4. msEque + STEP = (m + 1) * STEP
  BY <1>1, <1>3
<1>5. m < n
  <2>1. ASSUME m >= n PROVE FALSE
    <3>1. m * STEP = n * STEP + (m - n) * STEP /\ (m - n) * STEP >= 0
      BY <1>2, <1>3, <2>1
    <3>2. QED BY <1>1, <1>2, <1>3, <3>1
  <2>2. QED BY <1>2, <2>1
<1>6. CASE m + 1 = n
  <2>1. msEque + STEP = SECOND
    BY <1>2, <1>4, <1>6
  <2>2. (msEque + STEP) % SECOND = 0
    BY <1>3, <2>1
  <2>3. 0 = 0 * STEP
    BY <1>3
  <2>4. QED BY <2>2, <2>3
<1>7. CASE m + 1 < n
  <2>1. n * STEP = (m + 1) * STEP + (n - (m + 1)) * STEP /\ (n - (m + 1)) * STEP > 0
    BY <1>2, <1>3, <1>7
  <2>2. msEque + STEP < SECOND
    BY <1>2, <1>3, <1>4, <2>1
  <2>3. (msEque + STEP) % SECOND = msEque + STEP
    BY <1>3, <2>2
  <2>4. m + 1 \in Nat /\ (msEque + STEP) % SECOND = (m + 1) * STEP
    BY <1>4, <2>3
  <2>5. ~((msEque + STEP) % SECOND < msEque)
    BY <1>3, <2>3
  <2>6. QED BY <2>4, <2>5
<1>8. QED BY <1>2, <1>5, <1>6, <1>7

LEMMA NextOnStep == StepDivides /\ TypeOK /\ OnStep /\ [Next]_vars => OnStep'
<1> SUFFICES ASSUME StepDivides, TypeOK, OnStep, [Next]_vars PROVE OnStep'
  OBVIOUS
<1>1. CASE ElseMs
  BY <1>1, NextMultiple DEF ElseMs, OnStep
<1>2. CASE AppPost \/ HandlerPost \/ PopEvent \/ FinishEvent \/ UNCHANGED vars
  BY <1>2 DEF AppPost, HandlerPost, PopEvent, FinishEvent, vars, OnStep
<1>3. QED BY <1>1, <1>2 DEF Next

\* Only the clock moves the clock, and it wraps to a whole second.
LEMMA WrapPosts ==
  ASSUME StepDivides, TypeOK, TypeOK', OnStep, [Next]_vars, msEque' < msEque
  PROVE  Full \/ Waiting'[Count'].type = CHECKER
<1>1. ElseMs
  <2>1. msEque' # msEque
    BY EventQueueAssumption DEF TypeOK
  <2>2. QED BY <2>1 DEF Next, AppPost, HandlerPost, PopEvent, FinishEvent, vars
<1>2. msEque' = 0
  BY <1>1, NextMultiple DEF ElseMs
<1>3. PostWithoutData(CHECKER)
  BY <1>1, <1>2 DEF ElseMs, OnSecond
<1> DEFINE e == [type |-> CHECKER, data |-> NoData]
<1>4. PostEvent(e) /\ e \in Events
  BY <1>3 DEF PostWithoutData, Events
<1>5. CASE ~Full
  <2>1. Waiting' = Append(Waiting, e)
    BY <1>4, <1>5, PostAppends
  <2>2. Waiting \in Seq(Events) /\ Len(Waiting) = Count /\ Count \in Nat
    BY WaitingIsSeq
  <2>3. Len(Waiting') = Count'
    <3>1. (TypeOK => Len(Waiting) = Count)'
      BY WaitingIsSeq, PTL
    <3>2. QED BY <3>1
  <2>4. Count' = Count + 1
    BY <2>1, <2>2, <2>3
  <2>5. Append(Waiting, e)[Count + 1] = e
    BY <2>2
  <2>6. Waiting'[Count'] = e
    BY <2>1, <2>4, <2>5
  <2>7. e.type = CHECKER
    OBVIOUS
  <2>8. QED BY <2>6, <2>7
<1>6. QED BY <1>5

(* When the step of the clock divides a second, no second goes by without  *)
(* its checker event, unless the ring is full (jm_ElseMs).                 *)
THEOREM CheckerIsOffered ==
  ASSUME StepDivides
  PROVE  Spec => CheckerEverySecond
<1>1. Init => OnStep
  <2>1. 0 \in Nat /\ 0 = 0 * STEP
    BY EventQueueAssumption
  <2>2. QED BY <2>1 DEF Init, OnStep
<1>2. TypeOK /\ TypeOK' /\ OnStep /\ [Next]_vars =>
        [msEque' < msEque => Full \/ Waiting'[Count'].type = CHECKER]_vars
  BY WrapPosts
<1>3. TypeOK /\ OnStep /\ [Next]_vars => OnStep'
  BY NextOnStep
<1>4. QED BY <1>1, <1>2, <1>3, TypeCorrect, PTL DEF Spec, CheckerEverySecond
=============================================================================
