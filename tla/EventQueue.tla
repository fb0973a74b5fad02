----------------------------- MODULE EventQueue -----------------------------
(***************************************************************************)
(* The event loop of the STM32 port (src/jm_runner.c): a ring of           *)
(* TASK_QUEUE_SIZE slots, the events posted into it by the application, by *)
(* the clock and by the handlers themselves, and the loop that pops one    *)
(* event, runs its handlers and frees the data the event owns.             *)
(*                                                                         *)
(* jm_runEvent hands the handlers a POINTER into the ring: the slot of the *)
(* event being handled is already free for the next post.  The state keeps *)
(* the index of that slot (jevent), so the reuse of the slot is modelled.  *)
(*                                                                         *)
(* An event owns its data when it is posted with JM_EVENT_FLAG_FREE_DATA;  *)
(* data posted without the flag stays the poster's and is NoData here.     *)
(***************************************************************************)
EXTENDS Integers, FiniteSets

CONSTANTS
  TASK_QUEUE_SIZE,  \* the slots of the ring (5 in jm_port.h)
  Types,            \* the event types the application posts
  CHECKER,          \* JM_TASK_APP_CHECKER, posted by the clock once a second
  Blocks,           \* the heap blocks that can carry an event's data
  NoData,           \* "the event owns no data"
  Idle,             \* "no event is being handled"
  STEP,             \* the argument of jm_ElseMs
  SECOND,           \* 1000 in the code
  MaxPosts          \* bound: posts made while one event is handled

ASSUME EventQueueAssumption ==
  /\ TASK_QUEUE_SIZE \in Nat \ {0}
  /\ NoData \notin Blocks
  /\ Idle \notin 0 .. TASK_QUEUE_SIZE - 1
  /\ Idle \notin [type : Types \cup {CHECKER}, data : Blocks \cup {NoData}]
  /\ STEP \in Nat \ {0}
  /\ SECOND \in Nat \ {0}
  /\ MaxPosts \in Nat

VARIABLES
  taskQueue,      \* the slots
  taskHeaderIdx,
  taskTailIdx,
  taskEmpty,      \* tells empty from full when the two indices are equal
  jevent,         \* the slot whose event is being handled, or Idle
  msEque,         \* the clock, modulo SECOND
  heap,           \* the allocated blocks
  posts,          \* posts made by the event being handled (bounded)
  popped,         \* history: the event as it was when it was popped
  clobbered,      \* history: a post has overwritten the slot being handled
  lost            \* history: the blocks whose post was refused

ring  == <<taskQueue, taskHeaderIdx, taskTailIdx, taskEmpty>>
ghost == <<popped, clobbered, lost>>
vars  == <<taskQueue, taskHeaderIdx, taskTailIdx, taskEmpty, jevent, msEque,
           heap, posts, popped, clobbered, lost>>

Slots  == 0 .. TASK_QUEUE_SIZE - 1
Events == [type : Types \cup {CHECKER}, data : Blocks \cup {NoData}]

\* An event value the zero-initialised ring holds before the first post.
ZeroEvent == [type |-> CHECKER, data |-> NoData]

\* Fault: the index is not wrapped.
SuccNoWrap(i) == i + 1

Succ(i) == (i + 1) % TASK_QUEUE_SIZE

Full  == taskHeaderIdx = taskTailIdx /\ ~taskEmpty
Empty == taskHeaderIdx = taskTailIdx /\ taskEmpty

\* How many events wait, and the slot of the k-th of them (k = 0 the oldest).
Count ==
  IF taskHeaderIdx = taskTailIdx
  THEN IF taskEmpty THEN 0 ELSE TASK_QUEUE_SIZE
  ELSE IF taskHeaderIdx < taskTailIdx
       THEN taskTailIdx - taskHeaderIdx
       ELSE taskTailIdx - taskHeaderIdx + TASK_QUEUE_SIZE

SlotOf(k) ==
  IF taskHeaderIdx + k < TASK_QUEUE_SIZE
  THEN taskHeaderIdx + k
  ELSE taskHeaderIdx + k - TASK_QUEUE_SIZE

Waiting == [k \in 1 .. Count |-> taskQueue[SlotOf(k - 1)]]

InQueue(s) == \E k \in 0 .. Count - 1 : SlotOf(k) = s
-----------------------------------------------------------------------------
Init ==
  /\ taskQueue = [s \in Slots |-> ZeroEvent]
  /\ taskHeaderIdx = 0
  /\ taskTailIdx = 0
  /\ taskEmpty = TRUE
  /\ jevent = Idle
  /\ msEque = 0
  /\ heap = {}
  /\ posts = 0
  /\ popped = ZeroEvent
  /\ clobbered = FALSE
  /\ lost = {}

\* Fault: a full ring is written like any other.
PostEventUnguarded(e) ==
  /\ taskQueue' = [taskQueue EXCEPT ![taskTailIdx] = e]
  /\ taskTailIdx' = Succ(taskTailIdx)
  /\ taskEmpty' = (taskEmpty /\ taskHeaderIdx # Succ(taskTailIdx))
  /\ clobbered' = (clobbered \/ taskTailIdx = jevent)
  /\ UNCHANGED <<taskHeaderIdx, popped, lost>>

\* Fault: the post that fills the ring does not clear taskEmpty.
PostEventNeverFull(e) ==
  /\ taskQueue' = [taskQueue EXCEPT ![taskTailIdx] = e]
  /\ taskTailIdx' = Succ(taskTailIdx)
  /\ clobbered' = (clobbered \/ taskTailIdx = jevent)
  /\ UNCHANGED <<taskHeaderIdx, taskEmpty, popped, lost>>

\* user_postEvent: a full ring drops the event without telling the poster.
PostEvent(e) ==
  IF Full
  THEN /\ UNCHANGED <<taskQueue, taskHeaderIdx, taskTailIdx, taskEmpty, popped, clobbered>>
       /\ lost' = lost \cup ({e.data} \ {NoData})
  ELSE /\ taskQueue' = [taskQueue EXCEPT ![taskTailIdx] = e]
       /\ taskTailIdx' = Succ(taskTailIdx)
       /\ taskEmpty' = (taskEmpty /\ taskHeaderIdx # Succ(taskTailIdx))
       /\ clobbered' = (clobbered \/ taskTailIdx = jevent)
       /\ UNCHANGED <<taskHeaderIdx, popped, lost>>

\* A poster either allocates the data the event will own, or posts none.
PostWithData(t) ==
  \E b \in Blocks \ heap :
    /\ heap' = heap \cup {b}
    /\ PostEvent([type |-> t, data |-> b])

PostWithoutData(t) ==
  /\ PostEvent([type |-> t, data |-> NoData])
  /\ UNCHANGED heap

Post(t) == PostWithData(t) \/ PostWithoutData(t)

\* The application posts between two events.
AppPost ==
  /\ jevent = Idle
  /\ \E t \in Types : Post(t)
  /\ UNCHANGED <<jevent, msEque, posts>>

\* The handlers of the event being handled post too.
HandlerPost ==
  /\ jevent # Idle
  /\ posts < MaxPosts
  /\ \E t \in Types : Post(t)
  /\ posts' = posts + 1
  /\ UNCHANGED <<jevent, msEque>>

\* Fault: the clock is tested before it advances.
OnSecondStale(before, after) == before = 0

OnSecond(before, after) == after = 0

\* jm_ElseMs: the clock advances and posts the checker on a whole second.
ElseMs ==
  /\ jevent = Idle
  /\ msEque' = (msEque + STEP) % SECOND
  /\ IF OnSecond(msEque, msEque')
     THEN PostWithoutData(CHECKER)
     ELSE UNCHANGED <<ring, ghost, heap>>
  /\ UNCHANGED <<jevent, posts>>

\* Fault: the pop that empties the ring does not set taskEmpty.
PopEventStaleFlag ==
  /\ jevent = Idle
  /\ ~Empty
  /\ jevent' = taskHeaderIdx
  /\ taskHeaderIdx' = Succ(taskHeaderIdx)
  /\ posts' = 0
  /\ popped' = taskQueue[taskHeaderIdx]
  /\ UNCHANGED <<taskQueue, taskTailIdx, taskEmpty, msEque, heap, clobbered, lost>>

\* _jm_user_popEvent, called by jm_runEvent.
PopEvent ==
  /\ jevent = Idle
  /\ ~Empty
  /\ jevent' = taskHeaderIdx
  /\ taskHeaderIdx' = Succ(taskHeaderIdx)
  /\ taskEmpty' = (taskEmpty \/ Succ(taskHeaderIdx) = taskTailIdx)
  /\ posts' = 0
  /\ popped' = taskQueue[taskHeaderIdx]
  /\ UNCHANGED <<taskQueue, taskTailIdx, msEque, heap, clobbered, lost>>

\* Fault: the data is not freed.
FinishEventNoFree ==
  /\ jevent # Idle
  /\ jevent' = Idle
  /\ UNCHANGED <<ring, ghost, msEque, heap, posts>>

\* The end of _eventHandler: free what the slot says the event owns.
FinishEvent ==
  /\ jevent # Idle
  /\ heap' = heap \ {taskQueue[jevent].data}
  /\ jevent' = Idle
  /\ UNCHANGED <<ring, ghost, msEque, posts>>

Next == AppPost \/ HandlerPost \/ ElseMs \/ PopEvent \/ FinishEvent

\* The main loop keeps calling jm_runEvent and every handler returns.
Fairness == WF_vars(PopEvent) /\ WF_vars(FinishEvent)

Spec == Init /\ [][Next]_vars /\ Fairness
-----------------------------------------------------------------------------
\* Type invariant of the ring, the handler and the heap (jm_runner.c:13-18).
TypeOK ==
  /\ taskQueue \in [Slots -> Events]
  /\ taskHeaderIdx \in Slots
  /\ taskTailIdx \in Slots
  /\ taskEmpty \in BOOLEAN
  /\ jevent \in Slots \cup {Idle}
  /\ msEque \in 0 .. SECOND - 1
  /\ heap \subseteq Blocks
  /\ posts \in 0 .. MaxPosts
  /\ popped \in Events
  /\ clobbered \in BOOLEAN
  /\ lost \subseteq Blocks

(* The event a handler was given does not change under it unless its own  *)
(* posts fill the ring: only then does user_postEvent reach the slot that *)
(* the pointer returned by _jm_user_popEvent still names.                  *)
HandledIntactUnlessFull ==
  jevent # Idle /\ ~Full => taskQueue[jevent] = popped

(* The blocks owned by the events that wait or are being handled.          *)
OwnedSlots == {s \in Slots : (InQueue(s) \/ s = jevent) /\ taskQueue[s].data # NoData}
Owned == {taskQueue[s].data : s \in OwnedSlots}

(* Until a handled slot is overwritten, every block has exactly one owner: *)
(* no two events own the same block, every owned block is allocated (so    *)
(* the free at the end of _eventHandler is never a double free), and the   *)
(* only blocks that leak are those of the events user_postEvent refused.   *)
SoleOwner ==
  ~clobbered =>
    /\ \A s, r \in OwnedSlots : taskQueue[s].data = taskQueue[r].data => s = r
    /\ heap = Owned \cup lost
    /\ Owned \cap lost = {}

(* An accepted event is handled: the slot it waits in is eventually popped *)
(* (jm_runEvent), however many events the handlers post meanwhile.         *)
AcceptedIsHandled ==
  \A s \in Slots : InQueue(s) ~> jevent = s

(* The clock never lets a second go by without offering the checker event  *)
(* to the ring (jm_ElseMs): when it wraps, the checker is the last event   *)
(* waiting, or the ring was full.                                          *)
CheckerEverySecond ==
  [][msEque' < msEque => Full \/ Waiting'[Count'].type = CHECKER]_vars

(* The ring implements the bounded first-in first-out queue: nothing is    *)
(* lost, repeated or reordered, and only a full ring refuses an event.     *)
Fifo == INSTANCE BoundedFifo
          WITH Capacity <- TASK_QUEUE_SIZE,
               waiting  <- Waiting,
               handling <- IF jevent = Idle THEN Idle ELSE popped

FifoSpec == Fifo!FifoSpec

(* JM_EVENT_FLAG_FREE_DATA (jm_client.h:125, "release the memory data      *)
(* occupies"): when the handling of an event ends, its data is released.   *)
HandledDataReleased ==
  [][jevent # Idle /\ jevent' = Idle /\ popped.data # NoData
       => popped.data \notin heap']_vars
=============================================================================
