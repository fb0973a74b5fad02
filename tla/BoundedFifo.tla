---------------------------- MODULE BoundedFifo ----------------------------
(***************************************************************************)
(* What the event loop of the device promises: events are handled one at a *)
(* time, in the order in which they were posted, each exactly once; an     *)
(* event is refused only when Capacity events are already waiting.         *)
(***************************************************************************)
EXTENDS Integers, Sequences

CONSTANTS
  Capacity,   \* the number of events that can wait, a positive number
  Events,     \* the events that can be posted
  Idle        \* "no event is being handled", not an event

VARIABLES
  waiting,    \* the events posted and not yet taken, oldest first
  handling    \* the event being handled, or Idle

fifoVars == <<waiting, handling>>

FifoInit ==
  /\ waiting = <<>>
  /\ handling = Idle

\* Post an event; a full queue refuses it.
Offer(e) ==
  /\ waiting' = IF Len(waiting) < Capacity THEN Append(waiting, e) ELSE waiting
  /\ UNCHANGED handling

\* The loop takes the oldest event and starts to handle it.
Take ==
  /\ handling = Idle
  /\ waiting # <<>>
  /\ handling' = Head(waiting)
  /\ waiting' = Tail(waiting)

\* The handler of the event returns.
Done ==
  /\ handling # Idle
  /\ handling' = Idle
  /\ UNCHANGED waiting

FifoNext == Take \/ Done \/ \E e \in Events : Offer(e)

FifoSafety == FifoInit /\ [][FifoNext]_fifoVars

FifoSpec == FifoSafety /\ WF_fifoVars(Take) /\ WF_fifoVars(Done)
=============================================================================
