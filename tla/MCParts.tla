------------------------------- MODULE MCParts -------------------------------
(***************************************************************************)
(* Small instances of four parts that share no state, checked in one run:  *)
(* the walk over the listeners of an event (EventListeners), the pass over *)
(* the waiting requests (RpcSweep), the items that devices answer          *)
(* (ItemAnswers) and a buffer with writes of one to four bytes             *)
(* (ByteStream).  In each behaviour one of them moves and the others stay  *)
(* in an initial state.                                                    *)
(***************************************************************************)
EXTENDS EventListeners, ItemAnswers, RpcSweep, ByteStream

ASSUME MCBufferAssumption == ChunksAndCaps

VARIABLES part  \* the part that moves

partsVars == <<part, answerVars, listenVars, sweepVars, bufferVars>>

MCTypes  == {"ctrl", "slave"}
MCKeys   == 1 .. 5
MCBucket == [k \in MCKeys |-> k % 2]

\* Message ids: an id only matches itself.
MCMatches == [k \in MCKeys |-> {k}]
MCChunks == {<<1>>, <<0, 1>>, <<1, 1, 0>>, <<1, 0, 0, 1>>}

\* A part that does not move has one of its initial states.
Still(p) == part # p

PartsInit ==
  /\ part \in {"listeners", "sweep", "answers", "buffer"}
  /\ ListenInit /\ (Still("listeners") => current = CHOOSE l \in Listeners : TRUE)
  /\ SweepInit
  /\ AnswerInit /\ (Still("answers") => sysCfg = [d \in Devices |-> Unbound])
  /\ BufferInit /\ (Still("buffer") => bb.capacity = 0)

ListenersMove ==
  ~Still("listeners") /\ ListenNext /\ UNCHANGED <<part, answerVars, sweepVars, bufferVars>>
SweepMoves ==
  ~Still("sweep") /\ SweepNext /\ UNCHANGED <<part, answerVars, listenVars, bufferVars>>
AnswersMove ==
  ~Still("answers") /\ AnswerNext /\ UNCHANGED <<part, listenVars, sweepVars, bufferVars>>
BufferMoves ==
  ~Still("buffer") /\ BufferNext /\ UNCHANGED <<part, answerVars, listenVars, sweepVars>>

PartsNext == ListenersMove \/ SweepMoves \/ AnswersMove \/ BufferMoves

\* The fairness of the parts that state one; it asks nothing of a part that
\* does not move.
PartsFairness == SweepFairness /\ WF_answerVars(Receive)

PartsSpec == PartsInit /\ [][PartsNext]_partsVars /\ PartsFairness
=============================================================================
