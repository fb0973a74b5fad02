----------------------------- MODULE ByteStream -----------------------------
(***************************************************************************)
(* One buffer of src/jm_buffer.c and the calls that its users make on it,  *)
(* with the result each call reports.                                      *)
(***************************************************************************)
EXTENDS RingBuffer

CONSTANTS
  Chunks,     \* the sequences of bytes that one call writes
  StartCaps   \* the capacities with which a buffer is created

\* What the theorems ask of the constants.
ChunksAndCaps ==
  /\ Chunks \subseteq Seq(Byte)
  /\ StartCaps \subseteq 0 .. MaxCap

VARIABLES
  bb,         \* the buffer
  report      \* the last call: what it was, the bytes moved, its result

bufferVars == <<bb, report>>

Report(op, s, ok) == [op |-> op, bytes |-> s, ok |-> ok]

BufferInit ==
  /\ \E cap \in StartCaps : bb = Create(cap)
  /\ report = Report("none", <<>>, TRUE)

\* jm_buf_put_bytes, and jm_buf_put_u8 to put_s64 for the sizes they write.
Put ==
  \E s \in Chunks :
    /\ bb' = PutBytes(bb, s)
    /\ report' = Report("put", s, CanWrite(bb, Len(s)))

\* jm_buf_get_bytes, and jm_buf_get_u8 to get_s64.
Get ==
  \E n \in 1 .. MaxCap :
    IF CanRead(bb, n)
    THEN bb' = GetBytes(bb, n) /\ report' = Report("get", NextBytes(bb, n), TRUE)
    ELSE report' = Report("get", <<>>, FALSE) /\ UNCHANGED bb

\* jm_buf_move_forward over bytes that the caller knows to be there.
Skip ==
  \E n \in 1 .. ReadableLen(bb) :
    /\ bb' = MoveForward(bb, n)
    /\ report' = Report("get", NextBytes(bb, n), TRUE)

\* A caller marks the read position, reads and goes back.
Peek ==
  \E n \in 1 .. ReadableLen(bb) :
    /\ CanRead(Rmark(bb), n)
    /\ bb' = RmarkReset(GetBytes(Rmark(bb), n))
    /\ report' = Report("peek", NextBytes(bb, n), TRUE)

Clear ==
  /\ bb' = Reset(bb)
  /\ report' = Report("reset", <<>>, TRUE)

BufferNext == Put \/ Get \/ Skip \/ Peek \/ Clear

BufferSpec == BufferInit /\ [][BufferNext]_bufferVars
-----------------------------------------------------------------------------
\* Growing clears BB_EMPTY, so that the first byte makes an empty buffer
\* grow again.  When it cannot, the write is lost, although jm_buf_put_bytes
\* reports it as done, and the buffer neither reads nor writes until a reset.
Lost == bb.status = {} /\ ReadableLen(bb) = 0

(* Positions and mark stay inside the ring, and the flags agree with them  *)
(* - what cannot be read can be written without growing - unless a write   *)
(* has been lost, which happens only within one growth of the maximum.     *)
FlagsAgree ==
  /\ IsBuffer(bb)
  /\ IF Lost THEN bb.capacity + Grow > MaxCap
     ELSE ReadableLen(bb) + WriteableLen(bb) = bb.capacity

(* But for the loss of a write, the ring, its flags, its growth and its    *)
(* mark are one queue of bytes: bytes come out in their order, and what is *)
(* reported as done is done (ByteQueue).                                   *)
Queue == INSTANCE ByteQueue WITH queue <- Contents(bb)
QueueUnlessLost == Queue!QueueInit /\ [][Lost \/ Lost' \/ Queue!QueueNext]_bufferVars
=============================================================================
