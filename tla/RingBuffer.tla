----------------------------- MODULE RingBuffer -----------------------------
(***************************************************************************)
(* The buffer of src/jm_buffer.c that does not wrap another: a ring of     *)
(* bytes that tells full from empty by two flags, grows when a write does  *)
(* not fit, and can mark its read position and go back to it.              *)
(***************************************************************************)
EXTENDS Integers, SequencesExt

CONSTANTS
  Byte,     \* the values of a byte
  Zero,     \* the byte that new memory holds
  Grow,     \* 32: what a small write adds to a capacity that is used up
  MaxCap    \* MAX_SHORT_VALUE, the largest capacity

ASSUME RingBufferAssumption ==
  /\ Zero \in Byte
  /\ Grow \in Nat \ {0}
  /\ MaxCap \in Nat

NoMark == -1

\* jm_buf_t; status holds the flags BB_EMPTY and BB_FULL.
IsBuffer(b) ==
  /\ b.capacity \in 0 .. MaxCap
  /\ b.data \in [0 .. b.capacity - 1 -> Byte]
  /\ {b.rpos, b.wpos} \subseteq {0} \cup 0 .. b.capacity - 1
  /\ b.rmark \in NoMark .. b.capacity
  /\ b.status \cup b.rmark_status \subseteq {"empty", "full"}

Create(cap) ==
  [data |-> [i \in 0 .. cap - 1 |-> Zero], capacity |-> cap, status |-> {"empty"},
   rpos |-> 0, wpos |-> 0, rmark |-> NoMark, rmark_status |-> {}]

Reset(b) == [b EXCEPT !.status = {"empty"}, !.rpos = 0, !.wpos = 0]

IsFull(b)  == b.rpos = b.wpos /\ "full" \in b.status
IsEmpty(b) == b.rpos = b.wpos /\ "empty" \in b.status

ReadableLen(b) ==
  IF b.rpos = b.wpos THEN IF IsFull(b) THEN b.capacity ELSE 0
  ELSE (b.wpos - b.rpos) % b.capacity

WriteableLen(b) ==
  IF b.rpos = b.wpos THEN IF IsEmpty(b) THEN b.capacity ELSE 0
  ELSE (b.rpos - b.wpos) % b.capacity

\* The n bytes a reader gets next, and all that it can get.
NextBytes(b, n) == [i \in 1 .. n |-> b.data[(b.rpos + i - 1) % b.capacity]]
Contents(b) == NextBytes(b, ReadableLen(b))
-----------------------------------------------------------------------------
\* Reading: jm_buf_get_xx checks, _bb_get_u8 moves on.
CanRead(b, n) == ~IsEmpty(b) /\ ReadableLen(b) >= n

\* Fault: the flag BB_FULL survives the read.
MoveForwardStaysFull(b, n) ==
  LET rpos == (b.rpos + n) % b.capacity IN
  [b EXCEPT !.rpos = rpos,
            !.status = IF rpos = b.wpos THEN @ \cup {"empty"} ELSE @]

MoveForward(b, n) ==
  LET rpos == (b.rpos + n) % b.capacity
      kept == IF IsFull(b) THEN b.status \ {"full"} ELSE b.status IN
  [b EXCEPT !.rpos = rpos,
            !.status = IF rpos = b.wpos THEN kept \cup {"empty"} ELSE kept]

\* n times _bb_get_u8.
GetBytes(b, n) == IF n = 0 THEN b ELSE MoveForward(b, n)

Rmark(b) == [b EXCEPT !.rmark = b.rpos, !.rmark_status = b.status]

\* Fault: the flags are not restored.
RmarkResetKeepsStatus(b) ==
  IF b.rmark = NoMark THEN b
  ELSE [b EXCEPT !.rpos = b.rmark, !.rmark = NoMark, !.rmark_status = {}]

RmarkReset(b) ==
  IF b.rmark = NoMark THEN b
  ELSE [b EXCEPT !.rpos = b.rmark, !.status = b.rmark_status,
                 !.rmark = NoMark, !.rmark_status = {}]
-----------------------------------------------------------------------------
\* Writing: jm_buf_check_write_len makes room, which can fail; the new
\* memory holds what was readable, and neither flag is set.
GrownCap(b, n) == b.capacity + (IF n < Grow THEN Grow ELSE n)

CanWrite(b, n) ==
  \/ WriteableLen(b) >= n
  \/ GrownCap(b, n) <= MaxCap /\ (ReadableLen(b) = 0 \/ CanRead(b, ReadableLen(b)))

\* Fault: the memory is copied from its start, not from the read position.
GrownCopiesRaw(b, n) ==
  LET len == ReadableLen(b) IN
  [Create(GrownCap(b, n)) EXCEPT
     !.data = [i \in DOMAIN @ |-> IF i < len THEN b.data[i] ELSE @[i]],
     !.status = {},
     !.wpos = len]

Grown(b, n) ==
  LET held == Contents(b) IN
  [Create(GrownCap(b, n)) EXCEPT
     !.data = [i \in DOMAIN @ |-> IF i < Len(held) THEN held[i + 1] ELSE @[i]],
     !.status = {},
     !.wpos = Len(held)]

CheckWriteLen(b, n) == IF WriteableLen(b) >= n THEN b ELSE Grown(b, n)

\* n times jm_buf_put_u8, with room for all of s.
Store(b, s) ==
  LET wpos   == (b.wpos + Len(s)) % b.capacity
      opened == IF IsEmpty(b) THEN b.status \ {"empty"} ELSE b.status
      pos(i) == (b.wpos + i - 1) % b.capacity IN
  [b EXCEPT
     !.data = [j \in DOMAIN @ |->
                 IF \E i \in DOMAIN s : j = pos(i)
                 THEN s[CHOOSE i \in DOMAIN s : j = pos(i)] ELSE @[j]],
     !.wpos = wpos,
     !.status = IF wpos = b.rpos THEN opened \cup {"full"} ELSE opened]

\* jm_buf_put_bytes makes room for all of s, each byte makes room for itself
\* and the results of the single bytes are not looked at.
PutBytes(b, s) ==
  LET e == CheckWriteLen(b, Len(s)) IN
  IF s = <<>> \/ ~CanWrite(b, Len(s)) THEN b
  ELSE IF ~CanWrite(e, 1) THEN e
  ELSE Store(CheckWriteLen(e, 1), s)
=============================================================================
