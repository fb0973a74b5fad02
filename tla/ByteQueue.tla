------------------------------ MODULE ByteQueue ------------------------------
(***************************************************************************)
(* What a buffer promises its callers: bytes come out in the order in      *)
(* which they went in; a write is all or nothing and is refused only when  *)
(* the capacity comes near its maximum; a look ahead takes nothing out.    *)
(***************************************************************************)
EXTENDS Integers, Sequences

CONSTANTS
  Chunks,   \* the sequences of bytes that one call writes
  Grow,     \* what a small write adds to a capacity that is used up
  MaxCap    \* the largest capacity

VARIABLES
  queue,    \* the bytes written and not yet read
  report    \* the last call: what it was, the bytes moved, its result

queueVars == <<queue, report>>

Report(op, s, ok) == [op |-> op, bytes |-> s, ok |-> ok]

QueueInit ==
  /\ queue = <<>>
  /\ report = Report("none", <<>>, TRUE)

Write(s) ==
  /\ report' = Report("put", s, TRUE)
  /\ queue' = queue \o s

\* The capacity that is used up cannot grow by what the write asks for.
RefuseWrite(s) ==
  /\ Len(queue) + Len(s) + (IF Len(s) < Grow THEN Grow ELSE Len(s)) > MaxCap
  /\ report' = Report("put", s, FALSE)
  /\ UNCHANGED queue

\* A read takes the oldest n bytes, a look ahead only shows them.
Read(n) ==
  /\ n <= Len(queue)
  /\ report' = Report("get", SubSeq(queue, 1, n), TRUE)
  /\ queue' = SubSeq(queue, n + 1, Len(queue))

LookAhead(n) ==
  /\ n <= Len(queue)
  /\ report' = Report("peek", SubSeq(queue, 1, n), TRUE)
  /\ UNCHANGED queue

\* More is asked for than there is.
RefuseRead(n) ==
  /\ n > Len(queue)
  /\ report' = Report("get", <<>>, FALSE)
  /\ UNCHANGED queue

Clear ==
  /\ report' = Report("reset", <<>>, TRUE)
  /\ queue' = <<>>

QueueNext ==
  \/ \E s \in Chunks : Write(s) \/ RefuseWrite(s)
  \/ \E n \in 1 .. MaxCap : Read(n) \/ LookAhead(n) \/ RefuseRead(n)
  \/ Clear

QueueSpec == QueueInit /\ [][QueueNext]_queueVars
=============================================================================
