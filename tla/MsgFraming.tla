----------------------------- MODULE MsgFraming -----------------------------
(***************************************************************************)
(* A byte stream that carries messages: jm_msg_encode writes them,         *)
(* jm_msg_readMessage takes them out of the receive buffer                 *)
(* (src/jm_msg.c).  One byte of the model stands for one field of the      *)
(* header: the flag, the length (two of them when FLAG_LENGTH_INT is set), *)
(* and the type with the message id; a byte of payload is a byte.          *)
(***************************************************************************)
EXTENDS RingBuffer

CONSTANTS
  Payloads,     \* the payloads that are sent
  MaxShortLen,  \* MAX_SHORT_VALUE, the largest length that a short field holds
  MaxMsgs,      \* bound: messages sent
  MaxRead,      \* the most bytes it hands over at once
  StartCap      \* capacity of the receive buffer: room for one such read

Base == MaxMsgs + 1

\* What the theorems ask of the constants: a field holds one byte, the wide
\* length two, and a new buffer has room for one read from the network.
FramingConstants ==
  /\ MaxMsgs \in Nat /\ Byte = 0 .. MaxMsgs /\ MaxShortLen \in Byte
  /\ \A p \in Payloads : p \in Seq(Byte) /\ Len(p) < Base * Base
  /\ MaxRead \in Nat /\ StartCap \in MaxRead .. MaxCap

VARIABLES
  split,    \* does the network hand over parts of messages?
  sent,     \* the messages that the peer has encoded
  wire,     \* the bytes on their way
  buf,      \* the receive buffer
  got,      \* the messages that jm_msg_readMessage returned
  cutOff    \* history: has it returned NULL after reading a header?

vars == <<split, sent, wire, buf, got, cutOff>>

HeaderLen == 3
LengthInt == 1      \* FLAG_LENGTH_INT

Init ==
  /\ split \in BOOLEAN
  /\ sent = <<>>
  /\ wire = <<>>
  /\ buf = Create(StartCap)
  /\ got = <<>>
  /\ cutOff = FALSE

\* jm_msg_encode: flag, length of the payload, type and id, payload.
Encode(m) ==
  LET len == Len(m.payload) IN
  (IF len <= MaxShortLen THEN <<0, len>> ELSE <<LengthInt, len \div Base, len % Base>>)
    \o <<m.id>> \o m.payload

SendMessage ==
  \E p \in Payloads :
    LET m == [id |-> Len(sent) + 1, payload |-> p] IN
    /\ Len(sent) < MaxMsgs
    /\ sent' = Append(sent, m)
    /\ wire' = wire \o Encode(m)
    /\ UNCHANGED <<split, buf, got, cutOff>>

\* The network appends to the receive buffer what has arrived: any number of
\* bytes, or whole messages.
MessageEnds == {Len(FlattenSeq([i \in 1 .. n |-> Encode(sent[i])])) : n \in 1 .. Len(sent)}
Arrived     == Len(FlattenSeq([i \in 1 .. Len(sent) |-> Encode(sent[i])])) - Len(wire)

Arrive ==
  \E n \in 1 .. (IF Len(wire) < MaxRead THEN Len(wire) ELSE MaxRead) :
    /\ split \/ Arrived + n \in MessageEnds
    /\ CanWrite(buf, n)
    /\ buf' = PutBytes(buf, SubSeq(wire, 1, n))
    /\ wire' = SubSeq(wire, n + 1, Len(wire))
    /\ UNCHANGED <<split, sent, got, cutOff>>
-----------------------------------------------------------------------------
\* The header at the read position, as jm_msg_readMessage reads it.
WithInt(b)   == NextBytes(b, 1)[1] % 2 = LengthInt
FieldLen(b)  == IF WithInt(b) THEN 3 ELSE 2
HeadLen(b)   == IF WithInt(b) THEN HeaderLen + 1 ELSE HeaderLen

\* Fault: the length is read as a short one, whatever the flag says.
PayloadLenShort(b) == NextBytes(b, FieldLen(b))[2]

PayloadLen(b) ==
  LET h == NextBytes(b, FieldLen(b)) IN IF WithInt(b) THEN h[2] * Base + h[3] ELSE h[2]

\* jm_msg_decode of the bytes of one message.
Decode(b) ==
  LET s == NextBytes(b, HeadLen(b) + PayloadLen(b)) IN
  [id |-> s[HeadLen(b)], payload |-> SubSeq(s, HeadLen(b) + 1, Len(s))]

\* Less than a header: only the mark is left behind.
ReadTooShort ==
  /\ ReadableLen(buf) < HeaderLen
  /\ buf' = Rmark(buf)
  /\ UNCHANGED <<split, sent, wire, got, cutOff>>

\* A header without all of its payload: NULL, and the flag and the length
\* have been taken out of the buffer.
ReadCutOff ==
  /\ ReadableLen(buf) >= HeaderLen
  /\ ReadableLen(buf) < HeadLen(buf) + PayloadLen(buf)
  /\ buf' = GetBytes(Rmark(buf), FieldLen(buf))
  /\ cutOff' = TRUE
  /\ UNCHANGED <<split, sent, wire, got>>

\* A whole message: back to the mark, and the message is copied and decoded.
ReadWhole ==
  LET n == HeadLen(buf) + PayloadLen(buf)
      b == RmarkReset(GetBytes(Rmark(buf), FieldLen(buf))) IN
  /\ ReadableLen(buf) >= HeaderLen
  /\ ReadableLen(buf) >= n
  /\ CanRead(b, n)
  /\ buf' = GetBytes(b, n)
  /\ got' = Append(got, Decode(b))
  /\ UNCHANGED <<split, sent, wire, cutOff>>

ReadMessage == ReadTooShort \/ ReadCutOff \/ ReadWhole

Next == SendMessage \/ Arrive \/ ReadMessage

\* The network hands over what it carries, and the receiver calls
\* jm_msg_readMessage again and again.
Spec == Init /\ [][Next]_vars /\ WF_vars(Arrive) /\ WF_vars(ReadMessage)
-----------------------------------------------------------------------------
(* jm_msg_readMessage returns the messages that were sent, in their order, *)
(* and what is left in the buffer and on the wire are the others.          *)
StreamIntact ==
  LET n == Len(got) IN
  /\ IsPrefix(got, sent)
  /\ Contents(buf) \o wire =
       FlattenSeq([i \in 1 .. Len(sent) - n |-> Encode(sent[n + i])])

(* It stays so across the end of the ring, across its growth and for both  *)
(* widths of the length, until a part of a message is read.                *)
IntactUntilCutOff == cutOff \/ StreamIntact

(* When the network hands over whole messages, the receiver catches up     *)
(* with the sender: every message is returned.                             *)
EveryMessageRead == []<>(split \/ Len(got) = Len(sent))
=============================================================================
