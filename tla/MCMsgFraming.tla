---------------------------- MODULE MCMsgFraming ----------------------------
(* Small instance of MsgFraming: three messages with a payload of none, one  *)
(* or four bytes; four bytes need the wide length, and both of its bytes.  *)
EXTENDS MsgFraming

MCByte     == 0 .. MaxMsgs
MCPayloads == {<<>>, <<2>>, <<1, 3, 0, 2>>}

ASSUME MCFramingAssumption == FramingConstants
=============================================================================
