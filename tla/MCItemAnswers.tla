--------------------------- MODULE MCItemAnswers ---------------------------
(* Small instances of ItemAnswers.                                          *)
EXTENDS ItemAnswers

MCTypes     == {"ctrl", "slave"}
MCOtherType == {"other"}
=============================================================================
