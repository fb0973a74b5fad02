--------------------------- MODULE MCEventQueue ---------------------------
(* Small instance of EventQueue: a ring of three slots and two blocks.     *)
EXTENDS EventQueue

CONSTANTS b1, b2, rx

MCBlocks == {b1, b2}
MCTypes  == {rx}
=============================================================================
