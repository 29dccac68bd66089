------------------------- MODULE MessageConnection -------------------------
(***************************************************************************)
(* What both sides of a thread's datagram RPC are built on: the two rings  *)
(* of messageNR buffers of its AbstractMessageConnection.                  *)
(***************************************************************************)
EXTENDS Naturals

CONSTANTS
  MessageNR,  \* buffers of each ring, and depth of both queues
  MsgCnt      \* bound: messages are told apart modulo MsgCnt

Slot == 0 .. MessageNR - 1
=============================================================================
