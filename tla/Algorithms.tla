----------------------------- MODULE Algorithms -----------------------------
(***************************************************************************)
(* The parts that compute a result from their input alone: the checksum,   *)
(* the chain of work requests of a vector, and the message codec.  A       *)
(* behaviour either computes one checksum, loop by loop, or tries one      *)
(* vector or one message.                                                  *)
(***************************************************************************)
EXTENDS Crc32c, WriteVector, RpcMessage

CONSTANTS
  Octet,     \* what a byte of a vector may be
  Vectors,   \* the vectors tried
  Remote,    \* the remote memory before: a byte at every address
  Value,     \* what a field of a message may be
  Messages   \* the messages tried

\* The code would post a work request it never set up for an empty list.
VectorInput == [kind : {"vector"}, list : Seq(Seq(Octet)), dest : Nat, sgePerWr : Nat \ {0}]

FieldInput   == [kind : {"value", "string", "bytes"}, v : Value, size : Nat]
ExtraInput   == {Nothing} \cup [kind : {"string"}, v : Value, size : Nat]
MessageInput == [kind : {"message"}, fields : Seq(FieldInput), extra : ExtraInput]

ASSUME InputAssumption ==
  /\ Vectors \subseteq VectorInput /\ \A x \in Vectors : x.list # <<>>
  /\ Messages \subseteq MessageInput
  /\ DOMAIN Remote \subseteq Nat /\ Remote \in [DOMAIN Remote -> Octet]

VARIABLE input  \* the vector or the message tried, or Nothing

Tried == input # Nothing

\* Nothing is computed where a vector or a message is tried.
AlgorithmsInit ==
  \/ Init /\ input = Nothing
  \/ /\ Init /\ buf.data = <<>> /\ buf.align = 0 /\ hw
     /\ input \in Vectors \cup Messages

AlgorithmsNext == ~Tried /\ Next /\ UNCHANGED input

AlgorithmsSpec == AlgorithmsInit /\ [][AlgorithmsNext]_<<vars, input>>

-----------------------------------------------------------------------------
\* See WriteVector: the stretch is written whole, and one completion tells.
VectorsWritten ==
  Tried /\ input.kind = "vector" =>
    VectorWritten(input.list, input.dest, input.sgePerWr, Remote)

\* See RpcMessage: what was added is found by the receiver, in place, from every
\* node and thread that has an id in the header.
MessagesArrive ==
  Tried /\ input.kind = "message" =>
    \A n, t \in 0 .. IdCnt - 1 :
      RoundTrip(input.fields, [node_id |-> n, t_id |-> t], input.extra)
=============================================================================
