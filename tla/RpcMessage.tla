----------------------------- MODULE RpcMessage -----------------------------
(***************************************************************************)
(* A message of the datagram RPC from the caller that fills it (RpcMessage *)
(* add, add_string, add_string_wo_size), through ud_rpc_call and the wire, *)
(* to the receiver that takes it apart (get, get_string,                   *)
(* get_string_wo_size).                                                    *)
(*                                                                         *)
(* A field is [kind |-> "value" | "string" | "bytes", v |-> its identity,  *)
(* size |-> its bytes].  A byte in memory is <<v, i>>, the i-th byte of v. *)
(***************************************************************************)
EXTENDS Naturals, SequencesExt

CONSTANTS
  MESSAGE_SIZE,  \* bytes of a slot of the message pool
  Header,        \* sizeof(RpcMessage), 6 in the code
  Padding,       \* recvPadding, what the NIC puts before a datagram, 40
  Uint32,        \* sizeof(uint32_t), 4
  IdCnt,         \* values of NodeIDType and of ThreadIDType, 2^8
  SizeCnt,       \* values of msg_size, 2^16
  Nothing        \* no extra data, or memory that is no value

ASSUME SlotAssumption ==
  /\ Header \in Nat \ {0} /\ Padding \in Nat /\ Uint32 \in Nat \ {0}
  /\ MESSAGE_SIZE \in Nat /\ MESSAGE_SIZE > Padding + Header
  /\ IdCnt \in Nat \ {0}
  /\ SizeCnt \in Nat /\ MESSAGE_SIZE <= SizeCnt

Bytes(v, n) == [i \in 1 .. n |-> <<v, i>>]

\* msg is what was added; its length is counted in a field of 16 bits.
msg_size(m) == Len(m.msg) % SizeCnt

size(m) == Header + msg_size(m)

add(m, v, n) == [m EXCEPT !.msg = @ \o Bytes(v, n)]

add_string_wo_size(m, v, n) == [m EXCEPT !.msg = @ \o Bytes(v, n)]

\* Seeded fault: the length of the string is not written before it.
AddStringBare(m, v, n) == add_string_wo_size(m, v, n)

add_string(m, v, n) == add_string_wo_size(add(m, n, Uint32), v, n)

AddField(m, f) ==
  CASE f.kind = "value"  -> add(m, f.v, f.size)
    [] f.kind = "string" -> add_string(m, f.v, f.size)
    [] f.kind = "bytes"  -> add_string_wo_size(m, f.v, f.size)

\* get_new_msg, and the fields one after the other.
Filled(fields) ==
  LET filled[n \in 0 .. Len(fields)] ==
        IF n = 0 THEN [node_id |-> Nothing, t_id |-> Nothing, msg |-> <<>>]
                 ELSE AddField(filled[n - 1], fields[n])
  IN  filled[Len(fields)]

\* ud_rpc_call asserts that the message fits; what it then adds is not asserted.
Accepted(m) == size(m) + Padding < MESSAGE_SIZE

\* The buffer ud_rpc_call sends for m; it has a byte for each of the two ids.
ud_rpc_call(m, me, extra_data) ==
  LET buffer == [m EXCEPT !.node_id = me.node_id % IdCnt, !.t_id = me.t_id % IdCnt] IN
  IF extra_data = Nothing THEN buffer
                          ELSE add_string(buffer, extra_data.v, extra_data.size)

\* What arrives, if anything does: sendRawMessage posts size() bytes of the
\* buffer, and a slot that is too short for them takes nothing.
Received(buffer) ==
  IF size(buffer) + Padding <= MESSAGE_SIZE
  THEN {[buffer EXCEPT !.msg = SubSeq(@, 1, size(buffer) - Header)]}
  ELSE {}

-----------------------------------------------------------------------------
(***************************************************************************)
(* The receiver.  A cursor is the offset of the next byte.                 *)
(***************************************************************************)

\* n bytes of the message; behind its end there is nothing of it.
Memory(m, off, n) == IF off + n <= Len(m.msg) THEN SubSeq(m.msg, off + 1, off + n) ELSE <<>>

get(m, cur, n)                == [bytes |-> Memory(m, cur, n), cur |-> cur + n]
get_string_wo_size(m, cur, n) == [bytes |-> Memory(m, cur, n), cur |-> cur + n]

\* The number that was added with these bytes; of other bytes, something.
Number(bytes) ==
  IF bytes # <<>> /\ bytes = Bytes(Head(bytes)[1], Uint32) THEN Head(bytes)[1] ELSE 0

get_string(m, cur) ==
  LET k == get(m, cur, Uint32) IN get_string_wo_size(m, k.cur, Number(k.bytes))

GetField(m, cur, f) ==
  CASE f.kind = "value"  -> get(m, cur, f.size)
    [] f.kind = "string" -> get_string(m, cur)
    [] f.kind = "bytes"  -> get_string_wo_size(m, cur, f.size)

\* What a receiver that gets these kinds of fields finds.
Taken(m, fields) ==
  LET taken[n \in 0 .. Len(fields)] ==
        IF n = 0 THEN [found |-> <<>>, cur |-> 0]
        ELSE LET got == GetField(m, taken[n - 1].cur, fields[n])
             IN  [found |-> Append(taken[n - 1].found, got.bytes), cur |-> got.cur]
  IN  taken[Len(fields)].found

-----------------------------------------------------------------------------
(***************************************************************************)
(* A message that was filled within its buffer and passes the assertion of *)
(* ud_rpc_call, with extra data only where it still fits, arrives: the     *)
(* receiver finds every field whole and in place, the extra data as one    *)
(* more string, and the node and the thread to answer to, if their ids fit *)
(* the header.                                                             *)
(***************************************************************************)
RoundTrip(fields, me, extra_data) ==
  LET m      == Filled(fields)
      within == Header + Len(m.msg) <= MESSAGE_SIZE
      named  == me.node_id < IdCnt /\ me.t_id < IdCnt
      sent   == IF extra_data = Nothing THEN fields ELSE Append(fields, extra_data)
      fits   == extra_data = Nothing
                  \/ size(m) + Uint32 + extra_data.size + Padding <= MESSAGE_SIZE
  IN  within /\ named /\ Accepted(m) /\ fits =>
        \E mm \in Received(ud_rpc_call(m, me, extra_data)) :
        /\ mm.node_id = me.node_id /\ mm.t_id = me.t_id
        /\ Taken(mm, sent) = [i \in DOMAIN sent |-> Bytes(sent[i].v, sent[i].size)]
=============================================================================
