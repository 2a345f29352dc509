------------------------------ MODULE Framing -------------------------------
(***************************************************************************)
(* The packets of the client protocol, as sequences of bytes (src/core/    *)
(* analyse_req.cc).  Of a packet only what the parser decides on is kept:  *)
(* its kind, the length of its payload and so the number of its bytes.     *)
(***************************************************************************)
EXTENDS Integers, Sequences

HeadLen == 20      \* the header every packet but a heartbeat starts with
Mark    == 65280   \* 0xFF00 in the two-byte length field: four bytes follow

\* A heartbeat, a packet with a property analyse_pack knows, and one it does not.
Packet == [kind: {"heartbeat", "known", "unknown"}, len: Nat]

Heartbeat == [kind |-> "heartbeat", len |-> 0]

\* pack_data: the length of the property, format and length fields.
pack_data_head(len) == IF len > Mark THEN 9 ELSE 5

\* The bytes pack_data writes for a packet.
PackSize(p) == IF p = Heartbeat THEN 4 ELSE HeadLen + pack_data_head(p.len) + p.len

\* The two-byte length field of the packet holds 0xFF00.
Marked(p) == p.len >= Mark

\* Mutant: the four-byte length is not counted into the packet.
data_head_len_short(p) == 5

\* data_head_len, as analyse_data finds it.
data_head_len(p) == IF Marked(p) THEN 9 ELSE 5

\* analyse_data can tell the length: each test is for one byte more than it reads.
LengthArrived(p, buffer_size) ==
  /\ buffer_size > HeadLen + 5
  /\ Marked(p) => buffer_size > HeadLen + 9

\* A payload of 0xFF00 bytes: pack_data writes its length in two bytes, and
\* analyse_data takes them for the mark and the payload for the length.
Misread(p, buffer_size) == p.len = Mark /\ LengthArrived(p, buffer_size)

\* The bytes analyse_data and analyse_pack take off the buffer for the packet at
\* its head, 0 when it has not arrived.
analyse_data(p, buffer_size) ==
  LET pack_size == HeadLen + data_head_len(p) + p.len
  IN IF p = Heartbeat THEN 4
     ELSE IF LengthArrived(p, buffer_size) /\ buffer_size >= pack_size THEN pack_size
     ELSE 0

\* Where the packets of a stream end: Ends(ps)[i] bytes are up to the i-th.
Ends(ps) ==
  LET end[i \in 0 .. Len(ps)] == IF i = 0 THEN 0 ELSE end[i - 1] + PackSize(ps[i])
  IN end

\* How far into a packet the parser's tests tell two arrivals apart.
Cuts(p) ==
  IF p = Heartbeat THEN {3, 4}
  ELSE {HeadLen + 5, HeadLen + 9, PackSize(p) - 1, PackSize(p)} \cap 1 .. PackSize(p)
=============================================================================
