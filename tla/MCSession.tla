----------------------------- MODULE MCSession ------------------------------
(* Instances of Session for model checking.                                *)
EXTENDS Session

Payload(kind, len) == [kind |-> kind, len |-> len]

\* Both forms of the length and the one between them, an empty payload, and an unknown property.
MCPackets ==
  {Payload("known", 0), Payload("known", 2), Payload("unknown", 2), Payload("known", Mark),
   Payload("known", Mark + 1)}
=============================================================================
