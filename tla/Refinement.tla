----------------------------- MODULE Refinement -----------------------------
(***************************************************************************)
(* The workers of WorkThread implement the registry of logins: _sub_map is *)
(* the registry, the deletions in the message pipes are what is doomed.    *)
(***************************************************************************)
EXTENDS WorkThread

Reg == INSTANCE Registry WITH
  online  <- sub_map,
  doomed  <- {x \in Workers \X Ids : DelPending(x[1], x[2])},
  excused <- {id \in Ids : Missed(id)}

\* Every step of the worker threads, whatever the order of Redis and HTTP answers,
\* pipes and logins, is a step of the registry or leaves it alone.
ImplementsRegistry == Reg!Spec
=============================================================================
