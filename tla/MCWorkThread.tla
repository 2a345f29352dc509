---------------------------- MODULE MCWorkThread ----------------------------
(* Finite instances of WorkThread.  Connections are interchangeable, and so    *)
(* are addresses: the specification only compares them.                        *)
EXTENDS Refinement, TLC

Interchangeable == Permutations(Conns) \cup Permutations(Bevs)
=============================================================================
