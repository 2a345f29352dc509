------------------------------ MODULE Registry ------------------------------
(***************************************************************************)
(* What the workers promise together about logins.  An id has at most one  *)
(* login per worker, and a worker enters, changes and removes only its     *)
(* own.  A login is entered while the id is logged in on another worker    *)
(* only if the other one is doomed, that is, its deletion is on the way;   *)
(* it stays doomed until it is gone.  An id is excused once its logins     *)
(* have overlapped, or the search for them has failed.                     *)
(***************************************************************************)
CONSTANTS Workers, Ids, Bevs, Nil

VARIABLES
  online,   \* the connection each worker has for each id, or Nil
  doomed,   \* the logins <<worker, id>> whose deletion is on the way
  excused   \* the ids for which nothing is promised any more

vars == <<online, doomed, excused>>

Init ==
  /\ online = [w \in Workers |-> [i \in Ids |-> Nil]]
  /\ doomed = {}
  /\ excused = {}

\* A connection of worker w is logged in under an id the worker does not have.
LogIn(w, id, b) ==
  /\ online[w][id] = Nil
  /\ \A v \in Workers \ {w} :
       online[v][id] # Nil => <<v, id>> \in doomed \/ id \in excused
  /\ online' = [online EXCEPT ![w][id] = b]
  /\ UNCHANGED <<doomed, excused>>

\* Logins of worker w end: closed by the client, silent, or displaced.
LogOut(w) ==
  /\ \E gone \in SUBSET Ids :
       online' = [online EXCEPT ![w] = [i \in Ids |-> IF i \in gone THEN Nil ELSE @[i]]]
  /\ \/ UNCHANGED doomed
     \/ \E id \in Ids : online'[w][id] = Nil /\ doomed' = doomed \ {<<w, id>>}

Doom(w, id) ==
  /\ doomed' = doomed \cup {<<w, id>>}
  /\ UNCHANGED <<online, excused>>

\* Nothing is promised of further ids.
Excuse ==
  \E more \in SUBSET Ids : excused' = excused \cup more

Next ==
  \/ \E w \in Workers, id \in Ids : Doom(w, id) \/ \E b \in Bevs : LogIn(w, id, b)
  \/ \E w \in Workers : LogOut(w) /\ Excuse
  \/ Excuse /\ UNCHANGED <<online, doomed>>

Spec == Init /\ [][Next]_vars

\* An id is logged in on two workers only while one of the two is doomed.
Unique ==
  \A v, w \in Workers, id \in Ids :
    v # w /\ online[v][id] # Nil /\ online[w][id] # Nil /\ id \notin excused
      => <<v, id>> \in doomed \/ <<w, id>> \in doomed
=============================================================================
