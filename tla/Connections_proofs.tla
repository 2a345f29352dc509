------------------------ MODULE Connections_proofs --------------------------
(* What a worker's own maps say of its connections: _conn_num counts the ones *)
(* it serves, and an address it knows is allocated, unless a connection at    *)
(* it logged in twice.  For any number of workers, connections, ids and       *)
(* addresses.                                                                 *)
EXTENDS WorkThread_proofs, FiniteSetTheorems

\* Zenon proves the leaves that name no other prover.
USE Zenon

USE DEF registry, pending, running, client, vars

-----------------------------------------------------------------------------
(* The count of a worker's connections.                                     *)

\* SizeAssumption says nothing that FiniteAssumption does not.
LEMMA SizesFollow ==
  \A S \in (SUBSET Ids) \cup (SUBSET Bevs) : Cardinality(S) \in Nat
BY FiniteAssumption, FS_Subset, FS_CardinalityType

\* The addresses worker w knows, and the connections it was given.
Entries(w) == {b \in Bevs : bev_id[w][b] # Nil}
Given(w) == {c \in Conns : home[c] # Nil /\ home[c].w = w}

\* A worker is completing the login of a connection that it has itself displaced.
Unlisted(w) == task[w].op = "login" /\ bev_id[w][task[w].bev] = Nil

\* An open connection is known to the worker it was given to.
OpenKnown == \A c \in Conns : Open(c) => bev_id[home[c].w][home[c].bev] # Nil

\* _conn_num has room for the entry a login under completion puts back.
CountAt(w) ==
  /\ Cardinality(Entries(w)) + (IF Unlisted(w) THEN 1 ELSE 0) <= conn_num[w]
  /\ conn_num[w] <= Cardinality(Given(w))

CountInv == \A w \in Workers : CountAt(w)

\* A worker's entries and its connections are finite in number.
LEMMA CountFinite ==
  ASSUME NEW w
  PROVE  /\ IsFiniteSet(Entries(w)) /\ Cardinality(Entries(w)) \in Nat
         /\ IsFiniteSet(Given(w)) /\ Cardinality(Given(w)) \in Nat
<1>1. Entries(w) \in SUBSET Bevs /\ Given(w) \in SUBSET Conns
  BY DEF Entries, Given
<1>2. IsFiniteSet(Entries(w)) /\ IsFiniteSet(Given(w))
  BY <1>1, FiniteAssumption, FS_Subset
<1>. QED  BY <1>2, FS_CardinalityType

\* The worker with the address and the connection that is allocated at it.
LEMMA OpenPlace ==
  ASSUME TypeOK, NEW c \in Conns, Open(c)
  PROVE  home[c].w \in Workers /\ home[c].bev \in Bevs /\ home[c] # Nil
BY BevsAssumption DEF TypeOK, Open

\* The count covers what the worker serves, and no more than that and what was closed.
LEMMA CountCovers ==
  ASSUME TypeOK, OpenKnown, CountInv
  PROVE  ConnNumCovers
<1>. SUFFICES ASSUME NEW w \in Workers
              PROVE  conn_num[w] \in Cardinality(Entries(w)) .. Cardinality(Entries(w))
                       + Cardinality({c \in Conns : home[c] # Nil /\ home[c].w = w /\ ~Open(c)})
  BY DEF ConnNumCovers, Entries
<1>. DEFINE Closed == {c \in Conns : home[c] # Nil /\ home[c].w = w /\ ~Open(c)}
            Opened == {c \in Given(w) : Open(c)}
            f == [c \in Opened |-> home[c].bev]
<1>1. IsFiniteSet(Closed) /\ IsFiniteSet(Opened) /\ Cardinality(Closed) \in Nat /\ Cardinality(Opened) \in Nat
  <2>1. Closed \in SUBSET Conns /\ Opened \in SUBSET Conns
    BY DEF Given
  <2>2. IsFiniteSet(Closed) /\ IsFiniteSet(Opened)
    BY <2>1, FiniteAssumption, FS_Subset
  <2>. QED  BY <2>2, FS_CardinalityType
<1>2. Cardinality(Given(w)) = Cardinality(Closed) + Cardinality(Opened)
  <2>1. Given(w) = Closed \cup Opened
    BY DEF Given
  <2>2. Closed \cap Opened = {}
    OBVIOUS
  <2>3. Cardinality(Closed \cup Opened) = Cardinality(Closed) + Cardinality(Opened) - Cardinality(Closed \cap Opened)
    BY <1>1, FS_Union
  <2>. HIDE DEF Closed, Opened
  <2>4. Cardinality(Closed \cap Opened) = 0 /\ Cardinality(Given(w)) = Cardinality(Closed \cup Opened)
    BY <2>1, <2>2, FS_EmptySet
  <2>. QED  BY SMT, <1>1, <2>3, <2>4
<1>3. f \in Injection(Opened, Entries(w))
  <2>1. \A c \in Opened : c \in Conns /\ Open(c) /\ home[c].w = w /\ at[home[c].bev] = c
    BY DEF Given, Open
  <2>2. \A c \in Opened : home[c].bev \in Entries(w)
    BY <2>1, OpenPlace DEF OpenKnown, Entries
  <2>3. f \in [Opened -> Entries(w)]
    BY <2>2
  <2>4. \A c, d \in Opened : f[c] = f[d] => c = d
    BY <2>1
  <2>. QED  BY <2>3, <2>4 DEF Injection, IsInjective
<1>4. Cardinality(Opened) <= Cardinality(Entries(w))
  BY <1>3, CountFinite, FS_Injection
<1>. HIDE DEF Closed, Opened, f
<1>5. /\ Cardinality(Entries(w)) \in Nat /\ conn_num[w] \in Int
      /\ Cardinality(Entries(w)) + (IF Unlisted(w) THEN 1 ELSE 0) <= conn_num[w]
      /\ conn_num[w] <= Cardinality(Given(w))
  BY CountFinite DEF TypeOK, CountInv, CountAt
<1>6. conn_num[w] \in Cardinality(Entries(w)) .. Cardinality(Entries(w)) + Cardinality(Closed)
  BY SMT, <1>1, <1>2, <1>4, <1>5
<1>. QED  BY <1>6 DEF Closed

\* A login under completion is for an address and an id.
LEMMA LoginPlace ==
  ASSUME TypeOK, NEW w \in Workers, task[w].op = "login"
  PROVE  task[w].bev \in Bevs /\ task[w].id \in Ids
<1>1. task[w] \in LoginTask
  BY TaskFields DEF TypeOK
<1>. QED  BY <1>1 DEF LoginTask

\* A Subscriber's address.
LEMMA SubPlace ==
  ASSUME TypeOK, NEW w \in Workers, NEW i \in Ids
  PROVE  sub_map[w][i] \in Bevs \cup {Nil}
<1>1. sub_map \in [Workers -> [Ids -> Bevs \cup {Nil}]]
  BY DEF TypeOK
<1>. QED  BY SMT, <1>1

\* OpenKnown as long as an address that a worker forgets is freed.
LEMMA OpenStays ==
  ASSUME TypeOK, OpenKnown, UNCHANGED home,
         \A b \in Bevs : at'[b] = at[b] \/ at'[b] = Nil,
         \A v \in Workers, b \in Bevs : bev_id'[v][b] = Nil => bev_id[v][b] = Nil \/ at'[b] = Nil
  PROVE  OpenKnown'
<1>. SUFFICES ASSUME NEW c \in Conns, Open(c)' PROVE bev_id'[home'[c].w][home'[c].bev] # Nil
  BY DEF OpenKnown
<1>1. home[c] # Nil /\ at'[home[c].bev] = c /\ c # Nil
  BY BevsAssumption DEF Open
<1>2. home[c].bev \in Bevs /\ home[c].w \in Workers
  BY <1>1 DEF TypeOK
<1>3. Open(c)
  BY <1>1, <1>2 DEF Open
<1>4. bev_id[home[c].w][home[c].bev] # Nil
  BY <1>3 DEF OpenKnown
<1>. QED  BY <1>1, <1>2, <1>4

\* The count of a worker with no more entries than it had, and no connection more.
LEMMA CountLess ==
  ASSUME TypeOK, NEW v \in Workers, CountAt(v), UNCHANGED home, conn_num'[v] = conn_num[v],
         Entries(v)' \subseteq Entries(v),
         Unlisted(v)' => Unlisted(v) \/ Entries(v)' # Entries(v)
  PROVE  CountAt(v)'
<1>1. Given(v)' = Given(v)
  BY DEF Given
<1>2. /\ Cardinality(Entries(v)) \in Nat /\ Cardinality(Entries(v)') \in Nat
      /\ Cardinality(Entries(v)') <= Cardinality(Entries(v))
      /\ Cardinality(Entries(v)') = Cardinality(Entries(v)) => Entries(v)' = Entries(v)
  BY CountFinite, FS_Subset, FS_CardinalityType
<1>3. conn_num[v] \in Int
  BY DEF TypeOK
<1>4. CASE Unlisted(v)
  BY SMT, <1>1, <1>2, <1>3, <1>4 DEF CountAt
<1>5. CASE ~Unlisted(v) /\ Unlisted(v)'
  BY SMT, <1>1, <1>2, <1>3, <1>5 DEF CountAt
<1>6. CASE ~Unlisted(v) /\ ~Unlisted(v)'
  BY SMT, <1>1, <1>2, <1>3, <1>6 DEF CountAt
<1>. QED  BY <1>4, <1>5, <1>6

\* A worker of which nothing changes.
LEMMA CountSame ==
  ASSUME TypeOK, NEW v \in Workers, CountAt(v), UNCHANGED home, conn_num'[v] = conn_num[v],
         bev_id'[v] = bev_id[v],
         task'[v].op = "login" => task[v].op = "login" /\ task'[v].bev = task[v].bev
  PROVE  CountAt(v)'
<1>1. Entries(v)' = Entries(v)
  BY DEF Entries
<1>2. Unlisted(v)' => Unlisted(v)
  BY DEF Unlisted
<1>. QED  BY <1>1, <1>2, CountLess

\* The count over the steps that leave the entries and the count alone.
LEMMA CountPassive ==
  ASSUME TypeOK, OpenKnown, CountInv, TasksStay, UNCHANGED <<home, at, bev_id, conn_num>>
  PROVE  OpenKnown' /\ CountInv'
<1>1. OpenKnown'
  BY OpenStays
<1>2. ASSUME NEW v \in Workers PROVE CountAt(v)'
  BY CountSame DEF CountInv, TasksStay
<1>. QED  BY <1>1, <1>2 DEF CountInv

\* notify_new_conn_callback counts the connection it puts in _bev_id.
LEMMA CountConnect ==
  ASSUME TypeOK, OpenKnown, CountInv, NEW w \in Workers, NEW c \in Conns, new_connection(w, c)
  PROVE  OpenKnown' /\ CountInv'
<1>1. PICK b \in Bevs :
        /\ at[b] = Nil
        /\ home' = [home EXCEPT ![c] = [w |-> w, bev |-> b]]
        /\ at' = [at EXCEPT ![b] = c]
        /\ bev_id' = [bev_id EXCEPT ![w][b] = IF @ = Nil THEN NoId ELSE @]
  BY DEF new_connection
<1>2. /\ home[c] = Nil /\ task[w] = Idle /\ UNCHANGED task
      /\ conn_num' = [conn_num EXCEPT ![w] = @ + 1]
  BY DEF new_connection, Waiting, add_conn
<1>3. /\ home'[c] = [w |-> w, bev |-> b] /\ \A d \in Conns : d # c => home'[d] = home[d]
      /\ \A a \in Bevs : at'[a] = IF a = b THEN c ELSE at[a]
  BY <1>1 DEF TypeOK
<1>4. /\ bev_id'[w][b] # Nil
      /\ \A v \in Workers, a \in Bevs : v # w \/ a # b => bev_id'[v][a] = bev_id[v][a]
  BY <1>1, IdsAssumption DEF TypeOK
<1>5. home'[c].w = w /\ home'[c].bev = b /\ home'[c] # Nil
  <2>1. [w |-> w, bev |-> b] \in [w: Workers, bev: Bevs]
    OBVIOUS
  <2>. QED  BY SMT, <1>3, <2>1, PlacesAssumption
<1>6. OpenKnown'
  <2>. SUFFICES ASSUME NEW d \in Conns, Open(d)' PROVE bev_id'[home'[d].w][home'[d].bev] # Nil
    BY DEF OpenKnown
  <2>1. CASE d = c
    BY <1>4, <1>5, <2>1
  <2>2. CASE d # c
    <3>1. home'[d] = home[d] /\ home[d] # Nil /\ at'[home[d].bev] = d
      BY <1>3, <2>2 DEF Open
    <3>2. home[d].bev \in Bevs /\ home[d].w \in Workers
      BY <3>1 DEF TypeOK
    <3>3. home[d].bev # b /\ at[home[d].bev] = d
      BY <1>3, <2>2, <3>1, <3>2
    <3>4. bev_id[home[d].w][home[d].bev] # Nil
      BY <3>1, <3>3 DEF OpenKnown, Open
    <3>. QED  BY <1>4, <3>1, <3>2, <3>3, <3>4
  <2>. QED  BY <2>1, <2>2
<1>7. ASSUME NEW v \in Workers PROVE CountAt(v)'
  <2>1. CASE v # w
    <3>1. Given(v)' = Given(v) /\ Entries(v)' = Entries(v)
      <4>1. \A d \in Conns : home'[d] # Nil /\ home'[d].w = v <=> home[d] # Nil /\ home[d].w = v
        BY <1>2, <1>3, <1>5, <2>1
      <4>2. \A a \in Bevs : bev_id'[v][a] = bev_id[v][a]
        BY <1>4, <2>1
      <4>. QED  BY <4>1, <4>2 DEF Given, Entries
    <3>2. Unlisted(v)' <=> Unlisted(v)
      <4>1. task[v].op = "login" => task[v].bev \in Bevs
        BY LoginPlace
      <4>. QED  BY <1>2, <1>4, <2>1, <4>1 DEF Unlisted
    <3>3. conn_num'[v] = conn_num[v]
      BY <1>2, <2>1 DEF TypeOK
    <3>. QED  BY <3>1, <3>2, <3>3 DEF CountAt, CountInv
  <2>2. CASE v = w
    <3>1. Given(v)' = Given(v) \cup {c} /\ c \notin Given(v)
      <4>1. \A d \in Conns : home'[d] # Nil /\ home'[d].w = v <=> d = c \/ (home[d] # Nil /\ home[d].w = v)
        BY <1>2, <1>3, <1>5, <2>2
      <4>. QED  BY <1>2, <4>1 DEF Given
    <3>2. Entries(v)' = Entries(v) \cup {b}
      BY <1>4, <2>2 DEF Entries
    <3>3. conn_num'[v] = conn_num[v] + 1 /\ conn_num[v] \in Int
      BY SMT, <1>2, <2>2 DEF TypeOK
    <3>4. ~Unlisted(v)' /\ ~Unlisted(v)
      <4>1. Idle.op # "login"
        BY DEF Idle
      <4>. QED  BY <1>2, <2>2, <4>1 DEF Unlisted
    <3>5. /\ Cardinality(Given(v)') = Cardinality(Given(v)) + 1
          /\ Cardinality(Entries(v)') = IF b \in Entries(v) THEN Cardinality(Entries(v)) ELSE Cardinality(Entries(v)) + 1
      BY <3>1, <3>2, CountFinite, FS_AddElement
    <3>6. /\ Cardinality(Entries(v)) + 0 <= conn_num[v] /\ conn_num[v] <= Cardinality(Given(v))
          /\ Cardinality(Entries(v)) \in Nat /\ Cardinality(Given(v)) \in Nat
      BY <3>4, CountFinite DEF CountAt, CountInv
    <3>7. Cardinality(Entries(v)') + 0 <= conn_num'[v] /\ conn_num'[v] <= Cardinality(Given(v)')
      BY SMT, <3>3, <3>5, <3>6
    <3>. QED  BY <3>4, <3>7 DEF CountAt
  <2>. QED  BY <2>1, <2>2
<1>. QED  BY <1>6, <1>7 DEF CountInv

\* bufferevent_event_callback takes one off the count for the entry it erases.
LEMMA CountClose ==
  ASSUME TypeOK, OpenKnown, CountInv, NEW c \in Conns, bufferevent_event_callback(c)
  PROVE  OpenKnown' /\ CountInv'
<1>. DEFINE w == home[c].w
            b == home[c].bev
<1>1. w \in Workers /\ b \in Bevs /\ bev_id[w][b] # Nil
  BY OpenPlace DEF bufferevent_event_callback, OpenKnown
<1>. HIDE DEF w, b
<1>2. /\ task[w] = Idle /\ UNCHANGED <<home, task>>
      /\ at' = [at EXCEPT ![b] = Nil]
      /\ bev_id' = [bev_id EXCEPT ![w][b] = Nil]
      /\ conn_num' = [conn_num EXCEPT ![w] = @ + (-1)]
  BY DEF bufferevent_event_callback, Waiting, close_bev, add_conn, w, b
<1>3. /\ \A a \in Bevs : at'[a] = IF a = b THEN Nil ELSE at[a]
      /\ \A v \in Workers, a \in Bevs : bev_id'[v][a] = IF v = w /\ a = b THEN Nil ELSE bev_id[v][a]
  <2>1. /\ DOMAIN at = Bevs /\ DOMAIN bev_id = Workers
        /\ \A v \in Workers : DOMAIN bev_id[v] = Bevs
    BY DEF TypeOK
  <2>2. \A a \in Bevs : at'[a] = IF a = b THEN Nil ELSE at[a]
    BY <1>1, <1>2, <2>1
  <2>3. \A v \in Workers, a \in Bevs :
          bev_id'[v][a] = IF v = w /\ a = b THEN Nil ELSE bev_id[v][a]
    BY <1>1, <1>2, <2>1
  <2>. QED  BY <2>2, <2>3
<1>4. OpenKnown'
  <2>1. UNCHANGED home /\ \A a \in Bevs : at'[a] = at[a] \/ at'[a] = Nil
    BY <1>2, <1>3
  <2>2. ASSUME NEW v \in Workers, NEW a \in Bevs, bev_id'[v][a] = Nil
        PROVE  bev_id[v][a] = Nil \/ at'[a] = Nil
    BY <1>3, <2>2
  <2>. QED  BY <2>1, <2>2, OpenStays
<1>5. ASSUME NEW v \in Workers PROVE CountAt(v)'
  <2>1. CASE v # w
    <3>1. bev_id'[v] = bev_id[v] /\ conn_num'[v] = conn_num[v]
      BY <1>2, <2>1 DEF TypeOK
    <3>. QED  BY <1>2, <3>1, CountSame DEF CountInv
  <2>2. CASE v = w
    <3>1. Entries(v)' = Entries(v) \ {b} /\ b \in Entries(v)
      BY <1>1, <1>3, <2>2 DEF Entries
    <3>2. Given(v)' = Given(v)
      BY <1>2 DEF Given
    <3>3. conn_num'[v] = conn_num[v] - 1 /\ conn_num[v] \in Int
      BY SMTT(15), <1>2, <2>2 DEF TypeOK
    <3>4. ~Unlisted(v)' /\ ~Unlisted(v)
      <4>1. Idle.op # "login"
        BY DEF Idle
      <4>. QED  BY <1>2, <2>2, <4>1 DEF Unlisted
    <3>5. Cardinality(Entries(v)') = Cardinality(Entries(v)) - 1
      BY <3>1, CountFinite, FS_RemoveElement
    <3>6. /\ Cardinality(Entries(v)) + 0 <= conn_num[v] /\ conn_num[v] <= Cardinality(Given(v))
          /\ Cardinality(Entries(v)) \in Nat /\ Cardinality(Given(v)) \in Nat
      BY <3>4, CountFinite DEF CountAt, CountInv
    <3>7. Cardinality(Entries(v)') + 0 <= conn_num'[v] /\ conn_num'[v] <= Cardinality(Given(v)')
      BY SMT, <3>2, <3>3, <3>5, <3>6
    <3>. QED  BY <3>4, <3>7 DEF CountAt
  <2>. QED  BY <2>1, <2>2
<1>. QED  BY <1>4, <1>5 DEF CountInv

\* del_expire_client takes off as many as it erases.
LEMMA CountExpire ==
  ASSUME TypeOK, OpenKnown, CountInv, NEW w \in Workers, del_expire_client(w)
  PROVE  OpenKnown' /\ CountInv'
<1>. DEFINE expired == {i \in late[w] : sub_map[w][i] # Nil /\ \E b \in Bevs : bev_id[w][b] = i}
            dead == {b \in Bevs : bev_id[w][b] \in expired}
<1>1. dead \subseteq Entries(w)
  <2>1. expired \subseteq Ids
    BY DEF TypeOK
  <2>. HIDE DEF expired
  <2>. QED  BY <2>1, IdsAssumption DEF Entries
<1>2. /\ task[w] = Idle /\ UNCHANGED <<home, task>>
      /\ at' = [b \in Bevs |-> IF b \in dead THEN Nil ELSE at[b]]
      /\ bev_id' = [bev_id EXCEPT ![w] = [b \in Bevs |-> IF b \in dead THEN Nil ELSE @[b]]]
      /\ conn_num' = [conn_num EXCEPT ![w] = @ + (-Cardinality(dead))]
  BY DEF del_expire_client, Waiting, add_conn
<1>. HIDE DEF expired, dead
<1>3. /\ \A a \in Bevs : at'[a] = IF a \in dead THEN Nil ELSE at[a]
      /\ \A v \in Workers, a \in Bevs : bev_id'[v][a] = IF v = w /\ a \in dead THEN Nil ELSE bev_id[v][a]
  BY <1>2 DEF TypeOK
<1>4. OpenKnown'
  <2>1. UNCHANGED home /\ \A a \in Bevs : at'[a] = at[a] \/ at'[a] = Nil
    BY <1>2, <1>3
  <2>2. ASSUME NEW v \in Workers, NEW a \in Bevs, bev_id'[v][a] = Nil
        PROVE  bev_id[v][a] = Nil \/ at'[a] = Nil
    BY <1>3, <2>2
  <2>. QED  BY <2>1, <2>2, OpenStays
<1>5. ASSUME NEW v \in Workers PROVE CountAt(v)'
  <2>1. CASE v # w
    <3>1. bev_id'[v] = bev_id[v] /\ conn_num'[v] = conn_num[v]
      BY <1>2, <2>1 DEF TypeOK
    <3>. QED  BY <1>2, <3>1, CountSame DEF CountInv
  <2>2. CASE v = w
    <3>1. Entries(v)' = Entries(v) \ dead /\ Entries(v) \cap dead = dead
      BY <1>1, <1>3, <2>2 DEF Entries
    <3>2. Given(v)' = Given(v)
      BY <1>2 DEF Given
    <3>3. Cardinality(dead) \in Nat
      BY <1>1, CountFinite, FS_Subset, FS_CardinalityType
    <3>4. conn_num'[v] = conn_num[v] - Cardinality(dead) /\ conn_num[v] \in Int
      BY SMTT(15), <1>2, <2>2, <3>3 DEF TypeOK
    <3>5. ~Unlisted(v)' /\ ~Unlisted(v)
      <4>1. Idle.op # "login"
        BY DEF Idle
      <4>. QED  BY <1>2, <2>2, <4>1 DEF Unlisted
    <3>6. Cardinality(Entries(v)') = Cardinality(Entries(v)) - Cardinality(dead)
      BY <3>1, CountFinite, FS_Difference
    <3>7. /\ Cardinality(Entries(v)) + 0 <= conn_num[v] /\ conn_num[v] <= Cardinality(Given(v))
          /\ Cardinality(Entries(v)) \in Nat /\ Cardinality(Given(v)) \in Nat
      BY <3>5, CountFinite DEF CountAt, CountInv
    <3>8. Cardinality(Entries(v)') + 0 <= conn_num'[v] /\ conn_num'[v] <= Cardinality(Given(v)')
      BY SMT, <3>2, <3>3, <3>4, <3>6, <3>7
    <3>. QED  BY <3>5, <3>8 DEF CountAt
  <2>. QED  BY <2>1, <2>2
<1>. QED  BY <1>4, <1>5 DEF CountInv

\* Worker w deletes the login of an id: the entry of its address, if it has one, goes
\* and the bufferevent is freed.
Deletes(w, id) ==
  \/ /\ known(w, sub_map[w][id])
     /\ at' = [at EXCEPT ![sub_map[w][id]] = Nil]
     /\ bev_id' = [bev_id EXCEPT ![w][sub_map[w][id]] = Nil]
  \/ ~known(w, sub_map[w][id]) /\ UNCHANGED <<at, bev_id>>

\* Only the entry of the address the id was logged in from goes.
LEMMA DeletesOne ==
  ASSUME TypeOK, NEW w \in Workers, NEW id, Deletes(w, id)
  PROVE  \E D \in SUBSET Bevs :
           /\ \A b \in D : b = sub_map[w][id] /\ known(w, b)
           /\ \A a \in Bevs : at'[a] = IF a \in D THEN Nil ELSE at[a]
           /\ \A v \in Workers, a \in Bevs : bev_id'[v][a] = IF v = w /\ a \in D THEN Nil ELSE bev_id[v][a]
           /\ \A v \in Workers : v # w => bev_id'[v] = bev_id[v]
<1>. DEFINE old == sub_map[w][id]
<1>1. CASE known(w, old) /\ at' = [at EXCEPT ![old] = Nil] /\ bev_id' = [bev_id EXCEPT ![w][old] = Nil]
  <2>1. old \in Bevs
    BY <1>1 DEF known
  <2>. HIDE DEF old
  <2>2. /\ {old} \in SUBSET Bevs
        /\ \A b \in {old} : b = old /\ known(w, b)
        /\ \A a \in Bevs : at'[a] = IF a \in {old} THEN Nil ELSE at[a]
        /\ \A v \in Workers, a \in Bevs : bev_id'[v][a] = IF v = w /\ a \in {old} THEN Nil ELSE bev_id[v][a]
        /\ \A v \in Workers : v # w => bev_id'[v] = bev_id[v]
    BY <1>1, <2>1 DEF TypeOK
  <2>. QED  BY <2>2 DEF old
<1>2. CASE UNCHANGED <<at, bev_id>>
  <2>1. /\ {} \in SUBSET Bevs
        /\ \A b \in {} : b = old /\ known(w, b)
        /\ \A a \in Bevs : at'[a] = IF a \in {} THEN Nil ELSE at[a]
        /\ \A v \in Workers, a \in Bevs : bev_id'[v][a] = IF v = w /\ a \in {} THEN Nil ELSE bev_id[v][a]
        /\ \A v \in Workers : v # w => bev_id'[v] = bev_id[v]
    BY <1>2
  <2>. QED  BY <2>1
<1>. QED  BY <1>1, <1>2 DEF Deletes

\* A login displaces an earlier one without taking it off the count.
LEMMA CountStart ==
  ASSUME TypeOK, OpenKnown, CountInv, NEW w \in Workers, NEW d \in LoginData, NEW self,
         known(w, d.bev), start_login(w, d, self)
  PROVE  OpenKnown' /\ CountInv'
<1>1. /\ UNCHANGED <<home, conn_num>> /\ task' = [task EXCEPT ![w] = login_loop(d, self)]
      /\ Deletes(w, d.id)
  BY DEF start_login, displace_local, close_bev, Deletes
<1>2. PICK D \in SUBSET Bevs :
        /\ \A b \in D : b = sub_map[w][d.id] /\ known(w, b)
        /\ \A a \in Bevs : at'[a] = IF a \in D THEN Nil ELSE at[a]
        /\ \A v \in Workers, a \in Bevs : bev_id'[v][a] = IF v = w /\ a \in D THEN Nil ELSE bev_id[v][a]
        /\ \A v \in Workers : v # w => bev_id'[v] = bev_id[v]
  BY <1>1, DeletesOne
<1>3. OpenKnown'
  BY <1>1, <1>2, OpenStays
<1>4. ASSUME NEW v \in Workers PROVE CountAt(v)'
  <2>1. CASE v # w
    <3>1. task'[v] = task[v]
      BY <1>1, <2>1 DEF TypeOK
    <3>. QED  BY <1>1, <1>2, <2>1, <3>1, CountSame DEF CountInv
  <2>2. CASE v = w
    <3>1. Entries(v)' \subseteq Entries(v)
      BY <1>2 DEF Entries
    <3>2. task'[v].bev = d.bev /\ d.bev \in Entries(v)
      BY <1>1, <2>2 DEF login_loop, TypeOK, known, Entries
    <3>3. Unlisted(v)' => d.bev \notin Entries(v)'
      BY <3>2 DEF Unlisted, Entries
    <3>. QED  BY <1>1, <3>1, <3>2, <3>3, CountLess DEF CountInv
  <2>. QED  BY <2>1, <2>2
<1>. QED  BY <1>3, <1>4 DEF CountInv

\* The login is registered: the entry is there already, or was displaced for it.
LEMMA CountFinish ==
  ASSUME TypeOK, OpenKnown, CountInv, NEW w \in Workers, finish_login(w)
  PROVE  OpenKnown' /\ CountInv'
<1>. DEFINE b == task[w].bev
<1>1. b \in Bevs /\ task[w].id \in Ids /\ task[w].op = "login"
  BY LoginPlace DEF finish_login
<1>2. /\ UNCHANGED <<home, at, conn_num>> /\ task' = [task EXCEPT ![w] = Idle]
      /\ bev_id' = [bev_id EXCEPT ![w][b] = task[w].id]
  BY DEF finish_login
<1>. HIDE DEF b
<1>3. /\ bev_id'[w][b] # Nil /\ \A v \in Workers : v # w => bev_id'[v] = bev_id[v]
      /\ \A v \in Workers, a \in Bevs : v # w \/ a # b => bev_id'[v][a] = bev_id[v][a]
  BY <1>1, <1>2, IdsAssumption DEF TypeOK
<1>4. OpenKnown'
  <2>1. UNCHANGED home /\ \A a \in Bevs : at'[a] = at[a] \/ at'[a] = Nil
    BY <1>2, <1>3
  <2>2. ASSUME NEW v \in Workers, NEW a \in Bevs, bev_id'[v][a] = Nil
        PROVE  bev_id[v][a] = Nil \/ at'[a] = Nil
    BY <1>3, <2>2
  <2>. QED  BY <2>1, <2>2, OpenStays
<1>5. ASSUME NEW v \in Workers PROVE CountAt(v)'
  <2>1. CASE v # w
    <3>1. task'[v] = task[v]
      BY <1>2, <2>1 DEF TypeOK
    <3>. QED  BY <1>2, <1>3, <2>1, <3>1, CountSame DEF CountInv
  <2>2. CASE v = w
    <3>1. Entries(v)' = Entries(v) \cup {b}
      BY <1>1, <1>3, <2>2 DEF Entries
    <3>2. Given(v)' = Given(v) /\ conn_num'[v] = conn_num[v] /\ conn_num[v] \in Int
      BY <1>2 DEF Given, TypeOK
    <3>3. ~Unlisted(v)' /\ (b \notin Entries(v) => Unlisted(v))
      <4>1. Idle.op # "login" /\ task'[v] = Idle
        BY <1>2, <2>2 DEF Idle, TypeOK
      <4>. QED  BY <1>1, <2>2, <4>1 DEF Unlisted, Entries, b
    <3>4. Cardinality(Entries(v)') = IF b \in Entries(v) THEN Cardinality(Entries(v)) ELSE Cardinality(Entries(v)) + 1
      BY <3>1, CountFinite, FS_AddElement
    <3>5. /\ Cardinality(Entries(v)) + (IF Unlisted(v) THEN 1 ELSE 0) <= conn_num[v]
          /\ conn_num[v] <= Cardinality(Given(v))
          /\ Cardinality(Entries(v)) \in Nat
      BY CountFinite DEF CountAt, CountInv
    <3>6. Cardinality(Entries(v)') + 0 <= conn_num'[v] /\ conn_num'[v] <= Cardinality(Given(v)')
      BY SMT, <3>2, <3>3, <3>4, <3>5
    <3>. QED  BY <3>3, <3>6 DEF CountAt
  <2>. QED  BY <2>1, <2>2
<1>. QED  BY <1>4, <1>5 DEF CountInv

\* What notify_new_msg_callback does to the maps: nothing, or it deletes a login.
LEMMA CallbackDeletes ==
  ASSUME TypeOK, NEW w \in Workers, notify_new_msg_callback(w)
  PROVE  /\ UNCHANGED <<home, conn_num, redisq, http_login, claimed>>
         /\ TasksStay /\ task'[w].op # "login"
         /\ \/ UNCHANGED <<at, bev_id, sub_map>>
            \/ \E id \in Ids : Deletes(w, id) /\ sub_map' = [sub_map EXCEPT ![w][id] = Nil]
<1>. DEFINE m == Head(pipe[w])
<1>1. m.to \in Ids
  <2>1. m \in Msg
    BY HeadTail DEF TypeOK, notify_new_msg_callback
  <2>. QED  BY <2>1 DEF Msg
<1>. HIDE DEF m
<1>2. /\ UNCHANGED <<home, conn_num, redisq, http_login, claimed>>
      /\ \/ UNCHANGED <<at, bev_id, sub_map>>
         \/ Deletes(w, m.to) /\ sub_map' = [sub_map EXCEPT ![w][m.to] = Nil]
      /\ task' = [task EXCEPT ![w] = Idle] \/ task' = [task EXCEPT ![w] = Drain]
  BY BevsAssumption DEF notify_new_msg_callback, delete_old_login, forget_id, close_bev, known, Deletes, m
<1>3. Idle.op # "login" /\ Drain.op # "login"
  BY DEF Idle, Drain
<1>4. TasksStay
  BY <1>2, <1>3, TakesUp
<1>5. task'[w].op # "login"
  BY <1>2, <1>3 DEF TypeOK
<1>. QED  BY <1>1, <1>2, <1>4, <1>5

\* A deletion that comes by the pipe leaves the count as it is.
LEMMA CountDelete ==
  ASSUME TypeOK, OpenKnown, CountInv, NEW w \in Workers, notify_new_msg_callback(w)
  PROVE  OpenKnown' /\ CountInv'
<1>1. UNCHANGED <<home, conn_num>> /\ TasksStay /\ task'[w].op # "login"
  BY CallbackDeletes
<1>2. CASE UNCHANGED <<at, bev_id, sub_map>>
  BY <1>1, <1>2, CountPassive
<1>3. ASSUME NEW id \in Ids, Deletes(w, id)
      PROVE  OpenKnown' /\ CountInv'
  <2>1. PICK D \in SUBSET Bevs :
          /\ \A b \in D : b = sub_map[w][id] /\ known(w, b)
          /\ \A a \in Bevs : at'[a] = IF a \in D THEN Nil ELSE at[a]
          /\ \A v \in Workers, a \in Bevs : bev_id'[v][a] = IF v = w /\ a \in D THEN Nil ELSE bev_id[v][a]
          /\ \A v \in Workers : v # w => bev_id'[v] = bev_id[v]
    BY <1>3, DeletesOne
  <2>2. OpenKnown'
    BY <1>1, <2>1, OpenStays
  <2>3. ASSUME NEW v \in Workers PROVE CountAt(v)'
    <3>1. CASE v # w
      BY <1>1, <2>1, <3>1, CountSame DEF CountInv, TasksStay
    <3>2. CASE v = w
      <4>1. Entries(v)' \subseteq Entries(v)
        BY <2>1 DEF Entries
      <4>2. ~Unlisted(v)'
        BY <1>1, <3>2 DEF Unlisted
      <4>. QED  BY <1>1, <4>1, <4>2, CountLess DEF CountInv
    <3>. QED  BY <3>1, <3>2
  <2>. QED  BY <2>2, <2>3 DEF CountInv
<1>. QED  BY <1>2, <1>3, CallbackDeletes

\* The Redis answer to a login drops it, passes it on to HTTP or starts the loop over
\* the workers.
LEMMA RedisAnswers ==
  ASSUME TypeOK, NEW w \in Workers, redis_login_callback(w)
  PROVE  \E d \in LoginData :
           /\ redisq[w] # << >> /\ Head(redisq[w]) \in Command
           /\ Head(redisq[w]).cb = "login" /\ Head(redisq[w]).data = d
           /\ redisq' = [redisq EXCEPT ![w] = Tail(@)] /\ UNCHANGED claimed
           /\ \/ UNCHANGED <<home, at, bev_id, sub_map, conn_num, task, http_login>>
              \/ /\ UNCHANGED <<home, at, bev_id, sub_map, conn_num, task>>
                 /\ http_login' = http_login \cup {[w |-> w, data |-> d, stage |-> "connecting"]}
              \/ known(w, d.bev) /\ start_login(w, d, FALSE) /\ UNCHANGED http_login
<1>. DEFINE d == Head(redisq[w]).data
<1>1. redisq[w] # << >> /\ redisq[w] \in Seq(Command) /\ Head(redisq[w]).cb = "login"
  BY DEF redis_login_callback, TypeOK
<1>2. Head(redisq[w]) \in Command
  BY <1>1, HeadTail
<1>3. d \in LoginData
  BY <1>1, <1>2, CommandFields
<1>4. /\ redisq' = [redisq EXCEPT ![w] = Tail(@)] /\ UNCHANGED claimed
      /\ \/ UNCHANGED <<home, at, bev_id, sub_map, conn_num, task, http_login>>
         \/ /\ UNCHANGED <<home, at, bev_id, sub_map, conn_num, task>>
            /\ http_login' = http_login \cup {[w |-> w, data |-> d, stage |-> "connecting"]}
         \/ known(w, d.bev) /\ start_login(w, d, FALSE) /\ UNCHANGED http_login
  BY DEF redis_login_callback, http_login_check
<1>. QED  BY <1>1, <1>2, <1>3, <1>4

\* The HTTP answer to a login drops it, or starts the loop over the workers.
LEMMA HttpAnswers ==
  ASSUME TypeOK, NEW h \in http_login, http_login_read(h)
  PROVE  /\ h.w \in Workers /\ h.data \in LoginData
         /\ http_login' = http_login \ {h} /\ UNCHANGED <<redisq, claimed>>
         /\ \/ UNCHANGED <<home, at, bev_id, sub_map, conn_num, task>>
            \/ known(h.w, h.data.bev) /\ start_login(h.w, h.data, TRUE)
<1>1. h.w \in Workers /\ h.data \in LoginData
  BY DEF TypeOK
<1>. QED  BY <1>1 DEF http_login_read

\* The inductive step, one case per action that is not passive.
LEMMA CountStep ==
  ASSUME TypeOK, OpenKnown, CountInv, [Next]_vars
  PROVE  OpenKnown' /\ CountInv'
<1>1. CASE Passive
  BY <1>1, CountPassive DEF Passive
<1>2. ASSUME NEW c \in Conns, NEW id \in Ids, read_login(c, id)
      PROVE  OpenKnown' /\ CountInv'
  <2>1. TasksStay /\ UNCHANGED <<home, at, bev_id, conn_num>>
    BY <1>2 DEF read_login, TasksStay
  <2>. QED  BY <2>1, CountPassive
<1>3. ASSUME NEW h \in http_login, http_login_connected(h)
      PROVE  OpenKnown' /\ CountInv'
  <2>1. TasksStay /\ UNCHANGED <<home, at, bev_id, conn_num>>
    BY <1>3 DEF http_login_connected, TasksStay
  <2>. QED  BY <2>1, CountPassive
<1>4. ASSUME UNCHANGED <<home, at, bev_id, conn_num, task>>
      PROVE  OpenKnown' /\ CountInv'
  BY <1>4, CountPassive DEF TasksStay
<1>5. ASSUME NEW h \in http_login, http_login_read(h)
      PROVE  OpenKnown' /\ CountInv'
  BY <1>4, <1>5, HttpAnswers, CountStart
<1>6. ASSUME NEW w \in Workers, redis_login_callback(w)
      PROVE  OpenKnown' /\ CountInv'
  BY <1>4, <1>6, RedisAnswers, CountStart
<1>. QED  BY <1>1, <1>2, <1>3, <1>5, <1>6, PassiveActions, CountConnect, CountClose, CountExpire,
            CountFinish, CountDelete

\* No worker has been given a connection yet.
LEMMA CountInit ==
  ASSUME Init
  PROVE  OpenKnown /\ CountInv
<1>1. OpenKnown
  BY DEF Init, OpenKnown, Open
<1>2. ASSUME NEW w \in Workers PROVE CountAt(w)
  <2>1. Entries(w) = {} /\ Given(w) = {} /\ conn_num[w] = 0
    BY DEF Init, Entries, Given
  <2>2. ~Unlisted(w)
    BY DEF Init, Unlisted, Idle
  <2>3. Cardinality(Entries(w)) = 0 /\ Cardinality(Given(w)) = 0
    BY <2>1, FS_EmptySet
  <2>. QED  BY SMT, <2>1, <2>2, <2>3 DEF CountAt
<1>. QED  BY <1>1, <1>2 DEF CountInv

\* For any number of workers and clients, and even if the allocator reuses addresses
\* and clients log in again: _conn_num, which notify_new_conn_callback raises, which a
\* disconnect and an expiry lower and a displacement leaves as it is, is at least the
\* number of connections the worker serves, and exceeds it by the closed ones at most.
THEOREM CountCoversServed == Spec => []ConnNumCovers
<1>1. Init => OpenKnown /\ CountInv
  BY CountInit
<1>2. TypeOK /\ OpenKnown /\ CountInv /\ [Next]_vars => OpenKnown' /\ CountInv'
  BY CountStep
<1>3. TypeOK /\ OpenKnown /\ CountInv => ConnNumCovers
  BY CountCovers
<1>. QED  BY <1>1, <1>2, <1>3, TypeCorrect, PTL DEF Spec

-----------------------------------------------------------------------------
(* A freed address stays known only after two login packets from it.        *)

\* The login packets that came from address b, by connection and number.
Packets(b) ==
  {x \in {c \in Conns : home[c] # Nil /\ home[c].bev = b} \X (1 .. MaxLogins) :
     x[2] <= Len(claimed[x[1]])}

\* The login commands for packet p, and those of them that are for address b.
LoginsBy(p) == {q \in Command : q.cb = "login" /\ q.data.obj = p}
LoginsFrom(p, b) == {q \in Command : q.cb = "login" /\ q.data.obj = p /\ q.data.bev = b}

\* The packet waits for an answer from Redis or HTTP.
Waits(p) ==
  \/ \E w \in Workers : Has(redisq[w], LoginsBy(p))
  \/ \E h \in http_login : h.data.obj = p

\* A packet from the address no longer waits; two packets came from it.
Spent(b) == \E p \in Packets(b) : ~Waits(p)
Twice(b) == \E p, q \in Packets(b) : p # q

\* The bufferevent at the address is one of a connection of worker w.
Theirs(w, b) == at[b] # Nil /\ home[at[b]].w = w

\* A login that waits is that of a packet from its address, and waits at one place.
WaitInv ==
  /\ \A w \in Workers, p \in Conns \X Nat, b \in Bevs :
       Has(redisq[w], LoginsFrom(p, b)) => p \in Packets(b)
  /\ \A h \in http_login : h.data.obj \in Packets(h.data.bev)
  /\ \A w \in Workers, p \in Conns \X Nat :
       /\ Single(redisq[w], LoginsBy(p))
       /\ \A v \in Workers : Has(redisq[w], LoginsBy(p)) /\ Has(redisq[v], LoginsBy(p)) => v = w
       /\ \A h \in http_login : Has(redisq[w], LoginsBy(p)) => h.data.obj # p
  /\ \A g, h \in http_login : g.data.obj = h.data.obj => g = h

\* A login being completed, and a Subscriber, have used up a packet.
SpentInv ==
  /\ \A w \in Workers : task[w].op = "login" => Spent(task[w].bev)
  /\ \A w \in Workers, i \in Ids : sub_map[w][i] # Nil => Spent(sub_map[w][i])

\* An address a worker knows, or is logging in, is one of its own, or two packets
\* came from it.
TheirsInv ==
  /\ \A w \in Workers, b \in Bevs : known(w, b) => Theirs(w, b) \/ Twice(b)
  /\ \A w \in Workers : task[w].op = "login" => Theirs(w, task[w].bev) \/ Twice(task[w].bev)

\* A bufferevent is one of an accepted connection, which sent MaxLogins packets at most.
AcceptedInv ==
  /\ \A b \in Bevs : at[b] # Nil => home[at[b]] # Nil
  /\ \A c \in Conns : Len(claimed[c]) <= MaxLogins

RepeatInv == WaitInv /\ SpentInv /\ TheirsInv /\ AcceptedInv

\* What makes p a packet from address b.
LEMMA PacketFields ==
  ASSUME NEW b, NEW p
  PROVE  p \in Packets(b) <=>
           /\ p \in Conns \X (1 .. MaxLogins)
           /\ home[p[1]] # Nil /\ home[p[1]].bev = b /\ p[2] <= Len(claimed[p[1]])
BY SMT DEF Packets

\* The property follows: the packets from the address are at least two.
LEMMA FreedTwice ==
  ASSUME TheirsInv
  PROVE  FreedOnlyByRepeat
<1>. SUFFICES ASSUME NEW w \in Workers, NEW b \in Bevs, known(w, b), at[b] = Nil
              PROVE  Cardinality(Packets(b)) > 1
  BY DEF FreedOnlyByRepeat, Packets
<1>1. PICK p \in Packets(b), q \in Packets(b) : p # q
  BY DEF TheirsInv, Theirs, Twice
<1>2. IsFiniteSet(Packets(b))
  <2>1. IsFiniteSet({c \in Conns : home[c] # Nil /\ home[c].bev = b})
    BY FiniteAssumption, FS_Subset
  <2>2. IsFiniteSet(1 .. MaxLogins)
    BY SMT, BoundsAssumption, FS_Interval
  <2>3. IsFiniteSet({c \in Conns : home[c] # Nil /\ home[c].bev = b} \X (1 .. MaxLogins))
    BY <2>1, <2>2, FS_Product
  <2>. QED  BY <2>3, FS_Subset DEF Packets
<1>3. Cardinality({p, q}) = 2
  <2>1. IsFiniteSet({p}) /\ Cardinality({p}) = 1
    BY FS_Singleton
  <2>2. Cardinality({p} \cup {q}) = Cardinality({p}) + 1 /\ {p} \cup {q} = {p, q}
    BY <1>1, <2>1, FS_AddElement
  <2>. QED  BY SMT, <2>1, <2>2
<1>4. Cardinality({p, q}) <= Cardinality(Packets(b)) /\ Cardinality(Packets(b)) \in Nat
  BY <1>1, <1>2, FS_Subset, FS_CardinalityType
<1>. QED  BY SMT, <1>3, <1>4

\* Connections keep their addresses and their packets.
PacketsLast ==
  /\ \A c \in Conns : home[c] # Nil => home'[c] = home[c]
  /\ \A c \in Conns : Len(claimed'[c]) \in Nat /\ Len(claimed[c]) <= Len(claimed'[c])

\* A packet that came from an address did so for good.
LEMMA PacketsGrow ==
  ASSUME TypeOK, PacketsLast
  PROVE  \A b : Packets(b) \subseteq Packets(b)'
<1>. SUFFICES ASSUME NEW b, NEW p \in Packets(b) PROVE p \in Packets(b)'
  OBVIOUS
<1>1. /\ p \in Conns \X (1 .. MaxLogins)
      /\ home[p[1]] # Nil /\ home[p[1]].bev = b /\ p[2] <= Len(claimed[p[1]])
  BY PacketFields
<1>2. p[1] \in Conns /\ p[2] \in Int
  BY SMT, <1>1
<1>3. home'[p[1]] = home[p[1]] /\ Len(claimed'[p[1]]) \in Nat /\ Len(claimed[p[1]]) <= Len(claimed'[p[1]])
  BY <1>1, <1>2 DEF PacketsLast
<1>4. Len(claimed[p[1]]) \in Nat
  BY SMT, <1>2 DEF TypeOK
<1>5. p[2] <= Len(claimed'[p[1]])
  BY SMT, <1>1, <1>2, <1>3, <1>4
<1>6. /\ p \in Conns \X (1 .. MaxLogins)
      /\ home'[p[1]] # Nil /\ home'[p[1]].bev = b /\ p[2] <= Len(claimed'[p[1]])
  BY <1>1, <1>3, <1>5
<1>. QED  BY SMT, <1>6 DEF Packets

\* Steps that ask for no login and pass none on to HTTP.
LEMMA WaitsFewer ==
  ASSUME TypeOK, WaitInv, PacketsLast, RedisStep(Other), http_login' \subseteq http_login
  PROVE  WaitInv' /\ \A p \in Conns \X Nat : Waits(p)' => Waits(p)
<1>1. "login" \notin Other
  BY DEF Other
<1>2. ASSUME NEW p, NEW v \in Workers
      PROVE  /\ Has(redisq'[v], LoginsBy(p)) => Has(redisq[v], LoginsBy(p))
             /\ Single(redisq[v], LoginsBy(p)) => Single(redisq'[v], LoginsBy(p))
  <2>1. \A q \in LoginsBy(p) : q.cb \notin Other
    BY <1>1 DEF LoginsBy
  <2>. QED  BY <2>1, AskedOther
<1>3. ASSUME NEW p, NEW b, NEW v \in Workers, Has(redisq'[v], LoginsFrom(p, b))
      PROVE  Has(redisq[v], LoginsFrom(p, b))
  <2>1. \A q \in LoginsFrom(p, b) : q.cb \notin Other
    BY <1>1 DEF LoginsFrom
  <2>. QED  BY <1>3, <2>1, AskedOther
<1>4. \A b : Packets(b) \subseteq Packets(b)'
  BY PacketsGrow
<1>5. \A w \in Workers, p \in Conns \X Nat, b \in Bevs :
        Has(redisq'[w], LoginsFrom(p, b)) => p \in Packets(b)'
  BY <1>3, <1>4 DEF WaitInv
<1>6. \A h \in http_login' : h.data.obj \in Packets(h.data.bev)'
  BY <1>4 DEF WaitInv
<1>7. \A w \in Workers, p \in Conns \X Nat :
       /\ Single(redisq'[w], LoginsBy(p))
       /\ \A v \in Workers : Has(redisq'[w], LoginsBy(p)) /\ Has(redisq'[v], LoginsBy(p)) => v = w
       /\ \A h \in http_login' : Has(redisq'[w], LoginsBy(p)) => h.data.obj # p
  BY <1>2 DEF WaitInv
<1>8. \A g, h \in http_login' : g.data.obj = h.data.obj => g = h
  BY DEF WaitInv
<1>9. WaitInv'
  BY <1>5, <1>6, <1>7, <1>8 DEF WaitInv
<1>. QED  BY <1>2, <1>9 DEF Waits

\* A packet is one of a connection and has a number.
LEMMA PacketType ==
  ASSUME NEW b, NEW p \in Packets(b)
  PROVE  p \in Conns \X Nat
<1>1. p \in Conns \X (1 .. MaxLogins)
  BY PacketFields
<1>. QED  BY SMT, <1>1

\* What is used up stays so, and what came twice did.
LEMMA SpentStays ==
  ASSUME TypeOK, PacketsLast, NEW b, \A p \in Packets(b) : Waits(p)' => Waits(p)
  PROVE  (Spent(b) => Spent(b)') /\ (Twice(b) => Twice(b)')
<1>1. Packets(b) \subseteq Packets(b)'
  BY PacketsGrow
<1>2. Spent(b) => Spent(b)'
  BY <1>1 DEF Spent
<1>3. Twice(b) => Twice(b)'
  BY <1>1 DEF Twice
<1>. QED  BY <1>2, <1>3

\* Worker u frees the addresses D, all of which it knows, and forgets them.
FreesAll(u, D) ==
  /\ UNCHANGED <<home, claimed>>
  /\ \A b \in D : known(u, b)
  /\ \A a \in Bevs : at'[a] = IF a \in D THEN Nil ELSE at[a]
  /\ \A v \in Workers, a \in Bevs : bev_id'[v][a] = IF v = u /\ a \in D THEN Nil ELSE bev_id[v][a]

\* Connections that stay where they are keep their packets.
LEMMA PacketsSame ==
  ASSUME TypeOK, UNCHANGED <<home, claimed>>
  PROVE  PacketsLast
<1>1. \A c \in Conns : Len(claimed[c]) \in Nat
  BY SMT DEF TypeOK
<1>2. \A c \in Conns : Len(claimed'[c]) \in Nat /\ Len(claimed[c]) <= Len(claimed'[c])
  BY SMT, <1>1
<1>. QED  BY <1>2 DEF PacketsLast

\* An address that is freed belonged to the worker that frees it, or came twice.
LEMMA TheirsFree ==
  ASSUME TypeOK, TheirsInv, NEW u \in Workers, NEW D \in SUBSET Bevs, FreesAll(u, D),
         NEW v \in Workers, NEW b \in Bevs, v # u \/ b \notin D, Theirs(v, b)
  PROVE  Theirs(v, b)' \/ Twice(b)
<1>1. CASE b \notin D
  BY <1>1 DEF Theirs, FreesAll
<1>2. CASE v # u /\ b \in D
  BY <1>2 DEF Theirs, FreesAll, TheirsInv
<1>. QED  BY <1>1, <1>2

\* The addresses that are known after the step.
LEMMA KnownTheirs ==
  ASSUME TypeOK, TheirsInv, NEW u \in Workers, NEW D \in SUBSET Bevs, FreesAll(u, D),
         \A b \in Bevs : Twice(b) => Twice(b)'
  PROVE  \A v \in Workers, b \in Bevs : known(v, b)' => Theirs(v, b)' \/ Twice(b)'
<1>. SUFFICES ASSUME NEW v \in Workers, NEW b \in Bevs, known(v, b)'
              PROVE  Theirs(v, b)' \/ Twice(b)'
  OBVIOUS
<1>1. bev_id'[v][b] # Nil
  BY DEF known
<1>2. (v # u \/ b \notin D) /\ bev_id[v][b] # Nil
  BY <1>1 DEF FreesAll
<1>3. Theirs(v, b) \/ Twice(b)
  BY <1>2 DEF known, TheirsInv
<1>. QED  BY <1>2, <1>3, TheirsFree

\* The invariant over steps that free addresses, or none, and start no login.
LEMMA RepeatFrees ==
  ASSUME TypeOK, RepeatInv, RedisStep(Other), http_login' \subseteq http_login, TasksStay,
         NEW u \in Workers, NEW D \in SUBSET Bevs, FreesAll(u, D),
         D # {} => task'[u].op # "login",
         \A v \in Workers, i \in Ids : sub_map'[v][i] = sub_map[v][i] \/ sub_map'[v][i] = Nil
  PROVE  RepeatInv'
<1>. USE DEF RepeatInv
<1>1. PacketsLast
  BY PacketsSame DEF FreesAll
<1>2. WaitInv' /\ \A p \in Conns \X Nat : Waits(p)' => Waits(p)
  BY <1>1, WaitsFewer
<1>3. \A b \in Bevs : (Spent(b) => Spent(b)') /\ (Twice(b) => Twice(b)')
  BY <1>1, <1>2, PacketType, SpentStays
<1>4. \A v \in Workers : task[v].op = "login" => task[v].bev \in Bevs
  BY LoginPlace
<1>5. SpentInv'
  <2>1. ASSUME NEW v \in Workers, task'[v].op = "login" PROVE Spent(task[v].bev)'
    <3>1. PICK b \in Bevs : b = task[v].bev /\ b = task'[v].bev /\ Spent(b)
      BY <1>4, <2>1 DEF SpentInv, TasksStay
    <3>2. Spent(b)'
      BY <1>3, <3>1
    <3>. QED  BY <3>1, <3>2
  <2>2. ASSUME NEW v \in Workers, NEW i \in Ids, sub_map'[v][i] # Nil
        PROVE  Spent(sub_map[v][i])'
    <3>1. PICK b \in Bevs : b = sub_map'[v][i] /\ b = sub_map[v][i] /\ b # Nil
      BY <2>2, SubPlace
    <3>2. Spent(b)'
      BY <1>3, <3>1 DEF SpentInv
    <3>. QED  BY <3>1, <3>2
  <2>. QED  BY <2>1, <2>2 DEF SpentInv
<1>6. TheirsInv'
  <2>1. \A v \in Workers, b \in Bevs : known(v, b)' => Theirs(v, b)' \/ Twice(b)'
    BY <1>3, KnownTheirs
  <2>2. ASSUME NEW v \in Workers, task'[v].op = "login"
        PROVE  Theirs(v, task[v].bev)' \/ Twice(task[v].bev)'
    <3>1. task[v].op = "login" /\ task'[v].bev = task[v].bev /\ task[v].bev \in Bevs
      BY <1>4, <2>2 DEF TasksStay
    <3>2. v # u \/ task[v].bev \notin D
      BY <2>2, <3>1
    <3>3. Theirs(v, task[v].bev) \/ Twice(task[v].bev)
      BY <3>1 DEF TheirsInv
    <3>4. PICK b \in Bevs : b = task[v].bev /\ b = task'[v].bev
      BY <3>1
    <3>5. (v # u \/ b \notin D) /\ (Theirs(v, b) \/ Twice(b))
      BY <3>2, <3>3, <3>4
    <3>6. Theirs(v, b)' \/ Twice(b)'
      BY <1>3, <3>5, TheirsFree
    <3>. QED  BY <3>4, <3>6
  <2>. QED  BY <2>1, <2>2 DEF TheirsInv
<1>7. AcceptedInv'
  BY DEF AcceptedInv, FreesAll
<1>. QED  BY <1>2, <1>5, <1>6, <1>7

\* Nothing is freed.
LEMMA FreesNone ==
  ASSUME UNCHANGED <<home, at, bev_id, claimed>>, NEW u
  PROVE  FreesAll(u, {})
BY DEF FreesAll

\* A worker exists.
LEMMA SomeWorker == 0 \in Workers
BY SMT, WorkersAssumption DEF Workers

\* The invariant over the actions that leave the maps and the logins alone.
LEMMA RepeatPassive ==
  ASSUME TypeOK, RepeatInv, RedisStep(Other), http_login' \subseteq http_login, TasksStay,
         UNCHANGED <<home, at, bev_id, sub_map, claimed>>
  PROVE  RepeatInv'
<1>1. FreesAll(0, {})
  BY FreesNone
<1>. QED  BY <1>1, SomeWorker, RepeatFrees

\* ... over bufferevent_event_callback: the connection is one of the worker's own.
LEMMA RepeatClose ==
  ASSUME TypeOK, OpenKnown, RepeatInv, NEW c \in Conns, bufferevent_event_callback(c)
  PROVE  RepeatInv'
<1>. DEFINE w == home[c].w
            b == home[c].bev
            id == bev_id[w][b]
<1>1. w \in Workers /\ b \in Bevs /\ bev_id[w][b] # Nil
  BY OpenPlace DEF bufferevent_event_callback, OpenKnown
<1>. HIDE DEF w, b
<1>2. /\ task[w] = Idle /\ UNCHANGED <<home, claimed, task, http_login>>
      /\ at' = [at EXCEPT ![b] = Nil]
      /\ bev_id' = [bev_id EXCEPT ![w][b] = Nil]
      /\ \/ /\ id \in Ids /\ sub_map' = [sub_map EXCEPT ![w][id] = Nil]
            /\ Ask(w, [cb |-> "offline", id |-> id])
         \/ UNCHANGED <<sub_map, redisq>>
  BY DEF bufferevent_event_callback, Waiting, close_bev, forget_id, w, b
<1>3. FreesAll(w, {b})
  BY <1>1, <1>2 DEF FreesAll, known, TypeOK
<1>4. \A v \in Workers, i \in Ids : sub_map'[v][i] = sub_map[v][i] \/ sub_map'[v][i] = Nil
  <2>1. CASE UNCHANGED sub_map
    BY <2>1
  <2>2. CASE sub_map' = [sub_map EXCEPT ![w][id] = Nil]
    BY <2>2 DEF TypeOK
  <2>. QED  BY <1>2, <2>1, <2>2
<1>5. RedisStep(Other)
  <2>1. id \in Ids => [cb |-> "offline", id |-> id] \in Command /\ [cb |-> "offline", id |-> id].cb \in Other
    BY OtherCommands DEF Other
  <2>. HIDE DEF id
  <2>. QED  BY <1>1, <1>2, <2>1 DEF RedisStep
<1>6. TasksStay /\ task'[w].op # "login"
  <2>1. Idle.op # "login"
    BY DEF Idle
  <2>. QED  BY <1>2, <2>1 DEF TasksStay
<1>. QED  BY <1>1, <1>2, <1>3, <1>4, <1>5, <1>6, RepeatFrees

\* ... over del_expire_client, which frees what its _bev_id names.
LEMMA RepeatExpire ==
  ASSUME TypeOK, RepeatInv, NEW w \in Workers, del_expire_client(w)
  PROVE  RepeatInv'
<1>. DEFINE expired == {i \in late[w] : sub_map[w][i] # Nil /\ \E b \in Bevs : bev_id[w][b] = i}
            dead == {b \in Bevs : bev_id[w][b] \in expired}
<1>1. dead \in SUBSET Bevs /\ \A b \in dead : known(w, b)
  <2>1. expired \subseteq Ids
    BY DEF TypeOK
  <2>. HIDE DEF expired
  <2>. QED  BY <2>1, IdsAssumption DEF known
<1>2. /\ task[w] = Idle /\ UNCHANGED <<home, claimed, task, http_login>>
      /\ at' = [b \in Bevs |-> IF b \in dead THEN Nil ELSE at[b]]
      /\ bev_id' = [bev_id EXCEPT ![w] = [b \in Bevs |-> IF b \in dead THEN Nil ELSE @[b]]]
      /\ sub_map' = [sub_map EXCEPT ![w] = [i \in Ids |-> IF i \in expired THEN Nil ELSE @[i]]]
  BY DEF del_expire_client, Waiting
<1>. HIDE DEF expired, dead
<1>3. FreesAll(w, dead)
  BY <1>1, <1>2 DEF FreesAll, TypeOK
<1>4. \A v \in Workers, i \in Ids : sub_map'[v][i] = sub_map[v][i] \/ sub_map'[v][i] = Nil
  BY <1>2 DEF TypeOK
<1>5. RedisStep(Other)
  BY ExpireAsks DEF RedisStep, Other
<1>6. TasksStay /\ task'[w].op # "login"
  <2>1. Idle.op # "login"
    BY DEF Idle
  <2>. QED  BY <1>2, <2>1 DEF TasksStay
<1>. QED  BY <1>1, <1>2, <1>3, <1>4, <1>5, <1>6, RepeatFrees

\* ... over a deletion that comes by the pipe.
LEMMA RepeatDelete ==
  ASSUME TypeOK, RepeatInv, NEW w \in Workers, notify_new_msg_callback(w)
  PROVE  RepeatInv'
<1>1. /\ UNCHANGED <<home, redisq, http_login, claimed>> /\ TasksStay /\ task'[w].op # "login"
      /\ \/ UNCHANGED <<at, bev_id, sub_map>>
         \/ \E id \in Ids : Deletes(w, id) /\ sub_map' = [sub_map EXCEPT ![w][id] = Nil]
  BY CallbackDeletes
<1>2. RedisStep(Other)
  BY <1>1 DEF RedisStep
<1>3. CASE UNCHANGED <<at, bev_id, sub_map>>
  BY <1>1, <1>2, <1>3, RepeatPassive
<1>4. ASSUME NEW id \in Ids, Deletes(w, id), sub_map' = [sub_map EXCEPT ![w][id] = Nil]
      PROVE  RepeatInv'
  <2>1. PICK D \in SUBSET Bevs :
          /\ \A b \in D : b = sub_map[w][id] /\ known(w, b)
          /\ \A a \in Bevs : at'[a] = IF a \in D THEN Nil ELSE at[a]
          /\ \A v \in Workers, a \in Bevs : bev_id'[v][a] = IF v = w /\ a \in D THEN Nil ELSE bev_id[v][a]
          /\ \A v \in Workers : v # w => bev_id'[v] = bev_id[v]
    BY <1>4, DeletesOne
  <2>2. FreesAll(w, D)
    BY <1>1, <2>1 DEF FreesAll
  <2>3. \A v \in Workers, i \in Ids : sub_map'[v][i] = sub_map[v][i] \/ sub_map'[v][i] = Nil
    BY <1>4 DEF TypeOK
  <2>. QED  BY <1>1, <1>2, <2>2, <2>3, RepeatFrees
<1>. QED  BY <1>1, <1>3, <1>4

\* ... over the acceptance of a connection: the address was free.
LEMMA RepeatConnect ==
  ASSUME TypeOK, RepeatInv, NEW w \in Workers, NEW c \in Conns, new_connection(w, c)
  PROVE  RepeatInv'
<1>. USE DEF RepeatInv
<1>1. PICK b \in Bevs :
        /\ at[b] = Nil
        /\ home' = [home EXCEPT ![c] = [w |-> w, bev |-> b]]
        /\ at' = [at EXCEPT ![b] = c]
        /\ bev_id' = [bev_id EXCEPT ![w][b] = IF @ = Nil THEN NoId ELSE @]
  BY DEF new_connection
<1>2. home[c] = Nil /\ UNCHANGED <<sub_map, task, redisq, http_login, claimed>>
  BY DEF new_connection
<1>3. /\ home'[c] = [w |-> w, bev |-> b] /\ \A d \in Conns : d # c => home'[d] = home[d]
      /\ \A a \in Bevs : at'[a] = IF a = b THEN c ELSE at[a]
      /\ \A v \in Workers, a \in Bevs : v # w \/ a # b => bev_id'[v][a] = bev_id[v][a]
  BY <1>1, IdsAssumption DEF TypeOK
<1>4. home'[c].w = w /\ home'[c] # Nil
  <2>1. [w |-> w, bev |-> b] \in [w: Workers, bev: Bevs]
    OBVIOUS
  <2>. QED  BY SMT, <1>3, <2>1, PlacesAssumption
<1>5. PacketsLast
  <2>1. \A d \in Conns : home[d] # Nil => home'[d] = home[d]
    BY <1>2, <1>3
  <2>2. \A d \in Conns : Len(claimed'[d]) \in Nat /\ Len(claimed[d]) <= Len(claimed'[d])
    BY SMT, <1>2 DEF TypeOK
  <2>. QED  BY <2>1, <2>2 DEF PacketsLast
<1>6. WaitInv' /\ \A p \in Conns \X Nat : Waits(p)' => Waits(p)
  BY <1>2, <1>5, WaitsFewer DEF RedisStep
<1>7. \A a \in Bevs : (Spent(a) => Spent(a)') /\ (Twice(a) => Twice(a)')
  BY <1>5, <1>6, PacketType, SpentStays
<1>8. ASSUME NEW v \in Workers, NEW a \in Bevs, Theirs(v, a) PROVE Theirs(v, a)'
  <2>1. at[a] # Nil /\ home[at[a]].w = v /\ home[at[a]] # Nil
    BY <1>8 DEF Theirs, AcceptedInv
  <2>2. a # b /\ at[a] # c /\ at[a] \in Conns
    BY <1>1, <1>2, <2>1 DEF TypeOK
  <2>3. at'[a] = at[a] /\ home'[at[a]] = home[at[a]]
    BY <1>3, <2>2
  <2>. QED  BY <2>1, <2>3 DEF Theirs
<1>9. Theirs(w, b)'
  BY <1>3, <1>4, BevsAssumption DEF Theirs
<1>10. \A v \in Workers : task[v].op = "login" => task[v].bev \in Bevs
  BY LoginPlace
<1>11. SpentInv'
  <2>1. ASSUME NEW v \in Workers, task[v].op = "login" PROVE Spent(task[v].bev)'
    <3>1. PICK a \in Bevs : a = task[v].bev /\ a = task'[v].bev
      BY <1>2, <1>10, <2>1
    <3>2. Spent(a)'
      BY <1>7, <2>1, <3>1 DEF SpentInv
    <3>. QED  BY <3>1, <3>2
  <2>2. ASSUME NEW v \in Workers, NEW i \in Ids, sub_map[v][i] # Nil
        PROVE  Spent(sub_map[v][i])'
    <3>1. sub_map[v][i] \in Bevs \cup {Nil} /\ sub_map'[v][i] = sub_map[v][i]
      BY <1>2, SubPlace
    <3>2. PICK a \in Bevs : a = sub_map'[v][i] /\ a = sub_map[v][i] /\ a # Nil
      BY <2>2, <3>1, SubPlace
    <3>3. Spent(a)'
      BY <1>7, <3>2 DEF SpentInv
    <3>. QED  BY <3>2, <3>3
  <2>. QED  BY <1>2, <2>1, <2>2 DEF SpentInv
<1>12. TheirsInv'
  <2>1. ASSUME NEW v \in Workers, NEW a \in Bevs, known(v, a)' PROVE Theirs(v, a)' \/ Twice(a)'
    <3>1. CASE v = w /\ a = b
      BY <1>9, <3>1
    <3>2. CASE v # w \/ a # b
      <4>1. known(v, a)
        BY <1>3, <2>1, <3>2 DEF known
      <4>. QED  BY <1>7, <1>8, <4>1 DEF TheirsInv
    <3>. QED  BY <3>1, <3>2
  <2>2. ASSUME NEW v \in Workers, task[v].op = "login"
        PROVE  Theirs(v, task[v].bev)' \/ Twice(task[v].bev)'
    <3>1. PICK a \in Bevs : a = task[v].bev /\ a = task'[v].bev
      BY <1>2, <1>10, <2>2
    <3>2. Theirs(v, a) \/ Twice(a)
      BY <2>2, <3>1 DEF TheirsInv
    <3>3. Theirs(v, a)' \/ Twice(a)'
      BY <1>7, <1>8, <3>2
    <3>. QED  BY <3>1, <3>3
  <2>. QED  BY <1>2, <2>1, <2>2 DEF TheirsInv
<1>13. AcceptedInv'
  <2>1. \A a \in Bevs : at'[a] # Nil => home'[at'[a]] # Nil
    <3>. SUFFICES ASSUME NEW a \in Bevs, at'[a] # Nil PROVE home'[at'[a]] # Nil
      OBVIOUS
    <3>1. CASE a = b
      BY <1>3, <1>4, <3>1
    <3>2. CASE a # b
      <4>1. at'[a] = at[a] /\ at[a] # Nil /\ home[at[a]] # Nil
        BY <1>3, <3>2 DEF AcceptedInv
      <4>2. at[a] \in Conns /\ at[a] # c
        BY <1>2, <4>1 DEF TypeOK
      <4>. QED  BY <1>3, <4>1, <4>2
    <3>. QED  BY <3>1, <3>2
  <2>. QED  BY <1>2, <2>1 DEF AcceptedInv
<1>. QED  BY <1>6, <1>11, <1>12, <1>13

\* ... over the registration of a login.
LEMMA RepeatFinish ==
  ASSUME TypeOK, RepeatInv, NEW w \in Workers, finish_login(w)
  PROVE  RepeatInv'
<1>. USE DEF RepeatInv
<1>. DEFINE b == task[w].bev
            id == task[w].id
<1>1. b \in Bevs /\ id \in Ids /\ task[w].op = "login"
  BY LoginPlace DEF finish_login
<1>2. Spent(b) /\ (Theirs(w, b) \/ Twice(b))
  BY <1>1 DEF SpentInv, TheirsInv
<1>3. /\ UNCHANGED <<home, at, claimed, http_login>> /\ task' = [task EXCEPT ![w] = Idle]
      /\ bev_id' = [bev_id EXCEPT ![w][b] = id]
      /\ sub_map' = [sub_map EXCEPT ![w][id] = IF @ = Nil THEN b ELSE @]
      /\ Ask(w, [cb |-> "online", id |-> id, bev |-> b])
  BY DEF finish_login
<1>. HIDE DEF b, id
<1>4. RedisStep(Other)
  <2>1. /\ [cb |-> "online", id |-> id, bev |-> b] \in Command
        /\ [cb |-> "online", id |-> id, bev |-> b].cb \in Other
    BY <1>1, OtherCommands DEF Other
  <2>. QED  BY <1>3, <2>1 DEF RedisStep
<1>5. PacketsLast
  BY <1>3, PacketsSame
<1>6. WaitInv' /\ \A p \in Conns \X Nat : Waits(p)' => Waits(p)
  BY <1>3, <1>4, <1>5, WaitsFewer
<1>7. \A a \in Bevs : (Spent(a) => Spent(a)') /\ (Twice(a) => Twice(a)')
  BY <1>5, <1>6, PacketType, SpentStays
<1>8. \A v \in Workers : task'[v].op = "login" => v # w /\ task'[v] = task[v] /\ task[v].bev \in Bevs
  <2>1. Idle.op # "login" /\ \A v \in Workers : task'[v] = IF v = w THEN Idle ELSE task[v]
    BY <1>3 DEF Idle, TypeOK
  <2>. QED  BY <2>1, LoginPlace
<1>9. \A v \in Workers, a \in Bevs : Theirs(v, a)' <=> Theirs(v, a)
  BY <1>3 DEF Theirs
<1>10. SpentInv'
  <2>1. ASSUME NEW v \in Workers, task'[v].op = "login" PROVE Spent(task[v].bev)'
    <3>1. PICK a \in Bevs : a = task[v].bev /\ a = task'[v].bev
      BY <1>8, <2>1
    <3>2. task[v].op = "login"
      BY <1>8, <2>1
    <3>3. Spent(a)'
      BY <1>7, <3>1, <3>2 DEF SpentInv
    <3>. QED  BY <3>1, <3>3
  <2>2. ASSUME NEW v \in Workers, NEW i \in Ids, sub_map'[v][i] # Nil
        PROVE  Spent(sub_map[v][i])'
    <3>1. sub_map'[v][i] = b \/ sub_map'[v][i] = sub_map[v][i]
      BY <1>1, <1>3 DEF TypeOK
    <3>2. sub_map[v][i] \in Bevs \cup {Nil}
      BY SubPlace
    <3>3. PICK a \in Bevs : a = sub_map'[v][i] /\ (a = b \/ (a = sub_map[v][i] /\ a # Nil))
      BY <1>1, <2>2, <3>1, <3>2
    <3>4. Spent(a)'
      BY <1>2, <1>7, <3>3 DEF SpentInv
    <3>. QED  BY <3>3, <3>4
  <2>. QED  BY <2>1, <2>2 DEF SpentInv
<1>11. TheirsInv'
  <2>1. ASSUME NEW v \in Workers, NEW a \in Bevs, known(v, a)' PROVE Theirs(v, a)' \/ Twice(a)'
    <3>1. CASE v = w /\ a = b
      BY <1>2, <1>7, <1>9, <3>1
    <3>2. CASE v # w \/ a # b
      <4>1. bev_id'[v][a] = bev_id[v][a]
        BY <1>1, <1>3, <3>2 DEF TypeOK
      <4>2. known(v, a)
        BY <2>1, <4>1 DEF known
      <4>. QED  BY <1>7, <1>9, <4>2 DEF TheirsInv
    <3>. QED  BY <3>1, <3>2
  <2>2. ASSUME NEW v \in Workers, task'[v].op = "login"
        PROVE  Theirs(v, task[v].bev)' \/ Twice(task[v].bev)'
    <3>1. PICK a \in Bevs : a = task[v].bev /\ a = task'[v].bev
      BY <1>8, <2>2
    <3>2. task[v].op = "login"
      BY <1>8, <2>2
    <3>3. Theirs(v, a) \/ Twice(a)
      BY <3>1, <3>2 DEF TheirsInv
    <3>4. Theirs(v, a)' \/ Twice(a)'
      BY <1>7, <1>9, <3>3
    <3>. QED  BY <3>1, <3>4
  <2>. QED  BY <2>1, <2>2 DEF TheirsInv
<1>12. AcceptedInv'
  BY <1>3 DEF AcceptedInv
<1>. QED  BY <1>6, <1>10, <1>11, <1>12

\* ... over the start of the loop over the workers, for a packet that no longer waits:
\* if the login that the id had is at the packet's own address, an earlier packet
\* from there has been used up.
LEMMA RepeatStart ==
  ASSUME TypeOK, RepeatInv, NEW w \in Workers, NEW d \in LoginData, NEW self,
         known(w, d.bev), start_login(w, d, self), UNCHANGED claimed,
         RedisStep(Other), http_login' \subseteq http_login,
         d.obj \in Packets(d.bev), Waits(d.obj), ~Waits(d.obj)'
  PROVE  RepeatInv'
<1>. USE DEF RepeatInv
<1>1. /\ UNCHANGED home /\ task' = [task EXCEPT ![w] = login_loop(d, self)]
      /\ Deletes(w, d.id) /\ sub_map' = [sub_map EXCEPT ![w][d.id] = Nil]
  BY DEF start_login, displace_local, close_bev, Deletes, forget_id
<1>2. PICK D \in SUBSET Bevs :
        /\ \A b \in D : b = sub_map[w][d.id] /\ known(w, b)
        /\ \A a \in Bevs : at'[a] = IF a \in D THEN Nil ELSE at[a]
        /\ \A v \in Workers, a \in Bevs : bev_id'[v][a] = IF v = w /\ a \in D THEN Nil ELSE bev_id[v][a]
        /\ \A v \in Workers : v # w => bev_id'[v] = bev_id[v]
  BY <1>1, DeletesOne
<1>3. FreesAll(w, D)
  BY <1>1, <1>2 DEF FreesAll
<1>4. d.id \in Ids /\ d.bev \in Bevs
  BY DEF LoginData
<1>5. PacketsLast
  BY <1>1, PacketsSame
<1>6. WaitInv' /\ \A p \in Conns \X Nat : Waits(p)' => Waits(p)
  BY <1>5, WaitsFewer
<1>7. \A a \in Bevs : (Spent(a) => Spent(a)') /\ (Twice(a) => Twice(a)')
  BY <1>5, <1>6, PacketType, SpentStays
<1>8. \A v \in Workers : task'[v] = IF v = w THEN login_loop(d, self) ELSE task[v]
  BY <1>1 DEF TypeOK
<1>9. task'[w].bev = d.bev
  <2>1. task'[w] = login_loop(d, self) /\ login_loop(d, self).bev = d.bev
    BY <1>8 DEF login_loop
  <2>. QED  BY <2>1
<1>10. Spent(d.bev)'
  <2>1. d.obj \in Packets(d.bev)'
    BY <1>5, PacketsGrow
  <2>. QED  BY <2>1 DEF Spent
<1>11. Theirs(w, d.bev)' \/ Twice(d.bev)'
  <2>1. CASE d.bev \in D
    <3>1. d.bev = sub_map[w][d.id] /\ d.bev # Nil
      BY <1>2, <1>4, <2>1, BevsAssumption
    <3>2. Spent(d.bev)
      BY <1>4, <3>1 DEF SpentInv
    <3>3. Twice(d.bev)
      BY <3>2 DEF Spent, Twice
    <3>. QED  BY <1>4, <1>7, <3>3
  <2>2. CASE d.bev \notin D
    <3>1. Theirs(w, d.bev) \/ Twice(d.bev)
      BY <1>4 DEF TheirsInv
    <3>. QED  BY <1>3, <1>4, <1>7, <2>2, <3>1, TheirsFree
  <2>. QED  BY <2>1, <2>2
<1>12. SpentInv'
  <2>1. ASSUME NEW v \in Workers, task'[v].op = "login" PROVE Spent(task[v].bev)'
    <3>1. CASE v = w
      BY <1>9, <1>10, <3>1
    <3>2. CASE v # w
      <4>1. task'[v] = task[v] /\ task[v].op = "login" /\ task[v].bev \in Bevs
        BY <1>8, <2>1, <3>2, LoginPlace
      <4>2. PICK a \in Bevs : a = task[v].bev /\ a = task'[v].bev
        BY <4>1
      <4>3. Spent(a)'
        BY <1>7, <4>1, <4>2 DEF SpentInv
      <4>. QED  BY <4>2, <4>3
    <3>. QED  BY <3>1, <3>2
  <2>2. ASSUME NEW v \in Workers, NEW i \in Ids, sub_map'[v][i] # Nil
        PROVE  Spent(sub_map[v][i])'
    <3>1. sub_map'[v][i] = sub_map[v][i]
      BY <1>1, <2>2 DEF TypeOK
    <3>2. PICK a \in Bevs : a = sub_map'[v][i] /\ a = sub_map[v][i] /\ a # Nil
      BY <2>2, <3>1, SubPlace
    <3>3. Spent(a)'
      BY <1>7, <3>2 DEF SpentInv
    <3>. QED  BY <3>2, <3>3
  <2>. QED  BY <2>1, <2>2 DEF SpentInv
<1>13. TheirsInv'
  <2>1. \A v \in Workers, b \in Bevs : known(v, b)' => Theirs(v, b)' \/ Twice(b)'
    BY <1>3, <1>7, KnownTheirs
  <2>2. ASSUME NEW v \in Workers, task'[v].op = "login"
        PROVE  Theirs(v, task[v].bev)' \/ Twice(task[v].bev)'
    <3>1. CASE v = w
      BY <1>9, <1>11, <3>1
    <3>2. CASE v # w
      <4>1. task'[v] = task[v] /\ task[v].op = "login" /\ task[v].bev \in Bevs
        BY <1>8, <2>2, <3>2, LoginPlace
      <4>2. PICK a \in Bevs : a = task[v].bev /\ a = task'[v].bev
        BY <4>1
      <4>3. Theirs(v, a) \/ Twice(a)
        BY <4>1, <4>2 DEF TheirsInv
      <4>4. Theirs(v, a)' \/ Twice(a)'
        BY <1>3, <1>7, <3>2, <4>3, TheirsFree
      <4>. QED  BY <4>2, <4>4
    <3>. QED  BY <3>1, <3>2
  <2>. QED  BY <2>1, <2>2 DEF TheirsInv
<1>14. AcceptedInv'
  BY <1>1, <1>2 DEF AcceptedInv
<1>. QED  BY <1>6, <1>12, <1>13, <1>14

\* A login that waits at Redis is for some address.
LEMMA WaitsFor ==
  ASSUME TypeOK, WaitInv, NEW w \in Workers, NEW p \in Conns \X Nat, Has(redisq[w], LoginsBy(p))
  PROVE  \E b \in Bevs : p \in Packets(b)
<1>1. PICK k \in 1 .. Len(redisq[w]) : redisq[w][k] \in LoginsBy(p)
  BY DEF Has
<1>2. redisq[w][k].data \in LoginData
  BY <1>1, CommandFields DEF LoginsBy
<1>3. redisq[w][k].data.bev \in Bevs
  BY <1>2 DEF LoginData
<1>4. Has(redisq[w], LoginsFrom(p, redisq[w][k].data.bev))
  BY <1>1 DEF Has, LoginsBy, LoginsFrom
<1>. QED  BY <1>3, <1>4 DEF WaitInv

\* The invariant if only the packets that wait, or were sent, change.
LEMMA RepeatWaits ==
  ASSUME TypeOK, RepeatInv, WaitInv', PacketsLast, UNCHANGED <<home, at, bev_id, sub_map, task>>,
         \A b \in Bevs : \A p \in Packets(b) : Waits(p)' => Waits(p),
         \A c \in Conns : Len(claimed'[c]) <= MaxLogins
  PROVE  RepeatInv'
<1>. USE DEF RepeatInv
<1>1. \A a \in Bevs : (Spent(a) => Spent(a)') /\ (Twice(a) => Twice(a)')
  BY SpentStays
<1>2. \A v \in Workers : task[v].op = "login" => task[v].bev \in Bevs
  BY LoginPlace
<1>3. SpentInv'
  <2>1. ASSUME NEW v \in Workers, task[v].op = "login" PROVE Spent(task[v].bev)'
    <3>1. PICK a \in Bevs : a = task[v].bev /\ a = task'[v].bev
      BY <1>2, <2>1
    <3>2. Spent(a)'
      BY <1>1, <2>1, <3>1 DEF SpentInv
    <3>. QED  BY <3>1, <3>2
  <2>2. ASSUME NEW v \in Workers, NEW i \in Ids, sub_map[v][i] # Nil
        PROVE  Spent(sub_map[v][i])'
    <3>1. PICK a \in Bevs : a = sub_map'[v][i] /\ a = sub_map[v][i] /\ a # Nil
      BY <2>2, SubPlace
    <3>2. Spent(a)'
      BY <1>1, <3>1 DEF SpentInv
    <3>. QED  BY <3>1, <3>2
  <2>. QED  BY <2>1, <2>2 DEF SpentInv
<1>4. TheirsInv'
  <2>1. ASSUME NEW v \in Workers, NEW a \in Bevs, known(v, a) PROVE Theirs(v, a)' \/ Twice(a)'
    <3>1. Theirs(v, a) \/ Twice(a)
      BY <2>1 DEF TheirsInv
    <3>. QED  BY <1>1, <3>1 DEF Theirs
  <2>2. ASSUME NEW v \in Workers, task[v].op = "login"
        PROVE  Theirs(v, task[v].bev)' \/ Twice(task[v].bev)'
    <3>1. PICK a \in Bevs : a = task[v].bev /\ a = task'[v].bev
      BY <1>2, <2>2
    <3>2. Theirs(v, a) \/ Twice(a)
      BY <2>2, <3>1 DEF TheirsInv
    <3>3. Theirs(v, a)' \/ Twice(a)'
      BY <1>1, <3>2 DEF Theirs
    <3>. QED  BY <3>1, <3>3
  <2>. QED  BY <2>1, <2>2 DEF TheirsInv, known
<1>5. AcceptedInv'
  BY DEF AcceptedInv
<1>. QED  BY <1>3, <1>4, <1>5

\* ... over a login packet, which is a new one.
LEMMA RepeatRead ==
  ASSUME TypeOK, RepeatInv, NEW c \in Conns, NEW id \in Ids, read_login(c, id)
  PROVE  RepeatInv'
<1>1. PICK w \in Workers, b \in Bevs : home[c] # Nil /\ home[c].w = w /\ home[c].bev = b
  BY OpenPlace DEF read_login
<1>. DEFINE n == Len(claimed[c]) + 1
            d == [id |-> id, bev |-> b, obj |-> <<c, n>>]
            q == [cb |-> "login", data |-> d]
<1>2. /\ Len(claimed[c]) < MaxLogins /\ Ask(w, q)
      /\ claimed' = [claimed EXCEPT ![c] = Append(@, id)]
      /\ UNCHANGED <<home, at, bev_id, sub_map, task, http_login>>
  BY <1>1 DEF read_login
<1>3. claimed[c] \in Seq(Ids) /\ claimed \in [Conns -> Seq(Ids)]
  BY DEF TypeOK
<1>4. /\ Len(claimed'[c]) = n /\ n \in Nat /\ n >= 1 /\ n <= MaxLogins /\ Len(claimed[c]) < n
      /\ \A e \in Conns : e # c => claimed'[e] = claimed[e]
      /\ \A e \in Conns : Len(claimed[e]) \in Nat
  BY SMT, <1>2, <1>3, BoundsAssumption
<1>5. PacketsLast
  <2>1. \A e \in Conns : Len(claimed'[e]) \in Nat /\ Len(claimed[e]) <= Len(claimed'[e])
    BY SMT, <1>4
  <2>. QED  BY <1>2, <2>1 DEF PacketsLast
<1>. DEFINE p0 == <<c, n>>
<1>6. p0 \in Conns \X Nat /\ p0[1] = c /\ p0[2] = n
  BY SMT, <1>4
<1>7. d \in LoginData /\ q \in Command /\ q.cb = "login" /\ q.data.obj = p0 /\ q.data.bev = b
  <2>1. d \in LoginData
    BY <1>1, <1>6 DEF LoginData
  <2>2. q \in Command
    BY <2>1 DEF Command
  <2>. QED  BY <2>1, <2>2
<1>8. p0 \in Packets(b)'
  <2>1. <<c, n>> \in {e \in Conns : home'[e] # Nil /\ home'[e].bev = b} \X (1 .. MaxLogins)
    <3>1. c \in {e \in Conns : home'[e] # Nil /\ home'[e].bev = b}
      BY <1>1, <1>2
    <3>2. n \in 1 .. MaxLogins
      BY SMT, <1>4, BoundsAssumption
    <3>. QED  BY <3>1, <3>2
  <2>2. n <= Len(claimed'[c])
    BY SMT, <1>4
  <2>3. p0 \in {e \in Conns : home'[e] # Nil /\ home'[e].bev = b} \X (1 .. MaxLogins)
        /\ p0[2] <= Len(claimed'[p0[1]])
    BY <1>6, <2>1, <2>2
  <2>. HIDE DEF n, p0
  <2>. QED  BY <2>3 DEF Packets
<1>. HIDE DEF q, d, p0, n
<1>9. \A a : p0 \notin Packets(a)
  <2>. SUFFICES ASSUME NEW a, p0 \in Packets(a) PROVE FALSE
    OBVIOUS
  <2>1. p0[2] <= Len(claimed[p0[1]])
    BY PacketFields
  <2>2. n <= Len(claimed[c])
    BY <1>6, <2>1
  <2>. QED  BY SMT, <1>4, <2>2
<1>10. WaitInv
  BY DEF RepeatInv
<1>11. ~Waits(p0)
  <2>1. \A v \in Workers : ~Has(redisq[v], LoginsBy(p0))
    BY <1>6, <1>9, <1>10, WaitsFor
  <2>2. \A h \in http_login : h.data.obj # p0
    <3>. SUFFICES ASSUME NEW h \in http_login, h.data.obj = p0 PROVE FALSE
      OBVIOUS
    <3>1. h.data.obj \in Packets(h.data.bev)
      BY <1>10 DEF WaitInv
    <3>2. p0 \in Packets(h.data.bev)
      BY <3>1
    <3>. QED  BY <1>9, <3>2
  <2>. QED  BY <2>1, <2>2 DEF Waits
<1>12. \A v \in Workers : redisq'[v] = IF v = w THEN Append(redisq[v], q) ELSE redisq[v]
  BY <1>1, <1>2 DEF Ask, TypeOK
<1>13. ASSUME NEW v \in Workers, NEW S
       PROVE  /\ Has(redisq'[v], S) => Has(redisq[v], S) \/ (v = w /\ q \in S)
              /\ Single(redisq[v], S) /\ (q \in S => ~Has(redisq[v], S)) => Single(redisq'[v], S)
  <2>1. redisq[v] \in Seq(Command)
    BY DEF TypeOK
  <2>2. /\ Has(Append(redisq[v], q), S) <=> Has(redisq[v], S) \/ q \in S
        /\ Single(redisq[v], S) /\ (q \in S => ~Has(redisq[v], S)) => Single(Append(redisq[v], q), S)
    BY <1>7, <2>1, QueueAppend
  <2>. QED  BY <1>12, <2>2
<1>14. \A p, a : (q \in LoginsBy(p) => p = p0) /\ (q \in LoginsFrom(p, a) => p = p0 /\ a = b)
  BY <1>7 DEF LoginsBy, LoginsFrom
<1>15. WaitInv'
  <2>1. \A v \in Workers, p \in Conns \X Nat, a \in Bevs :
          Has(redisq'[v], LoginsFrom(p, a)) => p \in Packets(a)'
    <3>. SUFFICES ASSUME NEW v \in Workers, NEW p \in Conns \X Nat, NEW a \in Bevs,
                         Has(redisq'[v], LoginsFrom(p, a))
                  PROVE  p \in Packets(a)'
      OBVIOUS
    <3>1. CASE Has(redisq[v], LoginsFrom(p, a))
      <4>1. p \in Packets(a)
        BY <1>10, <3>1 DEF WaitInv
      <4>. QED  BY <1>5, <4>1, PacketsGrow
    <3>2. CASE q \in LoginsFrom(p, a)
      BY <1>8, <1>14, <3>2
    <3>. QED  BY <1>13, <3>1, <3>2
  <2>2. \A h \in http_login' : h.data.obj \in Packets(h.data.bev)'
    BY <1>2, <1>5, <1>10, PacketsGrow DEF WaitInv
  <2>3. ASSUME NEW v \in Workers, NEW p \in Conns \X Nat
        PROVE  /\ Single(redisq'[v], LoginsBy(p))
               /\ \A u \in Workers : Has(redisq'[v], LoginsBy(p)) /\ Has(redisq'[u], LoginsBy(p)) => u = v
               /\ \A h \in http_login' : Has(redisq'[v], LoginsBy(p)) => h.data.obj # p
    <3>1. CASE p = p0
      <4>1. \A u \in Workers : ~Has(redisq[u], LoginsBy(p))
        BY <1>11, <3>1 DEF Waits
      <4>2. \A h \in http_login' : h.data.obj # p
        BY <1>2, <1>11, <3>1 DEF Waits
      <4>3. Single(redisq[v], LoginsBy(p))
        BY <1>10 DEF WaitInv
      <4>. QED  BY <1>13, <4>1, <4>2, <4>3
    <3>2. CASE p # p0
      <4>1. q \notin LoginsBy(p)
        BY <1>14, <3>2
      <4>2. /\ Single(redisq'[v], LoginsBy(p))
            /\ \A u \in Workers : Has(redisq'[u], LoginsBy(p)) => Has(redisq[u], LoginsBy(p))
        BY <1>10, <1>13, <4>1 DEF WaitInv
      <4>. QED  BY <1>2, <1>10, <4>2 DEF WaitInv
    <3>. QED  BY <3>1, <3>2
  <2>4. \A g, h \in http_login' : g.data.obj = h.data.obj => g = h
    BY <1>2, <1>10 DEF WaitInv
  <2>. QED  BY <2>1, <2>2, <2>3, <2>4 DEF WaitInv
<1>16. \A a \in Bevs : \A p \in Packets(a) : Waits(p)' => Waits(p)
  BY <1>2, <1>9, <1>13, <1>14 DEF Waits
<1>17. \A e \in Conns : Len(claimed'[e]) <= MaxLogins
  <2>1. \A e \in Conns : Len(claimed[e]) <= MaxLogins
    BY DEF RepeatInv, AcceptedInv
  <2>. QED  BY SMT, <1>4, <2>1
<1>. QED  BY <1>2, <1>5, <1>15, <1>16, <1>17, RepeatWaits

\* ... over the request that http_login_event posts once it is connected.
LEMMA RepeatConnected ==
  ASSUME TypeOK, RepeatInv, NEW h \in http_login, http_login_connected(h)
  PROVE  RepeatInv'
<1>. DEFINE g0 == [h EXCEPT !.stage = "posted"]
<1>1. /\ http_login' = (http_login \ {h}) \cup {g0}
      /\ UNCHANGED <<home, at, bev_id, sub_map, task, claimed, redisq>>
  BY DEF http_login_connected
<1>2. g0.data = h.data
  <2>1. h \in [w: Workers, data: LoginData, stage: {"connecting", "posted"}]
    BY DEF TypeOK
  <2>. QED  BY <2>1
<1>. HIDE DEF g0
<1>3. WaitInv
  BY DEF RepeatInv
<1>4. PacketsLast
  BY <1>1, PacketsSame
<1>5. \A b : Packets(b)' = Packets(b)
  BY <1>1 DEF Packets
<1>6. \A g \in http_login' : g = g0 \/ (g # h /\ g \in http_login)
  BY <1>1
<1>7. \A g \in http_login' : \E f \in http_login : f.data = g.data
  BY <1>2, <1>6
<1>8. WaitInv'
  <2>1. \A w \in Workers, p \in Conns \X Nat, b \in Bevs :
          Has(redisq'[w], LoginsFrom(p, b)) => p \in Packets(b)'
    BY <1>1, <1>3, <1>5 DEF WaitInv
  <2>2. ASSUME NEW g \in http_login' PROVE g.data.obj \in Packets(g.data.bev)'
    <3>1. PICK f \in http_login : f.data = g.data
      BY <1>7
    <3>2. f.data.obj \in Packets(f.data.bev)
      BY <1>3 DEF WaitInv
    <3>3. g.data.obj \in Packets(g.data.bev)
      BY <3>1, <3>2
    <3>. QED  BY <1>5, <3>3
  <2>3. ASSUME NEW w \in Workers, NEW p \in Conns \X Nat, NEW g \in http_login',
               Has(redisq'[w], LoginsBy(p))
        PROVE  g.data.obj # p
    <3>1. PICK f \in http_login : f.data = g.data
      BY <1>7
    <3>2. f.data.obj # p
      BY <1>1, <1>3, <2>3 DEF WaitInv
    <3>. QED  BY <3>1, <3>2
  <2>4. ASSUME NEW f \in http_login', NEW g \in http_login', f.data.obj = g.data.obj
        PROVE  f = g
    <3>1. \A x \in http_login' : x # g0 => x.data.obj # g0.data.obj
      <4>. SUFFICES ASSUME NEW x \in http_login', x # g0, x.data.obj = g0.data.obj PROVE FALSE
        OBVIOUS
      <4>1. x \in http_login /\ x # h
        BY <1>6
      <4>2. x.data.obj = h.data.obj
        BY <1>2
      <4>. QED  BY <1>3, <4>1, <4>2 DEF WaitInv
    <3>2. CASE f = g0 \/ g = g0
      BY <2>4, <3>1, <3>2
    <3>3. CASE f # g0 /\ g # g0
      BY <1>3, <1>6, <2>4, <3>3 DEF WaitInv
    <3>. QED  BY <3>2, <3>3
  <2>5. ASSUME NEW w \in Workers, NEW p \in Conns \X Nat
        PROVE  /\ Single(redisq'[w], LoginsBy(p))
               /\ \A v \in Workers : Has(redisq'[w], LoginsBy(p)) /\ Has(redisq'[v], LoginsBy(p)) => v = w
    BY <1>1, <1>3 DEF WaitInv
  <2>. QED  BY <2>1, <2>2, <2>3, <2>4, <2>5 DEF WaitInv
<1>9. \A b \in Bevs : \A p \in Packets(b) : Waits(p)' => Waits(p)
  <2>. SUFFICES ASSUME NEW p, Waits(p)' PROVE Waits(p)
    OBVIOUS
  <2>1. CASE \E w \in Workers : Has(redisq'[w], LoginsBy(p))
    BY <1>1, <2>1 DEF Waits
  <2>2. ASSUME NEW g \in http_login', g.data.obj = p PROVE Waits(p)
    <3>1. PICK f \in http_login : f.data = g.data
      BY <1>7
    <3>2. f.data.obj = p
      BY <2>2, <3>1
    <3>. QED  BY <3>2 DEF Waits
  <2>. QED  BY <2>1, <2>2 DEF Waits
<1>10. \A c \in Conns : Len(claimed'[c]) <= MaxLogins
  BY <1>1 DEF RepeatInv, AcceptedInv
<1>. QED  BY <1>1, <1>4, <1>8, <1>9, <1>10, RepeatWaits

\* The login at the head of a worker's queue: once it is taken off, Redis has no other
\* for the packet, and neither has HTTP.
LEMMA HeadWaits ==
  ASSUME TypeOK, WaitInv, NEW w \in Workers, NEW d \in LoginData,
         redisq[w] # << >>, Head(redisq[w]) \in Command,
         Head(redisq[w]).cb = "login", Head(redisq[w]).data = d,
         redisq' = [redisq EXCEPT ![w] = Tail(@)]
  PROVE  /\ d.obj \in Packets(d.bev) /\ Waits(d.obj)
         /\ \A v \in Workers : ~Has(redisq'[v], LoginsBy(d.obj))
         /\ \A h \in http_login : h.data.obj # d.obj
<1>. DEFINE p == d.obj
<1>1. p \in Conns \X Nat /\ d.bev \in Bevs
  BY DEF LoginData
<1>2. Head(redisq[w]) \in LoginsBy(p) /\ Head(redisq[w]) \in LoginsFrom(p, d.bev)
  BY DEF LoginsBy, LoginsFrom
<1>. HIDE DEF p
<1>3. redisq[w] \in Seq(Command)
  BY DEF TypeOK
<1>4. Has(redisq[w], LoginsBy(p)) /\ Has(redisq[w], LoginsFrom(p, d.bev))
  BY <1>2, <1>3, QueueTail
<1>5. p \in Packets(d.bev) /\ Waits(p)
  BY <1>1, <1>4 DEF WaitInv, Waits
<1>6. ~Has(Tail(redisq[w]), LoginsBy(p))
  <2>1. Single(redisq[w], LoginsBy(p))
    BY <1>1 DEF WaitInv
  <2>. QED  BY <1>2, <1>3, <2>1, QueueTail
<1>7. \A v \in Workers : redisq'[v] = IF v = w THEN Tail(redisq[w]) ELSE redisq[v]
  BY DEF TypeOK
<1>8. \A v \in Workers : ~Has(redisq'[v], LoginsBy(p))
  BY <1>1, <1>4, <1>6, <1>7 DEF WaitInv
<1>9. \A h \in http_login : h.data.obj # p
  BY <1>1, <1>4 DEF WaitInv
<1>. QED  BY <1>5, <1>8, <1>9 DEF p

\* ... over a login that Redis knows nothing of, and that HTTP is asked about.
LEMMA RepeatPasses ==
  ASSUME TypeOK, RepeatInv, NEW w \in Workers, NEW d \in LoginData,
         redisq[w] # << >>, Head(redisq[w]) \in Command,
         Head(redisq[w]).cb = "login", Head(redisq[w]).data = d,
         redisq' = [redisq EXCEPT ![w] = Tail(@)],
         UNCHANGED <<home, at, bev_id, sub_map, task, claimed>>,
         http_login' = http_login \cup {[w |-> w, data |-> d, stage |-> "connecting"]}
  PROVE  RepeatInv'
<1>. DEFINE g0 == [w |-> w, data |-> d, stage |-> "connecting"]
<1>1. http_login' = http_login \cup {g0} /\ g0.data = d
  OBVIOUS
<1>. HIDE DEF g0
<1>2. WaitInv
  BY DEF RepeatInv
<1>3. /\ d.obj \in Packets(d.bev) /\ Waits(d.obj)
      /\ \A v \in Workers : ~Has(redisq'[v], LoginsBy(d.obj))
      /\ \A h \in http_login : h.data.obj # d.obj
  BY <1>2, HeadWaits
<1>4. PacketsLast
  BY PacketsSame
<1>5. \A b : Packets(b)' = Packets(b)
  BY DEF Packets
<1>6. RedisStep(Other)
  BY DEF RedisStep
<1>7. ASSUME NEW v \in Workers, NEW S, \A q \in S : q.cb \notin Other
      PROVE  /\ Has(redisq'[v], S) => Has(redisq[v], S)
             /\ Single(redisq[v], S) => Single(redisq'[v], S)
  BY <1>6, <1>7, AskedOther
<1>8. \A p, b : (\A q \in LoginsBy(p) : q.cb \notin Other) /\ (\A q \in LoginsFrom(p, b) : q.cb \notin Other)
  <2>1. "login" \notin Other
    BY DEF Other
  <2>. QED  BY <2>1 DEF LoginsBy, LoginsFrom
<1>9. WaitInv'
  <2>1. \A v \in Workers, p \in Conns \X Nat, b \in Bevs :
          Has(redisq'[v], LoginsFrom(p, b)) => p \in Packets(b)'
    BY <1>2, <1>5, <1>7, <1>8 DEF WaitInv
  <2>2. ASSUME NEW g \in http_login' PROVE g.data.obj \in Packets(g.data.bev)'
    <3>1. CASE g = g0
      BY <1>1, <1>3, <1>5, <3>1
    <3>2. CASE g \in http_login
      BY <1>2, <1>5, <3>2 DEF WaitInv
    <3>. QED  BY <1>1, <3>1, <3>2
  <2>3. ASSUME NEW v \in Workers, NEW p \in Conns \X Nat, NEW g \in http_login',
               Has(redisq'[v], LoginsBy(p))
        PROVE  g.data.obj # p
    <3>1. p # d.obj /\ Has(redisq[v], LoginsBy(p))
      BY <1>3, <1>7, <1>8, <2>3
    <3>2. CASE g = g0
      BY <1>1, <3>1, <3>2
    <3>3. CASE g \in http_login
      BY <1>2, <3>1, <3>3 DEF WaitInv
    <3>. QED  BY <1>1, <3>2, <3>3
  <2>4. ASSUME NEW f \in http_login', NEW g \in http_login', f.data.obj = g.data.obj
        PROVE  f = g
    <3>1. \A x \in http_login' : x = g0 \/ (x \in http_login /\ x.data.obj # g0.data.obj)
      BY <1>1, <1>3
    <3>2. CASE f \in http_login /\ g \in http_login
      BY <1>2, <2>4, <3>2 DEF WaitInv
    <3>. QED  BY <2>4, <3>1, <3>2
  <2>5. ASSUME NEW v \in Workers, NEW p \in Conns \X Nat
        PROVE  /\ Single(redisq'[v], LoginsBy(p))
               /\ \A u \in Workers : Has(redisq'[v], LoginsBy(p)) /\ Has(redisq'[u], LoginsBy(p)) => u = v
    BY <1>2, <1>7, <1>8 DEF WaitInv
  <2>. QED  BY <2>1, <2>2, <2>3, <2>4, <2>5 DEF WaitInv
<1>10. \A b \in Bevs : \A p \in Packets(b) : Waits(p)' => Waits(p)
  <2>. SUFFICES ASSUME NEW p, Waits(p)' PROVE Waits(p)
    OBVIOUS
  <2>1. ASSUME NEW v \in Workers, Has(redisq'[v], LoginsBy(p)) PROVE Waits(p)
    BY <1>7, <1>8, <2>1 DEF Waits
  <2>2. ASSUME NEW g \in http_login', g.data.obj = p PROVE Waits(p)
    <3>1. CASE g = g0
      BY <1>1, <1>3, <2>2, <3>1
    <3>2. CASE g \in http_login
      BY <2>2, <3>2 DEF Waits
    <3>. QED  BY <1>1, <3>1, <3>2
  <2>. QED  BY <2>1, <2>2 DEF Waits
<1>11. \A c \in Conns : Len(claimed'[c]) <= MaxLogins
  BY DEF RepeatInv, AcceptedInv
<1>. QED  BY <1>4, <1>9, <1>10, <1>11, RepeatWaits

\* ... over the Redis answer to a login.
LEMMA RepeatRedis ==
  ASSUME TypeOK, RepeatInv, NEW w \in Workers, redis_login_callback(w)
  PROVE  RepeatInv'
<1>1. PICK d \in LoginData :
        /\ redisq[w] # << >> /\ Head(redisq[w]) \in Command
        /\ Head(redisq[w]).cb = "login" /\ Head(redisq[w]).data = d
        /\ redisq' = [redisq EXCEPT ![w] = Tail(@)] /\ UNCHANGED claimed
        /\ \/ UNCHANGED <<home, at, bev_id, sub_map, conn_num, task, http_login>>
           \/ /\ UNCHANGED <<home, at, bev_id, sub_map, conn_num, task>>
              /\ http_login' = http_login \cup {[w |-> w, data |-> d, stage |-> "connecting"]}
           \/ known(w, d.bev) /\ start_login(w, d, FALSE) /\ UNCHANGED http_login
  BY RedisAnswers
<1>2. RedisStep(Other)
  BY <1>1 DEF RedisStep
<1>3. CASE UNCHANGED <<home, at, bev_id, sub_map, conn_num, task, http_login>>
  <2>1. TasksStay
    BY <1>3 DEF TasksStay
  <2>. QED  BY <1>1, <1>2, <1>3, <2>1, RepeatPassive
<1>4. CASE /\ UNCHANGED <<home, at, bev_id, sub_map, conn_num, task>>
           /\ http_login' = http_login \cup {[w |-> w, data |-> d, stage |-> "connecting"]}
  BY <1>1, <1>4, RepeatPasses
<1>5. CASE known(w, d.bev) /\ start_login(w, d, FALSE) /\ UNCHANGED http_login
  <2>1. /\ d.obj \in Packets(d.bev) /\ Waits(d.obj)
        /\ \A v \in Workers : ~Has(redisq'[v], LoginsBy(d.obj))
        /\ \A h \in http_login : h.data.obj # d.obj
    BY <1>1, HeadWaits DEF RepeatInv
  <2>2. ~Waits(d.obj)'
    BY <1>5, <2>1 DEF Waits
  <2>. QED  BY <1>1, <1>2, <1>5, <2>1, <2>2, RepeatStart
<1>. QED  BY <1>1, <1>3, <1>4, <1>5

\* ... over the HTTP answer.
LEMMA RepeatHttp ==
  ASSUME TypeOK, RepeatInv, NEW h \in http_login, http_login_read(h)
  PROVE  RepeatInv'
<1>1. /\ h.w \in Workers /\ h.data \in LoginData
      /\ http_login' = http_login \ {h} /\ UNCHANGED <<redisq, claimed>>
      /\ \/ UNCHANGED <<home, at, bev_id, sub_map, conn_num, task>>
         \/ known(h.w, h.data.bev) /\ start_login(h.w, h.data, TRUE)
  BY HttpAnswers
<1>2. RedisStep(Other) /\ http_login' \subseteq http_login
  BY <1>1 DEF RedisStep
<1>3. CASE UNCHANGED <<home, at, bev_id, sub_map, conn_num, task>>
  <2>1. TasksStay
    BY <1>3 DEF TasksStay
  <2>. QED  BY <1>1, <1>2, <1>3, <2>1, RepeatPassive
<1>4. CASE known(h.w, h.data.bev) /\ start_login(h.w, h.data, TRUE)
  <2>1. WaitInv
    BY DEF RepeatInv
  <2>2. h.data.obj \in Packets(h.data.bev) /\ Waits(h.data.obj) /\ h.data.obj \in Conns \X Nat
    BY <1>1, <2>1 DEF WaitInv, Waits, LoginData
  <2>3. \A v \in Workers : ~Has(redisq'[v], LoginsBy(h.data.obj))
    BY <1>1, <2>1, <2>2 DEF WaitInv
  <2>4. \A g \in http_login' : g.data.obj # h.data.obj
    BY <1>1, <2>1 DEF WaitInv
  <2>5. PICK w \in Workers, d \in LoginData : w = h.w /\ d = h.data
    BY <1>1
  <2>6. ~Waits(d.obj)'
    BY <2>3, <2>4, <2>5 DEF Waits
  <2>7. /\ known(w, d.bev) /\ start_login(w, d, TRUE)
        /\ d.obj \in Packets(d.bev) /\ Waits(d.obj)
    BY <1>4, <2>2, <2>5
  <2>. QED  BY <1>1, <1>2, <2>6, <2>7, RepeatStart
<1>. QED  BY <1>1, <1>3, <1>4

\* The inductive step, one case per action that is not passive.
LEMMA RepeatStep ==
  ASSUME TypeOK, OpenKnown, RepeatInv, [Next]_vars
  PROVE  RepeatInv'
<1>1. CASE Passive
  BY <1>1, RepeatPassive DEF Passive
<1>. QED  BY <1>1, PassiveActions, RepeatConnect, RepeatClose, RepeatRead, RepeatConnected,
            RepeatHttp, RepeatExpire, RepeatFinish, RepeatRedis, RepeatDelete

\* For any number of workers and clients, and even if the allocator reuses addresses:
\* an address that a worker still knows after it was freed is one that two login
\* packets came from; one login per connection, on an address of its own, leaves no
\* such entry behind.
THEOREM FreedByRepeatOnly == Spec => []FreedOnlyByRepeat
<1>1. ASSUME Init PROVE OpenKnown /\ CountInv /\ RepeatInv
  <2>1. WaitInv
    <3>1. \A w \in Workers : \A S : Single(redisq[w], S) /\ ~Has(redisq[w], S)
      BY SMT, <1>1 DEF Init, Single, Has
    <3>2. http_login = {}
      BY <1>1 DEF Init
    <3>. QED  BY <3>1, <3>2 DEF WaitInv
  <2>2. SpentInv /\ TheirsInv
    <3>1. \A w \in Workers : task[w].op # "login"
      BY <1>1 DEF Init, Idle
    <3>2. \A w \in Workers, b \in Bevs : ~known(w, b)
      BY <1>1 DEF Init, known
    <3>3. \A w \in Workers, i \in Ids : sub_map[w][i] = Nil
      BY <1>1 DEF Init
    <3>. QED  BY <3>1, <3>2, <3>3 DEF SpentInv, TheirsInv
  <2>3. AcceptedInv
    BY SMT, <1>1, BoundsAssumption DEF Init, AcceptedInv
  <2>. QED  BY <1>1, <2>1, <2>2, <2>3, CountInit DEF RepeatInv
<1>2. TypeOK /\ OpenKnown /\ CountInv /\ RepeatInv /\ [Next]_vars
        => OpenKnown' /\ CountInv' /\ RepeatInv'
  BY CountStep, RepeatStep
<1>3. RepeatInv => FreedOnlyByRepeat
  BY FreedTwice DEF RepeatInv
<1>. QED  BY <1>1, <1>2, <1>3, TypeCorrect, PTL DEF Spec
=============================================================================
