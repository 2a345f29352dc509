--------------------------- MODULE Clients_proofs ---------------------------
(* What a client can rely on: who is logged in, and under which id; and that  *)
(* a message is in one place and delivered once.  For any number of workers,  *)
(* connections, ids, addresses and messages.                                  *)
EXTENDS WorkThread_proofs

\* Zenon proves the leaves that name no other prover.
USE Zenon

USE DEF registry, pending, running, client, vars

-----------------------------------------------------------------------------
(* Who is logged in.  If no address is used twice and a connection sends one  *)
(* login packet, the two maps of a worker describe the same logins, and each  *)
(* is one that the connection asked for.                                      *)

\* An address belongs to the one connection that got it when it was accepted.
Placed ==
  /\ \A c, d \in Conns : home[c] # Nil /\ home[d] # Nil /\ home[c].bev = home[d].bev => c = d
  /\ \A b \in Bevs : at[b] # Nil => home[at[b]] # Nil /\ home[at[b]].bev = b

\* What _bev_id knows is a connection of this worker, and open.
Served ==
  \A w \in Workers, b \in Bevs :
    bev_id[w][b] # Nil => at[b] # Nil /\ home[at[b]] = [w |-> w, bev |-> b]

\* A connection of worker w, with the address b, has sent a login packet for the id.
Sent(w, id, b) ==
  \E c \in Conns : home[c] = [w |-> w, bev |-> b] /\ \E k \in DOMAIN claimed[c] : claimed[c][k] = id

\* The stages of a login: Redis is asked, HTTP is asked, and the loop over the workers.
Stages == {"redis", "http", "task"}

LoginsOf(id, b) == {q \in Command : q.cb = "login" /\ q.data.id = id /\ q.data.bev = b}
LoginsAt(b) == {q \in Command : q.cb = "login" /\ q.data.bev = b}

Underway(s, w, id, b) ==
  \/ s = "redis" /\ Has(redisq[w], LoginsOf(id, b))
  \/ s = "http" /\ \E h \in http_login : h.w = w /\ h.data.id = id /\ h.data.bev = b
  \/ s = "task" /\ task[w].op = "login" /\ task[w].id = id /\ task[w].bev = b

\* A login under way is one its connection asked for, and not registered yet.
LoginsOwn ==
  \A s \in Stages, w \in Workers, id \in Ids, b \in Bevs :
    Underway(s, w, id, b) => Sent(w, id, b) /\ bev_id[w][b] \notin Ids

\* A connection has one login under way, and it is at one stage.
Singles ==
  /\ \A w \in Workers, b \in Bevs : Single(redisq[w], LoginsAt(b))
  /\ \A g, h \in http_login : g.data.bev = h.data.bev => g = h

OneStage ==
  \A s, t \in Stages, w, v \in Workers, i, j \in Ids, b \in Bevs :
    Underway(s, w, i, b) /\ Underway(t, v, j, b) => s = t

\* The connection whose login a worker is completing stays open.
TaskOpen == \A w \in Workers : task[w].op = "login" => at[task[w].bev] # Nil

MapsInv == Placed /\ Served /\ NoDangling /\ Authentic
StageInv == LoginsOwn /\ Singles /\ OneStage
LoginInv == MapsInv /\ StageInv /\ TaskOpen

\* No login starts or goes on to its next stage.
FewerLogins ==
  /\ \A v \in Workers : task'[v].op = "login" =>
       task[v].op = "login" /\ task'[v].id = task[v].id /\ task'[v].bev = task[v].bev
  /\ http_login' \subseteq http_login
  /\ \A v \in Workers, b \in Bevs :
       /\ \A id \in Ids : Has(redisq'[v], LoginsOf(id, b)) => Has(redisq[v], LoginsOf(id, b))
       /\ Single(redisq[v], LoginsAt(b)) => Single(redisq'[v], LoginsAt(b))

\* Connections keep their place, and what was claimed stays claimed.
Lasting ==
  /\ \A c \in Conns : home[c] # Nil => home'[c] = home[c]
  /\ \A c \in Conns : \A k \in DOMAIN claimed[c] :
       k \in DOMAIN claimed'[c] /\ claimed'[c][k] = claimed[c][k]

\* A login packet that was sent stays sent.
LEMMA SentLasts ==
  ASSUME Lasting, NEW w \in Workers, NEW id, NEW b \in Bevs, Sent(w, id, b)
  PROVE  Sent(w, id, b)'
<1>1. PICK c \in Conns : /\ home[c] = [w |-> w, bev |-> b]
                         /\ \E k \in DOMAIN claimed[c] : claimed[c][k] = id
  BY DEF Sent
<1>2. home[c] # Nil
  BY SMT, <1>1, PlacesAssumption
<1>3. home'[c] = home[c]
  BY <1>2 DEF Lasting
<1>. QED  BY <1>1, <1>3 DEF Sent, Lasting

\* Fewer logins: what is under way was under way, and once.
LEMMA UnderwayLess ==
  ASSUME TypeOK, FewerLogins
  PROVE  /\ \A s \in Stages, w \in Workers, id \in Ids, b \in Bevs :
              Underway(s, w, id, b)' => Underway(s, w, id, b)
         /\ Singles => Singles'
<1>1. ASSUME NEW s \in Stages, NEW w \in Workers, NEW id \in Ids, NEW b \in Bevs,
             Underway(s, w, id, b)'
      PROVE  Underway(s, w, id, b)
  BY <1>1 DEF Underway, FewerLogins
<1>2. Singles => Singles'
  BY DEF Singles, FewerLogins
<1>. QED  BY <1>1, <1>2

\* Logins under way are left alone or go.
LEMMA StagesStay ==
  ASSUME TypeOK, StageInv, FewerLogins, Lasting,
         \A w \in Workers, b \in Bevs : bev_id'[w][b] \in Ids => bev_id[w][b] \in Ids
  PROVE  StageInv'
<1>1. /\ \A s \in Stages, w \in Workers, id \in Ids, b \in Bevs :
           Underway(s, w, id, b)' => Underway(s, w, id, b)
      /\ Singles'
  BY UnderwayLess DEF StageInv
<1>2. OneStage'
  <2>. SUFFICES ASSUME NEW s \in Stages, NEW r \in Stages, NEW w \in Workers, NEW v \in Workers,
                       NEW x \in Ids, NEW y \in Ids, NEW b \in Bevs,
                       Underway(s, w, x, b)', Underway(r, v, y, b)'
                PROVE  s = r
    BY DEF OneStage
  <2>1. Underway(s, w, x, b) /\ Underway(r, v, y, b)
    BY <1>1
  <2>. QED  BY <2>1 DEF OneStage, StageInv
<1>3. LoginsOwn'
  <2>. SUFFICES ASSUME NEW s \in Stages, NEW w \in Workers, NEW id \in Ids, NEW b \in Bevs,
                       Underway(s, w, id, b)'
                PROVE  Sent(w, id, b)' /\ bev_id'[w][b] \notin Ids
    BY DEF LoginsOwn
  <2>1. Sent(w, id, b) /\ bev_id[w][b] \notin Ids
    BY <1>1 DEF LoginsOwn, StageInv
  <2>. QED  BY <2>1, SentLasts
<1>. QED  BY <1>1, <1>2, <1>3 DEF StageInv

\* The login of one address is taken to a stage; the others are left alone.
LEMMA StageMoves ==
  ASSUME TypeOK, StageInv, Singles', Lasting,
         NEW t \in Stages, NEW u \in Workers, NEW i \in Ids, NEW a \in Bevs,
         Sent(u, i, a)', bev_id'[u][a] \notin Ids,
         \A s \in Stages, w \in Workers, id \in Ids, b \in Bevs : Underway(s, w, id, b)' =>
           \/ b # a /\ Underway(s, w, id, b)
           \/ s = t /\ w = u /\ id = i /\ b = a,
         \A w \in Workers, b \in Bevs : bev_id'[w][b] \in Ids => bev_id[w][b] \in Ids
  PROVE  StageInv'
<1>1. OneStage'
  <2>. SUFFICES ASSUME NEW s \in Stages, NEW r \in Stages, NEW w \in Workers, NEW v \in Workers,
                       NEW x \in Ids, NEW y \in Ids, NEW b \in Bevs,
                       Underway(s, w, x, b)', Underway(r, v, y, b)'
                PROVE  s = r
    BY DEF OneStage
  <2>1. CASE b = a
    BY <2>1
  <2>2. CASE b # a
    BY <2>2 DEF OneStage, StageInv
  <2>. QED  BY <2>1, <2>2
<1>2. LoginsOwn'
  <2>. SUFFICES ASSUME NEW s \in Stages, NEW w \in Workers, NEW id \in Ids, NEW b \in Bevs,
                       Underway(s, w, id, b)'
                PROVE  Sent(w, id, b)' /\ bev_id'[w][b] \notin Ids
    BY DEF LoginsOwn
  <2>1. CASE b # a /\ Underway(s, w, id, b)
    BY <2>1, SentLasts DEF LoginsOwn, StageInv
  <2>. QED  BY <2>1
<1>. QED  BY <1>1, <1>2 DEF StageInv

\* The login of one address is registered or dropped.
LEMMA StageEnds ==
  ASSUME TypeOK, StageInv, Singles', Lasting, NEW a \in Bevs,
         \A s \in Stages, w \in Workers, id \in Ids, b \in Bevs :
           Underway(s, w, id, b)' => b # a /\ Underway(s, w, id, b),
         \A w \in Workers, b \in Bevs : b # a /\ bev_id'[w][b] \in Ids => bev_id[w][b] \in Ids
  PROVE  StageInv'
<1>1. OneStage'
  <2>. SUFFICES ASSUME NEW s \in Stages, NEW r \in Stages, NEW w \in Workers, NEW v \in Workers,
                       NEW x \in Ids, NEW y \in Ids, NEW b \in Bevs,
                       Underway(s, w, x, b)', Underway(r, v, y, b)'
                PROVE  s = r
    BY DEF OneStage
  <2>1. Underway(s, w, x, b) /\ Underway(r, v, y, b)
    OBVIOUS
  <2>. QED  BY <2>1 DEF OneStage, StageInv
<1>2. LoginsOwn'
  <2>. SUFFICES ASSUME NEW s \in Stages, NEW w \in Workers, NEW id \in Ids, NEW b \in Bevs,
                       Underway(s, w, id, b)'
                PROVE  Sent(w, id, b)' /\ bev_id'[w][b] \notin Ids
    BY DEF LoginsOwn
  <2>1. b # a /\ Sent(w, id, b) /\ bev_id[w][b] \notin Ids
    BY DEF LoginsOwn, StageInv
  <2>. QED  BY <2>1, SentLasts
<1>. QED  BY <1>1, <1>2 DEF StageInv

\* Worker w frees the bufferevents D, which are connections of its own, forgets
\* them in _bev_id, and drops their Subscribers and perhaps others.
Closes(w, D) ==
  /\ \A b \in Bevs : at'[b] = IF b \in D THEN Nil ELSE at[b]
  /\ \A v \in Workers, b \in Bevs : bev_id'[v][b] = IF v = w /\ b \in D THEN Nil ELSE bev_id[v][b]
  /\ \A v \in Workers, i \in Ids : sub_map'[v][i] = sub_map[v][i] \/ sub_map'[v][i] = Nil
  /\ \A i \in Ids : sub_map[w][i] \in D => sub_map'[w][i] = Nil
  /\ \A b \in D : \E c \in Conns : home[c] = [w |-> w, bev |-> b]
  /\ UNCHANGED <<home, claimed>>

\* An address of another worker is not among them.
LEMMA ClosesOwn ==
  ASSUME Placed, NEW w \in Workers, NEW D \in SUBSET Bevs, Closes(w, D),
         NEW v \in Workers, NEW b \in D, NEW c \in Conns, home[c] = [w |-> v, bev |-> b]
  PROVE  v = w
<1>1. PICK d \in Conns : home[d] = [w |-> w, bev |-> b]
  BY DEF Closes
<1>2. b \in Bevs
  OBVIOUS
<1>3. home[c] # Nil /\ home[d] # Nil
  BY SMT, <1>1, <1>2, PlacesAssumption
<1>4. home[c].bev = b /\ home[d].bev = b /\ home[c].w = v /\ home[d].w = w
  BY SMT, <1>1
<1>5. c = d
  BY <1>3, <1>4 DEF Placed
<1>. QED  BY <1>4, <1>5

\* A Subscriber is one of an open connection of the worker.
LEMMA Subscribed ==
  ASSUME NoDangling, NEW w \in Workers, NEW i \in Ids, sub_map[w][i] # Nil
  PROVE  /\ bev_id[w][sub_map[w][i]] = i /\ at[sub_map[w][i]] # Nil
         /\ home[at[sub_map[w][i]]] = [w |-> w, bev |-> sub_map[w][i]]
BY DEF NoDangling

\* Closing keeps the maps in agreement.
LEMMA MapsClose ==
  ASSUME TypeOK, MapsInv, NEW w \in Workers, NEW D \in SUBSET Bevs, Closes(w, D)
  PROVE  MapsInv'
<1>. USE DEF MapsInv
<1>1. Placed'
  BY BevsAssumption DEF Placed, Closes
<1>2. \A v \in Workers, b \in Bevs : bev_id[v][b] # Nil /\ b \in D => v = w
  <2>. SUFFICES ASSUME NEW v \in Workers, NEW b \in D, bev_id[v][b] # Nil PROVE v = w
    OBVIOUS
  <2>1. at[b] # Nil /\ home[at[b]] = [w |-> v, bev |-> b] /\ at[b] \in Conns
    BY SMT, BevsAssumption DEF Served, TypeOK
  <2>. QED  BY <2>1, ClosesOwn
<1>3. Served'
  BY SMTT(30), <1>2 DEF Served, Closes
<1>4. Authentic'
  BY SMTT(30), <1>2, IdsAssumption DEF Authentic, Closes
<1>5. NoDangling'
  <2>. SUFFICES ASSUME NEW v \in Workers, NEW i \in Ids, sub_map'[v][i] # Nil
                PROVE  /\ bev_id'[v][sub_map'[v][i]] = i /\ at'[sub_map'[v][i]] # Nil
                       /\ home'[at'[sub_map'[v][i]]] = [w |-> v, bev |-> sub_map'[v][i]]
    BY ZenonT(30) DEF NoDangling
  <2>0. sub_map'[v][i] = sub_map[v][i]
    BY DEF Closes
  <2>1. PICK b \in Bevs : b = sub_map[v][i] /\ b = sub_map'[v][i] /\ b # Nil
    BY SMT, <2>0 DEF TypeOK
  <2>2. bev_id[v][b] = i /\ at[b] # Nil /\ home[at[b]] = [w |-> v, bev |-> b]
    <3>1. /\ bev_id[v][sub_map[v][i]] = i /\ at[sub_map[v][i]] # Nil
          /\ home[at[sub_map[v][i]]] = [w |-> v, bev |-> sub_map[v][i]]
      BY <2>1, Subscribed
    <3>. QED  BY <2>1, <3>1
  <2>3. bev_id[v][b] # Nil
    BY <2>2, IdsAssumption
  <2>4. b \notin D
    <3>1. v = w /\ b \in D => sub_map'[v][i] = Nil
      BY <2>1 DEF Closes
    <3>. QED  BY <1>2, <2>1, <2>3, <3>1
  <2>5. bev_id'[v][b] = bev_id[v][b] /\ at'[b] = at[b] /\ home' = home
    BY <2>4 DEF Closes
  <2>. QED  BY <2>1, <2>2, <2>5
<1>. QED  BY <1>1, <1>3, <1>4, <1>5

\* If no login is asked for, checked by HTTP or taken up, none is new at any stage.
LEMMA LoginsFewer ==
  ASSUME TypeOK, TasksStay, http_login' \subseteq http_login, RedisStep(Other)
  PROVE  FewerLogins
<1>1. "login" \notin Other
  BY DEF Other
<1>2. \A id \in Ids, b \in Bevs : \A q \in LoginsOf(id, b) : q.cb \notin Other
  BY <1>1 DEF LoginsOf
<1>3. \A b \in Bevs : \A q \in LoginsAt(b) : q.cb \notin Other
  BY <1>1 DEF LoginsAt
<1>4. ASSUME NEW v \in Workers, NEW b \in Bevs, NEW id \in Ids,
             Has(redisq'[v], LoginsOf(id, b))
      PROVE  Has(redisq[v], LoginsOf(id, b))
  BY <1>2, <1>4, AskedOther
<1>5. ASSUME NEW v \in Workers, NEW b \in Bevs, Single(redisq[v], LoginsAt(b))
      PROVE  Single(redisq'[v], LoginsAt(b))
  BY <1>3, <1>5, AskedOther
<1>. QED  BY <1>4, <1>5 DEF FewerLogins, TasksStay

-----------------------------------------------------------------------------
(* Each step keeps the logins in order.                                     *)

\* What LoginInv consists of.
LEMMA LoginFacts ==
  ASSUME LoginInv
  PROVE  Placed /\ Served /\ NoDangling /\ Authentic /\ LoginsOwn /\ Singles /\ OneStage /\ TaskOpen
BY DEF LoginInv, MapsInv, StageInv

\* The invariant over the actions that leave the maps and the logins alone.
LEMMA LoginPassive ==
  ASSUME TypeOK, LoginInv, Passive
  PROVE  LoginInv'
<1>1. UNCHANGED <<home, at, bev_id, sub_map, claimed>> /\ TasksStay /\ FewerLogins
  BY LoginsFewer DEF Passive
<1>2. MapsInv'
  <2>1. Placed' /\ Served'
    BY <1>1, LoginFacts DEF Placed, Served
  <2>2. NoDangling' /\ Authentic'
    BY SMT, <1>1, LoginFacts DEF NoDangling, Authentic
  <2>. QED  BY <2>1, <2>2 DEF MapsInv
<1>3. Lasting
  BY <1>1 DEF Lasting
<1>4. StageInv'
  BY <1>1, <1>3, StagesStay DEF LoginInv
<1>5. TaskOpen'
  BY <1>1 DEF LoginInv, TaskOpen, TasksStay
<1>. QED  BY <1>2, <1>4, <1>5 DEF LoginInv

\* A connection is accepted, at an address no other one has had.
LEMMA LoginConnect ==
  ASSUME TypeOK, LoginInv, ~AddrReuse, NEW w \in Workers, NEW c \in Conns, new_connection(w, c)
  PROVE  LoginInv'
<1>1. PICK b \in Bevs :
        /\ at[b] = Nil
        /\ \A d \in Conns : home[d] # Nil => home[d].bev # b
        /\ home' = [home EXCEPT ![c] = [w |-> w, bev |-> b]]
        /\ at' = [at EXCEPT ![b] = c]
        /\ bev_id' = [bev_id EXCEPT ![w][b] = IF @ = Nil THEN NoId ELSE @]
  BY DEF new_connection
<1>2. home[c] = Nil /\ UNCHANGED <<sub_map, redisq, http_login, task, claimed>>
  BY DEF new_connection
<1>3. /\ home'[c] = [w |-> w, bev |-> b] /\ home'[c] # Nil /\ home'[c].bev = b
      /\ \A d \in Conns : d # c => home'[d] = home[d]
  BY SMT, <1>1, PlacesAssumption DEF TypeOK
<1>4. at'[b] = c /\ \A x \in Bevs : x # b => at'[x] = at[x]
  BY <1>1 DEF TypeOK
<1>5. \A v \in Workers : bev_id[v][b] = Nil
  BY <1>1, LoginFacts DEF Served
<1>6. /\ bev_id'[w][b] = NoId
      /\ \A v \in Workers, x \in Bevs : ~(v = w /\ x = b) => bev_id'[v][x] = bev_id[v][x]
  BY <1>1, <1>5 DEF TypeOK
<1>7. \A x \in Bevs : at[x] # Nil => at[x] \in Conns /\ at[x] # c /\ x # b
  <2>1. \A x \in Bevs : at[x] # Nil => at[x] \in Conns
    BY DEF TypeOK
  <2>2. Placed
    BY LoginFacts
  <2>. QED  BY <1>1, <1>2, <2>1, <2>2 DEF Placed
<1>8. Placed'
  <2>1. ASSUME NEW d \in Conns, NEW e \in Conns, home'[d] # Nil, home'[e] # Nil,
               home'[d].bev = home'[e].bev
        PROVE  d = e
    <3>1. \A x \in Conns : x # c /\ home'[x] # Nil => home'[x].bev # b
      BY <1>1, <1>3
    <3>2. CASE d # c /\ e # c
      <4>1. home[d] # Nil /\ home[e] # Nil /\ home[d].bev = home[e].bev
        BY <1>3, <2>1, <3>2
      <4>. QED  BY <4>1, LoginFacts DEF Placed
    <3>. QED  BY <1>3, <2>1, <3>1, <3>2
  <2>2. ASSUME NEW x \in Bevs, at'[x] # Nil
        PROVE  home'[at'[x]] # Nil /\ home'[at'[x]].bev = x
    <3>1. CASE x = b
      BY <1>3, <1>4, <3>1
    <3>2. CASE x # b
      <4>1. at'[x] = at[x] /\ at[x] # Nil /\ home'[at[x]] = home[at[x]]
        BY <1>3, <1>4, <1>7, <2>2, <3>2
      <4>2. home[at[x]] # Nil /\ home[at[x]].bev = x
        BY <4>1, LoginFacts DEF Placed
      <4>. QED  BY <4>1, <4>2
    <3>. QED  BY <3>1, <3>2
  <2>. QED  BY <2>1, <2>2 DEF Placed
<1>9. ASSUME NEW x \in Bevs, at[x] # Nil
      PROVE  x # b /\ at'[x] = at[x] /\ home'[at'[x]] = home[at[x]]
  BY <1>3, <1>4, <1>7, <1>9
<1>10. Served'
  <2>. SUFFICES ASSUME NEW v \in Workers, NEW x \in Bevs, bev_id'[v][x] # Nil
                PROVE  at'[x] # Nil /\ home'[at'[x]] = [w |-> v, bev |-> x]
    BY DEF Served
  <2>1. CASE v = w /\ x = b
    BY <1>3, <1>4, <2>1, BevsAssumption
  <2>2. CASE ~(v = w /\ x = b)
    <3>0. bev_id[v][x] # Nil
      BY <1>6, <2>2
    <3>1. at[x] # Nil /\ home[at[x]] = [w |-> v, bev |-> x]
      BY <3>0, LoginFacts DEF Served
    <3>. QED  BY <1>9, <3>1
  <2>. QED  BY <2>1, <2>2
<1>11. NoDangling'
  <2>. SUFFICES ASSUME NEW v \in Workers, NEW i \in Ids, sub_map[v][i] # Nil
                PROVE  /\ bev_id'[v][sub_map[v][i]] = i /\ at'[sub_map[v][i]] # Nil
                       /\ home'[at'[sub_map[v][i]]] = [w |-> v, bev |-> sub_map[v][i]]
    BY <1>2 DEF NoDangling
  <2>1. PICK x \in Bevs : x = sub_map[v][i]
    BY SMT DEF TypeOK
  <2>2. bev_id[v][x] = i /\ at[x] # Nil /\ home[at[x]] = [w |-> v, bev |-> x]
    BY <2>1, Subscribed DEF LoginInv, MapsInv
  <2>. QED  BY <1>6, <1>9, <2>1, <2>2
<1>12. Authentic'
  <2>. SUFFICES ASSUME NEW v \in Workers, NEW x \in Bevs, bev_id'[v][x] \in Ids
                PROVE  /\ at'[x] # Nil
                       /\ \E k \in DOMAIN claimed'[at'[x]] : claimed'[at'[x]][k] = bev_id'[v][x]
    BY DEF Authentic
  <2>1. bev_id'[v][x] = bev_id[v][x]
    BY <1>6, IdsAssumption
  <2>2. at[x] # Nil /\ \E k \in DOMAIN claimed[at[x]] : claimed[at[x]][k] = bev_id[v][x]
    BY <2>1 DEF LoginInv, MapsInv, Authentic
  <2>. QED  BY <1>2, <1>9, <2>1, <2>2
<1>13. Lasting
  BY <1>2, <1>3 DEF Lasting
<1>14. StageInv'
  <2>1. FewerLogins
    BY <1>2 DEF FewerLogins
  <2>2. \A v \in Workers, x \in Bevs : bev_id'[v][x] \in Ids => bev_id[v][x] \in Ids
    BY <1>6, IdsAssumption
  <2>. QED  BY <1>13, <2>1, <2>2, StagesStay DEF LoginInv
<1>15. TaskOpen'
  <2>. SUFFICES ASSUME NEW v \in Workers, task[v].op = "login" PROVE at'[task[v].bev] # Nil
    BY <1>2 DEF TaskOpen
  <2>1. task[v].bev \in Bevs
    BY SMT, TaskFields DEF TypeOK, LoginTask
  <2>. QED  BY <1>9, <2>1 DEF LoginInv, TaskOpen
<1>. QED  BY <1>8, <1>10, <1>11, <1>12, <1>14, <1>15 DEF LoginInv, MapsInv

\* A connection that is completing its login is not among those that are closed.
LEMMA TaskStaysOpen ==
  ASSUME TypeOK, LoginInv, NEW w \in Workers, NEW D \in SUBSET Bevs, Closes(w, D),
         NEW v \in Workers, v # w, task[v].op = "login"
  PROVE  at'[task[v].bev] # Nil
<1>1. task[v].bev \in Bevs /\ task[v].id \in Ids /\ "task" \in Stages
  BY SMT, TaskFields DEF TypeOK, LoginTask, Stages
<1>2. Underway("task", v, task[v].id, task[v].bev)
  BY DEF Underway
<1>3. PICK c \in Conns : home[c] = [w |-> v, bev |-> task[v].bev]
  <2>1. Sent(v, task[v].id, task[v].bev)
    BY <1>1, <1>2, LoginFacts DEF LoginsOwn
  <2>. QED  BY <2>1 DEF Sent
<1>4. task[v].bev \notin D
  BY <1>3, ClosesOwn DEF LoginInv, MapsInv
<1>5. at'[task[v].bev] = at[task[v].bev]
  BY <1>1, <1>4 DEF Closes
<1>. QED  BY <1>5 DEF LoginInv, TaskOpen

\* Connections of one worker are closed, between two logins of that worker.
LEMMA LoginCloses ==
  ASSUME TypeOK, LoginInv, NEW w \in Workers, NEW D \in SUBSET Bevs, Closes(w, D),
         TasksStay, FewerLogins, task'[w].op # "login"
  PROVE  LoginInv'
<1>1. MapsInv'
  BY MapsClose DEF LoginInv
<1>2. Lasting
  BY DEF Lasting, Closes
<1>3. \A v \in Workers, b \in Bevs : bev_id'[v][b] \in Ids => bev_id[v][b] \in Ids
  BY IdsAssumption DEF Closes
<1>4. StageInv'
  BY <1>2, <1>3, StagesStay DEF LoginInv
<1>5. TaskOpen'
  <2>. SUFFICES ASSUME NEW v \in Workers, task'[v].op = "login" PROVE at'[task'[v].bev] # Nil
    BY DEF TaskOpen
  <2>1. v # w /\ task[v].op = "login" /\ task'[v].bev = task[v].bev
    BY DEF TasksStay
  <2>. QED  BY <2>1, TaskStaysOpen
<1>. QED  BY <1>1, <1>4, <1>5 DEF LoginInv

\* bufferevent_event_callback.
LEMMA LoginClose ==
  ASSUME TypeOK, LoginInv, NEW c \in Conns, bufferevent_event_callback(c)
  PROVE  LoginInv'
<1>. DEFINE w == home[c].w
            b == home[c].bev
            id == bev_id[w][b]
<1>1. w \in Workers /\ b \in Bevs /\ home[c] = [w |-> w, bev |-> b]
  <2>1. home[c] \in [w: Workers, bev: Bevs]
    BY DEF TypeOK, bufferevent_event_callback, Open
  <2>. QED  BY <2>1
<1>. HIDE DEF w, b
<1>2. /\ Waiting(w) /\ close_bev(w, b) /\ UNCHANGED <<home, claimed, task, http_login>>
      /\ \/ id \in Ids /\ forget_id(w, id) /\ Ask(w, [cb |-> "offline", id |-> id])
         \/ id \notin Ids /\ UNCHANGED <<sub_map, redisq>>
  BY DEF bufferevent_event_callback, w, b
<1>3. /\ \A x \in Bevs : at'[x] = IF x \in {b} THEN Nil ELSE at[x]
      /\ \A v \in Workers, x \in Bevs :
           bev_id'[v][x] = IF v = w /\ x \in {b} THEN Nil ELSE bev_id[v][x]
  BY <1>1, <1>2 DEF close_bev, TypeOK
<1>4. \A v \in Workers, i \in Ids :
        sub_map'[v][i] = IF v = w /\ i = id THEN Nil ELSE sub_map[v][i]
  BY SMT, <1>1, <1>2 DEF forget_id, TypeOK
<1>5. \A i \in Ids : sub_map[w][i] \in {b} => sub_map'[w][i] = Nil
  <2>. SUFFICES ASSUME NEW i \in Ids, sub_map[w][i] = b PROVE i = id
    BY <1>1, <1>4
  <2>1. sub_map[w][i] # Nil
    BY <1>1, BevsAssumption
  <2>. QED  BY <1>1, <2>1, Subscribed, LoginFacts
<1>6. Closes(w, {b})
  <2>1. \A v \in Workers, i \in Ids : sub_map'[v][i] = sub_map[v][i] \/ sub_map'[v][i] = Nil
    BY <1>4
  <2>2. \A x \in {b} : \E d \in Conns : home[d] = [w |-> w, bev |-> x]
    BY <1>1
  <2>. QED  BY <1>2, <1>3, <1>5, <2>1, <2>2 DEF Closes
<1>7. TasksStay /\ http_login' \subseteq http_login /\ task'[w].op # "login"
  <2>1. task'[w] = Idle /\ Idle.op # "login"
    BY <1>2 DEF Waiting, Idle
  <2>. QED  BY <1>2, <2>1 DEF TasksStay
<1>8. RedisStep(Other)
  <2>1. id \in Ids => [cb |-> "offline", id |-> id] \in Command
    BY OtherCommands
  <2>2. [cb |-> "offline", id |-> id].cb \in Other
    BY DEF Other
  <2>. HIDE DEF id
  <2>. QED  BY <1>1, <1>2, <2>1, <2>2 DEF RedisStep
<1>9. FewerLogins
  BY <1>7, <1>8, LoginsFewer
<1>10. {b} \in SUBSET Bevs
  BY <1>1
<1>. QED  BY <1>1, <1>6, <1>7, <1>9, <1>10, LoginCloses

\* del_expire_client.
LEMMA LoginExpire ==
  ASSUME TypeOK, LoginInv, NEW w \in Workers, del_expire_client(w)
  PROVE  LoginInv'
<1>. DEFINE expired == {i \in late[w] : sub_map[w][i] # Nil /\ \E b \in Bevs : bev_id[w][b] = i}
            dead == {b \in Bevs : bev_id[w][b] \in expired}
<1>1. expired \subseteq Ids /\ dead \in SUBSET Bevs
  BY DEF TypeOK
<1>2. /\ Waiting(w)
      /\ sub_map' = [sub_map EXCEPT ![w] = [i \in Ids |-> IF i \in expired THEN Nil ELSE @[i]]]
      /\ bev_id' = [bev_id EXCEPT ![w] = [b \in Bevs |-> IF b \in dead THEN Nil ELSE @[b]]]
      /\ at' = [b \in Bevs |-> IF b \in dead THEN Nil ELSE at[b]]
      /\ UNCHANGED <<home, claimed, task, http_login>>
  BY DEF del_expire_client
<1>4. \A b \in dead : bev_id[w][b] \in expired
  OBVIOUS
<1>. HIDE DEF expired, dead
<1>7. RedisStep(Other)
  BY ExpireAsks DEF RedisStep, Other
<1>8. /\ \A b \in Bevs : at'[b] = IF b \in dead THEN Nil ELSE at[b]
      /\ \A v \in Workers, b \in Bevs :
           bev_id'[v][b] = IF v = w /\ b \in dead THEN Nil ELSE bev_id[v][b]
  BY <1>2 DEF TypeOK
<1>9. \A v \in Workers, i \in Ids :
        sub_map'[v][i] = IF v = w /\ i \in expired THEN Nil ELSE sub_map[v][i]
  BY <1>2 DEF TypeOK
<1>10. \A i \in Ids : sub_map[w][i] \in dead => sub_map'[w][i] = Nil
  <2>. SUFFICES ASSUME NEW i \in Ids, sub_map[w][i] \in dead PROVE i \in expired
    BY <1>9
  <2>1. sub_map[w][i] # Nil
    BY <1>1, BevsAssumption
  <2>2. bev_id[w][sub_map[w][i]] = i
    BY <2>1, Subscribed, LoginFacts
  <2>. QED  BY <1>4, <2>2
<1>11. \A b \in dead : \E c \in Conns : home[c] = [w |-> w, bev |-> b]
  <2>. SUFFICES ASSUME NEW b \in dead PROVE \E c \in Conns : home[c] = [w |-> w, bev |-> b]
    OBVIOUS
  <2>1. b \in Bevs /\ bev_id[w][b] # Nil
    BY <1>1, <1>4, IdsAssumption
  <2>2. at[b] # Nil /\ home[at[b]] = [w |-> w, bev |-> b]
    BY <2>1, LoginFacts DEF Served
  <2>3. at[b] \in Conns
    BY <2>1, <2>2 DEF TypeOK
  <2>. QED  BY <2>2, <2>3
<1>12. Closes(w, dead)
  <2>1. \A v \in Workers, i \in Ids : sub_map'[v][i] = sub_map[v][i] \/ sub_map'[v][i] = Nil
    BY <1>9
  <2>. QED  BY <1>2, <1>8, <1>10, <1>11, <2>1 DEF Closes
<1>13. TasksStay /\ http_login' \subseteq http_login /\ task'[w].op # "login"
  <2>1. task'[w] = Idle /\ Idle.op # "login"
    BY <1>2 DEF Waiting, Idle
  <2>. QED  BY <1>2, <2>1 DEF TasksStay
<1>14. FewerLogins
  BY <1>7, <1>13, LoginsFewer
<1>. QED  BY <1>1, <1>12, <1>13, <1>14, LoginCloses

\* The login of an id is dropped, and its connection closed; it was registered.
LEMMA DropCloses ==
  ASSUME TypeOK, LoginInv, NEW w \in Workers, NEW id \in Ids,
         sub_map' = [sub_map EXCEPT ![w][id] = Nil],
         \/ known(w, sub_map[w][id]) /\ close_bev(w, sub_map[w][id])
         \/ ~known(w, sub_map[w][id]) /\ UNCHANGED <<bev_id, at>>,
         UNCHANGED <<home, claimed>>
  PROVE  \E D \in SUBSET Bevs : Closes(w, D) /\ \A b \in D : bev_id[w][b] \in Ids
<1>1. \A v \in Workers, i \in Ids :
        sub_map'[v][i] = IF v = w /\ i = id THEN Nil ELSE sub_map[v][i]
  BY DEF TypeOK
<1>2. \A v \in Workers, i \in Ids : sub_map'[v][i] = sub_map[v][i] \/ sub_map'[v][i] = Nil
  BY SMT, <1>1
<1>3. CASE known(w, sub_map[w][id]) /\ close_bev(w, sub_map[w][id])
  <2>1. PICK b \in Bevs : b = sub_map[w][id]
    BY <1>3 DEF known
  <2>2. b # Nil
    BY BevsAssumption
  <2>3. bev_id[w][b] = id /\ at[b] # Nil /\ home[at[b]] = [w |-> w, bev |-> b]
    BY <2>1, <2>2, Subscribed, LoginFacts
  <2>4. at[b] \in Conns
    BY <2>3 DEF TypeOK
  <2>5. /\ \A x \in Bevs : at'[x] = IF x \in {b} THEN Nil ELSE at[x]
        /\ \A v \in Workers, x \in Bevs :
             bev_id'[v][x] = IF v = w /\ x \in {b} THEN Nil ELSE bev_id[v][x]
    BY <1>3, <2>1 DEF close_bev, TypeOK
  <2>6. \A i \in Ids : sub_map[w][i] \in {b} => sub_map'[w][i] = Nil
    <3>. SUFFICES ASSUME NEW i \in Ids, sub_map[w][i] = b PROVE i = id
      BY <1>1
    <3>. QED  BY <2>2, <2>3, Subscribed, LoginFacts
  <2>7. \A x \in {b} : \E c \in Conns : home[c] = [w |-> w, bev |-> x]
    BY <2>3, <2>4
  <2>8. Closes(w, {b})
    BY <1>2, <2>5, <2>6, <2>7 DEF Closes
  <2>9. {b} \in SUBSET Bevs /\ \A x \in {b} : bev_id[w][x] \in Ids
    BY <2>3
  <2>. QED  BY <2>8, <2>9
<1>4. CASE ~known(w, sub_map[w][id]) /\ UNCHANGED <<bev_id, at>>
  <2>1. Closes(w, {})
    BY <1>2, <1>4 DEF Closes
  <2>2. {} \in SUBSET Bevs /\ \A x \in {} : bev_id[w][x] \in Ids
    OBVIOUS
  <2>. QED  BY <2>1, <2>2
<1>. QED  BY <1>3, <1>4

\* notify_new_msg_callback.
LEMMA LoginDelete ==
  ASSUME TypeOK, LoginInv, NEW w \in Workers, notify_new_msg_callback(w)
  PROVE  LoginInv'
<1>. DEFINE m == Head(pipe[w])
<1>1. m.to \in Ids
  <2>1. pipe[w] \in Seq(Msg) /\ pipe[w] # << >>
    BY DEF TypeOK, notify_new_msg_callback
  <2>2. m \in Msg
    BY <2>1, HeadTail
  <2>. QED  BY <2>2 DEF Msg
<1>. HIDE DEF m
<1>2. /\ UNCHANGED <<home, claimed, redisq, http_login>>
      /\ \/ task' = [task EXCEPT ![w] = Idle]
         \/ task' = [task EXCEPT ![w] = Drain]
      /\ \/ UNCHANGED <<bev_id, sub_map, at, conn_num>>
         \/ /\ sub_map' = [sub_map EXCEPT ![w][m.to] = Nil]
            /\ \/ known(w, sub_map[w][m.to]) /\ close_bev(w, sub_map[w][m.to])
               \/ ~known(w, sub_map[w][m.to]) /\ UNCHANGED <<bev_id, at>>
  BY BevsAssumption DEF notify_new_msg_callback, delete_old_login, forget_id, known, m
<1>3. Idle.op # "login" /\ Drain.op # "login"
  BY DEF Idle, Drain
<1>4. TasksStay /\ task'[w].op # "login"
  <2>1. TasksStay
    BY <1>2, <1>3, TakesUp
  <2>2. task'[w] = Idle \/ task'[w] = Drain
    BY <1>2 DEF TypeOK
  <2>. QED  BY <1>3, <2>1, <2>2
<1>5. RedisStep(Other) /\ FewerLogins
  BY <1>2, <1>4, LoginsFewer DEF RedisStep
<1>6. CASE UNCHANGED <<bev_id, sub_map, at, conn_num>>
  <2>1. Passive
    BY <1>2, <1>4, <1>5, <1>6 DEF Passive
  <2>. QED  BY <2>1, LoginPassive
<1>7. CASE /\ sub_map' = [sub_map EXCEPT ![w][m.to] = Nil]
           /\ \/ known(w, sub_map[w][m.to]) /\ close_bev(w, sub_map[w][m.to])
              \/ ~known(w, sub_map[w][m.to]) /\ UNCHANGED <<bev_id, at>>
  <2>1. PICK D \in SUBSET Bevs : Closes(w, D)
    BY <1>1, <1>2, <1>7, DropCloses
  <2>. QED  BY <1>4, <1>5, <2>1, LoginCloses
<1>. QED  BY <1>2, <1>6, <1>7

\* A login under way is at one stage, on the worker of its connection.
LEMMA OnlyStage ==
  ASSUME LoginInv, NEW s \in Stages, NEW t \in Stages, NEW w \in Workers, NEW v \in Workers,
         NEW i \in Ids, NEW j \in Ids, NEW b \in Bevs, Underway(s, w, i, b), Underway(t, v, j, b)
  PROVE  s = t /\ w = v
<1>1. s = t
  BY LoginFacts DEF OneStage
<1>2. Sent(w, i, b) /\ Sent(v, j, b)
  BY LoginFacts DEF LoginsOwn
<1>3. PICK c \in Conns : home[c] = [w |-> w, bev |-> b]
  BY <1>2 DEF Sent
<1>4. PICK d \in Conns : home[d] = [w |-> v, bev |-> b]
  BY <1>2 DEF Sent
<1>5. home[c] # Nil /\ home[d] # Nil
  BY SMT, <1>3, <1>4, PlacesAssumption
<1>6. home[c].bev = b /\ home[d].bev = b /\ home[c].w = w /\ home[d].w = v
  BY SMT, <1>3, <1>4
<1>7. c = d
  BY <1>5, <1>6, LoginFacts DEF Placed
<1>. QED  BY <1>1, <1>6, <1>7

\* A login command for an address is one for some id.
LEMMA LoginsAtOf ==
  ASSUME NEW q, NEW b
  PROVE  Has(q, LoginsAt(b)) <=> \E i \in Ids : Has(q, LoginsOf(i, b))
<1>1. \A x \in LoginsAt(b) : x.data.id \in Ids
  BY CommandFields DEF LoginsAt, LoginData
<1>2. \A x \in LoginsAt(b) : x \in LoginsOf(x.data.id, b)
  BY DEF LoginsAt, LoginsOf
<1>3. \A i \in Ids : LoginsOf(i, b) \subseteq LoginsAt(b)
  BY DEF LoginsAt, LoginsOf
<1>. QED  BY <1>1, <1>2, <1>3 DEF Has

\* A connection that may still log in, and may do so once, has not.
LEMMA NoneClaimed ==
  ASSUME MaxLogins <= 1, NEW q \in Seq(Ids), Len(q) < MaxLogins
  PROVE  q = << >>
<1>1. Len(q) = 0
  BY SMT, BoundsAssumption
<1>. QED  BY SMT, <1>1

\* read_login: the first login packet of its connection.
LEMMA LoginRead ==
  ASSUME TypeOK, LoginInv, MaxLogins <= 1, NEW c \in Conns, NEW id \in Ids, read_login(c, id)
  PROVE  LoginInv'
<1>0. PICK w \in Workers, b \in Bevs : home[c] = [w |-> w, bev |-> b]
  <2>1. home[c] \in [w: Workers, bev: Bevs]
    BY DEF TypeOK, read_login, Open
  <2>. QED  BY <2>1
<1>1. w \in Workers /\ b \in Bevs /\ home[c] = [w |-> w, bev |-> b] /\ home[c] # Nil
      /\ home[c].w = w /\ home[c].bev = b
  BY SMT, <1>0, PlacesAssumption
<1>. DEFINE d == [id |-> id, bev |-> b, obj |-> <<c, Len(claimed[c]) + 1>>]
            x == [cb |-> "login", data |-> d]
<1>2. x \in Command /\ x.cb = "login" /\ x.data.id = id /\ x.data.bev = b
  <2>1. claimed[c] \in Seq(Ids)
    BY DEF TypeOK
  <2>2. d \in LoginData
    BY SMT, <1>1, <2>1 DEF LoginData
  <2>. QED  BY <2>2 DEF Command
<1>3. /\ at[b] = c /\ Ask(w, x) /\ claimed' = [claimed EXCEPT ![c] = Append(@, id)]
      /\ UNCHANGED <<home, at, bev_id, sub_map, http_login, task>>
      /\ Len(claimed[c]) < MaxLogins
  BY <1>1 DEF read_login, Open
<1>. HIDE DEF x
<1>4. DOMAIN claimed[c] = {} /\ id \in {claimed'[c][k] : k \in DOMAIN claimed'[c]}
  <2>1. claimed[c] \in Seq(Ids) /\ claimed'[c] = Append(claimed[c], id)
    BY <1>3 DEF TypeOK
  <2>2. claimed[c] = << >>
    BY <1>3, <2>1, NoneClaimed
  <2>3. claimed'[c] = << id >>
    BY SMT, <2>1, <2>2
  <2>. QED  BY SMT, <2>2, <2>3
<1>5. \A v \in Workers, i \in Ids : ~Sent(v, i, b)
  <2>. SUFFICES ASSUME NEW v \in Workers, NEW i \in Ids, Sent(v, i, b) PROVE FALSE
    OBVIOUS
  <2>1. PICK e \in Conns : home[e] = [w |-> v, bev |-> b] /\ DOMAIN claimed[e] # {}
    BY DEF Sent
  <2>2. home[e] # Nil /\ home[e].bev = home[c].bev
    BY SMT, <1>1, <2>1, PlacesAssumption
  <2>3. e = c
    BY <1>1, <2>2, LoginFacts DEF Placed
  <2>. QED  BY <1>4, <2>1, <2>3
<1>6. \A s \in Stages, v \in Workers, i \in Ids : ~Underway(s, v, i, b)
  BY <1>1, <1>5, LoginFacts DEF LoginsOwn
<1>7. bev_id[w][b] \notin Ids
  BY <1>1, <1>3, <1>4, LoginFacts DEF Authentic
<1>8. \A e \in Conns : \A k \in DOMAIN claimed[e] : k \in DOMAIN claimed'[e] /\ claimed'[e][k] = claimed[e][k]
  <2>1. \A e \in Conns : e # c => claimed'[e] = claimed[e]
    BY <1>3 DEF TypeOK
  <2>. QED  BY <1>4, <2>1
<1>9. Lasting
  BY <1>3, <1>8 DEF Lasting
<1>10. MapsInv'
  <2>1. Placed' /\ Served'
    BY <1>3, LoginFacts DEF Placed, Served
  <2>2. NoDangling'
    BY <1>3, LoginFacts DEF NoDangling
  <2>3. Authentic'
    <3>. SUFFICES ASSUME NEW v \in Workers, NEW y \in Bevs, bev_id[v][y] \in Ids
                  PROVE  /\ at[y] # Nil
                         /\ \E k \in DOMAIN claimed'[at[y]] : claimed'[at[y]][k] = bev_id[v][y]
      BY SMT, <1>3 DEF Authentic
    <3>1. at[y] # Nil /\ \E k \in DOMAIN claimed[at[y]] : claimed[at[y]][k] = bev_id[v][y]
      BY LoginFacts DEF Authentic
    <3>2. at[y] \in Conns
      BY <3>1 DEF TypeOK
    <3>. QED  BY <1>8, <3>1, <3>2
  <2>. QED  BY <2>1, <2>2, <2>3 DEF MapsInv
<1>11. \A v \in Workers : \A S :
         /\ Has(redisq'[v], S) => Has(redisq[v], S) \/ (v = w /\ x \in S)
         /\ Single(redisq[v], S) /\ (x \in S => ~Has(redisq[v], S)) => Single(redisq'[v], S)
  <2>. TAKE v \in Workers
  <2>. TAKE S
  <2>1. redisq'[v] = IF v = w THEN Append(redisq[v], x) ELSE redisq[v]
    BY <1>1, <1>3 DEF Ask, TypeOK
  <2>2. redisq[v] \in Seq(Command)
    BY DEF TypeOK
  <2>3. /\ Has(Append(redisq[v], x), S) <=> Has(redisq[v], S) \/ x \in S
        /\ Single(redisq[v], S) /\ (x \in S => ~Has(redisq[v], S)) => Single(Append(redisq[v], x), S)
    BY <1>2, <2>2, QueueAppend
  <2>. QED  BY <2>1, <2>3
<1>12. Singles'
  <2>1. ASSUME NEW v \in Workers, NEW y \in Bevs PROVE Single(redisq'[v], LoginsAt(y))
    <3>1. Single(redisq[v], LoginsAt(y))
      BY LoginFacts DEF Singles
    <3>2. x \in LoginsAt(y) => ~Has(redisq[v], LoginsAt(y))
      <4>. SUFFICES ASSUME y = b PROVE ~Has(redisq[v], LoginsAt(y))
        BY <1>2 DEF LoginsAt
      <4>1. "redis" \in Stages
        BY DEF Stages
      <4>2. \A i \in Ids : ~Has(redisq[v], LoginsOf(i, b))
        BY <1>6, <4>1 DEF Underway
      <4>. QED  BY <4>2, LoginsAtOf
    <3>. QED  BY <1>11, <3>1, <3>2
  <2>. QED  BY <1>3, <2>1, LoginFacts DEF Singles
<1>13. ASSUME NEW s \in Stages, NEW v \in Workers, NEW i \in Ids, NEW y \in Bevs,
              Underway(s, v, i, y)'
       PROVE  \/ y # b /\ Underway(s, v, i, y)
              \/ s = "redis" /\ v = w /\ i = id /\ y = b
  <2>1. Underway(s, v, i, y) \/ (s = "redis" /\ v = w /\ i = id /\ y = b)
    <3>1. x \in LoginsOf(i, y) => i = id /\ y = b
      BY <1>2 DEF LoginsOf
    <3>2. Has(redisq'[v], LoginsOf(i, y)) => Has(redisq[v], LoginsOf(i, y)) \/ (v = w /\ i = id /\ y = b)
      BY <1>11, <3>1
    <3>. QED  BY <1>3, <1>13, <3>2 DEF Underway
  <2>. QED  BY <1>6, <2>1
<1>14. Sent(w, id, b)'
  <2>1. home'[c] = [w |-> w, bev |-> b]
    BY <1>1, <1>3
  <2>. QED  BY <1>4, <2>1 DEF Sent
<1>15. "redis" \in Stages
  BY DEF Stages
<1>16. bev_id'[w][b] \notin Ids /\ \A v \in Workers, y \in Bevs : bev_id'[v][y] \in Ids => bev_id[v][y] \in Ids
  BY <1>3, <1>7
<1>17. StageInv'
  <2>1. \A s \in Stages, v \in Workers, i \in Ids, y \in Bevs : Underway(s, v, i, y)' =>
          \/ y # b /\ Underway(s, v, i, y)
          \/ s = "redis" /\ v = w /\ i = id /\ y = b
    BY <1>13
  <2>2. StageInv
    BY DEF LoginInv
  <2>. QED  BY SMT, <1>1, <1>9, <1>12, <1>14, <1>15, <1>16, <2>1, <2>2, StageMoves
<1>18. TaskOpen'
  BY <1>3 DEF LoginInv, TaskOpen
<1>. QED  BY <1>10, <1>17, <1>18 DEF LoginInv

\* A login that Redis or HTTP has approved: the earlier login of the id on this
\* worker is closed, and the loop over the workers begins.
LEMMA LoginStart ==
  ASSUME TypeOK, LoginInv, NEW w \in Workers, NEW d \in LoginData, NEW self \in BOOLEAN,
         start_login(w, d, self), known(w, d.bev), UNCHANGED claimed,
         NEW s0 \in Stages, s0 # "task", Underway(s0, w, d.id, d.bev), Singles',
         \A s \in Stages, v \in Workers, i \in Ids, y \in Bevs : s # "task" /\ Underway(s, v, i, y)' =>
           y # d.bev /\ Underway(s, v, i, y)
  PROVE  LoginInv'
<1>1. PICK id \in Ids, a \in Bevs : id = d.id /\ a = d.bev
  BY DEF LoginData
<1>2. /\ displace_local(w, id) /\ UNCHANGED <<home, claimed>>
      /\ task' = [task EXCEPT ![w] = login_loop(d, self)]
  BY <1>1 DEF start_login
<1>3. /\ task'[w].op = "login" /\ task'[w].id = id /\ task'[w].bev = a
      /\ \A v \in Workers : v # w => task'[v] = task[v]
  BY <1>1, <1>2 DEF login_loop, TypeOK
<1>4. PICK D \in SUBSET Bevs : Closes(w, D) /\ \A b \in D : bev_id[w][b] \in Ids
  BY <1>2, DropCloses DEF displace_local, forget_id
<1>5. Sent(w, id, a) /\ bev_id[w][a] \notin Ids
  BY <1>1, LoginFacts DEF LoginsOwn
<1>6. a \notin D
  BY <1>4, <1>5
<1>7. MapsInv'
  BY <1>4, MapsClose DEF LoginInv
<1>8. Lasting
  BY <1>2 DEF Lasting
<1>9. \A v \in Workers, b \in Bevs : bev_id'[v][b] \in Ids => bev_id[v][b] \in Ids
  BY <1>4, IdsAssumption DEF Closes
<1>10. Sent(w, id, a)' /\ bev_id'[w][a] \notin Ids
  BY <1>5, <1>8, <1>9, SentLasts
<1>11. "task" \in Stages
  BY DEF Stages
<1>12. ASSUME NEW s \in Stages, NEW v \in Workers, NEW i \in Ids, NEW y \in Bevs,
              Underway(s, v, i, y)'
       PROVE  \/ y # a /\ Underway(s, v, i, y)
              \/ s = "task" /\ v = w /\ i = id /\ y = a
  <2>1. CASE s # "task"
    BY <1>1, <1>12, <2>1
  <2>2. CASE s = "task" /\ v = w
    BY <1>3, <1>12, <2>2 DEF Underway
  <2>3. CASE s = "task" /\ v # w
    <3>1. Underway(s, v, i, y)
      BY <1>3, <1>12, <2>3 DEF Underway
    <3>2. Underway(s0, w, id, a)
      BY <1>1
    <3>3. ASSUME y = a PROVE s = s0
      <4>1. Underway(s, v, i, a)
        BY <3>1, <3>3
      <4>. QED  BY <3>2, <4>1, OnlyStage
    <3>. QED  BY <2>3, <3>1, <3>3
  <2>. QED  BY <2>1, <2>2, <2>3
<1>13. StageInv'
  <2>1. \A s \in Stages, v \in Workers, i \in Ids, y \in Bevs : Underway(s, v, i, y)' =>
          \/ y # a /\ Underway(s, v, i, y)
          \/ s = "task" /\ v = w /\ i = id /\ y = a
    BY <1>12
  <2>2. StageInv
    BY DEF LoginInv
  <2>. QED  BY SMT, <1>8, <1>9, <1>10, <1>11, <2>1, <2>2, StageMoves
<1>14. TaskOpen'
  <2>. SUFFICES ASSUME NEW v \in Workers, task'[v].op = "login" PROVE at'[task'[v].bev] # Nil
    BY DEF TaskOpen
  <2>1. CASE v = w
    <3>1. at[a] # Nil
      BY <1>1, LoginFacts DEF Served, known
    <3>2. at'[a] = at[a]
      BY <1>4, <1>6 DEF Closes
    <3>. QED  BY <1>3, <2>1, <3>1, <3>2
  <2>2. CASE v # w
    BY <1>3, <1>4, <2>2, TaskStaysOpen
  <2>. QED  BY <2>1, <2>2
<1>. QED  BY <1>7, <1>13, <1>14 DEF LoginInv

\* redis_login_callback.
LEMMA LoginRedis ==
  ASSUME TypeOK, LoginInv, NEW w \in Workers, redis_login_callback(w)
  PROVE  LoginInv'
<1>1. /\ redisq[w] \in Seq(Command) /\ redisq[w] # << >> /\ Head(redisq[w]).cb = "login"
      /\ redisq' = [redisq EXCEPT ![w] = Tail(@)] /\ UNCHANGED <<home, claimed>>
  BY DEF redis_login_callback, start_login, TypeOK
<1>2. Head(redisq[w]) \in Command
  BY <1>1, HeadTail
<1>3. PICK d \in LoginData : d = Head(redisq[w]).data
  BY <1>1, <1>2, CommandFields
<1>4. PICK id \in Ids, a \in Bevs : id = d.id /\ a = d.bev
  BY DEF LoginData
<1>5. Head(redisq[w]) \in LoginsOf(id, a) /\ Head(redisq[w]) \in LoginsAt(a)
  BY <1>1, <1>2, <1>3, <1>4 DEF LoginsOf, LoginsAt
<1>6. "redis" \in Stages /\ "http" \in Stages /\ "task" \in Stages
  BY DEF Stages
<1>7. Underway("redis", w, id, a)
  <2>1. Has(redisq[w], LoginsOf(id, a))
    BY <1>1, <1>5, QueueTail
  <2>. QED  BY <2>1 DEF Underway
<1>8. ~Has(redisq'[w], LoginsAt(a))
  <2>1. Single(redisq[w], LoginsAt(a))
    BY LoginFacts DEF Singles
  <2>2. redisq'[w] = Tail(redisq[w])
    BY <1>1 DEF TypeOK
  <2>3. ~Has(Tail(redisq[w]), LoginsAt(a))
    BY <1>1, <1>5, <2>1, QueueTail
  <2>. QED  BY <2>2, <2>3
<1>9. RedisStep(Other)
  BY <1>1 DEF RedisStep
<1>10. \A s \in Stages, v \in Workers, i \in Ids : Underway(s, v, i, a) => s = "redis" /\ v = w
  <2>. SUFFICES ASSUME NEW s \in Stages, NEW v \in Workers, NEW i \in Ids, Underway(s, v, i, a)
                PROVE  s = "redis" /\ v = w
    OBVIOUS
  <2>. QED  BY <1>6, <1>7, OnlyStage
<1>11. ASSUME NEW v \in Workers, NEW i \in Ids, NEW y \in Bevs, Has(redisq'[v], LoginsOf(i, y))
       PROVE  y # a /\ Underway("redis", v, i, y)
  <2>1. Has(redisq[v], LoginsOf(i, y))
    <3>1. \A q \in LoginsOf(i, y) : q.cb \notin Other
      BY DEF LoginsOf, Other
    <3>. QED  BY <1>9, <1>11, <3>1, AskedOther
  <2>2. Underway("redis", v, i, y)
    BY <2>1 DEF Underway
  <2>3. y = a => v = w
    BY <1>6, <1>10, <2>2
  <2>4. y = a /\ v = w => Has(redisq'[w], LoginsAt(a))
    BY <1>11, LoginsAtOf
  <2>. QED  BY <1>8, <2>2, <2>3, <2>4
<1>12. \A v \in Workers, y \in Bevs : Single(redisq'[v], LoginsAt(y))
  <2>1. \A y \in Bevs : \A q \in LoginsAt(y) : q.cb \notin Other
    BY DEF LoginsAt, Other
  <2>. TAKE v \in Workers, y \in Bevs
  <2>2. Single(redisq[v], LoginsAt(y))
    BY LoginFacts DEF Singles
  <2>. QED  BY <1>9, <2>1, <2>2, AskedOther
<1>13. CASE UNCHANGED <<registry, http_login, task>>
  <2>1. Passive
    BY <1>1, <1>9, <1>13 DEF Passive, TasksStay
  <2>. QED  BY <2>1, LoginPassive
<1>14. CASE /\ http_login' = http_login \cup {[w |-> w, data |-> d, stage |-> "connecting"]}
            /\ UNCHANGED <<registry, task>>
  <2>1. \A h \in http_login' : h \in http_login \/ (h.w = w /\ h.data.id = id /\ h.data.bev = a)
    BY SMT, <1>4, <1>14
  <2>2. \A h \in http_login : h.w \in Workers /\ h.data.id \in Ids /\ h.data.bev \in Bevs
    BY DEF TypeOK, LoginData
  <2>3. \A h \in http_login : h.data.bev # a
    <3>. SUFFICES ASSUME NEW h \in http_login, h.data.bev = a PROVE FALSE
      OBVIOUS
    <3>1. Underway("http", h.w, h.data.id, a)
      BY DEF Underway
    <3>2. "http" = "redis"
      BY <1>6, <1>10, <2>2, <3>1
    <3>. QED  BY <3>2
  <2>4. \A g, h \in http_login' : g.data.bev = h.data.bev => g = h
    <3>1. \A g, h \in http_login : g.data.bev = h.data.bev => g = h
      BY LoginFacts DEF Singles
    <3>. DEFINE n == [w |-> w, data |-> d, stage |-> "connecting"]
    <3>2. n.data.bev = a
      BY <1>4
    <3>3. \A h \in http_login' : h \in http_login \/ h = n
      BY <1>14
    <3>. HIDE DEF n
    <3>. QED  BY <2>3, <3>1, <3>2, <3>3
  <2>5. Singles'
    BY <1>12, <2>4 DEF Singles
  <2>6. ASSUME NEW s \in Stages, NEW v \in Workers, NEW i \in Ids, NEW y \in Bevs,
               Underway(s, v, i, y)'
        PROVE  \/ y # a /\ Underway(s, v, i, y)
               \/ s = "http" /\ v = w /\ i = id /\ y = a
    <3>1. CASE s = "redis"
      <4>1. Has(redisq'[v], LoginsOf(i, y))
        BY <2>6, <3>1 DEF Underway
      <4>. QED  BY <1>11, <3>1, <4>1
    <3>2. CASE s = "http"
      <4>1. PICK h \in http_login' : h.w = v /\ h.data.id = i /\ h.data.bev = y
        BY <2>6, <3>2 DEF Underway
      <4>2. h \in http_login => y # a /\ Underway(s, v, i, y)
        BY <2>3, <3>2, <4>1 DEF Underway
      <4>. QED  BY <2>1, <3>2, <4>1, <4>2
    <3>3. CASE s = "task"
      <4>1. Underway(s, v, i, y)
        BY <1>14, <2>6, <3>3 DEF Underway
      <4>2. y = a => s = "redis"
        BY <1>10, <4>1
      <4>. QED  BY <3>3, <4>1, <4>2
    <3>. QED  BY <3>1, <3>2, <3>3 DEF Stages
  <2>7. \A s \in Stages, v \in Workers, i \in Ids, y \in Bevs : Underway(s, v, i, y)' =>
          \/ y # a /\ Underway(s, v, i, y)
          \/ s = "http" /\ v = w /\ i = id /\ y = a
    BY <2>6
  <2>8. Lasting
    BY <1>1 DEF Lasting
  <2>9. Sent(w, id, a)' /\ bev_id'[w][a] \notin Ids
    <3>1. Sent(w, id, a) /\ bev_id[w][a] \notin Ids
      BY <1>6, <1>7, LoginFacts DEF LoginsOwn
    <3>. QED  BY <1>14, <2>8, <3>1, SentLasts
  <2>10. \A v \in Workers, b \in Bevs : bev_id'[v][b] \in Ids => bev_id[v][b] \in Ids
    BY <1>14
  <2>11. StageInv
    BY DEF LoginInv
  <2>12. StageInv'
    BY SMT, <1>6, <2>5, <2>7, <2>8, <2>9, <2>10, <2>11, StageMoves
  <2>13. Placed' /\ Served' /\ TaskOpen'
    <3>1. UNCHANGED <<home, at, bev_id, task>>
      BY <1>14
    <3>. QED  BY <3>1, LoginFacts DEF Placed, Served, TaskOpen
  <2>14. NoDangling' /\ Authentic'
    BY SMT, <1>1, <1>14, LoginFacts DEF NoDangling, Authentic
  <2>. QED  BY <2>12, <2>13, <2>14 DEF LoginInv, MapsInv
<1>15. CASE known(w, a) /\ start_login(w, d, FALSE) /\ UNCHANGED http_login
  <2>1. Singles'
    BY <1>12, <1>15, LoginFacts DEF Singles
  <2>2. ASSUME NEW s \in Stages, NEW v \in Workers, NEW i \in Ids, NEW y \in Bevs,
               s # "task", Underway(s, v, i, y)'
        PROVE  y # a /\ Underway(s, v, i, y)
    <3>1. CASE s = "redis"
      <4>1. Has(redisq'[v], LoginsOf(i, y))
        BY <2>2, <3>1 DEF Underway
      <4>. QED  BY <1>11, <3>1, <4>1
    <3>2. CASE s = "http"
      <4>1. Underway(s, v, i, y)
        BY <1>15, <2>2, <3>2 DEF Underway
      <4>2. y = a => s = "redis"
        BY <1>10, <4>1
      <4>. QED  BY <3>2, <4>1, <4>2
    <3>. QED  BY <2>2, <3>1, <3>2 DEF Stages
  <2>3. \A s \in Stages, v \in Workers, i \in Ids, y \in Bevs : s # "task" /\ Underway(s, v, i, y)' =>
           y # d.bev /\ Underway(s, v, i, y)
    BY <1>4, <2>2
  <2>4. known(w, d.bev) /\ Underway("redis", w, d.id, d.bev) /\ "redis" # "task"
    BY <1>4, <1>7, <1>15
  <2>. QED  BY <1>1, <1>6, <1>15, <2>1, <2>3, <2>4, LoginStart
<1>. QED  BY <1>3, <1>4, <1>13, <1>14, <1>15 DEF redis_login_callback, http_login_check

\* The HTTP check of a login.
LEMMA LoginHttp ==
  ASSUME TypeOK, LoginInv, NEW h \in http_login, http_login_connected(h) \/ http_login_read(h)
  PROVE  LoginInv'
<1>0. h.w \in Workers /\ h.data \in LoginData
  BY DEF TypeOK
<1>1. PICK w \in Workers, d \in LoginData : w = h.w /\ d = h.data
  BY <1>0
<1>2. PICK id \in Ids, a \in Bevs : id = d.id /\ a = d.bev
  BY DEF LoginData
<1>3. "redis" \in Stages /\ "http" \in Stages /\ "task" \in Stages
  BY DEF Stages
<1>4. Underway("http", w, id, a)
  BY <1>1, <1>2 DEF Underway
<1>5. \A s \in Stages, v \in Workers, i \in Ids : Underway(s, v, i, a) => s = "http" /\ v = w
  <2>. SUFFICES ASSUME NEW s \in Stages, NEW v \in Workers, NEW i \in Ids, Underway(s, v, i, a)
                PROVE  s = "http" /\ v = w
    OBVIOUS
  <2>. QED  BY <1>3, <1>4, OnlyStage
<1>6. \A g \in http_login : g.data.bev = a => g = h
  BY <1>1, <1>2, LoginFacts DEF Singles
<1>7. UNCHANGED <<home, claimed, redisq>>
  BY DEF http_login_connected, http_login_read, start_login
<1>8. ASSUME NEW s \in Stages, NEW v \in Workers, NEW i \in Ids, NEW y \in Bevs,
             s = "redis" \/ (s = "task" /\ task' = task), Underway(s, v, i, y)'
      PROVE  y # a /\ Underway(s, v, i, y)
  <2>1. Underway(s, v, i, y)
    <3>1. CASE s = "redis"
      BY <1>7, <1>8, <3>1 DEF Underway
    <3>2. CASE s = "task" /\ task' = task
      BY <1>8, <3>2 DEF Underway
    <3>. QED  BY <1>8, <3>1, <3>2
  <2>2. y = a => s = "http"
    BY <1>5, <2>1
  <2>. QED  BY <1>8, <2>1, <2>2
<1>9. CASE http_login_connected(h)
  <2>. DEFINE n == [h EXCEPT !.stage = "posted"]
  <2>1. n.data = d /\ n.w = w
    BY <1>1 DEF TypeOK
  <2>. HIDE DEF n
  <2>2. http_login' = (http_login \ {h}) \cup {n} /\ UNCHANGED <<at, bev_id, sub_map, task>>
    BY <1>9 DEF http_login_connected, n
  <2>3. \A g \in http_login' : (g \in http_login /\ g.data.bev # a) \/ g = n
    BY <1>6, <2>2
  <2>4. Singles'
    <3>1. \A f, g \in http_login : f.data.bev = g.data.bev => f = g
      BY LoginFacts DEF Singles
    <3>2. \A f, g \in http_login' : f.data.bev = g.data.bev => f = g
      BY <1>2, <2>1, <2>3, <3>1
    <3>3. \A v \in Workers, y \in Bevs : Single(redisq[v], LoginsAt(y))
      BY LoginFacts DEF Singles
    <3>. QED  BY <1>7, <3>2, <3>3 DEF Singles
  <2>5. ASSUME NEW s \in Stages, NEW v \in Workers, NEW i \in Ids, NEW y \in Bevs,
               Underway(s, v, i, y)'
        PROVE  \/ y # a /\ Underway(s, v, i, y)
               \/ s = "http" /\ v = w /\ i = id /\ y = a
    <3>1. CASE s = "http"
      <4>1. PICK g \in http_login' : g.w = v /\ g.data.id = i /\ g.data.bev = y
        BY <2>5, <3>1 DEF Underway
      <4>2. CASE g \in http_login /\ g.data.bev # a
        BY <3>1, <4>1, <4>2 DEF Underway
      <4>3. CASE g = n
        BY <1>2, <2>1, <3>1, <4>1, <4>3
      <4>. QED  BY <2>3, <4>2, <4>3
    <3>2. CASE s # "http"
      BY <1>8, <2>2, <2>5, <3>2 DEF Stages
    <3>. QED  BY <3>1, <3>2
  <2>6. \A s \in Stages, v \in Workers, i \in Ids, y \in Bevs : Underway(s, v, i, y)' =>
          \/ y # a /\ Underway(s, v, i, y)
          \/ s = "http" /\ v = w /\ i = id /\ y = a
    BY <2>5
  <2>7. Lasting
    BY <1>7 DEF Lasting
  <2>8. Sent(w, id, a)' /\ bev_id'[w][a] \notin Ids
    <3>1. Sent(w, id, a) /\ bev_id[w][a] \notin Ids
      BY <1>3, <1>4, LoginFacts DEF LoginsOwn
    <3>. QED  BY <2>2, <2>7, <3>1, SentLasts
  <2>9. \A v \in Workers, b \in Bevs : bev_id'[v][b] \in Ids => bev_id[v][b] \in Ids
    BY <2>2
  <2>10. StageInv
    BY DEF LoginInv
  <2>11. StageInv'
    BY SMT, <1>3, <2>4, <2>6, <2>7, <2>8, <2>9, <2>10, StageMoves
  <2>12. Placed' /\ Served' /\ TaskOpen'
    <3>1. UNCHANGED <<home, at, bev_id, task>>
      BY <1>7, <2>2
    <3>. QED  BY <3>1, LoginFacts DEF Placed, Served, TaskOpen
  <2>13. NoDangling' /\ Authentic'
    BY SMT, <1>7, <2>2, LoginFacts DEF NoDangling, Authentic
  <2>. QED  BY <2>11, <2>12, <2>13 DEF LoginInv, MapsInv
<1>10. CASE http_login_read(h)
  <2>1. /\ http_login' = http_login \ {h}
        /\ \/ UNCHANGED <<at, bev_id, sub_map, task, conn_num>>
           \/ known(w, d.bev) /\ start_login(w, d, TRUE)
    BY <1>1, <1>10 DEF http_login_read
  <2>2. http_login' \subseteq http_login
    BY <2>1
  <2>3. CASE UNCHANGED <<at, bev_id, sub_map, task, conn_num>>
    <3>1. Passive
      BY <1>7, <2>2, <2>3 DEF Passive, TasksStay, RedisStep
    <3>. QED  BY <3>1, LoginPassive
  <2>4. CASE known(w, d.bev) /\ start_login(w, d, TRUE)
    <3>1. Singles'
      BY <1>7, <2>2, LoginFacts DEF Singles
    <3>2. ASSUME NEW s \in Stages, NEW v \in Workers, NEW i \in Ids, NEW y \in Bevs,
                 s # "task", Underway(s, v, i, y)'
          PROVE  y # a /\ Underway(s, v, i, y)
      <4>1. CASE s = "http"
        <5>1. PICK g \in http_login' : g.w = v /\ g.data.id = i /\ g.data.bev = y
          BY <3>2, <4>1 DEF Underway
        <5>2. g \in http_login /\ g # h
          BY <2>1, <5>1
        <5>. QED  BY <1>6, <4>1, <5>1, <5>2 DEF Underway
      <4>2. CASE s = "redis"
        <5>1. y # a /\ Underway("redis", v, i, y)
          <6>1. Underway("redis", v, i, y)'
            BY <3>2, <4>2
          <6>. QED  BY <1>3, <1>8, <6>1
        <5>. QED  BY <4>2, <5>1
      <4>. QED  BY <3>2, <4>1, <4>2 DEF Stages
    <3>3. \A s \in Stages, v \in Workers, i \in Ids, y \in Bevs : s # "task" /\ Underway(s, v, i, y)' =>
             y # d.bev /\ Underway(s, v, i, y)
      BY <1>2, <3>2
    <3>4. Underway("http", w, d.id, d.bev) /\ "http" # "task"
      BY <1>2, <1>4
    <3>. QED  BY <1>3, <1>7, <2>4, <3>1, <3>3, <3>4, LoginStart
  <2>. QED  BY <2>1, <2>3, <2>4
<1>. QED  BY <1>9, <1>10

\* finish_login: the connection is registered under the id.
LEMMA LoginFinish ==
  ASSUME TypeOK, LoginInv, LoginErased, NEW w \in Workers, finish_login(w)
  PROVE  LoginInv'
<1>1. task[w].op = "login" /\ UNCHANGED <<home, at, http_login, claimed>>
  BY DEF finish_login
<1>2. PICK id \in Ids, a \in Bevs : id = task[w].id /\ a = task[w].bev
  BY SMT, <1>1, TaskFields DEF TypeOK, LoginTask
<1>3. sub_map[w][id] = Nil /\ at[a] # Nil
  BY <1>1, <1>2, LoginFacts DEF LoginErased, TaskOpen
<1>4. /\ bev_id' = [bev_id EXCEPT ![w][a] = id]
      /\ sub_map' = [sub_map EXCEPT ![w][id] = a]
      /\ Ask(w, [cb |-> "online", id |-> id, bev |-> a])
      /\ task' = [task EXCEPT ![w] = Idle]
  <2>1. /\ bev_id' = [bev_id EXCEPT ![w][a] = id]
        /\ sub_map' = [sub_map EXCEPT ![w][id] = IF @ = Nil THEN a ELSE @]
        /\ Ask(w, [cb |-> "online", id |-> id, bev |-> a])
        /\ task' = [task EXCEPT ![w] = Idle]
    BY <1>2 DEF finish_login
  <2>. QED  BY <1>3, <2>1 DEF TypeOK
<1>5. /\ bev_id'[w][a] = id
      /\ \A v \in Workers, b \in Bevs : ~(v = w /\ b = a) => bev_id'[v][b] = bev_id[v][b]
  BY <1>4 DEF TypeOK
<1>6. /\ sub_map'[w][id] = a
      /\ \A v \in Workers, i \in Ids : ~(v = w /\ i = id) => sub_map'[v][i] = sub_map[v][i]
  BY <1>4 DEF TypeOK
<1>7. "task" \in Stages
  BY DEF Stages
<1>8. Underway("task", w, id, a)
  BY <1>1, <1>2 DEF Underway
<1>9. Sent(w, id, a) /\ bev_id[w][a] \notin Ids
  BY <1>7, <1>8, LoginFacts DEF LoginsOwn
<1>10. /\ home[at[a]] = [w |-> w, bev |-> a]
       /\ \E k \in DOMAIN claimed[at[a]] : claimed[at[a]][k] = id
  <2>1. PICK c \in Conns : /\ home[c] = [w |-> w, bev |-> a]
                           /\ \E k \in DOMAIN claimed[c] : claimed[c][k] = id
    BY <1>9 DEF Sent
  <2>2. home[c] # Nil /\ home[c].bev = a
    BY SMT, <2>1, PlacesAssumption
  <2>3. at[a] \in Conns /\ home[at[a]] # Nil /\ home[at[a]].bev = a
    BY SMT, <1>3, LoginFacts DEF Placed, TypeOK
  <2>4. c = at[a]
    BY <2>2, <2>3, LoginFacts DEF Placed
  <2>. QED  BY <2>1, <2>4
<1>11. Placed'
  BY <1>1, LoginFacts DEF Placed
<1>12. Served'
  <2>. SUFFICES ASSUME NEW v \in Workers, NEW b \in Bevs, bev_id'[v][b] # Nil
                PROVE  at[b] # Nil /\ home[at[b]] = [w |-> v, bev |-> b]
    BY <1>1 DEF Served
  <2>1. ASSUME ~(v = w /\ b = a) PROVE at[b] # Nil /\ home[at[b]] = [w |-> v, bev |-> b]
    <3>1. bev_id[v][b] # Nil
      BY <1>5, <2>1
    <3>. QED  BY <3>1, LoginFacts DEF Served
  <2>. QED  BY <1>3, <1>10, <2>1
<1>13. NoDangling'
  <2>. SUFFICES ASSUME NEW v \in Workers, NEW i \in Ids, sub_map'[v][i] # Nil
                PROVE  /\ bev_id'[v][sub_map'[v][i]] = i /\ at'[sub_map'[v][i]] # Nil
                       /\ home'[at'[sub_map'[v][i]]] = [w |-> v, bev |-> sub_map'[v][i]]
    BY DEF NoDangling
  <2>1. CASE v = w /\ i = id
    BY <1>1, <1>3, <1>5, <1>6, <1>10, <2>1
  <2>2. CASE ~(v = w /\ i = id)
    <3>1. sub_map'[v][i] = sub_map[v][i]
      BY <1>6, <2>2
    <3>2. PICK b \in Bevs : b = sub_map[v][i] /\ b = sub_map'[v][i] /\ sub_map[v][i] # Nil
      BY SMT, <3>1 DEF TypeOK
    <3>3. bev_id[v][b] = i /\ at[b] # Nil /\ home[at[b]] = [w |-> v, bev |-> b]
      <4>1. NoDangling
        BY LoginFacts
      <4>2. /\ bev_id[v][sub_map[v][i]] = i /\ at[sub_map[v][i]] # Nil
            /\ home[at[sub_map[v][i]]] = [w |-> v, bev |-> sub_map[v][i]]
        BY <3>2, <4>1, Subscribed
      <4>. QED  BY <3>2, <4>2
    <3>4. bev_id'[v][b] = i
      BY <1>5, <1>9, <3>3
    <3>. QED  BY <1>1, <3>2, <3>3, <3>4
  <2>. QED  BY <2>1, <2>2
<1>14. Authentic'
  <2>. SUFFICES ASSUME NEW v \in Workers, NEW b \in Bevs, bev_id'[v][b] \in Ids
                PROVE  at[b] # Nil /\ \E k \in DOMAIN claimed[at[b]] : claimed[at[b]][k] = bev_id'[v][b]
    BY <1>1 DEF Authentic
  <2>1. CASE v = w /\ b = a
    BY <1>3, <1>5, <1>10, <2>1
  <2>2. CASE ~(v = w /\ b = a)
    <3>1. bev_id'[v][b] = bev_id[v][b]
      BY <1>5, <2>2
    <3>2. at[b] # Nil /\ \E k \in DOMAIN claimed[at[b]] : claimed[at[b]][k] = bev_id[v][b]
      BY <3>1, LoginFacts DEF Authentic
    <3>. QED  BY <3>1, <3>2
  <2>. QED  BY <2>1, <2>2
<1>15. TasksStay /\ task'[w].op # "login"
  <2>1. Idle.op # "login"
    BY DEF Idle
  <2>2. task'[w] = Idle
    BY <1>4 DEF TypeOK
  <2>. QED  BY <1>4, <2>1, <2>2, TakesUp
<1>16. RedisStep(Other)
  <2>1. [cb |-> "online", id |-> id, bev |-> a] \in Command
    BY OtherCommands
  <2>2. [cb |-> "online", id |-> id, bev |-> a].cb \in Other
    BY DEF Other
  <2>. QED  BY <1>4, <2>1, <2>2 DEF RedisStep
<1>17. FewerLogins
  BY <1>1, <1>15, <1>16, LoginsFewer
<1>18. Singles' /\ \A s \in Stages, v \in Workers, i \in Ids, b \in Bevs :
         Underway(s, v, i, b)' => Underway(s, v, i, b)
  BY <1>17, UnderwayLess, LoginFacts
<1>19. ASSUME NEW s \in Stages, NEW v \in Workers, NEW i \in Ids, NEW b \in Bevs,
              Underway(s, v, i, b)'
       PROVE  b # a /\ Underway(s, v, i, b)
  <2>1. Underway(s, v, i, b)
    BY <1>18, <1>19
  <2>2. ASSUME b = a PROVE FALSE
    <3>1. Underway(s, v, i, a)
      BY <2>1, <2>2
    <3>2. s = "task" /\ v = w
      BY <1>7, <1>8, <3>1, OnlyStage
    <3>3. task'[w].op = "login"
      BY <1>19, <3>2 DEF Underway
    <3>. QED  BY <1>15, <3>3
  <2>. QED  BY <2>1, <2>2
<1>20. Lasting
  BY <1>1 DEF Lasting
<1>21. StageInv'
  <2>1. \A s \in Stages, v \in Workers, i \in Ids, b \in Bevs :
          Underway(s, v, i, b)' => b # a /\ Underway(s, v, i, b)
    BY <1>19
  <2>2. \A v \in Workers, b \in Bevs : b # a /\ bev_id'[v][b] \in Ids => bev_id[v][b] \in Ids
    BY <1>5
  <2>3. StageInv
    BY DEF LoginInv
  <2>. QED  BY <1>18, <1>20, <2>1, <2>2, <2>3, StageEnds
<1>22. TaskOpen'
  BY <1>1, <1>15, LoginFacts DEF TaskOpen, TasksStay
<1>. QED  BY <1>11, <1>12, <1>13, <1>14, <1>21, <1>22 DEF LoginInv, MapsInv

\* One step.
LEMMA LoginStep ==
  ASSUME TypeOK, LoginInv, LoginErased, MaxLogins <= 1, ~AddrReuse, [Next]_vars
  PROVE  LoginInv'
BY PassiveActions, LoginPassive, LoginConnect, LoginClose, LoginExpire, LoginRead,
   LoginHttp, LoginRedis, LoginFinish, LoginDelete

\* It holds when the server has no connection yet.
LEMMA LoginInit ==
  ASSUME Init
  PROVE  LoginInv
<1>1. /\ \A c \in Conns : home[c] = Nil
      /\ \A b \in Bevs : at[b] = Nil
      /\ \A w \in Workers, b \in Bevs : bev_id[w][b] = Nil
      /\ \A w \in Workers, i \in Ids : sub_map[w][i] = Nil
      /\ \A w \in Workers : redisq[w] = << >> /\ task[w].op # "login"
      /\ http_login = {}
  BY DEF Init, Idle
<1>2. \A w \in Workers : \A S : ~Has(redisq[w], S) /\ Single(redisq[w], S)
  BY SMT, <1>1 DEF Has, Single
<1>3. MapsInv
  BY <1>1, IdsAssumption DEF MapsInv, Placed, Served, NoDangling, Authentic
<1>4. \A s \in Stages, w \in Workers, i \in Ids, b \in Bevs : ~Underway(s, w, i, b)
  BY <1>1, <1>2 DEF Underway
<1>5. StageInv
  <2>1. LoginsOwn /\ OneStage
    BY <1>4 DEF LoginsOwn, OneStage
  <2>2. Singles
    BY <1>1, <1>2 DEF Singles
  <2>. QED  BY <2>1, <2>2 DEF StageInv
<1>6. TaskOpen
  BY <1>1 DEF TaskOpen
<1>. QED  BY <1>3, <1>5, <1>6 DEF LoginInv

\* The whole invariant, where each connection sends at most one login packet and no
\* address is used twice.
LEMMA LoginsKept ==
  ASSUME MaxLogins <= 1, ~AddrReuse
  PROVE  Spec => [](TypeOK /\ LoginErased /\ LoginInv)
<1>1. Init => BevOwnsSub /\ LoginErased /\ LoginInv
  <2>1. Init => BevOwnsSub /\ LoginErased
    BY SMT, IdsAssumption DEF Init, BevOwnsSub, LoginErased, Idle
  <2>. QED  BY <2>1, LoginInit
<1>2. TypeOK /\ BevOwnsSub /\ LoginErased /\ LoginInv /\ [Next]_vars
        => BevOwnsSub' /\ LoginErased' /\ LoginInv'
  BY OwnsStep, LoginStep
<1>. QED  BY <1>1, <1>2, TypeCorrect, PTL DEF Spec

\* For any number of workers, clients, ids and addresses, and however Redis and HTTP
\* answers, displacements and disconnects interleave: a connection is logged in only
\* under an id that it sent a login packet for itself, and it is still open.  (Where a
\* freed address is given out again, or a client logs in twice, a late answer can
\* register an address for somebody else; the run "reuse" is about that case.)
THEOREM LoginIsAuthentic ==
  ASSUME MaxLogins <= 1, ~AddrReuse
  PROVE  Spec => []Authentic
<1>1. LoginInv => Authentic
  BY LoginFacts
<1>. QED  BY <1>1, LoginsKept, PTL

\* In the same setting no Subscriber outlives its connection: get_bev() is allocated, it
\* is a connection of the worker, and _bev_id knows it under the id.
THEOREM NoSubscriberDangles ==
  ASSUME MaxLogins <= 1, ~AddrReuse
  PROVE  Spec => []NoDangling
<1>1. LoginInv => NoDangling
  BY LoginFacts
<1>. QED  BY <1>1, LoginsKept, PTL

-----------------------------------------------------------------------------
(* Where messages are, and how a step changes that.                         *)

Spots == {"redis", "http", "task", "pipe", "inbox"}

TransOf(S) == {q \in Command : q.cb = "trans" /\ q.msg \in S}

\* A message of the set S waits for Redis, HTTP or a loop of worker p, is in its
\* pipe, or has been written to connection p.
Holding(s, p, S) ==
  \/ s = "redis" /\ p \in Workers /\ Has(redisq[p], TransOf(S))
  \/ s = "http" /\ \E h \in http_trans : h.w = p /\ h.msg \in S
  \/ s = "task" /\ p \in Workers /\ task[p].op = "send" /\ task[p].msg \in S
  \/ s = "pipe" /\ p \in Workers /\ Has(pipe[p], S)
  \/ s = "inbox" /\ p \in Conns /\ Has(inbox[p], S)

\* The queue q becomes r; "hit" tells that an element of S is appended.
QueueFlow(q, r, hit, S) ==
  /\ Has(r, S) => Has(q, S) \/ hit
  /\ Single(q, S) /\ (hit => ~Has(q, S)) => Single(r, S)

OneCheck(S) == \A g, h \in http_trans : g.msg \in S /\ h.msg \in S => g = h

\* No message gets to a new place, except for m to the place u of spot t (if t is one).
RedisFlow(t, u, m) ==
  \A v \in Workers, S \in SUBSET Msg :
    QueueFlow(redisq[v], redisq'[v], t = "redis" /\ v = u /\ m \in S, TransOf(S))
HttpFlow(t, u, m) ==
  /\ \A g \in http_trans' :
       (\E h \in http_trans : h.w = g.w /\ h.msg = g.msg) \/ (t = "http" /\ g.w = u /\ g.msg = m)
  /\ \A S \in SUBSET Msg :
       OneCheck(S) /\ (t = "http" /\ m \in S => \A h \in http_trans : h.msg \notin S) => OneCheck(S)'
TaskFlow(t, u, m) ==
  \A v \in Workers : task'[v].op = "send" =>
    \/ task[v].op = "send" /\ task'[v].msg = task[v].msg
    \/ t = "task" /\ v = u /\ task'[v].msg = m
PipeFlow(t, u, m) ==
  \A v \in Workers, S \in SUBSET Msg :
    QueueFlow(pipe[v], pipe'[v], t = "pipe" /\ v = u /\ m \in S, S)
InboxFlow(t, u, m) ==
  \A c \in Conns, S \in SUBSET Msg :
    QueueFlow(inbox[c], inbox'[c], t = "inbox" /\ c = u /\ m \in S, S)

Flows(t, u, m) ==
  /\ RedisFlow(t, u, m) /\ HttpFlow(t, u, m) /\ TaskFlow(t, u, m)
  /\ PipeFlow(t, u, m) /\ InboxFlow(t, u, m)

\* After such a step a message is where it was, or it is m in its new place.
LEMMA FlowHolds ==
  ASSUME NEW t, NEW u, NEW m, Flows(t, u, m),
         NEW s \in Spots, NEW p, NEW S \in SUBSET Msg, Holding(s, p, S)'
  PROVE  Holding(s, p, S) \/ (s = t /\ p = u /\ m \in S)
<1>1. CASE s = "redis"
  <2>1. p \in Workers /\ Has(redisq'[p], TransOf(S))
    BY <1>1 DEF Holding
  <2>2. Has(redisq[p], TransOf(S)) \/ (t = "redis" /\ p = u /\ m \in S)
    BY <2>1 DEF Flows, RedisFlow, QueueFlow
  <2>. QED  BY <1>1, <2>1, <2>2 DEF Holding
<1>2. CASE s = "http"
  <2>1. PICK g \in http_trans' : g.w = p /\ g.msg \in S
    BY <1>2 DEF Holding
  <2>2. (\E h \in http_trans : h.w = g.w /\ h.msg = g.msg) \/ (t = "http" /\ g.w = u /\ g.msg = m)
    BY DEF Flows, HttpFlow
  <2>. QED  BY <1>2, <2>1, <2>2 DEF Holding
<1>3. CASE s = "task"
  <2>1. p \in Workers /\ task'[p].op = "send" /\ task'[p].msg \in S
    BY <1>3 DEF Holding
  <2>2. \/ task[p].op = "send" /\ task'[p].msg = task[p].msg
        \/ t = "task" /\ p = u /\ task'[p].msg = m
    BY <2>1 DEF Flows, TaskFlow
  <2>. QED  BY <1>3, <2>1, <2>2 DEF Holding
<1>4. CASE s = "pipe"
  <2>1. p \in Workers /\ Has(pipe'[p], S)
    BY <1>4 DEF Holding
  <2>2. Has(pipe[p], S) \/ (t = "pipe" /\ p = u /\ m \in S)
    BY <2>1 DEF Flows, PipeFlow, QueueFlow
  <2>. QED  BY <1>4, <2>1, <2>2 DEF Holding
<1>5. CASE s = "inbox"
  <2>1. p \in Conns /\ Has(inbox'[p], S)
    BY <1>5 DEF Holding
  <2>2. Has(inbox[p], S) \/ (t = "inbox" /\ p = u /\ m \in S)
    BY <2>1 DEF Flows, InboxFlow, QueueFlow
  <2>. QED  BY <1>5, <2>1, <2>2 DEF Holding
<1>. QED  BY <1>1, <1>2, <1>3, <1>4, <1>5 DEF Spots

\* What is left alone gains nothing.
LEMMA FlowSame ==
  ASSUME NEW t, NEW u, NEW m
  PROVE  /\ UNCHANGED redisq => RedisFlow(t, u, m)
         /\ UNCHANGED http_trans => HttpFlow(t, u, m)
         /\ UNCHANGED task => TaskFlow(t, u, m)
         /\ UNCHANGED pipe => PipeFlow(t, u, m)
         /\ UNCHANGED inbox => InboxFlow(t, u, m)
<1>1. UNCHANGED redisq => RedisFlow(t, u, m)
  BY DEF RedisFlow, QueueFlow
<1>2. UNCHANGED http_trans => HttpFlow(t, u, m)
  BY DEF HttpFlow, OneCheck
<1>3. UNCHANGED task => TaskFlow(t, u, m)
  BY DEF TaskFlow
<1>4. UNCHANGED pipe => PipeFlow(t, u, m)
  BY DEF PipeFlow, QueueFlow
<1>5. UNCHANGED inbox => InboxFlow(t, u, m)
  BY DEF InboxFlow, QueueFlow
<1>. QED  BY <1>1, <1>2, <1>3, <1>4, <1>5

\* Redis commands other than "trans".
NoTrans == {"login", "online", "offline"}

\* Redis commands of other kinds move no message.
LEMMA FlowRedis ==
  ASSUME TypeOK, RedisStep(NoTrans), NEW t, NEW u, NEW m
  PROVE  RedisFlow(t, u, m)
<1>1. \A S \in SUBSET Msg : \A q \in TransOf(S) : q.cb \notin NoTrans
  BY DEF TransOf, NoTrans
<1>. SUFFICES ASSUME NEW v \in Workers, NEW S \in SUBSET Msg
              PROVE  /\ Has(redisq'[v], TransOf(S)) => Has(redisq[v], TransOf(S))
                     /\ Single(redisq[v], TransOf(S)) => Single(redisq'[v], TransOf(S))
  BY DEF RedisFlow, QueueFlow
<1>. QED  BY <1>1, AskedOther

\* A worker takes up a task, or goes on with its own.
LEMMA FlowTask ==
  ASSUME TypeOK, NEW w \in Workers, NEW x, task' = [task EXCEPT ![w] = x],
         NEW t, NEW u, NEW m,
         x.op = "send" => \/ task[w].op = "send" /\ x.msg = task[w].msg
                          \/ t = "task" /\ u = w /\ x.msg = m
  PROVE  TaskFlow(t, u, m)
<1>1. task'[w] = x /\ \A v \in Workers : v # w => task'[v] = task[v]
  BY DEF TypeOK
<1>. QED  BY <1>1 DEF TaskFlow

\* A pipe is written or read.
LEMMA FlowPipe ==
  ASSUME TypeOK, NEW w \in Workers, NEW m \in Msg, pipe' = [pipe EXCEPT ![w] = Append(@, m)]
  PROVE  PipeFlow("pipe", w, m)
<1>. SUFFICES ASSUME NEW v \in Workers, NEW S \in SUBSET Msg
              PROVE  /\ Has(pipe'[v], S) => Has(pipe[v], S) \/ (v = w /\ m \in S)
                     /\ Single(pipe[v], S) /\ (v = w /\ m \in S => ~Has(pipe[v], S)) => Single(pipe'[v], S)
  BY DEF PipeFlow, QueueFlow
<1>1. pipe'[v] = IF v = w THEN Append(pipe[v], m) ELSE pipe[v]
  BY DEF TypeOK
<1>2. pipe[v] \in Seq(Msg)
  BY DEF TypeOK
<1>3. /\ Has(Append(pipe[v], m), S) <=> Has(pipe[v], S) \/ m \in S
      /\ Single(pipe[v], S) /\ (m \in S => ~Has(pipe[v], S)) => Single(Append(pipe[v], m), S)
  BY <1>2, QueueAppend
<1>. QED  BY <1>1, <1>3

\* A read from a pipe brings no message to a pipe.
LEMMA FlowRead ==
  ASSUME TypeOK, NEW w \in Workers, pipe[w] # << >>, pipe' = [pipe EXCEPT ![w] = Tail(@)],
         NEW t, NEW u, NEW m
  PROVE  PipeFlow(t, u, m)
<1>. SUFFICES ASSUME NEW v \in Workers, NEW S \in SUBSET Msg
              PROVE  /\ Has(pipe'[v], S) => Has(pipe[v], S)
                     /\ Single(pipe[v], S) => Single(pipe'[v], S)
  BY DEF PipeFlow, QueueFlow
<1>1. pipe'[v] = IF v = w THEN Tail(pipe[v]) ELSE pipe[v]
  BY DEF TypeOK
<1>2. pipe[v] \in Seq(Msg)
  BY DEF TypeOK
<1>3. CASE v = w
  <2>1. /\ Has(Tail(pipe[w]), S) => Has(pipe[w], S)
        /\ Single(pipe[w], S) => Single(Tail(pipe[w]), S)
    BY <1>2, <1>3, QueueTail
  <2>. QED  BY <1>1, <1>3, <2>1
<1>. QED  BY <1>1, <1>3

\* Something is written to a connection, or to none that is open.
LEMMA FlowWrite ==
  ASSUME TypeOK, NEW b \in Bevs, NEW x \in Msg \cup FriendReport, inbox' = Write(inbox, b, x),
         NEW t, NEW u, NEW m, x \in Msg => x = m /\ t = "inbox" /\ u = at[b]
  PROVE  InboxFlow(t, u, m)
<1>1. CASE at[b] = Nil
  <2>1. inbox' = inbox
    BY <1>1 DEF Write
  <2>. QED  BY <2>1, FlowSame
<1>2. CASE at[b] # Nil
  <2>1. at[b] \in Conns /\ inbox' = [inbox EXCEPT ![at[b]] = Append(@, x)]
    BY <1>2 DEF TypeOK, Write
  <2>. SUFFICES ASSUME NEW c \in Conns, NEW S \in SUBSET Msg
                PROVE  /\ Has(inbox'[c], S) => Has(inbox[c], S) \/ (c = at[b] /\ x \in S)
                       /\ Single(inbox[c], S) /\ (c = at[b] /\ x \in S => ~Has(inbox[c], S))
                            => Single(inbox'[c], S)
    BY DEF InboxFlow, QueueFlow
  <2>2. inbox'[c] = IF c = at[b] THEN Append(inbox[c], x) ELSE inbox[c]
    BY <2>1 DEF TypeOK
  <2>3. inbox[c] \in Seq(Msg \cup FriendReport)
    BY DEF TypeOK
  <2>4. /\ Has(Append(inbox[c], x), S) <=> Has(inbox[c], S) \/ x \in S
        /\ Single(inbox[c], S) /\ (x \in S => ~Has(inbox[c], S)) => Single(Append(inbox[c], x), S)
    BY <2>3, QueueAppend
  <2>. QED  BY <2>2, <2>4
<1>. QED  BY <1>1, <1>2

-----------------------------------------------------------------------------
(* The steps that move no message.                                          *)

SendsStay ==
  \A v \in Workers : task'[v].op = "send" => task[v].op = "send" /\ task'[v].msg = task[v].msg

Still == UNCHANGED <<pipe, inbox, http_trans, sender>> /\ RedisStep(NoTrans) /\ SendsStay

\* A step that is still moves no message.
LEMMA FlowStill ==
  ASSUME TypeOK, Still, NEW t, NEW u, NEW m
  PROVE  Flows(t, u, m) /\ UNCHANGED sender
<1>1. RedisFlow(t, u, m)
  BY FlowRedis DEF Still
<1>2. TaskFlow(t, u, m)
  BY DEF TaskFlow, Still, SendsStay
<1>. QED  BY <1>1, <1>2, FlowSame DEF Flows, Still

\* Taking up a task that is not a send.
LEMMA TakesUpOther ==
  ASSUME TypeOK, NEW u, NEW t, t.op # "send", task' = task \/ task' = [task EXCEPT ![u] = t]
  PROVE  SendsStay
<1>1. CASE task' = task
  BY <1>1 DEF SendsStay
<1>2. CASE task' = [task EXCEPT ![u] = t]
  BY <1>2 DEF SendsStay, TypeOK
<1>. QED  BY <1>1, <1>2

\* More kinds of commands are allowed.
LEMMA RedisMore ==
  ASSUME NEW K, NEW L, K \subseteq L, RedisStep(K)
  PROVE  RedisStep(L)
BY DEF RedisStep

\* What the clients do but for sending, and the sweep.
LEMMA StillClient ==
  ASSUME TypeOK,
         \/ \E c \in Conns : bufferevent_event_callback(c) \/ read_heartbeat(c)
         \/ \E w \in Workers, c \in Conns : new_connection(w, c)
         \/ \E c \in Conns, id \in Ids : read_login(c, id)
         \/ \E w \in Workers, id \in Ids : heartbeat_missed(w, id)
         \/ \E w \in Workers : del_expire_client(w)
         \/ UNCHANGED vars
  PROVE  Still
<1>1. ASSUME UNCHANGED <<pipe, inbox, http_trans, sender, task, redisq>>
      PROVE  Still
  BY <1>1 DEF Still, SendsStay, RedisStep
<1>2. ASSUME UNCHANGED <<pipe, inbox, http_trans, sender, task>>, RedisStep(NoTrans)
      PROVE  Still
  BY <1>2 DEF Still, SendsStay
<1>3. ASSUME NEW c \in Conns, read_heartbeat(c) PROVE Still
  BY <1>1, <1>3 DEF read_heartbeat
<1>4. ASSUME NEW w \in Workers, NEW c \in Conns, new_connection(w, c) PROVE Still
  BY <1>1, <1>4 DEF new_connection
<1>5. ASSUME NEW w \in Workers, NEW id \in Ids, heartbeat_missed(w, id) PROVE Still
  BY <1>1, <1>5 DEF heartbeat_missed
<1>6. ASSUME NEW c \in Conns, bufferevent_event_callback(c) PROVE Still
  <2>1. home[c] \in [w: Workers, bev: Bevs]
    BY <1>6 DEF TypeOK, bufferevent_event_callback, Open
  <2>2. PICK w \in Workers, b \in Bevs : w = home[c].w /\ b = home[c].bev
    BY <2>1
  <2>3. /\ UNCHANGED <<pipe, inbox, http_trans, sender, task>>
        /\ \/ bev_id[w][b] \in Ids /\ Ask(w, [cb |-> "offline", id |-> bev_id[w][b]])
           \/ UNCHANGED redisq
    BY <1>6, <2>2 DEF bufferevent_event_callback
  <2>4. bev_id[w][b] \in Ids => [cb |-> "offline", id |-> bev_id[w][b]] \in Command
    BY OtherCommands
  <2>5. [cb |-> "offline", id |-> bev_id[w][b]].cb \in NoTrans
    BY DEF NoTrans
  <2>6. RedisStep(NoTrans)
    BY <2>3, <2>4, <2>5 DEF RedisStep
  <2>. QED  BY <1>2, <2>3, <2>6
<1>7. ASSUME NEW c \in Conns, NEW id \in Ids, read_login(c, id) PROVE Still
  <2>1. home[c] \in [w: Workers, bev: Bevs]
    BY <1>7 DEF TypeOK, read_login, Open
  <2>2. PICK w \in Workers, b \in Bevs : w = home[c].w /\ b = home[c].bev
    BY <2>1
  <2>. DEFINE d == [id |-> id, bev |-> b, obj |-> <<c, Len(claimed[c]) + 1>>]
              x == [cb |-> "login", data |-> d]
  <2>3. x \in Command /\ x.cb \in NoTrans
    <3>1. claimed[c] \in Seq(Ids)
      BY DEF TypeOK
    <3>2. d \in LoginData
      BY SMT, <3>1 DEF LoginData
    <3>. QED  BY <3>2 DEF Command, NoTrans
  <2>4. UNCHANGED <<pipe, inbox, http_trans, sender, task>> /\ Ask(w, x)
    BY <1>7, <2>2 DEF read_login
  <2>. HIDE DEF x
  <2>5. RedisStep(NoTrans)
    BY <2>3, <2>4 DEF RedisStep
  <2>. QED  BY <1>2, <2>4, <2>5
<1>8. ASSUME NEW w \in Workers, del_expire_client(w) PROVE Still
  <2>1. RedisStep(NoTrans)
    BY <1>8, ExpireAsks, RedisMore DEF NoTrans
  <2>2. UNCHANGED <<pipe, inbox, http_trans, sender, task>>
    BY <1>8 DEF del_expire_client
  <2>. QED  BY <1>2, <2>1, <2>2
<1>9. CASE UNCHANGED vars
  BY <1>1, <1>9
<1>. QED  BY <1>3, <1>4, <1>5, <1>6, <1>7, <1>8, <1>9

\* The login, the friend lists and the end of a change to _sub_map.
LEMMA StillLogin ==
  ASSUME TypeOK,
         \/ \E h \in http_login : http_login_connected(h) \/ http_login_event(h) \/ http_login_read(h)
         \/ \E w \in Workers : \/ settle(w) \/ racing_find(w) \/ finish_login(w)
                               \/ redis_login_callback(w) \/ redis_friend_list(w)
  PROVE  Still
<1>1. ASSUME UNCHANGED <<pipe, inbox, http_trans, sender>>, RedisStep(NoTrans), SendsStay
      PROVE  Still
  BY <1>1 DEF Still
<1>2. \A d, self : login_loop(d, self).op # "send"
  BY DEF login_loop
<1>3. ASSUME NEW w, \/ task' = task \/ \E d, self : task' = [task EXCEPT ![w] = login_loop(d, self)]
      PROVE  SendsStay
  <2>1. CASE task' = task
    BY <2>1 DEF SendsStay
  <2>2. ASSUME NEW d, NEW self, task' = [task EXCEPT ![w] = login_loop(d, self)] PROVE SendsStay
    BY <1>2, <2>2, TakesUpOther
  <2>. QED  BY <1>3, <2>1, <2>2
<1>4. ASSUME NEW h \in http_login, http_login_connected(h) \/ http_login_event(h) \/ http_login_read(h)
      PROVE  Still
  <2>1. /\ UNCHANGED <<pipe, inbox, http_trans, sender, redisq>>
        /\ task' = task \/ \E d, self : task' = [task EXCEPT ![h.w] = login_loop(d, self)]
    BY <1>4 DEF http_login_connected, http_login_event, http_login_read, start_login
  <2>2. SendsStay
    BY <1>3, <2>1
  <2>. QED  BY <1>1, <2>1, <2>2 DEF RedisStep
<1>5. ASSUME NEW w \in Workers, settle(w) \/ racing_find(w) PROVE Still
  <2>1. UNCHANGED <<pipe, inbox, http_trans, sender, redisq, task>>
    BY <1>5 DEF settle, racing_find
  <2>. QED  BY <1>1, <2>1 DEF RedisStep, SendsStay
<1>6. ASSUME NEW w \in Workers, finish_login(w) PROVE Still
  <2>1. /\ UNCHANGED <<pipe, inbox, http_trans, sender>>
        /\ task' = [task EXCEPT ![w] = Idle]
        /\ Ask(w, [cb |-> "online", id |-> task[w].id, bev |-> task[w].bev])
        /\ task[w].op = "login"
    BY <1>6 DEF finish_login
  <2>2. task[w].id \in Ids /\ task[w].bev \in Bevs
    BY SMT, <2>1, TaskFields DEF TypeOK, LoginTask
  <2>3. /\ [cb |-> "online", id |-> task[w].id, bev |-> task[w].bev] \in Command
        /\ [cb |-> "online", id |-> task[w].id, bev |-> task[w].bev].cb \in NoTrans
    BY <2>2, OtherCommands DEF NoTrans
  <2>4. Idle.op # "send"
    BY DEF Idle
  <2>5. SendsStay
    BY <2>1, <2>4, TakesUpOther
  <2>6. RedisStep(NoTrans)
    BY <2>1, <2>3 DEF RedisStep
  <2>. QED  BY <1>1, <2>1, <2>5, <2>6
<1>7. ASSUME NEW w \in Workers, redis_login_callback(w) PROVE Still
  <2>1. /\ UNCHANGED <<pipe, inbox, http_trans, sender>>
        /\ redisq[w] # << >> /\ redisq' = [redisq EXCEPT ![w] = Tail(@)]
        /\ task' = task \/ \E d, self : task' = [task EXCEPT ![w] = login_loop(d, self)]
    BY <1>7 DEF redis_login_callback, start_login
  <2>2. SendsStay
    BY <1>3, <2>1
  <2>. QED  BY <1>1, <2>1, <2>2 DEF RedisStep
<1>8. ASSUME NEW w \in Workers, redis_friend_list(w) PROVE Still
  <2>1. /\ UNCHANGED <<pipe, inbox, http_trans, sender>>
        /\ redisq[w] # << >> /\ redisq' = [redisq EXCEPT ![w] = Tail(@)]
        /\ task' = task \/ \E t : t.op # "send" /\ task' = [task EXCEPT ![w] = t]
    BY <1>8, ListsFriends
  <2>2. SendsStay
    <3>1. ASSUME NEW t, t.op # "send", task' = [task EXCEPT ![w] = t] PROVE SendsStay
      BY <3>1, TakesUpOther
    <3>2. task' = task => SendsStay
      BY DEF SendsStay
    <3>. QED  BY <2>1, <3>1, <3>2
  <2>. QED  BY <1>1, <2>1, <2>2 DEF RedisStep
<1>. QED  BY <1>4, <1>5, <1>6, <1>7, <1>8

\* Every step moves no message, or is one of these.
LEMMA StillActions ==
  ASSUME TypeOK, [Next]_vars
  PROVE  \/ Still
         \/ \E c \in Conns, from, to \in Ids : read_trans(c, from, to)
         \/ \E h \in http_trans : http_trans_connected(h) \/ http_trans_event(h) \/ http_trans_read(h)
         \/ \E w \in Workers : \/ redis_trans_callback(w)
                               \/ notify_new_msg(w)
                               \/ notify_del_id(w)
                               \/ notify_friend(w)
                               \/ finish_notify(w)
                               \/ notify_new_msg_callback(w)
BY StillClient, StillLogin DEF Next, Client, Http, Loop, RedisReply

-----------------------------------------------------------------------------
(* One owner.  A client's n-th message is in one place at most, there only    *)
(* once, and has been sent.                                                   *)

Nth(n) == {m \in Msg : m.kind = "data" /\ m.n = n}

SoleAt(s, p, S) ==
  /\ s = "redis" /\ p \in Workers => Single(redisq[p], TransOf(S))
  /\ s = "http" => OneCheck(S)
  /\ s = "pipe" /\ p \in Workers => Single(pipe[p], S)
  /\ s = "inbox" /\ p \in Conns => Single(inbox[p], S)

OwnSent == \A s \in Spots : \A p : \A n \in Nat : Holding(s, p, Nth(n)) => n \in 1 .. Len(sender)
OnePlace ==
  \A s, t \in Spots : \A p, q : \A n \in Nat :
    Holding(s, p, Nth(n)) /\ Holding(t, q, Nth(n)) => s = t /\ p = q
Sole == \A s \in Spots : \A p : \A n \in Nat : SoleAt(s, p, Nth(n))
OwnerInv == OwnSent /\ OnePlace /\ Sole

\* A message that was in a place once is there once after the step, if m was not
\* there before.
LEMMA FlowSole ==
  ASSUME NEW t, NEW u, NEW m, Flows(t, u, m), NEW s \in Spots, NEW p, NEW S \in SUBSET Msg,
         SoleAt(s, p, S), s = t /\ m \in S => \A q : ~Holding(s, q, S)
  PROVE  SoleAt(s, p, S)'
<1>1. ASSUME s = "redis", p \in Workers PROVE Single(redisq'[p], TransOf(S))
  <2>1. Single(redisq[p], TransOf(S)) /\ (t = "redis" /\ m \in S => ~Has(redisq[p], TransOf(S)))
    BY <1>1 DEF SoleAt, Holding
  <2>. QED  BY <1>1, <2>1 DEF Flows, RedisFlow, QueueFlow
<1>2. ASSUME s = "http" PROVE OneCheck(S)'
  <2>1. OneCheck(S) /\ (t = "http" /\ m \in S => \A h \in http_trans : h.msg \notin S)
    BY <1>2 DEF SoleAt, Holding
  <2>. QED  BY <2>1 DEF Flows, HttpFlow
<1>3. ASSUME s = "pipe", p \in Workers PROVE Single(pipe'[p], S)
  <2>1. Single(pipe[p], S) /\ (t = "pipe" /\ m \in S => ~Has(pipe[p], S))
    BY <1>3 DEF SoleAt, Holding
  <2>. QED  BY <1>3, <2>1 DEF Flows, PipeFlow, QueueFlow
<1>4. ASSUME s = "inbox", p \in Conns PROVE Single(inbox'[p], S)
  <2>1. Single(inbox[p], S) /\ (t = "inbox" /\ m \in S => ~Has(inbox[p], S))
    BY <1>4 DEF SoleAt, Holding
  <2>. QED  BY <1>4, <2>1 DEF Flows, InboxFlow, QueueFlow
<1>. QED  BY <1>1, <1>2, <1>3, <1>4 DEF SoleAt

\* The n-th message of the clients is a message.
LEMMA NthMsg == \A n : Nth(n) \in SUBSET Msg
BY DEF Nth

\* No client's message is put anywhere.
LEMMA OwnerStays ==
  ASSUME OwnerInv, NEW t, NEW u, NEW m, Flows(t, u, m), t \notin Spots \/ m.kind # "data", UNCHANGED sender
  PROVE  OwnerInv'
<1>1. ASSUME NEW s \in Spots, NEW p, NEW n \in Nat, Holding(s, p, Nth(n))'
      PROVE  Holding(s, p, Nth(n))
  <2>1. Holding(s, p, Nth(n)) \/ (s = t /\ p = u /\ m \in Nth(n))
    BY <1>1, NthMsg, FlowHolds
  <2>2. m \in Nth(n) => m.kind = "data"
    BY DEF Nth
  <2>. QED  BY <2>1, <2>2
<1>2. OwnSent'
  BY <1>1 DEF OwnSent, OwnerInv
<1>3. OnePlace'
  BY <1>1 DEF OnePlace, OwnerInv
<1>4. Sole'
  <2>. SUFFICES ASSUME NEW s \in Spots, NEW p, NEW n \in Nat PROVE SoleAt(s, p, Nth(n))'
    BY DEF Sole
  <2>1. s = t /\ m \in Nth(n) => \A q : ~Holding(s, q, Nth(n))
    BY DEF Nth
  <2>2. SoleAt(s, p, Nth(n)) /\ Nth(n) \in SUBSET Msg
    BY NthMsg DEF Sole, OwnerInv
  <2>. QED  BY <2>1, <2>2, FlowSole
<1>. QED  BY <1>2, <1>3, <1>4 DEF OwnerInv

\* A message is put in a place; nowhere else is it any more.
LEMMA OwnerPuts ==
  ASSUME OwnerInv, NEW t, NEW u, NEW m \in Msg, Flows(t, u, m), NEW k \in Nat, m \in Nth(k),
         k \in 1 .. Len(sender'), \A n \in 1 .. Len(sender) : n \in 1 .. Len(sender'),
         \A s \in Spots : \A p : ~(Holding(s, p, Nth(k)) /\ Holding(s, p, Nth(k))'),
         \A q : ~Holding(t, q, Nth(k))
  PROVE  OwnerInv'
<1>1. \A n : m \in Nth(n) => n = k
  BY DEF Nth
<1>2. ASSUME NEW s \in Spots, NEW p, NEW n \in Nat, Holding(s, p, Nth(n))'
      PROVE  (n # k /\ Holding(s, p, Nth(n))) \/ (n = k /\ s = t /\ p = u)
  <2>1. Holding(s, p, Nth(n)) \/ (s = t /\ p = u /\ m \in Nth(n))
    <3>1. Nth(n) \in SUBSET Msg
      BY NthMsg
    <3>. QED  BY SMT, <1>2, <3>1, FlowHolds
  <2>. QED  BY <1>1, <1>2, <2>1
<1>3. OwnSent'
  BY <1>2 DEF OwnSent, OwnerInv
<1>4. OnePlace'
  <2>. SUFFICES ASSUME NEW s \in Spots, NEW r \in Spots, NEW p, NEW q, NEW n \in Nat,
                       Holding(s, p, Nth(n))', Holding(r, q, Nth(n))'
                PROVE  s = r /\ p = q
    BY DEF OnePlace
  <2>1. CASE n = k
    <3>1. (s = t /\ p = u) /\ (r = t /\ q = u)
      BY SMT, <1>2, <2>1
    <3>. QED  BY <3>1
  <2>2. CASE n # k
    <3>1. Holding(s, p, Nth(n)) /\ Holding(r, q, Nth(n))
      BY <1>2, <2>2
    <3>. QED  BY <3>1 DEF OnePlace, OwnerInv
  <2>. QED  BY <2>1, <2>2
<1>5. Sole'
  <2>. SUFFICES ASSUME NEW s \in Spots, NEW p, NEW n \in Nat PROVE SoleAt(s, p, Nth(n))'
    BY DEF Sole
  <2>1. s = t /\ m \in Nth(n) => \A q : ~Holding(s, q, Nth(n))
    BY <1>1
  <2>2. SoleAt(s, p, Nth(n))
    BY DEF Sole, OwnerInv
  <2>. QED  BY <2>1, <2>2, NthMsg, FlowSole
<1>. QED  BY <1>3, <1>4, <1>5 DEF OwnerInv

\* A message is taken from one place to another.
Moves(s, p, t, u, m) ==
  /\ s \in Spots /\ t \in Spots /\ s # t /\ m \in Msg
  /\ Holding(s, p, {m}) /\ Flows(t, u, m) /\ UNCHANGED sender
  /\ \A S \in SUBSET Msg : m \in S /\ SoleAt(s, p, S) => ~Holding(s, p, S)'

\* A place that holds m holds an element of every set with m in it.
LEMMA HoldingIn ==
  ASSUME NEW s, NEW p, NEW m, NEW S, m \in S, Holding(s, p, {m})
  PROVE  Holding(s, p, S)
<1>1. TransOf({m}) \subseteq TransOf(S)
  BY DEF TransOf
<1>2. \A q : Has(q, TransOf({m})) => Has(q, TransOf(S))
  BY <1>1 DEF Has
<1>3. \A q : Has(q, {m}) => Has(q, S)
  BY DEF Has
<1>. QED  BY <1>2, <1>3 DEF Holding

\* The invariant over a message that is taken from one place and put into another.
LEMMA OwnerMoves ==
  ASSUME OwnerInv, NEW s, NEW p, NEW t, NEW u, NEW m, Moves(s, p, t, u, m)
  PROVE  OwnerInv'
<1>1. /\ s \in Spots /\ t \in Spots /\ s # t /\ m \in Msg /\ UNCHANGED sender
      /\ Flows(t, u, m) /\ Holding(s, p, {m})
  BY DEF Moves
<1>2. CASE m.kind # "data"
  BY <1>1, <1>2, OwnerStays
<1>3. CASE m.kind = "data"
  <2>. DEFINE k == m.n
  <2>1. k \in Nat /\ m \in Nth(k)
    BY <1>1, <1>3 DEF Nth, Msg
  <2>. HIDE DEF k
  <2>2. Holding(s, p, Nth(k))
    BY <1>1, <2>1, HoldingIn
  <2>3. k \in 1 .. Len(sender)
    BY <1>1, <2>1, <2>2 DEF OwnerInv, OwnSent
  <2>4. \A r \in Spots : \A q : Holding(r, q, Nth(k)) => r = s /\ q = p
    BY <1>1, <2>1, <2>2 DEF OwnerInv, OnePlace
  <2>5. ~Holding(s, p, Nth(k))'
    <3>1. SoleAt(s, p, Nth(k))
      BY <1>1, <2>1 DEF OwnerInv, Sole
    <3>. QED  BY <2>1, <3>1, NthMsg DEF Moves
  <2>6. \A r \in Spots : \A q : ~(Holding(r, q, Nth(k)) /\ Holding(r, q, Nth(k))')
    BY <2>4, <2>5
  <2>7. \A q : ~Holding(t, q, Nth(k))
    BY <1>1, <2>4
  <2>8. k \in 1 .. Len(sender') /\ \A n \in 1 .. Len(sender) : n \in 1 .. Len(sender')
    BY <1>1, <2>3
  <2>. QED  BY <1>1, <2>1, <2>6, <2>7, <2>8, OwnerPuts
<1>. QED  BY <1>2, <1>3

-----------------------------------------------------------------------------
(* What each action does to the messages.                                   *)

\* The message is on the direct path.
Direct(m) == m.kind = "data" /\ (m.from \in Wechat \/ m.to \in Wechat)

Drops == Flows("none", Nil, Nil) /\ UNCHANGED sender

\* Connection c sends m, which is relayed at once, after a check, or not at all.
Creates(c, t, m) ==
  /\ m \in Msg /\ m.kind = "data" /\ m.n = Len(sender) + 1
  /\ home[c] \in [w: Workers, bev: Bevs] /\ sender' = Append(sender, c)
  /\ Flows(t, home[c].w, m) /\ UNCHANGED <<home, pipe, inbox>>
  /\ \/ t = "task" /\ Direct(m)
     \/ t = "redis" /\ ~Direct(m)
     \/ t = "none"

\* read_trans creates a message.
LEMMA TransCreates ==
  ASSUME TypeOK, NEW c \in Conns, NEW from \in Ids, NEW to \in Ids, read_trans(c, from, to)
  PROVE  \E t, m : Creates(c, t, m)
<1>. DEFINE m == [kind |-> "data", from |-> from, to |-> to, n |-> Len(sender) + 1]
<1>1. m \in Msg /\ m.kind = "data" /\ m.n = Len(sender) + 1 /\ (direct(from, to) <=> Direct(m))
  BY SMT DEF Msg, TypeOK, direct, Direct
<1>. HIDE DEF m
<1>2. home[c] \in [w: Workers, bev: Bevs]
  BY DEF TypeOK, read_trans, Open
<1>3. PICK w \in Workers : w = home[c].w
  BY <1>2
<1>4. /\ UNCHANGED <<home, pipe, inbox, http_trans>> /\ sender' = Append(sender, c)
      /\ \/ /\ direct(from, to)
            /\ task' = [task EXCEPT ![w] = [op |-> "send", msg |-> m, j |-> 0]]
            /\ UNCHANGED redisq
         \/ ~direct(from, to) /\ Ask(w, [cb |-> "trans", msg |-> m]) /\ UNCHANGED task
         \/ UNCHANGED <<task, redisq>>
  BY <1>3 DEF read_trans, m
<1>5. \A t : HttpFlow(t, w, m) /\ PipeFlow(t, w, m) /\ InboxFlow(t, w, m)
  BY <1>4, FlowSame
<1>6. ASSUME NEW t, RedisFlow(t, w, m), TaskFlow(t, w, m),
             \/ t = "task" /\ Direct(m)
             \/ t = "redis" /\ ~Direct(m)
             \/ t = "none"
      PROVE  Creates(c, t, m)
  BY <1>1, <1>2, <1>3, <1>4, <1>5, <1>6 DEF Creates, Flows
<1>7. CASE /\ direct(from, to) /\ task' = [task EXCEPT ![w] = [op |-> "send", msg |-> m, j |-> 0]]
           /\ UNCHANGED redisq
  <2>1. [op |-> "send", msg |-> m, j |-> 0].msg = m
    OBVIOUS
  <2>2. TaskFlow("task", w, m)
    BY <1>7, <2>1, FlowTask
  <2>3. RedisFlow("task", w, m)
    BY <1>7, FlowSame
  <2>. QED  BY <1>1, <1>6, <1>7, <2>2, <2>3
<1>8. CASE ~direct(from, to) /\ Ask(w, [cb |-> "trans", msg |-> m]) /\ UNCHANGED task
  <2>. DEFINE x == [cb |-> "trans", msg |-> m]
  <2>1. x \in Command /\ x.cb = "trans" /\ x.msg = m
    BY <1>1, OtherCommands
  <2>2. \A S : x \in TransOf(S) <=> m \in S
    BY <2>1 DEF TransOf
  <2>. HIDE DEF x
  <2>3. RedisFlow("redis", w, m)
    <3>. SUFFICES ASSUME NEW v \in Workers, NEW S \in SUBSET Msg
                  PROVE  /\ Has(redisq'[v], TransOf(S)) => Has(redisq[v], TransOf(S)) \/ (v = w /\ m \in S)
                         /\ Single(redisq[v], TransOf(S)) /\ (v = w /\ m \in S => ~Has(redisq[v], TransOf(S)))
                              => Single(redisq'[v], TransOf(S))
      BY DEF RedisFlow, QueueFlow
    <3>1. redisq'[v] = IF v = w THEN Append(redisq[v], x) ELSE redisq[v]
      BY <1>8 DEF Ask, TypeOK, x
    <3>2. redisq[v] \in Seq(Command)
      BY DEF TypeOK
    <3>3. /\ Has(Append(redisq[v], x), TransOf(S)) <=> Has(redisq[v], TransOf(S)) \/ x \in TransOf(S)
          /\ Single(redisq[v], TransOf(S)) /\ (x \in TransOf(S) => ~Has(redisq[v], TransOf(S)))
               => Single(Append(redisq[v], x), TransOf(S))
      BY <2>1, <3>2, QueueAppend
    <3>. QED  BY <2>2, <3>1, <3>3
  <2>4. TaskFlow("redis", w, m)
    BY <1>8, FlowSame
  <2>. QED  BY <1>1, <1>6, <1>8, <2>3, <2>4
<1>9. CASE UNCHANGED <<task, redisq>>
  <2>1. RedisFlow("none", w, m) /\ TaskFlow("none", w, m)
    BY <1>9, FlowSame
  <2>. QED  BY <1>6, <2>1
<1>. QED  BY <1>4, <1>7, <1>8, <1>9

\* redis_trans_callback.
LEMMA RedisMoves ==
  ASSUME TypeOK, NEW w \in Workers, redis_trans_callback(w)
  PROVE  Drops \/ \E t \in {"task", "http"} : \E m : Moves("redis", w, t, w, m)
<1>1. /\ redisq[w] \in Seq(Command) /\ redisq[w] # << >> /\ Head(redisq[w]).cb = "trans"
      /\ redisq' = [redisq EXCEPT ![w] = Tail(@)] /\ UNCHANGED <<pipe, inbox, sender>>
  BY DEF redis_trans_callback, TypeOK
<1>2. Head(redisq[w]) \in Command
  BY <1>1, HeadTail
<1>3. PICK m \in Msg : m = Head(redisq[w]).msg
  BY <1>1, <1>2, CommandFields
<1>4. \A S : m \in S => Head(redisq[w]) \in TransOf(S)
  BY <1>1, <1>2, <1>3 DEF TransOf
<1>5. redisq'[w] = Tail(redisq[w])
  BY <1>1 DEF TypeOK
<1>6. \A S : m \in S /\ Single(redisq[w], TransOf(S)) => ~Has(redisq'[w], TransOf(S))
  <2>. SUFFICES ASSUME NEW S, m \in S, Single(redisq[w], TransOf(S)) PROVE ~Has(redisq'[w], TransOf(S))
    OBVIOUS
  <2>1. ~Has(Tail(redisq[w]), TransOf(S))
    BY <1>1, <1>4, QueueTail
  <2>. QED  BY <1>5, <2>1
<1>7. Holding("redis", w, {m})
  <2>1. Head(redisq[w]) \in TransOf({m})
    BY <1>4
  <2>2. Has(redisq[w], TransOf({m}))
    BY <1>1, <2>1, QueueTail
  <2>. QED  BY <2>2 DEF Holding
<1>8. RedisStep(NoTrans)
  BY <1>1 DEF RedisStep
<1>9. \A t, u, x : RedisFlow(t, u, x) /\ PipeFlow(t, u, x) /\ InboxFlow(t, u, x)
  BY <1>1, <1>8, FlowRedis, FlowSame
<1>10. ASSUME NEW t \in {"task", "http"}, HttpFlow(t, w, m), TaskFlow(t, w, m)
       PROVE  Moves("redis", w, t, w, m)
  <2>1. "redis" \in Spots /\ t \in Spots /\ "redis" # t
    BY DEF Spots
  <2>2. Flows(t, w, m)
    BY <1>9, <1>10 DEF Flows
  <2>3. \A S \in SUBSET Msg : m \in S /\ SoleAt("redis", w, S) => ~Holding("redis", w, S)'
    BY <1>6 DEF SoleAt, Holding
  <2>. QED  BY <1>1, <1>7, <2>1, <2>2, <2>3 DEF Moves
<1>11. CASE /\ task' = [task EXCEPT ![w] = [op |-> "send", msg |-> m, j |-> 0]]
            /\ UNCHANGED http_trans
  <2>1. [op |-> "send", msg |-> m, j |-> 0].msg = m
    OBVIOUS
  <2>2. TaskFlow("task", w, m)
    BY <1>11, <2>1, FlowTask
  <2>3. HttpFlow("task", w, m)
    BY <1>11, FlowSame
  <2>. QED  BY <1>10, <2>2, <2>3
<1>12. CASE /\ http_trans' = http_trans \cup {[w |-> w, msg |-> m, stage |-> "connecting"]}
            /\ UNCHANGED task
  <2>1. TaskFlow("http", w, m)
    BY <1>12, FlowSame
  <2>. DEFINE g == [w |-> w, msg |-> m, stage |-> "connecting"]
  <2>2. g.w = w /\ g.msg = m
    OBVIOUS
  <2>. HIDE DEF g
  <2>3. http_trans' = http_trans \cup {g}
    BY <1>12 DEF g
  <2>4. HttpFlow("http", w, m)
    BY <2>2, <2>3 DEF HttpFlow, OneCheck
  <2>. QED  BY <1>10, <2>1, <2>4
<1>13. CASE UNCHANGED <<task, http_trans>>
  BY <1>1, <1>9, <1>13, FlowSame DEF Drops, Flows
<1>. QED  BY <1>3, <1>11, <1>12, <1>13 DEF redis_trans_callback

\* The HTTP check of a message.
LEMMA HttpMoves ==
  ASSUME TypeOK, NEW h \in http_trans,
         http_trans_connected(h) \/ http_trans_event(h) \/ http_trans_read(h)
  PROVE  Drops \/ Moves("http", h.w, "task", h.w, h.msg)
<1>1. /\ UNCHANGED <<pipe, inbox, sender, redisq>>
      /\ \/ http_trans_connected(h) /\ UNCHANGED task
         \/ http_trans' = http_trans \ {h} /\ UNCHANGED task
         \/ /\ http_trans' = http_trans \ {h}
            /\ task' = [task EXCEPT ![h.w] = [op |-> "send", msg |-> h.msg, j |-> 0]]
  BY DEF http_trans_connected, http_trans_event, http_trans_read
<1>2. \A t, u, x : RedisFlow(t, u, x) /\ PipeFlow(t, u, x) /\ InboxFlow(t, u, x)
  BY <1>1, FlowSame
<1>3. CASE http_trans_connected(h) /\ UNCHANGED task
  <2>. DEFINE n == [h EXCEPT !.stage = "posted"]
  <2>1. n.w = h.w /\ n.msg = h.msg
    BY DEF TypeOK
  <2>. HIDE DEF n
  <2>2. http_trans' = (http_trans \ {h}) \cup {n}
    BY <1>3 DEF http_trans_connected, n
  <2>3. \A g \in http_trans' : (g \in http_trans /\ g # h) \/ g = n
    BY <2>2
  <2>4. \A g \in http_trans' : \E x \in http_trans : x.w = g.w /\ x.msg = g.msg
    BY <2>1, <2>3
  <2>5. \A S \in SUBSET Msg : OneCheck(S) => OneCheck(S)'
    <3>. SUFFICES ASSUME NEW S \in SUBSET Msg, OneCheck(S),
                         NEW f \in http_trans', NEW g \in http_trans', f.msg \in S, g.msg \in S
                  PROVE  f = g
      BY DEF OneCheck
    <3>. QED  BY <2>1, <2>3 DEF OneCheck
  <2>6. HttpFlow("none", Nil, Nil)
    BY <2>4, <2>5 DEF HttpFlow
  <2>. QED  BY <1>1, <1>2, <1>3, <2>6, FlowSame DEF Drops, Flows
<1>4. ASSUME http_trans' = http_trans \ {h}, NEW t, NEW u, NEW x PROVE HttpFlow(t, u, x)
  BY <1>4 DEF HttpFlow, OneCheck
<1>5. CASE http_trans' = http_trans \ {h} /\ UNCHANGED task
  BY <1>1, <1>2, <1>4, <1>5, FlowSame DEF Drops, Flows
<1>6. CASE /\ http_trans' = http_trans \ {h}
           /\ task' = [task EXCEPT ![h.w] = [op |-> "send", msg |-> h.msg, j |-> 0]]
  <2>1. h.w \in Workers /\ h.msg \in Msg
    BY DEF TypeOK
  <2>2. PICK w \in Workers, m \in Msg : w = h.w /\ m = h.msg
    BY <2>1
  <2>3. [op |-> "send", msg |-> m, j |-> 0].msg = m
    OBVIOUS
  <2>4. TaskFlow("task", w, m)
    BY <1>6, <2>2, <2>3, FlowTask
  <2>5. Flows("task", w, m)
    BY <1>2, <1>4, <1>6, <2>4 DEF Flows
  <2>6. Holding("http", w, {m})
    BY <2>2 DEF Holding
  <2>7. "http" \in Spots /\ "task" \in Spots /\ "http" # "task"
    BY DEF Spots
  <2>8. ASSUME NEW S \in SUBSET Msg, m \in S, SoleAt("http", w, S) PROVE ~Holding("http", w, S)'
    <3>. SUFFICES ASSUME NEW g \in http_trans', g.msg \in S PROVE FALSE
      BY DEF Holding
    <3>1. g \in http_trans /\ g # h
      BY <1>6
    <3>2. OneCheck(S)
      BY <2>8 DEF SoleAt
    <3>. QED  BY <2>2, <2>8, <3>1, <3>2 DEF OneCheck
  <2>9. Moves("http", w, "task", w, m)
    BY <1>1, <2>5, <2>6, <2>7, <2>8 DEF Moves
  <2>. QED  BY <2>2, <2>9
<1>. QED  BY <1>1, <1>3, <1>5, <1>6

\* notify_new_msg: the loop hands the message to a worker, goes on, or ends.
LEMMA SendMoves ==
  ASSUME TypeOK, NEW w \in Workers, notify_new_msg(w)
  PROVE  \/ Drops /\ UNCHANGED <<pipe, home, inbox>>
         \/ \E j \in Workers, m \in Msg :
              /\ Moves("task", w, "pipe", j, m)
              /\ pipe' = [pipe EXCEPT ![j] = Append(@, m)]
              /\ task' = [task EXCEPT ![w] = Idle] /\ UNCHANGED <<home, inbox>>
<1>1. task[w].op = "send" /\ UNCHANGED <<home, inbox, http_trans, sender, redisq>>
  BY DEF notify_new_msg
<1>2. task[w] \in SendTask
  BY <1>1, TaskFields DEF TypeOK
<1>3. PICK m \in Msg, j \in 0 .. NumWorkers : m = task[w].msg /\ j = task[w].j
  BY <1>2 DEF SendTask
<1>4. j < NumWorkers => j \in Workers
  BY SMT, WorkersAssumption DEF Workers
<1>5. \/ /\ j < NumWorkers
         /\ pipe' = [pipe EXCEPT ![j] = Append(@, m)] /\ task' = [task EXCEPT ![w] = Idle]
      \/ pipe' = pipe /\ task' = [task EXCEPT ![w].j = j + 1]
      \/ pipe' = pipe /\ task' = [task EXCEPT ![w] = Idle]
  BY <1>3 DEF notify_new_msg, after_send
<1>6. \A t, u, x : RedisFlow(t, u, x) /\ HttpFlow(t, u, x) /\ InboxFlow(t, u, x)
  BY <1>1, FlowSame
<1>7. Idle.op # "send"
  BY DEF Idle
<1>8. ASSUME task' = [task EXCEPT ![w] = Idle], NEW t, NEW u, NEW x PROVE TaskFlow(t, u, x)
  BY <1>7, <1>8, FlowTask
<1>9. CASE /\ j < NumWorkers
           /\ pipe' = [pipe EXCEPT ![j] = Append(@, m)] /\ task' = [task EXCEPT ![w] = Idle]
  <2>1. j \in Workers /\ PipeFlow("pipe", j, m)
    BY <1>4, <1>9, FlowPipe
  <2>2. Flows("pipe", j, m)
    BY <1>6, <1>8, <1>9, <2>1 DEF Flows
  <2>3. Holding("task", w, {m})
    BY <1>1, <1>3 DEF Holding
  <2>4. "task" \in Spots /\ "pipe" \in Spots /\ "task" # "pipe"
    BY DEF Spots
  <2>5. task'[w].op # "send"
    <3>1. task'[w] = Idle
      BY <1>9 DEF TypeOK
    <3>. QED  BY <1>7, <3>1
  <2>6. \A S : ~Holding("task", w, S)'
    BY <2>5 DEF Holding
  <2>7. Moves("task", w, "pipe", j, m)
    BY <1>1, <2>2, <2>3, <2>4, <2>6 DEF Moves
  <2>. QED  BY <1>1, <1>9, <2>1, <2>7
<1>10. CASE pipe' = pipe /\ task' = [task EXCEPT ![w].j = j + 1]
  <2>. DEFINE x == [task[w] EXCEPT !.j = j + 1]
  <2>1. task' = [task EXCEPT ![w] = x] /\ x.msg = task[w].msg
    BY <1>2, <1>10 DEF TypeOK, SendTask
  <2>. HIDE DEF x
  <2>2. TaskFlow("none", Nil, Nil)
    BY <1>1, <2>1, FlowTask
  <2>. QED  BY <1>1, <1>6, <1>10, <2>2, FlowSame DEF Drops, Flows
<1>11. CASE pipe' = pipe /\ task' = [task EXCEPT ![w] = Idle]
  BY <1>1, <1>6, <1>8, <1>11, FlowSame DEF Drops, Flows
<1>. QED  BY <1>5, <1>9, <1>10, <1>11

\* A deletion or a notice is written to a pipe.
Adds(j, m) ==
  /\ m \in Msg /\ m.kind # "data" /\ Flows("pipe", j, m) /\ UNCHANGED <<home, sender, inbox>>
  /\ pipe' = [pipe EXCEPT ![j] = Append(@, m)]

\* notify_del_id.  If the worker's map is at rest it finds the id elsewhere.
LEMMA DelAdds ==
  ASSUME TypeOK, LoginErased, NEW w \in Workers, notify_del_id(w)
  PROVE  /\ task[w].op = "login" /\ SendsStay /\ UNCHANGED <<home, sender, inbox>>
         /\ \/ UNCHANGED pipe /\ Drops
            \/ \E j \in Workers \ {w} : Adds(j, DelMsg(task[w].id))
<1>1. /\ task[w].op = "login" /\ UNCHANGED <<home, inbox, http_trans, sender, redisq>>
      /\ touching[w] = {} /\ task' = [task EXCEPT ![w].j = task[w].j + 1]
  BY DEF notify_del_id, Ready
<1>2. task[w] \in LoginTask
  BY <1>1, TaskFields DEF TypeOK
<1>3. PICK id \in Ids, j \in 0 .. NumWorkers : id = task[w].id /\ j = task[w].j
  BY <1>2 DEF LoginTask
<1>4. \/ pipe' = pipe
      \/ /\ j < NumWorkers /\ TRUE \in find(j, id)
         /\ pipe' = [pipe EXCEPT ![j] = Append(@, DelMsg(id))]
  <2>1. PICK found \in find(j, id) :
          \/ pipe' = pipe
          \/ found /\ pipe' = [pipe EXCEPT ![j] = Append(@, DelMsg(id))]
    BY <1>3 DEF notify_del_id
  <2>2. found \in BOOLEAN /\ j < NumWorkers
    BY <1>3, <2>1 DEF find, notify_del_id
  <2>. QED  BY <2>1, <2>2
<1>5. SendsStay
  <2>. DEFINE x == [task[w] EXCEPT !.j = task[w].j + 1]
  <2>1. task' = [task EXCEPT ![w] = x] /\ x.op # "send"
    BY <1>1, <1>2 DEF TypeOK, LoginTask
  <2>. HIDE DEF x
  <2>. QED  BY <2>1, TakesUpOther
<1>6. \A t, u, x : /\ RedisFlow(t, u, x) /\ HttpFlow(t, u, x) /\ InboxFlow(t, u, x)
                   /\ TaskFlow(t, u, x)
  <2>1. \A t, u, x : TaskFlow(t, u, x)
    BY <1>5 DEF TaskFlow, SendsStay
  <2>. QED  BY <1>1, <2>1, FlowSame
<1>7. CASE pipe' = pipe
  <2>1. Drops
    BY <1>1, <1>6, <1>7, FlowSame DEF Drops, Flows
  <2>. QED  BY <1>1, <1>5, <1>7, <2>1
<1>8. CASE /\ j < NumWorkers /\ TRUE \in find(j, id)
           /\ pipe' = [pipe EXCEPT ![j] = Append(@, DelMsg(id))]
  <2>1. j \in Workers
    BY SMT, <1>8, WorkersAssumption DEF Workers
  <2>2. j # w
    <3>1. sub_map[w][id] = Nil
      BY <1>1, <1>3 DEF LoginErased
    <3>2. find(w, id) = {FALSE}
      BY <1>1, <3>1 DEF find
    <3>. QED  BY <1>8, <3>2
  <2>3. DelMsg(id) \in Msg /\ DelMsg(id).kind # "data"
    BY DEF DelMsg, Msg
  <2>4. Flows("pipe", j, DelMsg(id))
    BY <1>6, <1>8, <2>1, <2>3, FlowPipe DEF Flows
  <2>5. Adds(j, DelMsg(id))
    BY <1>1, <1>8, <2>3, <2>4 DEF Adds
  <2>. QED  BY <1>1, <1>3, <1>5, <2>1, <2>2, <2>5
<1>. QED  BY <1>4, <1>7, <1>8

\* notify_friend.
LEMMA FriendAdds ==
  ASSUME TypeOK, NEW w \in Workers, notify_friend(w)
  PROVE  \/ UNCHANGED <<home, sender, inbox, pipe>> /\ SendsStay /\ Drops
         \/ \E j \in Workers : \E m : SendsStay /\ m.kind # "del" /\ Adds(j, m)
<1>. DEFINE t == task[w]
            f == Head(t.todo)
            note == [kind |-> t.kind, from |-> t.id, to |-> f, n |-> 0]
<1>1. t.op = "notify" /\ t \in Task /\ t.todo # << >>
  BY DEF notify_friend, TypeOK
<1>2. UNCHANGED <<home, inbox, http_trans, sender, redisq>>
  BY DEF notify_friend
<1>3. /\ t.kind \in {"online", "offline"} /\ t.id \in Ids /\ t.todo \in Seq(Ids)
      /\ t.j \in 0 .. NumWorkers
  BY <1>1, TaskFields DEF NotifyTask
<1>4. f \in Ids
  BY <1>1, <1>3, HeadTail
<1>5. note \in Msg /\ note.kind # "data" /\ note.kind # "del"
  BY <1>3, <1>4 DEF Msg
<1>6. SendsStay
  <2>1. /\ next_friend(t).op # "send"
        /\ [next_friend(t) EXCEPT !.seen = @ \cup {Head(t.todo)}].op # "send"
        /\ [t EXCEPT !.j = t.j + 1].op # "send"
    BY <1>1, TaskFields DEF next_friend, NotifyTask
  <2>2. \/ task' = [task EXCEPT ![w] = next_friend(t)]
        \/ task' = [task EXCEPT ![w] = [next_friend(t) EXCEPT !.seen = @ \cup {Head(t.todo)}]]
        \/ task' = [task EXCEPT ![w] = [t EXCEPT !.j = t.j + 1]]
    BY DEF notify_friend, TypeOK
  <2>. QED  BY <2>1, <2>2, TakesUpOther
<1>7. \/ pipe' = pipe
      \/ t.j < NumWorkers /\ pipe' = [pipe EXCEPT ![t.j] = Append(@, note)]
  BY DEF notify_friend
<1>8. t.j < NumWorkers => t.j \in Workers
  BY SMT, <1>3, WorkersAssumption DEF Workers
<1>9. PICK j, m : j = t.j /\ m = note
  OBVIOUS
<1>. HIDE DEF t, f, note
<1>10. \A s, u, x : /\ RedisFlow(s, u, x) /\ HttpFlow(s, u, x) /\ InboxFlow(s, u, x)
                    /\ TaskFlow(s, u, x)
  <2>1. \A s, u, x : TaskFlow(s, u, x)
    BY <1>6 DEF TaskFlow, SendsStay
  <2>. QED  BY <1>2, <2>1, FlowSame
<1>11. CASE pipe' = pipe
  <2>1. Drops
    BY <1>2, <1>10, <1>11, FlowSame DEF Drops, Flows
  <2>. QED  BY <1>2, <1>6, <1>11, <2>1
<1>12. CASE t.j < NumWorkers /\ pipe' = [pipe EXCEPT ![t.j] = Append(@, note)]
  <2>1. /\ j \in Workers /\ pipe' = [pipe EXCEPT ![j] = Append(@, m)]
        /\ m \in Msg /\ m.kind # "data" /\ m.kind # "del"
    BY <1>5, <1>8, <1>9, <1>12
  <2>2. Flows("pipe", j, m)
    BY <1>10, <2>1, FlowPipe DEF Flows
  <2>3. Adds(j, m)
    BY <1>2, <2>1, <2>2 DEF Adds
  <2>. QED  BY <1>6, <2>1, <2>3
<1>. QED  BY <1>7, <1>11, <1>12

\* finish_notify: the client that came online gets the list of its friends.
LEMMA FinishDrops ==
  ASSUME TypeOK, NEW w \in Workers, finish_notify(w)
  PROVE  /\ Drops /\ SendsStay /\ UNCHANGED <<pipe, home, replies, claimed, sender>>
         /\ \/ UNCHANGED inbox
            \/ \E b \in Bevs, c \in Conns, x \in FriendReport :
                 /\ task[w].op = "notify" /\ task[w].kind = "online"
                 /\ task[w].bev = b /\ at[b] = c
                 /\ inbox' = [inbox EXCEPT ![c] = Append(@, x)]
<1>1. /\ UNCHANGED <<home, pipe, redisq, http_trans, sender, claimed, replies>>
      /\ task' = [task EXCEPT ![w] = Idle] /\ task[w].op = "notify"
      /\ \/ /\ task[w].kind = "online"
            /\ inbox' = Write(inbox, task[w].bev, [kind |-> "list", seen |-> task[w].seen])
         \/ inbox' = inbox
  BY DEF finish_notify
<1>2. SendsStay
  <2>1. Idle.op # "send"
    BY DEF Idle
  <2>. QED  BY <1>1, <2>1, TakesUpOther
<1>3. \A t, u, x : TaskFlow(t, u, x)
  BY <1>2 DEF TaskFlow, SendsStay
<1>4. \A t, u, x : RedisFlow(t, u, x) /\ HttpFlow(t, u, x) /\ PipeFlow(t, u, x)
  BY <1>1, FlowSame
<1>5. CASE inbox' = inbox
  BY <1>1, <1>2, <1>3, <1>4, <1>5, FlowSame DEF Drops, Flows
<1>6. CASE /\ task[w].kind = "online"
           /\ inbox' = Write(inbox, task[w].bev, [kind |-> "list", seen |-> task[w].seen])
  <2>1. task[w] \in NotifyTask("online", Bevs)
    <3>1. task[w] \in Task
      BY DEF TypeOK
    <3>. QED  BY <1>1, <1>6, <3>1, TaskFields
  <2>2. PICK b \in Bevs, x \in FriendReport :
          b = task[w].bev /\ x = [kind |-> "list", seen |-> task[w].seen] /\ x.kind = "list"
    <3>1. task[w].bev \in Bevs /\ [kind |-> "list", seen |-> task[w].seen] \in FriendReport
      BY <2>1 DEF NotifyTask, FriendReport
    <3>2. [kind |-> "list", seen |-> task[w].seen].kind = "list"
      OBVIOUS
    <3>. QED  BY <3>1, <3>2
  <2>3. x \notin Msg
    BY <2>2 DEF Msg
  <2>4. inbox' = Write(inbox, b, x)
    BY <1>6, <2>2
  <2>5. InboxFlow("none", Nil, Nil)
    BY <2>3, <2>4, FlowWrite
  <2>6. Drops
    BY <1>1, <1>3, <1>4, <2>5 DEF Drops, Flows
  <2>7. UNCHANGED inbox \/ \E c \in Conns : at[b] = c /\ inbox' = [inbox EXCEPT ![c] = Append(@, x)]
    BY <2>4 DEF Write, TypeOK
  <2>8. task[w].op = "notify" /\ task[w].kind = "online" /\ task[w].bev = b
    BY <1>1, <1>6, <2>2
  <2>9. Drops /\ SendsStay /\ UNCHANGED <<pipe, home, replies, claimed, sender>>
    BY <1>1, <1>2, <2>6
  <2>. QED  BY <2>7, <2>8, <2>9
<1>. QED  BY <1>1, <1>5, <1>6

\* notify_new_msg_callback: the message at the head of the pipe is delivered or dropped.
LEMMA CallbackMoves ==
  ASSUME TypeOK, NEW w \in Workers, notify_new_msg_callback(w)
  PROVE  \E m \in Msg :
           /\ pipe[w] # << >> /\ m = Head(pipe[w]) /\ pipe' = [pipe EXCEPT ![w] = Tail(@)]
           /\ SendsStay /\ UNCHANGED <<home, replies, claimed, sender>>
           /\ \/ UNCHANGED inbox /\ Drops
              \/ \E b \in Bevs, c \in Conns :
                   /\ m.kind # "del" /\ sub_map[w][m.to] = b /\ at[b] = c
                   /\ inbox' = [inbox EXCEPT ![c] = Append(@, m)]
                   /\ Moves("pipe", w, "inbox", c, m)
<1>1. /\ pipe[w] \in Seq(Msg) /\ pipe[w] # << >> /\ pipe' = [pipe EXCEPT ![w] = Tail(@)]
      /\ UNCHANGED <<home, redisq, http_trans, sender, claimed, replies>>
      /\ task' = [task EXCEPT ![w] = IF Len(pipe[w]) = 1 THEN Idle ELSE Drain]
  BY DEF notify_new_msg_callback, TypeOK
<1>2. SendsStay
  <2>1. (IF Len(pipe[w]) = 1 THEN Idle ELSE Drain).op # "send"
    BY DEF Idle, Drain
  <2>. QED  BY <1>1, <2>1, TakesUpOther
<1>3. \A t, u, x : TaskFlow(t, u, x)
  BY <1>2 DEF TaskFlow, SendsStay
<1>4. \A t, u, x : RedisFlow(t, u, x) /\ HttpFlow(t, u, x)
  BY <1>1, FlowSame
<1>5. \A t, u, x : PipeFlow(t, u, x)
  BY <1>1, FlowRead
<1>6. PICK m \in Msg : m = Head(pipe[w])
  BY <1>1, HeadTail
<1>7. \/ UNCHANGED inbox
      \/ m.kind # "del" /\ inbox' = deliver(w, m)
  BY <1>6 DEF notify_new_msg_callback
<1>8. CASE UNCHANGED inbox
  <2>1. Drops
    BY <1>1, <1>3, <1>4, <1>5, <1>8, FlowSame DEF Drops, Flows
  <2>. QED  BY <1>1, <1>2, <1>6, <1>8, <2>1
<1>9. CASE m.kind # "del" /\ inbox' = deliver(w, m) /\ inbox' # inbox
  <2>1. m.to \in Ids /\ sub_map[w][m.to] \in Bevs \cup {Nil}
    BY SMT DEF Msg, TypeOK
  <2>2. PICK b \in Bevs : b = sub_map[w][m.to] /\ inbox' = Write(inbox, b, m)
    BY <1>9, <2>1 DEF deliver
  <2>3. PICK c \in Conns : c = at[b] /\ inbox' = [inbox EXCEPT ![c] = Append(@, m)]
    BY <1>9, <2>2 DEF Write, TypeOK
  <2>4. InboxFlow("inbox", c, m)
    <3>1. m \in Msg \cup FriendReport /\ (m \in Msg => m = m /\ "inbox" = "inbox" /\ c = at[b])
      BY <2>3
    <3>. QED  BY <2>2, <3>1, FlowWrite
  <2>5. Flows("inbox", c, m)
    BY <1>3, <1>4, <1>5, <2>4 DEF Flows
  <2>6. "pipe" \in Spots /\ "inbox" \in Spots /\ "pipe" # "inbox"
    BY DEF Spots
  <2>7. Holding("pipe", w, {m})
    <3>1. Head(pipe[w]) \in {m}
      BY <1>6
    <3>2. Has(pipe[w], {m})
      BY <1>1, <3>1, QueueTail
    <3>. QED  BY <3>2 DEF Holding
  <2>8. ASSUME NEW S \in SUBSET Msg, m \in S, SoleAt("pipe", w, S) PROVE ~Holding("pipe", w, S)'
    <3>1. Single(pipe[w], S) /\ Head(pipe[w]) \in S
      BY <1>6, <2>8 DEF SoleAt
    <3>2. ~Has(Tail(pipe[w]), S)
      BY <1>1, <3>1, QueueTail
    <3>3. pipe'[w] = Tail(pipe[w])
      BY <1>1 DEF TypeOK
    <3>4. ~Has(pipe'[w], S)
      BY <3>2, <3>3
    <3>. QED  BY <3>4 DEF Holding
  <2>9. Moves("pipe", w, "inbox", c, m)
    BY <1>1, <2>5, <2>6, <2>7, <2>8 DEF Moves
  <2>. QED  BY <1>1, <1>2, <1>6, <1>9, <2>2, <2>3, <2>9
<1>. QED  BY <1>7, <1>8, <1>9

\* The invariant over a new message: its number is new, so it is nowhere else.
LEMMA OwnerCreates ==
  ASSUME TypeOK, OwnerInv, NEW c \in Conns, NEW t, NEW m, Creates(c, t, m)
  PROVE  OwnerInv'
<1>1. sender \in Seq(Conns) /\ m \in Msg /\ m.kind = "data" /\ m.n = Len(sender) + 1
      /\ sender' = Append(sender, c)
  BY DEF TypeOK, Creates
<1>2. PICK k \in Nat : k = Len(sender) + 1
  BY SMT, <1>1
<1>3. /\ k \notin 1 .. Len(sender) /\ k \in 1 .. Len(sender')
      /\ \A n \in 1 .. Len(sender) : n \in 1 .. Len(sender')
  BY SMT, <1>1, <1>2
<1>4. m \in Nth(k)
  BY <1>1, <1>2 DEF Nth
<1>5. \A s \in Spots : \A p : ~Holding(s, p, Nth(k))
  BY <1>3 DEF OwnerInv, OwnSent
<1>6. \A q : ~Holding(t, q, Nth(k))
  BY <1>5 DEF Holding, Spots
<1>7. PICK w \in Workers : Flows(t, w, m)
  BY DEF Creates
<1>8. \A s \in Spots : \A p : ~(Holding(s, p, Nth(k)) /\ Holding(s, p, Nth(k))')
  BY <1>5
<1>9. m \in Msg
  BY <1>1
<1>. QED  BY <1>3, <1>4, <1>6, <1>7, <1>8, <1>9, OwnerPuts

\* The inductive step: every action creates a message, moves one, adds a notice or a
\* deletion, or loses one.
LEMMA OwnerStep ==
  ASSUME TypeOK, LoginErased, OwnerInv, [Next]_vars
  PROVE  OwnerInv'
<1>1. ASSUME Drops PROVE OwnerInv'
  <2>1. "none" \notin Spots
    BY DEF Spots
  <2>. QED  BY <1>1, <2>1, OwnerStays DEF Drops
<1>2. ASSUME NEW j, NEW m, Adds(j, m) PROVE OwnerInv'
  BY <1>2, OwnerStays DEF Adds
<1>3. CASE Still
  BY <1>1, <1>3, FlowStill DEF Drops
<1>4. ASSUME NEW c \in Conns, NEW from \in Ids, NEW to \in Ids, read_trans(c, from, to) PROVE OwnerInv'
  BY <1>4, TransCreates, OwnerCreates
<1>5. ASSUME NEW h \in http_trans, http_trans_connected(h) \/ http_trans_event(h) \/ http_trans_read(h)
      PROVE  OwnerInv'
  BY <1>1, <1>5, HttpMoves, OwnerMoves
<1>6. ASSUME NEW w \in Workers, redis_trans_callback(w) PROVE OwnerInv'
  BY <1>1, <1>6, RedisMoves, OwnerMoves
<1>7. ASSUME NEW w \in Workers, notify_new_msg(w) PROVE OwnerInv'
  BY <1>1, <1>7, SendMoves, OwnerMoves
<1>8. ASSUME NEW w \in Workers, notify_del_id(w) PROVE OwnerInv'
  BY <1>1, <1>2, <1>8, DelAdds
<1>9. ASSUME NEW w \in Workers, notify_friend(w) PROVE OwnerInv'
  BY <1>1, <1>2, <1>9, FriendAdds
<1>10. ASSUME NEW w \in Workers, finish_notify(w) PROVE OwnerInv'
  BY <1>1, <1>10, FinishDrops
<1>11. ASSUME NEW w \in Workers, notify_new_msg_callback(w) PROVE OwnerInv'
  BY <1>1, <1>11, CallbackMoves, OwnerMoves
<1>. QED  BY <1>3, <1>4, <1>5, <1>6, <1>7, <1>8, <1>9, <1>10, <1>11, StillActions

\* At the start there is no message.
LEMMA NothingHeld ==
  ASSUME Init
  PROVE  \A s, p, S : ~Holding(s, p, S) /\ SoleAt(s, p, S)
<1>1. /\ \A w \in Workers : redisq[w] = << >> /\ pipe[w] = << >> /\ task[w].op # "send"
      /\ http_trans = {} /\ \A c \in Conns : inbox[c] = << >>
  BY DEF Init, Idle
<1>2. \A S : ~Has(<< >>, S) /\ Single(<< >>, S)
  BY SMT DEF Has, Single
<1>3. \A s, p, S : ~Holding(s, p, S)
  BY <1>1, <1>2 DEF Holding
<1>4. \A s, p, S : SoleAt(s, p, S)
  BY <1>1, <1>2 DEF SoleAt, OneCheck
<1>. QED  BY <1>3, <1>4

\* The message at position k of the place p, or in that stage of its check.
Found(s, p, k, S) ==
  \/ s = "redis" /\ p \in Workers /\ k \in 1 .. Len(redisq[p]) /\ redisq[p][k] \in TransOf(S)
  \/ s = "http" /\ \E h \in http_trans : h.w = p /\ h.stage = k /\ h.msg \in S
  \/ s = "task" /\ p \in Workers /\ k = 0 /\ task[p].op = "send" /\ task[p].msg \in S
  \/ s = "pipe" /\ p \in Workers /\ k \in 1 .. Len(pipe[p]) /\ pipe[p][k] \in S
  \/ s = "inbox" /\ p \in Conns /\ k \in 1 .. Len(inbox[p]) /\ inbox[p][k] \in S

\* A message that is in a place once has one position there.
LEMMA FoundOnce ==
  ASSUME NEW s \in Spots, NEW p, NEW k, NEW l, NEW S, Found(s, p, k, S)
  PROVE  Holding(s, p, S) /\ (Found(s, p, l, S) /\ SoleAt(s, p, S) => k = l)
<1>1. Holding(s, p, S)
  BY DEF Found, Holding, Has
<1>2. ASSUME Found(s, p, l, S), SoleAt(s, p, S) PROVE k = l
  <2>1. CASE s = "redis"
    BY <1>2, <2>1 DEF Found, SoleAt, Single
  <2>2. CASE s = "http"
    BY <1>2, <2>2 DEF Found, SoleAt, OneCheck
  <2>3. CASE s = "task"
    BY <1>2, <2>3 DEF Found
  <2>4. CASE s = "pipe"
    BY <1>2, <2>4 DEF Found, SoleAt, Single
  <2>5. CASE s = "inbox"
    BY <1>2, <2>5 DEF Found, SoleAt, Single
  <2>. QED  BY <2>1, <2>2, <2>3, <2>4, <2>5 DEF Spots
<1>. QED  BY <1>1, <1>2

\* Every pointer that SingleOwner counts is a place and a position.
LEMMA HolderFound ==
  ASSUME TypeOK, NEW n \in Nat, NEW x \in Holders(n)
  PROVE  \E s \in Spots : \E p, k : x = <<s, p, k>> /\ Found(s, p, k, Nth(n))
<1>1. ASSUME NEW w \in Workers, NEW k \in DOMAIN pipe[w], pipe[w][k].kind = "data", pipe[w][k].n = n
      PROVE  Found("pipe", w, k, Nth(n))
  <2>1. k \in 1 .. Len(pipe[w]) /\ pipe[w][k] \in Msg
    BY SMT DEF TypeOK
  <2>. QED  BY <1>1, <2>1 DEF Found, Nth
<1>2. ASSUME NEW w \in Workers, NEW k \in DOMAIN redisq[w], redisq[w][k].cb = "trans",
             redisq[w][k].msg.kind = "data", redisq[w][k].msg.n = n
      PROVE  Found("redis", w, k, Nth(n))
  <2>1. k \in 1 .. Len(redisq[w]) /\ redisq[w][k] \in Command
    BY SMT DEF TypeOK
  <2>2. redisq[w][k].msg \in Msg
    BY <1>2, <2>1, CommandFields
  <2>3. redisq[w][k] \in TransOf(Nth(n))
    BY <1>2, <2>1, <2>2 DEF TransOf, Nth
  <2>. QED  BY <2>1, <2>3 DEF Found
<1>3. ASSUME NEW w \in Workers, task[w].op = "send", task[w].msg.kind = "data", task[w].msg.n = n
      PROVE  Found("task", w, 0, Nth(n))
  <2>1. task[w] \in SendTask
    BY <1>3, TaskFields DEF TypeOK
  <2>2. task[w].msg \in Msg
    BY <2>1 DEF SendTask
  <2>. QED  BY <1>3, <2>2 DEF Found, Nth
<1>4. ASSUME NEW h \in http_trans, h.msg.kind = "data", h.msg.n = n
      PROVE  Found("http", h.w, h.stage, Nth(n))
  <2>1. h.msg \in Msg
    BY DEF TypeOK
  <2>. QED  BY <1>4, <2>1 DEF Found, Nth
<1>5. ASSUME NEW c \in Conns, NEW k \in DOMAIN inbox[c], inbox[c][k].kind = "data", inbox[c][k].n = n
      PROVE  Found("inbox", c, k, Nth(n))
  <2>1. k \in 1 .. Len(inbox[c]) /\ inbox[c][k] \in Msg \cup FriendReport
    BY SMT DEF TypeOK
  <2>2. inbox[c][k] \in Msg
    BY <1>5, <2>1 DEF FriendReport
  <2>. QED  BY <1>5, <2>1, <2>2 DEF Found, Nth
<1>6. {"pipe", "redis", "task", "http", "inbox"} \subseteq Spots
  BY DEF Spots
<1>7. \/ \E w \in Workers : \E k \in DOMAIN pipe[w] :
           x = <<"pipe", w, k>> /\ pipe[w][k].kind = "data" /\ pipe[w][k].n = n
      \/ \E w \in Workers : \E k \in DOMAIN redisq[w] :
           x = <<"redis", w, k>> /\ redisq[w][k].cb = "trans"
           /\ redisq[w][k].msg.kind = "data" /\ redisq[w][k].msg.n = n
      \/ \E w \in Workers : x = <<"task", w, 0>> /\ task[w].op = "send"
           /\ task[w].msg.kind = "data" /\ task[w].msg.n = n
      \/ \E h \in http_trans : x = <<"http", h.w, h.stage>> /\ h.msg.kind = "data" /\ h.msg.n = n
      \/ \E c \in Conns : \E k \in DOMAIN inbox[c] :
           x = <<"inbox", c, k>> /\ inbox[c][k].kind = "data" /\ inbox[c][k].n = n
  BY DEF Holders
<1>. QED  BY <1>1, <1>2, <1>3, <1>4, <1>5, <1>6, <1>7

\* The invariant holds in every reachable state, with address reuse and repeated
\* logins allowed.
LEMMA OwnersKept == Spec => [](TypeOK /\ OwnerInv)
<1>1. Init => BevOwnsSub /\ LoginErased /\ OwnerInv
  <2>1. Init => BevOwnsSub /\ LoginErased
    BY SMT, IdsAssumption DEF Init, BevOwnsSub, LoginErased, Idle
  <2>. QED  BY <2>1, NothingHeld DEF OwnerInv, OwnSent, OnePlace, Sole
<1>2. TypeOK /\ BevOwnsSub /\ LoginErased /\ OwnerInv /\ [Next]_vars
        => BevOwnsSub' /\ LoginErased' /\ OwnerInv'
  BY OwnsStep, OwnerStep
<1>. QED  BY <1>1, <1>2, TypeCorrect, PTL DEF Spec

\* A client's message has one owner: from read_trans through the Redis and HTTP
\* checks, the loop of send_message and a pipe to the connection it is written to,
\* there is one pointer to it at a time, and it is delivered at most once.
THEOREM MessageHasOneOwner == Spec => []SingleOwner
<1>1. TypeOK /\ OwnerInv => SingleOwner
  <2>. SUFFICES ASSUME TypeOK, OwnerInv, NEW n \in DOMAIN sender, NEW x \in Holders(n), NEW y \in Holders(n) PROVE x = y
    BY DEF SingleOwner
  <2>1. n \in Nat
    BY SMT DEF TypeOK
  <2>2. PICK s \in Spots : \E p, k : x = <<s, p, k>> /\ Found(s, p, k, Nth(n))
    BY <2>1, HolderFound
  <2>3. PICK p, k : x = <<s, p, k>> /\ Found(s, p, k, Nth(n))
    BY <2>2
  <2>4. PICK t \in Spots : \E q, l : y = <<t, q, l>> /\ Found(t, q, l, Nth(n))
    BY <2>1, HolderFound
  <2>5. PICK q, l : y = <<t, q, l>> /\ Found(t, q, l, Nth(n))
    BY <2>4
  <2>6. s = t /\ p = q
    <3>1. Holding(s, p, Nth(n)) /\ Holding(t, q, Nth(n))
      BY <2>3, <2>5, FoundOnce
    <3>. QED  BY <2>1, <3>1 DEF OwnerInv, OnePlace
  <2>7. k = l
    BY <2>1, <2>3, <2>5, <2>6, FoundOnce DEF OwnerInv, Sole
  <2>. QED  BY <2>3, <2>5, <2>6, <2>7
<1>. QED  BY <1>1, OwnersKept, PTL
=============================================================================
