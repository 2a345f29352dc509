-------------------------- MODULE Messages_proofs ---------------------------
(* What reaches a client: that only a rival login displaces it, and that it   *)
(* is told of its login first, then gets only what was sent to its id, in the *)
(* order in which a sender sent it.  For any number of workers, connections,  *)
(* ids and messages.                                                          *)
EXTENDS Clients_proofs

\* Zenon proves the leaves that name no other prover.
USE Zenon

USE DEF registry, pending, running, client, vars

-----------------------------------------------------------------------------
(* Who displaces whom.  A deletion in a pipe comes from a login on another    *)
(* worker, and what waits to be sent on is no deletion.                       *)

Orders == {m \in Msg : m.kind # "data"}
Dels(id) == {m \in Msg : m.kind = "del" /\ m.to = id}

Carried == \A s \in {"redis", "http", "task"} : \A p : ~Holding(s, p, Orders)

Rival(w, id) ==
  \E d \in Conns : /\ home[d] # Nil /\ home[d].w # w
                   /\ \E k \in DOMAIN claimed[d] : claimed[d][k] = id

Rivals == \A w \in Workers, id \in Ids : Holding("pipe", w, Dels(id)) => Rival(w, id)

\* A connection keeps its worker and address, and what it claimed stays claimed.
LEMMA NextLasts ==
  ASSUME TypeOK, [Next]_vars
  PROVE  Lasting
<1>1. ASSUME UNCHANGED <<home, claimed>> PROVE Lasting
  BY <1>1 DEF Lasting
<1>2. ASSUME NEW w \in Workers, NEW c \in Conns, new_connection(w, c) PROVE Lasting
  <2>1. PICK x : home[c] = Nil /\ home' = [home EXCEPT ![c] = x] /\ UNCHANGED claimed
    BY <1>2 DEF new_connection
  <2>. QED  BY <2>1 DEF Lasting, TypeOK
<1>3. ASSUME NEW c \in Conns, NEW id \in Ids, read_login(c, id) PROVE Lasting
  <2>1. claimed' = [claimed EXCEPT ![c] = Append(@, id)] /\ UNCHANGED home
    BY <1>3 DEF read_login
  <2>2. claimed \in [Conns -> Seq(Ids)]
    BY DEF TypeOK
  <2>3. ASSUME NEW d \in Conns, NEW k \in DOMAIN claimed[d]
        PROVE  k \in DOMAIN claimed'[d] /\ claimed'[d][k] = claimed[d][k]
    BY SMT, <2>1, <2>2
  <2>. QED  BY <2>1, <2>3 DEF Lasting
<1>4. ASSUME NEW c \in Conns, bufferevent_event_callback(c) PROVE Lasting
  BY <1>1, <1>4 DEF bufferevent_event_callback
<1>5. ASSUME NEW h \in http_login, http_login_connected(h) \/ http_login_read(h) PROVE Lasting
  BY <1>1, <1>5 DEF http_login_connected, http_login_read, start_login
<1>6. ASSUME NEW w \in Workers,
             \/ del_expire_client(w) \/ finish_login(w)
             \/ redis_login_callback(w) \/ notify_new_msg_callback(w)
      PROVE  Lasting
  BY <1>1, <1>6 DEF del_expire_client, finish_login, redis_login_callback,
       notify_new_msg_callback, start_login
<1>7. CASE Passive
  BY <1>1, <1>7 DEF Passive
<1>. QED  BY <1>2, <1>3, <1>4, <1>5, <1>6, <1>7, PassiveActions

\* A rival stays one.
LEMMA RivalLasts ==
  ASSUME Lasting, NEW w, NEW id, Rival(w, id)
  PROVE  Rival(w, id)'
<1>1. PICK d \in Conns : /\ home[d] # Nil /\ home[d].w # w
                         /\ \E k \in DOMAIN claimed[d] : claimed[d][k] = id
  BY DEF Rival
<1>2. home'[d] = home[d] /\ \E k \in DOMAIN claimed'[d] : claimed'[d][k] = id
  BY <1>1 DEF Lasting
<1>. QED  BY <1>1, <1>2 DEF Rival

\* What is put elsewhere than into a pipe is a client's message.
LEMMA CarriedFlows ==
  ASSUME Carried, NEW t, NEW u, NEW m, Flows(t, u, m),
         m \notin Orders \/ t \notin {"redis", "http", "task"}
  PROVE  Carried'
<1>. SUFFICES ASSUME NEW s \in {"redis", "http", "task"}, NEW p, Holding(s, p, Orders)' PROVE FALSE
  BY DEF Carried
<1>1. s \in Spots /\ Orders \in SUBSET Msg /\ ~Holding(s, p, Orders)
  BY DEF Spots, Orders, Carried
<1>. QED  BY <1>1, FlowHolds

\* A message that is moved from one of these places is a client's message.
LEMMA CarriedMoves ==
  ASSUME Carried, NEW s \in {"redis", "http", "task"}, NEW p, NEW t, NEW u, NEW m, Moves(s, p, t, u, m)
  PROVE  m \notin Orders /\ Carried'
<1>1. Holding(s, p, {m}) /\ Flows(t, u, m)
  BY DEF Moves
<1>2. m \notin Orders
  BY <1>1, HoldingIn DEF Carried
<1>. QED  BY <1>1, <1>2, CarriedFlows

\* The inductive step for Carried.
LEMMA CarriedStep ==
  ASSUME TypeOK, LoginErased, Carried, [Next]_vars
  PROVE  Carried'
<1>. DEFINE Early == {"redis", "http", "task"}
<1>1. "none" \notin Early /\ "pipe" \notin Early /\ "inbox" \notin Early
  OBVIOUS
<1>2. ASSUME Drops PROVE Carried'
  BY <1>1, <1>2, CarriedFlows DEF Drops
<1>3. ASSUME NEW j, NEW m, Adds(j, m) PROVE Carried'
  BY <1>1, <1>3, CarriedFlows DEF Adds
<1>4. CASE Still
  BY <1>2, <1>4, FlowStill DEF Drops
<1>5. ASSUME NEW c \in Conns, NEW from \in Ids, NEW to \in Ids, read_trans(c, from, to) PROVE Carried'
  <2>1. PICK t, m : Creates(c, t, m)
    BY <1>5, TransCreates
  <2>2. Flows(t, home[c].w, m) /\ m \notin Orders
    BY <2>1 DEF Creates, Orders
  <2>. QED  BY <2>2, CarriedFlows
<1>6. ASSUME NEW h \in http_trans, http_trans_connected(h) \/ http_trans_event(h) \/ http_trans_read(h)
      PROVE  Carried'
  BY <1>2, <1>6, HttpMoves, CarriedMoves
<1>7. ASSUME NEW w \in Workers, redis_trans_callback(w) PROVE Carried'
  BY <1>2, <1>7, RedisMoves, CarriedMoves
<1>8. ASSUME NEW w \in Workers, notify_new_msg(w) PROVE Carried'
  BY <1>2, <1>8, SendMoves, CarriedMoves
<1>9. ASSUME NEW w \in Workers, notify_del_id(w) PROVE Carried'
  BY <1>2, <1>3, <1>9, DelAdds
<1>10. ASSUME NEW w \in Workers, notify_friend(w) PROVE Carried'
  BY <1>2, <1>3, <1>10, FriendAdds
<1>11. ASSUME NEW w \in Workers, finish_notify(w) PROVE Carried'
  BY <1>2, <1>11, FinishDrops
<1>12. ASSUME NEW w \in Workers, notify_new_msg_callback(w) PROVE Carried'
  BY <1>1, <1>2, <1>12, CallbackMoves, CarriedFlows DEF Moves
<1>. QED  BY <1>4, <1>5, <1>6, <1>7, <1>8, <1>9, <1>10, <1>11, <1>12, StillActions

\* What a step adds to a pipe is no deletion, or one that a rival sent.
LEMMA RivalsFlows ==
  ASSUME Rivals, Lasting, NEW t, NEW u, NEW m, Flows(t, u, m),
         t = "pipe" /\ m.kind = "del" => Rival(u, m.to)
  PROVE  Rivals'
<1>. SUFFICES ASSUME NEW w \in Workers, NEW id \in Ids, Holding("pipe", w, Dels(id))' PROVE Rival(w, id)'
  BY DEF Rivals
<1>1. "pipe" \in Spots /\ Dels(id) \in SUBSET Msg
  BY DEF Spots, Dels
<1>2. Holding("pipe", w, Dels(id)) \/ ("pipe" = t /\ w = u /\ m \in Dels(id))
  BY <1>1, FlowHolds
<1>3. m \in Dels(id) => m.kind = "del" /\ m.to = id
  BY DEF Dels
<1>4. Rival(w, id)
  BY <1>2, <1>3 DEF Rivals
<1>. QED  BY <1>4, RivalLasts

\* The inductive step for Rivals: only a login sends deletions, to the other workers.
LEMMA RivalsStep ==
  ASSUME TypeOK, LoginErased, LoginInv, Carried, Rivals, [Next]_vars
  PROVE  Rivals'
<1>. Lasting
  BY NextLasts
<1>1. ASSUME NEW t, NEW u, NEW m, Flows(t, u, m), t # "pipe" \/ m.kind # "del" PROVE Rivals'
  BY <1>1, RivalsFlows
<1>2. ASSUME Drops PROVE Rivals'
  BY <1>1, <1>2 DEF Drops
<1>3. CASE Still
  BY <1>2, <1>3, FlowStill DEF Drops
<1>4. ASSUME NEW s \in {"redis", "http", "task"}, NEW p, NEW t, NEW u, NEW m, Moves(s, p, t, u, m)
      PROVE  Rivals'
  <2>1. m \in Msg /\ Flows(t, u, m) /\ m \notin Orders
    BY <1>4, CarriedMoves DEF Moves
  <2>2. m.kind # "del"
    BY <2>1 DEF Orders
  <2>. QED  BY <1>1, <2>1, <2>2
<1>5. ASSUME NEW c \in Conns, NEW from \in Ids, NEW to \in Ids, read_trans(c, from, to) PROVE Rivals'
  <2>1. PICK t, m : Creates(c, t, m)
    BY <1>5, TransCreates
  <2>2. Flows(t, home[c].w, m) /\ m.kind # "del"
    BY <2>1 DEF Creates
  <2>. QED  BY <2>2, <1>1
<1>6. ASSUME NEW h \in http_trans, http_trans_connected(h) \/ http_trans_event(h) \/ http_trans_read(h)
      PROVE  Rivals'
  BY <1>2, <1>4, <1>6, HttpMoves
<1>7. ASSUME NEW w \in Workers, redis_trans_callback(w) PROVE Rivals'
  BY <1>2, <1>4, <1>7, RedisMoves
<1>8. ASSUME NEW w \in Workers, notify_new_msg(w) PROVE Rivals'
  BY <1>2, <1>4, <1>8, SendMoves
<1>9. ASSUME NEW w \in Workers, notify_del_id(w) PROVE Rivals'
  <2>1. CASE Drops
    BY <2>1, <1>2
  <2>2. ASSUME NEW j \in Workers \ {w}, Adds(j, DelMsg(task[w].id)) PROVE Rivals'
    <3>1. PICK id \in Ids, b \in Bevs : task[w].op = "login" /\ task[w].id = id /\ task[w].bev = b
      <4>1. task[w].op = "login" /\ task[w] \in Task
        BY <1>9, DelAdds DEF TypeOK
      <4>. QED  BY <4>1, TaskFields DEF LoginTask
    <3>2. Sent(w, id, b)
      BY <3>1, LoginFacts DEF LoginsOwn, Underway, Stages
    <3>3. PICK c \in Conns : home[c] = [w |-> w, bev |-> b] /\ \E k \in DOMAIN claimed[c] : claimed[c][k] = id
      BY <3>2 DEF Sent
    <3>4. home[c] # Nil /\ home[c].w = w
      BY SMT, <3>3, PlacesAssumption
    <3>5. Rival(j, id) /\ DelMsg(id).to = id
      BY <3>3, <3>4, <2>2 DEF Rival, DelMsg
    <3>6. Flows("pipe", j, DelMsg(id))
      BY <2>2, <3>1 DEF Adds
    <3>. QED  BY <3>5, <3>6, RivalsFlows
  <2>. QED  BY <1>9, <2>1, <2>2, DelAdds
<1>10. ASSUME NEW w \in Workers, notify_friend(w) PROVE Rivals'
  <2>1. ASSUME NEW j, NEW m, m.kind # "del", Adds(j, m) PROVE Rivals'
    BY <2>1, <1>1 DEF Adds
  <2>. QED  BY <1>2, <2>1, <1>10, FriendAdds
<1>11. ASSUME NEW w \in Workers, finish_notify(w) PROVE Rivals'
  BY <1>2, <1>11, FinishDrops
<1>12. ASSUME NEW w \in Workers, notify_new_msg_callback(w) PROVE Rivals'
  <2>1. ASSUME NEW c, NEW m, Moves("pipe", w, "inbox", c, m) PROVE Rivals'
    BY <2>1, <1>1 DEF Moves
  <2>. QED  BY <1>2, <2>1, <1>12, CallbackMoves
<1>. QED  BY <1>3, <1>5, <1>6, <1>7, <1>8, <1>9, <1>10, <1>11, <1>12, StillActions

\* The bufferevent of a Subscriber is freed.
LEMMA DropFrees ==
  ASSUME TypeOK, NEW w \in Workers, NEW id \in Ids, NEW b \in Bevs, at[b] # Nil, at'[b] = Nil,
         \/ known(w, sub_map[w][id]) /\ close_bev(w, sub_map[w][id])
         \/ UNCHANGED at
  PROVE  sub_map[w][id] = b
<1>1. at' = [at EXCEPT ![sub_map[w][id]] = Nil]
  BY DEF close_bev
<1>. QED  BY <1>1 DEF TypeOK

\* A bufferevent is freed when its client is gone, by the sweep, or as that of a
\* Subscriber whose id logs in on this worker or is named in a deletion.
LEMMA Frees ==
  ASSUME TypeOK, LoginInv, [Next]_vars, NEW b \in Bevs, at[b] # Nil, at'[b] = Nil
  PROVE  \/ \E d \in Conns : bufferevent_event_callback(d) /\ home[d] # Nil /\ home[d].bev = b
         \/ \E v \in Workers : del_expire_client(v) /\ bev_id[v][b] # Nil
         \/ \E v \in Workers, id \in Ids :
              /\ sub_map[v][id] = b
              /\ \/ Holding("pipe", v, Dels(id))
                 \/ \E s \in Stages, x \in Bevs : Underway(s, v, id, x)
<1>1. ~(UNCHANGED at)
  OBVIOUS
<1>2. ASSUME NEW w \in Workers, NEW c \in Conns, new_connection(w, c) PROVE FALSE
  <2>1. PICK a \in Bevs : at[a] = Nil /\ at' = [at EXCEPT ![a] = c]
    BY <1>2 DEF new_connection
  <2>2. a # b
    BY <2>1
  <2>3. at'[b] = at[b]
    BY <2>1, <2>2 DEF TypeOK
  <2>. QED  BY <2>3
<1>3. ASSUME NEW d \in Conns, bufferevent_event_callback(d) PROVE home[d] # Nil /\ home[d].bev = b
  <2>1. home[d] # Nil /\ at' = [at EXCEPT ![home[d].bev] = Nil]
    BY <1>3 DEF bufferevent_event_callback, close_bev, Open
  <2>. QED  BY <2>1 DEF TypeOK
<1>4. ASSUME NEW v \in Workers, del_expire_client(v) PROVE bev_id[v][b] # Nil
  <2>. DEFINE expired == {i \in late[v] : sub_map[v][i] # Nil /\ \E a \in Bevs : bev_id[v][a] = i}
              dead == {a \in Bevs : bev_id[v][a] \in expired}
  <2>1. at' = [a \in Bevs |-> IF a \in dead THEN Nil ELSE at[a]]
    BY <1>4 DEF del_expire_client
  <2>2. \A a \in dead : bev_id[v][a] # Nil
    BY IdsAssumption DEF TypeOK
  <2>. HIDE DEF expired, dead
  <2>3. b \in dead
    BY <2>1
  <2>. QED  BY <2>2, <2>3
<1>5. ASSUME NEW v \in Workers, redis_login_callback(v)
      PROVE  \E id \in Ids : sub_map[v][id] = b /\ \E s \in Stages, x \in Bevs : Underway(s, v, id, x)
  <2>1. /\ redisq[v] \in Seq(Command) /\ redisq[v] # << >> /\ Head(redisq[v]).cb = "login"
        /\ start_login(v, Head(redisq[v]).data, FALSE)
    BY <1>1, <1>5 DEF redis_login_callback, TypeOK
  <2>2. Head(redisq[v]) \in Command
    BY <2>1, HeadTail
  <2>3. PICK d \in LoginData : d = Head(redisq[v]).data
    BY <2>1, <2>2, CommandFields
  <2>4. PICK id \in Ids, a \in Bevs : id = d.id /\ a = d.bev
    BY DEF LoginData
  <2>5. Head(redisq[v]) \in LoginsOf(id, a)
    BY <2>1, <2>2, <2>3, <2>4 DEF LoginsOf
  <2>6. Has(redisq[v], LoginsOf(id, a))
    BY <2>1, <2>5, QueueTail
  <2>7. "redis" \in Stages /\ Underway("redis", v, id, a)
    BY <2>6 DEF Underway, Stages
  <2>8. sub_map[v][id] = b
    BY <2>1, <2>3, <2>4, DropFrees DEF start_login, displace_local
  <2>. QED  BY <2>7, <2>8
<1>6. ASSUME NEW h \in http_login, http_login_connected(h) \/ http_login_read(h)
      PROVE  /\ h.w \in Workers
             /\ \E id \in Ids : sub_map[h.w][id] = b /\ \E s \in Stages, x \in Bevs : Underway(s, h.w, id, x)
  <2>1. h \in [w: Workers, data: LoginData, stage: {"connecting", "posted"}]
    BY DEF TypeOK
  <2>2. PICK v \in Workers, d \in LoginData : v = h.w /\ d = h.data
    BY <2>1
  <2>3. start_login(v, d, TRUE)
    BY <1>1, <1>6, <2>2 DEF http_login_connected, http_login_read
  <2>4. PICK id \in Ids, a \in Bevs : id = d.id /\ a = d.bev
    BY DEF LoginData
  <2>5. "http" \in Stages /\ Underway("http", v, id, a)
    BY <2>2, <2>4 DEF Underway, Stages
  <2>6. sub_map[v][id] = b
    BY <2>3, <2>4, DropFrees DEF start_login, displace_local
  <2>. QED  BY <2>2, <2>5, <2>6
<1>7. ASSUME NEW v \in Workers, notify_new_msg_callback(v)
      PROVE  \E id \in Ids : sub_map[v][id] = b /\ Holding("pipe", v, Dels(id))
  <2>1. /\ pipe[v] \in Seq(Msg) /\ pipe[v] # << >>
        /\ Head(pipe[v]).kind = "del" /\ delete_old_login(v, Head(pipe[v]).to)
    BY <1>1, <1>7 DEF notify_new_msg_callback, TypeOK
  <2>2. Head(pipe[v]) \in Msg
    BY <2>1, HeadTail
  <2>3. PICK id \in Ids : id = Head(pipe[v]).to
    BY <2>2 DEF Msg
  <2>4. Head(pipe[v]) \in Dels(id)
    BY <2>1, <2>2, <2>3 DEF Dels
  <2>5. Has(pipe[v], Dels(id))
    BY <2>1, <2>4, QueueTail
  <2>6. sub_map[v][id] = b
    BY <2>1, <2>3, DropFrees DEF delete_old_login
  <2>. QED  BY <2>5, <2>6 DEF Holding
<1>8. ~Passive
  BY <1>1 DEF Passive
<1>9. ASSUME NEW v \in Workers, finish_login(v) PROVE FALSE
  BY <1>1, <1>9 DEF finish_login
<1>10. ASSUME NEW c \in Conns, NEW id \in Ids, read_login(c, id) PROVE FALSE
  BY <1>1, <1>10 DEF read_login
<1>. QED  BY <1>2, <1>3, <1>4, <1>5, <1>6, <1>7, <1>8, <1>9, <1>10, PassiveActions

DisplaceInv == TypeOK /\ LoginErased /\ LoginInv /\ Carried /\ Rivals

\* The action of OnlyRivalsDisplace, for one connection.
LEMMA RivalDisplaces ==
  ASSUME DisplaceInv, [Next]_vars, NEW c \in Conns, NEW w, NEW b, NEW id \in Ids,
         home[c] # Nil, home[c].w = w, home[c].bev = b, at[b] = c, at'[b] = Nil, bev_id[w][b] = id,
         ~bufferevent_event_callback(c), ~del_expire_client(w)
  PROVE  \E d \in Conns \ {c} : \E k \in DOMAIN claimed[d] : claimed[d][k] = id
<1>1. TypeOK /\ LoginInv /\ Rivals /\ Placed /\ Served /\ NoDangling /\ LoginsOwn
  BY LoginFacts DEF DisplaceInv
<1>2. w \in Workers /\ b \in Bevs /\ at[b] # Nil
  <2>1. home[c] \in [w: Workers, bev: Bevs]
    BY <1>1 DEF TypeOK
  <2>. QED  BY <2>1, BevsAssumption
<1>3. ASSUME NEW d \in Conns, bufferevent_event_callback(d), home[d] # Nil, home[d].bev = b PROVE FALSE
  BY <1>1, <1>3 DEF Placed
<1>4. ASSUME NEW v \in Workers, del_expire_client(v), bev_id[v][b] # Nil PROVE FALSE
  <2>1. home[at[b]] = [w |-> v, bev |-> b]
    BY <1>1, <1>2, <1>4 DEF Served
  <2>2. v = w
    BY SMT, <2>1
  <2>. QED  BY <2>2, <1>4
<1>5. ASSUME NEW v \in Workers, NEW i \in Ids, sub_map[v][i] = b PROVE v = w /\ i = id
  <2>1. sub_map[v][i] # Nil
    BY <1>2, <1>5, BevsAssumption
  <2>2. bev_id[v][b] = i /\ home[at[b]] = [w |-> v, bev |-> b]
    BY SMT, <1>1, <1>5, <2>1, Subscribed
  <2>. QED  BY SMT, <2>2
<1>6. ASSUME Holding("pipe", w, Dels(id))
      PROVE  \E d \in Conns \ {c} : \E k \in DOMAIN claimed[d] : claimed[d][k] = id
  <2>1. Rival(w, id)
    BY <1>1, <1>2, <1>6 DEF Rivals
  <2>2. PICK d \in Conns : home[d].w # w /\ \E k \in DOMAIN claimed[d] : claimed[d][k] = id
    BY <2>1 DEF Rival
  <2>3. d # c
    BY <2>2
  <2>. QED  BY <2>2, <2>3
<1>7. ASSUME NEW s \in Stages, NEW x \in Bevs, Underway(s, w, id, x)
      PROVE  \E d \in Conns \ {c} : \E k \in DOMAIN claimed[d] : claimed[d][k] = id
  <2>1. Sent(w, id, x) /\ bev_id[w][x] \notin Ids
    BY <1>1, <1>2, <1>7 DEF LoginsOwn
  <2>2. PICK d \in Conns : home[d] = [w |-> w, bev |-> x] /\ \E k \in DOMAIN claimed[d] : claimed[d][k] = id
    BY <2>1 DEF Sent
  <2>3. d # c
    BY SMT, <2>1, <2>2
  <2>. QED  BY <2>2, <2>3
<1>8. \/ \E d \in Conns : bufferevent_event_callback(d) /\ home[d] # Nil /\ home[d].bev = b
      \/ \E v \in Workers : del_expire_client(v) /\ bev_id[v][b] # Nil
      \/ \E v \in Workers, i \in Ids :
           /\ sub_map[v][i] = b
           /\ \/ Holding("pipe", v, Dels(i))
              \/ \E s \in Stages, x \in Bevs : Underway(s, v, i, x)
  BY <1>1, <1>2, Frees
<1>9. ASSUME NEW v \in Workers, NEW i \in Ids, sub_map[v][i] = b,
             \/ Holding("pipe", v, Dels(i))
             \/ \E s \in Stages, x \in Bevs : Underway(s, v, i, x)
      PROVE  \E d \in Conns \ {c} : \E k \in DOMAIN claimed[d] : claimed[d][k] = id
  <2>1. v = w /\ i = id
    BY <1>5, <1>9
  <2>. QED  BY <1>6, <1>7, <1>9, <2>1
<1>. QED  BY <1>3, <1>4, <1>8, <1>9

\* If no address is used twice and a connection sends one login packet, nobody is
\* logged out by the server but for a missed heartbeat or because another connection sent
\* a login packet for the same id.
THEOREM OnlyARivalDisplaces ==
  ASSUME MaxLogins <= 1, ~AddrReuse
  PROVE  Spec => OnlyRivalsDisplace
<1>. DEFINE Displaces(c) ==
        LET w  == home[c].w
            id == bev_id[w][home[c].bev]
        IN Open(c) /\ at'[home[c].bev] = Nil /\ id \in Ids
             /\ ~bufferevent_event_callback(c) /\ ~del_expire_client(w)
           => \E d \in Conns \ {c} : \E k \in DOMAIN claimed[d] : claimed[d][k] = id
<1>1. Init => Carried /\ Rivals
  BY NothingHeld DEF Carried, Rivals
<1>2. TypeOK /\ LoginErased /\ LoginInv /\ Carried /\ Rivals /\ [Next]_vars => Carried' /\ Rivals'
  BY CarriedStep, RivalsStep
<1>3. TypeOK /\ LoginErased /\ LoginInv /\ Carried /\ Rivals /\ [Next]_vars => [\A c \in Conns : Displaces(c)]_vars
  <2>. SUFFICES ASSUME DisplaceInv, [Next]_vars, NEW c \in Conns PROVE Displaces(c)
    BY DEF DisplaceInv
  <2>1. PICK w, b, id : home[c].w = w /\ home[c].bev = b /\ bev_id[w][b] = id
    OBVIOUS
  <2>2. SUFFICES ASSUME home[c] # Nil, at[b] = c, at'[b] = Nil, id \in Ids,
                        ~bufferevent_event_callback(c), ~del_expire_client(w)
                 PROVE  \E d \in Conns \ {c} : \E k \in DOMAIN claimed[d] : claimed[d][k] = id
    BY <2>1 DEF Open
  <2>. QED  BY SMT, <2>1, <2>2, RivalDisplaces
<1>. QED  BY <1>1, <1>2, <1>3, LoginsKept, PTL DEF Spec, OnlyRivalsDisplace

-----------------------------------------------------------------------------
(* Who gets a message.  A connection is told that its login succeeded before  *)
(* anything else is written to it.                                            *)

Told(c) == \E r \in DOMAIN replies[c] : replies[c][r] = "ok"
ToldAt(w, b) == \E c \in Conns : home[c] = [w |-> w, bev |-> b] /\ Told(c)

OnlineAt(b) == {q \in Command : q.cb = "online" /\ q.bev = b}

\* Worker w may write to the bufferevent b: it is logged in, or its friends are looked for.
Telling(w, b) ==
  \/ bev_id[w][b] \in Ids
  \/ Has(redisq[w], OnlineAt(b))
  \/ task[w].op = "notify" /\ task[w].kind = "online" /\ task[w].bev = b

TellFirst == \A w \in Workers, b \in Bevs : Telling(w, b) => ToldAt(w, b)

\* What new_connection records of an accepted connection.
LEMMA PlaceFields ==
  ASSUME NEW v \in Workers, NEW b \in Bevs, NEW x, x = [w |-> v, bev |-> b]
  PROVE  x # Nil /\ x.w = v /\ x.bev = b
<1>1. [w |-> v, bev |-> b] \in [w: Workers, bev: Bevs]
  OBVIOUS
<1>. QED  BY <1>1, PlacesAssumption

\* A login reply is written.
LEMMA WriteReply ==
  ASSUME TypeOK, NEW b \in Bevs, NEW x \in {"ok", "fail"}, replies' = Write(replies, b, x),
         NEW c \in Conns, Told(c) \/ (x = "ok" /\ at[b] = c)
  PROVE  Told(c)'
<1>1. replies \in [Conns -> Seq({"ok", "fail"})] /\ at[b] \in Conns \cup {Nil}
  BY DEF TypeOK
<1>2. CASE at[b] = Nil
  <2>1. replies' = replies /\ at[b] # c
    BY <1>2, BevsAssumption DEF Write
  <2>. QED  BY <2>1 DEF Told
<1>3. ASSUME NEW d \in Conns, at[b] = d PROVE Told(c)'
  <2>1. replies' = [replies EXCEPT ![d] = Append(@, x)]
    BY <1>3, BevsAssumption DEF Write
  <2>2. CASE c # d
    <3>1. replies'[c] = replies[c] /\ Told(c)
      BY <1>1, <1>3, <2>1, <2>2
    <3>. QED  BY <3>1 DEF Told
  <2>3. CASE c = d
    <3>1. replies[c] \in Seq({"ok", "fail"}) /\ replies'[c] = Append(replies[c], x)
      BY <1>1, <2>1, <2>3
    <3>2. \/ \E r \in DOMAIN replies[c] : replies[c][r] = "ok"
          \/ x = "ok"
      BY DEF Told
    <3>3. \E r \in DOMAIN replies'[c] : replies'[c][r] = "ok"
      BY SMT, <3>1, <3>2
    <3>. QED  BY <3>3 DEF Told
  <2>. QED  BY <2>2, <2>3
<1>. QED  BY <1>1, <1>2, <1>3

\* The login a worker is completing is that of an open connection of its own.
LEMMA TaskOwner ==
  ASSUME TypeOK, LoginInv, NEW w \in Workers, task[w].op = "login"
  PROVE  \E b \in Bevs, c \in Conns :
           task[w].bev = b /\ at[b] = c /\ home[c] = [w |-> w, bev |-> b]
<1>1. PICK id \in Ids, b \in Bevs : task[w].id = id /\ task[w].bev = b
  <2>1. task[w] \in Task
    BY DEF TypeOK
  <2>. QED  BY <2>1, TaskFields DEF LoginTask
<1>2. "task" \in Stages /\ Underway("task", w, id, b)
  BY <1>1 DEF Underway, Stages
<1>3. PICK c \in Conns : home[c] = [w |-> w, bev |-> b]
  <2>1. Sent(w, id, b)
    BY <1>2, LoginFacts DEF LoginsOwn
  <2>. QED  BY <2>1 DEF Sent
<1>4. PICK d \in Conns : at[b] = d /\ home[d] # Nil /\ home[d].bev = b
  <2>1. TaskOpen /\ Placed
    BY LoginFacts
  <2>2. at[b] # Nil
    BY <1>1, <2>1 DEF TaskOpen
  <2>3. at[b] \in Conns
    BY <2>2 DEF TypeOK
  <2>. QED  BY <2>1, <2>2, <2>3 DEF Placed
<1>5. home[c] # Nil /\ home[c].bev = b
  BY SMT, <1>3, PlaceFields
<1>6. c = d
  BY <1>4, <1>5, LoginFacts DEF Placed
<1>. QED  BY <1>1, <1>3, <1>4, <1>6

\* What was told stays told, and finish_login tells it.
LEMMA RepliesGrow ==
  ASSUME TypeOK, LoginInv, [Next]_vars
  PROVE  /\ \A c \in Conns : Told(c) => Told(c)'
         /\ \A w \in Workers, b \in Bevs : finish_login(w) /\ task[w].bev = b => ToldAt(w, b)'
<1>1. ASSUME NEW w \in Workers, finish_login(w)
      PROVE  /\ \A c \in Conns : Told(c) => Told(c)'
             /\ \A b \in Bevs : task[w].bev = b => ToldAt(w, b)'
  <2>1. PICK b \in Bevs, d \in Conns : task[w].bev = b /\ at[b] = d /\ home[d] = [w |-> w, bev |-> b]
    BY <1>1, TaskOwner DEF finish_login
  <2>2. replies' = Write(replies, b, "ok") /\ home' = home
    BY <1>1, <2>1 DEF finish_login
  <2>3. "ok" \in {"ok", "fail"}
    OBVIOUS
  <2>4. \A c \in Conns : Told(c) => Told(c)'
    BY <2>2, <2>3, WriteReply
  <2>5. Told(d)'
    BY <2>1, <2>2, <2>3, WriteReply
  <2>6. ToldAt(w, b)'
    BY <2>1, <2>2, <2>5 DEF ToldAt
  <2>. QED  BY <2>1, <2>4, <2>6
<1>2. ASSUME UNCHANGED replies PROVE \A c \in Conns : Told(c) => Told(c)'
  BY <1>2 DEF Told
<1>3. ASSUME NEW b \in Bevs, replies' = Write(replies, b, "fail") PROVE \A c \in Conns : Told(c) => Told(c)'
  <2>1. "fail" \in {"ok", "fail"}
    OBVIOUS
  <2>. QED  BY <1>3, <2>1, WriteReply
<1>4. ASSUME NEW w \in Workers, redis_login_callback(w) PROVE \A c \in Conns : Told(c) => Told(c)'
  <2>1. redisq[w] \in Seq(Command) /\ redisq[w] # << >> /\ Head(redisq[w]).cb = "login"
    BY <1>4 DEF redis_login_callback, TypeOK
  <2>2. Head(redisq[w]) \in Command
    BY <2>1, HeadTail
  <2>3. PICK b \in Bevs : b = Head(redisq[w]).data.bev
    BY <2>1, <2>2, CommandFields DEF LoginData
  <2>4. UNCHANGED replies \/ replies' = Write(replies, b, "fail")
    BY <1>4, <2>3 DEF redis_login_callback
  <2>. QED  BY <1>2, <1>3, <2>4
<1>5. ASSUME NEW h \in http_login, http_login_connected(h) \/ http_login_event(h) \/ http_login_read(h)
      PROVE  \A c \in Conns : Told(c) => Told(c)'
  <2>1. h \in [w: Workers, data: LoginData, stage: {"connecting", "posted"}]
    BY DEF TypeOK
  <2>2. PICK b \in Bevs : b = h.data.bev
    BY <2>1 DEF LoginData
  <2>3. UNCHANGED replies \/ replies' = Write(replies, b, "fail")
    BY <1>5, <2>2 DEF http_login_connected, http_login_event, http_login_read
  <2>. QED  BY <1>2, <1>3, <2>3
<1>6. \/ UNCHANGED replies
      \/ \E w \in Workers : finish_login(w) \/ redis_login_callback(w)
      \/ \E h \in http_login : http_login_connected(h) \/ http_login_event(h) \/ http_login_read(h)
  <2>1. ASSUME Client PROVE UNCHANGED replies
    BY <2>1 DEF Client, bufferevent_event_callback, read_heartbeat, new_connection, read_login,
         read_trans, heartbeat_missed
  <2>2. ASSUME NEW h \in http_trans, http_trans_connected(h) \/ http_trans_event(h) \/ http_trans_read(h)
        PROVE  UNCHANGED replies
    BY <2>2 DEF http_trans_connected, http_trans_event, http_trans_read
  <2>3. ASSUME NEW w \in Workers,
               \/ settle(w) \/ notify_del_id(w) \/ notify_new_msg(w) \/ notify_friend(w)
               \/ finish_notify(w) \/ racing_find(w) \/ notify_new_msg_callback(w)
        PROVE  UNCHANGED replies
    BY <2>3 DEF settle, notify_del_id, notify_new_msg, notify_friend, finish_notify,
         racing_find, notify_new_msg_callback
  <2>4. ASSUME NEW w \in Workers, redis_trans_callback(w) \/ redis_friend_list(w) \/ del_expire_client(w)
        PROVE  UNCHANGED replies
    BY <2>4 DEF redis_trans_callback, redis_friend_list, del_expire_client
  <2>5. CASE UNCHANGED vars
    BY <2>5
  <2>. QED  BY <2>1, <2>2, <2>3, <2>4, <2>5 DEF Next, Http, Loop, RedisReply
<1>7. ASSUME NEW w \in Workers, finish_login(w), NEW b \in Bevs, task[w].bev = b PROVE ToldAt(w, b)'
  BY <1>1, <1>7
<1>. QED  BY <1>1, <1>2, <1>4, <1>5, <1>6, <1>7

\* An id enters _bev_id by finish_login only.
LEMMA IdsFrom ==
  ASSUME TypeOK, [Next]_vars, NEW w \in Workers, NEW b \in Bevs, bev_id'[w][b] \in Ids
  PROVE  bev_id[w][b] \in Ids \/ (finish_login(w) /\ task[w].bev = b)
<1>0. bev_id \in [Workers -> [Bevs -> Ids \cup {NoId, Nil}]] /\ Nil \notin Ids /\ NoId \notin Ids
  BY IdsAssumption DEF TypeOK
<1>1. ASSUME UNCHANGED bev_id PROVE bev_id[w][b] \in Ids
  BY <1>1
<1>2. ASSUME NEW v, NEW a, bev_id' = [bev_id EXCEPT ![v][a] = Nil] PROVE bev_id[w][b] \in Ids
  BY SMT, <1>0, <1>2
<1>3. ASSUME NEW v \in Workers, NEW c \in Conns, new_connection(v, c) PROVE bev_id[w][b] \in Ids
  <2>1. PICK a \in Bevs : bev_id' = [bev_id EXCEPT ![v][a] = IF @ = Nil THEN NoId ELSE @]
    BY <1>3 DEF new_connection
  <2>. QED  BY SMT, <1>0, <2>1
<1>4. ASSUME NEW c \in Conns, bufferevent_event_callback(c) PROVE bev_id[w][b] \in Ids
  BY <1>2, <1>4 DEF bufferevent_event_callback, close_bev
<1>5. ASSUME NEW v \in Workers, del_expire_client(v) PROVE bev_id[w][b] \in Ids
  <2>. DEFINE expired == {i \in late[v] : sub_map[v][i] # Nil /\ \E a \in Bevs : bev_id[v][a] = i}
              dead == {a \in Bevs : bev_id[v][a] \in expired}
  <2>1. bev_id' = [bev_id EXCEPT ![v] = [a \in Bevs |-> IF a \in dead THEN Nil ELSE @[a]]]
    BY <1>5 DEF del_expire_client
  <2>. HIDE DEF dead
  <2>. QED  BY SMT, <1>0, <2>1
<1>6. ASSUME NEW v \in Workers, redis_login_callback(v) PROVE bev_id[w][b] \in Ids
  BY <1>1, <1>2, <1>6 DEF redis_login_callback, start_login, displace_local, close_bev
<1>7. ASSUME NEW h \in http_login, http_login_connected(h) \/ http_login_read(h) PROVE bev_id[w][b] \in Ids
  BY <1>1, <1>2, <1>7 DEF http_login_connected, http_login_read, start_login, displace_local, close_bev
<1>8. ASSUME NEW v \in Workers, notify_new_msg_callback(v) PROVE bev_id[w][b] \in Ids
  BY <1>1, <1>2, <1>8 DEF notify_new_msg_callback, delete_old_login, close_bev
<1>9. ASSUME NEW v \in Workers, finish_login(v) PROVE bev_id[w][b] \in Ids \/ (finish_login(w) /\ task[w].bev = b)
  <2>1. bev_id' = [bev_id EXCEPT ![v][task[v].bev] = task[v].id]
    BY <1>9 DEF finish_login
  <2>2. CASE v = w /\ task[v].bev = b
    BY <2>2, <1>9
  <2>3. CASE ~(v = w /\ task[v].bev = b)
    <3>1. bev_id'[w][b] = bev_id[w][b]
      BY SMT, <1>0, <2>1, <2>3
    <3>. QED  BY <3>1
  <2>. QED  BY <2>2, <2>3
<1>10. ASSUME NEW c \in Conns, NEW id \in Ids, read_login(c, id) PROVE bev_id[w][b] \in Ids
  BY <1>1, <1>10 DEF read_login
<1>11. CASE Passive
  BY <1>1, <1>11 DEF Passive
<1>. QED  BY <1>3, <1>4, <1>5, <1>6, <1>7, <1>8, <1>9, <1>10, <1>11, PassiveActions

NoOnline == {"login", "trans", "offline"}

\* The friends of one who came online are asked for by finish_login only.
LEMMA OnlineAsks ==
  ASSUME TypeOK, [Next]_vars
  PROVE  RedisStep(NoOnline) \/ \E w \in Workers : finish_login(w)
<1>1. ASSUME UNCHANGED redisq PROVE RedisStep(NoOnline)
  BY <1>1 DEF RedisStep
<1>2. ASSUME NEW w \in Workers, redisq[w] # << >>, redisq' = [redisq EXCEPT ![w] = Tail(@)]
      PROVE  RedisStep(NoOnline)
  BY <1>2 DEF RedisStep
<1>3. ASSUME NEW w \in Workers, NEW x \in Command, Ask(w, x), x.cb \in NoOnline PROVE RedisStep(NoOnline)
  BY <1>3 DEF RedisStep
<1>4. ASSUME NEW w \in Workers, del_expire_client(w) PROVE RedisStep(NoOnline)
  BY <1>4, ExpireAsks, RedisMore DEF NoOnline
<1>5. ASSUME NEW c \in Conns, Open(c) PROVE \E w \in Workers, b \in Bevs : w = home[c].w /\ b = home[c].bev
  <2>1. home[c] \in [w: Workers, bev: Bevs]
    BY <1>5 DEF TypeOK, Open
  <2>. QED  BY <2>1
<1>6. ASSUME NEW c \in Conns, bufferevent_event_callback(c) PROVE RedisStep(NoOnline)
  <2>1. PICK w \in Workers, b \in Bevs : w = home[c].w /\ b = home[c].bev
    BY <1>5, <1>6 DEF bufferevent_event_callback
  <2>2. PICK id : id = bev_id[w][b]
    OBVIOUS
  <2>3. UNCHANGED redisq \/ (id \in Ids /\ Ask(w, [cb |-> "offline", id |-> id]))
    BY <1>6, <2>1, <2>2 DEF bufferevent_event_callback
  <2>4. id \in Ids => [cb |-> "offline", id |-> id] \in Command
    BY OtherCommands
  <2>5. [cb |-> "offline", id |-> id].cb \in NoOnline
    BY DEF NoOnline
  <2>. QED  BY <1>1, <1>3, <2>3, <2>4, <2>5
<1>7. ASSUME NEW c \in Conns, NEW id \in Ids, read_login(c, id) PROVE RedisStep(NoOnline)
  <2>1. PICK w \in Workers, b \in Bevs : w = home[c].w /\ b = home[c].bev
    BY <1>5, <1>7 DEF read_login
  <2>. DEFINE d == [id |-> id, bev |-> b, obj |-> <<c, Len(claimed[c]) + 1>>]
              x == [cb |-> "login", data |-> d]
  <2>2. claimed[c] \in Seq(Ids)
    BY DEF TypeOK
  <2>3. d \in LoginData
    BY SMT, <2>2 DEF LoginData
  <2>4. x \in Command /\ x.cb \in NoOnline
    BY <2>3 DEF Command, NoOnline
  <2>5. Ask(w, x)
    BY <1>7, <2>1 DEF read_login
  <2>. HIDE DEF x
  <2>. QED  BY <1>3, <2>4, <2>5
<1>8. ASSUME NEW c \in Conns, NEW from \in Ids, NEW to \in Ids, read_trans(c, from, to)
      PROVE  RedisStep(NoOnline)
  <2>1. PICK w \in Workers, b \in Bevs : w = home[c].w /\ b = home[c].bev
    BY <1>5, <1>8 DEF read_trans
  <2>. DEFINE m == [kind |-> "data", from |-> from, to |-> to, n |-> Len(sender) + 1]
              x == [cb |-> "trans", msg |-> m]
  <2>2. Len(sender) + 1 \in Nat
    BY SMT DEF TypeOK
  <2>3. m \in Msg
    BY <2>2 DEF Msg
  <2>4. x \in Command /\ x.cb \in NoOnline
    BY <2>3 DEF Command, NoOnline
  <2>5. UNCHANGED redisq \/ Ask(w, x)
    BY <1>8, <2>1 DEF read_trans
  <2>. HIDE DEF x
  <2>. QED  BY <1>1, <1>3, <2>4, <2>5
<1>9. ASSUME NEW w \in Workers,
             redis_login_callback(w) \/ redis_trans_callback(w) \/ redis_friend_list(w)
      PROVE  RedisStep(NoOnline)
  BY <1>2, <1>9 DEF redis_login_callback, redis_trans_callback, redis_friend_list
<1>10. ASSUME NEW w \in Workers,
              \/ settle(w) \/ notify_del_id(w) \/ notify_new_msg(w) \/ notify_friend(w)
              \/ finish_notify(w) \/ racing_find(w) \/ notify_new_msg_callback(w)
       PROVE  RedisStep(NoOnline)
  BY <1>1, <1>10 DEF settle, notify_del_id, notify_new_msg, notify_friend, finish_notify,
       racing_find, notify_new_msg_callback
<1>11. ASSUME Http PROVE RedisStep(NoOnline)
  BY <1>1, <1>11 DEF Http, http_login_connected, http_login_event, http_login_read,
       http_trans_connected, http_trans_event, http_trans_read
<1>12. ASSUME NEW c \in Conns, read_heartbeat(c) PROVE RedisStep(NoOnline)
  BY <1>1, <1>12 DEF read_heartbeat
<1>13. ASSUME NEW w \in Workers, NEW c \in Conns, new_connection(w, c) PROVE RedisStep(NoOnline)
  BY <1>1, <1>13 DEF new_connection
<1>14. ASSUME NEW w \in Workers, NEW id \in Ids, heartbeat_missed(w, id) PROVE RedisStep(NoOnline)
  BY <1>1, <1>14 DEF heartbeat_missed
<1>15. CASE UNCHANGED vars
  BY <1>1, <1>15
<1>. QED  BY <1>4, <1>6, <1>7, <1>8, <1>9, <1>10, <1>11, <1>12, <1>13, <1>14, <1>15
            DEF Next, Client, Loop, RedisReply

NoticesStay ==
  \A v \in Workers : task'[v].op = "notify" /\ task'[v].kind = "online" =>
    task[v].op = "notify" /\ task[v].kind = "online" /\ task'[v].bev = task[v].bev

\* A worker takes up another task, or goes on with the notices.
LEMMA NoticesKept ==
  ASSUME TypeOK, NEW u, NEW t,
         \/ t.op # "notify"
         \/ t.op = task[u].op /\ t.kind = task[u].kind /\ t.bev = task[u].bev,
         task' = task \/ task' = [task EXCEPT ![u] = t]
  PROVE  NoticesStay
<1>1. CASE task' = task
  BY <1>1 DEF NoticesStay
<1>2. CASE task' = [task EXCEPT ![u] = t]
  <2>1. \A v \in Workers : task'[v] = IF v = u THEN t ELSE task[v]
    BY <1>2 DEF TypeOK
  <2>. QED  BY <2>1 DEF NoticesStay
<1>. QED  BY <1>1, <1>2

\* A worker that is idle, relays a message or completes a login gives no notices.
LEMMA NoNotices ==
  /\ Idle.op # "notify" /\ Drain.op # "notify"
  /\ \A d, self : login_loop(d, self).op # "notify"
BY DEF Idle, Drain, login_loop

\* Notices are taken up by redis_friend_list only.
LEMMA NoticesFrom ==
  ASSUME TypeOK, [Next]_vars
  PROVE  NoticesStay \/ \E w \in Workers : redis_friend_list(w)
<1>1. ASSUME UNCHANGED task PROVE NoticesStay
  BY <1>1 DEF NoticesStay
<1>2. ASSUME NEW u, NEW t, task' = [task EXCEPT ![u] = t], t.op # "notify" PROVE NoticesStay
  BY <1>2, NoticesKept
<1>3. ASSUME NEW u, NEW m, task' = [task EXCEPT ![u] = [op |-> "send", msg |-> m, j |-> 0]]
       PROVE  NoticesStay
  <2>1. [op |-> "send", msg |-> m, j |-> 0].op # "notify"
    OBVIOUS
  <2>. QED  BY <1>2, <1>3, <2>1
<1>4. ASSUME NEW u, NEW d, NEW self, task' = [task EXCEPT ![u] = login_loop(d, self)] PROVE NoticesStay
  <2>1. login_loop(d, self).op # "notify"
    BY NoNotices
  <2>. QED  BY <1>2, <1>4, <2>1
<1>5. ASSUME Client PROVE NoticesStay
  <2>1. ASSUME NEW c \in Conns, NEW from \in Ids, NEW to \in Ids, read_trans(c, from, to)
        PROVE  UNCHANGED task \/ \E u, m : task' = [task EXCEPT ![u] = [op |-> "send", msg |-> m, j |-> 0]]
    BY <2>1 DEF read_trans
  <2>2. \/ UNCHANGED task
        \/ \E c \in Conns, from, to \in Ids : read_trans(c, from, to)
    BY <1>5 DEF Client, bufferevent_event_callback, read_heartbeat, new_connection, read_login,
         heartbeat_missed
  <2>. QED  BY <1>1, <1>3, <2>1, <2>2
<1>6. ASSUME Http PROVE NoticesStay
  <2>1. \/ UNCHANGED task
        \/ \E u, m : task' = [task EXCEPT ![u] = [op |-> "send", msg |-> m, j |-> 0]]
        \/ \E u, d : task' = [task EXCEPT ![u] = login_loop(d, TRUE)]
    BY <1>6 DEF Http, http_login_connected, http_login_event, http_login_read,
         http_trans_connected, http_trans_event, http_trans_read, start_login
  <2>. QED  BY <1>1, <1>3, <1>4, <2>1
<1>7. ASSUME NEW w \in Workers, redis_login_callback(w) PROVE NoticesStay
  <2>1. UNCHANGED task \/ \E d : task' = [task EXCEPT ![w] = login_loop(d, FALSE)]
    BY <1>7 DEF redis_login_callback, start_login
  <2>. QED  BY <1>1, <1>4, <2>1
<1>8. ASSUME NEW w \in Workers, redis_trans_callback(w) PROVE NoticesStay
  <2>1. UNCHANGED task \/ \E m : task' = [task EXCEPT ![w] = [op |-> "send", msg |-> m, j |-> 0]]
    BY <1>8 DEF redis_trans_callback
  <2>. QED  BY <1>1, <1>3, <2>1
<1>9. ASSUME NEW w \in Workers,
             \/ settle(w) \/ racing_find(w) \/ finish_login(w) \/ finish_notify(w)
             \/ notify_new_msg_callback(w) \/ del_expire_client(w)
      PROVE  NoticesStay
  <2>1. \/ UNCHANGED task
        \/ task' = [task EXCEPT ![w] = Idle]
        \/ task' = [task EXCEPT ![w] = Drain]
    BY <1>9 DEF settle, racing_find, finish_login, finish_notify, notify_new_msg_callback,
         del_expire_client
  <2>. QED  BY <1>1, <1>2, <2>1, NoNotices
<1>10. ASSUME NEW w \in Workers, notify_del_id(w) \/ notify_new_msg(w) PROVE NoticesStay
  <2>1. /\ task[w] \in Task /\ task[w].op \in {"login", "send"}
        /\ \/ task' = [task EXCEPT ![w] = Idle]
           \/ \E k : task' = [task EXCEPT ![w].j = k]
    BY <1>10 DEF notify_del_id, notify_new_msg, after_send, TypeOK
  <2>2. task[w] \in LoginTask \cup SendTask
    BY <2>1, TaskFields
  <2>3. ASSUME NEW k, task' = [task EXCEPT ![w].j = k] PROVE NoticesStay
    <3>. DEFINE x == [task[w] EXCEPT !.j = k]
    <3>1. x.op # "notify"
      BY <2>2 DEF LoginTask, SendTask
    <3>2. task' = [task EXCEPT ![w] = x]
      BY <2>3
    <3>. HIDE DEF x
    <3>. QED  BY <1>2, <3>1, <3>2
  <2>. QED  BY <1>2, <2>1, <2>3, NoNotices
<1>11. ASSUME NEW w \in Workers, notify_friend(w) PROVE NoticesStay
  <2>. DEFINE t == task[w]
              Same(x) == x.op = t.op /\ x.kind = t.kind /\ x.bev = t.bev
  <2>1. t \in Task /\ t.op = "notify"
    BY <1>11 DEF notify_friend, TypeOK
  <2>2. /\ Same(next_friend(t)) /\ Same([t EXCEPT !.j = t.j + 1])
        /\ Same([next_friend(t) EXCEPT !.seen = @ \cup {Head(t.todo)}])
    BY <2>1, TaskFields DEF next_friend, NotifyTask
  <2>3. \/ task' = [task EXCEPT ![w] = next_friend(t)]
        \/ task' = [task EXCEPT ![w] = [next_friend(t) EXCEPT !.seen = @ \cup {Head(t.todo)}]]
        \/ task' = [task EXCEPT ![w] = [t EXCEPT !.j = t.j + 1]]
    BY <1>11 DEF notify_friend, TypeOK
  <2>4. ASSUME NEW x, Same(x), task' = [task EXCEPT ![w] = x] PROVE NoticesStay
    BY <2>4, NoticesKept
  <2>. HIDE DEF t, Same
  <2>. QED  BY <2>2, <2>3, <2>4
<1>12. CASE UNCHANGED vars
  BY <1>1, <1>12
<1>. QED  BY <1>5, <1>6, <1>7, <1>8, <1>9, <1>10, <1>11, <1>12 DEF Next, Loop, RedisReply

\* What a worker may write to is not new, but for the login that finish_login completes.
LEMMA TellingFrom ==
  ASSUME TypeOK, [Next]_vars, NEW w \in Workers, NEW b \in Bevs, Telling(w, b)'
  PROVE  Telling(w, b) \/ (finish_login(w) /\ task[w].bev = b)
<1>1. CASE bev_id'[w][b] \in Ids
  BY <1>1, IdsFrom DEF Telling
<1>2. CASE Has(redisq'[w], OnlineAt(b))
  <2>1. CASE RedisStep(NoOnline)
    <3>1. \A q \in OnlineAt(b) : q.cb \notin NoOnline
      BY DEF OnlineAt, NoOnline
    <3>2. Has(redisq[w], OnlineAt(b))
      BY <1>2, <2>1, <3>1, AskedOther
    <3>. QED  BY <3>2 DEF Telling
  <2>2. ASSUME NEW v \in Workers, finish_login(v)
        PROVE  Telling(w, b) \/ (finish_login(w) /\ task[w].bev = b)
    <3>1. task[v] \in LoginTask
      BY <2>2, TaskFields DEF finish_login, TypeOK
    <3>2. PICK id \in Ids, a \in Bevs : task[v].id = id /\ task[v].bev = a
      BY <3>1 DEF LoginTask
    <3>3. PICK x \in Command : x = [cb |-> "online", id |-> id, bev |-> a]
      BY OtherCommands
    <3>4. redisq' = [redisq EXCEPT ![v] = Append(@, x)] /\ redisq \in [Workers -> Seq(Command)]
      BY <2>2, <3>2, <3>3 DEF finish_login, Ask, TypeOK
    <3>5. CASE v = w
      <4>1. redisq'[w] = Append(redisq[w], x) /\ redisq[w] \in Seq(Command)
        BY <3>4, <3>5
      <4>2. Has(redisq[w], OnlineAt(b)) \/ x \in OnlineAt(b)
        <5>1. Has(Append(redisq[w], x), OnlineAt(b)) <=> Has(redisq[w], OnlineAt(b)) \/ x \in OnlineAt(b)
          BY <4>1, QueueAppend
        <5>. QED  BY <1>2, <4>1, <5>1
      <4>3. x \in OnlineAt(b) => a = b
        BY <3>3 DEF OnlineAt
      <4>. QED  BY <2>2, <3>2, <3>5, <4>2, <4>3 DEF Telling
    <3>6. CASE v # w
      <4>1. redisq'[w] = redisq[w]
        BY <3>4, <3>6
      <4>. QED  BY <1>2, <4>1 DEF Telling
    <3>. QED  BY <3>5, <3>6
  <2>. QED  BY <2>1, <2>2, OnlineAsks
<1>3. CASE task'[w].op = "notify" /\ task'[w].kind = "online" /\ task'[w].bev = b
  <2>1. CASE NoticesStay
    BY <1>3, <2>1 DEF NoticesStay, Telling
  <2>2. ASSUME NEW v \in Workers, redis_friend_list(v) PROVE Telling(w, b)
    <3>1. task \in [Workers -> Task] /\ redisq[v] \in Seq(Command) /\ redisq[v] # << >>
      BY <2>2, ListsFriends DEF TypeOK
    <3>2. CASE task'[w] = task[w]
      BY <1>3, <3>2 DEF Telling
    <3>3. ASSUME NEW order, v = w, task'[w] = Notices(Head(redisq[v]), order) PROVE Telling(w, b)
      <4>1. PICK q \in Command : q = Head(redisq[v])
        BY <3>1, HeadTail
      <4>2. task'[w].kind = q.cb /\ task'[w].bev = IF q.cb = "online" THEN q.bev ELSE Nil
        <5>1. /\ Notices(q, order).kind = q.cb
              /\ Notices(q, order).bev = IF q.cb = "online" THEN q.bev ELSE Nil
          BY DEF Notices
        <5>2. task'[w] = Notices(q, order)
          BY <3>3, <4>1
        <5>. QED  BY <5>1, <5>2
      <4>3. q \in OnlineAt(b)
        <5>1. q.cb = "online"
          BY <1>3, <4>2
        <5>2. q.bev = b
          BY <1>3, <4>2, <5>1
        <5>. QED  BY <5>1, <5>2 DEF OnlineAt
      <4>4. Has(redisq[w], OnlineAt(b))
        BY <3>1, <3>3, <4>1, <4>3, QueueTail
      <4>. QED  BY <4>4 DEF Telling
    <3>4. task'[w] = task[w] \/ (v = w /\ \E order : task'[w] = Notices(Head(redisq[v]), order))
      <4>1. \/ task' = task
            \/ \E order : task' = [task EXCEPT ![v] = Notices(Head(redisq[v]), order)]
        BY <2>2, ListsFriends
      <4>. QED  BY <3>1, <4>1
    <3>. QED  BY <3>2, <3>3, <3>4
  <2>. QED  BY <2>1, <2>2, NoticesFrom
<1>. QED  BY <1>1, <1>2, <1>3 DEF Telling

\* The inductive step for TellFirst.
LEMMA TellStep ==
  ASSUME TypeOK, LoginInv, TellFirst, [Next]_vars
  PROVE  TellFirst'
<1>. SUFFICES ASSUME NEW w \in Workers, NEW b \in Bevs, Telling(w, b)' PROVE ToldAt(w, b)'
  BY DEF TellFirst
<1>1. CASE finish_login(w) /\ task[w].bev = b
  BY <1>1, RepliesGrow
<1>2. CASE Telling(w, b)
  <2>1. PICK c \in Conns : home[c] = [w |-> w, bev |-> b] /\ Told(c)
    BY <1>2 DEF TellFirst, ToldAt
  <2>2. Told(c)' /\ Lasting
    BY <2>1, RepliesGrow, NextLasts
  <2>3. home[c] # Nil
    BY SMT, <2>1, PlaceFields
  <2>4. home'[c] = home[c]
    BY <2>2, <2>3 DEF Lasting
  <2>. QED  BY <2>1, <2>2, <2>4 DEF ToldAt
<1>. QED  BY <1>1, <1>2, TellingFrom

\* Who is at the address that a worker may write to has been told.
LEMMA ToldThere ==
  ASSUME Placed, TellFirst, NEW w \in Workers, NEW b \in Bevs, Telling(w, b), NEW c \in Conns, at[b] = c
  PROVE  Told(c)
<1>1. PICK d \in Conns : home[d] = [w |-> w, bev |-> b] /\ Told(d)
  BY DEF TellFirst, ToldAt
<1>2. home[d] # Nil /\ home[d].bev = b
  BY SMT, <1>1, PlaceFields
<1>3. home[c] # Nil /\ home[c].bev = b
  BY BevsAssumption DEF Placed
<1>4. c = d
  BY <1>2, <1>3 DEF Placed
<1>. QED  BY <1>1, <1>4

\* Connection c has been told that its login succeeded, and claimed the id of x if x has one.
Welcome(c, x) == Told(c) /\ (x.kind # "list" => \E q \in DOMAIN claimed[c] : claimed[c][q] = x.to)

Welcomed == \A c \in Conns : \A k \in DOMAIN inbox[c] : Welcome(c, inbox[c][k])

\* What is written to a connection is written to one that was told.
LEMMA InboxGrows ==
  ASSUME TypeOK, LoginInv, TellFirst, [Next]_vars
  PROVE  \/ UNCHANGED inbox
         \/ \E c \in Conns, x \in Msg \cup FriendReport :
              inbox' = [inbox EXCEPT ![c] = Append(@, x)] /\ Welcome(c, x)
<1>1. Placed /\ NoDangling /\ Authentic
  BY LoginFacts
<1>2. ASSUME NEW w \in Workers, finish_notify(w)
      PROVE  \/ UNCHANGED inbox
             \/ \E c \in Conns, x \in FriendReport :
                  inbox' = [inbox EXCEPT ![c] = Append(@, x)] /\ Welcome(c, x)
  <2>1. ASSUME NEW b \in Bevs, NEW c \in Conns, NEW x \in FriendReport,
               task[w].op = "notify", task[w].kind = "online", task[w].bev = b, at[b] = c
        PROVE  Welcome(c, x)
    <3>1. Telling(w, b)
      BY <2>1 DEF Telling
    <3>2. Told(c)
      BY <1>1, <2>1, <3>1, ToldThere
    <3>3. x.kind = "list"
      BY DEF FriendReport
    <3>. QED  BY <3>2, <3>3 DEF Welcome
  <2>. QED  BY <1>2, <2>1, FinishDrops
<1>3. ASSUME NEW w \in Workers, notify_new_msg_callback(w)
      PROVE  \/ UNCHANGED inbox
             \/ \E c \in Conns, x \in Msg :
                  inbox' = [inbox EXCEPT ![c] = Append(@, x)] /\ Welcome(c, x)
  <2>1. ASSUME NEW m \in Msg, NEW b \in Bevs, NEW c \in Conns, sub_map[w][m.to] = b, at[b] = c
        PROVE  Welcome(c, m)
    <3>1. PICK i \in Ids : m.to = i
      BY DEF Msg
    <3>2. bev_id[w][b] = i
      BY <1>1, <2>1, <3>1, BevsAssumption DEF NoDangling
    <3>3. Telling(w, b)
      BY <3>2 DEF Telling
    <3>4. Told(c)
      BY <1>1, <2>1, <3>3, ToldThere
    <3>5. \E q \in DOMAIN claimed[c] : claimed[c][q] = i
      BY <1>1, <2>1, <3>2 DEF Authentic
    <3>. QED  BY <3>1, <3>4, <3>5 DEF Welcome
  <2>. QED  BY <1>3, <2>1, CallbackMoves
<1>4. ASSUME NEW c \in Conns, NEW from \in Ids, NEW to \in Ids, read_trans(c, from, to) PROVE UNCHANGED inbox
  BY <1>4 DEF read_trans
<1>5. ASSUME NEW h \in http_trans, http_trans_connected(h) \/ http_trans_event(h) \/ http_trans_read(h)
      PROVE  UNCHANGED inbox
  BY <1>5 DEF http_trans_connected, http_trans_event, http_trans_read
<1>6. ASSUME NEW w \in Workers,
             redis_trans_callback(w) \/ notify_new_msg(w) \/ notify_del_id(w) \/ notify_friend(w)
      PROVE  UNCHANGED inbox
  BY <1>6 DEF redis_trans_callback, notify_new_msg, notify_del_id, notify_friend
<1>7. Still => UNCHANGED inbox
  BY DEF Still
<1>. QED  BY <1>2, <1>3, <1>4, <1>5, <1>6, <1>7, StillActions

\* The inductive step for Welcomed.
LEMMA WelcomedStep ==
  ASSUME TypeOK, LoginInv, TellFirst, Welcomed, [Next]_vars
  PROVE  Welcomed'
<1>1. ASSUME NEW c \in Conns, NEW x, Welcome(c, x) PROVE Welcome(c, x)'
  <2>1. Told(c)' /\ Lasting
    BY <1>1, RepliesGrow, NextLasts DEF Welcome
  <2>2. x.kind # "list" => \E q \in DOMAIN claimed'[c] : claimed'[c][q] = x.to
    BY <1>1, <2>1 DEF Welcome, Lasting
  <2>. QED  BY <2>1, <2>2 DEF Welcome
<1>2. ASSUME NEW c \in Conns, NEW k \in DOMAIN inbox'[c] PROVE Welcome(c, inbox'[c][k])
  <2>1. CASE UNCHANGED inbox
    BY <2>1 DEF Welcomed
  <2>2. ASSUME NEW d \in Conns, NEW x \in Msg \cup FriendReport,
               inbox' = [inbox EXCEPT ![d] = Append(@, x)], Welcome(d, x)
        PROVE  Welcome(c, inbox'[c][k])
    <3>1. inbox \in [Conns -> Seq(Msg \cup FriendReport)]
      BY DEF TypeOK
    <3>2. \/ k \in DOMAIN inbox[c] /\ inbox'[c][k] = inbox[c][k]
          \/ c = d /\ inbox'[c][k] = x
      BY SMT, <2>2, <3>1
    <3>. QED  BY <2>2, <3>2 DEF Welcomed
  <2>. QED  BY <2>1, <2>2, InboxGrows
<1>3. ASSUME NEW c \in Conns, NEW k \in DOMAIN inbox'[c] PROVE Welcome(c, inbox[c][k])'
  <2>1. PICK x : x = inbox'[c][k]
    OBVIOUS
  <2>2. Welcome(c, x)
    BY <1>2, <2>1
  <2>3. Welcome(c, x)'
    BY <1>1, <2>2
  <2>. QED  BY <2>1, <2>3 DEF Welcome
<1>. QED  BY <1>3 DEF Welcomed

\* If no address is used twice and a connection sends one login packet, nothing but login
\* replies is written to a connection whose login has not succeeded, and each message
\* written to it is for an id it claimed.
THEOREM InboxBelongsToClient ==
  ASSUME MaxLogins <= 1, ~AddrReuse
  PROVE  Spec => []InboxIsOwn
<1>1. Init => TellFirst /\ Welcomed
  <2>. SUFFICES ASSUME Init PROVE TellFirst /\ Welcomed
    OBVIOUS
  <2>1. /\ \A w \in Workers, b \in Bevs : bev_id[w][b] = Nil
        /\ \A w \in Workers : redisq[w] = << >> /\ task[w] = Idle
        /\ \A c \in Conns : inbox[c] = << >>
    BY DEF Init
  <2>2. \A w \in Workers, b \in Bevs : ~Telling(w, b)
    BY SMT, <2>1, IdsAssumption DEF Telling, Has, Idle
  <2>3. \A c \in Conns : DOMAIN inbox[c] = {}
    BY SMT, <2>1
  <2>. QED  BY <2>2, <2>3 DEF TellFirst, Welcomed
<1>2. TypeOK /\ LoginErased /\ LoginInv /\ TellFirst /\ Welcomed /\ [Next]_vars => TellFirst' /\ Welcomed'
  BY TellStep, WelcomedStep
<1>3. Welcomed => InboxIsOwn
  BY DEF Welcomed, Welcome, Told, InboxIsOwn
<1>. QED  BY <1>1, <1>2, <1>3, LoginsKept, PTL DEF Spec

-----------------------------------------------------------------------------
(* The order of messages.  Those of one sender that take the direct path pass *)
(* the loop of its worker one at a time, so they stay in order in the pipes   *)
(* and in what is written to a client.  s stands for the senders.             *)

Before(s, m, o) == Direct(m) /\ Direct(o) /\ s[m.n] = s[o.n] => m.n < o.n
InOrder(s, q) == \A x, y \in 1 .. Len(q) : x < y => Before(s, q[x], q[y])
AllBefore(s, q, m) == \A x \in 1 .. Len(q) : Before(s, q[x], m)
BeforeAll(s, m, q) == \A x \in 1 .. Len(q) : Before(s, m, q[x])
Precede(s, q, r) == \A x \in 1 .. Len(q) : BeforeAll(s, q[x], r)

\* A message is added to a queue.
LEMMA OrderAppend ==
  ASSUME NEW T, NEW s, NEW q \in Seq(T), NEW m \in T
  PROVE  /\ InOrder(s, q) /\ AllBefore(s, q, m) => InOrder(s, Append(q, m))
         /\ \A o : AllBefore(s, q, o) /\ Before(s, m, o) => AllBefore(s, Append(q, m), o)
         /\ \A p : Precede(s, p, q) /\ AllBefore(s, p, m) => Precede(s, p, Append(q, m))
         /\ \A r : Precede(s, q, r) /\ BeforeAll(s, m, r) => Precede(s, Append(q, m), r)
<1>1. PICK a : a = Append(q, m)
  OBVIOUS
<1>2. /\ Len(q) \in Nat /\ Len(a) = Len(q) + 1 /\ a[Len(q) + 1] = m
      /\ \A k \in 1 .. Len(q) : a[k] = q[k]
  BY SMT, <1>1
<1>3. \A k \in 1 .. Len(a) : k \in 1 .. Len(q) \/ k = Len(q) + 1
  BY SMT, <1>2
<1>4. ASSUME InOrder(s, q), AllBefore(s, q, m) PROVE InOrder(s, a)
  <2>. SUFFICES ASSUME NEW x \in 1 .. Len(a), NEW y \in 1 .. Len(a), x < y PROVE Before(s, a[x], a[y])
    BY DEF InOrder
  <2>1. x \in 1 .. Len(q)
    BY SMT, <1>2
  <2>2. CASE y \in 1 .. Len(q)
    BY <1>2, <1>4, <2>1, <2>2 DEF InOrder
  <2>3. CASE y = Len(q) + 1
    BY <1>2, <1>4, <2>1, <2>3 DEF AllBefore
  <2>. QED  BY <1>3, <2>2, <2>3
<1>5. ASSUME NEW o, AllBefore(s, q, o), Before(s, m, o) PROVE AllBefore(s, a, o)
  BY <1>2, <1>3, <1>5 DEF AllBefore
<1>6. ASSUME NEW p, Precede(s, p, q), AllBefore(s, p, m) PROVE Precede(s, p, a)
  <2>. SUFFICES ASSUME NEW x \in 1 .. Len(p), NEW y \in 1 .. Len(a) PROVE Before(s, p[x], a[y])
    BY DEF Precede, BeforeAll
  <2>1. CASE y \in 1 .. Len(q)
    BY <1>2, <1>6, <2>1 DEF Precede, BeforeAll
  <2>2. CASE y = Len(q) + 1
    BY <1>2, <1>6, <2>2 DEF AllBefore
  <2>. QED  BY <1>3, <2>1, <2>2
<1>7. ASSUME NEW r, Precede(s, q, r), BeforeAll(s, m, r) PROVE Precede(s, a, r)
  BY <1>2, <1>3, <1>7 DEF Precede
<1>. QED  BY <1>1, <1>4, <1>5, <1>6, <1>7

\* The first message is taken off a queue.
LEMMA OrderTail ==
  ASSUME NEW T, NEW s, NEW q \in Seq(T), q # << >>
  PROVE  /\ InOrder(s, q) => InOrder(s, Tail(q)) /\ BeforeAll(s, Head(q), Tail(q))
         /\ \A o : AllBefore(s, q, o) => AllBefore(s, Tail(q), o) /\ Before(s, Head(q), o)
         /\ \A p : Precede(s, p, q) => Precede(s, p, Tail(q)) /\ AllBefore(s, p, Head(q))
<1>1. PICK a : a = Tail(q)
  OBVIOUS
<1>2. /\ Len(q) \in Nat /\ 1 \in 1 .. Len(q) /\ Head(q) = q[1]
      /\ \A k \in 1 .. Len(a) : k + 1 \in 1 .. Len(q) /\ a[k] = q[k + 1] /\ 1 < k + 1
      /\ \A k, l \in 1 .. Len(a) : k < l => k + 1 < l + 1
  BY SMT, <1>1
<1>3. ASSUME InOrder(s, q) PROVE InOrder(s, a) /\ BeforeAll(s, Head(q), a)
  <2>1. ASSUME NEW x \in 1 .. Len(a), NEW y \in 1 .. Len(a), x < y PROVE Before(s, a[x], a[y])
    <3>1. Before(s, q[x + 1], q[y + 1])
      BY <1>2, <1>3, <2>1 DEF InOrder
    <3>. QED  BY <1>2, <3>1
  <2>2. ASSUME NEW x \in 1 .. Len(a) PROVE Before(s, Head(q), a[x])
    <3>1. Before(s, q[1], q[x + 1])
      BY <1>2, <1>3 DEF InOrder
    <3>. QED  BY <1>2, <3>1
  <2>. QED  BY <2>1, <2>2 DEF InOrder, BeforeAll
<1>4. ASSUME NEW o, AllBefore(s, q, o) PROVE AllBefore(s, a, o) /\ Before(s, Head(q), o)
  <2>1. ASSUME NEW x \in 1 .. Len(a) PROVE Before(s, a[x], o)
    <3>1. Before(s, q[x + 1], o)
      BY <1>2, <1>4 DEF AllBefore
    <3>. QED  BY <1>2, <3>1
  <2>2. Before(s, Head(q), o)
    BY <1>2, <1>4 DEF AllBefore
  <2>. QED  BY <2>1, <2>2 DEF AllBefore
<1>5. ASSUME NEW p, Precede(s, p, q) PROVE Precede(s, p, a) /\ AllBefore(s, p, Head(q))
  <2>1. ASSUME NEW x \in 1 .. Len(p), NEW y \in 1 .. Len(a) PROVE Before(s, p[x], a[y])
    <3>1. Before(s, p[x], q[y + 1])
      BY <1>2, <1>5 DEF Precede, BeforeAll
    <3>. QED  BY <1>2, <3>1
  <2>2. ASSUME NEW x \in 1 .. Len(p) PROVE Before(s, p[x], Head(q))
    BY <1>2, <1>5 DEF Precede, BeforeAll
  <2>. QED  BY <2>1, <2>2 DEF Precede, BeforeAll, AllBefore
<1>. QED  BY <1>1, <1>3, <1>4, <1>5

\* A message off the direct path is out of the comparison.
LEMMA OrderOther ==
  ASSUME NEW s, NEW m, ~Direct(m)
  PROVE  \A q : AllBefore(s, q, m) /\ BeforeAll(s, m, q)
BY DEF Before, AllBefore, BeforeAll

\* The messages of a queue have been sent.
SentAll(s, q) == \A x \in 1 .. Len(q) : Direct(q[x]) => q[x].n \in 1 .. Len(s)

\* A new message comes after all that were sent, and leaves their order as it is.
LEMMA OrderNew ==
  ASSUME NEW s \in Seq(Conns), NEW c \in Conns, NEW q, SentAll(s, q)
  PROVE  /\ InOrder(s, q) => InOrder(Append(s, c), q)
         /\ \A r : SentAll(s, r) /\ Precede(s, q, r) => Precede(Append(s, c), q, r)
         /\ \A m : Direct(m) /\ m.n \in 1 .. Len(s) /\ AllBefore(s, q, m) => AllBefore(Append(s, c), q, m)
         /\ \A m : m.n = Len(s) + 1 => AllBefore(Append(s, c), q, m)
<1>1. PICK a : a = Append(s, c)
  OBVIOUS
<1>2. Len(s) \in Nat /\ \A k \in 1 .. Len(s) : a[k] = s[k] /\ k < Len(s) + 1
  BY SMT, <1>1
<1>3. ASSUME NEW m, NEW o, Direct(m) => m.n \in 1 .. Len(s), Direct(o) => o.n \in 1 .. Len(s), Before(s, m, o)
      PROVE  Before(a, m, o)
  BY <1>2, <1>3 DEF Before
<1>4. InOrder(s, q) => InOrder(a, q)
  BY <1>3 DEF InOrder, SentAll
<1>5. ASSUME NEW r, SentAll(s, r), Precede(s, q, r) PROVE Precede(a, q, r)
  BY <1>3, <1>5 DEF Precede, BeforeAll, SentAll
<1>6. ASSUME NEW m, m.n \in 1 .. Len(s), AllBefore(s, q, m) PROVE AllBefore(a, q, m)
  BY <1>3, <1>6 DEF AllBefore, SentAll
<1>7. ASSUME NEW m, m.n = Len(s) + 1 PROVE AllBefore(a, q, m)
  BY <1>2, <1>7 DEF AllBefore, SentAll, Before
<1>. QED  BY <1>1, <1>4, <1>5, <1>6, <1>7

\* The pipes and what was written to the clients are in order, and a client has got what
\* it got before what is in the pipe of its worker.
QueuesInOrder(s, P, I, H) ==
  /\ \A w \in Workers : InOrder(s, P[w])
  /\ \A c \in Conns : InOrder(s, I[c])
  /\ \A c \in Conns : H[c] = Nil => I[c] = << >>
  /\ \A c \in Conns, w \in Workers : H[c] # Nil /\ H[c].w = w => Precede(s, I[c], P[w])

\* The message m comes after all that are in a pipe or have been written.
Follows(s, P, I, m) == (\A v \in Workers : AllBefore(s, P[v], m)) /\ \A c \in Conns : AllBefore(s, I[c], m)

\* The message m that worker w is sending follows those that are further on, and if it
\* took the direct path, its sender is a connection of this worker.
SendsLast(s, P, I, H, w, m) ==
  Follows(s, P, I, m) /\ (Direct(m) => H[s[m.n]] # Nil /\ H[s[m.n]].w = w)

OrderInv ==
  /\ QueuesInOrder(sender, pipe, inbox, home)
  /\ \A w \in Workers : task[w].op = "send" => SendsLast(sender, pipe, inbox, home, w, task[w].msg)

\* Redis and HTTP are asked about no message of the direct path.
Directs == {m \in Msg : Direct(m)}
NotChecked == \A s \in {"redis", "http"} : \A p : ~Holding(s, p, Directs)

\* No message takes the direct path in this step.
SendsQuiet ==
  \A v \in Workers : task'[v].op = "send" =>
    (task[v].op = "send" /\ task'[v].msg = task[v].msg) \/ ~Direct(task'[v].msg)

\* What is held was sent.
LEMMA HeldIsSent ==
  ASSUME TypeOK, OwnerInv
  PROVE  /\ \A w \in Workers : SentAll(sender, pipe[w])
         /\ \A c \in Conns : SentAll(sender, inbox[c])
         /\ \A w \in Workers : task[w].op = "send" /\ Direct(task[w].msg) => task[w].msg.n \in 1 .. Len(sender)
<1>1. \A s \in Spots : \A p : \A n \in Nat : Holding(s, p, Nth(n)) => n \in 1 .. Len(sender)
  BY DEF OwnerInv, OwnSent
<1>2. "pipe" \in Spots /\ "inbox" \in Spots /\ "task" \in Spots
  BY DEF Spots
<1>3. ASSUME NEW m, m \in Msg \cup FriendReport, Direct(m) PROVE m.n \in Nat /\ m \in Nth(m.n)
  <2>1. m.kind = "data"
    BY <1>3 DEF Direct
  <2>2. m \notin FriendReport
    BY <2>1 DEF FriendReport
  <2>. QED  BY <1>3, <2>1, <2>2 DEF Msg, Nth
<1>4. ASSUME NEW w \in Workers, NEW x \in 1 .. Len(pipe[w]), Direct(pipe[w][x])
      PROVE  pipe[w][x].n \in 1 .. Len(sender)
  <2>1. pipe[w] \in Seq(Msg)
    BY DEF TypeOK
  <2>2. pipe[w][x] \in Msg
    BY SMT, <2>1
  <2>3. pipe[w][x].n \in Nat /\ pipe[w][x] \in Nth(pipe[w][x].n)
    BY <1>3, <1>4, <2>2
  <2>4. Holding("pipe", w, Nth(pipe[w][x].n))
    BY <2>3 DEF Holding, Has
  <2>. QED  BY <1>1, <1>2, <2>3, <2>4
<1>5. ASSUME NEW c \in Conns, NEW x \in 1 .. Len(inbox[c]), Direct(inbox[c][x])
      PROVE  inbox[c][x].n \in 1 .. Len(sender)
  <2>1. inbox[c] \in Seq(Msg \cup FriendReport)
    BY DEF TypeOK
  <2>2. inbox[c][x] \in Msg \cup FriendReport
    BY SMT, <2>1
  <2>3. inbox[c][x].n \in Nat /\ inbox[c][x] \in Nth(inbox[c][x].n)
    BY <1>3, <1>5, <2>2
  <2>4. Holding("inbox", c, Nth(inbox[c][x].n))
    BY <2>3 DEF Holding, Has
  <2>. QED  BY <1>1, <1>2, <2>3, <2>4
<1>6. ASSUME NEW w \in Workers, task[w].op = "send", Direct(task[w].msg)
      PROVE  task[w].msg.n \in 1 .. Len(sender)
  <2>1. task[w].msg \in Msg
    <3>1. task[w] \in SendTask
      BY <1>6, TaskFields DEF TypeOK
    <3>. QED  BY <3>1 DEF SendTask
  <2>2. task[w].msg.n \in Nat /\ task[w].msg \in Nth(task[w].msg.n)
    BY <1>3, <1>6, <2>1
  <2>3. Holding("task", w, Nth(task[w].msg.n))
    BY <1>6, <2>2 DEF Holding
  <2>. QED  BY <1>1, <1>2, <2>2, <2>3
<1>. QED  BY <1>4, <1>5, <1>6 DEF SentAll

\* Steps that leave the pipes and what was written alone.
LEMMA OrderQuiet ==
  ASSUME TypeOK, OwnerInv, OrderInv, Lasting, SendsQuiet, UNCHANGED <<pipe, inbox, sender>>
  PROVE  OrderInv'
<1>1. QueuesInOrder(sender, pipe, inbox, home')
  <2>1. QueuesInOrder(sender, pipe, inbox, home)
    BY DEF OrderInv
  <2>2. ASSUME NEW c \in Conns, home'[c] = Nil PROVE inbox[c] = << >>
    BY <2>1, <2>2 DEF QueuesInOrder, Lasting
  <2>3. ASSUME NEW c \in Conns, NEW w \in Workers, home'[c] # Nil, home'[c].w = w
        PROVE  Precede(sender, inbox[c], pipe[w])
    <3>1. CASE home[c] # Nil
      BY <2>1, <2>3, <3>1 DEF QueuesInOrder, Lasting
    <3>2. CASE home[c] = Nil
      <4>1. inbox[c] = << >>
        BY <2>1, <3>2 DEF QueuesInOrder
      <4>. QED  BY SMT, <4>1 DEF Precede
    <3>. QED  BY <3>1, <3>2
  <2>. QED  BY <2>1, <2>2, <2>3 DEF QueuesInOrder
<1>2. ASSUME NEW w \in Workers, task'[w].op = "send"
      PROVE  SendsLast(sender, pipe, inbox, home', w, task'[w].msg)
  <2>1. CASE ~Direct(task'[w].msg)
    BY <2>1, OrderOther DEF SendsLast, Follows
  <2>2. CASE Direct(task'[w].msg)
    <3>1. task[w].op = "send" /\ task'[w].msg = task[w].msg
      BY <1>2, <2>2 DEF SendsQuiet
    <3>2. SendsLast(sender, pipe, inbox, home, w, task[w].msg)
      BY <3>1 DEF OrderInv
    <3>3. task[w].msg.n \in 1 .. Len(sender)
      BY <2>2, <3>1, HeldIsSent
    <3>4. sender[task[w].msg.n] \in Conns
      <4>1. sender \in Seq(Conns)
        BY DEF TypeOK
      <4>. QED  BY SMT, <3>3, <4>1
    <3>5. home[sender[task[w].msg.n]] # Nil /\ home[sender[task[w].msg.n]].w = w
      BY <2>2, <3>1, <3>2 DEF SendsLast
    <3>6. home'[sender[task[w].msg.n]] = home[sender[task[w].msg.n]]
      BY <3>4, <3>5 DEF Lasting
    <3>. QED  BY <3>1, <3>2, <3>5, <3>6 DEF SendsLast
  <2>. QED  BY <2>1, <2>2
<1>. QED  BY <1>1, <1>2 DEF OrderInv

\* The workers go on with what they send.
LEMMA OrderStays ==
  ASSUME OrderInv, SendsStay, UNCHANGED <<home, sender>>,
         QueuesInOrder(sender, pipe', inbox', home),
         \A o : Follows(sender, pipe, inbox, o) => Follows(sender, pipe', inbox', o)
  PROVE  OrderInv'
<1>1. ASSUME NEW w \in Workers, task'[w].op = "send"
      PROVE  SendsLast(sender, pipe', inbox', home, w, task'[w].msg)
  <2>1. SendsLast(sender, pipe, inbox, home, w, task[w].msg) /\ task'[w].msg = task[w].msg
    BY <1>1 DEF OrderInv, SendsStay
  <2>. QED  BY <2>1 DEF SendsLast
<1>. QED  BY <1>1 DEF OrderInv

\* A message is sent on the direct path, or taken aside for a check.
LEMMA OrderCreates ==
  ASSUME TypeOK, OwnerInv, OrderInv, NEW c \in Conns, NEW t, NEW m, Creates(c, t, m)
  PROVE  OrderInv'
<1>1. sender \in Seq(Conns) /\ sender' = Append(sender, c) /\ UNCHANGED <<home, pipe, inbox>>
  BY DEF TypeOK, Creates
<1>2. /\ \A w \in Workers : SentAll(sender, pipe[w])
      /\ \A d \in Conns : SentAll(sender, inbox[d])
      /\ \A w \in Workers : task[w].op = "send" /\ Direct(task[w].msg) => task[w].msg.n \in 1 .. Len(sender)
  BY HeldIsSent
<1>3. QueuesInOrder(sender', pipe, inbox, home)
  <2>1. QueuesInOrder(sender, pipe, inbox, home)
    BY DEF OrderInv
  <2>2. \A w \in Workers : InOrder(sender', pipe[w])
    BY <1>1, <1>2, <2>1, OrderNew DEF QueuesInOrder
  <2>3. \A d \in Conns : InOrder(sender', inbox[d])
    BY <1>1, <1>2, <2>1, OrderNew DEF QueuesInOrder
  <2>4. ASSUME NEW d \in Conns, NEW w \in Workers, home[d] # Nil, home[d].w = w
        PROVE  Precede(sender', inbox[d], pipe[w])
    <3>1. Precede(sender, inbox[d], pipe[w]) /\ SentAll(sender, inbox[d]) /\ SentAll(sender, pipe[w])
      BY <1>2, <2>1, <2>4 DEF QueuesInOrder
    <3>. QED  BY <1>1, <3>1, OrderNew
  <2>. QED  BY <2>1, <2>2, <2>3, <2>4 DEF QueuesInOrder
<1>4. ASSUME NEW w \in Workers, task[w].op = "send"
      PROVE  SendsLast(sender', pipe, inbox, home, w, task[w].msg)
  <2>1. PICK o : o = task[w].msg
    OBVIOUS
  <2>2. SendsLast(sender, pipe, inbox, home, w, o)
    BY <1>4, <2>1 DEF OrderInv
  <2>3. CASE ~Direct(o)
    BY <2>1, <2>3, OrderOther DEF SendsLast, Follows
  <2>4. CASE Direct(o)
    <3>1. o.n \in 1 .. Len(sender)
      BY <1>2, <1>4, <2>1, <2>4
    <3>2. Follows(sender', pipe, inbox, o)
      BY <1>1, <1>2, <2>2, <2>4, <3>1, OrderNew DEF SendsLast, Follows
    <3>3. sender'[o.n] = sender[o.n]
      BY SMT, <1>1, <3>1
    <3>. QED  BY <2>1, <2>2, <2>4, <3>2, <3>3 DEF SendsLast
  <2>. QED  BY <2>3, <2>4
<1>5. ASSUME t = "task", Direct(m) PROVE SendsLast(sender', pipe, inbox, home, home[c].w, m)
  <2>1. m.n = Len(sender) + 1 /\ home[c] \in [w: Workers, bev: Bevs]
    BY DEF Creates
  <2>2. Follows(sender', pipe, inbox, m)
    BY <1>1, <1>2, <2>1, OrderNew DEF Follows
  <2>3. sender'[m.n] = c
    BY SMT, <1>1, <2>1
  <2>4. home[c] # Nil
    BY <2>1, PlacesAssumption
  <2>. QED  BY <2>2, <2>3, <2>4 DEF SendsLast
<1>6. ASSUME NEW w \in Workers, task'[w].op = "send"
      PROVE  SendsLast(sender', pipe, inbox, home, w, task'[w].msg)
  <2>1. \/ task[w].op = "send" /\ task'[w].msg = task[w].msg
        \/ t = "task" /\ w = home[c].w /\ task'[w].msg = m
    BY <1>6 DEF Creates, Flows, TaskFlow
  <2>2. t = "task" => Direct(m)
    BY DEF Creates
  <2>. QED  BY <1>4, <1>5, <2>1, <2>2
<1>. QED  BY <1>1, <1>3, <1>6 DEF OrderInv

\* A message is written to a pipe after all others of its sender.
LEMMA PipesAppend ==
  ASSUME TypeOK, NEW s, QueuesInOrder(s, pipe, inbox, home), NEW j \in Workers, NEW m \in Msg,
         Follows(s, pipe, inbox, m), pipe' = [pipe EXCEPT ![j] = Append(@, m)], UNCHANGED <<home, inbox>>
  PROVE  /\ QueuesInOrder(s, pipe', inbox', home)
         /\ \A o : Follows(s, pipe, inbox, o) /\ Before(s, m, o) => Follows(s, pipe', inbox', o)
<1>1. pipe \in [Workers -> Seq(Msg)]
  BY DEF TypeOK
<1>2. \A v \in Workers : pipe'[v] = IF v = j THEN Append(pipe[j], m) ELSE pipe[v]
  BY <1>1
<1>3. pipe[j] \in Seq(Msg)
  BY <1>1
<1>4. InOrder(s, Append(pipe[j], m))
  BY <1>3, OrderAppend DEF QueuesInOrder, Follows
<1>5. \A c \in Conns : Precede(s, inbox[c], pipe[j]) => Precede(s, inbox[c], Append(pipe[j], m))
  BY <1>3, OrderAppend DEF Follows
<1>6. \A o : AllBefore(s, pipe[j], o) /\ Before(s, m, o) => AllBefore(s, Append(pipe[j], m), o)
  BY <1>3, OrderAppend
<1>7. ASSUME NEW v \in Workers PROVE InOrder(s, pipe'[v])
  BY <1>2, <1>4 DEF QueuesInOrder
<1>8. ASSUME NEW c \in Conns, NEW v \in Workers, Precede(s, inbox[c], pipe[v])
      PROVE  Precede(s, inbox[c], pipe'[v])
  BY <1>2, <1>5, <1>8
<1>9. ASSUME NEW o, Follows(s, pipe, inbox, o), Before(s, m, o), NEW v \in Workers
      PROVE  AllBefore(s, pipe'[v], o)
  BY <1>2, <1>6, <1>9 DEF Follows
<1>10. QueuesInOrder(s, pipe', inbox', home)
  BY <1>7, <1>8 DEF QueuesInOrder
<1>. QED  BY <1>9, <1>10 DEF Follows

\* notify_new_msg hands the message on: what others send comes from other connections.
LEMMA OrderSends ==
  ASSUME TypeOK, OrderInv, NEW w \in Workers, NEW j \in Workers, NEW m \in Msg,
         Moves("task", w, "pipe", j, m), pipe' = [pipe EXCEPT ![j] = Append(@, m)],
         task' = [task EXCEPT ![w] = Idle], UNCHANGED <<home, inbox>>
  PROVE  OrderInv'
<1>1. task[w].op = "send" /\ task[w].msg = m /\ UNCHANGED sender
  <2>1. Holding("task", w, {m}) /\ UNCHANGED sender
    BY DEF Moves
  <2>. QED  BY <2>1 DEF Holding
<1>2. SendsLast(sender, pipe, inbox, home, w, m) /\ QueuesInOrder(sender, pipe, inbox, home)
  BY <1>1 DEF OrderInv
<1>3. /\ QueuesInOrder(sender, pipe', inbox', home)
      /\ \A o : Follows(sender, pipe, inbox, o) /\ Before(sender, m, o) => Follows(sender, pipe', inbox', o)
  BY <1>2, PipesAppend DEF SendsLast
<1>4. ASSUME NEW v \in Workers, task'[v].op = "send"
      PROVE  SendsLast(sender, pipe', inbox', home, v, task'[v].msg)
  <2>1. v # w /\ task'[v] = task[v]
    <3>1. \A u \in Workers : task'[u] = IF u = w THEN Idle ELSE task[u]
      BY DEF TypeOK
    <3>2. Idle.op # "send"
      BY DEF Idle
    <3>. QED  BY <1>4, <3>1, <3>2
  <2>2. PICK o : o = task[v].msg
    OBVIOUS
  <2>3. SendsLast(sender, pipe, inbox, home, v, o)
    BY <1>4, <2>1, <2>2 DEF OrderInv
  <2>4. Before(sender, m, o)
    BY <1>2, <2>1, <2>3 DEF SendsLast, Before
  <2>. QED  BY <1>3, <2>1, <2>2, <2>3, <2>4 DEF SendsLast
<1>. QED  BY <1>1, <1>3, <1>4 DEF OrderInv

\* Something is written to a connection, after what it got before.
LEMMA InboxAppends ==
  ASSUME TypeOK, QueuesInOrder(sender, pipe', inbox, home),
         NEW c \in Conns, NEW m \in Msg \cup FriendReport, home[c] # Nil, AllBefore(sender, inbox[c], m),
         \A w \in Workers : home[c].w = w => BeforeAll(sender, m, pipe'[w]),
         inbox' = [inbox EXCEPT ![c] = Append(@, m)]
  PROVE  /\ QueuesInOrder(sender, pipe', inbox', home)
         /\ \A o : Follows(sender, pipe', inbox, o) /\ Before(sender, m, o) => Follows(sender, pipe', inbox', o)
<1>1. \A d \in Conns : inbox'[d] = IF d = c THEN Append(inbox[c], m) ELSE inbox[d]
  BY DEF TypeOK
<1>2. inbox[c] \in Seq(Msg \cup FriendReport)
  BY DEF TypeOK
<1>3. /\ InOrder(sender, inbox[c]) => InOrder(sender, Append(inbox[c], m))
      /\ \A o : AllBefore(sender, inbox[c], o) /\ Before(sender, m, o) => AllBefore(sender, Append(inbox[c], m), o)
      /\ \A r : Precede(sender, inbox[c], r) /\ BeforeAll(sender, m, r) => Precede(sender, Append(inbox[c], m), r)
  BY <1>2, OrderAppend
<1>4. \A d \in Conns : InOrder(sender, inbox'[d])
  BY <1>1, <1>3 DEF QueuesInOrder
<1>5. \A d \in Conns : home[d] = Nil => inbox'[d] = << >>
  BY <1>1 DEF QueuesInOrder
<1>6. ASSUME NEW d \in Conns, NEW w \in Workers, home[d] # Nil, home[d].w = w PROVE Precede(sender, inbox'[d], pipe'[w])
  <2>1. Precede(sender, inbox[d], pipe'[w])
    BY <1>6 DEF QueuesInOrder
  <2>2. CASE d = c
    BY <1>1, <1>3, <1>6, <2>1, <2>2
  <2>3. CASE d # c
    BY <1>1, <2>1, <2>3
  <2>. QED  BY <2>2, <2>3
<1>7. ASSUME NEW o, Follows(sender, pipe', inbox, o), Before(sender, m, o), NEW d \in Conns PROVE AllBefore(sender, inbox'[d], o)
  BY <1>1, <1>3, <1>7 DEF Follows
<1>8. QueuesInOrder(sender, pipe', inbox', home)
  BY <1>4, <1>5, <1>6 DEF QueuesInOrder
<1>. QED  BY <1>7, <1>8 DEF Follows

\* The message at the head of a pipe is taken off: it comes before the rest of the pipe and
\* before what is being sent.
LEMMA PipesTail ==
  ASSUME TypeOK, QueuesInOrder(sender, pipe, inbox, home),
         NEW w \in Workers, pipe[w] # << >>, pipe' = [pipe EXCEPT ![w] = Tail(@)]
  PROVE  /\ QueuesInOrder(sender, pipe', inbox, home) /\ BeforeAll(sender, Head(pipe[w]), pipe'[w])
         /\ \A c \in Conns : home[c] # Nil /\ home[c].w = w => AllBefore(sender, inbox[c], Head(pipe[w]))
         /\ \A o : Follows(sender, pipe, inbox, o) => Follows(sender, pipe', inbox, o) /\ Before(sender, Head(pipe[w]), o)
<1>1. \A v \in Workers : pipe'[v] = IF v = w THEN Tail(pipe[w]) ELSE pipe[v]
  BY DEF TypeOK
<1>2. pipe[w] \in Seq(Msg)
  BY DEF TypeOK
<1>3. /\ InOrder(sender, pipe[w]) => InOrder(sender, Tail(pipe[w])) /\ BeforeAll(sender, Head(pipe[w]), Tail(pipe[w]))
      /\ \A o : AllBefore(sender, pipe[w], o) => AllBefore(sender, Tail(pipe[w]), o) /\ Before(sender, Head(pipe[w]), o)
      /\ \A p : Precede(sender, p, pipe[w]) => Precede(sender, p, Tail(pipe[w])) /\ AllBefore(sender, p, Head(pipe[w]))
  BY <1>2, OrderTail
<1>4. \A v \in Workers : InOrder(sender, pipe'[v])
  BY <1>1, <1>3 DEF QueuesInOrder
<1>5. ASSUME NEW c \in Conns, NEW v \in Workers, Precede(sender, inbox[c], pipe[v]) PROVE Precede(sender, inbox[c], pipe'[v])
  BY <1>1, <1>3, <1>5
<1>6. QueuesInOrder(sender, pipe', inbox, home)
  BY <1>4, <1>5 DEF QueuesInOrder
<1>7. BeforeAll(sender, Head(pipe[w]), pipe'[w])
  BY <1>1, <1>3 DEF QueuesInOrder
<1>8. \A c \in Conns : home[c] # Nil /\ home[c].w = w => AllBefore(sender, inbox[c], Head(pipe[w]))
  BY <1>3 DEF QueuesInOrder
<1>9. ASSUME NEW o, Follows(sender, pipe, inbox, o) PROVE Follows(sender, pipe', inbox, o) /\ Before(sender, Head(pipe[w]), o)
  <2>1. \A v \in Workers : AllBefore(sender, pipe'[v], o)
    BY <1>1, <1>3, <1>9 DEF Follows
  <2>2. Before(sender, Head(pipe[w]), o)
    BY <1>3, <1>9 DEF Follows
  <2>. QED  BY <1>9, <2>1, <2>2 DEF Follows
<1>. QED  BY <1>6, <1>7, <1>8, <1>9

\* notify_new_msg_callback: the message at the head of the pipe is dropped, or written to a
\* connection of this worker.
LEMMA OrderDelivers ==
  ASSUME TypeOK, LoginInv, OrderInv, NEW w \in Workers, notify_new_msg_callback(w)
  PROVE  OrderInv'
<1>1. PICK m \in Msg :
        /\ pipe[w] # << >> /\ m = Head(pipe[w]) /\ pipe' = [pipe EXCEPT ![w] = Tail(@)]
        /\ SendsStay /\ UNCHANGED <<home, replies, claimed, sender>>
        /\ \/ UNCHANGED inbox /\ Drops
           \/ \E b \in Bevs, c \in Conns :
                /\ m.kind # "del" /\ sub_map[w][m.to] = b /\ at[b] = c
                /\ inbox' = [inbox EXCEPT ![c] = Append(@, m)]
                /\ Moves("pipe", w, "inbox", c, m)
  BY CallbackMoves
<1>2. QueuesInOrder(sender, pipe, inbox, home)
  BY DEF OrderInv
<1>3. /\ QueuesInOrder(sender, pipe', inbox, home) /\ BeforeAll(sender, Head(pipe[w]), pipe'[w])
      /\ \A c \in Conns : home[c] # Nil /\ home[c].w = w => AllBefore(sender, inbox[c], Head(pipe[w]))
      /\ \A o : Follows(sender, pipe, inbox, o) =>
                  Follows(sender, pipe', inbox, o) /\ Before(sender, Head(pipe[w]), o)
  <2>1. pipe[w] # << >> /\ pipe' = [pipe EXCEPT ![w] = Tail(@)]
    BY <1>1
  <2>. QED  BY <1>2, <2>1, PipesTail
<1>4. /\ QueuesInOrder(sender, pipe', inbox, home) /\ BeforeAll(sender, m, pipe'[w])
      /\ \A c \in Conns : home[c] # Nil /\ home[c].w = w => AllBefore(sender, inbox[c], m)
      /\ \A o : Follows(sender, pipe, inbox, o) => Follows(sender, pipe', inbox, o) /\ Before(sender, m, o)
  BY <1>1, <1>3
<1>5. CASE UNCHANGED inbox
  BY <1>1, <1>4, <1>5, OrderStays
<1>6. ASSUME NEW b \in Bevs, NEW c \in Conns, sub_map[w][m.to] = b, at[b] = c,
             inbox' = [inbox EXCEPT ![c] = Append(@, m)]
      PROVE  OrderInv'
  <2>1. PICK i \in Ids : m.to = i
    BY DEF Msg
  <2>2. NoDangling /\ sub_map[w][i] # Nil
    BY <1>6, <2>1, LoginFacts, BevsAssumption
  <2>3. home[at[sub_map[w][i]]] = [w |-> w, bev |-> sub_map[w][i]]
    BY <2>2, Subscribed
  <2>4. home[c] = [w |-> w, bev |-> b]
    BY <1>6, <2>1, <2>3
  <2>5. home[c] # Nil /\ home[c].w = w
    BY SMT, <2>4, PlaceFields
  <2>6. AllBefore(sender, inbox[c], m) /\ \A v \in Workers : home[c].w = v => BeforeAll(sender, m, pipe'[v])
    BY <1>4, <2>5
  <2>7. m \in Msg \cup FriendReport
    OBVIOUS
  <2>8. QueuesInOrder(sender, pipe', inbox, home)
    BY <1>4
  <2>9. /\ QueuesInOrder(sender, pipe', inbox', home)
        /\ \A o : Follows(sender, pipe', inbox, o) /\ Before(sender, m, o) => Follows(sender, pipe', inbox', o)
    BY <1>6, <2>5, <2>6, <2>7, <2>8, InboxAppends
  <2>. QED  BY <1>1, <1>4, <2>9, OrderStays
<1>. QED  BY <1>1, <1>5, <1>6

\* A notice or a deletion is written to a pipe.
LEMMA OrderAdds ==
  ASSUME TypeOK, OrderInv, NEW j \in Workers, NEW m, Adds(j, m), SendsStay
  PROVE  OrderInv'
<1>1. /\ m \in Msg /\ ~Direct(m) /\ UNCHANGED <<home, sender, inbox>>
      /\ pipe' = [pipe EXCEPT ![j] = Append(@, m)] /\ QueuesInOrder(sender, pipe, inbox, home)
  BY DEF Adds, Direct, OrderInv
<1>2. Follows(sender, pipe, inbox, m) /\ \A o : Before(sender, m, o)
  BY <1>1, OrderOther DEF Follows, Before
<1>3. /\ QueuesInOrder(sender, pipe', inbox', home)
      /\ \A o : Follows(sender, pipe, inbox, o) => Follows(sender, pipe', inbox', o)
  BY <1>1, <1>2, PipesAppend
<1>. QED  BY <1>1, <1>3, OrderStays

\* finish_notify: the list of the friends is written.
LEMMA OrderLists ==
  ASSUME TypeOK, LoginInv, OrderInv, NEW w \in Workers, finish_notify(w)
  PROVE  OrderInv'
<1>1. SendsStay /\ UNCHANGED <<pipe, home, sender>> /\ QueuesInOrder(sender, pipe, inbox, home)
  BY FinishDrops DEF OrderInv
<1>2. CASE UNCHANGED inbox
  BY <1>1, <1>2, OrderStays
<1>3. ASSUME NEW b \in Bevs, NEW c \in Conns, NEW x \in FriendReport,
             /\ task[w].op = "notify" /\ task[w].kind = "online"
             /\ task[w].bev = b /\ at[b] = c
             /\ inbox' = [inbox EXCEPT ![c] = Append(@, x)]
      PROVE  OrderInv'
  <2>1. home[c] # Nil
    BY <1>3, LoginFacts, BevsAssumption DEF Placed
  <2>2. ~Direct(x) /\ x \in Msg \cup FriendReport
    BY DEF FriendReport, Direct
  <2>3. /\ AllBefore(sender, inbox[c], x) /\ \A o : Before(sender, x, o)
        /\ \A v \in Workers : BeforeAll(sender, x, pipe'[v])
        /\ QueuesInOrder(sender, pipe', inbox, home)
    BY <1>1, <2>2, OrderOther DEF Before
  <2>4. /\ QueuesInOrder(sender, pipe', inbox', home)
        /\ \A o : Follows(sender, pipe', inbox, o) /\ Before(sender, x, o) => Follows(sender, pipe', inbox', o)
    BY <1>3, <2>1, <2>2, <2>3, InboxAppends
  <2>5. \A o : Follows(sender, pipe, inbox, o) => Follows(sender, pipe', inbox', o)
    BY <1>1, <2>3, <2>4
  <2>. QED  BY <1>1, <2>4, <2>5, OrderStays
<1>4. \/ UNCHANGED inbox
      \/ \E b \in Bevs, c \in Conns, x \in FriendReport :
           /\ task[w].op = "notify" /\ task[w].kind = "online"
           /\ task[w].bev = b /\ at[b] = c
           /\ inbox' = [inbox EXCEPT ![c] = Append(@, x)]
  BY FinishDrops
<1>. QED  BY <1>2, <1>3, <1>4

\* What is put up for a check is not on the direct path.
LEMMA CheckedFlows ==
  ASSUME NotChecked, NEW t, NEW u, NEW m, Flows(t, u, m), m \notin Directs \/ t \notin {"redis", "http"}
  PROVE  NotChecked'
<1>. SUFFICES ASSUME NEW s \in {"redis", "http"}, NEW p, Holding(s, p, Directs)' PROVE FALSE
  BY DEF NotChecked
<1>1. s \in Spots /\ Directs \in SUBSET Msg /\ ~Holding(s, p, Directs)
  BY DEF Spots, Directs, NotChecked
<1>. QED  BY <1>1, FlowHolds

\* A message whose check is over is not on the direct path.
LEMMA CheckedMoves ==
  ASSUME NotChecked, NEW s \in {"redis", "http"}, NEW p, NEW t, NEW u, NEW m, Moves(s, p, t, u, m)
  PROVE  ~Direct(m) /\ SendsQuiet /\ NotChecked'
<1>1. Holding(s, p, {m}) /\ Flows(t, u, m) /\ m \in Msg
  BY DEF Moves
<1>2. m \notin Directs
  BY <1>1, HoldingIn DEF NotChecked
<1>3. ~Direct(m)
  BY <1>1, <1>2 DEF Directs
<1>4. SendsQuiet
  BY <1>1, <1>3 DEF Flows, TaskFlow, SendsQuiet
<1>. QED  BY <1>1, <1>2, <1>3, <1>4, CheckedFlows

\* The inductive step for both parts of the invariant.
LEMMA OrderStep ==
  ASSUME TypeOK, LoginErased, LoginInv, OwnerInv, NotChecked, OrderInv, [Next]_vars
  PROVE  NotChecked' /\ OrderInv'
<1>. Lasting
  BY NextLasts
<1>0. "none" \notin {"redis", "http"} /\ "pipe" \notin {"redis", "http"} /\ "inbox" \notin {"redis", "http"}
  OBVIOUS
<1>1. ASSUME Drops PROVE NotChecked' /\ SendsQuiet
  <2>1. SendsQuiet
    BY <1>1 DEF Drops, Flows, TaskFlow, SendsQuiet
  <2>. QED  BY <1>0, <1>1, <2>1, CheckedFlows DEF Drops
<1>2. ASSUME SendsQuiet, UNCHANGED <<pipe, inbox, sender>> PROVE OrderInv'
  BY <1>2, OrderQuiet
<1>3. ASSUME NEW j \in Workers, NEW m, Adds(j, m), SendsStay PROVE NotChecked' /\ OrderInv'
  BY <1>0, <1>3, CheckedFlows, OrderAdds DEF Adds
<1>4. CASE Still
  <2>1. Drops /\ UNCHANGED <<pipe, inbox, sender>>
    BY <1>4, FlowStill DEF Drops, Still
  <2>. QED  BY <1>1, <1>2, <2>1
<1>5. ASSUME NEW c \in Conns, NEW from \in Ids, NEW to \in Ids, read_trans(c, from, to)
      PROVE  NotChecked' /\ OrderInv'
  <2>1. PICK t, m : Creates(c, t, m)
    BY <1>5, TransCreates
  <2>2. Flows(t, home[c].w, m) /\ (m \notin Directs \/ t \notin {"redis", "http"})
    BY <2>1 DEF Creates, Directs
  <2>. QED  BY <2>1, <2>2, CheckedFlows, OrderCreates
<1>6. ASSUME NEW h \in http_trans, http_trans_connected(h) \/ http_trans_event(h) \/ http_trans_read(h)
      PROVE  NotChecked' /\ OrderInv'
  <2>1. UNCHANGED <<pipe, inbox, sender>>
    BY <1>6 DEF http_trans_connected, http_trans_event, http_trans_read
  <2>2. NotChecked' /\ SendsQuiet
    BY <1>1, <1>6, HttpMoves, CheckedMoves
  <2>. QED  BY <1>2, <2>1, <2>2
<1>7. ASSUME NEW w \in Workers, redis_trans_callback(w) PROVE NotChecked' /\ OrderInv'
  <2>1. UNCHANGED <<pipe, inbox, sender>>
    BY <1>7 DEF redis_trans_callback
  <2>2. NotChecked' /\ SendsQuiet
    BY <1>1, <1>7, RedisMoves, CheckedMoves
  <2>. QED  BY <1>2, <2>1, <2>2
<1>8. ASSUME NEW w \in Workers, notify_new_msg(w) PROVE NotChecked' /\ OrderInv'
  <2>1. CASE Drops /\ UNCHANGED <<pipe, home, inbox>>
    BY <1>1, <1>2, <2>1 DEF Drops
  <2>2. ASSUME NEW j \in Workers, NEW m \in Msg, Moves("task", w, "pipe", j, m),
               pipe' = [pipe EXCEPT ![j] = Append(@, m)],
               task' = [task EXCEPT ![w] = Idle], UNCHANGED <<home, inbox>>
        PROVE  NotChecked' /\ OrderInv'
    <3>1. NotChecked'
      BY <1>0, <2>2, CheckedFlows DEF Moves
    <3>. QED  BY <2>2, <3>1, OrderSends
  <2>. QED  BY <1>8, <2>1, <2>2, SendMoves
<1>9. ASSUME NEW w \in Workers, notify_del_id(w) PROVE NotChecked' /\ OrderInv'
  <2>1. SendsStay /\ UNCHANGED <<home, sender, inbox>>
    BY <1>9, DelAdds
  <2>2. CASE UNCHANGED pipe /\ Drops
    BY <1>1, <1>2, <2>1, <2>2
  <2>. QED  BY <1>3, <1>9, <2>1, <2>2, DelAdds
<1>10. ASSUME NEW w \in Workers, notify_friend(w) PROVE NotChecked' /\ OrderInv'
  <2>1. CASE UNCHANGED <<home, sender, inbox, pipe>> /\ Drops
    BY <1>1, <1>2, <2>1
  <2>. QED  BY <1>3, <1>10, <2>1, FriendAdds
<1>11. ASSUME NEW w \in Workers, finish_notify(w) PROVE NotChecked' /\ OrderInv'
  BY <1>1, <1>11, FinishDrops, OrderLists
<1>12. ASSUME NEW w \in Workers, notify_new_msg_callback(w) PROVE NotChecked' /\ OrderInv'
  <2>1. NotChecked'
    BY <1>0, <1>1, <1>12, CallbackMoves, CheckedFlows DEF Moves
  <2>. QED  BY <1>12, <2>1, OrderDelivers
<1>. QED  BY <1>4, <1>5, <1>6, <1>7, <1>8, <1>9, <1>10, <1>11, <1>12, StillActions

\* If no address is used twice and a connection sends one login packet, the messages that a
\* connection sends from or to a Wechat id, which send_message hands on at once, are written
\* to another connection in the order in which they were sent.
THEOREM RelayKeepsOrder ==
  ASSUME MaxLogins <= 1, ~AddrReuse
  PROVE  Spec => []RelayInOrder
<1>1. Init => NotChecked /\ OrderInv
  <2>. SUFFICES ASSUME Init PROVE NotChecked /\ OrderInv
    OBVIOUS
  <2>1. /\ \A w \in Workers : pipe[w] = << >> /\ task[w].op # "send"
        /\ \A c \in Conns : inbox[c] = << >>
    BY DEF Init, Idle
  <2>2. \A s, q : InOrder(s, << >>) /\ Precede(s, << >>, q)
    BY SMT DEF InOrder, Precede
  <2>3. NotChecked
    BY NothingHeld DEF NotChecked
  <2>. QED  BY <2>1, <2>2, <2>3 DEF OrderInv, QueuesInOrder
<1>2. /\ TypeOK /\ LoginErased /\ LoginInv /\ OwnerInv /\ NotChecked /\ OrderInv
      /\ [Next]_vars
      => NotChecked' /\ OrderInv'
  BY OrderStep
<1>3. TypeOK /\ OrderInv => RelayInOrder
  <2>. SUFFICES ASSUME TypeOK, OrderInv, NEW c \in Conns, NEW x \in DOMAIN inbox[c], NEW y \in DOMAIN inbox[c],
                       NEW m, NEW o, m = inbox[c][x], o = inbox[c][y], x < y, m.kind = "data", o.kind = "data",
                       sender[m.n] = sender[o.n], {m.from, m.to} \cap Wechat # {}, {o.from, o.to} \cap Wechat # {}
                PROVE  m.n < o.n
    BY DEF RelayInOrder
  <2>1. Direct(m) /\ Direct(o)
    BY DEF Direct
  <2>2. inbox[c] \in Seq(Msg \cup FriendReport) /\ InOrder(sender, inbox[c])
    BY DEF TypeOK, OrderInv, QueuesInOrder
  <2>3. x \in 1 .. Len(inbox[c]) /\ y \in 1 .. Len(inbox[c])
    BY SMT, <2>2
  <2>4. Before(sender, m, o)
    BY <2>2, <2>3 DEF InOrder
  <2>. QED  BY <2>1, <2>4 DEF Before
<1>. QED  BY <1>1, <1>2, <1>3, LoginsKept, OwnersKept, PTL DEF Spec

=============================================================================
