-------------------------- MODULE Registry_proofs ---------------------------
(* A later login displaces an earlier one on another worker, and the workers *)
(* implement the registry of logins: every step of WorkThread is a step of    *)
(* Registry, or leaves it as it is.  For any number of workers, connections,  *)
(* ids and addresses.                                                         *)
EXTENDS WorkThread_proofs, Refinement

\* Zenon proves the leaves that name no other prover.
USE Zenon

USE DEF registry, pending, running, client, vars

-----------------------------------------------------------------------------
(* DuplicateIsTransient.  It is inductive together with what a login has done *)
(* so far, and with the record of two logins at the same time.                *)

\* The login worker w is completing has asked every worker it has passed, that
\* still has the id, to delete it.
Scanned ==
  \A w, v \in Workers :
    /\ task[w].op = "login" /\ v # w /\ v < task[w].j
    /\ sub_map[v][task[w].id] # Nil /\ ~Missed(task[w].id)
    => DelPending(v, task[w].id)

\* Two logins of one id at the same time are on record.
Alone ==
  \A w, v \in Workers :
    w # v /\ task[w].op = "login" /\ task[v].op = "login" /\ task[w].id = task[v].id
      => Missed(task[w].id)

DuplicateInv == DuplicateIsTransient /\ Scanned /\ Alone

\* A deletion on its way stays on its way until the login it is for has gone.
PipesGrow ==
  \A v \in Workers, id \in Ids :
    DelPending(v, id) /\ sub_map'[v][id] # Nil => DelPending(v, id)'

\* Subscribers only go, and logins neither start nor move on.
Fewer == \A v \in Workers, id \in Ids : sub_map'[v][id] # Nil => sub_map[v][id] # Nil
LoginsStay ==
  \A v \in Workers : task'[v].op = "login" =>
    task[v].op = "login" /\ task'[v].id = task[v].id /\ task'[v].j = task[v].j

Calm == Fewer /\ PipesGrow /\ LoginsStay /\ missed \subseteq missed'

\* The id of a login under way is an id, and its place in the loop a number.
LEMMA LoginFields ==
  ASSUME TypeOK, NEW w \in Workers, task[w].op = "login"
  PROVE  task[w].id \in Ids /\ task[w].j \in Nat /\ task[w] \in LoginTask
<1>1. task[w] \in LoginTask
  BY TaskFields DEF TypeOK
<1>. QED  BY SMT, <1>1 DEF LoginTask

\* What was missed stays missed.
LEMMA MissedStays ==
  ASSUME missed \subseteq missed', NEW id
  PROVE  Missed(id) => Missed(id)'
BY DEF Missed

\* A calm step keeps the invariant.
LEMMA CalmStep ==
  ASSUME TypeOK, DuplicateInv, Calm
  PROVE  DuplicateInv'
<1>1. \A id \in Ids : Missed(id) => Missed(id)'
  BY MissedStays DEF Calm
<1>2. DuplicateIsTransient'
  BY <1>1 DEF DuplicateInv, DuplicateIsTransient, Calm, Fewer, PipesGrow
<1>3. Scanned'
  <2>1. SUFFICES ASSUME NEW w \in Workers, NEW v \in Workers,
                        task'[w].op = "login", v # w, v < task'[w].j,
                        sub_map'[v][task'[w].id] # Nil, ~Missed(task[w].id)'
                 PROVE  DelPending(v, task[w].id)'
    BY DEF Scanned
  <2>2. PICK id \in Ids : id = task[w].id /\ id = task'[w].id /\ task[w].op = "login"
                          /\ task'[w].j = task[w].j
    BY <2>1, LoginFields DEF Calm, LoginsStay
  <2>3. sub_map[v][id] # Nil /\ ~Missed(id)
    BY <1>1, <2>1, <2>2 DEF Calm, Fewer, Missed
  <2>4. DelPending(v, id)
    BY <2>1, <2>2, <2>3 DEF DuplicateInv, Scanned
  <2>5. DelPending(v, id)'
    BY <2>1, <2>2, <2>4 DEF Calm, PipesGrow
  <2>. QED  BY <2>2, <2>5 DEF DelPending
<1>4. Alone'
  <2>1. SUFFICES ASSUME NEW w \in Workers, NEW v \in Workers, w # v, task'[w].op = "login",
                        task'[v].op = "login", task'[w].id = task'[v].id
                 PROVE  Missed(task[w].id)'
    BY DEF Alone
  <2>2. PICK id \in Ids : id = task[w].id /\ id = task'[w].id /\ task[w].op = "login"
                          /\ task[v].op = "login" /\ task[v].id = id
    BY <2>1, LoginFields DEF Calm, LoginsStay
  <2>3. Missed(id)
    BY <2>1, <2>2 DEF DuplicateInv, Alone
  <2>. QED  BY <1>1, <2>2, <2>3 DEF Missed
<1>. QED  BY <1>2, <1>3, <1>4 DEF DuplicateInv

\* Pipes that are left alone keep their deletions.
LEMMA PipesKept ==
  ASSUME UNCHANGED pipe
  PROVE  PipesGrow
BY DEF PipesGrow, DelPending

\* So does a pipe that is written to; a deletion written to it is then pending.
LEMMA PipesAppend ==
  ASSUME TypeOK, NEW u \in Workers, NEW m \in Msg, pipe' = [pipe EXCEPT ![u] = Append(@, m)]
  PROVE  /\ PipesGrow
         /\ \A id \in Ids : m = DelMsg(id) => DelPending(u, id)'
<1>1. pipe[u] \in Seq(Msg) /\ pipe'[u] = Append(pipe[u], m)
  BY DEF TypeOK
<1>2. /\ Len(pipe[u]) + 1 \in DOMAIN Append(pipe[u], m)
      /\ Append(pipe[u], m)[Len(pipe[u]) + 1] = m
      /\ \A k \in DOMAIN pipe[u] : k \in DOMAIN Append(pipe[u], m) /\ Append(pipe[u], m)[k] = pipe[u][k]
  BY SMT, <1>1
<1>3. ASSUME NEW v \in Workers, NEW id \in Ids, DelPending(v, id) PROVE DelPending(v, id)'
  <2>1. CASE v = u
    BY <1>1, <1>2, <1>3, <2>1 DEF DelPending
  <2>2. CASE v # u
    BY <1>3, <2>2 DEF DelPending, TypeOK
  <2>. QED  BY <2>1, <2>2
<1>4. \A id \in Ids : m = DelMsg(id) => DelPending(u, id)'
  BY <1>1, <1>2 DEF DelPending
<1>. QED  BY <1>3, <1>4 DEF PipesGrow

\* A task that is not a login is taken up, or none.
LEMMA StayTask ==
  ASSUME TypeOK, NEW u, NEW t, t.op # "login", task' = task \/ task' = [task EXCEPT ![u] = t]
  PROVE  LoginsStay
<1>1. CASE task' = task
  BY <1>1 DEF LoginsStay
<1>2. CASE task' = [task EXCEPT ![u] = t]
  BY <1>2 DEF LoginsStay, TypeOK
<1>. QED  BY <1>1, <1>2

\* The same where the task is to relay a message.
LEMMA StaySend ==
  ASSUME TypeOK, NEW u,
         task' = task \/ \E m : task' = [task EXCEPT ![u] = [op |-> "send", msg |-> m, j |-> 0]]
  PROVE  LoginsStay
<1>1. CASE task' = task
  BY <1>1 DEF LoginsStay
<1>2. ASSUME NEW m, task' = [task EXCEPT ![u] = [op |-> "send", msg |-> m, j |-> 0]]
      PROVE  LoginsStay
  <2>1. [op |-> "send", msg |-> m, j |-> 0].op # "login"
    OBVIOUS
  <2>. QED  BY <1>2, <2>1, StayTask
<1>. QED  BY <1>1, <1>2

-----------------------------------------------------------------------------
(* The calm actions.                                                        *)

\* Neither the maps nor the pipes are touched, and no login starts.
LEMMA CalmTask ==
  ASSUME UNCHANGED <<sub_map, pipe>>, missed \subseteq missed', LoginsStay
  PROVE  Calm
BY PipesKept DEF Calm, Fewer

\* The Subscriber of one id goes.
LEMMA FewerForget ==
  ASSUME TypeOK, NEW w \in Workers, NEW id \in Ids, sub_map' = [sub_map EXCEPT ![w][id] = Nil]
  PROVE  Fewer /\ sub_map'[w][id] = Nil
BY DEF Fewer, TypeOK

\* What a client does, and the HTTP relation checks.
LEMMA CalmClient ==
  ASSUME TypeOK, Client
  PROVE  Calm
<1>1. ASSUME NEW c \in Conns, bufferevent_event_callback(c) PROVE Calm
  <2> DEFINE w == home[c].w
             id == bev_id[w][home[c].bev]
  <2>1. w \in Workers
    BY <1>1, BevsAssumption DEF TypeOK, bufferevent_event_callback, Open
  <2> HIDE DEF w
  <2>2. /\ UNCHANGED <<pipe, task, missed>>
        /\ \/ id \in Ids /\ sub_map' = [sub_map EXCEPT ![w][id] = Nil]
           \/ sub_map' = sub_map
    BY <1>1 DEF bufferevent_event_callback, forget_id, w
  <2>3. Fewer
    BY <2>1, <2>2, FewerForget DEF Fewer
  <2>. QED  BY <2>2, <2>3, PipesKept DEF Calm, LoginsStay
<1>2. ASSUME NEW c \in Conns, read_heartbeat(c) PROVE Calm
  BY <1>2, CalmTask DEF read_heartbeat, LoginsStay
<1>3. ASSUME NEW w \in Workers, NEW c \in Conns, new_connection(w, c) PROVE Calm
  BY <1>3, CalmTask DEF new_connection, LoginsStay
<1>4. ASSUME NEW c \in Conns, NEW id \in Ids, read_login(c, id) PROVE Calm
  BY <1>4, CalmTask DEF read_login, LoginsStay
<1>5. ASSUME NEW c \in Conns, NEW from \in Ids, NEW to \in Ids, read_trans(c, from, to)
      PROVE  Calm
  <2>1. \/ task' = task
        \/ \E m : task' = [task EXCEPT ![home[c].w] = [op |-> "send", msg |-> m, j |-> 0]]
    BY <1>5 DEF read_trans
  <2>2. LoginsStay
    BY <2>1, StaySend
  <2>. QED  BY <1>5, <2>2, CalmTask DEF read_trans
<1>6. ASSUME NEW w \in Workers, NEW id \in Ids, heartbeat_missed(w, id) PROVE Calm
  BY <1>6, CalmTask DEF heartbeat_missed, LoginsStay
<1>. QED  BY <1>1, <1>2, <1>3, <1>4, <1>5, <1>6 DEF Client

\* An HTTP answer is calm, or it is the one that starts a login.
LEMMA CalmHttp ==
  ASSUME TypeOK, Http
  PROVE  \/ Calm
         \/ \E w \in Workers, d \in LoginData, self \in BOOLEAN :
              start_login(w, d, self) /\ UNCHANGED pipe
<1>1. ASSUME NEW h \in http_login,
             http_login_connected(h) \/ http_login_event(h) \/ http_login_read(h)
      PROVE  \/ UNCHANGED <<sub_map, task, missed, pipe>>
             \/ \E w \in Workers, d \in LoginData, self \in BOOLEAN :
                  start_login(w, d, self) /\ UNCHANGED pipe
  <2>1. h.w \in Workers /\ h.data \in LoginData
    BY DEF TypeOK
  <2>2. \/ UNCHANGED <<sub_map, task, missed, pipe>>
        \/ start_login(h.w, h.data, TRUE) /\ UNCHANGED pipe
    BY <1>1 DEF http_login_connected, http_login_event, http_login_read
  <2>. QED  BY <2>1, <2>2
<1>2. ASSUME NEW h \in http_trans,
             http_trans_connected(h) \/ http_trans_event(h) \/ http_trans_read(h)
      PROVE  Calm
  <2>1. UNCHANGED <<sub_map, missed, pipe>>
    BY <1>2 DEF http_trans_connected, http_trans_event, http_trans_read
  <2>2. \/ task' = task
        \/ \E m : task' = [task EXCEPT ![h.w] = [op |-> "send", msg |-> m, j |-> 0]]
    BY <1>2 DEF http_trans_connected, http_trans_event, http_trans_read
  <2>3. LoginsStay
    BY <2>2, StaySend
  <2>. QED  BY <2>1, <2>3, CalmTask
<1>3. UNCHANGED <<sub_map, task, missed, pipe>> => Calm
  BY CalmTask DEF LoginsStay
<1>. QED  BY <1>1, <1>2, <1>3 DEF Http

\* A Redis answer is calm, or it is the one that starts a login.
LEMMA CalmRedis ==
  ASSUME TypeOK, NEW w \in Workers, RedisReply(w)
  PROVE  \/ Calm
         \/ \E d \in LoginData, self \in BOOLEAN : start_login(w, d, self) /\ UNCHANGED pipe
<1>1. ASSUME redis_login_callback(w)
      PROVE  \/ UNCHANGED <<sub_map, task, missed, pipe>>
             \/ \E d \in LoginData, self \in BOOLEAN : start_login(w, d, self) /\ UNCHANGED pipe
  <2>1. Head(redisq[w]) \in Command
    <3>1. redisq[w] \in Seq(Command) /\ redisq[w] # << >>
      BY <1>1 DEF redis_login_callback, TypeOK
    <3>. QED  BY <3>1, HeadTail
  <2>2. Head(redisq[w]).data \in LoginData
    BY <1>1, <2>1, CommandFields DEF redis_login_callback
  <2>3. \/ UNCHANGED <<sub_map, task, missed, pipe>>
        \/ start_login(w, Head(redisq[w]).data, FALSE) /\ UNCHANGED pipe
    BY <1>1 DEF redis_login_callback
  <2>. QED  BY <2>2, <2>3
<1>2. ASSUME redis_trans_callback(w) PROVE Calm
  <2>1. \/ task' = task
        \/ \E m : task' = [task EXCEPT ![w] = [op |-> "send", msg |-> m, j |-> 0]]
    BY <1>2 DEF redis_trans_callback
  <2>2. LoginsStay
    BY <2>1, StaySend
  <2>. QED  BY <1>2, <2>2, CalmTask DEF redis_trans_callback
<1>3. ASSUME redis_friend_list(w) PROVE Calm
  <2>1. \/ task' = task
        \/ \E k, i, x, order : task' = [task EXCEPT ![w] =
              [op |-> "notify", kind |-> k, id |-> i, bev |-> x,
               todo |-> order, j |-> 0, seen |-> {}]]
    BY <1>3 DEF redis_friend_list
  <2>2. ASSUME NEW k, NEW i, NEW x, NEW order,
               task' = [task EXCEPT ![w] =
                 [op |-> "notify", kind |-> k, id |-> i, bev |-> x,
                  todo |-> order, j |-> 0, seen |-> {}]]
        PROVE  LoginsStay
    <3>1. [op |-> "notify", kind |-> k, id |-> i, bev |-> x,
           todo |-> order, j |-> 0, seen |-> {}].op # "login"
      OBVIOUS
    <3>. QED  BY <2>2, <3>1, StayTask
  <2>3. LoginsStay
    BY SMT, <2>1, <2>2 DEF LoginsStay
  <2>. QED  BY <1>3, <2>3, CalmTask DEF redis_friend_list
<1>4. UNCHANGED <<sub_map, task, missed, pipe>> => Calm
  BY CalmTask DEF LoginsStay
<1>. QED  BY <1>1, <1>2, <1>3, <1>4 DEF RedisReply

\* Dropping the clients that stopped sending heartbeats.
LEMMA CalmExpire ==
  ASSUME TypeOK, NEW w \in Workers, del_expire_client(w)
  PROVE  Calm
<1>1. Fewer
  BY DEF Fewer, del_expire_client, TypeOK
<1>. QED  BY <1>1, PipesKept DEF Calm, LoginsStay, del_expire_client

\* Relaying a message to the next worker.
LEMMA CalmNewMsg ==
  ASSUME TypeOK, NEW w \in Workers, notify_new_msg(w)
  PROVE  Calm
<1> DEFINE t == task[w]
<1>1. t \in SendTask /\ t.op = "send"
  BY TaskFields DEF TypeOK, notify_new_msg
<1>2. Fewer /\ missed \subseteq missed'
  BY DEF notify_new_msg, Fewer
<1>3. LoginsStay
  <2>1. Idle.op # "login" /\ [t EXCEPT !.j = t.j + 1].op # "login"
    BY <1>1 DEF Idle, SendTask
  <2>2. \/ task' = [task EXCEPT ![w] = Idle]
        \/ task' = [task EXCEPT ![w] = [t EXCEPT !.j = t.j + 1]]
    BY DEF notify_new_msg, after_send, TypeOK
  <2>. QED  BY <2>1, <2>2, StayTask
<1>4. PipesGrow
  <2>1. CASE pipe' = pipe
    BY <2>1, PipesKept
  <2>2. CASE t.j < NumWorkers /\ pipe' = [pipe EXCEPT ![t.j] = Append(@, t.msg)]
    <3>1. t.msg \in Msg /\ t.j \in 0 .. NumWorkers
      BY <1>1 DEF SendTask
    <3>2. PICK u \in Workers : u = t.j
      BY SMT, <2>2, <3>1, WorkersAssumption DEF Workers
    <3>3. PICK m \in Msg : m = t.msg
      BY <3>1
    <3>. QED  BY <2>2, <3>2, <3>3, PipesAppend
  <2>. QED  BY <2>1, <2>2 DEF notify_new_msg
<1>. QED  BY <1>2, <1>3, <1>4 DEF Calm

\* Looking for the next friend, and telling it.
LEMMA CalmFriend ==
  ASSUME TypeOK, NEW w \in Workers, notify_friend(w)
  PROVE  Calm
<1> DEFINE t == task[w]
           note == [kind |-> t.kind, from |-> t.id, to |-> Head(t.todo), n |-> 0]
<1>1. t.op = "notify" /\ t \in Task
  BY DEF notify_friend, TypeOK
<1>2. Fewer /\ missed \subseteq missed'
  BY DEF notify_friend, Fewer
<1>3. LoginsStay
  <2>1. /\ next_friend(t).op # "login"
        /\ [next_friend(t) EXCEPT !.seen = @ \cup {Head(t.todo)}].op # "login"
        /\ [t EXCEPT !.j = t.j + 1].op # "login"
    BY <1>1, TaskFields DEF next_friend, NotifyTask
  <2>2. \/ task' = [task EXCEPT ![w] = next_friend(t)]
        \/ task' = [task EXCEPT ![w] = [next_friend(t) EXCEPT !.seen = @ \cup {Head(t.todo)}]]
        \/ task' = [task EXCEPT ![w] = [t EXCEPT !.j = t.j + 1]]
    BY DEF notify_friend, TypeOK
  <2>. QED  BY <2>1, <2>2, StayTask
<1>4. PipesGrow
  <2>1. CASE pipe' = pipe
    BY <2>1, PipesKept
  <2>2. CASE t.j < NumWorkers /\ pipe' = [pipe EXCEPT ![t.j] = Append(@, note)]
    <3>1. t.j \in 0 .. NumWorkers /\ t.id \in Ids /\ t.kind \in {"online", "offline"}
          /\ t.todo \in Seq(Ids) /\ t.todo # << >>
      BY <1>1, TaskFields DEF NotifyTask, notify_friend
    <3>2. Head(t.todo) \in Ids
      BY SMT, <3>1
    <3>3. note \in Msg
      BY <3>1, <3>2 DEF Msg
    <3>4. PICK u \in Workers : u = t.j
      BY SMT, <2>2, <3>1, WorkersAssumption DEF Workers
    <3>5. PICK m \in Msg : m = note
      BY <3>3
    <3>. QED  BY <2>2, <3>4, <3>5, PipesAppend
  <2>. QED  BY <2>1, <2>2 DEF notify_friend
<1>. QED  BY <1>2, <1>3, <1>4 DEF Calm

\* Handling the first message of the pipe: if it is a deletion, its login goes.
LEMMA CalmCallback ==
  ASSUME TypeOK, NEW w \in Workers, notify_new_msg_callback(w)
  PROVE  Calm
<1> DEFINE m == Head(pipe[w])
<1>1. m \in Msg /\ pipe[w] \in Seq(Msg) /\ pipe[w] # << >>
  BY HeadTail DEF TypeOK, notify_new_msg_callback
<1>2. m.to \in Ids
  BY <1>1 DEF Msg
<1>3. pipe' = [pipe EXCEPT ![w] = Tail(@)] /\ missed' = missed
  BY DEF notify_new_msg_callback
<1>4. \/ m.kind # "del" /\ sub_map' = sub_map
      \/ sub_map' = [sub_map EXCEPT ![w][m.to] = Nil]
  BY DEF notify_new_msg_callback, delete_old_login, forget_id
<1>5. Fewer /\ (m.kind = "del" => sub_map'[w][m.to] = Nil)
  <2>1. CASE m.kind # "del" /\ sub_map' = sub_map
    BY <2>1 DEF Fewer
  <2>2. PICK id \in Ids : id = m.to
    BY <1>2
  <2>3. CASE sub_map' = [sub_map EXCEPT ![w][m.to] = Nil]
    BY <2>2, <2>3, FewerForget
  <2>. QED  BY <1>4, <2>1, <2>3
<1>6. LoginsStay
  <2>1. Idle.op # "login" /\ Drain.op # "login"
    BY DEF Idle, Drain
  <2>2. task' = [task EXCEPT ![w] = Idle] \/ task' = [task EXCEPT ![w] = Drain]
    BY DEF notify_new_msg_callback
  <2>. QED  BY <2>1, <2>2, StayTask
<1>7. PipesGrow
  <2> SUFFICES ASSUME NEW v \in Workers, NEW id \in Ids, DelPending(v, id), sub_map'[v][id] # Nil
               PROVE  DelPending(v, id)'
    BY DEF PipesGrow
  <2>1. CASE v # w
    BY <1>3, <2>1 DEF DelPending, TypeOK
  <2>2. CASE v = w
    <3>1. PICK k \in DOMAIN pipe[w] : pipe[w][k] = DelMsg(id)
      BY <2>2 DEF DelPending
    <3>2. k # 1
      <4> SUFFICES ASSUME k = 1 PROVE FALSE
        OBVIOUS
      <4>1. m = DelMsg(id)
        BY SMT, <1>1, <3>1
      <4>. QED  BY SMT, <1>5, <2>2, <4>1 DEF DelMsg
    <3>3. k - 1 \in DOMAIN Tail(pipe[w]) /\ Tail(pipe[w])[k - 1] = DelMsg(id)
      BY SMTT(30), <1>1, <3>1, <3>2
    <3>4. pipe'[v] = Tail(pipe[w])
      BY <1>3, <2>2 DEF TypeOK
    <3>. QED  BY <3>3, <3>4 DEF DelPending
  <2>. QED  BY <2>1, <2>2
<1>. QED  BY <1>3, <1>5, <1>6, <1>7 DEF Calm

-----------------------------------------------------------------------------
(* The steps of a login.                                                    *)

\* The start: the earlier login on this worker goes, the loop is at worker 0, and
\* a login of the id that another worker is completing is on record.
LEMMA StartStep ==
  ASSUME TypeOK, DuplicateInv, NEW w \in Workers, NEW d \in LoginData, NEW self \in BOOLEAN,
         start_login(w, d, self), UNCHANGED pipe
  PROVE  DuplicateInv'
<1>1. d.id \in Ids
  BY DEF LoginData
<1>2. /\ sub_map' = [sub_map EXCEPT ![w][d.id] = Nil]
      /\ task' = [task EXCEPT ![w] = login_loop(d, self)]
      /\ missed \subseteq missed'
  BY DEF start_login, displace_local, forget_id
<1>3. Fewer
  BY <1>1, <1>2, FewerForget
<1>4. \A id : Missed(id) => Missed(id)'
  BY <1>2, MissedStays
<1>5. \A v \in Workers, id \in Ids : DelPending(v, id)' <=> DelPending(v, id)
  BY DEF DelPending
<1>6. /\ task'[w].op = "login" /\ task'[w].id = d.id /\ task'[w].j = 0
      /\ \A v \in Workers : v # w => task'[v] = task[v]
  BY <1>2 DEF login_loop, TypeOK
<1>7. DuplicateIsTransient'
  BY <1>3, <1>4, <1>5 DEF DuplicateInv, DuplicateIsTransient, Fewer
<1>8. Scanned'
  <2>1. SUFFICES ASSUME NEW u \in Workers, NEW v \in Workers,
                        task'[u].op = "login", v # u, v < task'[u].j,
                        sub_map'[v][task'[u].id] # Nil, ~Missed(task[u].id)'
                 PROVE  DelPending(v, task[u].id)'
    BY DEF Scanned
  <2>2. u # w
    BY SMT, <1>6, <2>1, WorkersAssumption DEF Workers
  <2>3. PICK id \in Ids : id = task[u].id /\ id = task'[u].id /\ task'[u] = task[u]
    BY <1>6, <2>1, <2>2, LoginFields
  <2>4. sub_map[v][id] # Nil
    BY <1>3, <2>1, <2>3 DEF Fewer
  <2>5. ~Missed(id)
    BY <1>4, <2>1, <2>3 DEF Missed
  <2>6. DelPending(v, id)
    BY <2>1, <2>3, <2>4, <2>5 DEF DuplicateInv, Scanned
  <2>. QED  BY <1>5, <2>3, <2>6 DEF DelPending
<1>9. Alone'
  <2>1. ASSUME NEW v \in Workers, v # w, task[v].op = "login", task[v].id = d.id
        PROVE  <<"overlap", d.id>> \in missed'
    BY <2>1 DEF start_login
  <2>2. SUFFICES ASSUME NEW u \in Workers, NEW v \in Workers, u # v, task'[u].op = "login",
                        task'[v].op = "login", task'[u].id = task'[v].id
                 PROVE  Missed(task[u].id)'
    BY DEF Alone
  <2>3. CASE u = w
    BY <1>6, <2>1, <2>2, <2>3 DEF Missed
  <2>4. CASE v = w
    BY <1>6, <2>1, <2>2, <2>4 DEF Missed
  <2>5. CASE u # w /\ v # w
    <3>1. task'[u] = task[u] /\ task'[v] = task[v] /\ Missed(task[u].id)
      BY <1>6, <2>2, <2>5 DEF DuplicateInv, Alone
    <3>. QED  BY <1>2, <3>1 DEF Missed
  <2>. QED  BY <2>3, <2>4, <2>5
<1>. QED  BY <1>7, <1>8, <1>9 DEF DuplicateInv

\* One turn of the loop: the worker that is looked at has not got the id, is asked
\* to delete it, or the miss is on record.
LEMMA LoopStep ==
  ASSUME TypeOK, DuplicateInv, NEW w \in Workers, notify_del_id(w)
  PROVE  DuplicateInv'
<1> DEFINE t == task[w]
<1>1. /\ t.op = "login" /\ t \in LoginTask /\ t.id \in Ids /\ t.j \in Nat /\ t.j < NumWorkers
      /\ sub_map' = sub_map /\ missed \subseteq missed'
  BY LoginFields DEF notify_del_id
<1>2. PICK p \in Workers : p = t.j
  BY SMT, <1>1, WorkersAssumption DEF Workers
<1>3. PICK id \in Ids : id = t.id
  BY <1>1
<1>4. DelMsg(id) \in Msg
  BY DEF DelMsg, Msg
<1>5. \/ pipe' = [pipe EXCEPT ![p] = Append(@, DelMsg(id))]
      \/ pipe' = pipe /\ missed' = missed \cup overlooked("login", p, id)
  BY <1>2, <1>3 DEF notify_del_id
<1>6. PipesGrow /\ (sub_map[p][id] = Nil \/ DelPending(p, id)' \/ Missed(id)')
  <2>1. CASE pipe' = [pipe EXCEPT ![p] = Append(@, DelMsg(id))]
    <3>1. PICK m \in Msg : m = DelMsg(id)
      BY <1>4
    <3>2. pipe' = [pipe EXCEPT ![p] = Append(@, m)]
      BY <2>1, <3>1
    <3>. QED  BY <3>1, <3>2, PipesAppend
  <2>2. CASE pipe' = pipe /\ missed' = missed \cup overlooked("login", p, id)
    <3>1. sub_map[p][id] = Nil \/ Missed(id)'
      BY <2>2 DEF overlooked, Missed
    <3>. QED  BY <2>2, <3>1, PipesKept
  <2>. QED  BY <1>5, <2>1, <2>2
<1>7. \A i \in Ids : Missed(i) => Missed(i)'
  BY <1>1, MissedStays
<1>8. /\ task'[w].op = "login" /\ task'[w].id = id /\ task'[w].j = p + 1
      /\ \A v \in Workers : v # w => task'[v] = task[v]
  <2>1. task' = [task EXCEPT ![w] = [t EXCEPT !.j = t.j + 1]]
    BY DEF notify_del_id, TypeOK
  <2>. QED  BY <1>1, <1>2, <1>3, <2>1 DEF TypeOK, LoginTask
<1>9. DuplicateIsTransient'
  BY <1>1, <1>6, <1>7 DEF DuplicateInv, DuplicateIsTransient, PipesGrow
<1>10. Scanned'
  <2>1. SUFFICES ASSUME NEW u \in Workers, NEW v \in Workers,
                        task'[u].op = "login", v # u, v < task'[u].j,
                        sub_map'[v][task'[u].id] # Nil, ~Missed(task[u].id)'
                 PROVE  DelPending(v, task[u].id)'
    BY DEF Scanned
  <2>2. PICK i \in Ids : i = task[u].id /\ i = task'[u].id /\ task[u].op = "login"
    BY <1>1, <1>3, <1>8, <2>1, LoginFields
  <2>3. sub_map[v][i] # Nil /\ ~Missed(i)' /\ ~Missed(i)
    BY <1>1, <1>7, <2>1, <2>2 DEF Missed
  <2>4. CASE u = w /\ v = p
    BY <1>3, <1>6, <2>2, <2>3, <2>4 DEF DelPending
  <2>5. CASE ~(u = w /\ v = p)
    <3>1. v < task[u].j
      BY SMT, <1>2, <1>8, <2>1, <2>5, WorkersAssumption DEF Workers
    <3>2. DelPending(v, i)
      BY <2>1, <2>2, <2>3, <3>1 DEF DuplicateInv, Scanned
    <3>3. DelPending(v, i)'
      BY <1>1, <1>6, <2>3, <3>2 DEF PipesGrow
    <3>. QED  BY <2>2, <3>3 DEF DelPending
  <2>. QED  BY <2>4, <2>5
<1>11. Alone'
  <2>1. SUFFICES ASSUME NEW u \in Workers, NEW v \in Workers, u # v, task'[u].op = "login",
                        task'[v].op = "login", task'[u].id = task'[v].id
                 PROVE  Missed(task[u].id)'
    BY DEF Alone
  <2>2. PICK i \in Ids : i = task[u].id /\ i = task'[u].id /\ task[u].op = "login"
                         /\ task[v].op = "login" /\ task[v].id = i
    BY <1>1, <1>3, <1>8, <2>1, LoginFields
  <2>3. Missed(i)
    BY <2>1, <2>2 DEF DuplicateInv, Alone
  <2>. QED  BY <1>1, <2>2, <2>3 DEF Missed
<1>. QED  BY <1>9, <1>10, <1>11 DEF DuplicateInv

\* The end: every other worker that has the id has been asked to delete it, and
\* no other worker is completing a login of it, unless that is on record.
LEMMA FinishStep ==
  ASSUME TypeOK, DuplicateInv, NEW w \in Workers, finish_login(w)
  PROVE  DuplicateInv'
<1> DEFINE t == task[w]
<1>1. /\ t.op = "login" /\ t.id \in Ids /\ t.j = NumWorkers
      /\ pipe' = pipe /\ missed' = missed /\ task' = [task EXCEPT ![w] = Idle]
  BY LoginFields DEF finish_login
<1>2. PICK id \in Ids : id = t.id
  BY <1>1
<1>3. \A v \in Workers, i \in Ids :
        sub_map'[v][i] # Nil => sub_map[v][i] # Nil \/ (v = w /\ i = id)
  BY <1>2 DEF finish_login, TypeOK
<1>4. \A v \in Workers : v # w /\ sub_map[v][id] # Nil /\ ~Missed(id) => DelPending(v, id)
  <2>1. \A v \in Workers : v < t.j
    BY SMTT(30), <1>1, WorkersAssumption DEF Workers
  <2>. QED  BY <1>1, <1>2, <2>1 DEF DuplicateInv, Scanned
<1>5. \A v \in Workers : v # w => task'[v] = task[v]
  BY <1>1 DEF TypeOK
<1>6. task'[w].op # "login"
  BY <1>1 DEF Idle, TypeOK
<1>7. DuplicateIsTransient'
  <2> SUFFICES ASSUME NEW u \in Workers, NEW v \in Workers, NEW i \in Ids, u # v,
                      sub_map'[u][i] # Nil, sub_map'[v][i] # Nil, ~Missed(i)
               PROVE  DelPending(u, i) \/ DelPending(v, i)
    BY SMT, <1>1 DEF DuplicateIsTransient, DelPending, Missed
  <2>1. CASE i = id /\ (u = w \/ v = w)
    BY <1>3, <1>4, <2>1
  <2>2. CASE ~(i = id /\ (u = w \/ v = w))
    BY <1>3, <2>2 DEF DuplicateInv, DuplicateIsTransient
  <2>. QED  BY <2>1, <2>2
<1>8. Scanned'
  <2>1. SUFFICES ASSUME NEW u \in Workers, NEW v \in Workers,
                        task'[u].op = "login", v # u, v < task'[u].j,
                        sub_map'[v][task'[u].id] # Nil, ~Missed(task[u].id)'
                 PROVE  DelPending(v, task[u].id)'
    BY DEF Scanned
  <2>2. u # w /\ task'[u] = task[u] /\ task[u].id \in Ids
    BY <1>5, <1>6, <2>1, LoginFields
  <2>3. ~Missed(task[u].id)
    BY SMT, <1>1, <2>1, <2>2 DEF Missed
  <2>4. task[u].id # id
    BY <1>1, <1>2, <2>1, <2>2, <2>3 DEF DuplicateInv, Alone
  <2>5. sub_map[v][task[u].id] # Nil
    BY <1>3, <2>1, <2>2, <2>4
  <2>6. DelPending(v, task[u].id)
    BY <2>1, <2>2, <2>3, <2>5 DEF DuplicateInv, Scanned
  <2>. QED  BY <1>1, <2>2, <2>6 DEF DelPending
<1>9. Alone'
  BY SMT, <1>1, <1>5, <1>6 DEF DuplicateInv, Alone, Missed
<1>. QED  BY <1>7, <1>8, <1>9 DEF DuplicateInv

-----------------------------------------------------------------------------
\* The inductive step, one case per action.
LEMMA DuplicateStep ==
  ASSUME TypeOK, DuplicateInv, [Next]_vars
  PROVE  DuplicateInv'
<1>1. CASE Client
  BY <1>1, CalmClient, CalmStep
<1>2. CASE Http
  BY <1>2, CalmHttp, CalmStep, StartStep
<1>3. ASSUME NEW w \in Workers, RedisReply(w) PROVE DuplicateInv'
  BY <1>3, CalmRedis, CalmStep, StartStep
<1>4. ASSUME NEW w \in Workers, del_expire_client(w) PROVE DuplicateInv'
  BY <1>4, CalmExpire, CalmStep
<1>5. ASSUME NEW w \in Workers, Loop(w) PROVE DuplicateInv'
  <2>1. CASE settle(w) \/ racing_find(w)
    BY <2>1, CalmTask, CalmStep DEF settle, racing_find, LoginsStay
  <2>2. CASE finish_notify(w)
    <3>1. Idle.op # "login" /\ task' = [task EXCEPT ![w] = Idle]
      BY <2>2 DEF Idle, finish_notify
    <3>2. LoginsStay
      BY <3>1, StayTask
    <3>. QED  BY <2>2, <3>2, CalmTask, CalmStep DEF finish_notify
  <2>. QED
    BY <1>5, <2>1, <2>2, CalmStep, CalmNewMsg, CalmFriend, CalmCallback, LoopStep, FinishStep DEF Loop
<1>6. CASE UNCHANGED vars
  BY <1>6, CalmTask, CalmStep DEF LoginsStay
<1>. QED  BY <1>1, <1>2, <1>3, <1>4, <1>5, <1>6 DEF Next

\* No login has started.
LEMMA DuplicateInit == Init => DuplicateInv
<1>1. SUFFICES ASSUME Init PROVE DuplicateInv
  OBVIOUS
<1>2. sub_map = [w \in Workers |-> [i \in Ids |-> Nil]] /\ task = [w \in Workers |-> Idle]
  BY <1>1 DEF Init
<1>3. \A w \in Workers : task[w].op # "login" /\ \A id \in Ids : sub_map[w][id] = Nil
  BY <1>2 DEF Idle
<1>. QED  BY <1>3 DEF DuplicateInv, DuplicateIsTransient, Scanned, Alone

\* For any number of workers, clients and ids: whenever an id is logged in on two
\* workers, a deletion that notify_del_id wrote is on its way to one of them,
\* unless two logins of the id were completed at the same time, a lookup raced
\* with a change of the map, or a pipe was full.
THEOREM DuplicatesAreTransient == Spec => []DuplicateIsTransient
<1>1. Init => DuplicateInv
  BY DuplicateInit
<1>2. TypeOK /\ DuplicateInv /\ [Next]_vars => DuplicateInv'
  BY DuplicateStep
<1>3. DuplicateInv => DuplicateIsTransient
  BY DEF DuplicateInv
<1>. QED  BY <1>1, <1>2, <1>3, TypeCorrect, PTL DEF Spec

-----------------------------------------------------------------------------
(* The registry.                                                            *)

HIDE DEF registry, pending, running, client, vars

Doomed == {x \in Workers \X Ids : DelPending(x[1], x[2])}
Excused == {id \in Ids : Missed(id)}

\* A step of the registry, or none.
RegStep == [Reg!Next]_(Reg!vars)

\* Misses and overlaps stay on record.
LEMMA MoreExcused ==
  ASSUME missed \subseteq missed'
  PROVE  \E more \in SUBSET Ids : Excused' = Excused \cup more
<1>1. Excused \subseteq Excused' /\ Excused' \subseteq Ids
  BY DEF Excused, Missed
<1>2. Excused' = Excused \cup Excused' /\ Excused' \in SUBSET Ids
  BY <1>1
<1>. QED  BY <1>2

\* Nothing happens to the logins and the deletions.
LEMMA StepExcuse ==
  ASSUME UNCHANGED <<sub_map, Doomed>>, missed \subseteq missed'
  PROVE  RegStep
BY MoreExcused DEF RegStep, Reg!Next, Reg!Excuse, Doomed, Excused

\* Logins of one worker go, and with one of them perhaps its deletion.
LEMMA StepLogOut ==
  ASSUME NEW w \in Workers, NEW gone \in SUBSET Ids,
         sub_map' = [sub_map EXCEPT ![w] = [i \in Ids |-> IF i \in gone THEN Nil ELSE @[i]]],
         UNCHANGED Doomed
           \/ \E id \in Ids : sub_map'[w][id] = Nil /\ Doomed' = Doomed \ {<<w, id>>},
         missed \subseteq missed'
  PROVE  RegStep
<1>1. Reg!LogOut(w)
  BY DEF Reg!LogOut, Doomed
<1>2. Reg!Excuse
  BY MoreExcused DEF Reg!Excuse, Excused
<1>. QED  BY <1>1, <1>2 DEF RegStep, Reg!Next

\* A login is forgotten.
LEMMA StepForget ==
  ASSUME TypeOK, NEW w \in Workers, NEW id \in Ids, sub_map' = [sub_map EXCEPT ![w][id] = Nil],
         UNCHANGED Doomed \/ Doomed' = Doomed \ {<<w, id>>},
         missed \subseteq missed'
  PROVE  RegStep
<1>1. PICK gone \in SUBSET Ids : gone = {id}
  OBVIOUS
<1>2. sub_map' = [sub_map EXCEPT ![w] = [i \in Ids |-> IF i \in gone THEN Nil ELSE @[i]]]
  BY <1>1 DEF TypeOK
<1>3. sub_map'[w][id] = Nil
  BY DEF TypeOK
<1>. QED  BY <1>2, <1>3, StepLogOut

\* A deletion goes on its way.
LEMMA StepDoom ==
  ASSUME NEW w \in Workers, NEW id \in Ids, UNCHANGED <<sub_map, missed>>,
         Doomed' = Doomed \cup {<<w, id>>}
  PROVE  RegStep
<1>1. Excused' = Excused
  BY DEF Excused, Missed
<1>2. Reg!Doom(w, id)
  BY <1>1 DEF Reg!Doom, Doomed, Excused
<1>. QED  BY <1>2 DEF RegStep, Reg!Next

\* A login is registered.
LEMMA StepLogIn ==
  ASSUME NEW w \in Workers, NEW id \in Ids, NEW b \in Bevs, UNCHANGED <<pipe, missed>>,
         sub_map[w][id] = Nil, sub_map' = [sub_map EXCEPT ![w][id] = b],
         \A v \in Workers \ {w} : sub_map[v][id] # Nil => DelPending(v, id) \/ Missed(id)
  PROVE  RegStep
<1>1. UNCHANGED <<Doomed, Excused>>
  BY DEF Doomed, Excused, DelPending, Missed
<1>2. \A v \in Workers \ {w} : sub_map[v][id] # Nil => <<v, id>> \in Doomed \/ id \in Excused
  BY DEF Doomed, Excused
<1>3. Reg!LogIn(w, id, b)
  BY <1>1, <1>2 DEF Reg!LogIn, Doomed, Excused
<1>. QED  BY <1>3 DEF RegStep, Reg!Next

-----------------------------------------------------------------------------
(* What the writes and reads of the pipes do to the deletions.              *)

\* Pipes that are left alone.
LEMMA DoomedKept ==
  ASSUME UNCHANGED pipe
  PROVE  UNCHANGED Doomed
BY DEF Doomed, DelPending

\* What is doomed, pair by pair, in this state and in the next.
LEMMA DoomedPairs ==
  /\ Doomed \subseteq Workers \X Ids /\ Doomed' \subseteq Workers \X Ids
  /\ \A v \in Workers, id \in Ids : <<v, id>> \in Doomed <=> DelPending(v, id)
  /\ \A v \in Workers, id \in Ids : <<v, id>> \in Doomed' <=> DelPending(v, id)'
BY DEF Doomed, DelPending

\* Deletions that stay as they are.
LEMMA DoomedSame ==
  ASSUME \A v \in Workers, id \in Ids : DelPending(v, id)' <=> DelPending(v, id)
  PROVE  UNCHANGED Doomed
BY SMT, DoomedPairs

\* At most one deletion goes.
LEMMA DoomedLess ==
  ASSUME NEW u \in Workers, NEW id \in Ids,
         \A v \in Workers, i \in Ids : DelPending(v, i)' => DelPending(v, i),
         \A v \in Workers, i \in Ids : DelPending(v, i) /\ ~(v = u /\ i = id) => DelPending(v, i)'
  PROVE  UNCHANGED Doomed \/ Doomed' = Doomed \ {<<u, id>>}
<1>1. CASE DelPending(u, id)'
  <2>1. \A v \in Workers, i \in Ids : DelPending(v, i)' <=> DelPending(v, i)
    BY <1>1
  <2>. QED  BY <2>1, DoomedSame
<1>2. CASE ~DelPending(u, id)'
  BY SMT, <1>2, DoomedPairs
<1>. QED  BY <1>1, <1>2

Holds(s, d) == \E k \in DOMAIN s : s[k] = d

\* What a pipe holds after a message is written to it, or read from it.
LEMMA HoldsAppend ==
  ASSUME NEW s \in Seq(Msg), NEW m \in Msg, NEW d
  PROVE  Holds(Append(s, m), d) <=> Holds(s, d) \/ d = m
<1>1. /\ DOMAIN Append(s, m) = DOMAIN s \cup {Len(s) + 1}
      /\ Append(s, m)[Len(s) + 1] = m
      /\ \A k \in DOMAIN s : Append(s, m)[k] = s[k]
  BY SMTT(30)
<1>. QED  BY <1>1 DEF Holds

\* A read takes nothing but the head off the pipe.
LEMMA HoldsTail ==
  ASSUME NEW s \in Seq(Msg), s # << >>, NEW d
  PROVE  /\ Holds(Tail(s), d) => Holds(s, d)
         /\ Holds(s, d) => Holds(Tail(s), d) \/ d = Head(s)
<1>1. Holds(Tail(s), d) => Holds(s, d)
  BY SMTT(30) DEF Holds
<1>2. ASSUME NEW k \in DOMAIN s, s[k] = d, d # Head(s) PROVE Holds(Tail(s), d)
  <2>1. k - 1 \in DOMAIN Tail(s) /\ Tail(s)[k - 1] = d
    BY SMTT(30), <1>2
  <2>. QED  BY <2>1 DEF Holds
<1>. QED  BY <1>1, <1>2 DEF Holds

\* A deletion is pending where the pipe holds it.
LEMMA PendingHeld ==
  ASSUME NEW v, NEW id
  PROVE  (DelPending(v, id) <=> Holds(pipe[v], DelMsg(id)))
         /\ (DelPending(v, id)' <=> Holds(pipe'[v], DelMsg(id)))
BY DEF DelPending, Holds

\* A message is written: if it is a deletion, that is the only one that is new.
LEMMA DoomedAppend ==
  ASSUME TypeOK, NEW u \in Workers, NEW m \in Msg, pipe' = [pipe EXCEPT ![u] = Append(@, m)]
  PROVE  /\ (\A id \in Ids : m # DelMsg(id)) => UNCHANGED Doomed
         /\ \A id \in Ids : m = DelMsg(id) => Doomed' = Doomed \cup {<<u, id>>}
<1>1. pipe[u] \in Seq(Msg) /\ pipe'[u] = Append(pipe[u], m)
      /\ \A v \in Workers : v # u => pipe'[v] = pipe[v]
  BY DEF TypeOK
<1>2. \A v \in Workers, id \in Ids :
        DelPending(v, id)' <=> DelPending(v, id) \/ (v = u /\ m = DelMsg(id))
  <2>1. ASSUME NEW v \in Workers, v # u, NEW id \in Ids PROVE DelPending(v, id)' <=> DelPending(v, id)
    BY <1>1, <2>1 DEF DelPending
  <2>2. ASSUME NEW id \in Ids PROVE DelPending(u, id)' <=> DelPending(u, id) \/ m = DelMsg(id)
    BY SMT, <1>1, HoldsAppend, PendingHeld
  <2>. QED  BY <2>1, <2>2
<1>3. \A id \in Ids : DelMsg(id).kind = "del" /\ DelMsg(id).to = id
  BY DEF DelMsg
<1>4. (\A id \in Ids : m # DelMsg(id)) => UNCHANGED Doomed
  BY <1>2, DoomedSame
<1>5. ASSUME NEW id \in Ids, m = DelMsg(id) PROVE Doomed' = Doomed \cup {<<u, id>>}
  <2>1. \A v \in Workers, i \in Ids : DelPending(v, i)' <=> DelPending(v, i) \/ (v = u /\ i = id)
    BY <1>2, <1>3, <1>5
  <2>. QED  BY SMT, <2>1, DoomedPairs
<1>. QED  BY <1>4, <1>5

\* The first message is read: no more than its own deletion goes.
LEMMA DoomedTail ==
  ASSUME TypeOK, NEW u \in Workers, pipe[u] # << >>, pipe' = [pipe EXCEPT ![u] = Tail(@)]
  PROVE  /\ Head(pipe[u]).kind # "del" => UNCHANGED Doomed
         /\ \A id \in Ids : Head(pipe[u]).to = id =>
              UNCHANGED Doomed \/ Doomed' = Doomed \ {<<u, id>>}
<1>1. pipe[u] \in Seq(Msg) /\ pipe'[u] = Tail(pipe[u])
      /\ \A v \in Workers : v # u => pipe'[v] = pipe[v]
  BY DEF TypeOK
<1> DEFINE m == Head(pipe[u])
<1>2. /\ \A v \in Workers, id \in Ids : DelPending(v, id)' => DelPending(v, id)
      /\ \A v \in Workers, id \in Ids :
           DelPending(v, id) /\ ~(v = u /\ m = DelMsg(id)) => DelPending(v, id)'
  <2>1. ASSUME NEW v \in Workers, v # u, NEW id \in Ids PROVE DelPending(v, id)' <=> DelPending(v, id)
    BY <1>1, <2>1 DEF DelPending
  <2>2. ASSUME NEW id \in Ids
        PROVE  /\ DelPending(u, id)' => DelPending(u, id)
               /\ DelPending(u, id) /\ m # DelMsg(id) => DelPending(u, id)'
    BY SMT, <1>1, HoldsTail, PendingHeld
  <2>. QED  BY <2>1, <2>2
<1> HIDE DEF m
<1>3. \A id \in Ids : DelMsg(id).kind = "del" /\ DelMsg(id).to = id
  BY DEF DelMsg
<1>4. m.kind # "del" => UNCHANGED Doomed
  BY <1>2, <1>3, DoomedSame
<1>5. ASSUME NEW id \in Ids, m.to = id
      PROVE  UNCHANGED Doomed \/ Doomed' = Doomed \ {<<u, id>>}
  <2>1. \A v \in Workers, i \in Ids : DelPending(v, i) /\ ~(v = u /\ i = id) => DelPending(v, i)'
    BY <1>2, <1>3, <1>5
  <2>. QED  BY <1>2, <2>1, DoomedLess
<1>. QED  BY <1>4, <1>5 DEF m

-----------------------------------------------------------------------------
(* The actions.                                                             *)

USE DEF registry, pending, running, client, vars

\* Most of what clients do leaves the registry alone; a close is a logout.
LEMMA RegClient ==
  ASSUME TypeOK, Client
  PROVE  RegStep
<1>1. UNCHANGED <<sub_map, pipe, missed>> => RegStep
  BY DoomedKept, StepExcuse
<1>2. ASSUME NEW c \in Conns, bufferevent_event_callback(c) PROVE RegStep
  <2> DEFINE w == home[c].w
             id == bev_id[w][home[c].bev]
  <2>1. w \in Workers
    BY <1>2, BevsAssumption DEF TypeOK, bufferevent_event_callback, Open
  <2> HIDE DEF w
  <2>2. /\ UNCHANGED <<pipe, missed>>
        /\ \/ id \in Ids /\ sub_map' = [sub_map EXCEPT ![w][id] = Nil]
           \/ sub_map' = sub_map
    BY <1>2 DEF bufferevent_event_callback, forget_id, w
  <2>3. UNCHANGED Doomed
    BY <2>2, DoomedKept
  <2>. QED  BY <1>1, <2>1, <2>2, <2>3, StepForget
<1>3. ASSUME ~\E c \in Conns : bufferevent_event_callback(c) PROVE UNCHANGED <<sub_map, pipe, missed>>
  BY <1>3
     DEF Client, read_heartbeat, new_connection, read_login, read_trans, heartbeat_missed
<1>. QED  BY <1>1, <1>2, <1>3

\* Dropping silent clients is a logout.
LEMMA RegExpire ==
  ASSUME NEW w \in Workers, del_expire_client(w)
  PROVE  RegStep
<1>1. PICK gone \in SUBSET Ids :
        sub_map' = [sub_map EXCEPT ![w] = [i \in Ids |-> IF i \in gone THEN Nil ELSE @[i]]]
  <2> DEFINE expired == {i \in late[w] : sub_map[w][i] # Nil /\ \E b \in Bevs : bev_id[w][b] = i}
             out(S) == [sub_map EXCEPT ![w] = [i \in Ids |-> IF i \in S THEN Nil ELSE @[i]]]
  <2>1. sub_map' = out(expired)
    BY DEF del_expire_client
  <2>2. out(expired) = out(expired \cap Ids) /\ expired \cap Ids \in SUBSET Ids
    OBVIOUS
  <2>. QED  BY <2>1, <2>2
<1>2. UNCHANGED <<pipe, missed>>
  BY DEF del_expire_client
<1>. QED  BY <1>1, <1>2, DoomedKept, StepLogOut

\* The start of a login ends the worker's earlier one.
LEMMA RegStart ==
  ASSUME TypeOK, NEW w \in Workers, NEW d \in LoginData, NEW self \in BOOLEAN,
         start_login(w, d, self), UNCHANGED pipe
  PROVE  RegStep
<1>1. d.id \in Ids
  BY DEF LoginData
<1>2. sub_map' = [sub_map EXCEPT ![w][d.id] = Nil] /\ missed \subseteq missed'
  BY DEF start_login, displace_local, forget_id
<1>. QED  BY <1>1, <1>2, DoomedKept, StepForget

\* Answers of Redis and of the HTTP server start a login, or change nothing.
LEMMA RegAnswer ==
  ASSUME TypeOK, Http \/ \E w \in Workers : RedisReply(w)
  PROVE  RegStep
<1>1. \/ UNCHANGED <<sub_map, pipe, missed>>
      \/ \E w \in Workers, d \in LoginData, self \in BOOLEAN :
           start_login(w, d, self) /\ UNCHANGED pipe
  <2>1. ASSUME NEW h \in http_login,
               http_login_connected(h) \/ http_login_event(h) \/ http_login_read(h)
        PROVE  \/ UNCHANGED <<sub_map, pipe, missed>>
               \/ \E w \in Workers, d \in LoginData, self \in BOOLEAN :
                    start_login(w, d, self) /\ UNCHANGED pipe
    <3>1. h.w \in Workers /\ h.data \in LoginData
      BY DEF TypeOK
    <3>2. \/ UNCHANGED <<sub_map, pipe, missed>>
          \/ start_login(h.w, h.data, TRUE) /\ UNCHANGED pipe
      BY <2>1 DEF http_login_connected, http_login_event, http_login_read
    <3>. QED  BY <3>1, <3>2
  <2>2. ASSUME NEW h \in http_trans,
               http_trans_connected(h) \/ http_trans_event(h) \/ http_trans_read(h)
        PROVE  UNCHANGED <<sub_map, pipe, missed>>
    BY <2>2 DEF http_trans_connected, http_trans_event, http_trans_read
  <2>3. ASSUME NEW w \in Workers, redis_login_callback(w)
        PROVE  \/ UNCHANGED <<sub_map, pipe, missed>>
               \/ \E d \in LoginData, self \in BOOLEAN : start_login(w, d, self) /\ UNCHANGED pipe
    <3>1. Head(redisq[w]) \in Command
      <4>1. redisq[w] \in Seq(Command) /\ redisq[w] # << >>
        BY <2>3 DEF redis_login_callback, TypeOK
      <4>. QED  BY <4>1, HeadTail
    <3>2. Head(redisq[w]).data \in LoginData
      BY <2>3, <3>1, CommandFields DEF redis_login_callback
    <3>3. \/ UNCHANGED <<sub_map, pipe, missed>>
          \/ start_login(w, Head(redisq[w]).data, FALSE) /\ UNCHANGED pipe
      BY <2>3 DEF redis_login_callback
    <3>. QED  BY <3>2, <3>3
  <2>4. ASSUME NEW w \in Workers, redis_trans_callback(w) \/ redis_friend_list(w)
        PROVE  UNCHANGED <<sub_map, pipe, missed>>
    BY <2>4 DEF redis_trans_callback, redis_friend_list
  <2>. QED  BY <2>1, <2>2, <2>3, <2>4 DEF Http, RedisReply
<1>. QED  BY <1>1, DoomedKept, StepExcuse, RegStart

\* A message is written to a pipe, and if it is a deletion its id is doomed; or
\* none is.
LEMMA RegWrite ==
  ASSUME TypeOK, UNCHANGED sub_map, missed \subseteq missed',
         \/ UNCHANGED pipe
         \/ UNCHANGED missed /\ \E u \in Workers, m \in Msg : pipe' = [pipe EXCEPT ![u] = Append(@, m)]
  PROVE  RegStep
<1>1. CASE UNCHANGED pipe
  BY <1>1, DoomedKept, StepExcuse
<1>2. ASSUME UNCHANGED missed, NEW u \in Workers, NEW m \in Msg,
             pipe' = [pipe EXCEPT ![u] = Append(@, m)]
      PROVE  RegStep
  <2>1. \/ UNCHANGED Doomed
        \/ \E id \in Ids : Doomed' = Doomed \cup {<<u, id>>}
    BY <1>2, DoomedAppend
  <2>. QED  BY <1>2, <2>1, StepExcuse, StepDoom
<1>. QED  BY <1>1, <1>2

\* notify_del_id writes a deletion, or leaves the pipes alone.
LEMMA RegDelete ==
  ASSUME TypeOK, NEW w \in Workers, notify_del_id(w)
  PROVE  RegStep
<1> DEFINE t == task[w]
<1>1. t.id \in Ids /\ t.j \in Nat /\ t.j < NumWorkers /\ sub_map' = sub_map
  BY LoginFields DEF notify_del_id
<1>2. t.j \in Workers
  BY SMT, <1>1, WorkersAssumption DEF Workers
<1>3. DelMsg(t.id) \in Msg
  BY <1>1 DEF DelMsg, Msg
<1>4. \/ pipe' = [pipe EXCEPT ![t.j] = Append(@, DelMsg(t.id))] /\ missed' = missed
      \/ pipe' = pipe /\ missed \subseteq missed'
  BY DEF notify_del_id
<1>. QED  BY <1>1, <1>2, <1>3, <1>4, RegWrite

\* A login is registered when every other worker that has the id has been asked to
\* delete it, unless the id is excused: that is what the loop has seen to (Scanned).
LEMMA RegFinish ==
  ASSUME TypeOK, DuplicateInv, NEW w \in Workers, finish_login(w)
  PROVE  RegStep
<1> DEFINE t == task[w]
<1>1. /\ t.op = "login" /\ t \in LoginTask /\ t.j = NumWorkers /\ UNCHANGED <<pipe, missed>>
      /\ sub_map' = [sub_map EXCEPT ![w][t.id] = IF @ = Nil THEN t.bev ELSE @]
  BY LoginFields DEF finish_login
<1>2. PICK id \in Ids, b \in Bevs : id = t.id /\ b = t.bev
  BY <1>1 DEF LoginTask
<1>3. \A v \in Workers \ {w} : sub_map[v][id] # Nil => DelPending(v, id) \/ Missed(id)
  <2>1. \A v \in Workers : v < t.j
    BY SMTT(30), <1>1, WorkersAssumption DEF Workers
  <2>. QED  BY <1>1, <1>2, <2>1 DEF DuplicateInv, Scanned
<1>4. CASE sub_map[w][id] = Nil
  <2>1. sub_map' = [sub_map EXCEPT ![w][id] = b]
    BY <1>1, <1>2, <1>4 DEF TypeOK
  <2>. QED  BY <1>1, <1>3, <1>4, <2>1, StepLogIn
<1>5. CASE sub_map[w][id] # Nil
  <2>1. sub_map' = sub_map
    BY <1>1, <1>2, <1>5 DEF TypeOK
  <2>. QED  BY <1>1, <2>1, RegWrite
<1>. QED  BY <1>4, <1>5

\* Relaying a message to the next worker.
LEMMA RegRelay ==
  ASSUME TypeOK, NEW w \in Workers, notify_new_msg(w)
  PROVE  RegStep
<1> DEFINE t == task[w]
<1>1. t \in SendTask
  BY TaskFields DEF TypeOK, notify_new_msg
<1>2. t.msg \in Msg /\ t.j \in 0 .. NumWorkers
  BY <1>1 DEF SendTask
<1>3. /\ sub_map' = sub_map /\ missed \subseteq missed'
      /\ \/ pipe' = pipe
         \/ t.j < NumWorkers /\ missed' = missed /\ pipe' = [pipe EXCEPT ![t.j] = Append(@, t.msg)]
  BY DEF notify_new_msg
<1>4. t.j < NumWorkers => t.j \in Workers
  BY SMT, <1>2, WorkersAssumption DEF Workers
<1>. QED  BY <1>2, <1>3, <1>4, RegWrite

\* Telling the next friend.
LEMMA RegFriend ==
  ASSUME TypeOK, NEW w \in Workers, notify_friend(w)
  PROVE  RegStep
<1> DEFINE t == task[w]
           note == [kind |-> t.kind, from |-> t.id, to |-> Head(t.todo), n |-> 0]
<1>1. /\ t.j \in 0 .. NumWorkers /\ t.id \in Ids /\ t.kind \in {"online", "offline"}
      /\ t.todo \in Seq(Ids) /\ t.todo # << >>
  <2>1. t.op = "notify" /\ t \in Task
    BY DEF notify_friend, TypeOK
  <2>. QED  BY <2>1, TaskFields DEF NotifyTask, notify_friend
<1>2. Head(t.todo) \in Ids
  BY SMT, <1>1
<1>3. note \in Msg
  BY <1>1, <1>2 DEF Msg
<1>4. /\ sub_map' = sub_map /\ missed \subseteq missed'
      /\ \/ pipe' = pipe
         \/ t.j < NumWorkers /\ missed' = missed /\ pipe' = [pipe EXCEPT ![t.j] = Append(@, note)]
  BY DEF notify_friend
<1>5. t.j < NumWorkers => t.j \in Workers
  BY SMT, <1>1, WorkersAssumption DEF Workers
<1>. QED  BY <1>3, <1>4, <1>5, RegWrite

\* Reading a message: a deletion ends the login it names, and is no longer on its way.
LEMMA RegRead ==
  ASSUME TypeOK, NEW w \in Workers, notify_new_msg_callback(w)
  PROVE  RegStep
<1> DEFINE m == Head(pipe[w])
<1>1. m \in Msg /\ pipe[w] # << >>
  BY HeadTail DEF TypeOK, notify_new_msg_callback
<1>2. m.to \in Ids
  BY <1>1 DEF Msg
<1>3. pipe' = [pipe EXCEPT ![w] = Tail(@)] /\ missed' = missed
  BY DEF notify_new_msg_callback
<1>4. \/ m.kind # "del" /\ sub_map' = sub_map
      \/ sub_map' = [sub_map EXCEPT ![w][m.to] = Nil]
  BY DEF notify_new_msg_callback, delete_old_login, forget_id
<1>5. /\ m.kind # "del" => UNCHANGED Doomed
      /\ UNCHANGED Doomed \/ Doomed' = Doomed \ {<<w, m.to>>}
  BY <1>1, <1>2, <1>3, DoomedTail
<1>. QED  BY <1>2, <1>3, <1>4, <1>5, StepExcuse, StepForget

\* Every step of the workers is a step of the registry, or none.
LEMMA RegistryStep ==
  ASSUME TypeOK, DuplicateInv, [Next]_vars
  PROVE  RegStep
<1>1. UNCHANGED <<sub_map, pipe, missed>> => RegStep
  BY DoomedKept, StepExcuse
<1>2. ASSUME NEW w \in Workers, Loop(w) PROVE RegStep
  <2>1. settle(w) \/ finish_notify(w) \/ racing_find(w) => UNCHANGED <<sub_map, pipe, missed>>
    BY DEF settle, finish_notify, racing_find
  <2>. QED
    BY <1>1, <1>2, <2>1, RegDelete, RegFinish, RegRelay, RegFriend, RegRead DEF Loop
<1>3. UNCHANGED vars => UNCHANGED <<sub_map, pipe, missed>>
  OBVIOUS
<1>. QED  BY <1>1, <1>2, <1>3, RegClient, RegAnswer, RegExpire DEF Next

-----------------------------------------------------------------------------
\* For any number of workers, clients and ids: the workers of work_thread.cc, with
\* no lock between them, implement the registry of logins.  No worker registers an
\* id another one has unless that one's deletion is in its pipe, and a deletion
\* leaves the pipe only when the login it is for has gone.
THEOREM WorkersImplementRegistry == Spec => ImplementsRegistry
<1>1. Init => Reg!Init
  <2> SUFFICES ASSUME Init PROVE Reg!Init
    OBVIOUS
  <2>1. /\ sub_map = [w \in Workers |-> [i \in Ids |-> Nil]]
        /\ pipe = [w \in Workers |-> << >>] /\ missed = {}
    BY DEF Init
  <2>2. Doomed = {} /\ Excused = {}
    BY SMT, <2>1 DEF Doomed, DelPending, Excused, Missed
  <2>. QED  BY <2>1, <2>2 DEF Reg!Init, Doomed, Excused
<1>2. Init => DuplicateInv
  BY DuplicateInit
<1>3. TypeOK /\ DuplicateInv /\ [Next]_vars => DuplicateInv'
  BY DuplicateStep
<1>4. TypeOK /\ DuplicateInv /\ [Next]_vars => [Reg!Next]_(Reg!vars)
  BY RegistryStep DEF RegStep
<1>. QED  BY <1>1, <1>2, <1>3, <1>4, TypeCorrect, PTL DEF Spec, ImplementsRegistry, Reg!Spec

\* The registry is worth implementing: its rule on logins alone keeps an id from
\* being logged in on two workers with no deletion on its way to either.
THEOREM RegistryKeepsIdsApart == ImplementsRegistry => []DuplicateIsTransient
<1> DEFINE Online == sub_map \in [Workers -> [Ids -> Bevs \cup {Nil}]]
<1>1. Reg!Init => Online /\ Reg!Unique
  BY SMT DEF Reg!Init, Reg!Unique
<1>2. Online /\ Reg!Unique /\ [Reg!Next]_(Reg!vars) => Online' /\ Reg!Unique'
  <2> SUFFICES ASSUME Online, Reg!Unique, [Reg!Next]_(Reg!vars) PROVE Online' /\ Reg!Unique'
    OBVIOUS
  <2>1. ASSUME NEW w \in Workers, NEW id \in Ids, Reg!Doom(w, id) PROVE Online' /\ Reg!Unique'
    BY <2>1 DEF Reg!Doom, Reg!Unique
  <2>2. ASSUME NEW w \in Workers, NEW id \in Ids, NEW b \in Bevs, Reg!LogIn(w, id, b)
        PROVE  Online' /\ Reg!Unique'
    <3>1. \A v \in Workers, i \in Ids : sub_map'[v][i] = IF v = w /\ i = id THEN b ELSE sub_map[v][i]
      BY <2>2 DEF Reg!LogIn
    <3>2. Online'
      BY <2>2 DEF Reg!LogIn
    <3>3. Reg!Unique'
      BY SMT, <2>2, <3>1 DEF Reg!LogIn, Reg!Unique
    <3>. QED  BY <3>2, <3>3
  <2>3. ASSUME NEW w \in Workers, Reg!LogOut(w), Reg!Excuse PROVE Online' /\ Reg!Unique'
    <3>1. PICK gone \in SUBSET Ids :
            sub_map' = [sub_map EXCEPT ![w] = [i \in Ids |-> IF i \in gone THEN Nil ELSE @[i]]]
      BY <2>3 DEF Reg!LogOut
    <3>2. Online' /\ \A v \in Workers, i \in Ids : sub_map'[v][i] # Nil => sub_map'[v][i] = sub_map[v][i]
      BY <3>1
    <3>3. Reg!Unique'
      BY SMT, <2>3, <3>2 DEF Reg!LogOut, Reg!Excuse, Reg!Unique
    <3>. QED  BY <3>2, <3>3
  <2>4. ASSUME Reg!Excuse, UNCHANGED <<sub_map, Doomed>> PROVE Online' /\ Reg!Unique'
    BY <2>4 DEF Reg!Excuse, Reg!Unique, Doomed
  <2>5. CASE UNCHANGED Reg!vars
    BY <2>5 DEF Reg!vars, Reg!Unique
  <2>. QED  BY <2>1, <2>2, <2>3, <2>4, <2>5 DEF Reg!Next, Doomed
<1>3. Reg!Unique => DuplicateIsTransient
  BY DEF DuplicateIsTransient, Reg!Unique
<1>. QED  BY <1>1, <1>2, <1>3, PTL DEF ImplementsRegistry, Reg!Spec
=============================================================================
