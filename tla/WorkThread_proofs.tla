------------------------- MODULE WorkThread_proofs -------------------------
(* Type correctness of WorkThread: what clients start (they connect, close, *)
(* beat, log in, send) and the checks a login goes through; then what the   *)
(* workers do for one another and the callbacks that end a request.  Then   *)
(* the connections of one id on one worker, and lemmas that the proofs      *)
(* about WorkThread share: on queues, and on steps that concern no login.   *)
(* All for any number of workers, connections, ids and addresses.           *)
EXTENDS WorkThread, TLAPS

\* Zenon proves the leaves that name no other prover.
USE Zenon

\* A task is a record with the fields its operation calls for.
LEMMA TaskFields ==
  ASSUME NEW t \in Task
  PROVE  /\ t.op = "login" => t \in LoginTask
         /\ t.op = "send" => t \in SendTask
         /\ t.op = "notify" =>
              \/ t.kind = "online" /\ t \in NotifyTask("online", Bevs)
              \/ t.kind = "offline" /\ t \in NotifyTask("offline", {Nil})
BY SMT DEF Task, Idle, Drain, LoginTask, SendTask, NotifyTask

\* A command is a record with the fields its callback calls for.
LEMMA CommandFields ==
  ASSUME NEW q \in Command
  PROVE  /\ q.cb = "login" => q.data \in LoginData
         /\ q.cb = "trans" => q.msg \in Msg
         /\ q.cb = "online" => q.id \in Ids /\ q.bev \in Bevs
         /\ q.cb = "offline" => q.id \in Ids
BY DEF Command

\* What is at the head of a non-empty queue, and what is left of it.
LEMMA HeadTail ==
  ASSUME NEW S, NEW q \in Seq(S), q # << >>
  PROVE  Head(q) \in S /\ Tail(q) \in Seq(S)
BY SMT

\* The maps, pipes and counters a worker starts with are well typed.
LEMMA InitType == Init => TypeOK
<1>1. Idle \in Task
  BY DEF Task
<1>2. << >> \in Seq(Msg) /\ << >> \in Seq(Command) /\ << >> \in Seq(Ids) /\ << >> \in Seq(Conns)
      /\ << >> \in Seq({"ok", "fail"}) /\ << >> \in Seq(Msg \cup FriendReport)
  BY SMT
<1>3. SUFFICES ASSUME Init PROVE TypeOK
  OBVIOUS
<1>4. home \in [Conns -> [w: Workers, bev: Bevs] \cup {Nil}] /\ at \in [Bevs -> Conns \cup {Nil}]
  BY <1>3 DEF Init
<1>5. bev_id \in [Workers -> [Bevs -> Ids \cup {NoId, Nil}]]
      /\ sub_map \in [Workers -> [Ids -> Bevs \cup {Nil}]]
  BY <1>3 DEF Init
<1>6. late \in [Workers -> SUBSET Ids] /\ conn_num \in [Workers -> Int]
      /\ touching \in [Workers -> SUBSET Ids] /\ task \in [Workers -> Task]
  BY SMT, <1>1, <1>3 DEF Init
<1>7. pipe \in [Workers -> Seq(Msg)] /\ redisq \in [Workers -> Seq(Command)]
      /\ claimed \in [Conns -> Seq(Ids)] /\ replies \in [Conns -> Seq({"ok", "fail"})]
      /\ inbox \in [Conns -> Seq(Msg \cup FriendReport)] /\ sender \in Seq(Conns)
  BY <1>2, <1>3 DEF Init
<1>. QED  BY <1>3, <1>4, <1>5, <1>6, <1>7 DEF Init, TypeOK

USE DEF registry, pending, running, client, vars

\* Asking Redis, dropping a Subscriber and closing a bufferevent keep the types.
LEMMA AskType ==
  ASSUME TypeOK, NEW w \in Workers, NEW cmd \in Command, Ask(w, cmd)
  PROVE  redisq' \in [Workers -> Seq(Command)]
<1>1. redisq \in [Workers -> Seq(Command)] /\ redisq' = [redisq EXCEPT ![w] = Append(@, cmd)]
  BY DEF TypeOK, Ask
<1>. QED  BY SMT, <1>1

\* Deleting a Subscriber keeps _sub_map well typed.
LEMMA ForgetType ==
  ASSUME TypeOK, NEW w \in Workers, NEW id \in Ids, forget_id(w, id)
  PROVE  /\ sub_map' \in [Workers -> [Ids -> Bevs \cup {Nil}]]
         /\ late' \in [Workers -> SUBSET Ids]
         /\ touching' \in [Workers -> SUBSET Ids]
<1>1. sub_map' \in [Workers -> [Ids -> Bevs \cup {Nil}]]
  BY DEF TypeOK, forget_id
<1>2. late' \in [Workers -> SUBSET Ids]
  BY DEF TypeOK, forget_id
<1>3. touching' \in [Workers -> SUBSET Ids]
  BY DEF TypeOK, forget_id
<1>. QED  BY <1>1, <1>2, <1>3

\* Freeing a bufferevent keeps _bev_id well typed.
LEMMA CloseType ==
  ASSUME TypeOK, NEW w \in Workers, NEW b \in Bevs, close_bev(w, b)
  PROVE  /\ at' \in [Bevs -> Conns \cup {Nil}]
         /\ bev_id' \in [Workers -> [Bevs -> Ids \cup {NoId, Nil}]]
BY DEF TypeOK, close_bev

\* The type invariant over a descriptor read from the connection pipe.
LEMMA TypeConn ==
  ASSUME TypeOK, NEW w \in Workers, NEW c \in Conns, new_connection(w, c)
  PROVE  TypeOK'
BY SMTT(30), IdsAssumption, BevsAssumption DEF TypeOK, new_connection, add_conn

\* ... over bufferevent_event_callback.
LEMMA TypeClose ==
  ASSUME TypeOK, NEW c \in Conns, bufferevent_event_callback(c)
  PROVE  TypeOK'
<1> DEFINE w == home[c].w
           b == home[c].bev
           id == bev_id[w][b]
<1>1. w \in Workers /\ b \in Bevs
  BY BevsAssumption DEF TypeOK, bufferevent_event_callback, Open
<1> HIDE DEF w, b
<1>2. /\ close_bev(w, b) /\ add_conn(w, -1)
      /\ \/ id \in Ids /\ forget_id(w, id) /\ Ask(w, [cb |-> "offline", id |-> id])
         \/ UNCHANGED <<sub_map, late, touching, redisq>>
      /\ UNCHANGED <<home, pipe, http_login, http_trans, task, crashed, missed, client>>
  BY DEF bufferevent_event_callback, w, b
<1>3. id \in Ids => [cb |-> "offline", id |-> id] \in Command
  BY DEF Command
<1>4. redisq' \in [Workers -> Seq(Command)]
  BY <1>1, <1>2, <1>3, AskType DEF TypeOK
<1>5. /\ sub_map' \in [Workers -> [Ids -> Bevs \cup {Nil}]]
      /\ late' \in [Workers -> SUBSET Ids]
      /\ touching' \in [Workers -> SUBSET Ids]
  BY <1>1, <1>2, ForgetType DEF TypeOK
<1>6. conn_num' \in [Workers -> Int]
  BY SMT, <1>1, <1>2 DEF TypeOK, add_conn
<1>7. /\ at' \in [Bevs -> Conns \cup {Nil}]
      /\ bev_id' \in [Workers -> [Bevs -> Ids \cup {NoId, Nil}]]
  BY <1>1, <1>2, CloseType
<1>. QED  BY <1>2, <1>4, <1>5, <1>6, <1>7 DEF TypeOK

\* Writing to a bufferevent, freed or not, keeps the clients' boxes well typed.
LEMMA WriteType ==
  ASSUME TypeOK, NEW S, NEW box \in [Conns -> Seq(S)], NEW b \in Bevs, NEW item \in S
  PROVE  Write(box, b, item) \in [Conns -> Seq(S)]
BY SMT DEF TypeOK, Write

\* A listing of a set of ids is a sequence over it.
LEMMA ListingType ==
  ASSUME NEW S \in SUBSET Ids, NEW f \in Listings(S)
  PROVE  f \in Seq(S)
<1>1. Cardinality(S) \in Nat
  BY SizeAssumption
<1>. QED  BY SMT, <1>1 DEF Listings

\* ... over del_expire_client, which lists the expired ids in some order.
LEMMA TypeExpire ==
  ASSUME TypeOK, NEW w \in Workers, del_expire_client(w)
  PROVE  TypeOK'
<1> DEFINE expired == {i \in late[w] : sub_map[w][i] # Nil /\ \E b \in Bevs : bev_id[w][b] = i}
           dead == {b \in Bevs : bev_id[w][b] \in expired}
<1>1. expired \subseteq Ids /\ dead \subseteq Bevs
  BY DEF TypeOK
<1>3. Cardinality(dead) \in Nat
  BY <1>1, SizeAssumption
<1>4. PICK order \in Listings(expired) :
        redisq' = [redisq EXCEPT ![w] = @ \o [k \in DOMAIN order |-> [cb |-> "offline", id |-> order[k]]]]
  BY DEF del_expire_client
<1> HIDE DEF expired, dead
<1>5. order \in Seq(Ids)
  BY SMT, <1>1, <1>4, ListingType
<1>6. [k \in DOMAIN order |-> [cb |-> "offline", id |-> order[k]]] \in Seq(Command)
  <2>1. \A k \in DOMAIN order : [cb |-> "offline", id |-> order[k]] \in Command
    BY SMT, <1>5 DEF Command
  <2>2. DOMAIN order = 1 .. Len(order) /\ Len(order) \in Nat
    BY SMT, <1>5
  <2>. QED  BY SMT, <2>1, <2>2
<1>7. redisq' \in [Workers -> Seq(Command)]
  BY SMT, <1>4, <1>6 DEF TypeOK
<1>8. conn_num' \in [Workers -> Int]
  <2>1. conn_num' = [conn_num EXCEPT ![w] = @ + (-Cardinality(dead))]
    BY DEF del_expire_client, add_conn, dead, expired
  <2>. QED  BY SMT, <1>3, <2>1 DEF TypeOK
<1>9. sub_map' \in [Workers -> [Ids -> Bevs \cup {Nil}]]
  <2>1. sub_map' = [sub_map EXCEPT ![w] = [i \in Ids |-> IF i \in expired THEN Nil ELSE @[i]]]
    BY DEF del_expire_client, expired
  <2>. QED  BY <2>1 DEF TypeOK
<1>10. bev_id' \in [Workers -> [Bevs -> Ids \cup {NoId, Nil}]]
  <2>1. bev_id' = [bev_id EXCEPT ![w] = [b \in Bevs |-> IF b \in dead THEN Nil ELSE @[b]]]
    BY DEF del_expire_client, dead, expired
  <2>. QED  BY ZenonT(30), <2>1 DEF TypeOK
<1>11. at' \in [Bevs -> Conns \cup {Nil}]
  BY DEF TypeOK, del_expire_client
<1>12. late' \in [Workers -> SUBSET Ids] /\ touching' \in [Workers -> SUBSET Ids]
  BY <1>1 DEF TypeOK, del_expire_client, expired
<1>. QED  BY <1>7, <1>8, <1>9, <1>10, <1>11, <1>12 DEF TypeOK, del_expire_client

\* ... over a missed heartbeat.
LEMMA TypeMissed ==
  ASSUME TypeOK, NEW w \in Workers, NEW id \in Ids, heartbeat_missed(w, id)
  PROVE  TypeOK'
<1>1. late' \in [Workers -> SUBSET Ids]
  BY DEF TypeOK, heartbeat_missed
<1>. QED  BY <1>1 DEF TypeOK, heartbeat_missed

\* ... over a heartbeat packet.
LEMMA TypeHeartbeat ==
  ASSUME TypeOK, NEW c \in Conns, read_heartbeat(c)
  PROVE  TypeOK'
<1> DEFINE w == home[c].w
           id == bev_id[w][home[c].bev]
<1>1. w \in Workers
  BY BevsAssumption DEF TypeOK, read_heartbeat, Open
<1>2. late' = [late EXCEPT ![w] = @ \ {id}]
  BY DEF read_heartbeat
<1> HIDE DEF w, id
<1>3. late' \in [Workers -> SUBSET Ids]
  BY <1>1, <1>2 DEF TypeOK
<1>. QED  BY <1>3 DEF TypeOK, read_heartbeat

\* ... over a login packet.
LEMMA TypeReadLogin ==
  ASSUME TypeOK, NEW c \in Conns, NEW id \in Ids, read_login(c, id)
  PROVE  TypeOK'
<1> DEFINE w == home[c].w
           d == [id |-> id, bev |-> home[c].bev, obj |-> <<c, Len(claimed[c]) + 1>>]
<1>1. w \in Workers /\ home[c].bev \in Bevs
  BY BevsAssumption DEF TypeOK, read_login, Open
<1>2. d \in LoginData
  BY SMT, <1>1 DEF LoginData, TypeOK
<1>3. [cb |-> "login", data |-> d] \in Command
  BY <1>2 DEF Command
<1>4. Ask(w, [cb |-> "login", data |-> d])
  BY DEF read_login
<1>5. redisq' \in [Workers -> Seq(Command)]
  BY <1>1, <1>3, <1>4, AskType
<1>6. claimed' \in [Conns -> Seq(Ids)]
  <2>1. claimed' = [claimed EXCEPT ![c] = Append(@, id)]
    BY DEF read_login
  <2>. QED  BY SMT, <2>1 DEF TypeOK
<1>. QED  BY <1>5, <1>6 DEF TypeOK, read_login

\* The start of a loop over the workers is a task.
LEMMA SendTaskType ==
  ASSUME NEW m \in Msg
  PROVE  [op |-> "send", msg |-> m, j |-> 0] \in Task
<1>1. 0 \in 0 .. NumWorkers
  BY SMT, WorkersAssumption
<1>. QED  BY <1>1 DEF Task, SendTask

\* ... over a message packet, relayed at once or checked first.
LEMMA TypeReadTrans ==
  ASSUME TypeOK, NEW c \in Conns, NEW from \in Ids, NEW to \in Ids, read_trans(c, from, to)
  PROVE  TypeOK'
<1> DEFINE w == home[c].w
           m == [kind |-> "data", from |-> from, to |-> to, n |-> Len(sender) + 1]
<1>1. w \in Workers
  BY BevsAssumption DEF TypeOK, read_trans, Open
<1>2. m \in Msg
  BY SMT DEF Msg, TypeOK
<1> HIDE DEF m
<1>3. [cb |-> "trans", msg |-> m] \in Command
  BY <1>2 DEF Command
<1>7. [op |-> "send", msg |-> m, j |-> 0] \in Task
  BY <1>2, SendTaskType
<1>4. redisq' \in [Workers -> Seq(Command)]
  BY <1>1, <1>3, AskType DEF TypeOK, read_trans, m
<1>5. task' \in [Workers -> Task]
  <2>1. task' = task \/ task' = [task EXCEPT ![w] = [op |-> "send", msg |-> m, j |-> 0]]
    BY DEF read_trans, m
  <2>. QED  BY <1>1, <1>7, <2>1 DEF TypeOK
<1>6. sender' \in Seq(Conns)
  <2>1. sender' = Append(sender, c)
    BY DEF read_trans
  <2>. QED  BY SMT, <2>1 DEF TypeOK
<1>. QED  BY <1>4, <1>5, <1>6 DEF TypeOK, read_trans

\* displace_local changes the two maps, and start_login the task and the history.
LEMMA StartType ==
  ASSUME TypeOK, NEW w \in Workers, NEW d \in LoginData, NEW self \in BOOLEAN,
         start_login(w, d, self)
  PROVE  /\ at' \in [Bevs -> Conns \cup {Nil}]
         /\ bev_id' \in [Workers -> [Bevs -> Ids \cup {NoId, Nil}]]
         /\ sub_map' \in [Workers -> [Ids -> Bevs \cup {Nil}]]
         /\ late' \in [Workers -> SUBSET Ids]
         /\ touching' \in [Workers -> SUBSET Ids]
         /\ task' \in [Workers -> Task]
         /\ missed' \subseteq {"overlap", "login", "message"} \X Ids
         /\ UNCHANGED <<home, conn_num>>
<1>1. d.id \in Ids /\ d.bev \in Bevs
  BY DEF LoginData
<1>2. displace_local(w, d.id) /\ UNCHANGED <<home, conn_num>>
  BY DEF start_login
<1>3. /\ sub_map' \in [Workers -> [Ids -> Bevs \cup {Nil}]]
      /\ late' \in [Workers -> SUBSET Ids]
      /\ touching' \in [Workers -> SUBSET Ids]
  BY <1>1, <1>2, ForgetType DEF displace_local
<1>4. /\ at' \in [Bevs -> Conns \cup {Nil}]
      /\ bev_id' \in [Workers -> [Bevs -> Ids \cup {NoId, Nil}]]
  <2>1. CASE known(w, sub_map[w][d.id])
    BY <1>2, <2>1, CloseType DEF displace_local, known
  <2>2. CASE ~known(w, sub_map[w][d.id])
    BY <1>2, <2>2 DEF displace_local, TypeOK
  <2>. QED  BY <2>1, <2>2
<1>5. task' \in [Workers -> Task]
  <2>1. 0 \in 0 .. NumWorkers
    BY SMT, WorkersAssumption
  <2>2. login_loop(d, self) \in Task
    BY <1>1, <2>1 DEF Task, LoginTask, login_loop
  <2>3. task' = [task EXCEPT ![w] = login_loop(d, self)]
    BY DEF start_login
  <2>. QED  BY <2>2, <2>3 DEF TypeOK
<1>6. missed' \subseteq {"overlap", "login", "message"} \X Ids
  BY SMT, <1>1 DEF TypeOK, start_login
<1>. QED  BY <1>2, <1>3, <1>4, <1>5, <1>6

\* ... over each outcome of redis_login_callback.
LEMMA TypeRedisLogin ==
  ASSUME TypeOK, NEW w \in Workers, redis_login_callback(w)
  PROVE  TypeOK'
<1> DEFINE d == Head(redisq[w]).data
<1>1. Head(redisq[w]) \in Command /\ Tail(redisq[w]) \in Seq(Command)
  <2>1. redisq[w] # << >>
    BY DEF redis_login_callback
  <2>. QED  BY SMT, <2>1 DEF TypeOK
<1>2. d \in LoginData
  BY <1>1, CommandFields DEF redis_login_callback
<1>3. redisq' \in [Workers -> Seq(Command)]
  BY <1>1 DEF TypeOK, redis_login_callback
<1> HIDE DEF d
<1>4. UNCHANGED <<pipe, http_trans, crashed, claimed, inbox, sender>>
  BY DEF redis_login_callback
<1>5. CASE UNCHANGED <<registry, http_login, task, touching, missed, replies>>
  BY <1>3, <1>4, <1>5 DEF TypeOK
<1>6. CASE http_login_check(w, d) /\ UNCHANGED <<registry, task, touching, missed, replies>>
  <2>1. http_login' \subseteq [w: Workers, data: LoginData, stage: {"connecting", "posted"}]
    BY SMT, <1>2, <1>6 DEF TypeOK, http_login_check
  <2>. QED  BY <1>3, <1>4, <1>6, <2>1 DEF TypeOK
<1>7. CASE /\ replies' = Write(replies, d.bev, "fail")
           /\ UNCHANGED <<registry, http_login, task, touching, missed>>
  <2>1. replies' \in [Conns -> Seq({"ok", "fail"})]
    BY <1>2, <1>7, WriteType DEF TypeOK, LoginData
  <2>. QED  BY <1>3, <1>4, <1>7, <2>1 DEF TypeOK
<1>8. CASE start_login(w, d, FALSE) /\ UNCHANGED <<http_login, replies>>
  BY <1>2, <1>3, <1>4, <1>8, StartType DEF TypeOK
<1>. QED  BY <1>5, <1>6, <1>7, <1>8 DEF redis_login_callback, d

\* ... over the three events of an HTTP login check.
LEMMA TypeHttpLogin ==
  ASSUME TypeOK, NEW h \in http_login,
         http_login_connected(h) \/ http_login_event(h) \/ http_login_read(h)
  PROVE  TypeOK'
<1>1. h \in [w: Workers, data: LoginData, stage: {"connecting", "posted"}]
  BY DEF TypeOK
<1>2. h.w \in Workers /\ h.data \in LoginData /\ h.data.bev \in Bevs
  BY <1>1 DEF LoginData
<1>3. http_login' \subseteq [w: Workers, data: LoginData, stage: {"connecting", "posted"}]
  <2>1. [h EXCEPT !.stage = "posted"] \in [w: Workers, data: LoginData, stage: {"connecting", "posted"}]
    BY <1>1
  <2>2. \/ http_login' = http_login \ {h}
        \/ http_login' = (http_login \ {h}) \cup {[h EXCEPT !.stage = "posted"]}
    BY DEF http_login_connected, http_login_event, http_login_read
  <2>. QED  BY <2>1, <2>2 DEF TypeOK
<1>4. Write(replies, h.data.bev, "fail") \in [Conns -> Seq({"ok", "fail"})]
  BY <1>2, WriteType DEF TypeOK
<1>5. CASE http_login_connected(h)
  BY <1>3, <1>5 DEF TypeOK, http_login_connected
<1>6. CASE http_login_event(h)
  BY <1>3, <1>4, <1>6 DEF TypeOK, http_login_event
<1>7. CASE http_login_read(h)
  <2>1. UNCHANGED <<pipe, redisq, http_trans, crashed, claimed, inbox, sender>>
    BY <1>7 DEF http_login_read
  <2>2. CASE start_login(h.w, h.data, TRUE) /\ UNCHANGED replies
    BY <1>2, <1>3, <2>1, <2>2, StartType DEF TypeOK
  <2>3. CASE /\ replies' = replies \/ replies' = Write(replies, h.data.bev, "fail")
             /\ UNCHANGED <<registry, task, touching, missed>>
    BY <1>3, <1>4, <2>1, <2>3 DEF TypeOK
  <2>. QED  BY <1>7, <2>2, <2>3 DEF http_login_read
<1>. QED  BY <1>5, <1>6, <1>7

\* A message put into a pipe, or left out, keeps the type of the pipes.
LEMMA PutType ==
  ASSUME TypeOK, NEW j \in Workers, NEW m \in Msg,
         pipe' = pipe \/ pipe' = [pipe EXCEPT ![j] = Append(@, m)]
  PROVE  pipe' \in [Workers -> Seq(Msg)]
<1>1. CASE pipe' = pipe
  BY <1>1 DEF TypeOK
<1>2. CASE pipe' = [pipe EXCEPT ![j] = Append(@, m)]
  BY SMT, <1>2 DEF TypeOK
<1>. QED  BY <1>1, <1>2

\* The history only grows by ids.
LEMMA MissedType ==
  ASSUME TypeOK, NEW by \in {"login", "message"}, NEW j \in Workers, NEW id \in Ids,
         missed' = missed \/ missed' = missed \cup overlooked(by, j, id)
  PROVE  missed' \subseteq {"overlap", "login", "message"} \X Ids
<1>1. \A e \in overlooked(by, j, id) : e = <<by, id>>
  BY DEF overlooked
<1>2. <<by, id>> \in {"overlap", "login", "message"} \X Ids
  OBVIOUS
<1>. QED  BY <1>1, <1>2 DEF TypeOK

\* ... over one turn of the loop that looks for an earlier login.
LEMMA TypeDelId ==
  ASSUME TypeOK, NEW w \in Workers, notify_del_id(w)
  PROVE  TypeOK'
<1> DEFINE t == task[w]
<1>1. t \in LoginTask
  BY TaskFields DEF TypeOK, notify_del_id
<1>2. t.j \in Workers /\ t.j + 1 \in 0 .. NumWorkers
  BY SMT, <1>1, WorkersAssumption DEF notify_del_id, Workers, LoginTask
<1>3. DelMsg(t.id) \in Msg
  BY <1>1 DEF DelMsg, Msg, LoginTask
<1>4. pipe' \in [Workers -> Seq(Msg)]
  <2>1. pipe' = pipe \/ pipe' = [pipe EXCEPT ![t.j] = Append(@, DelMsg(t.id))]
    BY DEF notify_del_id
  <2>. QED  BY <1>2, <1>3, <2>1, PutType
<1>5. missed' \subseteq {"overlap", "login", "message"} \X Ids
  <2>1. missed' = missed \/ missed' = missed \cup overlooked("login", t.j, t.id)
    BY DEF notify_del_id
  <2>. QED  BY <1>1, <1>2, <2>1, MissedType DEF LoginTask
<1>6. task' \in [Workers -> Task]
  <2>1. [t EXCEPT !.j = t.j + 1] \in Task
    BY <1>1, <1>2 DEF Task, LoginTask
  <2>2. task' = [task EXCEPT ![w] = [t EXCEPT !.j = t.j + 1]]
    BY DEF notify_del_id, TypeOK
  <2>. QED  BY <2>1, <2>2 DEF TypeOK
<1>. QED  BY <1>4, <1>5, <1>6 DEF TypeOK, notify_del_id

\* ... over the registration that ends a login.
LEMMA TypeFinish ==
  ASSUME TypeOK, NEW w \in Workers, finish_login(w)
  PROVE  TypeOK'
<1> DEFINE t == task[w]
<1>1. t.id \in Ids /\ t.bev \in Bevs
  <2>1. t \in LoginTask
    BY TaskFields DEF TypeOK, finish_login
  <2>. QED  BY <2>1 DEF LoginTask
<1>2. redisq' \in [Workers -> Seq(Command)]
  <2>1. [cb |-> "online", id |-> t.id, bev |-> t.bev] \in Command
    BY <1>1 DEF Command
  <2>. QED  BY <2>1, AskType DEF finish_login
<1>3. replies' \in [Conns -> Seq({"ok", "fail"})]
  BY <1>1, WriteType DEF TypeOK, finish_login
<1>4. bev_id' \in [Workers -> [Bevs -> Ids \cup {NoId, Nil}]]
  BY <1>1 DEF TypeOK, finish_login
<1>5. sub_map' \in [Workers -> [Ids -> Bevs \cup {Nil}]]
  <2>1. /\ sub_map \in [Workers -> [Ids -> Bevs \cup {Nil}]]
        /\ sub_map' = [sub_map EXCEPT ![w][t.id] = IF @ = Nil THEN t.bev ELSE @]
    BY DEF TypeOK, finish_login
  <2>. QED  BY SMT, <1>1, <2>1
<1>6. late' \in [Workers -> SUBSET Ids] /\ touching' \in [Workers -> SUBSET Ids]
  BY <1>1 DEF TypeOK, finish_login
<1>7. task' \in [Workers -> Task]
  BY DEF TypeOK, finish_login, Task
<1>. QED  BY <1>2, <1>3, <1>4, <1>5, <1>6, <1>7 DEF TypeOK, finish_login

\* ... over the end of a change of _sub_map, and a racing lookup.
LEMMA TypeSettle ==
  ASSUME TypeOK, NEW w \in Workers, settle(w) \/ racing_find(w)
  PROVE  TypeOK'
<1>1. touching' \in [Workers -> SUBSET Ids] /\ crashed' \in BOOLEAN
  BY DEF TypeOK, settle, racing_find
<1>. QED  BY <1>1 DEF TypeOK, settle, racing_find

\* ... over each outcome of redis_trans_callback.
LEMMA TypeRedisTrans ==
  ASSUME TypeOK, NEW w \in Workers, redis_trans_callback(w)
  PROVE  TypeOK'
<1> DEFINE m == Head(redisq[w]).msg
<1>1. Head(redisq[w]) \in Command /\ Tail(redisq[w]) \in Seq(Command)
  <2>1. redisq[w] \in Seq(Command) /\ redisq[w] # << >>
    BY DEF TypeOK, redis_trans_callback
  <2>. QED  BY <2>1, HeadTail
<1>2. m \in Msg
  BY <1>1, CommandFields DEF redis_trans_callback
<1>3. redisq' \in [Workers -> Seq(Command)]
  BY <1>1 DEF TypeOK, redis_trans_callback
<1>4. task' \in [Workers -> Task]
  <2>1. task' = task \/ task' = [task EXCEPT ![w] = [op |-> "send", msg |-> m, j |-> 0]]
    BY DEF redis_trans_callback
  <2>. QED  BY <1>2, <2>1, SendTaskType DEF TypeOK
<1>5. http_trans' \subseteq [w: Workers, msg: Msg, stage: {"connecting", "posted"}]
  <2>1. \/ http_trans' = http_trans
        \/ http_trans' = http_trans \cup {[w |-> w, msg |-> m, stage |-> "connecting"]}
    BY DEF redis_trans_callback
  <2>2. http_trans \subseteq [w: Workers, msg: Msg, stage: {"connecting", "posted"}]
    BY DEF TypeOK
  <2>. QED  BY SMT, <1>2, <2>1, <2>2
<1>6. crashed' \in BOOLEAN
  BY DEF TypeOK, redis_trans_callback
<1>. QED  BY <1>3, <1>4, <1>5, <1>6 DEF TypeOK, redis_trans_callback

\* ... over the three events of an HTTP relation check.
LEMMA TypeHttpTrans ==
  ASSUME TypeOK, NEW h \in http_trans,
         http_trans_connected(h) \/ http_trans_event(h) \/ http_trans_read(h)
  PROVE  TypeOK'
<1>1. h \in [w: Workers, msg: Msg, stage: {"connecting", "posted"}]
  BY DEF TypeOK
<1>2. http_trans' \subseteq [w: Workers, msg: Msg, stage: {"connecting", "posted"}]
  <2>1. [h EXCEPT !.stage = "posted"] \in [w: Workers, msg: Msg, stage: {"connecting", "posted"}]
    BY <1>1
  <2>2. \/ http_trans' = http_trans \ {h}
        \/ http_trans' = (http_trans \ {h}) \cup {[h EXCEPT !.stage = "posted"]}
    BY DEF http_trans_connected, http_trans_event, http_trans_read
  <2>. QED  BY <2>1, <2>2 DEF TypeOK
<1>3. task' \in [Workers -> Task]
  <2>1. task' = task \/ task' = [task EXCEPT ![h.w] = [op |-> "send", msg |-> h.msg, j |-> 0]]
    BY DEF http_trans_connected, http_trans_event, http_trans_read
  <2>. QED  BY <1>1, <2>1, SendTaskType DEF TypeOK
<1>. QED  BY <1>2, <1>3 DEF TypeOK, http_trans_connected, http_trans_event, http_trans_read

\* ... over one turn of the loop of send_message.
LEMMA TypeNewMsg ==
  ASSUME TypeOK, NEW w \in Workers, notify_new_msg(w)
  PROVE  TypeOK'
<1> DEFINE t == task[w]
<1>1. t \in SendTask /\ t.msg \in Msg /\ t.msg.to \in Ids /\ t.j \in 0 .. NumWorkers
  BY SMT, TaskFields DEF TypeOK, notify_new_msg, Msg, SendTask
<1>2. t.j < NumWorkers => t.j \in Workers /\ t.j + 1 \in 0 .. NumWorkers
  BY SMT, <1>1, WorkersAssumption DEF Workers
<1>3. UNCHANGED <<registry, redisq, http_login, http_trans, touching, crashed, client>>
  BY DEF notify_new_msg
<1>4. Idle \in Task
  BY DEF Task
<1>5. CASE /\ t.j < NumWorkers
           /\ pipe' = [pipe EXCEPT ![t.j] = Append(@, t.msg)]
           /\ task' = [task EXCEPT ![w] = Idle]
           /\ UNCHANGED missed
  <2>1. pipe' \in [Workers -> Seq(Msg)]
    BY <1>1, <1>2, <1>5, PutType
  <2>. QED  BY <1>3, <1>4, <1>5, <2>1 DEF TypeOK
<1>6. CASE /\ t.j < NumWorkers
           /\ task' = [task EXCEPT ![w].j = t.j + 1]
           /\ missed' = missed \cup overlooked("message", t.j, t.msg.to)
           /\ UNCHANGED pipe
  <2>1. missed' \subseteq {"overlap", "login", "message"} \X Ids
    BY <1>1, <1>2, <1>6, MissedType
  <2>2. [t EXCEPT !.j = t.j + 1] \in Task
    BY <1>1, <1>2, <1>6 DEF Task, SendTask
  <2>3. task' = [task EXCEPT ![w] = [t EXCEPT !.j = t.j + 1]]
    BY <1>6 DEF TypeOK
  <2>. QED  BY <1>3, <1>6, <2>1, <2>2, <2>3 DEF TypeOK
<1>7. CASE task' = [task EXCEPT ![w] = Idle] /\ UNCHANGED <<pipe, missed>>
  BY <1>3, <1>4, <1>7 DEF TypeOK
<1>. QED  BY <1>5, <1>6, <1>7 DEF notify_new_msg, after_send

\* ... over the arrival of a friend list, in any order.
LEMMA TypeFriendList ==
  ASSUME TypeOK, NEW w \in Workers, redis_friend_list(w)
  PROVE  TypeOK'
<1> DEFINE q == Head(redisq[w])
           b == IF q.cb = "online" THEN q.bev ELSE Nil
<1>1. q \in Command /\ Tail(redisq[w]) \in Seq(Command) /\ q.cb \in {"online", "offline"}
  <2>1. redisq[w] \in Seq(Command) /\ redisq[w] # << >> /\ q.cb \in {"online", "offline"}
    BY DEF TypeOK, redis_friend_list
  <2>. QED  BY <2>1, HeadTail
<1>2. q.id \in Ids /\ (q.cb = "online" => b \in Bevs) /\ (q.cb = "offline" => b = Nil)
  BY <1>1, CommandFields
<1>3. redisq' \in [Workers -> Seq(Command)]
  BY <1>1 DEF TypeOK, redis_friend_list
<1> HIDE DEF b
<1>4. task' \in [Workers -> Task]
  <2>1. CASE UNCHANGED task
    BY <2>1 DEF TypeOK
  <2>2. CASE \E friends \in FriendLists \ {{}} : \E order \in Listings(friends) :
               task' = [task EXCEPT ![w] =
                 [op |-> "notify", kind |-> q.cb, id |-> q.id, bev |-> b,
                  todo |-> order, j |-> 0, seen |-> {}]]
    <3>0. PICK friends \in FriendLists : \E order \in Listings(friends) :
               task' = [task EXCEPT ![w] =
                 [op |-> "notify", kind |-> q.cb, id |-> q.id, bev |-> b,
                  todo |-> order, j |-> 0, seen |-> {}]]
      BY <2>2
    <3>1. PICK order \in Listings(friends) :
               task' = [task EXCEPT ![w] =
                 [op |-> "notify", kind |-> q.cb, id |-> q.id, bev |-> b,
                  todo |-> order, j |-> 0, seen |-> {}]]
      BY <3>0
    <3>2. friends \subseteq Ids
      BY RepliesAssumption
    <3>3. order \in Seq(Ids) /\ 0 \in 0 .. NumWorkers
      BY SMT, <3>2, ListingType, WorkersAssumption
    <3>4. [op |-> "notify", kind |-> q.cb, id |-> q.id, bev |-> b,
           todo |-> order, j |-> 0, seen |-> {}] \in Task
      BY <1>1, <1>2, <3>3 DEF Task, NotifyTask
    <3>. QED  BY <3>1, <3>4 DEF TypeOK
  <2>. QED  BY <2>1, <2>2 DEF redis_friend_list, b
<1>. QED  BY <1>3, <1>4 DEF TypeOK, redis_friend_list

\* The next friend, the next worker: what notify_friend makes of its task.
LEMMA NotifyTaskStep ==
  ASSUME NEW kind, NEW bevs, NEW t \in NotifyTask(kind, bevs), NEW f \in Ids, t.todo # << >>
  PROVE  /\ next_friend(t) \in NotifyTask(kind, bevs)
         /\ [next_friend(t) EXCEPT !.seen = @ \cup {f}] \in NotifyTask(kind, bevs)
         /\ t.j < NumWorkers => [t EXCEPT !.j = t.j + 1] \in NotifyTask(kind, bevs)
<1>1. Tail(t.todo) \in Seq(Ids)
  BY SMT DEF NotifyTask
<1>2. 0 \in 0 .. NumWorkers /\ (t.j < NumWorkers => t.j + 1 \in 0 .. NumWorkers)
  BY SMT, WorkersAssumption DEF NotifyTask
<1>3. next_friend(t) \in NotifyTask(kind, bevs)
  BY <1>1, <1>2 DEF next_friend, NotifyTask
<1>4. [next_friend(t) EXCEPT !.seen = @ \cup {f}] \in NotifyTask(kind, bevs)
  BY <1>3 DEF NotifyTask
<1>5. t.j < NumWorkers => [t EXCEPT !.j = t.j + 1] \in NotifyTask(kind, bevs)
  BY <1>2 DEF NotifyTask
<1>. QED  BY <1>3, <1>4, <1>5

\* ... over one lookup of a friend on one worker.
LEMMA TypeNotifyFriend ==
  ASSUME TypeOK, NEW w \in Workers, notify_friend(w)
  PROVE  TypeOK'
<1> DEFINE t == task[w]
           f == Head(t.todo)
           note == [kind |-> t.kind, from |-> t.id, to |-> f, n |-> 0]
<1>1. \/ t \in NotifyTask("online", Bevs) /\ t.kind = "online"
      \/ t \in NotifyTask("offline", {Nil}) /\ t.kind = "offline"
  BY TaskFields DEF TypeOK, notify_friend
<1>2. t.todo \in Seq(Ids) /\ t.todo # << >> /\ t.id \in Ids /\ t.j \in 0 .. NumWorkers
  BY <1>1 DEF NotifyTask, notify_friend
<1>3. f \in Ids
  BY SMT, <1>2
<1>4. note \in Msg
  BY <1>1, <1>2, <1>3 DEF Msg
<1>5. t.j < NumWorkers => t.j \in Workers
  BY SMT, <1>2, WorkersAssumption DEF Workers
<1> HIDE DEF f, note
<1>6. /\ next_friend(t) \in Task
      /\ [next_friend(t) EXCEPT !.seen = @ \cup {f}] \in Task
      /\ t.j < NumWorkers => [t EXCEPT !.j = t.j + 1] \in Task
  <2>1. CASE t \in NotifyTask("online", Bevs)
    BY <1>2, <1>3, <2>1, NotifyTaskStep DEF Task
  <2>2. CASE t \in NotifyTask("offline", {Nil})
    BY <1>2, <1>3, <2>2, NotifyTaskStep DEF Task
  <2>. QED  BY <1>1, <2>1, <2>2
<1>7. UNCHANGED <<registry, redisq, http_login, http_trans, touching, crashed, client>>
  BY DEF notify_friend
<1>8. CASE /\ t.j < NumWorkers
           /\ task' = [task EXCEPT ![w].j = t.j + 1]
           /\ missed' = missed \cup overlooked("message", t.j, f)
           /\ UNCHANGED pipe
  <2>1. missed' \subseteq {"overlap", "login", "message"} \X Ids
    BY <1>3, <1>5, <1>8, MissedType
  <2>2. task' = [task EXCEPT ![w] = [t EXCEPT !.j = t.j + 1]]
    BY <1>8 DEF TypeOK
  <2>. QED  BY <1>6, <1>7, <1>8, <2>1, <2>2 DEF TypeOK
<1>9. CASE /\ t.j < NumWorkers
           /\ task' = [task EXCEPT ![w] = [next_friend(t) EXCEPT !.seen = @ \cup {f}]]
           /\ pipe' = pipe \/ pipe' = [pipe EXCEPT ![t.j] = Append(@, note)]
           /\ missed' = missed \/ missed' = missed \cup overlooked("message", t.j, f)
  <2>1. missed' \subseteq {"overlap", "login", "message"} \X Ids
    BY <1>3, <1>5, <1>9, MissedType
  <2>2. pipe' \in [Workers -> Seq(Msg)]
    BY <1>4, <1>5, <1>9, PutType
  <2>. QED  BY <1>6, <1>7, <1>9, <2>1, <2>2 DEF TypeOK
<1>10. CASE task' = [task EXCEPT ![w] = next_friend(t)] /\ UNCHANGED <<pipe, missed>>
  BY <1>6, <1>7, <1>10 DEF TypeOK
<1>. QED  BY <1>8, <1>9, <1>10 DEF notify_friend, f, note

\* ... over the list of online friends written to the client.
LEMMA TypeFinishNotify ==
  ASSUME TypeOK, NEW w \in Workers, finish_notify(w)
  PROVE  TypeOK'
<1> DEFINE t == task[w]
           report == [kind |-> "list", seen |-> t.seen]
<1>1. \/ t \in NotifyTask("online", Bevs) /\ t.kind = "online"
      \/ t \in NotifyTask("offline", {Nil}) /\ t.kind = "offline"
  BY TaskFields DEF TypeOK, finish_notify
<1>2. task' \in [Workers -> Task]
  BY DEF TypeOK, finish_notify, Task
<1>3. inbox' \in [Conns -> Seq(Msg \cup FriendReport)]
  <2>1. CASE t.kind = "online"
    <3>1. t.bev \in Bevs /\ report \in Msg \cup FriendReport
      BY <1>1, <2>1 DEF NotifyTask, FriendReport
    <3>2. inbox' = Write(inbox, t.bev, report)
      BY <2>1 DEF finish_notify
    <3>. QED  BY <3>1, <3>2, WriteType DEF TypeOK
  <2>2. CASE t.kind # "online"
    BY <2>2 DEF finish_notify, TypeOK
  <2>. QED  BY <2>1, <2>2
<1>. QED  BY <1>2, <1>3 DEF TypeOK, finish_notify

\* ... over a message or deletion read from the pipe.
LEMMA TypeCallback ==
  ASSUME TypeOK, NEW w \in Workers, notify_new_msg_callback(w)
  PROVE  TypeOK'
<1> DEFINE m == Head(pipe[w])
<1>1. m \in Msg /\ Tail(pipe[w]) \in Seq(Msg) /\ m.to \in Ids
  <2>1. m \in Msg /\ Tail(pipe[w]) \in Seq(Msg)
    BY HeadTail DEF TypeOK, notify_new_msg_callback
  <2>. QED  BY <2>1 DEF Msg
<1>2. pipe' \in [Workers -> Seq(Msg)]
  BY <1>1 DEF TypeOK, notify_new_msg_callback
<1>3. task' \in [Workers -> Task]
  <2>1. task' = [task EXCEPT ![w] = Idle] \/ task' = [task EXCEPT ![w] = Drain]
    BY DEF notify_new_msg_callback
  <2>2. Idle \in Task /\ Drain \in Task
    BY DEF Task
  <2>. QED  BY <2>1, <2>2 DEF TypeOK
<1>4. UNCHANGED <<home, conn_num, redisq, http_login, http_trans, missed, claimed, replies, sender>>
  BY DEF notify_new_msg_callback
<1> HIDE DEF m
<1>5. CASE inbox' = deliver(w, m) /\ UNCHANGED <<bev_id, sub_map, at, late, touching, crashed>>
  <2>1. inbox' \in [Conns -> Seq(Msg \cup FriendReport)]
    <3>1. sub_map[w][m.to] \in Bevs \cup {Nil}
      BY SMT, <1>1 DEF TypeOK
    <3>2. CASE sub_map[w][m.to] = Nil
      BY <1>5, <3>2 DEF deliver, TypeOK
    <3>3. CASE sub_map[w][m.to] # Nil
      BY <1>1, <1>5, <3>1, <3>3, WriteType DEF deliver, TypeOK
    <3>. QED  BY <3>2, <3>3
  <2>. QED  BY <1>2, <1>3, <1>4, <1>5, <2>1 DEF TypeOK
<1>6. CASE delete_old_login(w, m.to) /\ UNCHANGED inbox
  <2>1. /\ sub_map' \in [Workers -> [Ids -> Bevs \cup {Nil}]]
        /\ late' \in [Workers -> SUBSET Ids]
        /\ touching' \in [Workers -> SUBSET Ids]
    BY <1>1, <1>6, ForgetType DEF delete_old_login
  <2>2. /\ at' \in [Bevs -> Conns \cup {Nil}]
        /\ bev_id' \in [Workers -> [Bevs -> Ids \cup {NoId, Nil}]]
    <3>1. CASE known(w, sub_map[w][m.to]) /\ close_bev(w, sub_map[w][m.to])
      BY <3>1, CloseType DEF known
    <3>2. CASE UNCHANGED <<bev_id, at>>
      BY <3>2 DEF TypeOK
    <3>. QED  BY <1>6, <3>1, <3>2 DEF delete_old_login
  <2>3. crashed' \in BOOLEAN
    BY <1>6 DEF delete_old_login, TypeOK
  <2>. QED  BY <1>2, <1>3, <1>4, <1>6, <2>1, <2>2, <2>3 DEF TypeOK
<1>. QED  BY <1>5, <1>6 DEF notify_new_msg_callback, m

\* Every action keeps the type invariant.
LEMMA TypeStep == TypeOK /\ [Next]_vars => TypeOK'
<1> SUFFICES ASSUME TypeOK, [Next]_vars PROVE TypeOK'
  OBVIOUS
<1>1. CASE Client
  BY <1>1, TypeConn, TypeClose, TypeHeartbeat, TypeMissed, TypeReadLogin, TypeReadTrans DEF Client
<1>2. CASE Http
  BY <1>2, TypeHttpLogin, TypeHttpTrans DEF Http
<1>3. ASSUME NEW w \in Workers, Loop(w) PROVE TypeOK'
  BY <1>3, TypeSettle, TypeDelId, TypeFinish, TypeNewMsg, TypeNotifyFriend, TypeFinishNotify,
     TypeCallback DEF Loop
<1>4. ASSUME NEW w \in Workers, RedisReply(w) PROVE TypeOK'
  BY <1>4, TypeRedisLogin, TypeRedisTrans, TypeFriendList DEF RedisReply
<1>5. ASSUME NEW w \in Workers, del_expire_client(w) PROVE TypeOK'
  BY <1>5, TypeExpire
<1>6. CASE UNCHANGED vars
  BY <1>6 DEF TypeOK
<1>. QED  BY <1>1, <1>2, <1>3, <1>4, <1>5, <1>6 DEF Next

\* Every state of the workers is well typed: no handler stores an id, address,
\* command or message of the wrong sort.
THEOREM TypeCorrect == Spec => []TypeOK
BY InitType, TypeStep, PTL DEF Spec

-----------------------------------------------------------------------------
(* A worker keeps at most one connection under an id.                      *)

(* BevOwnsSub.  It is inductive together with this: while a login is being  *)
(* completed, the id has no Subscriber on the worker that completes it.     *)

LoginErased == \A w \in Workers : task[w].op = "login" => sub_map[w][task[w].id] = Nil

\* A step that leaves the two maps alone and starts no login.
Quiet ==
  /\ UNCHANGED <<bev_id, sub_map>>
  /\ \A v \in Workers : task'[v].op = "login" => task[v].op = "login" /\ task'[v].id = task[v].id

\* A quiet step keeps both facts.
LEMMA QuietStep ==
  ASSUME BevOwnsSub, LoginErased, Quiet
  PROVE  BevOwnsSub' /\ LoginErased'
BY DEF BevOwnsSub, LoginErased, Quiet

\* Taking up a task that is not a login is quiet.
LEMMA QuietTask ==
  ASSUME TypeOK, UNCHANGED <<bev_id, sub_map>>, NEW u, NEW t, t.op # "login",
         task' = task \/ task' = [task EXCEPT ![u] = t]
  PROVE  Quiet
<1>1. CASE task' = task
  BY <1>1 DEF Quiet
<1>2. CASE task' = [task EXCEPT ![u] = t]
  BY <1>2 DEF Quiet, TypeOK
<1>. QED  BY <1>1, <1>2

\* So is starting to relay a message.
LEMMA QuietSend ==
  ASSUME TypeOK, UNCHANGED <<bev_id, sub_map>>, NEW u,
         task' = task \/ \E m : task' = [task EXCEPT ![u] = [op |-> "send", msg |-> m, j |-> 0]]
  PROVE  Quiet
<1>1. CASE task' = task
  BY <1>1 DEF Quiet
<1>2. ASSUME NEW m, task' = [task EXCEPT ![u] = [op |-> "send", msg |-> m, j |-> 0]]
      PROVE  Quiet
  <2>1. [op |-> "send", msg |-> m, j |-> 0].op # "login"
    OBVIOUS
  <2>. QED  BY <1>2, <2>1, QuietTask
<1>. QED  BY <1>1, <1>2

\* Every step is quiet but for the six that change one of the maps.
LEMMA QuietActions ==
  ASSUME TypeOK, [Next]_vars
  PROVE  \/ Quiet
         \/ \E w \in Workers, c \in Conns : new_connection(w, c)
         \/ \E c \in Conns : bufferevent_event_callback(c)
         \/ \E w \in Workers : \/ del_expire_client(w)
                               \/ finish_login(w)
                               \/ \E d \in LoginData, self \in BOOLEAN : start_login(w, d, self)
                               \/ notify_new_msg_callback(w)
<1> DEFINE Goal == \/ Quiet
                   \/ \E w \in Workers, c \in Conns : new_connection(w, c)
                   \/ \E c \in Conns : bufferevent_event_callback(c)
                   \/ \E w \in Workers : \/ del_expire_client(w)
                                         \/ finish_login(w)
                                         \/ \E d \in LoginData, self \in BOOLEAN : start_login(w, d, self)
                                         \/ notify_new_msg_callback(w)
<1>1. ASSUME NEW c \in Conns, bufferevent_event_callback(c) \/ read_heartbeat(c)
      PROVE  Goal
  BY <1>1 DEF read_heartbeat, Quiet
<1>2. ASSUME NEW c \in Conns, NEW id \in Ids, read_login(c, id)
      PROVE  Goal
  BY <1>2 DEF read_login, Quiet
<1>3. ASSUME NEW c \in Conns, NEW from \in Ids, NEW to \in Ids, read_trans(c, from, to)
      PROVE  Goal
  <2>1. UNCHANGED <<bev_id, sub_map>>
    BY <1>3 DEF read_trans
  <2>2. \/ task' = task
        \/ \E m : task' = [task EXCEPT ![home[c].w] = [op |-> "send", msg |-> m, j |-> 0]]
    BY <1>3 DEF read_trans
  <2>. QED  BY <2>1, <2>2, QuietSend
<1>4. ASSUME NEW w \in Workers, NEW id \in Ids, heartbeat_missed(w, id)
      PROVE  Goal
  BY <1>4 DEF heartbeat_missed, Quiet
<1>5. ASSUME NEW h \in http_login,
             http_login_connected(h) \/ http_login_event(h) \/ http_login_read(h)
      PROVE  Goal
  <2>1. h.w \in Workers /\ h.data \in LoginData
    BY DEF TypeOK
  <2>2. \/ UNCHANGED <<bev_id, sub_map, task>>
        \/ start_login(h.w, h.data, TRUE)
    BY <1>5 DEF http_login_connected, http_login_event, http_login_read
  <2>. QED  BY <2>1, <2>2 DEF Quiet
<1>6. ASSUME NEW h \in http_trans,
             http_trans_connected(h) \/ http_trans_event(h) \/ http_trans_read(h)
      PROVE  Goal
  <2>1. UNCHANGED <<bev_id, sub_map>>
    BY <1>6 DEF http_trans_connected, http_trans_event, http_trans_read
  <2>2. \/ task' = task
        \/ \E m : task' = [task EXCEPT ![h.w] = [op |-> "send", msg |-> m, j |-> 0]]
    BY <1>6 DEF http_trans_connected, http_trans_event, http_trans_read
  <2>. QED  BY <2>1, <2>2, QuietSend
<1>7. ASSUME NEW w \in Workers, redis_login_callback(w)
      PROVE  Goal
  <2>1. Head(redisq[w]).data \in LoginData
    <3>1. Head(redisq[w]) \in Command
      <4>1. redisq[w] \in Seq(Command) /\ redisq[w] # << >>
        BY <1>7 DEF redis_login_callback, TypeOK
      <4>. QED  BY <4>1, HeadTail
    <3>. QED  BY <1>7, <3>1, CommandFields DEF redis_login_callback
  <2>2. \/ UNCHANGED <<bev_id, sub_map, task>>
        \/ start_login(w, Head(redisq[w]).data, FALSE)
    BY <1>7 DEF redis_login_callback
  <2>. QED  BY <2>1, <2>2 DEF Quiet
<1>8. ASSUME NEW w \in Workers, redis_trans_callback(w) \/ redis_friend_list(w)
      PROVE  Goal
  <2>1. UNCHANGED <<bev_id, sub_map>>
    BY <1>8 DEF redis_trans_callback, redis_friend_list
  <2>2. CASE redis_trans_callback(w)
    <3>1. \/ task' = task
          \/ \E m : task' = [task EXCEPT ![w] = [op |-> "send", msg |-> m, j |-> 0]]
      BY <2>2 DEF redis_trans_callback
    <3>. QED  BY <2>1, <3>1, QuietSend
  <2>3. CASE redis_friend_list(w)
    <3>1. \/ task' = task
          \/ \E k, i, x, order : task' = [task EXCEPT ![w] =
                [op |-> "notify", kind |-> k, id |-> i, bev |-> x,
                 todo |-> order, j |-> 0, seen |-> {}]]
      BY <2>3 DEF redis_friend_list
    <3>2. ASSUME NEW k, NEW i, NEW x, NEW order,
                 task' = [task EXCEPT ![w] =
                   [op |-> "notify", kind |-> k, id |-> i, bev |-> x,
                    todo |-> order, j |-> 0, seen |-> {}]]
          PROVE  Quiet
      <4>1. [op |-> "notify", kind |-> k, id |-> i, bev |-> x,
             todo |-> order, j |-> 0, seen |-> {}].op # "login"
        OBVIOUS
      <4>. QED  BY <2>1, <3>2, <4>1, QuietTask
    <3>3. CASE task' = task
      BY <2>1, <3>3 DEF Quiet
    <3>. QED  BY <3>1, <3>2, <3>3
  <2>. QED  BY <1>8, <2>2, <2>3
<1>9. ASSUME NEW w \in Workers, settle(w) \/ racing_find(w)
      PROVE  Goal
  BY <1>9 DEF settle, racing_find, Quiet
<1>10. ASSUME NEW w \in Workers, notify_del_id(w)
       PROVE  Goal
  BY SMTT(30), <1>10 DEF notify_del_id, Quiet, TypeOK
<1>11. ASSUME NEW w \in Workers, notify_new_msg(w)
       PROVE  Goal
  <2>1. UNCHANGED <<bev_id, sub_map>>
    BY <1>11 DEF notify_new_msg
  <2>2. Idle.op # "login"
    BY DEF Idle
  <2>3. CASE task' = [task EXCEPT ![w] = Idle]
    BY <2>1, <2>2, <2>3, QuietTask
  <2>4. CASE task' = [task EXCEPT ![w].j = task[w].j + 1]
    BY SMTT(30), <1>11, <2>1, <2>4 DEF Quiet, TypeOK
  <2>. QED  BY <1>11, <2>3, <2>4 DEF notify_new_msg, after_send
<1>12. ASSUME NEW w \in Workers, notify_friend(w)
       PROVE  Goal
  <2> DEFINE t == task[w]
  <2>1. UNCHANGED <<bev_id, sub_map>>
    BY <1>12 DEF notify_friend
  <2>2. t.op = "notify" /\ t \in Task
    BY <1>12 DEF notify_friend, TypeOK
  <2>3. next_friend(t).op # "login"
    BY <2>2, TaskFields DEF next_friend, NotifyTask
  <2>4. [next_friend(t) EXCEPT !.seen = @ \cup {Head(t.todo)}].op # "login"
    BY <2>2, TaskFields DEF next_friend, NotifyTask
  <2>5. [t EXCEPT !.j = t.j + 1].op # "login"
    BY <2>2, TaskFields DEF NotifyTask
  <2>6. \/ task' = [task EXCEPT ![w] = next_friend(t)]
        \/ task' = [task EXCEPT ![w] = [next_friend(t) EXCEPT !.seen = @ \cup {Head(t.todo)}]]
        \/ task' = [task EXCEPT ![w] = [t EXCEPT !.j = t.j + 1]]
    BY <1>12 DEF notify_friend, TypeOK
  <2>. QED  BY <2>1, <2>3, <2>4, <2>5, <2>6, QuietTask
<1>13. ASSUME NEW w \in Workers, finish_notify(w)
       PROVE  Goal
  BY <1>13 DEF finish_notify, Idle, Quiet, TypeOK
<1>14. CASE UNCHANGED vars
  BY <1>14 DEF Quiet
<1>. QED
  BY <1>1, <1>2, <1>3, <1>4, <1>5, <1>6, <1>7, <1>8, <1>9, <1>10, <1>11, <1>12, <1>13, <1>14
  DEF Next, Client, Http, Loop, RedisReply

\* Entries of _sub_map may go while a login is completed, but none may come.
LEMMA ErasedStays ==
  ASSUME TypeOK, LoginErased,
         \A v \in Workers, i \in Ids : sub_map'[v][i] = sub_map[v][i] \/ sub_map'[v][i] = Nil,
         \A v \in Workers : task'[v].op = "login" => task[v].op = "login" /\ task'[v].id = task[v].id
  PROVE  LoginErased'
<1>1. \A v \in Workers : task[v].op = "login" => task[v].id \in Ids
  BY SMTT(30), TaskFields DEF TypeOK, LoginTask
<1>. QED  BY <1>1 DEF LoginErased

\* Deleting the login of an id on a worker keeps the entries matched.
LEMMA DeleteOwns ==
  ASSUME TypeOK, BevOwnsSub, NEW w \in Workers, NEW id \in Ids,
         sub_map' = [sub_map EXCEPT ![w][id] = Nil],
         \/ /\ known(w, sub_map[w][id])
            /\ bev_id' = [bev_id EXCEPT ![w][sub_map[w][id]] = Nil]
         \/ ~known(w, sub_map[w][id]) /\ bev_id' = bev_id
  PROVE  BevOwnsSub'
<1> SUFFICES ASSUME NEW v \in Workers, NEW b \in Bevs, bev_id'[v][b] \in Ids
             PROVE  sub_map'[v][bev_id'[v][b]] = b
  BY DEF BevOwnsSub
<1>1. bev_id'[v][b] = bev_id[v][b]
  <2>1. CASE bev_id' = bev_id
    BY <2>1
  <2>2. CASE bev_id' = [bev_id EXCEPT ![w][sub_map[w][id]] = Nil]
    BY <2>2, IdsAssumption DEF TypeOK
  <2>. QED  BY <2>1, <2>2
<1>2. sub_map[v][bev_id[v][b]] = b
  BY <1>1 DEF BevOwnsSub
<1>3. ~(v = w /\ bev_id[v][b] = id)
  <2> SUFFICES ASSUME v = w, bev_id[v][b] = id PROVE FALSE
    OBVIOUS
  <2>1. sub_map[w][id] = b
    BY <1>2
  <2>2. known(w, sub_map[w][id])
    BY <2>1, IdsAssumption DEF known
  <2>3. bev_id' = [bev_id EXCEPT ![w][b] = Nil]
    BY <2>1, <2>2
  <2>4. bev_id'[v][b] = Nil
    BY <2>3 DEF TypeOK
  <2>. QED  BY <2>4, IdsAssumption
<1>. QED  BY <1>1, <1>2, <1>3 DEF TypeOK

\* The inductive step, one case per action that changes a map.
LEMMA OwnsStep ==
  ASSUME TypeOK, BevOwnsSub, LoginErased, [Next]_vars
  PROVE  BevOwnsSub' /\ LoginErased'
<1>1. CASE Quiet
  BY <1>1, QuietStep
<1>2. ASSUME NEW w \in Workers, NEW c \in Conns, new_connection(w, c)
      PROVE  BevOwnsSub' /\ LoginErased'
  <2>1. PICK b \in Bevs : bev_id' = [bev_id EXCEPT ![w][b] = IF @ = Nil THEN NoId ELSE @]
    BY <1>2 DEF new_connection
  <2>2. bev_id \in [Workers -> [Bevs -> Ids \cup {NoId, Nil}]] /\ UNCHANGED <<sub_map, task>>
    BY <1>2 DEF new_connection, TypeOK
  <2>3. BevOwnsSub'
    BY SMT, <2>1, <2>2, IdsAssumption DEF BevOwnsSub
  <2>4. LoginErased'
    BY <2>2 DEF LoginErased
  <2>. QED  BY <2>3, <2>4
<1>3. ASSUME NEW c \in Conns, bufferevent_event_callback(c)
      PROVE  BevOwnsSub' /\ LoginErased'
  <2> DEFINE w == home[c].w
             b == home[c].bev
             id == bev_id[w][b]
  <2>1. w \in Workers /\ b \in Bevs
    BY <1>3, BevsAssumption DEF TypeOK, bufferevent_event_callback, Open
  <2> HIDE DEF w, b
  <2>2. /\ Waiting(w) /\ close_bev(w, b) /\ task' = task
        /\ \/ id \in Ids /\ forget_id(w, id)
           \/ id \notin Ids /\ sub_map' = sub_map
    BY <1>3 DEF bufferevent_event_callback, w, b
  <2>3. BevOwnsSub'
    <3>1. /\ bev_id \in [Workers -> [Bevs -> Ids \cup {NoId, Nil}]]
          /\ sub_map \in [Workers -> [Ids -> Bevs \cup {Nil}]]
      BY DEF TypeOK
    <3>2. /\ bev_id' = [bev_id EXCEPT ![w][b] = Nil]
          /\ \/ id \in Ids /\ sub_map' = [sub_map EXCEPT ![w][id] = Nil]
             \/ id \notin Ids /\ sub_map' = sub_map
      BY <2>2 DEF close_bev, forget_id
    <3>. QED  BY SMT, <2>1, <3>1, <3>2, IdsAssumption DEF BevOwnsSub
  <2>4. LoginErased'
    <3>1. \A v \in Workers, i \in Ids : sub_map'[v][i] = sub_map[v][i] \/ sub_map'[v][i] = Nil
      <4>1. CASE sub_map' = sub_map
        BY <4>1
      <4>2. CASE id \in Ids /\ sub_map' = [sub_map EXCEPT ![w][id] = Nil]
        BY <2>1, <4>2 DEF TypeOK
      <4>. QED  BY <2>2, <4>1, <4>2 DEF forget_id
    <3>. QED  BY <2>2, <3>1, ErasedStays
  <2>. QED  BY <2>3, <2>4
<1>4. ASSUME NEW w \in Workers, del_expire_client(w)
      PROVE  BevOwnsSub' /\ LoginErased'
  <2>1. BevOwnsSub'
    BY <1>4, IdsAssumption DEF del_expire_client, BevOwnsSub, TypeOK
  <2>2. LoginErased'
    BY <1>4, ErasedStays DEF del_expire_client, TypeOK
  <2>. QED  BY <2>1, <2>2
<1>5. ASSUME NEW w \in Workers, finish_login(w)
      PROVE  BevOwnsSub' /\ LoginErased'
  <2> DEFINE t == task[w]
  <2>1. t.id \in Ids /\ t.bev \in Bevs /\ sub_map[w][t.id] = Nil
    <3>1. t \in LoginTask
      BY <1>5, TaskFields DEF TypeOK, finish_login
    <3>. QED  BY <1>5, <3>1 DEF LoginTask, LoginErased, finish_login
  <2>2. /\ bev_id' = [bev_id EXCEPT ![w][t.bev] = t.id]
        /\ sub_map' = [sub_map EXCEPT ![w][t.id] = t.bev]
        /\ task' = [task EXCEPT ![w] = Idle]
    BY <1>5, <2>1 DEF finish_login, TypeOK
  <2>3. BevOwnsSub'
    <3>1. /\ bev_id \in [Workers -> [Bevs -> Ids \cup {NoId, Nil}]]
          /\ sub_map \in [Workers -> [Ids -> Bevs \cup {Nil}]]
      BY DEF TypeOK
    <3>. QED  BY SMT, <2>1, <2>2, <3>1, BevsAssumption DEF BevOwnsSub
  <2>4. LoginErased'
    BY <2>2 DEF LoginErased, TypeOK, Idle
  <2>. QED  BY <2>3, <2>4
<1>6. ASSUME NEW w \in Workers, NEW d \in LoginData, NEW self \in BOOLEAN, start_login(w, d, self)
      PROVE  BevOwnsSub' /\ LoginErased'
  <2>1. d.id \in Ids
    BY DEF LoginData
  <2>2. /\ sub_map' = [sub_map EXCEPT ![w][d.id] = Nil]
        /\ \/ /\ known(w, sub_map[w][d.id])
              /\ bev_id' = [bev_id EXCEPT ![w][sub_map[w][d.id]] = Nil]
           \/ ~known(w, sub_map[w][d.id]) /\ bev_id' = bev_id
        /\ task' = [task EXCEPT ![w] = login_loop(d, self)]
    BY <1>6 DEF start_login, displace_local, forget_id, close_bev
  <2>3. BevOwnsSub'
    BY <2>1, <2>2, DeleteOwns
  <2>4. LoginErased'
    BY <2>1, <2>2 DEF LoginErased, TypeOK, login_loop
  <2>. QED  BY <2>3, <2>4
<1>7. ASSUME NEW w \in Workers, notify_new_msg_callback(w)
      PROVE  BevOwnsSub' /\ LoginErased'
  <2> DEFINE m == Head(pipe[w])
  <2>1. m.to \in Ids
    <3>1. m \in Msg
      BY <1>7, HeadTail DEF TypeOK, notify_new_msg_callback
    <3>. QED  BY <3>1 DEF Msg
  <2> HIDE DEF m
  <2>2. /\ \/ sub_map' = sub_map /\ bev_id' = bev_id
           \/ /\ sub_map' = [sub_map EXCEPT ![w][m.to] = Nil]
              /\ \/ /\ known(w, sub_map[w][m.to])
                    /\ bev_id' = [bev_id EXCEPT ![w][sub_map[w][m.to]] = Nil]
                 \/ ~known(w, sub_map[w][m.to]) /\ bev_id' = bev_id
        /\ task' = [task EXCEPT ![w] = Idle] \/ task' = [task EXCEPT ![w] = Drain]
    BY <1>7, BevsAssumption DEF notify_new_msg_callback, delete_old_login, forget_id, close_bev, known, m
  <2>3. BevOwnsSub'
    <3>1. CASE sub_map' = sub_map /\ bev_id' = bev_id
      BY <3>1 DEF BevOwnsSub
    <3>. QED  BY <2>1, <2>2, <3>1, DeleteOwns
  <2>4. LoginErased'
    <3>1. \A v \in Workers : task'[v].op = "login" => task[v].op = "login" /\ task'[v].id = task[v].id
      <4>1. Idle.op # "login" /\ Drain.op # "login"
        BY DEF Idle, Drain
      <4>2. CASE task' = [task EXCEPT ![w] = Idle]
        BY <4>1, <4>2 DEF TypeOK
      <4>3. CASE task' = [task EXCEPT ![w] = Drain]
        BY <4>1, <4>3 DEF TypeOK
      <4>. QED  BY <2>2, <4>2, <4>3
    <3>2. \A v \in Workers, i \in Ids : sub_map'[v][i] = sub_map[v][i] \/ sub_map'[v][i] = Nil
      <4>1. CASE sub_map' = sub_map
        BY <4>1
      <4>2. CASE sub_map' = [sub_map EXCEPT ![w][m.to] = Nil]
        BY <2>1, <4>2 DEF TypeOK
      <4>. QED  BY <2>2, <4>1, <4>2
    <3>. QED  BY <3>1, <3>2, ErasedStays
  <2>. QED  BY <2>3, <2>4
<1>. QED  BY <1>1, <1>2, <1>3, <1>4, <1>5, <1>6, <1>7, QuietActions

\* For any number of workers, clients and ids, and even if the allocator reuses
\* addresses and clients log in again: an entry of _bev_id is matched by the
\* Subscriber kept for its id, so an id has at most one connection per worker.
THEOREM OneConnectionPerWorker == Spec => []BevOwnsSub
<1>1. Init => BevOwnsSub /\ LoginErased
  BY SMT, IdsAssumption DEF Init, BevOwnsSub, LoginErased, Idle
<1>2. TypeOK /\ BevOwnsSub /\ LoginErased /\ [Next]_vars => BevOwnsSub' /\ LoginErased'
  BY OwnsStep
<1>. QED  BY <1>1, <1>2, TypeCorrect, PTL DEF Spec

-----------------------------------------------------------------------------
(* Queues.                                                                  *)

Has(q, S) == \E k \in 1 .. Len(q) : q[k] \in S
Single(q, S) == \A i, j \in 1 .. Len(q) : q[i] \in S /\ q[j] \in S => i = j

\* What evbuffer_add, write and redisAsyncCommand do to a queue.
LEMMA QueueAppend ==
  ASSUME NEW T, NEW q \in Seq(T), NEW x \in T, NEW S
  PROVE  /\ Has(Append(q, x), S) <=> Has(q, S) \/ x \in S
         /\ Single(q, S) /\ (x \in S => ~Has(q, S)) => Single(Append(q, x), S)
<1>. DEFINE r == Append(q, x)
<1>1. /\ Len(q) \in Nat /\ Len(r) = Len(q) + 1 /\ r[Len(q) + 1] = x
      /\ \A k \in 1 .. Len(q) : r[k] = q[k]
  BY SMT
<1>. HIDE DEF r
<1>2. Has(r, S) <=> Has(q, S) \/ x \in S
  BY SMT, <1>1 DEF Has
<1>3. ASSUME Single(q, S), x \in S => ~Has(q, S) PROVE Single(r, S)
  <2>. SUFFICES ASSUME NEW i \in 1 .. Len(r), NEW j \in 1 .. Len(r), r[i] \in S, r[j] \in S
                PROVE  i = j
    BY DEF Single
  <2>1. \A k \in 1 .. Len(r) : k \in 1 .. Len(q) \/ k = Len(q) + 1
    BY SMT, <1>1
  <2>2. CASE x \in S
    <3>1. \A k \in 1 .. Len(q) : r[k] \notin S
      BY <1>1, <1>3, <2>2 DEF Has
    <3>. QED  BY <2>1, <3>1
  <2>3. CASE x \notin S
    <3>1. i \in 1 .. Len(q) /\ j \in 1 .. Len(q)
      BY <1>1, <2>1, <2>3
    <3>. QED  BY <1>1, <1>3, <3>1 DEF Single
  <2>. QED  BY <2>2, <2>3
<1>. QED  BY <1>2, <1>3 DEF r

\* Taking the first element off a queue.
LEMMA QueueTail ==
  ASSUME NEW T, NEW q \in Seq(T), q # << >>, NEW S
  PROVE  /\ Has(Tail(q), S) => Has(q, S)
         /\ Head(q) \in S => Has(q, S)
         /\ Single(q, S) => Single(Tail(q), S) /\ (Head(q) \in S => ~Has(Tail(q), S))
<1>. DEFINE r == Tail(q)
<1>1. /\ Len(q) \in Nat /\ Len(q) >= 1 /\ Len(r) = Len(q) - 1 /\ Head(q) = q[1]
      /\ \A k \in 1 .. Len(q) - 1 : r[k] = q[k + 1]
  BY SMT
<1>. HIDE DEF r
<1>2. \A k \in 1 .. Len(r) : k + 1 \in 1 .. Len(q) /\ r[k] = q[k + 1] /\ k + 1 # 1 /\ k \in Int
  BY SMT, <1>1
<1>3. Has(r, S) => Has(q, S)
  BY <1>2 DEF Has
<1>4. 1 \in 1 .. Len(q)
  BY SMT, <1>1
<1>5. Head(q) \in S => Has(q, S)
  BY <1>1, <1>4 DEF Has
<1>6. ASSUME Single(q, S) PROVE Single(r, S)
  <2>. SUFFICES ASSUME NEW i \in 1 .. Len(r), NEW j \in 1 .. Len(r), r[i] \in S, r[j] \in S
                PROVE  i = j
    BY DEF Single
  <2>1. i + 1 = j + 1
    BY <1>2, <1>6 DEF Single
  <2>. QED  BY SMT, <2>1
<1>7. ASSUME Single(q, S), Head(q) \in S PROVE ~Has(r, S)
  BY <1>1, <1>2, <1>4, <1>7 DEF Single, Has
<1>. QED  BY <1>3, <1>5, <1>6, <1>7 DEF r

\* Several elements are appended, none of them in S.
LEMMA QueueConcat ==
  ASSUME NEW T, NEW q \in Seq(T), NEW r \in Seq(T), NEW S, ~Has(r, S)
  PROVE  /\ Has(q \o r, S) => Has(q, S)
         /\ Single(q, S) => Single(q \o r, S)
<1>. DEFINE p == q \o r
<1>1. /\ Len(q) \in Nat /\ Len(r) \in Nat /\ Len(p) = Len(q) + Len(r)
      /\ \A k \in 1 .. Len(q) : p[k] = q[k]
      /\ \A k \in 1 .. Len(p) : k \notin 1 .. Len(q) => p[k] = r[k - Len(q)]
  BY SMT
<1>. HIDE DEF p
<1>2. \A k \in 1 .. Len(p) : k \notin 1 .. Len(q) => k - Len(q) \in 1 .. Len(r)
  BY SMT, <1>1
<1>3. \A k \in 1 .. Len(p) : p[k] \in S => k \in 1 .. Len(q) /\ q[k] \in S
  BY <1>1, <1>2 DEF Has
<1>4. Has(p, S) => Has(q, S)
  BY <1>3 DEF Has
<1>5. Single(q, S) => Single(p, S)
  BY <1>3 DEF Single
<1>. QED  BY <1>4, <1>5 DEF p

\* A worker's queue of Redis commands gets none of S: an answer is taken off, or
\* other commands are sent.
LEMMA NoneAsked ==
  ASSUME TypeOK, NEW S,
         \/ UNCHANGED redisq
         \/ \E w \in Workers : redisq[w] # << >> /\ redisq' = [redisq EXCEPT ![w] = Tail(@)]
         \/ \E w \in Workers : \E x \in Command : x \notin S /\ Ask(w, x)
         \/ \E w \in Workers : \E r \in Seq(Command) :
              ~Has(r, S) /\ redisq' = [redisq EXCEPT ![w] = @ \o r],
         NEW v \in Workers
  PROVE  /\ Has(redisq'[v], S) => Has(redisq[v], S)
         /\ Single(redisq[v], S) => Single(redisq'[v], S)
<1>. DEFINE Goal == /\ Has(redisq'[v], S) => Has(redisq[v], S)
                    /\ Single(redisq[v], S) => Single(redisq'[v], S)
<1>1. redisq[v] \in Seq(Command)
  BY DEF TypeOK
<1>2. ASSUME redisq'[v] = redisq[v] PROVE Goal
  BY <1>2
<1>3. ASSUME NEW w \in Workers, redisq[w] # << >>, redisq' = [redisq EXCEPT ![w] = Tail(@)]
      PROVE  Goal
  <2>1. redisq'[v] = IF v = w THEN Tail(redisq[v]) ELSE redisq[v]
    BY <1>3 DEF TypeOK
  <2>2. CASE v = w
    <3>1. redisq[v] # << >> /\ redisq'[v] = Tail(redisq[v])
      BY <1>3, <2>1, <2>2
    <3>2. /\ Has(Tail(redisq[v]), S) => Has(redisq[v], S)
          /\ Single(redisq[v], S) => Single(Tail(redisq[v]), S)
      BY <1>1, <3>1, QueueTail
    <3>. QED  BY <3>1, <3>2
  <2>. QED  BY <1>2, <2>1, <2>2
<1>4. ASSUME NEW w \in Workers, NEW x \in Command, x \notin S, Ask(w, x)
      PROVE  Goal
  <2>1. redisq'[v] = IF v = w THEN Append(redisq[v], x) ELSE redisq[v]
    BY <1>4 DEF TypeOK, Ask
  <2>2. /\ Has(Append(redisq[v], x), S) => Has(redisq[v], S)
        /\ Single(redisq[v], S) => Single(Append(redisq[v], x), S)
    BY <1>1, <1>4, QueueAppend
  <2>. QED  BY <1>2, <2>1, <2>2
<1>5. ASSUME NEW w \in Workers, NEW r \in Seq(Command), ~Has(r, S),
             redisq' = [redisq EXCEPT ![w] = @ \o r]
      PROVE  Goal
  <2>1. redisq'[v] = IF v = w THEN redisq[v] \o r ELSE redisq[v]
    BY <1>5 DEF TypeOK
  <2>2. /\ Has(redisq[v] \o r, S) => Has(redisq[v], S)
        /\ Single(redisq[v], S) => Single(redisq[v] \o r, S)
    BY <1>1, <1>5, QueueConcat
  <2>. QED  BY <1>2, <2>1, <2>2
<1>. QED  BY <1>2, <1>3, <1>4, <1>5

-----------------------------------------------------------------------------
(* The steps that concern no login.                                         *)

\* At most one answer is taken off, or commands are sent that have their callback in K.
RedisStep(K) ==
  \/ UNCHANGED redisq
  \/ \E w \in Workers : redisq[w] # << >> /\ redisq' = [redisq EXCEPT ![w] = Tail(@)]
  \/ \E w \in Workers : \E x \in Command : x.cb \in K /\ Ask(w, x)
  \/ \E w \in Workers : \E r \in Seq(Command) :
       (\A k \in 1 .. Len(r) : r[k].cb \in K) /\ redisq' = [redisq EXCEPT ![w] = @ \o r]

\* Commands of the kinds K that come or go leave the commands of a set of other kinds
\* as they are.
LEMMA AskedOther ==
  ASSUME TypeOK, NEW K, RedisStep(K), NEW S, \A q \in S : q.cb \notin K, NEW v \in Workers
  PROVE  /\ Has(redisq'[v], S) => Has(redisq[v], S)
         /\ Single(redisq[v], S) => Single(redisq'[v], S)
<1>1. \/ UNCHANGED redisq
      \/ \E w \in Workers : redisq[w] # << >> /\ redisq' = [redisq EXCEPT ![w] = Tail(@)]
      \/ \E w \in Workers : \E x \in Command : x \notin S /\ Ask(w, x)
      \/ \E w \in Workers : \E r \in Seq(Command) :
           ~Has(r, S) /\ redisq' = [redisq EXCEPT ![w] = @ \o r]
  BY DEF RedisStep, Has
<1>. QED  BY <1>1, NoneAsked

TasksStay ==
  \A v \in Workers : task'[v].op = "login" =>
    task[v].op = "login" /\ task'[v].id = task[v].id /\ task'[v].bev = task[v].bev

\* Taking up a task that is not a login.
LEMMA TakesUp ==
  ASSUME TypeOK, NEW u, NEW t, t.op # "login", task' = task \/ task' = [task EXCEPT ![u] = t]
  PROVE  TasksStay
<1>1. CASE task' = task
  BY <1>1 DEF TasksStay
<1>2. CASE task' = [task EXCEPT ![u] = t]
  BY <1>2 DEF TasksStay, TypeOK
<1>. QED  BY <1>1, <1>2

\* A worker that takes up the sending of a message takes up no login.
LEMMA TakesUpSend ==
  ASSUME TypeOK, NEW u,
         task' = task \/ \E m : task' = [task EXCEPT ![u] = [op |-> "send", msg |-> m, j |-> 0]]
  PROVE  TasksStay
<1>1. CASE task' = task
  BY <1>1 DEF TasksStay
<1>2. ASSUME NEW m, task' = [task EXCEPT ![u] = [op |-> "send", msg |-> m, j |-> 0]]
      PROVE  TasksStay
  <2>1. [op |-> "send", msg |-> m, j |-> 0].op # "login"
    OBVIOUS
  <2>. QED  BY <1>2, <2>1, TakesUp
<1>. QED  BY <1>1, <1>2

Other == {"trans", "online", "offline"}

Passive == TasksStay /\ http_login' \subseteq http_login /\ RedisStep(Other)
             /\ UNCHANGED <<home, at, bev_id, sub_map, conn_num, claimed>>

\* Commands other than logins.
LEMMA OtherCommands ==
  /\ \A m \in Msg : [cb |-> "trans", msg |-> m] \in Command
  /\ \A id \in Ids : [cb |-> "offline", id |-> id] \in Command
  /\ \A id \in Ids, b \in Bevs : [cb |-> "online", id |-> id, bev |-> b] \in Command
BY DEF Command

\* del_expire_client asks for the friends of those that went offline.
LEMMA ExpireAsks ==
  ASSUME TypeOK, NEW w \in Workers, del_expire_client(w)
  PROVE  RedisStep({"offline"})
<1>. DEFINE expired == {i \in late[w] : sub_map[w][i] # Nil /\ \E b \in Bevs : bev_id[w][b] = i}
<1>1. expired \subseteq Ids
  BY DEF TypeOK
<1>2. PICK order \in Listings(expired) :
        redisq' = [redisq EXCEPT ![w] = @ \o [k \in DOMAIN order |-> [cb |-> "offline", id |-> order[k]]]]
  BY DEF del_expire_client
<1>. HIDE DEF expired
<1>3. order \in Seq(Ids)
  BY SMT, <1>1, <1>2, ListingType
<1>. DEFINE r == [k \in DOMAIN order |-> [cb |-> "offline", id |-> order[k]]]
<1>4. DOMAIN order = 1 .. Len(order) /\ Len(order) \in Nat
  BY SMT, <1>3
<1>5. \A k \in DOMAIN order : [cb |-> "offline", id |-> order[k]] \in Command
  BY SMT, <1>3, OtherCommands
<1>6. r \in Seq(Command) /\ Len(r) = Len(order)
  BY SMT, <1>4, <1>5
<1>7. \A k \in 1 .. Len(r) : r[k].cb \in {"offline"}
  BY <1>4, <1>6
<1>. HIDE DEF r
<1>8. redisq' = [redisq EXCEPT ![w] = @ \o r]
  BY <1>2 DEF r
<1>. QED  BY <1>6, <1>7, <1>8 DEF RedisStep

\* What a client does without logging in, and the HTTP checks of messages.
LEMMA PassiveClient ==
  ASSUME TypeOK,
         \/ \E c \in Conns : read_heartbeat(c)
         \/ \E w \in Workers, id \in Ids : heartbeat_missed(w, id)
         \/ \E c \in Conns, from, to \in Ids : read_trans(c, from, to)
         \/ \E h \in http_login : http_login_event(h)
         \/ \E h \in http_trans : http_trans_connected(h) \/ http_trans_event(h) \/ http_trans_read(h)
         \/ UNCHANGED vars
  PROVE  Passive
<1>1. ASSUME UNCHANGED <<home, at, bev_id, sub_map, conn_num, claimed, task, redisq>>,
             http_login' \subseteq http_login
      PROVE  Passive
  BY <1>1 DEF Passive, TasksStay, RedisStep
<1>2. ASSUME NEW c \in Conns, read_heartbeat(c) PROVE Passive
  BY <1>1, <1>2 DEF read_heartbeat
<1>3. ASSUME NEW w \in Workers, NEW id \in Ids, heartbeat_missed(w, id) PROVE Passive
  BY <1>1, <1>3 DEF heartbeat_missed
<1>4. ASSUME NEW c \in Conns, NEW from \in Ids, NEW to \in Ids, read_trans(c, from, to)
      PROVE  Passive
  <2>. DEFINE m == [kind |-> "data", from |-> from, to |-> to, n |-> Len(sender) + 1]
  <2>1. m \in Msg
    BY SMT DEF Msg, TypeOK
  <2>. HIDE DEF m
  <2>2. home[c].w \in Workers
    BY <1>4, BevsAssumption DEF TypeOK, read_trans, Open
  <2>3. /\ UNCHANGED <<home, at, bev_id, sub_map, conn_num, claimed, http_login>>
        /\ \/ task' = task
           \/ task' = [task EXCEPT ![home[c].w] = [op |-> "send", msg |-> m, j |-> 0]]
        /\ UNCHANGED redisq \/ Ask(home[c].w, [cb |-> "trans", msg |-> m])
    BY <1>4 DEF read_trans, m
  <2>4. TasksStay
    BY <2>3, TakesUpSend
  <2>5. [cb |-> "trans", msg |-> m] \in Command /\ [cb |-> "trans", msg |-> m].cb \in Other
    BY <2>1, OtherCommands DEF Other
  <2>6. RedisStep(Other)
    BY <2>2, <2>3, <2>5 DEF RedisStep
  <2>. QED  BY <2>3, <2>4, <2>6 DEF Passive
<1>5. ASSUME NEW h \in http_login, http_login_event(h) PROVE Passive
  <2>1. UNCHANGED <<home, at, bev_id, sub_map, conn_num, claimed, task, redisq>> /\ http_login' = http_login \ {h}
    BY <1>5 DEF http_login_event
  <2>. QED  BY <1>1, <2>1
<1>6. ASSUME NEW h \in http_trans,
             http_trans_connected(h) \/ http_trans_event(h) \/ http_trans_read(h)
      PROVE  Passive
  <2>1. /\ UNCHANGED <<home, at, bev_id, sub_map, conn_num, claimed, http_login, redisq>>
        /\ \/ task' = task
           \/ \E m : task' = [task EXCEPT ![h.w] = [op |-> "send", msg |-> m, j |-> 0]]
    BY <1>6 DEF http_trans_connected, http_trans_event, http_trans_read
  <2>2. TasksStay
    BY <2>1, TakesUpSend
  <2>. QED  BY <2>1, <2>2 DEF Passive, RedisStep
<1>7. CASE UNCHANGED vars
  BY <1>1, <1>7
<1>. QED  BY <1>2, <1>3, <1>4, <1>5, <1>6, <1>7

\* The notices that the answer to command q, a friend list, leads to.
Notices(q, order) ==
  [op |-> "notify", kind |-> q.cb, id |-> q.id, bev |-> IF q.cb = "online" THEN q.bev ELSE Nil,
   todo |-> order, j |-> 0, seen |-> {}]

\* redis_friend_list takes the answer and starts on the notices, or has none to send.
LEMMA ListsFriends ==
  ASSUME NEW w, redis_friend_list(w)
  PROVE  /\ redisq[w] # << >> /\ redisq' = [redisq EXCEPT ![w] = Tail(@)]
         /\ Head(redisq[w]).cb \in {"online", "offline"}
         /\ UNCHANGED <<registry, pipe, http_login, http_trans, touching, crashed, missed, client>>
         /\ \/ task' = task
            \/ \E order : /\ Notices(Head(redisq[w]), order).op # "login"
                          /\ Notices(Head(redisq[w]), order).op # "send"
                          /\ task' = [task EXCEPT ![w] = Notices(Head(redisq[w]), order)]
<1>1. \/ task' = task
      \/ \E order : task' = [task EXCEPT ![w] = Notices(Head(redisq[w]), order)]
  BY DEF redis_friend_list, Notices
<1>2. \A order : Notices(Head(redisq[w]), order).op # "login" /\ Notices(Head(redisq[w]), order).op # "send"
  BY DEF Notices
<1>. QED  BY <1>1, <1>2 DEF redis_friend_list

\* The loops over the workers, and the Redis answers that are not about a login.
LEMMA PassiveLoop ==
  ASSUME TypeOK, NEW w \in Workers,
         \/ settle(w) \/ racing_find(w) \/ notify_del_id(w) \/ notify_new_msg(w)
         \/ notify_friend(w) \/ finish_notify(w) \/ redis_trans_callback(w) \/ redis_friend_list(w)
  PROVE  Passive
<1>1. ASSUME UNCHANGED <<home, at, bev_id, sub_map, conn_num, claimed, http_login, redisq>>, TasksStay
      PROVE  Passive
  BY <1>1 DEF Passive, RedisStep
<1>2. CASE settle(w) \/ racing_find(w)
  <2>1. UNCHANGED <<home, at, bev_id, sub_map, conn_num, claimed, http_login, redisq, task>>
    BY <1>2 DEF settle, racing_find
  <2>. QED  BY <1>1, <2>1 DEF TasksStay
<1>3. CASE notify_del_id(w)
  <2>1. /\ UNCHANGED <<home, at, bev_id, sub_map, conn_num, claimed, http_login, redisq>>
        /\ task' = [task EXCEPT ![w].j = task[w].j + 1]
        /\ task[w].op = "login"
    BY <1>3 DEF notify_del_id
  <2>2. task[w] \in LoginTask
    BY <2>1, TaskFields DEF TypeOK
  <2>3. TasksStay
    BY <2>1, <2>2 DEF TasksStay, TypeOK, LoginTask
  <2>. QED  BY <1>1, <2>1, <2>3
<1>4. CASE notify_new_msg(w)
  <2>1. /\ UNCHANGED <<home, at, bev_id, sub_map, conn_num, claimed, http_login, redisq>>
        /\ task' = [task EXCEPT ![w] = Idle] \/ task' = [task EXCEPT ![w].j = task[w].j + 1]
        /\ task[w].op = "send"
    BY <1>4 DEF notify_new_msg, after_send
  <2>2. task[w] \in SendTask
    BY <2>1, TaskFields DEF TypeOK
  <2>3. Idle.op # "login" /\ [task[w] EXCEPT !.j = task[w].j + 1].op # "login"
    BY <2>2 DEF Idle, SendTask
  <2>4. task' = [task EXCEPT ![w] = Idle] \/ task' = [task EXCEPT ![w] = [task[w] EXCEPT !.j = task[w].j + 1]]
    BY <2>1 DEF TypeOK
  <2>5. TasksStay
    BY <2>3, <2>4, TakesUp
  <2>. QED  BY <1>1, <2>1, <2>5
<1>5. CASE notify_friend(w)
  <2>. DEFINE t == task[w]
  <2>1. UNCHANGED <<home, at, bev_id, sub_map, conn_num, claimed, http_login, redisq>>
    BY <1>5 DEF notify_friend
  <2>2. t.op = "notify" /\ t \in Task
    BY <1>5 DEF notify_friend, TypeOK
  <2>3. /\ next_friend(t).op # "login"
        /\ [next_friend(t) EXCEPT !.seen = @ \cup {Head(t.todo)}].op # "login"
        /\ [t EXCEPT !.j = t.j + 1].op # "login"
    BY <2>2, TaskFields DEF next_friend, NotifyTask
  <2>4. \/ task' = [task EXCEPT ![w] = next_friend(t)]
        \/ task' = [task EXCEPT ![w] = [next_friend(t) EXCEPT !.seen = @ \cup {Head(t.todo)}]]
        \/ task' = [task EXCEPT ![w] = [t EXCEPT !.j = t.j + 1]]
    BY <1>5 DEF notify_friend, TypeOK
  <2>5. TasksStay
    BY <2>3, <2>4, TakesUp
  <2>. QED  BY <1>1, <2>1, <2>5
<1>6. CASE finish_notify(w)
  <2>1. /\ UNCHANGED <<home, at, bev_id, sub_map, conn_num, claimed, http_login, redisq>>
        /\ task' = [task EXCEPT ![w] = Idle]
    BY <1>6 DEF finish_notify
  <2>2. Idle.op # "login"
    BY DEF Idle
  <2>3. TasksStay
    BY <2>1, <2>2, TakesUp
  <2>. QED  BY <1>1, <2>1, <2>3
<1>7. ASSUME UNCHANGED <<home, at, bev_id, sub_map, conn_num, claimed, http_login>>, TasksStay,
             redisq[w] # << >>, redisq' = [redisq EXCEPT ![w] = Tail(@)]
      PROVE  Passive
  BY <1>7 DEF Passive, RedisStep
<1>8. CASE redis_trans_callback(w)
  <2>1. /\ UNCHANGED <<home, at, bev_id, sub_map, conn_num, claimed, http_login>>
        /\ redisq[w] # << >> /\ redisq' = [redisq EXCEPT ![w] = Tail(@)]
        /\ \/ task' = task
           \/ \E m : task' = [task EXCEPT ![w] = [op |-> "send", msg |-> m, j |-> 0]]
    BY <1>8 DEF redis_trans_callback
  <2>2. TasksStay
    BY <2>1, TakesUpSend
  <2>. QED  BY <1>7, <2>1, <2>2
<1>9. CASE redis_friend_list(w)
  <2>1. /\ UNCHANGED <<home, at, bev_id, sub_map, conn_num, claimed, http_login>>
        /\ redisq[w] # << >> /\ redisq' = [redisq EXCEPT ![w] = Tail(@)]
        /\ task' = task \/ \E t : t.op # "login" /\ task' = [task EXCEPT ![w] = t]
    BY <1>9, ListsFriends
  <2>2. TasksStay
    <3>1. ASSUME NEW t, t.op # "login", task' = [task EXCEPT ![w] = t] PROVE TasksStay
      BY <3>1, TakesUp
    <3>2. task' = task => TasksStay
      BY DEF TasksStay
    <3>. QED  BY <2>1, <3>1, <3>2
  <2>. QED  BY <1>7, <2>1, <2>2
<1>. QED  BY <1>2, <1>3, <1>4, <1>5, <1>6, <1>8, <1>9

\* Every step is passive, or it is about a connection or a login.
LEMMA PassiveActions ==
  ASSUME TypeOK, [Next]_vars
  PROVE  \/ Passive
         \/ \E w \in Workers, c \in Conns : new_connection(w, c)
         \/ \E c \in Conns : bufferevent_event_callback(c)
         \/ \E c \in Conns, id \in Ids : read_login(c, id)
         \/ \E h \in http_login : http_login_connected(h) \/ http_login_read(h)
         \/ \E w \in Workers : \/ del_expire_client(w)
                               \/ finish_login(w)
                               \/ redis_login_callback(w)
                               \/ notify_new_msg_callback(w)
BY PassiveClient, PassiveLoop DEF Next, Client, Http, Loop, RedisReply
=============================================================================
