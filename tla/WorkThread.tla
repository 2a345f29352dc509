----------------------------- MODULE WorkThread -----------------------------
(***************************************************************************)
(* The worker threads of eglcomet (src/core/work_thread.cc).  Every worker *)
(* runs one libevent loop over its client connections, its message pipe,   *)
(* its Redis link and its HTTP checks.  A handler of one worker runs       *)
(* without interruption by the other handlers of that worker; it           *)
(* interleaves with the other workers wherever it reads their _sub_map or  *)
(* writes their pipe, which it does without a lock.                        *)
(***************************************************************************)
EXTENDS Integers, Sequences, FiniteSets

CONSTANTS
  NumWorkers,     \* _work_thread_num
  Ids,            \* account ids, 0 excluded
  Wechat,         \* the ids with a bit of 0xFFFF000000000000 set
  Conns,          \* client connections, each accepted at most once
  Bevs,           \* addresses bufferevent_socket_new can return
  NoId,           \* the id 0 of a connection that has not logged in
  Nil,            \* NULL, end() of a map, a freed bufferevent
  PipeCap,        \* messages a pipe holds
  AddrReuse,      \* may the allocator return an address it returned before?
  MaxLogins,      \* bound: login packets per connection
  MaxTrans,       \* bound: messages the clients send
  GetReplies,     \* Redis answers to GET sToken: "match", "mismatch", "nil"
  ZscoreReplies,  \* Redis answers to ZSCORE: "string", "nil", "null"
  FriendLists,    \* Redis answers to ZRANGE: sets of ids
  HttpReplies     \* HTTP outcomes: "ok", "refused", "error", "noconnect"

Workers == 0 .. NumWorkers - 1

ASSUME WorkersAssumption == NumWorkers \in Nat \ {0}
ASSUME IdsAssumption == NoId \notin Ids /\ Nil \notin Ids /\ NoId # Nil
ASSUME BevsAssumption == Nil \notin Bevs /\ Nil \notin Conns
ASSUME PlacesAssumption == Nil \notin [w: Workers, bev: Bevs]
ASSUME FiniteAssumption == IsFiniteSet(Ids) /\ IsFiniteSet(Bevs) /\ IsFiniteSet(Conns)
\* A part of a finite set has a size.  This follows from FiniteAssumption
\* (SizesFollow in Connections_proofs), and spares the other proofs the theorems
\* on finite sets.
ASSUME SizeAssumption == \A S \in (SUBSET Ids) \cup (SUBSET Bevs) : Cardinality(S) \in Nat
ASSUME WechatAssumption == Wechat \subseteq Ids
ASSUME BoundsAssumption ==
  PipeCap \in Nat /\ MaxLogins \in Nat /\ MaxTrans \in Nat /\ AddrReuse \in BOOLEAN
ASSUME RepliesAssumption ==
  /\ GetReplies \subseteq {"match", "mismatch", "nil"}
  /\ ZscoreReplies \subseteq {"string", "nil", "null"}
  /\ FriendLists \subseteq SUBSET Ids
  /\ HttpReplies \subseteq {"ok", "refused", "error", "noconnect"}

VARIABLES
  home,        \* the worker and the address a connection got when it was accepted
  at,          \* the connection whose bufferevent is allocated at an address
  bev_id,      \* _bev_id of each worker: Nil is "no such key"
  sub_map,     \* _sub_map of each worker: the Subscriber's _bev, Nil is "no such key"
  late,        \* ids whose Subscriber has missed two heartbeat periods
  conn_num,    \* _conn_num of each worker
  pipe,        \* _new_msg_fd of each worker
  redisq,      \* commands sent on each worker's _redis and not answered
  http_login,  \* HTTP login checks in progress
  http_trans,  \* HTTP relation checks in progress
  task,        \* the handler a worker is in the middle of
  touching,    \* ids whose node of _sub_map the running handler is changing
  claimed,     \* ids a connection has sent a login packet for, in order
  replies,     \* login replies written to a connection
  inbox,       \* messages written to a connection
  sender,      \* the connections that sent message 1, 2, ...
  crashed,     \* the process has died of a null or end() dereference
  missed       \* history: ids a login or message missed by a race or a full pipe

registry == <<home, at, bev_id, sub_map, late, conn_num>>
pending  == <<pipe, redisq, http_login, http_trans>>
running  == <<task, touching, crashed, missed>>
client   == <<claimed, replies, inbox, sender>>
vars     == <<registry, pending, running, client>>

-----------------------------------------------------------------------------
(* Data that travels: TransData, LoginData and the Redis commands.         *)

Msg == [kind: {"data", "online", "offline", "del"}, from: Ids, to: Ids, n: Nat]
FriendReport == [kind: {"list"}, seen: SUBSET Ids]
LoginData == [id: Ids, bev: Bevs, obj: Conns \X Nat]

\* Mutant: to_id is not filled in.
DelMsg_blank(id) == [kind |-> "del", from |-> id, to |-> NoId, n |-> 0]

\* TransData with msg_type 1, as notify_del_id builds it.
DelMsg(id) == [kind |-> "del", from |-> id, to |-> id, n |-> 0]

Command ==
       [cb: {"login"}, data: LoginData]
  \cup [cb: {"trans"}, msg: Msg]
  \cup [cb: {"online"}, id: Ids, bev: Bevs]
  \cup [cb: {"offline"}, id: Ids]

Idle  == [op |-> "idle"]
Drain == [op |-> "drain"]
LoginTask == [op: {"login"}, id: Ids, bev: Bevs, self: BOOLEAN, j: 0 .. NumWorkers]
SendTask  == [op: {"send"}, msg: Msg, j: 0 .. NumWorkers]
NotifyTask(kind, bevs) ==
  [op: {"notify"}, kind: {kind}, id: Ids, bev: bevs, todo: Seq(Ids), j: 0 .. NumWorkers,
   seen: SUBSET Ids]
Task == {Idle, Drain} \cup LoginTask \cup SendTask
          \cup NotifyTask("online", Bevs) \cup NotifyTask("offline", {Nil})

TypeOK ==
  /\ home \in [Conns -> [w: Workers, bev: Bevs] \cup {Nil}]
  /\ at \in [Bevs -> Conns \cup {Nil}]
  /\ bev_id \in [Workers -> [Bevs -> Ids \cup {NoId, Nil}]]
  /\ sub_map \in [Workers -> [Ids -> Bevs \cup {Nil}]]
  /\ late \in [Workers -> SUBSET Ids]
  /\ conn_num \in [Workers -> Int]
  /\ pipe \in [Workers -> Seq(Msg)]
  /\ redisq \in [Workers -> Seq(Command)]
  /\ http_login \subseteq [w: Workers, data: LoginData, stage: {"connecting", "posted"}]
  /\ http_trans \subseteq [w: Workers, msg: Msg, stage: {"connecting", "posted"}]
  /\ task \in [Workers -> Task]
  /\ touching \in [Workers -> SUBSET Ids]
  /\ claimed \in [Conns -> Seq(Ids)]
  /\ replies \in [Conns -> Seq({"ok", "fail"})]
  /\ inbox \in [Conns -> Seq(Msg \cup FriendReport)]
  /\ sender \in Seq(Conns)
  /\ crashed \in BOOLEAN
  /\ missed \subseteq {"overlap", "login", "message"} \X Ids

Init ==
  /\ home = [c \in Conns |-> Nil]
  /\ at = [b \in Bevs |-> Nil]
  /\ bev_id = [w \in Workers |-> [b \in Bevs |-> Nil]]
  /\ sub_map = [w \in Workers |-> [i \in Ids |-> Nil]]
  /\ late = [w \in Workers |-> {}]
  /\ conn_num = [w \in Workers |-> 0]
  /\ pipe = [w \in Workers |-> << >>]
  /\ redisq = [w \in Workers |-> << >>]
  /\ http_login = {}
  /\ http_trans = {}
  /\ task = [w \in Workers |-> Idle]
  /\ touching = [w \in Workers |-> {}]
  /\ claimed = [c \in Conns |-> << >>]
  /\ replies = [c \in Conns |-> << >>]
  /\ inbox = [c \in Conns |-> << >>]
  /\ sender = << >>
  /\ crashed = FALSE
  /\ missed = {}

-----------------------------------------------------------------------------
(* Helpers.                                                                *)

\* The worker is between two accesses to its own _sub_map.
Ready(w) == ~crashed /\ touching[w] = {}

\* The worker is in event_base_dispatch, waiting for an event.
Waiting(w) == Ready(w) /\ task[w] = Idle

\* The connection's bufferevent is allocated, so its callbacks can run.
Open(c) == home[c] # Nil /\ at[home[c].bev] = c

\* Mutant: the completion of a check takes for granted that the client is there.
known_unchecked(w, x) == x # Nil

\* _bev_id.find(x) != end() on worker w.
known(w, x) == x \in {b \in Bevs : bev_id[w][b] # Nil}

\* Mutant: the deletion of an old login is sent without looking for one.
find_always(j, id) == {TRUE}

\* The possible results of looking an id up in the _sub_map of worker j from
\* any thread.  While j is changing its map the read races with the write: it
\* may see the map before or after, or miss a neighbour in the same bucket.
find(j, id) ==
  LET present == sub_map[j][id] # Nil
  IN IF touching[j] = {}
     THEN {present}
     ELSE {FALSE} \cup (IF present \/ id \in touching[j] THEN {TRUE} ELSE {})

\* For the history: an id that is there, and that a lookup or a write failed to reach.
overlooked(by, j, id) == {<<by, i>> : i \in {x \in {id} : sub_map[j][x] # Nil}}

\* write() on the non-blocking pipe of worker j succeeds.
HasRoom(j) == Len(pipe[j]) < PipeCap

\* evbuffer_add on the output of bufferevent b; the bytes of a freed one are lost.
Write(box, b, item) ==
  IF at[b] = Nil THEN box ELSE [box EXCEPT ![at[b]] = Append(@, item)]

\* Mutant: the entry of _bev_id stays.
close_bev_known(w, b) ==
  /\ at' = [at EXCEPT ![b] = Nil]
  /\ UNCHANGED bev_id

\* bufferevent_free, and the entry of _bev_id erased.
close_bev(w, b) ==
  /\ at' = [at EXCEPT ![b] = Nil]
  /\ bev_id' = [bev_id EXCEPT ![w][b] = Nil]

\* Mutant: the Subscriber is left behind.
forget_id_not(w, id) == UNCHANGED <<sub_map, late, touching>>

\* The Subscriber deleted, and the entry of _sub_map erased.
forget_id(w, id) ==
  /\ sub_map' = [sub_map EXCEPT ![w][id] = Nil]
  /\ late' = [late EXCEPT ![w] = @ \ {id}]
  /\ touching' = [touching EXCEPT ![w] = IF sub_map[w][id] = Nil THEN {} ELSE {id}]

\* Mutant: two threads' updates of the counter can get lost.
add_conn_lost(w, n) == conn_num' \in {conn_num, [conn_num EXCEPT ![w] = @ + n]}

\* __sync_fetch_and_add on _conn_num.
add_conn(w, n) == conn_num' = [conn_num EXCEPT ![w] = @ + n]

\* redisAsyncCommand on the worker's link.
Ask(w, cmd) == redisq' = [redisq EXCEPT ![w] = Append(@, cmd)]

\* The orders in which a set can be listed.
Listings(S) == {f \in [1 .. Cardinality(S) -> S] : \A i, j \in DOMAIN f : f[i] = f[j] => i = j}

-----------------------------------------------------------------------------
(* Connections.                                                            *)

\* notify_new_conn_callback, a descriptor read from the connection pipe.
\* _bev_id.insert leaves an entry that is already there.
new_connection(w, c) ==
  /\ Waiting(w)
  /\ home[c] = Nil
  /\ \E b \in Bevs :
       /\ at[b] = Nil
       /\ AddrReuse \/ \A d \in Conns : home[d] # Nil => home[d].bev # b
       /\ home' = [home EXCEPT ![c] = [w |-> w, bev |-> b]]
       /\ at' = [at EXCEPT ![b] = c]
       /\ bev_id' = [bev_id EXCEPT ![w][b] = IF @ = Nil THEN NoId ELSE @]
  /\ add_conn(w, 1)
  /\ UNCHANGED <<sub_map, late, pending, running, client>>

\* bufferevent_event_callback: the client closed or the socket failed.
bufferevent_event_callback(c) ==
  /\ Open(c)
  /\ LET w  == home[c].w
         b  == home[c].bev
         id == bev_id[w][b]
     IN /\ Waiting(w)
        /\ close_bev(w, b)
        /\ add_conn(w, -1)
        /\ \/ /\ id \in Ids
              /\ forget_id(w, id)
              /\ Ask(w, [cb |-> "offline", id |-> id])
           \/ /\ id \notin Ids
              /\ UNCHANGED <<sub_map, late, touching, redisq>>
  /\ UNCHANGED <<home, pipe, http_login, http_trans, task, crashed, missed, client>>

\* del_expire_client, on the timeout command.  Each id has at most one entry of
\* _bev_id (BevOwnsSub), so the order of the scan only shows in the commands.
del_expire_client(w) ==
  LET expired == {i \in late[w] : sub_map[w][i] # Nil /\ \E b \in Bevs : bev_id[w][b] = i}
      dead    == {b \in Bevs : bev_id[w][b] \in expired}
  IN /\ Waiting(w)
     /\ expired # {}
     /\ sub_map' = [sub_map EXCEPT ![w] = [i \in Ids |-> IF i \in expired THEN Nil ELSE @[i]]]
     /\ bev_id' = [bev_id EXCEPT ![w] = [b \in Bevs |-> IF b \in dead THEN Nil ELSE @[b]]]
     /\ at' = [b \in Bevs |-> IF b \in dead THEN Nil ELSE at[b]]
     /\ late' = [late EXCEPT ![w] = @ \ expired]
     /\ add_conn(w, -Cardinality(dead))
     /\ touching' = [touching EXCEPT ![w] = expired]
     /\ \E order \in Listings(expired) :
          redisq' = [redisq EXCEPT ![w] =
                       @ \o [k \in DOMAIN order |-> [cb |-> "offline", id |-> order[k]]]]
     /\ UNCHANGED <<home, pipe, http_login, http_trans, task, crashed, missed, client>>

\* Two heartbeat periods go by without a heartbeat from a logged-in client.
heartbeat_missed(w, id) ==
  /\ ~crashed
  /\ sub_map[w][id] # Nil
  /\ id \notin late[w]
  /\ late' = [late EXCEPT ![w] = @ \cup {id}]
  /\ UNCHANGED <<home, at, bev_id, sub_map, conn_num, pending, running, client>>

-----------------------------------------------------------------------------
(* bufferevent_read_callback: one complete packet from a client.           *)

read_login(c, id) ==
  /\ Open(c)
  /\ Len(claimed[c]) < MaxLogins
  /\ LET w == home[c].w
         d == [id |-> id, bev |-> home[c].bev, obj |-> <<c, Len(claimed[c]) + 1>>]
     IN Waiting(w) /\ Ask(w, [cb |-> "login", data |-> d])
  /\ claimed' = [claimed EXCEPT ![c] = Append(@, id)]
  /\ UNCHANGED <<registry, pipe, http_login, http_trans, running, replies, inbox, sender>>

read_heartbeat(c) ==
  /\ Open(c)
  /\ LET w  == home[c].w
         id == bev_id[w][home[c].bev]
     IN /\ Waiting(w)
        /\ id \in Ids
        /\ sub_map[w][id] # Nil
        /\ late' = [late EXCEPT ![w] = @ \ {id}]
  /\ UNCHANGED <<home, at, bev_id, sub_map, conn_num, pending, running, client>>

\* Mutant: only the sender is looked at.
direct_by_sender(from, to) == from \in Wechat

\* A message from or to a Wechat id is sent at once, any other is first checked.
direct(from, to) == from \in Wechat \/ to \in Wechat

\* A message is relayed only for the id its connection is logged in as.
read_trans(c, from, to) ==
  /\ Open(c)
  /\ Len(sender) < MaxTrans
  /\ sender' = Append(sender, c)
  /\ LET w  == home[c].w
         id == bev_id[w][home[c].bev]
         m  == [kind |-> "data", from |-> from, to |-> to, n |-> Len(sender) + 1]
     IN /\ Waiting(w)
        /\ \/ /\ id = from /\ direct(from, to)
              /\ task' = [task EXCEPT ![w] = [op |-> "send", msg |-> m, j |-> 0]]
              /\ UNCHANGED redisq
           \/ /\ id = from /\ ~direct(from, to)
              /\ Ask(w, [cb |-> "trans", msg |-> m])
              /\ UNCHANGED task
           \/ /\ id # from
              /\ UNCHANGED <<task, redisq>>
  /\ UNCHANGED <<registry, pipe, http_login, http_trans, touching, crashed, missed,
                 claimed, replies, inbox>>

-----------------------------------------------------------------------------
(* Login: the Redis answer, the HTTP fallback, the displacement of an      *)
(* earlier login and the registration.                                     *)

\* Mutant: only the other workers are asked to delete an earlier login.
displace_local_not(w, id) == UNCHANGED <<bev_id, at, sub_map, late, touching>>

\* The earlier login of this id on the same worker is closed and forgotten;
\* _conn_num is not decremented.
displace_local(w, id) ==
  LET old == sub_map[w][id]
  IN /\ forget_id(w, id)
     /\ \/ known(w, old) /\ close_bev(w, old)
        \/ ~known(w, old) /\ UNCHANGED <<bev_id, at>>

\* Mutant: the loop leaves out the first worker.
login_loop_short(d, self) ==
  [op |-> "login", id |-> d.id, bev |-> d.bev, self |-> self, j |-> 1]

\* The loop that looks for the id on the workers; "self" tells whether it visits
\* the worker itself.
login_loop(d, self) ==
  [op |-> "login", id |-> d.id, bev |-> d.bev, self |-> self, j |-> 0]

start_login(w, d, self) ==
  /\ displace_local(w, d.id)
  /\ task' = [task EXCEPT ![w] = login_loop(d, self)]
  /\ missed' = missed \cup
       {<<"overlap", task[v].id>> : v \in {x \in Workers : task[x].op = "login" /\ task[x].id = d.id}}
  /\ UNCHANGED <<home, conn_num>>

\* http_login_check: the connect can fail at once, and the login is dropped.
http_login_check(w, d) ==
  \/ http_login' = http_login \cup {[w |-> w, data |-> d, stage |-> "connecting"]}
  \/ "noconnect" \in HttpReplies /\ UNCHANGED http_login

redis_login_callback(w) ==
  /\ Waiting(w)
  /\ redisq[w] # << >>
  /\ Head(redisq[w]).cb = "login"
  /\ redisq' = [redisq EXCEPT ![w] = Tail(@)]
  /\ LET d == Head(redisq[w]).data
     IN \/ /\ ~known(w, d.bev)
           /\ UNCHANGED <<registry, http_login, task, touching, missed, replies>>
        \/ /\ known(w, d.bev) /\ "nil" \in GetReplies
           /\ http_login_check(w, d)
           /\ UNCHANGED <<registry, task, touching, missed, replies>>
        \/ /\ known(w, d.bev) /\ "mismatch" \in GetReplies
           /\ replies' = Write(replies, d.bev, "fail")
           /\ UNCHANGED <<registry, http_login, task, touching, missed>>
        \/ /\ known(w, d.bev) /\ "match" \in GetReplies
           /\ sub_map[w][d.id] = d.bev
           /\ UNCHANGED <<registry, http_login, task, touching, missed, replies>>
        \/ /\ known(w, d.bev) /\ "match" \in GetReplies
           /\ sub_map[w][d.id] # d.bev
           /\ start_login(w, d, FALSE)
           /\ UNCHANGED <<http_login, replies>>
  /\ UNCHANGED <<pipe, http_trans, crashed, claimed, inbox, sender>>


\* http_login_event, BEV_EVENT_CONNECTED: the request is posted.
http_login_connected(h) ==
  /\ Waiting(h.w)
  /\ h.stage = "connecting"
  /\ http_login' = (http_login \ {h}) \cup {[h EXCEPT !.stage = "posted"]}
  /\ UNCHANGED <<registry, pipe, redisq, http_trans, running, client>>

\* http_login_event, EOF or error.  The code looks the id up among the addresses
\* of _bev_id, and answers the client only when it finds it there.
http_login_event(h) ==
  /\ Waiting(h.w)
  /\ "error" \in HttpReplies
  /\ http_login' = http_login \ {h}
  /\ replies' = IF known(h.w, h.data.id)
                THEN Write(replies, h.data.bev, "fail") ELSE replies
  /\ UNCHANGED <<registry, pipe, redisq, http_trans, running, claimed, inbox, sender>>

\* http_login_read: no check that the login comes again from the same connection.
http_login_read(h) ==
  /\ Waiting(h.w)
  /\ h.stage = "posted"
  /\ http_login' = http_login \ {h}
  /\ \/ /\ ~known(h.w, h.data.bev)
        /\ UNCHANGED <<registry, task, touching, missed, replies>>
     \/ /\ known(h.w, h.data.bev) /\ "ok" \in HttpReplies
        /\ start_login(h.w, h.data, TRUE)
        /\ UNCHANGED replies
     \/ /\ known(h.w, h.data.bev) /\ "refused" \in HttpReplies
        /\ replies' = Write(replies, h.data.bev, "fail")
        /\ UNCHANGED <<registry, task, touching, missed>>
  /\ UNCHANGED <<pipe, redisq, http_trans, crashed, claimed, inbox, sender>>

\* notify_del_id on the next worker of the loop.
notify_del_id(w) ==
  LET t == task[w]
      j == t.j
  IN /\ t.op = "login" /\ j < NumWorkers /\ Ready(w)
     /\ \E found \in find(j, t.id) :
          LET visit == j # w \/ t.self
              put   == visit /\ found /\ HasRoom(j)
          IN /\ pipe' = IF put THEN [pipe EXCEPT ![j] = Append(@, DelMsg(t.id))] ELSE pipe
             /\ missed' = IF put THEN missed ELSE missed \cup overlooked("login", j, t.id)
     /\ task' = [task EXCEPT ![w].j = j + 1]
     /\ UNCHANGED <<registry, redisq, http_login, http_trans, touching, crashed, client>>

\* After the loop: the connection is registered under the id and answered.
finish_login(w) ==
  LET t == task[w]
  IN /\ t.op = "login" /\ t.j = NumWorkers /\ Ready(w)
     /\ bev_id' = [bev_id EXCEPT ![w][t.bev] = t.id]
     /\ sub_map' = [sub_map EXCEPT ![w][t.id] = IF @ = Nil THEN t.bev ELSE @]
     /\ late' = [late EXCEPT ![w] = @ \ {t.id}]
     /\ touching' = [touching EXCEPT ![w] = {t.id}]
     /\ replies' = Write(replies, t.bev, "ok")
     /\ Ask(w, [cb |-> "online", id |-> t.id, bev |-> t.bev])
     /\ task' = [task EXCEPT ![w] = Idle]
     /\ UNCHANGED <<home, at, conn_num, pipe, http_login, http_trans, crashed, missed,
                    claimed, inbox, sender>>

\* The change of _sub_map is complete.
settle(w) ==
  /\ ~crashed
  /\ touching[w] # {}
  /\ touching' = [touching EXCEPT ![w] = {}]
  /\ UNCHANGED <<registry, pending, task, crashed, missed, client>>

-----------------------------------------------------------------------------
(* Relaying a message, and telling friends that an id came or went.        *)

\* redis_trans_callback: the relation is cached, or HTTP is asked.  The reply is
\* NULL when the link broke, and the handler reads through it.
redis_trans_callback(w) ==
  /\ Waiting(w)
  /\ redisq[w] # << >>
  /\ Head(redisq[w]).cb = "trans"
  /\ redisq' = [redisq EXCEPT ![w] = Tail(@)]
  /\ LET m == Head(redisq[w]).msg
     IN \/ /\ "string" \in ZscoreReplies
           /\ task' = [task EXCEPT ![w] = [op |-> "send", msg |-> m, j |-> 0]]
           /\ UNCHANGED <<http_trans, crashed>>
        \/ /\ "nil" \in ZscoreReplies
           /\ \/ http_trans' = http_trans \cup {[w |-> w, msg |-> m, stage |-> "connecting"]}
              \/ "noconnect" \in HttpReplies /\ UNCHANGED http_trans
           /\ UNCHANGED <<task, crashed>>
        \/ /\ "null" \in ZscoreReplies
           /\ crashed' = TRUE
           /\ UNCHANGED <<task, http_trans>>
  /\ UNCHANGED <<registry, pipe, http_login, touching, missed, client>>

http_trans_connected(h) ==
  /\ Waiting(h.w)
  /\ h.stage = "connecting"
  /\ http_trans' = (http_trans \ {h}) \cup {[h EXCEPT !.stage = "posted"]}
  /\ UNCHANGED <<registry, pipe, redisq, http_login, running, client>>

\* http_trans_event, EOF or error: the message is dropped.
http_trans_event(h) ==
  /\ Waiting(h.w)
  /\ "error" \in HttpReplies
  /\ http_trans' = http_trans \ {h}
  /\ UNCHANGED <<registry, pipe, redisq, http_login, running, client>>

http_trans_read(h) ==
  /\ Waiting(h.w)
  /\ h.stage = "posted"
  /\ http_trans' = http_trans \ {h}
  /\ \/ /\ "ok" \in HttpReplies
        /\ task' = [task EXCEPT ![h.w] = [op |-> "send", msg |-> h.msg, j |-> 0]]
     \/ "refused" \in HttpReplies /\ UNCHANGED task
  /\ UNCHANGED <<registry, pipe, redisq, http_login, touching, crashed, missed, client>>

\* Mutant: the loop does not stop at the worker that took the message.
after_send_go_on(t) == [t EXCEPT !.j = @ + 1]

after_send(t) == Idle

\* notify_new_msg on the next worker of the loop of send_message; the loop stops
\* at the first worker that takes the message, after the last it is dropped.
notify_new_msg(w) ==
  LET t == task[w]
      j == t.j
  IN /\ t.op = "send" /\ Ready(w)
     /\ \/ /\ j < NumWorkers /\ TRUE \in find(j, t.msg.to) /\ HasRoom(j)
           /\ pipe' = [pipe EXCEPT ![j] = Append(@, t.msg)]
           /\ task' = [task EXCEPT ![w] = after_send(t)]
           /\ UNCHANGED missed
        \/ /\ j < NumWorkers /\ (FALSE \in find(j, t.msg.to) \/ ~HasRoom(j))
           /\ task' = [task EXCEPT ![w].j = j + 1]
           /\ missed' = missed \cup overlooked("message", j, t.msg.to)
           /\ UNCHANGED pipe
        \/ /\ j = NumWorkers
           /\ task' = [task EXCEPT ![w] = Idle]
           /\ UNCHANGED <<pipe, missed>>
     /\ UNCHANGED <<registry, redisq, http_login, http_trans, touching, crashed, client>>

\* redis_online_notify and redis_offline_notify: the friend list has arrived.
\* Only the online notice asks whether the connection is still there.
redis_friend_list(w) ==
  /\ Waiting(w)
  /\ redisq[w] # << >>
  /\ redisq' = [redisq EXCEPT ![w] = Tail(@)]
  /\ LET q == Head(redisq[w])
         b == IF q.cb = "online" THEN q.bev ELSE Nil
     IN /\ q.cb \in {"online", "offline"}
        /\ \/ /\ ({} \in FriendLists) \/ (b # Nil /\ ~known(w, b))
              /\ UNCHANGED task
           \/ /\ (b = Nil) \/ known(w, b)
              /\ \E friends \in FriendLists \ {{}} : \E order \in Listings(friends) :
                   task' = [task EXCEPT ![w] =
                     [op |-> "notify", kind |-> q.cb, id |-> q.id, bev |-> b,
                      todo |-> order, j |-> 0, seen |-> {}]]
  /\ UNCHANGED <<registry, pipe, http_login, http_trans, touching, crashed, missed, client>>

\* Mutant: the search for the next friend goes on where the last one ended.
next_friend_here(t) == [t EXCEPT !.todo = Tail(@)]

next_friend(t) == [t EXCEPT !.todo = Tail(@), !.j = 0]

\* check_id_is_online for the next friend on the next worker, and the notice to
\* that worker when it is; notify_new_msg looks the friend up a second time.
notify_friend(w) ==
  LET t == task[w]
      j == t.j
  IN /\ t.op = "notify" /\ t.todo # << >> /\ Ready(w)
     /\ LET f    == Head(t.todo)
            note == [kind |-> t.kind, from |-> t.id, to |-> f, n |-> 0]
        IN \/ /\ j < NumWorkers /\ FALSE \in find(j, f)
              /\ task' = [task EXCEPT ![w].j = j + 1]
              /\ missed' = missed \cup overlooked("message", j, f)
              /\ UNCHANGED pipe
           \/ /\ j < NumWorkers /\ TRUE \in find(j, f)
              /\ task' = [task EXCEPT ![w] = [next_friend(t) EXCEPT !.seen = @ \cup {f}]]
              /\ \/ /\ HasRoom(j)
                    /\ pipe' = [pipe EXCEPT ![j] = Append(@, note)]
                    /\ UNCHANGED missed
                 \/ /\ FALSE \in find(j, f) \/ ~HasRoom(j)
                    /\ missed' = missed \cup overlooked("message", j, f)
                    /\ UNCHANGED pipe
           \/ /\ j = NumWorkers
              /\ task' = [task EXCEPT ![w] = next_friend(t)]
              /\ UNCHANGED <<pipe, missed>>
     /\ UNCHANGED <<registry, redisq, http_login, http_trans, touching, crashed, client>>

\* A lookup in the map another worker is changing may follow a freed node.
racing_find(w) ==
  /\ task[w].op \in {"login", "send", "notify"}
  /\ task[w].j < NumWorkers
  /\ task[w].j # w
  /\ touching[task[w].j] # {}
  /\ Ready(w)
  /\ crashed' = TRUE
  /\ UNCHANGED <<registry, pending, task, touching, missed, client>>

\* All friends done: the one that came online gets the list of the others.
finish_notify(w) ==
  LET t == task[w]
  IN /\ t.op = "notify" /\ t.todo = << >> /\ Ready(w)
     /\ task' = [task EXCEPT ![w] = Idle]
     /\ inbox' = IF t.kind = "online"
                 THEN Write(inbox, t.bev, [kind |-> "list", seen |-> t.seen]) ELSE inbox
     /\ UNCHANGED <<registry, pending, touching, crashed, missed, claimed, replies, sender>>

-----------------------------------------------------------------------------
(* notify_new_msg_callback: the next message of the pipe.  The handler     *)
(* reads on until the pipe is empty.                                       *)

\* The deletion of a login that a later one displaced; erasing end() from
\* _bev_id ends the process.
delete_old_login(w, id) ==
  LET b == sub_map[w][id]
  IN /\ forget_id(w, id)
     /\ \/ /\ b = Nil
           /\ UNCHANGED <<bev_id, at, crashed>>
        \/ /\ known(w, b)
           /\ close_bev(w, b)
           /\ UNCHANGED crashed
        \/ /\ b # Nil /\ ~known(w, b)
           /\ crashed' = TRUE
           /\ UNCHANGED <<bev_id, at>>

\* Mutant: the message goes back to its sender.
deliver_back(w, m) ==
  LET b == sub_map[w][m.from]
  IN IF b = Nil THEN inbox ELSE Write(inbox, b, m)

deliver(w, m) ==
  LET b == sub_map[w][m.to]
  IN IF b = Nil THEN inbox ELSE Write(inbox, b, m)

notify_new_msg_callback(w) ==
  /\ task[w] \in {Idle, Drain} /\ Ready(w)
  /\ pipe[w] # << >>
  /\ pipe' = [pipe EXCEPT ![w] = Tail(@)]
  /\ task' = [task EXCEPT ![w] = IF Len(pipe[w]) = 1 THEN Idle ELSE Drain]
  /\ LET m == Head(pipe[w])
     IN \/ /\ m.kind # "del"
           /\ inbox' = deliver(w, m)
           /\ UNCHANGED <<bev_id, sub_map, at, late, touching, crashed>>
        \/ /\ m.kind = "del"
           /\ delete_old_login(w, m.to)
           /\ UNCHANGED inbox
  /\ UNCHANGED <<home, conn_num, redisq, http_login, http_trans, missed, claimed, replies, sender>>

-----------------------------------------------------------------------------
Client ==
  \/ \E c \in Conns : bufferevent_event_callback(c) \/ read_heartbeat(c)
  \/ \E w \in Workers, c \in Conns : new_connection(w, c)
  \/ \E c \in Conns, id \in Ids : read_login(c, id)
  \/ \E c \in Conns, from, to \in Ids : read_trans(c, from, to)
  \/ \E w \in Workers, id \in Ids : heartbeat_missed(w, id)

\* What the loop of worker w does once its inputs are there.
Loop(w) ==
  \/ settle(w)
  \/ notify_del_id(w)
  \/ finish_login(w)
  \/ notify_new_msg(w)
  \/ notify_friend(w)
  \/ finish_notify(w)
  \/ racing_find(w)
  \/ notify_new_msg_callback(w)

RedisReply(w) == redis_login_callback(w) \/ redis_trans_callback(w) \/ redis_friend_list(w)

Http ==
  \/ \E h \in http_login : http_login_connected(h) \/ http_login_event(h) \/ http_login_read(h)
  \/ \E h \in http_trans : http_trans_connected(h) \/ http_trans_event(h) \/ http_trans_read(h)

Next ==
  \/ Client
  \/ Http
  \/ \E w \in Workers : Loop(w) \/ RedisReply(w) \/ del_expire_client(w)

Spec == Init /\ [][Next]_vars

\* The loops keep turning: a worker finishes the handler it runs and handles
\* what its pipe, Redis and the HTTP server send it.  Nothing is promised of the
\* clients, of the timeout command or of Redis answering with a given value.
Fairness ==
  /\ \A w \in Workers : WF_vars(Loop(w)) /\ WF_vars(RedisReply(w))
  /\ WF_vars(Http)

FairSpec == Spec /\ Fairness

-----------------------------------------------------------------------------
(* Properties.                                                             *)

\* An entry (address, id) of a worker's _bev_id is matched by the Subscriber that
\* worker keeps for the id.  So no id is logged in on two connections of one
\* worker, whatever the interleaving of Redis and HTTP answers, displacements,
\* repeated logins and reused addresses.
BevOwnsSub ==
  \A w \in Workers, b \in Bevs : bev_id[w][b] \in Ids => sub_map[w][bev_id[w][b]] = b

\* No Subscriber outlives its connection, and the two maps describe the same
\* logins: get_bev() of a Subscriber is allocated, on this worker, and is known
\* to _bev_id under this id.
NoDangling ==
  \A w \in Workers, i \in Ids :
    LET b == sub_map[w][i]
    IN b # Nil => /\ bev_id[w][b] = i
                  /\ at[b] # Nil
                  /\ home[at[b]] = [w |-> w, bev |-> b]

\* A connection is logged in only under an id it sent a login packet for.
Authentic ==
  \A w \in Workers, b \in Bevs :
    bev_id[w][b] \in Ids =>
      at[b] # Nil /\ \E k \in DOMAIN claimed[at[b]] : claimed[at[b]][k] = bev_id[w][b]

\* _conn_num, by which accept_callback refuses connections, never falls below the
\* number of connections the worker really serves, and exceeds it by no more than the
\* connections of the worker that were closed: each displaced login is counted on.
ConnNumCovers ==
  \A w \in Workers :
    LET served == Cardinality({b \in Bevs : bev_id[w][b] # Nil})
        closed == {c \in Conns : home[c] # Nil /\ home[c].w = w /\ ~Open(c)}
    IN conn_num[w] \in served .. served + Cardinality(closed)

\* Between two handlers an address in _bev_id is that of an allocated bufferevent,
\* unless two login packets came from it, of one connection or of two that got the
\* same address: the second login, completed by HTTP, displaces the connection it is
\* for, and then registers what was freed; the entry can outlast a connection that
\* another worker gives the address to.
FreedOnlyByRepeat ==
  \A w \in Workers, b \in Bevs :
    task[w] = Idle /\ known(w, b) /\ at[b] = Nil =>
      LET owners == {c \in Conns : home[c] # Nil /\ home[c].bev = b}
      IN Cardinality({x \in owners \X (1 .. MaxLogins) : x[2] <= Len(claimed[x[1]])}) > 1

Missed(id) == <<"overlap", id>> \in missed \/ <<"login", id>> \in missed

DelPending(w, id) == \E k \in DOMAIN pipe[w] : pipe[w][k] = DelMsg(id)

\* An id is logged in on two workers only until a deletion on its way to one of
\* them is handled, unless two logins of the id overlapped, a racing lookup
\* missed it or the pipe was full.
DuplicateIsTransient ==
  \A i, j \in Workers, id \in Ids :
    i # j /\ sub_map[i][id] # Nil /\ sub_map[j][id] # Nil /\ ~Missed(id)
      => DelPending(i, id) \/ DelPending(j, id)

\* Nothing but login replies is written to a connection whose login has not
\* succeeded, and every message written to it is addressed to an id it claimed.
InboxIsOwn ==
  \A c \in Conns : \A k \in DOMAIN inbox[c] :
    /\ \E r \in DOMAIN replies[c] : replies[c][r] = "ok"
    /\ inbox[c][k].kind # "list" =>
         \E q \in DOMAIN claimed[c] : claimed[c][q] = inbox[c][k].to

\* The places a client's n-th message can be: one element per pointer to it.
Holders(n) ==
  LET is(m) == m.kind = "data" /\ m.n = n
  IN   (UNION {{<<"pipe", w, k>> : k \in {x \in DOMAIN pipe[w] : is(pipe[w][x])}} : w \in Workers})
  \cup (UNION {{<<"redis", w, k>> : k \in {x \in DOMAIN redisq[w] :
                 redisq[w][x].cb = "trans" /\ is(redisq[w][x].msg)}} : w \in Workers})
  \cup {<<"task", w, 0>> : w \in {v \in Workers : task[v].op = "send" /\ is(task[v].msg)}}
  \cup {<<"http", h.w, h.stage>> : h \in {g \in http_trans : is(g.msg)}}
  \cup (UNION {{<<"inbox", c, k>> : k \in {x \in DOMAIN inbox[c] : is(inbox[c][x])}} : c \in Conns})

\* A message has one owner at a time, and is delivered at most once.
SingleOwner == \A n \in DOMAIN sender : \A x, y \in Holders(n) : x = y

\* Messages one connection sends on the direct (Wechat) path reach another
\* connection in the order they were sent.
RelayInOrder ==
  \A c \in Conns : \A x, y \in DOMAIN inbox[c] :
    LET m == inbox[c][x]
        o == inbox[c][y]
    IN x < y /\ m.kind = "data" /\ o.kind = "data"
         /\ sender[m.n] = sender[o.n] /\ {m.from, m.to} \cap Wechat # {}
         /\ {o.from, o.to} \cap Wechat # {}
       => m.n < o.n

\* Nothing is on its way: no command, no message, no handler in progress.
AtRest ==
  /\ \A w \in Workers : Waiting(w) /\ pipe[w] = << >> /\ redisq[w] = << >>
  /\ http_login = {} /\ http_trans = {} /\ ~crashed

\* The last word connection c got on an id is that it is online.
SaysOnline(c, id) ==
  \E k \in DOMAIN inbox[c] :
    /\ \/ inbox[c][k].kind = "list" /\ id \in inbox[c][k].seen
       \/ inbox[c][k].kind = "online" /\ inbox[c][k].from = id
    /\ \A n \in DOMAIN inbox[c] : n > k =>
         inbox[c][n].kind # "list" /\ ~(inbox[c][n].kind = "offline" /\ inbox[c][n].from = id)

\* Once all is quiet the last word a client got on a friend is true: online if the
\* friend is logged in, and not if it has left, however their logins, the friend lists
\* from Redis, the lookups and the notices in the pipes overlap.  This is for two that
\* have each logged in from one connection: the offline notice of an earlier login
\* waits for Redis and can come after the online notice of a later one, and a notice
\* goes to one login only, which may be the one a later login displaces.
\* (Assumes that every friend list names both.)
FriendsMeet ==
  AtRest /\ {} \notin FriendLists /\ missed = {} =>
    \A w \in Workers, x, y \in Ids :
      /\ x # y /\ sub_map[w][x] # Nil
      /\ \A id \in {x, y} :
           Cardinality({c \in Conns : \E k \in DOMAIN claimed[c] : claimed[c][k] = id}) = 1
      => SaysOnline(at[sub_map[w][x]], y) = \E v \in Workers : sub_map[v][y] # Nil

\* A logged-in connection is closed, other than by its client or for a missed
\* heartbeat, only after another connection sent a login packet for the same id.
OnlyRivalsDisplace ==
  [][\A c \in Conns :
       LET w  == home[c].w
           id == bev_id[w][home[c].bev]
       IN Open(c) /\ at'[home[c].bev] = Nil /\ id \in Ids
            /\ ~bufferevent_event_callback(c) /\ ~del_expire_client(w)
          => \E d \in Conns \ {c} : \E k \in DOMAIN claimed[d] : claimed[d][k] = id]_vars


\* Two logins of an id that did not overlap do not both stay.
DuplicateResolved ==
  \A i, j \in Workers, id \in Ids :
    i # j /\ sub_map[i][id] # Nil /\ sub_map[j][id] # Nil
      ~> sub_map[i][id] = Nil \/ sub_map[j][id] = Nil \/ Missed(id) \/ crashed

\* What the comment in the login handlers says: an account that is already logged
\* in is deleted, so once all is quiet it is logged in once, if every lookup saw
\* what was there and no pipe was full.
LoginUnique ==
  AtRest /\ (\A id \in Ids : <<"login", id>> \notin missed) => \A i, j \in Workers, id \in Ids :
              sub_map[i][id] # Nil /\ sub_map[j][id] # Nil => i = j

\* What the comment in http_login_event says: if the HTTP check fails and the
\* client's connection is still valid, the client is told.
HttpErrorReported ==
  [][\A h \in http_login :
       LET c == at[h.data.bev]
       IN h \notin http_login' /\ h.stage = "connecting" /\ http_login' \subseteq http_login
            /\ c # Nil /\ known(h.w, h.data.bev)
          => replies'[c] # replies[c]]_vars
=============================================================================
