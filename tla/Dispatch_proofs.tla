-------------------------- MODULE Dispatch_proofs --------------------------
(* Proofs about Dispatch, for any number of workers and connections, any      *)
(* limit, pipe capacity and batch size.                                       *)
EXTENDS Dispatch, FiniteSetTheorems, TLAPS

USE DEF main, workers, vars

Data == Conns \cup {Stop, Sweep}

\* What is at the head of a non-empty sequence, and what is left of it.
LEMMA HeadTail ==
  ASSUME NEW S, NEW q \in Seq(S), q # << >>
  PROVE  /\ Head(q) \in S /\ Tail(q) \in Seq(S)
         /\ Len(q) \in Nat /\ Len(q) >= 1 /\ Len(Tail(q)) = Len(q) - 1
         /\ Head(q) = q[1]
         /\ \A k \in 1 .. Len(q) - 1 : Tail(q)[k] = q[k + 1]
OBVIOUS

\* What a sequence looks like after Append.
LEMMA Appended ==
  ASSUME NEW S, NEW q \in Seq(S), NEW x \in S
  PROVE  /\ Append(q, x) \in Seq(S)
         /\ Len(q) \in Nat /\ Len(Append(q, x)) = Len(q) + 1
         /\ Append(q, x)[Len(q) + 1] = x
         /\ \A k \in 1 .. Len(q) : Append(q, x)[k] = q[k]
OBVIOUS

-----------------------------------------------------------------------------
(* Types.                                                                  *)

\* notify_new_conn changes nothing but one pipe, or the record of what is lost.
LEMMA NotifyType ==
  ASSUME TypeOK, NEW w \in Workers, NEW data \in Data, notify_new_conn(w, data)
  PROVE  /\ conn_pipe' \in [Workers -> Seq(Data)]
         /\ lost' \subseteq Conns
         /\ dropped' \subseteq Workers \X {Stop, Sweep}
<1>1. CASE Len(conn_pipe[w]) < PipeCap
  <2>1. conn_pipe' = [conn_pipe EXCEPT ![w] = Append(@, data)]
    BY <1>1, Zenon DEF notify_new_conn
  <2>2. Append(conn_pipe[w], data) \in Seq(Data)
    BY Appended, Zenon DEF TypeOK, Data
  <2>. QED  BY Zenon, <1>1, <2>1, <2>2 DEF notify_new_conn, TypeOK, Data
<1>2. CASE ~(Len(conn_pipe[w]) < PipeCap)
  BY SMTT(30), <1>2 DEF notify_new_conn, TypeOK, Data
<1>. QED  BY <1>1, <1>2, Zenon

\* Reading takes the head off one pipe.
LEMMA ReadType ==
  ASSUME TypeOK, NEW w \in Workers, NEW data, Read(w, data)
  PROVE  /\ data \in Data
         /\ conn_pipe' \in [Workers -> Seq(Data)]
<1>1. conn_pipe[w] \in Seq(Data) /\ conn_pipe[w] # << >>
  BY Zenon DEF TypeOK, Read, Data
<1>2. Head(conn_pipe[w]) \in Data /\ Tail(conn_pipe[w]) \in Seq(Data)
  BY <1>1, HeadTail, Zenon
<1>. QED  BY Zenon, <1>2 DEF Read, TypeOK, Data

\* Counting the silent clients of a sweep gives a number.
LEMMA SilentCount ==
  ASSUME TypeOK, NEW w \in Workers, NEW silent \in SUBSET serving[w]
  PROVE  Cardinality(silent) \in Nat
<1>1. IsFiniteSet(silent)
  BY FiniteAssumption, FS_Subset, Zenon DEF TypeOK
<1>. QED  BY <1>1, FS_CardinalityType, Zenon

\* The type invariant over the steps of the main thread.
LEMMA TypeMain ==
  ASSUME TypeOK, Main \/ timer \/ signal_cb
  PROVE  TypeOK'
<1>0. 0 \in Workers /\ NumWorkers \in Nat /\ NumWorkers >= 1
  BY WorkersAssumption DEF Workers
<1>1. CASE accept_callback
  BY SMTT(30), <1>0, <1>1 DEF TypeOK, accept_callback
<1>2. CASE accept_scan
  <2>1. idx \in Workers /\ idx \in Nat /\ idx + 1 \in 0 .. NumWorkers
    BY <1>0, <1>2 DEF TypeOK, accept_scan, Workers
  <2>2. /\ idx' \in 0 .. NumWorkers /\ pc' \in {"scan", "reread"}
        /\ pc' = "reread" => idx' \in Workers
    BY Zenon, <1>0, <1>2, <2>1 DEF TypeOK, accept_scan
  <2>3. UNCHANGED <<backlog, made, workers, min_index, min_count, sweeps, lost, dropped>>
        /\ backlog # << >>
    BY <1>2, Zenon DEF accept_scan, TypeOK
  <2>. QED  BY Zenon, <2>2, <2>3 DEF TypeOK
<1>3. CASE accept_reread
  <2>1. idx \in Workers /\ idx + 1 \in 0 .. NumWorkers
    BY <1>0, <1>3 DEF TypeOK, accept_reread, Workers
  <2>2. idx' \in 0 .. NumWorkers /\ min_index' \in Workers /\ min_count' \in Int
    BY <1>3, <2>1, Zenon DEF TypeOK, accept_reread
  <2>. QED  BY Zenon, <1>3, <2>2 DEF TypeOK, accept_reread
<1>4. CASE accept_conn
  <2>1. backlog \in Seq(Conns) /\ backlog # << >>
    BY <1>4, Zenon DEF TypeOK, accept_conn
  <2>2. Head(backlog) \in Conns /\ Tail(backlog) \in Seq(Conns)
    BY <2>1, HeadTail, Zenon
  <2>3. CASE has_capacity(min_count)
    <3>1. notify_new_conn(min_index, Head(backlog)) /\ backlog' = Tail(backlog)
      BY <1>4, <2>3, Zenon DEF accept_conn
    <3>2. conn_pipe' \in [Workers -> Seq(Data)] /\ lost' \subseteq Conns
          /\ dropped' \subseteq Workers \X {Stop, Sweep}
      BY Zenon, <3>1, <2>2, NotifyType DEF TypeOK, Data
    <3>. QED  BY Zenon, <1>0, <1>4, <2>2, <3>1, <3>2 DEF TypeOK, accept_conn, Data
  <2>4. CASE ~has_capacity(min_count)
    BY Zenon, <1>0, <1>4, <2>4 DEF TypeOK, accept_conn
  <2>. QED  BY <2>3, <2>4, Zenon
<1>5. CASE check_expire_client
  <2>1. CASE idx < NumWorkers
    <3>1. notify_new_conn(idx, Sweep) /\ idx \in Workers
      BY <1>0, <1>5, <2>1 DEF check_expire_client, TypeOK, Workers
    <3>2. conn_pipe' \in [Workers -> Seq(Data)] /\ lost' \subseteq Conns
          /\ dropped' \subseteq Workers \X {Stop, Sweep}
      BY Zenon, <3>1, NotifyType DEF Data
    <3>3. idx' \in 0 .. NumWorkers /\ pc' = "sweep"
      <4>1. (idx' = idx + 1 /\ pc' = "sweep") \/ idx = NumWorkers
        BY Zenon, <1>5 DEF check_expire_client
      <4>2. idx \in 0 .. NumWorkers /\ NumWorkers \in Nat
        BY Zenon, <1>0 DEF TypeOK
      <4>. QED  BY <2>1, <4>1, <4>2
    <3>. QED  BY Zenon, <1>5, <3>2, <3>3 DEF TypeOK, check_expire_client, Data
  <2>2. CASE idx = NumWorkers
    <3>1. UNCHANGED <<idx, conn_pipe, lost, dropped>> /\ pc' = "idle"
      BY <1>0, <1>5, <2>2 DEF check_expire_client
    <3>. QED  BY Zenon, <1>5, <3>1 DEF TypeOK, check_expire_client
  <2>. QED  BY <1>0, <1>5, <2>1, <2>2, Zenon DEF check_expire_client
<1>6. CASE close_server
  <2>1. CASE idx < NumWorkers
    <3>1. notify_new_conn(idx, Stop) /\ idx \in Workers
      BY <1>0, <1>6, <2>1 DEF close_server, TypeOK, Workers
    <3>2. conn_pipe' \in [Workers -> Seq(Data)] /\ lost' \subseteq Conns
          /\ dropped' \subseteq Workers \X {Stop, Sweep}
      BY <3>1, NotifyType, Zenon DEF Data
    <3>3. pc' = "join" /\ UNCHANGED idx
      BY <1>0, <1>6, <2>1 DEF close_server
    <3>. QED  BY Zenon, <1>6, <3>1, <3>2, <3>3 DEF TypeOK, close_server, Data
  <2>2. CASE idx = NumWorkers
    <3>1. UNCHANGED <<idx, conn_pipe, lost, dropped>> /\ pc' = "done"
      BY <1>0, <1>6, <2>2 DEF close_server, after_close
    <3>. QED  BY Zenon, <1>6, <3>1 DEF TypeOK, close_server
  <2>. QED  BY <1>0, <1>6, <2>1, <2>2, Zenon DEF close_server
<1>7. CASE join_worker
  <2>1. idx' \in 0 .. NumWorkers
    BY <1>0, <1>7 DEF TypeOK, join_worker, Workers
  <2>. QED  BY Zenon, <1>7, <2>1 DEF TypeOK, join_worker
<1>8. CASE timer
  <2>1. sweeps' \in 0 .. MaxSweeps
    BY <1>0, <1>8, BoundsAssumption DEF TypeOK, timer
  <2>2. idx' \in 0 .. NumWorkers /\ pc' = "sweep"
    BY <1>0, <1>8 DEF timer
  <2>. QED  BY Zenon, <1>8, <2>1, <2>2 DEF TypeOK, timer
<1>9. CASE signal_cb
  BY SMTT(30), <1>0, <1>9 DEF TypeOK, signal_cb
<1>. QED  BY <1>1, <1>2, <1>3, <1>4, <1>5, <1>6, <1>7, <1>8, <1>9, Zenon DEF Main

\* ... over the steps of a worker.
LEMMA TypeWorker ==
  ASSUME TypeOK, NEW w \in Workers, notify_new_conn_callback(w)
  PROVE  TypeOK'
<1>0. Batch \in Nat
  BY BoundsAssumption, Zenon
<1>1. CASE new_connection(w)
  <2>1. PICK c \in Conns : Read(w, c)
    BY <1>1, Zenon DEF new_connection
  <2>2. conn_pipe' \in [Workers -> Seq(Data)]
    BY <2>1, ReadType, Zenon
  <2>3. taken' \in [Workers -> 0 .. Batch]
    BY SMTT(30), <1>0, <1>1 DEF TypeOK, new_connection, in_batch
  <2>4. serving' \in [Workers -> SUBSET Conns] /\ conn_num' \in [Workers -> Int]
    BY <1>1 DEF TypeOK, new_connection
  <2>. QED  BY Zenon, <1>1, <2>2, <2>3, <2>4 DEF TypeOK, new_connection, Data
<1>2. CASE stop_cmd(w)
  <2>1. conn_pipe' \in [Workers -> Seq(Data)]
    BY Zenon, <1>2, ReadType DEF stop_cmd
  <2>2. taken' \in [Workers -> 0 .. Batch] /\ loop' \in [Workers -> {"run", "exit", "deleted"}]
    BY <1>0, <1>2 DEF TypeOK, stop_cmd
  <2>. QED  BY Zenon, <1>2, <2>1, <2>2 DEF TypeOK, stop_cmd, Data
<1>3. CASE timeout_cmd(w)
  <2>1. conn_pipe' \in [Workers -> Seq(Data)]
    BY <1>3, ReadType, Zenon DEF timeout_cmd
  <2>2. taken' \in [Workers -> 0 .. Batch]
    BY <1>0, <1>3 DEF TypeOK, timeout_cmd, in_batch
  <2>3. PICK silent \in SUBSET serving[w] :
          /\ serving' = [serving EXCEPT ![w] = @ \ silent]
          /\ conn_num' = [conn_num EXCEPT ![w] = @ - Cardinality(silent)]
    BY Zenon, <1>3 DEF timeout_cmd
  <2>4. Cardinality(silent) \in Nat
    BY Zenon, SilentCount
  <2>5. serving' \in [Workers -> SUBSET Conns] /\ conn_num' \in [Workers -> Int]
    BY <2>3, <2>4 DEF TypeOK
  <2>. QED  BY Zenon, <1>3, <2>1, <2>2, <2>5 DEF TypeOK, timeout_cmd, Data
<1>4. CASE read_and_discard(w)
  <2>1. PICK data \in Data : Read(w, data)
    BY Zenon, <1>4 DEF read_and_discard, Data
  <2>2. conn_pipe' \in [Workers -> Seq(Data)]
    BY <2>1, ReadType, Zenon
  <2>3. taken' \in [Workers -> 0 .. Batch]
    BY <1>0, <1>4 DEF TypeOK, read_and_discard
  <2>4. lost' \subseteq Conns /\ dropped' \subseteq Workers \X {Stop, Sweep}
    BY <1>4 DEF TypeOK, read_and_discard
  <2>. QED  BY Zenon, <1>4, <2>2, <2>3, <2>4 DEF TypeOK, read_and_discard, Data
<1>5. CASE pipe_empty(w)
  BY SMTT(30), <1>0, <1>5 DEF TypeOK, pipe_empty
<1>. QED  BY Zenon, <1>1, <1>2, <1>3, <1>4, <1>5 DEF notify_new_conn_callback

\* Every action keeps the type invariant.
LEMMA TypeStep == TypeOK /\ [Next]_vars => TypeOK'
<1>1. SUFFICES ASSUME TypeOK, [Next]_vars PROVE TypeOK'
  BY Zenon
<1>2. CASE Main \/ timer \/ signal_cb
  BY <1>1, <1>2, TypeMain, Zenon
<1>3. ASSUME NEW c \in Conns, connect(c) PROVE TypeOK'
  <2>1. backlog \in Seq(Conns)
    BY Zenon, <1>1 DEF TypeOK
  <2>2. Append(backlog, c) \in Seq(Conns) /\ Append(backlog, c) # << >>
    BY <2>1
  <2>. QED  BY Zenon, <1>1, <1>3, <2>2 DEF TypeOK, connect
<1>4. ASSUME NEW w \in Workers, notify_new_conn_callback(w) PROVE TypeOK'
  BY <1>1, <1>4, TypeWorker, Zenon
<1>5. ASSUME NEW w \in Workers, NEW c \in Conns, connection_ends(w, c) PROVE TypeOK'
  <2>1. serving' \in [Workers -> SUBSET Conns] /\ conn_num' \in [Workers -> Int]
    BY <1>1, <1>5 DEF TypeOK, connection_ends
  <2>. QED  BY Zenon, <1>1, <1>5, <2>1 DEF TypeOK, connection_ends
<1>6. CASE UNCHANGED vars
  BY Zenon, <1>1, <1>6 DEF TypeOK
<1>. QED  BY Zenon, <1>1, <1>2, <1>3, <1>4, <1>5, <1>6 DEF Next

\* The state after start_work_thread is well typed.
LEMMA InitType == Init => TypeOK
<1>1. 0 \in Workers /\ 0 \in 0 .. NumWorkers /\ 0 \in 0 .. Batch /\ 0 \in 0 .. MaxSweeps
  BY WorkersAssumption, BoundsAssumption DEF Workers
<1>. QED  BY <1>1 DEF Init, TypeOK

\* The variables of the main thread and of the workers keep their types.
THEOREM TypeCorrect == Spec => []TypeOK
BY InitType, TypeStep, PTL DEF Spec

-----------------------------------------------------------------------------
(* How far a worker can exceed max_num_per_thread.                         *)

\* The places of a sequence that hold a connection.
Places(q) == {k \in 1 .. Len(q) : q[k] \in Conns}

\* The places are finitely many, no more than the sequence has.
LEMMA PlacesFinite ==
  ASSUME NEW q \in Seq(Data)
  PROVE  /\ IsFiniteSet(Places(q))
         /\ Cardinality(Places(q)) \in Nat
         /\ Cardinality(Places(q)) <= Len(q)
<1>1. Len(q) \in Nat
  OBVIOUS
<1>2. IsFiniteSet(1 .. Len(q)) /\ Cardinality(1 .. Len(q)) = Len(q)
  BY SMTT(30), <1>1, FS_Interval
<1>3. Places(q) \in SUBSET (1 .. Len(q))
  BY Zenon DEF Places
<1>. QED  BY <1>2, <1>3, FS_Subset, FS_CardinalityType, Zenon

\* Appending a connection adds one place, appending a command adds none.
LEMMA PlacesAppend ==
  ASSUME NEW q \in Seq(Data), NEW x \in Data
  PROVE  Cardinality(Places(Append(q, x))) <= Cardinality(Places(q)) + 1
         /\ (x \notin Conns => Cardinality(Places(Append(q, x))) = Cardinality(Places(q)))
<1>1. /\ Len(q) \in Nat /\ Len(Append(q, x)) = Len(q) + 1
      /\ Append(q, x)[Len(q) + 1] = x
      /\ \A k \in 1 .. Len(q) : Append(q, x)[k] = q[k]
  BY Appended
<1>2. IsFiniteSet(Places(q)) /\ Cardinality(Places(q)) \in Nat
  BY PlacesFinite, Zenon
<1>3. CASE x \in Conns
  <2>1. Places(Append(q, x)) = Places(q) \cup {Len(q) + 1}
    BY <1>1, <1>3 DEF Places
  <2>2. Cardinality(Places(q) \cup {Len(q) + 1}) \in {Cardinality(Places(q)), Cardinality(Places(q)) + 1}
    BY Zenon, <1>2, FS_AddElement
  <2>. QED  BY <1>2, <1>3, <2>1, <2>2
<1>4. CASE x \notin Conns
  <2>1. Places(Append(q, x)) = Places(q)
    BY <1>1, <1>4 DEF Places
  <2>. QED  BY <1>2, <1>4, <2>1
<1>. QED  BY <1>3, <1>4, Zenon

\* Taking the head off takes its place off, if it was a connection.
LEMMA PlacesTail ==
  ASSUME NEW q \in Seq(Data), q # << >>
  PROVE  Cardinality(Places(Tail(q))) =
           IF Head(q) \in Conns THEN Cardinality(Places(q)) - 1 ELSE Cardinality(Places(q))
<1>1. /\ Len(q) \in Nat /\ Len(q) >= 1 /\ Len(Tail(q)) = Len(q) - 1
      /\ Head(q) = q[1]
      /\ \A k \in 1 .. Len(q) - 1 : Tail(q)[k] = q[k + 1]
  BY HeadTail, Zenon
<1>2. IsFiniteSet(Places(q)) /\ Cardinality(Places(q)) \in Nat
  BY PlacesFinite, Zenon
<1>. DEFINE R == Places(q) \ {1}
            f == [k \in Places(Tail(q)) |-> k + 1]
<1>3. IsFiniteSet(R) /\
      Cardinality(R) = IF 1 \in Places(q) THEN Cardinality(Places(q)) - 1 ELSE Cardinality(Places(q))
  BY <1>2, FS_RemoveElement, Zenon
<1>4. 1 \in Places(q) <=> Head(q) \in Conns
  BY <1>1 DEF Places
<1>5. \A k \in Places(Tail(q)) : k \in Nat /\ k + 1 \in R
  BY <1>1 DEF Places
<1>6. f \in Injection(Places(Tail(q)), R)
  BY <1>5 DEF Injection, IsInjective
<1>7. f \in Surjection(Places(Tail(q)), R)
  <2>1. f \in [Places(Tail(q)) -> R]
    BY <1>5, Zenon
  <2>2. ASSUME NEW r \in R PROVE \E k \in Places(Tail(q)) : f[k] = r
    <3>1. r \in Nat /\ r - 1 \in 1 .. Len(Tail(q)) /\ Tail(q)[r - 1] = q[r] /\ q[r] \in Conns
      BY <1>1, <2>2 DEF Places
    <3>2. r - 1 \in Places(Tail(q))
      BY <3>1, Zenon DEF Places
    <3>3. f[r - 1] = r
      BY <3>1, <3>2
    <3>. QED  BY <3>2, <3>3, Zenon
  <2>. QED  BY <2>1, <2>2, Zenon DEF Surjection
<1>. HIDE DEF R, f
<1>8. Cardinality(Places(Tail(q))) = Cardinality(R)
  BY <1>3, <1>6, <1>7, FS_Injection, Zenon
<1>. QED  BY <1>3, <1>4, <1>8, Zenon

\* The connections a worker counts or is about to count.
Load(w) == conn_num[w] + Cardinality(Places(conn_pipe[w]))

\* While accept_callback holds a count below the limit, the worker it was read
\* from has room for one more: the count left out at most a full pipe.
OvershootInv ==
  /\ TypeOK
  /\ \A w \in Workers :
       /\ Load(w) <= MaxNum + PipeCap
       /\ Len(conn_pipe[w]) <= PipeCap
       /\ pc \in {"scan", "reread"} /\ min_index = w /\ min_count < MaxNum
            => Load(w) <= MaxNum + PipeCap - 1

\* A worker's load is an integer, at most its count plus the pipe's length.
LEMMA LoadType ==
  ASSUME TypeOK, NEW w \in Workers
  PROVE  /\ Load(w) \in Int
         /\ conn_num[w] \in Int
         /\ Load(w) <= conn_num[w] + Len(conn_pipe[w])
         /\ Len(conn_pipe[w]) \in Nat
<1>1. conn_pipe[w] \in Seq(Data) /\ conn_num[w] \in Int
  BY Zenon DEF TypeOK, Data
<1>2. Cardinality(Places(conn_pipe[w])) \in Nat /\ Cardinality(Places(conn_pipe[w])) <= Len(conn_pipe[w])
      /\ Len(conn_pipe[w]) \in Nat
  BY <1>1, PlacesFinite
<1>. QED  BY <1>1, <1>2 DEF Load

\* A write to worker w adds at most one to its load, and nothing if it is a command.
LEMMA NotifyLoad ==
  ASSUME OvershootInv, NEW w \in Workers, NEW data \in Data, notify_new_conn(w, data),
         UNCHANGED conn_num, NEW v \in Workers
  PROVE  /\ Load(v)' <= Load(v) + 1
         /\ v # w \/ data \notin Conns => Load(v)' = Load(v)
         /\ Len(conn_pipe[v])' <= PipeCap
<1>1. conn_pipe[v] \in Seq(Data) /\ conn_num[v] \in Int /\ Cardinality(Places(conn_pipe[v])) \in Nat
      /\ Len(conn_pipe[v]) \in Nat /\ Len(conn_pipe[v]) <= PipeCap /\ PipeCap \in Nat
  <2>1. conn_pipe[v] \in Seq(Data) /\ conn_num[v] \in Int /\ Len(conn_pipe[v]) <= PipeCap
    BY Zenon DEF OvershootInv, TypeOK, Data
  <2>. QED  BY <2>1, PlacesFinite, BoundsAssumption
<1>2. CASE conn_pipe[v]' = conn_pipe[v]
  BY <1>1, <1>2 DEF Load
<1>3. CASE conn_pipe[v]' # conn_pipe[v]
  <2>1. v = w /\ conn_pipe[v]' = Append(conn_pipe[v], data) /\ Len(conn_pipe[v]) < PipeCap
    BY Zenon, <1>3 DEF notify_new_conn, OvershootInv, TypeOK
  <2>2. Len(Append(conn_pipe[v], data)) = Len(conn_pipe[v]) + 1
    BY <1>1, Appended
  <2>3. /\ Append(conn_pipe[v], data) \in Seq(Data)
        /\ Cardinality(Places(Append(conn_pipe[v], data))) \in Nat
        /\ Cardinality(Places(Append(conn_pipe[v], data))) <= Cardinality(Places(conn_pipe[v])) + 1
        /\ data \notin Conns =>
             Cardinality(Places(Append(conn_pipe[v], data))) = Cardinality(Places(conn_pipe[v]))
    BY Zenon, <1>1, Appended, PlacesAppend, PlacesFinite
  <2>. QED  BY SMTT(15), <1>1, <2>1, <2>2, <2>3 DEF Load
<1>. QED  BY <1>2, <1>3, Zenon

\* A read takes what it read out of the pipe's share of the load.
LEMMA ReadLoad ==
  ASSUME OvershootInv, NEW w \in Workers, NEW data, Read(w, data), NEW v \in Workers
  PROVE  /\ Cardinality(Places(conn_pipe[v]))' \in Nat
         /\ Cardinality(Places(conn_pipe[v]))' <= Cardinality(Places(conn_pipe[v]))
         /\ v = w /\ data \in Conns =>
              Cardinality(Places(conn_pipe[v]))' = Cardinality(Places(conn_pipe[v])) - 1
         /\ Len(conn_pipe[v])' <= PipeCap
<1>1. conn_pipe[v] \in Seq(Data) /\ Cardinality(Places(conn_pipe[v])) \in Nat
      /\ Len(conn_pipe[v]) \in Nat /\ Len(conn_pipe[v]) <= PipeCap /\ PipeCap \in Nat
  <2>1. conn_pipe[v] \in Seq(Data) /\ Len(conn_pipe[v]) <= PipeCap
    BY Zenon DEF OvershootInv, TypeOK, Data
  <2>. QED  BY <2>1, PlacesFinite, BoundsAssumption
<1>2. CASE v # w
  <2>1. conn_pipe[v]' = conn_pipe[v]
    BY <1>2, Zenon DEF Read, OvershootInv, TypeOK
  <2>. QED  BY <1>1, <1>2, <2>1
<1>3. CASE v = w
  <2>1. conn_pipe[v] # << >> /\ data = Head(conn_pipe[v]) /\ conn_pipe[v]' = Tail(conn_pipe[v])
    BY <1>3, Zenon DEF Read, OvershootInv, TypeOK
  <2>2. Tail(conn_pipe[v]) \in Seq(Data) /\ Len(Tail(conn_pipe[v])) = Len(conn_pipe[v]) - 1
    BY Zenon, <1>1, <2>1, HeadTail
  <2>3. Cardinality(Places(Tail(conn_pipe[v]))) \in Nat
    BY Zenon, <2>2, PlacesFinite
  <2>4. Cardinality(Places(Tail(conn_pipe[v]))) =
          IF data \in Conns THEN Cardinality(Places(conn_pipe[v])) - 1
          ELSE Cardinality(Places(conn_pipe[v]))
    BY <1>1, <2>1, PlacesTail, Zenon
  <2>. QED  BY <1>1, <2>1, <2>2, <2>3, <2>4
<1>. QED  BY <1>2, <1>3, Zenon

\* A step that adds to no load, and during which accept_callback does not start
\* or read a count, keeps the invariant.
LEMMA NoMoreLoad ==
  ASSUME OvershootInv, TypeOK',
         \A v \in Workers : Load(v)' <= Load(v) /\ Len(conn_pipe[v])' <= PipeCap,
         \/ pc' \notin {"scan", "reread"}
         \/ pc \in {"scan", "reread"} /\ UNCHANGED <<min_index, min_count>>
  PROVE  OvershootInv'
<1>1. SUFFICES ASSUME NEW v \in Workers
               PROVE  /\ Load(v)' <= MaxNum + PipeCap
                      /\ pc' \in {"scan", "reread"} /\ min_index' = v /\ min_count' < MaxNum
                           => Load(v)' <= MaxNum + PipeCap - 1
  BY Zenon DEF OvershootInv
<1>2. MaxNum \in Nat /\ PipeCap \in Nat
  BY BoundsAssumption, Zenon
<1>3. Load(v) \in Int
  BY LoadType, Zenon DEF OvershootInv
<1>4. Load(v)' \in Int
  <2>1. conn_pipe'[v] \in Seq(Data) /\ conn_num'[v] \in Int
    BY Zenon DEF TypeOK, Data
  <2>2. Cardinality(Places(conn_pipe'[v])) \in Nat
    BY Zenon, <2>1, PlacesFinite
  <2>. QED  BY <2>1, <2>2 DEF Load
<1>. QED  BY <1>2, <1>3, <1>4 DEF OvershootInv

\* The main thread keeps the bound: it adds one connection, to a worker it found room on.
LEMMA OvershootMain ==
  ASSUME OvershootInv, TypeOK', Main \/ timer \/ signal_cb
  PROVE  OvershootInv'
<1>0. /\ TypeOK /\ MaxNum \in Nat /\ PipeCap \in Nat
      /\ \A v \in Workers : /\ Load(v) \in Int /\ conn_num[v] \in Int
                            /\ Len(conn_pipe[v]) \in Nat /\ Len(conn_pipe[v]) <= PipeCap
                            /\ Load(v) <= conn_num[v] + Len(conn_pipe[v])
  BY LoadType, BoundsAssumption, Zenon DEF OvershootInv
<1>1. ASSUME UNCHANGED <<conn_pipe, conn_num>>
      PROVE  \A v \in Workers : Load(v)' = Load(v) /\ Len(conn_pipe[v])' <= PipeCap
  BY <1>0, <1>1, Zenon DEF Load
<1>2. ASSUME UNCHANGED <<conn_pipe, conn_num>>, min_index' \in Workers,
             min_count' = conn_num[min_index']
      PROVE  OvershootInv'
  <2>1. SUFFICES ASSUME NEW v \in Workers
                 PROVE  /\ Load(v)' <= MaxNum + PipeCap
                        /\ Len(conn_pipe[v])' <= PipeCap
                        /\ pc' \in {"scan", "reread"} /\ min_index' = v /\ min_count' < MaxNum
                             => Load(v)' <= MaxNum + PipeCap - 1
    BY Zenon DEF OvershootInv
  <2>2. Load(v)' = Load(v) /\ Len(conn_pipe[v])' <= PipeCap /\ Load(v) <= MaxNum + PipeCap
    BY <1>1, <1>2, Zenon DEF OvershootInv
  <2>. QED  BY <1>0, <1>2, <2>2
<1>3. CASE accept_callback
  <2>1. 0 \in Workers
    BY WorkersAssumption DEF Workers
  <2>. QED  BY <1>2, <1>3, <2>1, Zenon DEF accept_callback
<1>4. CASE accept_reread
  <2>1. idx \in Workers
    BY <1>0, <1>4, Zenon DEF TypeOK, accept_reread
  <2>. QED  BY <1>2, <1>4, <2>1, Zenon DEF accept_reread
<1>5. CASE accept_scan
  <2>1. \A v \in Workers : Load(v)' <= Load(v) /\ Len(conn_pipe[v])' <= PipeCap
    BY <1>0, <1>1, <1>5 DEF accept_scan
  <2>. QED  BY <1>5, <2>1, NoMoreLoad, Zenon DEF accept_scan
<1>6. CASE accept_conn
  <2>1. pc' = "idle" /\ UNCHANGED conn_num /\ pc = "scan" /\ min_index \in Workers /\ min_count \in Int
    BY Zenon, <1>0, <1>6 DEF accept_conn, TypeOK
  <2>2. CASE has_capacity(min_count)
    <3>1. notify_new_conn(min_index, Head(backlog)) /\ min_count < MaxNum
      BY <1>6, <2>2, Zenon DEF accept_conn, has_capacity
    <3>2. backlog \in Seq(Conns) /\ backlog # << >>
      BY Zenon, <1>0, <2>1 DEF TypeOK
    <3>3. Head(backlog) \in Data
      BY <3>2, HeadTail, Zenon DEF Data
    <3>4. SUFFICES ASSUME NEW v \in Workers
                   PROVE  Load(v)' <= MaxNum + PipeCap /\ Len(conn_pipe[v])' <= PipeCap
      BY <2>1, Zenon DEF OvershootInv
    <3>5. Load(v)' <= Load(v) + 1 /\ (v # min_index => Load(v)' = Load(v))
          /\ Len(conn_pipe[v])' <= PipeCap
      BY <2>1, <3>1, <3>3, NotifyLoad, Zenon
    <3>6. Load(v) <= MaxNum + PipeCap /\ (v = min_index => Load(v) <= MaxNum + PipeCap - 1)
      BY <2>1, <3>1, Zenon DEF OvershootInv
    <3>7. Load(v)' \in Int
      <4>1. conn_pipe'[v] \in Seq(Data) /\ conn_num'[v] \in Int
        BY Zenon DEF TypeOK, Data
      <4>2. Cardinality(Places(conn_pipe'[v])) \in Nat
        BY <4>1, PlacesFinite, Zenon
      <4>. QED  BY <4>1, <4>2 DEF Load
    <3>. QED  BY <1>0, <3>5, <3>6, <3>7
  <2>3. CASE ~has_capacity(min_count)
    <3>1. UNCHANGED <<conn_pipe, conn_num>>
      BY <1>6, <2>3, Zenon DEF accept_conn
    <3>2. \A v \in Workers : Load(v)' <= Load(v) /\ Len(conn_pipe[v])' <= PipeCap
      BY <1>0, <1>1, <3>1
    <3>. QED  BY Zenon, <2>1, <3>2, NoMoreLoad
  <2>. QED  BY <2>2, <2>3, Zenon
<1>7. ASSUME UNCHANGED conn_num, pc' \notin {"scan", "reread"},
             UNCHANGED conn_pipe \/ \E x \in Workers, cmd \in {Stop, Sweep} : notify_new_conn(x, cmd)
      PROVE  OvershootInv'
  <2>1. CASE UNCHANGED conn_pipe
    <3>1. \A v \in Workers : Load(v)' <= Load(v) /\ Len(conn_pipe[v])' <= PipeCap
      BY <1>0, <1>1, <1>7, <2>1
    <3>. QED  BY <1>7, <3>1, NoMoreLoad, Zenon
  <2>2. ASSUME NEW x \in Workers, NEW cmd \in {Stop, Sweep}, notify_new_conn(x, cmd)
        PROVE  OvershootInv'
    <3>1. cmd \in Data /\ cmd \notin Conns
      BY CommandsAssumption, Zenon DEF Data
    <3>2. \A v \in Workers : Load(v)' = Load(v) /\ Len(conn_pipe[v])' <= PipeCap
      BY <1>7, <2>2, <3>1, NotifyLoad, Zenon
    <3>3. \A v \in Workers : Load(v)' <= Load(v) /\ Len(conn_pipe[v])' <= PipeCap
      BY <1>0, <3>2
    <3>. QED  BY <1>7, <3>3, NoMoreLoad, Zenon
  <2>. QED  BY Zenon, <1>7, <2>1, <2>2
<1>8. CASE check_expire_client \/ close_server
  <2>1. UNCHANGED conn_num /\ pc' \notin {"scan", "reread"}
    BY <1>8, Zenon DEF check_expire_client, close_server, after_close
  <2>2. idx \in 0 .. NumWorkers /\ NumWorkers \in Nat
    BY Zenon, <1>0, WorkersAssumption DEF TypeOK
  <2>3. idx < NumWorkers => idx \in Workers
    BY <2>2 DEF Workers
  <2>4. UNCHANGED conn_pipe \/ \E x \in Workers, cmd \in {Stop, Sweep} : notify_new_conn(x, cmd)
    BY <1>8, <2>3, Zenon DEF check_expire_client, close_server
  <2>. QED  BY <1>7, <2>1, <2>4, Zenon
<1>9. CASE join_worker \/ timer \/ signal_cb
  BY <1>7, <1>9, Zenon DEF join_worker, timer, signal_cb
<1>. QED  BY <1>3, <1>4, <1>5, <1>6, <1>8, <1>9, Zenon DEF Main

\* A worker keeps the bound: what it takes from the pipe it adds to its count.
LEMMA OvershootWorker ==
  ASSUME OvershootInv, TypeOK', NEW w \in Workers,
         notify_new_conn_callback(w) \/ \E c \in Conns : connection_ends(w, c)
  PROVE  OvershootInv'
<1>0. TypeOK /\ UNCHANGED main
  BY Zenon DEF OvershootInv, notify_new_conn_callback, new_connection, stop_cmd, timeout_cmd,
         read_and_discard, pipe_empty, connection_ends
<1>1. \/ pc' \notin {"scan", "reread"}
      \/ pc \in {"scan", "reread"} /\ UNCHANGED <<min_index, min_count>>
  BY <1>0, Zenon
<1>2. SUFFICES ASSUME NEW v \in Workers
               PROVE  Load(v)' <= Load(v) /\ Len(conn_pipe[v])' <= PipeCap
  BY <1>1, NoMoreLoad, Zenon
<1>3. /\ conn_num[v] \in Int /\ Cardinality(Places(conn_pipe[v])) \in Nat
      /\ Len(conn_pipe[v]) <= PipeCap
  BY Zenon, <1>0, PlacesFinite DEF TypeOK, OvershootInv, Data
<1>4. CASE new_connection(w)
  <2>1. PICK c \in Conns : Read(w, c) /\ conn_num' = [conn_num EXCEPT ![w] = @ + 1]
    BY Zenon, <1>4 DEF new_connection
  <2>2. /\ Cardinality(Places(conn_pipe[v]))' \in Nat
        /\ Cardinality(Places(conn_pipe[v]))' <= Cardinality(Places(conn_pipe[v]))
        /\ v = w => Cardinality(Places(conn_pipe[v]))' = Cardinality(Places(conn_pipe[v])) - 1
        /\ Len(conn_pipe[v])' <= PipeCap
    BY <2>1, ReadLoad, Zenon
  <2>3. conn_num'[v] = IF v = w THEN conn_num[v] + 1 ELSE conn_num[v]
    BY <1>0, <2>1, Zenon DEF TypeOK
  <2>. QED  BY <1>3, <2>2, <2>3 DEF Load
<1>5. ASSUME NEW data, Read(w, data), conn_num'[v] \in Int, conn_num'[v] <= conn_num[v]
      PROVE  Load(v)' <= Load(v) /\ Len(conn_pipe[v])' <= PipeCap
  <2>1. /\ Cardinality(Places(conn_pipe[v]))' \in Nat
        /\ Cardinality(Places(conn_pipe[v]))' <= Cardinality(Places(conn_pipe[v]))
        /\ Len(conn_pipe[v])' <= PipeCap
    BY <1>5, ReadLoad, Zenon
  <2>. QED  BY <1>3, <1>5, <2>1 DEF Load
<1>6. CASE stop_cmd(w) \/ read_and_discard(w)
  <2>1. PICK data : Read(w, data) /\ UNCHANGED conn_num
    BY <1>6, Zenon DEF stop_cmd, read_and_discard
  <2>. QED  BY SMTT(30), <1>3, <1>5, <2>1
<1>7. CASE timeout_cmd(w)
  <2>1. PICK silent \in SUBSET serving[w] : conn_num' = [conn_num EXCEPT ![w] = @ - Cardinality(silent)]
    BY Zenon, <1>7 DEF timeout_cmd
  <2>2. Cardinality(silent) \in Nat
    BY Zenon, <1>0, SilentCount
  <2>3. conn_num'[v] \in Int /\ conn_num'[v] <= conn_num[v]
    <3>1. conn_num'[v] = IF v = w THEN conn_num[v] - Cardinality(silent) ELSE conn_num[v]
      BY Zenon, <1>0, <2>1 DEF TypeOK
    <3>. QED  BY <1>3, <2>2, <3>1
  <2>. QED  BY <1>5, <1>7, <2>3, Zenon DEF timeout_cmd
<1>8. CASE pipe_empty(w) \/ \E c \in Conns : connection_ends(w, c)
  <2>1. UNCHANGED conn_pipe
    BY Zenon, <1>8 DEF pipe_empty, connection_ends
  <2>2. conn_num'[v] \in Int /\ conn_num'[v] <= conn_num[v]
    <3>1. conn_num' = conn_num \/ conn_num' = [conn_num EXCEPT ![w] = @ - 1]
      BY <1>8, Zenon DEF pipe_empty, connection_ends
    <3>2. conn_num'[v] = conn_num[v] \/ conn_num'[v] = conn_num[v] - 1
      BY Zenon, <1>0, <3>1 DEF TypeOK
    <3>. QED  BY <1>3, <3>2
  <2>. QED  BY <1>3, <2>1, <2>2 DEF Load
<1>. QED  BY <1>4, <1>6, <1>7, <1>8, Zenon DEF notify_new_conn_callback

\* For every limit, pipe capacity and number of workers: a worker's connections,
\* those in its pipe included, never exceed max_num_per_thread by more than the
\* pipe's capacity.
THEOREM Overshoot == Spec => []OvershootBounded
<1>1. Init => OvershootInv
  <2>1. SUFFICES ASSUME Init PROVE OvershootInv
    BY Zenon
  <2>2. TypeOK
    BY Zenon, <2>1, InitType
  <2>3. Places(<< >>) = {} /\ Cardinality({}) = 0
    BY FS_EmptySet DEF Places
  <2>4. \A v \in Workers : Load(v) = 0 /\ Len(conn_pipe[v]) = 0
    <3>1. SUFFICES ASSUME NEW v \in Workers PROVE Load(v) = 0 /\ Len(conn_pipe[v]) = 0
      BY Zenon
    <3>2. conn_num[v] = 0 /\ conn_pipe[v] = << >> /\ Len(<< >>) = 0
      BY <2>1, Zenon DEF Init
    <3>3. Cardinality(Places(conn_pipe[v])) = 0
      BY Zenon, <2>3, <3>2
    <3>. QED  BY <3>2, <3>3 DEF Load
  <2>. QED  BY <2>1, <2>2, <2>4, BoundsAssumption DEF OvershootInv, Init
<1>2. OvershootInv /\ [Next]_vars => OvershootInv'
  <2>1. SUFFICES ASSUME OvershootInv, [Next]_vars PROVE OvershootInv'
    BY Zenon
  <2>2. TypeOK'
    BY Zenon, <2>1, TypeStep DEF OvershootInv
  <2>3. CASE Main \/ timer \/ signal_cb
    BY <2>1, <2>2, <2>3, OvershootMain, Zenon
  <2>4. ASSUME NEW w \in Workers,
               notify_new_conn_callback(w) \/ \E c \in Conns : connection_ends(w, c)
        PROVE  OvershootInv'
    BY <2>1, <2>2, <2>4, OvershootWorker, Zenon
  <2>5. CASE (\E c \in Conns : connect(c)) \/ UNCHANGED vars
    <3>1. UNCHANGED <<workers, main>>
      BY <2>5, Zenon DEF connect
    <3>. QED  BY <2>1, <2>2, <3>1, Zenon DEF OvershootInv, Load
  <2>. QED  BY <2>1, <2>3, <2>4, <2>5, Zenon DEF Next
<1>3. OvershootInv => OvershootBounded
  BY Zenon DEF OvershootInv, OvershootBounded, Load, Places, Queued
<1>. QED  BY <1>1, <1>2, <1>3, PTL DEF Spec
-----------------------------------------------------------------------------


\* A stop command is in the pipe of worker w.
StopIn(w) == \E k \in 1 .. Len(conn_pipe[w]) : conn_pipe[w][k] = Stop

\* A worker close_server has not come to.
Untouched(w) == loop[w] = "run" /\ ~StopIn(w)

\* How far close_server has come: deleted workers before idx, untouched ones
\* after it, and worker idx in between.
Phase ==
  /\ pc \in {"idle", "scan", "reread", "sweep"} => \A w \in Workers : Untouched(w)
  /\ pc \in {"stop", "join"} =>
       \A w \in Workers : /\ w < idx => loop[w] = "deleted"
                          /\ w > idx => Untouched(w)
  /\ pc = "stop" /\ idx < NumWorkers => Untouched(idx)
  /\ pc = "join" => loop[idx] \in {"run", "exit"}
  /\ pc = "done" => \A w \in Workers : loop[w] = "deleted"

ShutdownInv == TypeOK /\ Phase /\ StopIsLast /\ JoinJustified

\* The three facts about one worker that its own pipe and loop decide.
Ended(w) == loop[w] # "run" => conn_pipe[w] = << >>
StopLast(w) == \A k \in 1 .. Len(conn_pipe[w]) : conn_pipe[w][k] = Stop => k = Len(conn_pipe[w])

\* A sequence of length 0 is empty.
LEMMA NoElements ==
  ASSUME NEW S, NEW q \in Seq(S), Len(q) = 0
  PROVE  q = << >>
OBVIOUS

\* The elements of a tail are those of the sequence from the second on.
LEMMA TailStops ==
  ASSUME NEW q \in Seq(Data), q # << >>
  PROVE  /\ \A k \in 1 .. Len(Tail(q)) : k + 1 \in 1 .. Len(q) /\ Tail(q)[k] = q[k + 1]
         /\ \A k \in 1 .. Len(q) : k = 1 \/ (k - 1 \in 1 .. Len(Tail(q)) /\ Tail(q)[k - 1] = q[k])
         /\ Len(q) \in Nat /\ Len(Tail(q)) = Len(q) - 1 /\ Head(q) = q[1] /\ Len(q) >= 1
<1>1. /\ Len(q) \in Nat /\ Len(q) >= 1 /\ Len(Tail(q)) = Len(q) - 1
      /\ Head(q) = q[1]
      /\ \A k \in 1 .. Len(q) - 1 : Tail(q)[k] = q[k + 1]
  BY HeadTail, Zenon
<1>2. ASSUME NEW k \in 1 .. Len(q), k # 1
      PROVE  k - 1 \in 1 .. Len(Tail(q)) /\ Tail(q)[k - 1] = q[k]
  <2>1. k - 1 \in 1 .. Len(q) - 1 /\ (k - 1) + 1 = k
    BY <1>1, <1>2
  <2>. QED  BY Zenon, <1>1, <2>1
<1>. QED  BY <1>1, <1>2

\* What reading from the pipe of worker w does to the facts about worker v.
LEMMA ReadStops ==
  ASSUME TypeOK, StopIsLast, NEW w \in Workers, NEW data, Read(w, data), NEW v \in Workers
  PROVE  /\ StopLast(v)'
         /\ StopIn(v)' => StopIn(v)
         /\ StopIn(v) => StopIn(v)' \/ (v = w /\ data = Stop)
         /\ v = w /\ data = Stop => conn_pipe'[v] = << >> /\ StopIn(v)
         /\ v # w => conn_pipe'[v] = conn_pipe[v]
<1>1. conn_pipe[v] \in Seq(Data) /\ StopLast(v)
  BY Zenon DEF TypeOK, Data, StopIsLast, StopLast
<1>2. CASE v # w
  <2>1. conn_pipe'[v] = conn_pipe[v]
    BY <1>2, Zenon DEF Read, TypeOK
  <2>. QED  BY Zenon, <1>1, <1>2, <2>1 DEF StopLast, StopIn
<1>3. CASE v = w
  <2>. DEFINE q == conn_pipe[v]
  <2>1. q # << >> /\ data = Head(q) /\ conn_pipe'[v] = Tail(q) /\ Tail(q) \in Seq(Data)
    BY <1>1, <1>3, HeadTail, Zenon DEF Read, TypeOK
  <2>2. /\ \A k \in 1 .. Len(Tail(q)) : k + 1 \in 1 .. Len(q) /\ Tail(q)[k] = q[k + 1]
        /\ \A k \in 1 .. Len(q) : k = 1 \/ (k - 1 \in 1 .. Len(Tail(q)) /\ Tail(q)[k - 1] = q[k])
        /\ Len(q) \in Nat /\ Len(Tail(q)) = Len(q) - 1 /\ Head(q) = q[1] /\ Len(q) >= 1
    BY <1>1, <2>1, TailStops, Zenon
  <2>3. \A k \in 1 .. Len(q) : q[k] = Stop => k = Len(q)
    BY <1>1, Zenon DEF StopLast
  <2>4. StopIn(v) <=> \E k \in 1 .. Len(q) : q[k] = Stop
    BY Zenon DEF StopIn
  <2>5. StopIn(v)' <=> \E k \in 1 .. Len(Tail(q)) : Tail(q)[k] = Stop
    BY <2>1, Zenon DEF StopIn
  <2>6. StopLast(v)' <=> \A k \in 1 .. Len(Tail(q)) : Tail(q)[k] = Stop => k = Len(Tail(q))
    BY <2>1, Zenon DEF StopLast
  <2>. HIDE DEF q
  <2>7. StopLast(v)'
    BY <2>2, <2>3, <2>6
  <2>8. StopIn(v)' => StopIn(v)
    BY <2>2, <2>4, <2>5
  <2>9. StopIn(v) => StopIn(v)' \/ data = Stop
    BY <2>1, <2>2, <2>4, <2>5, Zenon
  <2>10. ASSUME data = Stop PROVE conn_pipe'[v] = << >> /\ StopIn(v)
    <3>1. 1 \in 1 .. Len(q) /\ q[1] = Stop
      BY <2>1, <2>2, <2>10
    <3>2. Len(Tail(q)) = 0
      <4>1. Len(q) = 1
        BY Zenon, <2>3, <3>1
      <4>. QED  BY <2>2, <4>1
    <3>3. Tail(q) = << >>
      BY <2>1, <3>2, NoElements, Zenon
    <3>. QED  BY Zenon, <2>1, <2>4, <3>1, <3>3
  <2>. QED  BY Zenon, <1>3, <2>7, <2>8, <2>9, <2>10
<1>. QED  BY <1>2, <1>3, Zenon

\* What writing to the pipe of worker w does to the facts about worker v, when
\* no stop command is in that pipe yet.
LEMMA NotifyStops ==
  ASSUME TypeOK, StopIsLast, NEW w \in Workers, ~StopIn(w), NEW data \in Data,
         notify_new_conn(w, data), NEW v \in Workers
  PROVE  /\ StopLast(v)'
         /\ v # w => conn_pipe'[v] = conn_pipe[v]
         /\ data # Stop => ~StopIn(w)'
         /\ data = Stop => StopIn(w)' \/ <<w, Stop>> \in dropped'
<1>1. conn_pipe[v] \in Seq(Data) /\ conn_pipe[w] \in Seq(Data) /\ StopLast(v)
  BY Zenon DEF TypeOK, Data, StopIsLast, StopLast
<1>2. CASE Len(conn_pipe[w]) < PipeCap
  <2>1. conn_pipe' = [conn_pipe EXCEPT ![w] = Append(@, data)]
    BY Zenon, <1>2 DEF notify_new_conn
  <2>2. conn_pipe'[w] = Append(conn_pipe[w], data) /\ (v # w => conn_pipe'[v] = conn_pipe[v])
    BY <2>1, Zenon DEF TypeOK
  <2>. DEFINE q == conn_pipe[w]
              r == Append(q, data)
  <2>3. /\ Len(q) \in Nat /\ Len(r) = Len(q) + 1 /\ r[Len(q) + 1] = data
        /\ \A k \in 1 .. Len(q) : r[k] = q[k]
    BY <1>1, Appended
  <2>4. \A k \in 1 .. Len(q) : q[k] # Stop
    BY Zenon DEF StopIn
  <2>5. StopLast(v)'
    <3>1. CASE v # w
      BY <1>1, <2>2, <3>1, Zenon DEF StopLast
    <3>2. CASE v = w
      <4>1. StopLast(v)' <=> \A k \in 1 .. Len(r) : r[k] = Stop => k = Len(r)
        BY Zenon, <2>2, <3>2 DEF StopLast
      <4>. HIDE DEF r, q
      <4>. QED  BY <2>3, <2>4, <4>1
    <3>. QED  BY Zenon, <3>1, <3>2
  <2>6. StopIn(w)' <=> \E k \in 1 .. Len(r) : r[k] = Stop
    BY <2>2, Zenon DEF StopIn
  <2>. HIDE DEF r, q
  <2>7. StopIn(w)' <=> data = Stop
    BY <2>3, <2>4, <2>6
  <2>. QED  BY Zenon, <2>2, <2>5, <2>7
<1>3. CASE ~(Len(conn_pipe[w]) < PipeCap)
  <2>1. conn_pipe' = conn_pipe /\ dropped' = dropped \cup {<<w, cmd>> : cmd \in {data} \ Conns}
    BY <1>3, Zenon DEF notify_new_conn
  <2>2. data = Stop => <<w, Stop>> \in dropped'
    BY <2>1, CommandsAssumption, Zenon
  <2>. QED  BY <1>1, <2>1, <2>2, Zenon DEF StopLast, StopIn
<1>. QED  BY <1>2, <1>3, Zenon

\* The invariant on the pipes, one worker at a time.
LEMMA StopIsLastSplit == StopIsLast <=> \A w \in Workers : StopLast(w) /\ Ended(w)
BY Zenon DEF StopIsLast, StopLast, Ended

\* A write of a connection or a sweep to a worker that close_server has not come
\* to, while it has come to none.
LEMMA WriteBeforeStop ==
  ASSUME ShutdownInv, TypeOK', NEW w \in Workers, NEW data \in Data, data # Stop,
         notify_new_conn(w, data), UNCHANGED loop,
         pc \in {"idle", "scan", "reread", "sweep"}, pc' \in {"idle", "scan", "reread", "sweep"}
  PROVE  ShutdownInv'
<1>1. \A v \in Workers : Untouched(v)
  BY Zenon DEF ShutdownInv, Phase
<1>2. ASSUME NEW v \in Workers PROVE StopLast(v)' /\ Ended(v)' /\ Untouched(v)'
  <2>1. StopLast(v)' /\ (v # w => conn_pipe'[v] = conn_pipe[v]) /\ ~StopIn(w)'
    BY Zenon, <1>1, NotifyStops DEF ShutdownInv, Untouched
  <2>. QED  BY <1>1, <2>1, Zenon DEF Untouched, StopIn, Ended
<1>3. StopIsLast'
  BY <1>2, Zenon DEF StopIsLast, StopLast, Ended
<1>. QED  BY Zenon, <1>2, <1>3 DEF ShutdownInv, Phase, JoinJustified

\* A step that leaves pipes and loops alone, before the shutdown.
LEMMA BeforeStop ==
  ASSUME ShutdownInv, TypeOK', UNCHANGED <<conn_pipe, loop, dropped>>,
         pc \in {"idle", "scan", "reread", "sweep"}, pc' \in {"idle", "scan", "reread", "sweep"}
  PROVE  ShutdownInv'
BY Zenon DEF ShutdownInv, Phase, Untouched, StopIn, StopIsLast, JoinJustified

\* The shutdown invariant over the steps of the main thread.
LEMMA ShutdownMain ==
  ASSUME ShutdownInv, TypeOK', Main \/ timer \/ signal_cb
  PROVE  ShutdownInv'
<1>0. TypeOK /\ idx \in 0 .. NumWorkers /\ NumWorkers \in Nat
  BY Zenon, WorkersAssumption DEF ShutdownInv, TypeOK
<1>1. CASE accept_callback
  BY <1>1, BeforeStop, Zenon DEF accept_callback
<1>2. CASE accept_scan
  BY <1>2, BeforeStop, Zenon DEF accept_scan
<1>3. CASE accept_reread
  BY <1>3, BeforeStop, Zenon DEF accept_reread
<1>4. CASE accept_conn
  <2>1. pc = "scan" /\ pc' = "idle" /\ UNCHANGED loop /\ min_index \in Workers
        /\ backlog \in Seq(Conns) /\ backlog # << >>
    BY <1>0, <1>4, Zenon DEF accept_conn, TypeOK
  <2>2. Head(backlog) \in Data /\ Head(backlog) # Stop
    BY <2>1, HeadTail, CommandsAssumption, Zenon DEF Data
  <2>3. CASE has_capacity(min_count)
    <3>1. notify_new_conn(min_index, Head(backlog))
      BY Zenon, <1>4, <2>3 DEF accept_conn
    <3>. QED  BY <2>1, <2>2, <3>1, WriteBeforeStop, Zenon
  <2>4. CASE ~has_capacity(min_count)
    BY Zenon, <1>4, <2>1, <2>4, BeforeStop DEF accept_conn
  <2>. QED  BY <2>3, <2>4, Zenon
<1>5. CASE check_expire_client
  <2>1. CASE idx < NumWorkers
    <3>1. idx \in Workers
      BY <1>0, <2>1 DEF Workers
    <3>2. notify_new_conn(idx, Sweep) /\ UNCHANGED loop /\ pc = "sweep" /\ pc' = "sweep"
      BY <1>0, <1>5, <2>1 DEF check_expire_client
    <3>3. Sweep \in Data /\ Sweep # Stop
      BY CommandsAssumption, Zenon DEF Data
    <3>. QED  BY Zenon, <3>1, <3>2, <3>3, WriteBeforeStop
  <2>2. CASE idx = NumWorkers
    BY <1>0, <1>5, <2>2, BeforeStop DEF check_expire_client
  <2>. QED  BY <1>5, <2>1, <2>2, Zenon DEF check_expire_client
<1>6. CASE timer
  BY <1>6, BeforeStop, Zenon DEF timer
<1>7. CASE signal_cb
  <2>1. \A w \in Workers : Untouched(w)
    BY <1>7, Zenon DEF signal_cb, ShutdownInv, Phase
  <2>2. pc' = "stop" /\ idx' = 0 /\ UNCHANGED <<conn_pipe, loop, dropped>>
    BY <1>7, Zenon DEF signal_cb
  <2>3. \A w \in Workers : Untouched(w)' /\ ~(w < 0)
    BY <2>1, <2>2 DEF Untouched, StopIn, Workers
  <2>4. 0 \in Workers
    BY WorkersAssumption DEF Workers
  <2>5. StopIsLast'
    BY <2>2, Zenon DEF ShutdownInv, StopIsLast
  <2>. QED  BY <2>2, <2>3, <2>4, <2>5, Zenon DEF ShutdownInv, Phase, JoinJustified
<1>8. CASE close_server
  <2>0. pc = "stop" /\ UNCHANGED <<loop, idx>>
    BY <1>8, Zenon DEF close_server
  <2>1. CASE idx < NumWorkers
    <3>1. idx \in Workers
      BY <1>0, <2>1 DEF Workers
    <3>2. notify_new_conn(idx, Stop) /\ pc' = "join"
      BY <1>0, <1>8, <2>1 DEF close_server
    <3>3. Untouched(idx) /\ Stop \in Data
      BY Zenon, <2>0, <2>1 DEF ShutdownInv, Phase, Data
    <3>. PICK x \in Workers : x = idx
      BY <3>1, Zenon
    <3>4. ASSUME NEW v \in Workers
          PROVE  /\ StopLast(v)' /\ (v # idx => conn_pipe'[v] = conn_pipe[v])
                 /\ StopIn(x)' \/ <<x, Stop>> \in dropped'
      BY Zenon, <3>2, <3>3, NotifyStops DEF ShutdownInv, Untouched
    <3>5. StopIsLast'
      <4>1. ASSUME NEW v \in Workers PROVE Ended(v)'
        BY <2>0, <3>3, <3>4, Zenon DEF ShutdownInv, StopIsLast, Ended, Untouched
      <4>. QED  BY <3>4, <4>1, Zenon DEF StopIsLast, StopLast, Ended
    <3>6. JoinJustified'
      BY Zenon, <2>0, <3>1, <3>4 DEF JoinJustified, StopIn
    <3>7. Phase'
      <4>1. ASSUME NEW v \in Workers
            PROVE (v < idx => loop[v] = "deleted") /\ (v > idx => Untouched(v)')
        <5>1. v < idx => loop[v] = "deleted"
          BY <2>0, Zenon DEF ShutdownInv, Phase
        <5>2. v > idx => Untouched(v) /\ v # idx
          BY <1>0, <2>0 DEF ShutdownInv, Phase, Workers
        <5>. QED  BY <2>0, <3>4, <5>1, <5>2, Zenon DEF Untouched, StopIn
      <4>. QED  BY <2>0, <3>2, <3>3, <4>1, Zenon DEF Phase, Untouched
    <3>. QED  BY Zenon, <3>5, <3>6, <3>7 DEF ShutdownInv
  <2>2. CASE idx = NumWorkers
    <3>1. pc' = "done" /\ UNCHANGED <<conn_pipe, dropped>>
      BY <1>0, <1>8, <2>2 DEF close_server, after_close
    <3>2. \A v \in Workers : loop[v] = "deleted"
      BY <1>0, <2>0, <2>2 DEF ShutdownInv, Phase, Workers
    <3>. QED  BY <2>0, <3>1, <3>2, Zenon DEF ShutdownInv, Phase, StopIsLast, JoinJustified
  <2>. QED  BY <1>0, <1>8, <2>1, <2>2, Zenon DEF close_server
<1>9. CASE join_worker
  <2>1. /\ pc = "join" /\ loop[idx] = "exit" /\ pc' = "stop" /\ idx' = idx + 1
        /\ loop' = [loop EXCEPT ![idx] = "deleted"] /\ UNCHANGED <<conn_pipe, dropped>>
        /\ idx \in Workers /\ idx \in Nat
    BY <1>0, <1>9 DEF join_worker, joined, TypeOK
  <2>2. ASSUME NEW v \in Workers
        PROVE  /\ v < idx + 1 => loop'[v] = "deleted"
               /\ v > idx => Untouched(v)'
    <3>1. (v < idx => loop[v] = "deleted") /\ (v > idx => Untouched(v))
      BY Zenon, <2>1 DEF ShutdownInv, Phase
    <3>2. loop'[v] = IF v = idx THEN "deleted" ELSE loop[v]
      BY Zenon, <1>0, <2>1 DEF TypeOK
    <3>3. v \in Nat /\ (v < idx + 1 <=> v < idx \/ v = idx) /\ (v > idx => v # idx)
      BY <1>0, <2>1 DEF Workers
    <3>. QED  BY <2>1, <3>1, <3>2, <3>3, Zenon DEF Untouched, StopIn
  <2>3. idx + 1 < NumWorkers => idx + 1 \in Workers /\ idx + 1 > idx
    BY <1>0, <2>1 DEF Workers
  <2>4. Phase'
    <3>1. \A v \in Workers : /\ v < idx' => loop'[v] = "deleted"
                             /\ v > idx' => Untouched(v)'
      BY <1>0, <2>1, <2>2 DEF Workers
    <3>2. ASSUME idx' < NumWorkers PROVE Untouched(idx)'
      <4>1. PICK x \in Workers : x = idx + 1 /\ x > idx
        BY Zenon, <2>1, <2>3, <3>2
      <4>2. Untouched(x)' /\ x = idx'
        BY <2>1, <2>2, <4>1, Zenon
      <4>. QED  BY <4>2, Zenon DEF Untouched, StopIn
    <3>. QED  BY <2>1, <3>1, <3>2, Zenon DEF Phase
  <2>5. StopIsLast'
    BY Zenon, <1>0, <2>1 DEF ShutdownInv, StopIsLast, TypeOK
  <2>. QED  BY <2>1, <2>4, <2>5, Zenon DEF ShutdownInv, JoinJustified
<1>. QED  BY <1>1, <1>2, <1>3, <1>4, <1>5, <1>6, <1>7, <1>8, <1>9, Zenon DEF Main

\* A worker step that reads no stop command and ends no loop.
LEMMA WorkerGoesOn ==
  ASSUME ShutdownInv, TypeOK', UNCHANGED <<main, loop>>, dropped \subseteq dropped',
         \A v \in Workers : /\ StopLast(v)' /\ Ended(v)'
                            /\ StopIn(v)' => StopIn(v)
                            /\ StopIn(v) => StopIn(v)' \/ <<v, Stop>> \in dropped'
  PROVE  ShutdownInv'
<1>1. StopIsLast'
  BY Zenon DEF StopIsLast, StopLast, Ended
<1>2. \A v \in Workers : Untouched(v) => Untouched(v)'
  BY Zenon DEF Untouched
<1>3. pc \in {"join"} \/ (pc = "stop" /\ idx < NumWorkers) => idx \in Workers
  BY WorkersAssumption DEF ShutdownInv, TypeOK, Workers
<1>4. Phase'
  <2>1. Phase
    BY Zenon DEF ShutdownInv
  <2>2. ASSUME pc = "stop", idx < NumWorkers PROVE Untouched(idx)'
    <3>1. PICK x \in Workers : x = idx
      BY <1>3, <2>2, Zenon
    <3>2. Untouched(x)'
      BY Zenon, <1>2, <2>1, <2>2, <3>1 DEF Phase
    <3>. QED  BY Zenon, <3>1, <3>2 DEF Untouched, StopIn
  <2>. QED  BY <1>2, <2>1, <2>2, Zenon DEF Phase
<1>5. JoinJustified'
  <2>1. SUFFICES ASSUME pc = "join" PROVE JoinJustified'
    BY Zenon DEF JoinJustified
  <2>2. PICK x \in Workers : x = idx
    BY <1>3, <2>1, Zenon
  <2>3. StopIn(x) \/ loop[x] = "exit" \/ <<x, Stop>> \in dropped
    BY <2>1, <2>2, Zenon DEF ShutdownInv, JoinJustified, StopIn
  <2>4. StopIn(x)' \/ loop'[x] = "exit" \/ <<x, Stop>> \in dropped'
    BY <2>3, Zenon
  <2>. QED  BY <2>2, <2>4, Zenon DEF JoinJustified, StopIn
<1>. QED  BY <1>1, <1>4, <1>5, Zenon DEF ShutdownInv

\* ... over the steps of a worker.
LEMMA ShutdownWorker ==
  ASSUME ShutdownInv, TypeOK', NEW w \in Workers,
         notify_new_conn_callback(w) \/ \E c \in Conns : connection_ends(w, c)
  PROVE  ShutdownInv'
<1>0. TypeOK /\ StopIsLast /\ \A v \in Workers : StopLast(v) /\ Ended(v)
  BY StopIsLastSplit, Zenon DEF ShutdownInv
<1>1. ASSUME NEW data, Read(w, data), UNCHANGED <<main, loop>>, dropped \subseteq dropped',
             data = Stop => <<w, Stop>> \in dropped'
      PROVE  ShutdownInv'
  <2>1. ASSUME NEW v \in Workers
        PROVE  /\ StopLast(v)' /\ Ended(v)'
               /\ StopIn(v)' => StopIn(v)
               /\ StopIn(v) => StopIn(v)' \/ <<v, Stop>> \in dropped'
    <3>1. /\ StopLast(v)'
          /\ StopIn(v)' => StopIn(v)
          /\ StopIn(v) => StopIn(v)' \/ (v = w /\ data = Stop)
          /\ v # w => conn_pipe'[v] = conn_pipe[v]
      BY <1>0, <1>1, ReadStops, Zenon
    <3>2. Ended(v)'
      BY <1>0, <1>1, <3>1, Zenon DEF Ended, Read
    <3>. QED  BY Zenon, <1>1, <3>1, <3>2
  <2>. QED  BY <1>1, <2>1, WorkerGoesOn, Zenon
<1>2. CASE new_connection(w)
  <2>1. PICK c \in Conns : Read(w, c)
    BY <1>2, Zenon DEF new_connection
  <2>2. c # Stop
    BY CommandsAssumption, Zenon
  <2>. QED  BY Zenon, <1>1, <1>2, <2>1, <2>2 DEF new_connection
<1>3. CASE timeout_cmd(w)
  BY <1>1, <1>3, CommandsAssumption, Zenon DEF timeout_cmd
<1>4. CASE read_and_discard(w)
  <2>1. PICK data \in Data : /\ Read(w, data)
                             /\ dropped' = dropped \cup {<<w, cmd>> : cmd \in {data} \ Conns}
    BY <1>4, Zenon DEF read_and_discard, Data
  <2>2. dropped \subseteq dropped' /\ (data = Stop => <<w, Stop>> \in dropped')
    BY Zenon, <2>1, CommandsAssumption
  <2>. QED  BY Zenon, <1>1, <1>4, <2>1, <2>2 DEF read_and_discard
<1>5. CASE pipe_empty(w) \/ \E c \in Conns : connection_ends(w, c)
  <2>1. UNCHANGED <<main, loop, conn_pipe, dropped>>
    BY <1>5, Zenon DEF pipe_empty, connection_ends
  <2>. QED  BY Zenon, <1>0, <2>1, WorkerGoesOn DEF StopLast, Ended, StopIn
<1>6. CASE stop_cmd(w)
  <2>1. /\ Read(w, Stop) /\ loop' = [loop EXCEPT ![w] = "exit"] /\ loop[w] = "run"
        /\ UNCHANGED <<main, dropped>>
    BY <1>6, Zenon DEF stop_cmd, Read
  <2>2. StopIn(w) /\ conn_pipe'[w] = << >>
    BY <1>0, <2>1, ReadStops, Zenon
  <2>3. pc = "join" /\ idx = w
    <3>1. ~Untouched(w) /\ loop[w] # "deleted"
      BY <2>1, <2>2, Zenon DEF Untouched
    <3>2. pc \in {"stop", "join"}
      BY Zenon, <3>1 DEF ShutdownInv, Phase, TypeOK
    <3>3. ~(w < idx) /\ ~(w > idx)
      BY <3>1, <3>2, Zenon DEF ShutdownInv, Phase
    <3>4. w = idx /\ w < NumWorkers
      BY SMTT(30), <1>0, <3>3, WorkersAssumption DEF TypeOK, Workers
    <3>. QED  BY <3>1, <3>2, <3>4, Zenon DEF ShutdownInv, Phase
  <2>4. ASSUME NEW v \in Workers
        PROVE  /\ StopLast(v)' /\ Ended(v)'
               /\ v # w => (Untouched(v) => Untouched(v)') /\ loop'[v] = loop[v]
    <3>1. StopLast(v)' /\ (StopIn(v)' => StopIn(v)) /\ (v # w => conn_pipe'[v] = conn_pipe[v])
      BY <1>0, <2>1, ReadStops, Zenon
    <3>2. loop'[v] = IF v = w THEN "exit" ELSE loop[v]
      BY Zenon, <1>0, <2>1 DEF TypeOK
    <3>3. Ended(v)'
      BY Zenon, <1>0, <2>2, <3>1, <3>2 DEF Ended
    <3>. QED  BY Zenon, <3>1, <3>2, <3>3 DEF Untouched
  <2>5. StopIsLast'
    BY <2>4, Zenon DEF StopIsLast, StopLast, Ended
  <2>6. loop'[w] = "exit" /\ idx' = w /\ pc' = "join"
    BY <1>0, <2>1, <2>3, Zenon DEF TypeOK
  <2>7. Phase'
    <3>1. ASSUME NEW v \in Workers
          PROVE  (v < w => loop'[v] = "deleted") /\ (v > w => Untouched(v)')
      <4>1. (v < w => loop[v] = "deleted") /\ (v > w => Untouched(v))
        BY <2>3, Zenon DEF ShutdownInv, Phase
      <4>2. v < w \/ v > w => v # w
        BY DEF Workers
      <4>. QED  BY <2>4, <4>1, <4>2, Zenon
    <3>. QED  BY <2>6, <3>1, Zenon DEF Phase
  <2>. QED  BY <2>5, <2>6, <2>7, Zenon DEF ShutdownInv, JoinJustified
<1>. QED  BY <1>2, <1>3, <1>4, <1>5, <1>6, Zenon DEF notify_new_conn_callback

\* Every action keeps the shutdown invariant.
LEMMA ShutdownStep == ShutdownInv /\ [Next]_vars => ShutdownInv'
<1>1. SUFFICES ASSUME ShutdownInv, [Next]_vars PROVE ShutdownInv'
  BY Zenon
<1>2. TypeOK'
  BY <1>1, TypeStep, Zenon DEF ShutdownInv
<1>3. CASE Main \/ timer \/ signal_cb
  BY <1>1, <1>2, <1>3, ShutdownMain, Zenon
<1>4. ASSUME NEW w \in Workers,
             notify_new_conn_callback(w) \/ \E c \in Conns : connection_ends(w, c)
      PROVE  ShutdownInv'
  BY <1>1, <1>2, <1>4, ShutdownWorker, Zenon
<1>5. CASE (\E c \in Conns : connect(c)) \/ UNCHANGED vars
  <2>1. UNCHANGED <<workers, main, dropped>>
    BY <1>5, Zenon DEF connect
  <2>. QED  BY <1>1, <1>2, <2>1, Zenon DEF ShutdownInv, Phase, Untouched, StopIn, StopIsLast, JoinJustified
<1>. QED  BY <1>1, <1>3, <1>4, <1>5, Zenon DEF Next

\* The invariant holds of the running server.
LEMMA ShutdownCorrect == Spec => []ShutdownInv
<1>1. Init => ShutdownInv
  <2>1. SUFFICES ASSUME Init PROVE ShutdownInv
    BY Zenon
  <2>2. TypeOK
    BY <2>1, InitType, Zenon
  <2>3. \A w \in Workers : conn_pipe[w] = << >> /\ loop[w] = "run"
    BY <2>1, Zenon DEF Init
  <2>4. \A w \in Workers : ~StopIn(w) /\ StopLast(w) /\ Ended(w)
    BY <2>3 DEF StopIn, StopLast, Ended
  <2>. QED  BY <2>1, <2>2, <2>3, <2>4, StopIsLastSplit, Zenon DEF Init, ShutdownInv, Phase, Untouched, JoinJustified
<1>. QED  BY <1>1, ShutdownStep, PTL DEF Spec

\* close_server waits in pthread_join only for a worker whose stop command is on
\* its way, has been obeyed, or was dropped.
THEOREM JoinIsJustified == Spec => []JoinJustified
<1>1. ShutdownInv => JoinJustified
  BY Zenon DEF ShutdownInv
<1>. QED  BY <1>1, ShutdownCorrect, PTL

\* A worker reads nothing after its stop command, and nothing is written to the
\* pipe of a worker that has ended.
THEOREM NothingAfterStop == Spec => []StopIsLast
<1>1. ShutdownInv => StopIsLast
  BY Zenon DEF ShutdownInv
<1>. QED  BY <1>1, ShutdownCorrect, PTL

\* The main thread touches no worker it has deleted.
THEOREM DeletedIsUnused == Spec => []NoUseOfDeleted
<1>1. ShutdownInv => NoUseOfDeleted
  <2>1. SUFFICES ASSUME ShutdownInv PROVE NoUseOfDeleted
    BY Zenon
  <2>2. pc \in {"scan", "reread", "sweep"} => \A w \in Workers : loop[w] # "deleted"
    BY <2>1, Zenon DEF ShutdownInv, Phase, Untouched
  <2>3. ASSUME pc \in {"stop", "join"}, NEW w \in Workers, loop[w] = "deleted" PROVE w < idx
    <3>1. ~(w > idx)
      BY <2>1, <2>3, Zenon DEF ShutdownInv, Phase, Untouched
    <3>2. w # idx
      BY <2>1, <2>3, WorkersAssumption DEF ShutdownInv, Phase, Untouched, Workers
    <3>. QED  BY <2>1, <3>1, <3>2, WorkersAssumption DEF ShutdownInv, TypeOK, Workers
  <2>. QED  BY <2>2, <2>3, Zenon DEF NoUseOfDeleted
<1>. QED  BY <1>1, ShutdownCorrect, PTL

-----------------------------------------------------------------------------
(* Handing over.  A connection is in at most one place, it is there once, and *)
(* it is nowhere before it has been made.                                     *)

Has(q, c) == \E k \in 1 .. Len(q) : q[k] = c
Single(q, c) == \A i, j \in 1 .. Len(q) : q[i] = c /\ q[j] = c => i = j

Spots == {"backlog", "pipe", "serving", "lost"}

\* The connection is in the place s; the backlog and what is lost go by worker 0.
At(c, s, w) ==
  \/ s = "backlog" /\ w = 0 /\ Has(backlog, c)
  \/ s = "pipe" /\ Has(conn_pipe[w], c)
  \/ s = "serving" /\ c \in serving[w]
  \/ s = "lost" /\ w = 0 /\ c \in lost

Singles(c) == Single(backlog, c) /\ \A w \in Workers : Single(conn_pipe[w], c)

Once(c) ==
  /\ Singles(c)
  /\ \A s, t \in Spots, w, v \in Workers : At(c, s, w) /\ At(c, t, v) => s = t /\ w = v
  /\ c \notin made => \A s \in Spots, w \in Workers : ~At(c, s, w)

OnceInv == \A c \in Conns : Once(c)

\* A write to a pipe adds the connection it is about, once if it was not there.
LEMMA HasAppend ==
  ASSUME NEW S, NEW q \in Seq(S), NEW x \in S, NEW c
  PROVE  /\ Has(Append(q, x), c) <=> Has(q, c) \/ x = c
         /\ Single(q, c) /\ (x = c => ~Has(q, c)) => Single(Append(q, x), c)
<1>. DEFINE r == Append(q, x)
<1>1. /\ Len(q) \in Nat /\ Len(r) = Len(q) + 1 /\ r[Len(q) + 1] = x
      /\ \A k \in 1 .. Len(q) : r[k] = q[k]
  BY Appended
<1>. HIDE DEF r
<1>2. Has(r, c) <=> Has(q, c) \/ x = c
  BY <1>1 DEF Has
<1>3. ASSUME Single(q, c), x = c => ~Has(q, c) PROVE Single(r, c)
  <2>. SUFFICES ASSUME NEW i \in 1 .. Len(r), NEW j \in 1 .. Len(r), r[i] = c, r[j] = c
                PROVE  i = j
    BY Zenon DEF Single
  <2>1. \A k \in 1 .. Len(r) : k \in 1 .. Len(q) \/ k = Len(q) + 1
    BY <1>1
  <2>2. CASE x = c
    <3>1. \A k \in 1 .. Len(q) : r[k] # c
      BY Zenon, <1>1, <1>3, <2>2 DEF Has
    <3>. QED  BY Zenon, <2>1, <3>1
  <2>3. CASE x # c
    <3>1. i \in 1 .. Len(q) /\ j \in 1 .. Len(q)
      BY Zenon, <1>1, <2>1, <2>3
    <3>. QED  BY Zenon, <1>1, <1>3, <3>1 DEF Single
  <2>. QED  BY <2>2, <2>3, Zenon
<1>. QED  BY <1>2, <1>3, Zenon DEF r

\* A read takes the first connection off the pipe and adds none.
LEMMA HasTail ==
  ASSUME NEW S, NEW q \in Seq(S), q # << >>, NEW c
  PROVE  /\ Has(Tail(q), c) => Has(q, c)
         /\ Has(q, Head(q))
         /\ Single(q, c) => Single(Tail(q), c) /\ (Head(q) = c => ~Has(Tail(q), c))
<1>. DEFINE r == Tail(q)
<1>1. /\ Len(q) \in Nat /\ Len(q) >= 1 /\ Len(r) = Len(q) - 1 /\ Head(q) = q[1]
      /\ \A k \in 1 .. Len(q) - 1 : r[k] = q[k + 1]
  BY HeadTail, Zenon
<1>. HIDE DEF r
<1>2. \A k \in 1 .. Len(r) : k + 1 \in 1 .. Len(q) /\ r[k] = q[k + 1] /\ k + 1 # 1 /\ k \in Int
  BY <1>1
<1>3. Has(r, c) => Has(q, c)
  BY Zenon, <1>2 DEF Has
<1>4. 1 \in 1 .. Len(q)
  BY <1>1
<1>5. Has(q, Head(q))
  BY Zenon, <1>1, <1>4 DEF Has
<1>6. ASSUME Single(q, c) PROVE Single(r, c)
  <2>. SUFFICES ASSUME NEW i \in 1 .. Len(r), NEW j \in 1 .. Len(r), r[i] = c, r[j] = c
                PROVE  i = j
    BY Zenon DEF Single
  <2>1. i + 1 = j + 1
    BY Zenon, <1>2, <1>6 DEF Single
  <2>. QED  BY <2>1
<1>7. ASSUME Single(q, c), Head(q) = c PROVE ~Has(r, c)
  BY Zenon, <1>1, <1>2, <1>4, <1>7 DEF Single, Has
<1>. QED  BY <1>3, <1>5, <1>6, <1>7, Zenon DEF r

\* A connection that goes from one place to another one, or to none.
LEMMA OnceMoves ==
  ASSUME NEW c \in Conns, Once(c), Singles(c)', made \subseteq made',
         NEW s \in Spots, NEW w \in Workers, At(c, s, w), ~At(c, s, w)',
         NEW t \in Spots, NEW v \in Workers,
         \A u \in Spots, x \in Workers : At(c, u, x)' => At(c, u, x) \/ (u = t /\ x = v)
  PROVE  Once(c)'
<1>1. c \in made'
  BY Zenon DEF Once
<1>2. \A u \in Spots, x \in Workers : At(c, u, x) => u = s /\ x = w
  BY Zenon DEF Once
<1>3. \A u \in Spots, x \in Workers : At(c, u, x)' => u = t /\ x = v
  BY Zenon, <1>2
<1>. QED  BY Zenon, <1>1, <1>3 DEF Once

\* A connection that gets to no new place is still in one place only.
LEMMA OnceStays ==
  ASSUME NEW c \in Conns, Once(c), Singles(c)', made \subseteq made',
         \A u \in Spots, x \in Workers : At(c, u, x)' => At(c, u, x)
  PROVE  Once(c)'
BY Zenon DEF Once

\* A write puts the connection it is about, and no other, into one pipe, or it is lost.
LEMMA NotifyOnce ==
  ASSUME TypeOK, NEW w \in Workers, NEW data \in Data, notify_new_conn(w, data),
         NEW c \in Conns, Singles(c), data = c => \A x \in Workers : ~Has(conn_pipe[x], c)
  PROVE  /\ \A x \in Workers : Single(conn_pipe'[x], c)
         /\ \/ /\ \A x \in Workers : Has(conn_pipe'[x], c) => Has(conn_pipe[x], c) \/ (x = w /\ data = c)
               /\ UNCHANGED lost
            \/ UNCHANGED conn_pipe /\ (c \in lost' => c \in lost \/ data = c)
<1>1. CASE Len(conn_pipe[w]) < PipeCap
  <2>1. conn_pipe' = [conn_pipe EXCEPT ![w] = Append(@, data)] /\ UNCHANGED lost
    BY Zenon, <1>1 DEF notify_new_conn
  <2>2. /\ conn_pipe'[w] = Append(conn_pipe[w], data)
        /\ \A x \in Workers : x # w => conn_pipe'[x] = conn_pipe[x]
    BY <2>1, Zenon DEF TypeOK
  <2>3. conn_pipe[w] \in Seq(Data)
    BY Zenon DEF TypeOK, Data
  <2>4. /\ Has(conn_pipe'[w], c) => Has(conn_pipe[w], c) \/ data = c
        /\ Single(conn_pipe'[w], c)
    <3>1. Single(conn_pipe[w], c) /\ (data = c => ~Has(conn_pipe[w], c))
      BY Zenon DEF Singles
    <3>2. /\ Has(Append(conn_pipe[w], data), c) <=> Has(conn_pipe[w], c) \/ data = c
          /\ Single(Append(conn_pipe[w], data), c)
      BY <2>3, <3>1, HasAppend, Zenon
    <3>. QED  BY Zenon, <2>2, <3>2
  <2>. QED  BY Zenon, <2>1, <2>2, <2>4 DEF Singles
<1>2. CASE ~(Len(conn_pipe[w]) < PipeCap)
  <2>1. UNCHANGED conn_pipe /\ lost' = lost \cup ({data} \cap Conns)
    BY Zenon, <1>2 DEF notify_new_conn
  <2>. QED  BY Zenon, <2>1 DEF Singles
<1>. QED  BY <1>1, <1>2, Zenon

\* A read takes the connection it is about out of its pipe.
LEMMA ReadOnce ==
  ASSUME TypeOK, NEW w \in Workers, NEW data, Read(w, data), NEW c \in Conns, Singles(c)
  PROVE  /\ \A x \in Workers : Single(conn_pipe'[x], c)
         /\ \A x \in Workers : Has(conn_pipe'[x], c) => Has(conn_pipe[x], c)
         /\ data = c => Has(conn_pipe[w], c) /\ ~Has(conn_pipe'[w], c)
<1>1. /\ conn_pipe[w] # << >> /\ data = Head(conn_pipe[w])
      /\ conn_pipe' = [conn_pipe EXCEPT ![w] = Tail(@)]
  BY Zenon DEF Read
<1>2. /\ conn_pipe'[w] = Tail(conn_pipe[w])
      /\ \A x \in Workers : x # w => conn_pipe'[x] = conn_pipe[x]
  BY <1>1, Zenon DEF TypeOK
<1>3. conn_pipe[w] \in Seq(Data)
  BY Zenon DEF TypeOK, Data
<1>4. /\ Has(conn_pipe'[w], c) => Has(conn_pipe[w], c)
      /\ Single(conn_pipe'[w], c)
      /\ data = c => Has(conn_pipe[w], c) /\ ~Has(conn_pipe'[w], c)
  <2>1. Single(conn_pipe[w], c)
    BY Zenon DEF Singles
  <2>2. /\ Has(Tail(conn_pipe[w]), c) => Has(conn_pipe[w], c)
        /\ Has(conn_pipe[w], Head(conn_pipe[w]))
        /\ Single(Tail(conn_pipe[w]), c)
        /\ Head(conn_pipe[w]) = c => ~Has(Tail(conn_pipe[w]), c)
    BY <1>1, <1>3, <2>1, HasTail, Zenon
  <2>. QED  BY Zenon, <1>1, <1>2, <2>2
<1>. QED  BY Zenon, <1>2, <1>4 DEF Singles

\* connect puts a new connection into the backlog.
LEMMA OnceConnect ==
  ASSUME TypeOK, OnceInv, NEW d \in Conns, connect(d), NEW c \in Conns
  PROVE  Once(c)'
<1>1. /\ d \notin made /\ made' = made \cup {d} /\ backlog' = Append(backlog, d)
      /\ UNCHANGED <<conn_pipe, serving, lost>>
  BY Zenon DEF connect
<1>2. Once(c) /\ Singles(c) /\ backlog \in Seq(Conns)
  BY Zenon DEF OnceInv, Once, TypeOK
<1>3. 0 \in Workers /\ "backlog" \in Spots
  BY WorkersAssumption DEF Workers, Spots
<1>4. c = d => \A s \in Spots, w \in Workers : ~At(c, s, w)
  BY Zenon, <1>1, <1>2 DEF Once
<1>5. c = d => ~Has(backlog, c)
  BY Zenon, <1>3, <1>4 DEF At
<1>6. /\ Has(backlog', c) <=> Has(backlog, c) \/ d = c
      /\ Single(backlog', c)
  BY Zenon, <1>1, <1>2, <1>5, HasAppend DEF Singles
<1>7. Singles(c)'
  BY Zenon, <1>1, <1>2, <1>6 DEF Singles
<1>8. made \subseteq made'
  BY Zenon, <1>1
<1>9. CASE c # d
  <2>1. \A u \in Spots, x \in Workers : At(c, u, x)' => At(c, u, x)
    BY Zenon, <1>1, <1>6, <1>9 DEF At
  <2>. QED  BY Zenon, <1>2, <1>7, <1>8, <2>1, OnceStays
<1>10. CASE c = d
  <2>1. \A u \in Spots, x \in Workers : At(c, u, x)' => u = "backlog" /\ x = 0
    <3>1. \A x \in Workers : ~Has(conn_pipe[x], c) /\ c \notin serving[x]
      BY Zenon, <1>4, <1>10 DEF At, Spots
    <3>2. c \notin lost
      BY Zenon, <1>3, <1>4, <1>10 DEF At, Spots
    <3>. QED  BY Zenon, <1>1, <3>1, <3>2 DEF At
  <2>2. c \in made'
    BY Zenon, <1>1, <1>10
  <2>. QED  BY Zenon, <1>7, <2>1, <2>2 DEF Once
<1>. QED  BY <1>9, <1>10, Zenon

\* A step that moves no connection, or takes some off a worker.
LEMMA OnceAlone ==
  ASSUME OnceInv, UNCHANGED <<backlog, made, conn_pipe, lost>>,
         \A w \in Workers : serving'[w] \subseteq serving[w], NEW c \in Conns
  PROVE  Once(c)'
<1>1. Once(c) /\ Singles(c)' /\ made \subseteq made'
  BY Zenon DEF OnceInv, Once, Singles
<1>2. \A u \in Spots, x \in Workers : At(c, u, x)' => At(c, u, x)
  BY Zenon DEF At
<1>. QED  BY Zenon, <1>1, <1>2, OnceStays

\* A command is written.
LEMMA OnceCommand ==
  ASSUME TypeOK, OnceInv, NEW w \in Workers, NEW cmd \in {Stop, Sweep}, notify_new_conn(w, cmd),
         UNCHANGED <<backlog, made, serving>>, NEW c \in Conns
  PROVE  Once(c)'
<1>1. cmd \in Data /\ cmd # c
  BY CommandsAssumption, Zenon DEF Data
<1>2. Once(c) /\ Singles(c) /\ made \subseteq made'
  BY Zenon DEF OnceInv, Once
<1>3. /\ \A x \in Workers : Single(conn_pipe'[x], c)
      /\ \A x \in Workers : Has(conn_pipe'[x], c) => Has(conn_pipe[x], c)
      /\ c \in lost' => c \in lost
  BY Zenon, <1>1, <1>2, NotifyOnce
<1>4. Singles(c)'
  BY Zenon, <1>2, <1>3 DEF Singles
<1>5. \A u \in Spots, x \in Workers : At(c, u, x)' => At(c, u, x)
  BY Zenon, <1>3 DEF At
<1>. QED  BY Zenon, <1>2, <1>4, <1>5, OnceStays

\* accept_callback takes the head of the backlog and writes it to one pipe.
LEMMA OnceAccept ==
  ASSUME TypeOK, OnceInv, accept_conn, NEW c \in Conns
  PROVE  Once(c)'
<1>1. UNCHANGED <<made, serving>>
  BY Zenon DEF accept_conn
<1>2. CASE UNCHANGED <<backlog, conn_pipe, lost, dropped>>
  <2>1. \A w \in Workers : serving'[w] \subseteq serving[w]
    BY Zenon, <1>1
  <2>. QED  BY Zenon, <1>1, <1>2, <2>1, OnceAlone
<1>3. CASE backlog' = Tail(backlog) /\ notify_new_conn(min_index, Head(backlog))
  <2>1. backlog \in Seq(Conns) /\ backlog # << >> /\ min_index \in Workers
    BY Zenon DEF accept_conn, TypeOK
  <2>. DEFINE d == Head(backlog)
  <2>2. d \in Data /\ d \in Conns
    BY <2>1, HeadTail, Zenon DEF Data
  <2>3. Once(c) /\ Singles(c) /\ Single(backlog, c) /\ made \subseteq made'
    BY Zenon, <1>1 DEF OnceInv, Once, Singles
  <2>4. /\ Has(backlog', c) => Has(backlog, c)
        /\ d = c => Has(backlog, c) /\ ~Has(backlog', c)
        /\ Single(backlog', c)
    <3>1. /\ Has(Tail(backlog), c) => Has(backlog, c)
          /\ Has(backlog, Head(backlog))
          /\ Single(Tail(backlog), c) /\ (Head(backlog) = c => ~Has(Tail(backlog), c))
      BY <2>1, <2>3, HasTail, Zenon
    <3>. QED  BY Zenon, <1>3, <3>1
  <2>5. PICK z \in Workers : z = 0
    BY WorkersAssumption DEF Workers
  <2>6. "backlog" \in Spots /\ "pipe" \in Spots /\ "lost" \in Spots /\ "pipe" # "backlog"
    BY Zenon DEF Spots
  <2>7. d = c => At(c, "backlog", z) /\ \A x \in Workers : ~Has(conn_pipe[x], c)
    <3>1. d = c => At(c, "backlog", z)
      BY Zenon, <2>4, <2>5 DEF At
    <3>. QED  BY Zenon, <2>3, <2>5, <2>6, <3>1 DEF Once, At
  <2>. HIDE DEF d
  <2>8. /\ \A x \in Workers : Single(conn_pipe'[x], c)
        /\ \/ /\ \A x \in Workers :
                    Has(conn_pipe'[x], c) => Has(conn_pipe[x], c) \/ (x = min_index /\ d = c)
              /\ UNCHANGED lost
           \/ UNCHANGED conn_pipe /\ (c \in lost' => c \in lost \/ d = c)
    BY Zenon, <1>3, <2>1, <2>2, <2>3, <2>7, NotifyOnce DEF d
  <2>9. Singles(c)'
    BY Zenon, <2>4, <2>8 DEF Singles
  <2>10. CASE d # c
    <3>1. \A u \in Spots, x \in Workers : At(c, u, x)' => At(c, u, x)
      BY Zenon, <1>1, <2>4, <2>8, <2>10 DEF At
    <3>. QED  BY Zenon, <2>3, <2>9, <3>1, OnceStays
  <2>11. CASE d = c
    <3>1. At(c, "backlog", z) /\ ~At(c, "backlog", z)'
      <4>1. "backlog" # "pipe" /\ "backlog" # "serving" /\ "backlog" # "lost"
        BY Zenon
      <4>. QED  BY Zenon, <2>4, <2>7, <2>11, <4>1 DEF At
    <3>2. PICK m \in Workers : m = min_index
      BY Zenon, <2>1
    <3>3. CASE UNCHANGED lost /\ \A x \in Workers :
                    Has(conn_pipe'[x], c) => Has(conn_pipe[x], c) \/ (x = min_index /\ d = c)
      <4>1. \A u \in Spots, x \in Workers : At(c, u, x)' => At(c, u, x) \/ (u = "pipe" /\ x = m)
        BY Zenon, <1>1, <2>4, <3>2, <3>3 DEF At
      <4>. QED  BY <2>3, <2>6, <2>9, <3>1, <4>1, OnceMoves
    <3>4. CASE UNCHANGED conn_pipe /\ (c \in lost' => c \in lost \/ d = c)
      <4>1. \A u \in Spots, x \in Workers : At(c, u, x)' => At(c, u, x) \/ (u = "lost" /\ x = z)
        BY Zenon, <1>1, <2>4, <2>5, <3>4 DEF At
      <4>. QED  BY <2>3, <2>6, <2>9, <3>1, <4>1, OnceMoves
    <3>. QED  BY Zenon, <2>8, <3>3, <3>4
  <2>. QED  BY <2>10, <2>11, Zenon
<1>. QED  BY Zenon, <1>2, <1>3 DEF accept_conn

\* A worker reads: a connection goes from its pipe to the ones it serves, or is lost.
LEMMA OnceRead ==
  ASSUME TypeOK, OnceInv, NEW w \in Workers, NEW data, Read(w, data),
         UNCHANGED <<backlog, made>>, NEW c \in Conns,
         \/ UNCHANGED lost /\ \A x \in Workers :
                serving'[x] \subseteq IF x = w THEN serving[x] \cup {data} ELSE serving[x]
         \/ UNCHANGED serving /\ lost' \subseteq lost \cup {data}
  PROVE  Once(c)'
<1>1. Once(c) /\ Singles(c) /\ made \subseteq made'
  BY Zenon DEF OnceInv, Once
<1>2. /\ \A x \in Workers : Single(conn_pipe'[x], c)
      /\ \A x \in Workers : Has(conn_pipe'[x], c) => Has(conn_pipe[x], c)
      /\ data = c => Has(conn_pipe[w], c) /\ ~Has(conn_pipe'[w], c)
  BY Zenon, <1>1, ReadOnce
<1>3. Singles(c)'
  BY Zenon, <1>1, <1>2 DEF Singles
<1>4. CASE data # c
  <2>1. /\ \A x \in Workers : c \in serving'[x] => c \in serving[x]
        /\ c \in lost' => c \in lost
    BY Zenon, <1>4
  <2>2. \A u \in Spots, x \in Workers : At(c, u, x)' => At(c, u, x)
    BY Zenon, <1>2, <2>1 DEF At
  <2>. QED  BY Zenon, <1>1, <1>3, <2>2, OnceStays
<1>5. CASE data = c
  <2>1. "pipe" \in Spots /\ "serving" \in Spots /\ "lost" \in Spots
    BY Zenon DEF Spots
  <2>2. At(c, "pipe", w) /\ ~At(c, "pipe", w)'
    <3>1. "pipe" # "backlog" /\ "pipe" # "serving" /\ "pipe" # "lost"
      BY Zenon
    <3>. QED  BY Zenon, <1>2, <1>5, <3>1 DEF At
  <2>3. PICK z \in Workers : z = 0
    BY WorkersAssumption DEF Workers
  <2>4. CASE UNCHANGED lost /\ \A x \in Workers :
                serving'[x] \subseteq IF x = w THEN serving[x] \cup {data} ELSE serving[x]
    <3>1. \A x \in Workers : c \in serving'[x] => c \in serving[x] \/ x = w
      BY Zenon, <2>4
    <3>2. \A u \in Spots, x \in Workers : At(c, u, x)' => At(c, u, x) \/ (u = "serving" /\ x = w)
      BY Zenon, <1>2, <2>4, <3>1 DEF At
    <3>. QED  BY <1>1, <1>3, <2>1, <2>2, <3>2, OnceMoves
  <2>5. CASE UNCHANGED serving /\ lost' \subseteq lost \cup {data}
    <3>1. \A u \in Spots, x \in Workers : At(c, u, x)' => At(c, u, x) \/ (u = "lost" /\ x = z)
      BY Zenon, <1>2, <2>3, <2>5 DEF At
    <3>. QED  BY <1>1, <1>3, <2>1, <2>2, <2>3, <3>1, OnceMoves
  <2>. QED  BY Zenon, <2>4, <2>5
<1>. QED  BY <1>4, <1>5, Zenon

\* Every step of the main thread and of the workers keeps each connection in one
\* place.
LEMMA OnceStep == TypeOK /\ OnceInv /\ [Next]_vars => OnceInv'
<1>. SUFFICES ASSUME TypeOK, OnceInv, [Next]_vars, NEW c \in Conns PROVE Once(c)'
  BY Zenon DEF OnceInv
<1>1. \A w \in Workers : serving[w] \subseteq serving[w]
  BY Zenon
<1>2. ASSUME UNCHANGED <<backlog, made, conn_pipe, serving, lost>> PROVE Once(c)'
  BY Zenon, <1>1, <1>2, OnceAlone
<1>3. CASE accept_conn
  BY <1>3, OnceAccept, Zenon
<1>4. CASE accept_callback \/ accept_scan \/ accept_reread \/ join_worker \/ timer \/ signal_cb
           \/ UNCHANGED vars
  BY Zenon, <1>2, <1>4 DEF accept_callback, accept_scan, accept_reread, join_worker, timer, signal_cb
<1>5. CASE check_expire_client
  <2>1. UNCHANGED <<backlog, made, serving>>
    BY Zenon, <1>5 DEF check_expire_client
  <2>2. CASE idx < NumWorkers /\ notify_new_conn(idx, Sweep)
    <3>1. idx \in Workers /\ Sweep \in {Stop, Sweep}
      BY <2>2, WorkersAssumption DEF TypeOK, Workers
    <3>. QED  BY Zenon, <2>1, <2>2, <3>1, OnceCommand
  <2>. QED  BY Zenon, <1>2, <1>5, <2>1, <2>2 DEF check_expire_client
<1>6. CASE close_server
  <2>1. UNCHANGED <<backlog, made, serving>>
    BY Zenon, <1>6 DEF close_server
  <2>2. CASE idx < NumWorkers /\ notify_new_conn(idx, Stop)
    <3>1. idx \in Workers /\ Stop \in {Stop, Sweep}
      BY <2>2, WorkersAssumption DEF TypeOK, Workers
    <3>. QED  BY Zenon, <2>1, <2>2, <3>1, OnceCommand
  <2>. QED  BY Zenon, <1>2, <1>6, <2>1, <2>2 DEF close_server
<1>7. ASSUME NEW d \in Conns, connect(d) PROVE Once(c)'
  BY Zenon, <1>7, OnceConnect
<1>8. ASSUME NEW w \in Workers, new_connection(w) PROVE Once(c)'
  <2>1. PICK d \in Conns : /\ Read(w, d) /\ serving' = [serving EXCEPT ![w] = @ \cup {d}]
                           /\ UNCHANGED <<backlog, made, lost>>
    BY Zenon, <1>8 DEF new_connection
  <2>2. \A x \in Workers : serving'[x] \subseteq IF x = w THEN serving[x] \cup {d} ELSE serving[x]
    BY <2>1, Zenon DEF TypeOK
  <2>. QED  BY Zenon, <2>1, <2>2, OnceRead
<1>9. ASSUME NEW w \in Workers, timeout_cmd(w) PROVE Once(c)'
  <2>1. Read(w, Sweep) /\ UNCHANGED <<backlog, made, lost>>
    BY Zenon, <1>9 DEF timeout_cmd
  <2>2. PICK silent \in SUBSET serving[w] : serving' = [serving EXCEPT ![w] = @ \ silent]
    BY Zenon, <1>9 DEF timeout_cmd
  <2>3. \A x \in Workers : serving'[x] \subseteq IF x = w THEN serving[x] \cup {Sweep} ELSE serving[x]
    BY <2>2, Zenon DEF TypeOK
  <2>. QED  BY Zenon, <2>1, <2>3, OnceRead
<1>10. ASSUME NEW w \in Workers, stop_cmd(w) PROVE Once(c)'
  <2>1. Read(w, Stop) /\ UNCHANGED <<backlog, made, lost, serving>>
    BY Zenon, <1>10 DEF stop_cmd
  <2>2. UNCHANGED serving /\ lost' \subseteq lost \cup {Stop}
    BY Zenon, <2>1
  <2>. QED  BY Zenon, <2>1, <2>2, OnceRead
<1>11. ASSUME NEW w \in Workers, read_and_discard(w) PROVE Once(c)'
  <2>1. PICK data \in Conns \cup {Stop, Sweep} :
           Read(w, data) /\ lost' = lost \cup ({data} \cap Conns) /\ UNCHANGED <<backlog, made, serving>>
    BY Zenon, <1>11 DEF read_and_discard
  <2>2. lost' \subseteq lost \cup {data}
    BY Zenon, <2>1
  <2>. QED  BY Zenon, <2>1, <2>2, OnceRead
<1>12. ASSUME NEW w \in Workers, pipe_empty(w) PROVE Once(c)'
  BY Zenon, <1>2, <1>12 DEF pipe_empty
<1>13. ASSUME NEW w \in Workers, NEW d \in Conns, connection_ends(w, d) PROVE Once(c)'
  <2>1. serving' = [serving EXCEPT ![w] = @ \ {d}] /\ UNCHANGED <<backlog, made, conn_pipe, lost>>
    BY Zenon, <1>13 DEF connection_ends
  <2>2. \A x \in Workers : serving'[x] \subseteq serving[x]
    BY <2>1, Zenon DEF TypeOK
  <2>. QED  BY Zenon, <2>1, <2>2, OnceAlone
<1>. QED
  BY Zenon, <1>3, <1>4, <1>5, <1>6, <1>7, <1>8, <1>9, <1>10, <1>11, <1>12, <1>13
     DEF Next, Main, notify_new_conn_callback

\* A set without two different elements has at most one.
LEMMA AtMostOne ==
  ASSUME NEW S, \A x, y \in S : x = y
  PROVE  Cardinality(S) <= 1
<1>1. CASE S = {}
  BY <1>1, FS_EmptySet
<1>2. ASSUME NEW x \in S PROVE Cardinality(S) <= 1
  <2>1. S = {x}
    BY Zenon, <1>2
  <2>. QED  BY <2>1, FS_Singleton
<1>. QED  BY <1>1, <1>2, Zenon

\* For any number of workers and connections, any pipe capacity and any limit: a
\* connection that accept_callback took is served by one worker, is in one place of one
\* pipe, or is lost (a full pipe, or the datum read and thrown away after a batch); it is
\* never handed over twice, and never kept in the backlog as well.
THEOREM AcceptHandsOverOnce == Spec => []HandedOverOnce
<1>1. Init => OnceInv
  <2>. SUFFICES ASSUME Init, NEW c \in Conns PROVE Once(c)
    BY Zenon DEF OnceInv
  <2>1. Len(backlog) = 0 /\ \A w \in Workers : Len(conn_pipe[w]) = 0 /\ serving[w] = {}
    BY Zenon DEF Init
  <2>2. lost = {}
    BY Zenon DEF Init
  <2>3. \A k : k \notin 1 .. 0
    OBVIOUS
  <2>4. ~Has(backlog, c) /\ Single(backlog, c)
    BY Zenon, <2>1, <2>3 DEF Has, Single
  <2>5. \A w \in Workers : ~Has(conn_pipe[w], c) /\ Single(conn_pipe[w], c)
    BY Zenon, <2>1, <2>3 DEF Has, Single
  <2>6. \A s \in Spots, w \in Workers : ~At(c, s, w)
    BY Zenon, <2>1, <2>2, <2>4, <2>5 DEF At
  <2>. QED  BY Zenon, <2>4, <2>5, <2>6 DEF Once, Singles
<1>2. TypeOK /\ OnceInv => HandedOverOnce
  <2>. SUFFICES ASSUME TypeOK, OnceInv, NEW c \in Conns
       PROVE Cardinality(  {<<"backlog", k>> : k \in {x \in DOMAIN backlog : backlog[x] = c}}
             \cup (UNION {{<<"pipe", w, k>> : k \in {x \in Queued(w) : conn_pipe[w][x] = c}} : w \in Workers})
             \cup {<<"serving", w>> : w \in {x \in Workers : c \in serving[x]}}
             \cup {<<"lost", x>> : x \in lost \cap {c}}) <= 1
    BY Zenon DEF HandedOverOnce
  <2>. DEFINE B == {<<"backlog", k>> : k \in {x \in DOMAIN backlog : backlog[x] = c}}
              P == UNION {{<<"pipe", w, k>> : k \in {x \in Queued(w) : conn_pipe[w][x] = c}} : w \in Workers}
              V == {<<"serving", w>> : w \in {x \in Workers : c \in serving[x]}}
              L == {<<"lost", x>> : x \in lost \cap {c}}
  <2>1. Once(c) /\ Singles(c)
    BY Zenon DEF OnceInv, Once
  <2>2. PICK z \in Workers : z = 0
    BY WorkersAssumption DEF Workers
  <2>3. \A x \in B : \E k \in 1 .. Len(backlog) : backlog[k] = c /\ x = <<"backlog", k>>
    BY DEF TypeOK
  <2>4. \A x \in P : \E w \in Workers : \E k \in 1 .. Len(conn_pipe[w]) :
          conn_pipe[w][k] = c /\ x = <<"pipe", w, k>>
    BY Zenon DEF Queued
  <2>5. \A x \in V : \E w \in Workers : c \in serving[w] /\ x = <<"serving", w>>
    BY Zenon
  <2>6. \A x \in L : c \in lost /\ x = <<"lost", c>>
    BY Zenon
  <2>7. /\ "backlog" \in Spots /\ "pipe" \in Spots /\ "serving" \in Spots /\ "lost" \in Spots
        /\ "backlog" # "pipe" /\ "backlog" # "serving" /\ "backlog" # "lost"
        /\ "pipe" # "serving" /\ "pipe" # "lost" /\ "serving" # "lost"
    BY Zenon DEF Spots
  <2>. HIDE DEF B, P, V, L
  <2>8. B # {} => At(c, "backlog", z)
    BY Zenon, <2>2, <2>3 DEF At, Has
  <2>9. L # {} => At(c, "lost", z)
    BY Zenon, <2>2, <2>6 DEF At
  <2>10. \A x \in V : \E w \in Workers : At(c, "serving", w) /\ x = <<"serving", w>>
    BY Zenon, <2>5 DEF At
  <2>11. \A x \in P : \E w \in Workers : \E k \in 1 .. Len(conn_pipe[w]) :
           At(c, "pipe", w) /\ conn_pipe[w][k] = c /\ x = <<"pipe", w, k>>
    BY Zenon, <2>4 DEF At, Has
  <2>12. \A s, t \in Spots, w, v \in Workers : At(c, s, w) /\ At(c, t, v) => s = t /\ w = v
    BY Zenon, <2>1 DEF Once
  <2>13. \A x, y \in B : x = y
    BY Zenon, <2>1, <2>3 DEF Singles, Single
  <2>14. \A x, y \in P : x = y
    <3>. SUFFICES ASSUME NEW x \in P, NEW y \in P PROVE x = y
      BY Zenon
    <3>1. PICK w \in Workers : \E k \in 1 .. Len(conn_pipe[w]) :
            At(c, "pipe", w) /\ conn_pipe[w][k] = c /\ x = <<"pipe", w, k>>
      BY Zenon, <2>11
    <3>2. PICK v \in Workers : \E k \in 1 .. Len(conn_pipe[v]) :
            At(c, "pipe", v) /\ conn_pipe[v][k] = c /\ y = <<"pipe", v, k>>
      BY Zenon, <2>11
    <3>3. w = v
      BY Zenon, <2>7, <2>12, <3>1, <3>2
    <3>. QED  BY Zenon, <2>1, <3>1, <3>2, <3>3 DEF Singles, Single
  <2>15. \A x, y \in V : x = y
    BY Zenon, <2>7, <2>10, <2>12
  <2>16. \A x, y \in L : x = y
    BY Zenon, <2>6
  <2>17. /\ P # {} => \E w \in Workers : At(c, "pipe", w)
         /\ V # {} => \E w \in Workers : At(c, "serving", w)
    BY Zenon, <2>10, <2>11
  <2>18. \/ P = {} /\ V = {} /\ L = {}
         \/ B = {} /\ V = {} /\ L = {}
         \/ B = {} /\ P = {} /\ L = {}
         \/ B = {} /\ P = {} /\ V = {}
    BY Zenon, <2>7, <2>8, <2>9, <2>12, <2>17
  <2>19. \A x, y \in B \cup P \cup V \cup L : x = y
    BY Zenon, <2>13, <2>14, <2>15, <2>16, <2>18
  <2>20. Cardinality(B \cup P \cup V \cup L) <= 1
    BY <2>19, AtMostOne, Zenon
  <2>. QED  BY Zenon, <2>20 DEF B, P, V, L
<1>. QED  BY <1>1, <1>2, OnceStep, TypeCorrect, PTL DEF Spec
=============================================================================
