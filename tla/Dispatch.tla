------------------------------ MODULE Dispatch ------------------------------
(***************************************************************************)
(* The main thread of eglcomet (src/core/server.cc) and the connection     *)
(* pipe by which it hands descriptors and commands to the workers.  The    *)
(* main thread runs one handler at a time: accept_callback, the heartbeat  *)
(* timer, and close_server on SIGINT or SIGTERM.  It reads the workers'    *)
(* _conn_num and writes to their pipes while they run.                     *)
(***************************************************************************)
EXTENDS Integers, Sequences, FiniteSets

CONSTANTS
  NumWorkers,   \* _work_thread_num
  Conns,        \* client connections, each made at most once
  MaxNum,       \* max_num_per_thread
  PipeCap,      \* integers a connection pipe holds
  Batch,        \* data a worker handles per wake-up, 10 in the code
  Stop, Sweep,  \* the commands -1 and -2
  MaxSweeps     \* bound: times the timer goes off

Workers == 0 .. NumWorkers - 1

ASSUME WorkersAssumption == NumWorkers \in Nat \ {0}
ASSUME CommandsAssumption == Stop \notin Conns /\ Sweep \notin Conns /\ Stop # Sweep
ASSUME BoundsAssumption ==
  MaxNum \in Nat /\ PipeCap \in Nat \ {0} /\ Batch \in Nat /\ MaxSweeps \in Nat
ASSUME FiniteAssumption == IsFiniteSet(Conns)

VARIABLES
  backlog,    \* connections the kernel holds for accept, oldest first
  made,       \* connections that have been made
  conn_pipe,  \* _new_conn_fd of each worker
  taken,      \* i of notify_new_conn_callback, 0 when the worker is not in it
  serving,    \* connections in _bev_id of each worker
  conn_num,   \* _conn_num of each worker
  loop,       \* "run", "exit" once the event loop ended, "deleted" with the object
  pc,         \* what the main thread is doing
  idx,        \* its loop variable
  min_index,  \* locals of accept_callback
  min_count,
  sweeps,     \* times the timer went off
  lost,       \* open descriptors no worker will serve
  dropped     \* history: commands that were written to no one or read by no one

main    == <<pc, idx, min_index, min_count>>
workers == <<conn_pipe, taken, serving, conn_num, loop>>
vars    == <<backlog, made, workers, main, sweeps, lost, dropped>>

TypeOK ==
  /\ backlog \in Seq(Conns)
  /\ made \subseteq Conns
  /\ conn_pipe \in [Workers -> Seq(Conns \cup {Stop, Sweep})]
  /\ taken \in [Workers -> 0 .. Batch]
  /\ serving \in [Workers -> SUBSET Conns]
  /\ conn_num \in [Workers -> Int]
  /\ loop \in [Workers -> {"run", "exit", "deleted"}]
  /\ pc \in {"idle", "scan", "reread", "sweep", "stop", "join", "done"}
  /\ idx \in 0 .. NumWorkers
  /\ pc \in {"reread", "join"} => idx \in Workers
  /\ pc \in {"scan", "reread"} => backlog # << >>
  /\ min_index \in Workers
  /\ min_count \in Int
  /\ sweeps \in 0 .. MaxSweeps
  /\ lost \subseteq Conns
  /\ dropped \subseteq Workers \X {Stop, Sweep}

Init ==
  /\ backlog = << >>
  /\ made = {}
  /\ conn_pipe = [w \in Workers |-> << >>]
  /\ taken = [w \in Workers |-> 0]
  /\ serving = [w \in Workers |-> {}]
  /\ conn_num = [w \in Workers |-> 0]
  /\ loop = [w \in Workers |-> "run"]
  /\ pc = "idle" /\ idx = 0 /\ min_index = 0 /\ min_count = 0
  /\ sweeps = 0
  /\ lost = {}
  /\ dropped = {}

-----------------------------------------------------------------------------
(* Clients.                                                                *)

connect(c) ==
  /\ c \notin made
  /\ made' = made \cup {c}
  /\ backlog' = Append(backlog, c)
  /\ UNCHANGED <<workers, main, sweeps, lost, dropped>>

-----------------------------------------------------------------------------
(* The pipe.                                                               *)

\* Mutant: a descriptor is written a second time.
notify_new_conn_twice(w, data) ==
  /\ conn_pipe' = [conn_pipe EXCEPT ![w] = @ \o IF data \in Conns THEN <<data, data>> ELSE <<data>>]
  /\ UNCHANGED <<lost, dropped>>

\* notify_new_conn: the write on the non-blocking pipe succeeds or the datum is
\* gone, and no caller looks at the result.
notify_new_conn(w, data) ==
  IF Len(conn_pipe[w]) < PipeCap
  THEN /\ conn_pipe' = [conn_pipe EXCEPT ![w] = Append(@, data)]
       /\ UNCHANGED <<lost, dropped>>
  ELSE /\ lost' = lost \cup ({data} \cap Conns)
       /\ dropped' = dropped \cup {<<w, cmd>> : cmd \in {data} \ Conns}
       /\ UNCHANGED conn_pipe

\* A datum read from the pipe, taken off it.
Read(w, data) ==
  /\ loop[w] = "run"
  /\ conn_pipe[w] # << >>
  /\ data = Head(conn_pipe[w])
  /\ conn_pipe' = [conn_pipe EXCEPT ![w] = Tail(@)]

-----------------------------------------------------------------------------
(* accept_callback: the first worker with the fewest connections.  The     *)
(* counts are read one by one, a smaller one twice.                        *)

accept_callback ==
  /\ pc = "idle"
  /\ backlog # << >>
  /\ pc' = "scan" /\ idx' = 1
  /\ min_index' = 0 /\ min_count' = conn_num[0]
  /\ UNCHANGED <<backlog, made, workers, sweeps, lost, dropped>>

accept_scan ==
  /\ pc = "scan" /\ idx < NumWorkers
  /\ IF conn_num[idx] < min_count
     THEN pc' = "reread" /\ UNCHANGED idx
     ELSE idx' = idx + 1 /\ UNCHANGED pc
  /\ UNCHANGED <<backlog, made, workers, min_index, min_count, sweeps, lost, dropped>>

accept_reread ==
  /\ pc = "reread"
  /\ min_index' = idx /\ min_count' = conn_num[idx]
  /\ pc' = "scan" /\ idx' = idx + 1
  /\ UNCHANGED <<backlog, made, workers, sweeps, lost, dropped>>


has_capacity(count) == count < MaxNum

\* With no capacity anywhere the connection stays in the kernel's queue, and the
\* handler is called again.
accept_conn ==
  /\ pc = "scan" /\ idx = NumWorkers
  /\ pc' = "idle"
  /\ \/ /\ has_capacity(min_count)
        /\ backlog' = Tail(backlog)
        /\ notify_new_conn(min_index, Head(backlog))
     \/ /\ ~has_capacity(min_count)
        /\ UNCHANGED <<backlog, conn_pipe, lost, dropped>>
  /\ UNCHANGED <<made, taken, serving, conn_num, loop, idx, min_index, min_count, sweeps>>

-----------------------------------------------------------------------------
(* The timer, and close_server.                                            *)

\* del_expire_client of the Server.
timer ==
  /\ pc = "idle" /\ sweeps < MaxSweeps
  /\ sweeps' = sweeps + 1
  /\ pc' = "sweep" /\ idx' = 0
  /\ UNCHANGED <<backlog, made, workers, min_index, min_count, lost, dropped>>

check_expire_client ==
  /\ pc = "sweep"
  /\ \/ /\ idx < NumWorkers
        /\ notify_new_conn(idx, Sweep)
        /\ idx' = idx + 1 /\ UNCHANGED pc
     \/ /\ idx = NumWorkers
        /\ pc' = "idle"
        /\ UNCHANGED <<idx, conn_pipe, lost, dropped>>
  /\ UNCHANGED <<backlog, made, taken, serving, conn_num, loop, min_index, min_count, sweeps>>

signal_cb ==
  /\ pc = "idle"
  /\ pc' = "stop" /\ idx' = 0
  /\ UNCHANGED <<backlog, made, workers, min_index, min_count, sweeps, lost, dropped>>

\* Mutant: the main loop goes on after close_server.
after_close_loop == "idle"

\* event_base_loopbreak: the main loop ends when close_server returns.
after_close == "done"

\* close_server: stop worker idx, or leave the loop after the last one.
close_server ==
  /\ pc = "stop"
  /\ \/ /\ idx < NumWorkers
        /\ notify_new_conn(idx, Stop)
        /\ pc' = "join"
     \/ /\ idx = NumWorkers
        /\ pc' = after_close
        /\ UNCHANGED <<conn_pipe, lost, dropped>>
  /\ UNCHANGED <<backlog, made, taken, serving, conn_num, loop, idx, min_index, min_count, sweeps>>

\* Mutant: the worker is deleted without waiting for its thread.
joined_at_once(w) == TRUE

\* Mutant: a worker with clients is waited for until they have gone.
joined_when_empty(w) == loop[w] = "exit" /\ serving[w] = {}

\* pthread_join returns.
joined(w) == loop[w] = "exit"

\* free_data, and the WorkThread deleted while later workers still run.
join_worker ==
  /\ pc = "join"
  /\ joined(idx)
  /\ loop' = [loop EXCEPT ![idx] = "deleted"]
  /\ pc' = "stop" /\ idx' = idx + 1
  /\ UNCHANGED <<backlog, made, conn_pipe, taken, serving, conn_num, min_index, min_count,
                 sweeps, lost, dropped>>

-----------------------------------------------------------------------------
(* notify_new_conn_callback of a worker.  The loop condition reads before  *)
(* it counts: after Batch data one more is read and thrown away.           *)

\* Mutant: one datum more is counted in.
in_batch_plus_one(w) == taken[w] <= Batch

in_batch(w) == taken[w] < Batch

\* Mutant: the connection is counted twice.
new_connection_counted_twice(w) ==
  \E c \in Conns :
    /\ Read(w, c)
    /\ in_batch(w)
    /\ taken' = [taken EXCEPT ![w] = @ + 1]
    /\ serving' = [serving EXCEPT ![w] = @ \cup {c}]
    /\ conn_num' = [conn_num EXCEPT ![w] = @ + 2]
    /\ UNCHANGED <<backlog, made, loop, main, sweeps, lost, dropped>>

new_connection(w) ==
  \E c \in Conns :
    /\ Read(w, c)
    /\ in_batch(w)
    /\ taken' = [taken EXCEPT ![w] = @ + 1]
    /\ serving' = [serving EXCEPT ![w] = @ \cup {c}]
    /\ conn_num' = [conn_num EXCEPT ![w] = @ + 1]
    /\ UNCHANGED <<backlog, made, loop, main, sweeps, lost, dropped>>

\* Mutant: the command is read and has no effect.
stop_cmd_ignored(w) ==
  /\ Read(w, Stop)
  /\ in_batch(w)
  /\ taken' = [taken EXCEPT ![w] = @ + 1]
  /\ UNCHANGED <<backlog, made, serving, conn_num, loop, main, sweeps, lost, dropped>>

\* The stop command ends the loop and the callback at once.
stop_cmd(w) ==
  /\ Read(w, Stop)
  /\ in_batch(w)
  /\ taken' = [taken EXCEPT ![w] = 0]
  /\ loop' = [loop EXCEPT ![w] = "exit"]
  /\ UNCHANGED <<backlog, made, serving, conn_num, main, sweeps, lost, dropped>>

\* The timeout command closes any set of silent clients.
timeout_cmd(w) ==
  /\ Read(w, Sweep)
  /\ in_batch(w)
  /\ taken' = [taken EXCEPT ![w] = @ + 1]
  /\ \E silent \in SUBSET serving[w] :
       /\ serving' = [serving EXCEPT ![w] = @ \ silent]
       /\ conn_num' = [conn_num EXCEPT ![w] = @ - Cardinality(silent)]
  /\ UNCHANGED <<backlog, made, loop, main, sweeps, lost, dropped>>

read_and_discard(w) ==
  \E data \in Conns \cup {Stop, Sweep} :
    /\ Read(w, data)
    /\ ~in_batch(w)
    /\ taken' = [taken EXCEPT ![w] = 0]
    /\ lost' = lost \cup ({data} \cap Conns)
    /\ dropped' = dropped \cup {<<w, cmd>> : cmd \in {data} \ Conns}
    /\ UNCHANGED <<backlog, made, serving, conn_num, loop, main, sweeps>>

\* read() finds the pipe empty, and the callback returns.
pipe_empty(w) ==
  /\ loop[w] = "run"
  /\ taken[w] > 0
  /\ conn_pipe[w] = << >>
  /\ taken' = [taken EXCEPT ![w] = 0]
  /\ UNCHANGED <<backlog, made, conn_pipe, serving, conn_num, loop, main, sweeps, lost, dropped>>

\* A connection ends, by bufferevent_event_callback; or a later login on the
\* worker displaces it, and _conn_num keeps counting it.
connection_ends(w, c) ==
  /\ loop[w] = "run" /\ taken[w] = 0
  /\ c \in serving[w]
  /\ serving' = [serving EXCEPT ![w] = @ \ {c}]
  /\ \/ conn_num' = [conn_num EXCEPT ![w] = @ - 1]
     \/ UNCHANGED conn_num
  /\ UNCHANGED <<backlog, made, conn_pipe, taken, loop, main, sweeps, lost, dropped>>

-----------------------------------------------------------------------------
Main ==
  \/ accept_callback \/ accept_scan \/ accept_reread \/ accept_conn
  \/ check_expire_client \/ close_server \/ join_worker

notify_new_conn_callback(w) ==
  new_connection(w) \/ stop_cmd(w) \/ timeout_cmd(w) \/ read_and_discard(w) \/ pipe_empty(w)

Next ==
  \/ Main \/ timer \/ signal_cb
  \/ \E c \in Conns : connect(c)
  \/ \E w \in Workers : notify_new_conn_callback(w)
  \/ \E w \in Workers, c \in Conns : connection_ends(w, c)

Spec == Init /\ [][Next]_vars

\* The main thread finishes the handler it is in and accepts what waits; a worker
\* handles what is in its pipe.
FairSpec ==
  Spec /\ WF_vars(Main) /\ \A w \in Workers : WF_vars(notify_new_conn_callback(w))

-----------------------------------------------------------------------------
(* Properties.                                                             *)

\* The connections on their way to worker w, by their place in its pipe.
Queued(w) == {k \in 1 .. Len(conn_pipe[w]) : conn_pipe[w][k] \in Conns}

\* accept_callback compares the limit with a count that leaves out what is still
\* in the pipe, and that may be old by the time the connection is written: a
\* worker can get more than max_num_per_thread connections, but never more than
\* the pipe's capacity above it.
OvershootBounded ==
  \A w \in Workers : conn_num[w] + Cardinality(Queued(w)) <= MaxNum + PipeCap

\* A connection is served by one worker, waits in one place of one pipe, waits in
\* the kernel's queue or is lost: accept_callback hands it over exactly once.
HandedOverOnce ==
  \A c \in Conns :
    Cardinality(  {<<"backlog", k>> : k \in {x \in DOMAIN backlog : backlog[x] = c}}
             \cup (UNION {{<<"pipe", w, k>> : k \in {x \in Queued(w) : conn_pipe[w][x] = c}} : w \in Workers})
             \cup {<<"serving", w>> : w \in {x \in Workers : c \in serving[x]}}
             \cup {<<"lost", x>> : x \in lost \cap {c}}) <= 1

\* close_server waits in pthread_join only for a worker that will end or has
\* ended: its stop command is in the pipe, unless it was dropped.
JoinJustified ==
  pc = "join" => \/ \E k \in 1 .. Len(conn_pipe[idx]) : conn_pipe[idx][k] = Stop
                 \/ loop[idx] = "exit"
                 \/ <<idx, Stop>> \in dropped

\* The stop command is the last thing a worker reads: every connection accepted
\* before it was handed over first, and nothing is written to the pipe of a
\* worker that has ended or been deleted.
StopIsLast ==
  \A w \in Workers :
    /\ \A k \in 1 .. Len(conn_pipe[w]) : conn_pipe[w][k] = Stop => k = Len(conn_pipe[w])
    /\ loop[w] # "run" => conn_pipe[w] = << >>

\* The main thread uses no worker it has deleted.
NoUseOfDeleted ==
  /\ pc \in {"scan", "reread", "sweep"} => \A w \in Workers : loop[w] # "deleted"
  /\ pc \in {"stop", "join"} => \A w \in Workers : loop[w] = "deleted" => w < idx

\* A stop that is not dropped ends the worker, and the server with the last one.
ShutdownEnds ==
  pc = "stop" ~> pc = "done" \/ \E w \in Workers : <<w, Stop>> \in dropped


\* What the comment in close_server says: the stop signal is sent to the worker,
\* which is then waited for.
StopSignalHeeded == pc = "stop" ~> pc = "done"
=============================================================================
