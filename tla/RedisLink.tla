----------------------------- MODULE RedisLink ------------------------------
(***************************************************************************)
(* The Redis links of the workers (src/core/work_thread.cc, server.cc).  A *)
(* link that breaks answers its pending commands with NULL and raises      *)
(* SIGUSR1.  The main thread then opens a new link for every worker,       *)
(* unless it did so in the last ten seconds, and overwrites the worker's   *)
(* _redis while the worker runs.  The contexts of one round of opening are *)
(* a generation: generation 0 is opened at start-up, and a replaced        *)
(* context stays attached to the worker's loop until it breaks.            *)
(***************************************************************************)
EXTENDS Integers

CONSTANTS
  NumWorkers,  \* _work_thread_num
  MaxBreaks    \* bound: links that break after they were up

Workers == 0 .. NumWorkers - 1
Gens    == 0 .. MaxBreaks
Kinds   == {"login", "trans"}  \* commands whose callback tests for NULL, and does not

ASSUME WorkersAssumption == NumWorkers \in Nat \ {0}
ASSUME BreaksAssumption == MaxBreaks \in Nat

VARIABLES
  conn,     \* the context of each worker and generation
  asked,    \* one command not yet answered on it, or "nothing"
  gen,      \* the latest generation
  recent,   \* _last_connect_time is at most ten seconds ago
  usr1,     \* SIGUSR1 is pending
  term,     \* SIGTERM is pending
  main_pc, idx, \* the main thread: its handler, and the worker whose link it opens
  breaks,   \* links that broke
  ignored   \* history: workers without a link when a SIGUSR1 was ignored

main == <<gen, recent, main_pc, idx, ignored>>
links == <<conn, asked, usr1, term, breaks, main>>

LinkTypeOK ==
  /\ conn \in [Workers -> [Gens -> {"none", "raw", "connecting", "up", "gone"}]]
  /\ asked \in [Workers -> [Gens -> Kinds \cup {"nothing"}]]
  /\ gen \in Gens
  /\ recent \in BOOLEAN /\ usr1 \in BOOLEAN /\ term \in BOOLEAN
  /\ main_pc \in {"idle", "open", "stopped", "dead"}
  /\ idx \in 0 .. NumWorkers
  /\ breaks \in Gens
  /\ ignored \subseteq Workers

\* start_work_thread has opened a link for every worker.
LinkInit ==
  /\ conn = [w \in Workers |-> [g \in Gens |-> IF g = 0 THEN "connecting" ELSE "none"]]
  /\ asked = [w \in Workers |-> [g \in Gens |-> "nothing"]]
  /\ gen = 0 /\ recent = TRUE
  /\ usr1 = FALSE /\ term = FALSE
  /\ main_pc = "idle" /\ idx = 0
  /\ breaks = 0
  /\ ignored = {}

Over == main_pc \in {"stopped", "dead"}

\* The generation of the context _redis of worker w points to.
current(w) == IF conn[w][gen] = "none" THEN gen - 1 ELSE gen

Gone(w) == conn[w][current(w)] = "gone"

-----------------------------------------------------------------------------
(* A worker and its contexts.                                              *)

\* redisAsyncCommand on _redis.  A freed context takes the command in and nothing
\* comes of it, or the process dies; so it may when the main thread is at work on
\* the same context.
command(w, k) ==
  LET g == current(w)
  IN /\ ~Over
     /\ \/ /\ ~Gone(w)
           /\ asked[w][g] = "nothing"
           /\ asked' = [asked EXCEPT ![w][g] = k]
           /\ UNCHANGED main_pc
        \/ /\ conn[w][g] \in {"raw", "gone"}
           /\ main_pc' = "dead"
           /\ UNCHANGED asked
  /\ UNCHANGED <<conn, gen, recent, usr1, term, idx, breaks, ignored>>

\* The callback of a command runs.
reply(w, g) ==
  /\ ~Over
  /\ conn[w][g] = "up"
  /\ asked[w][g] \in Kinds
  /\ asked' = [asked EXCEPT ![w][g] = "nothing"]
  /\ UNCHANGED <<conn, usr1, term, breaks, main>>

connected(w, g) ==
  /\ conn[w][g] = "connecting"
  /\ conn' = [conn EXCEPT ![w][g] = "up"]
  /\ UNCHANGED <<asked, usr1, term, breaks, main>>

\* The context is freed, after every pending callback has been called with NULL;
\* redis_trans_callback reads through it.
free_context(w, g) ==
  /\ conn' = [conn EXCEPT ![w][g] = "gone"]
  /\ asked' = [asked EXCEPT ![w][g] = "nothing"]
  /\ main_pc' = IF asked[w][g] = "trans" THEN "dead" ELSE main_pc
  /\ UNCHANGED <<gen, recent, idx, ignored>>

connect_fails(w, g) ==
  /\ conn[w][g] = "connecting"
  /\ free_context(w, g)
  /\ term' = TRUE
  /\ UNCHANGED <<usr1, breaks>>

redis_connect_callback(w, g) == ~Over /\ (connected(w, g) \/ connect_fails(w, g))

\* Mutant: the main thread is not told.
send_signal_not == UNCHANGED usr1

\* kill(getpid(), SIGUSR1): a signal that is pending already is not queued again.
send_signal == usr1' = TRUE

redis_disconnect_callback(w, g) ==
  /\ ~Over
  /\ conn[w][g] = "up"
  /\ breaks < MaxBreaks
  /\ breaks' = breaks + 1
  /\ free_context(w, g)
  /\ send_signal
  /\ UNCHANGED term

-----------------------------------------------------------------------------
(* The main thread.                                                        *)

ten_seconds_pass ==
  /\ ~Over
  /\ recent
  /\ recent' = FALSE
  /\ UNCHANGED <<conn, asked, gen, usr1, term, main_pc, idx, breaks, ignored>>

\* Mutant: the signal stays pending.
signal_taken_not == UNCHANGED usr1

signal_taken == usr1' = FALSE

\* Mutant: the event is not persistent and goes off once.
armed_once == gen = 0

\* _usr1_event stays added.
armed == TRUE

reconnect_redis ==
  /\ main_pc = "idle" /\ usr1 /\ armed
  /\ signal_taken
  /\ \/ /\ recent
        /\ ignored' = ignored \cup {w \in Workers : Gone(w)}
        /\ UNCHANGED <<gen, recent, main_pc, idx>>
     \/ /\ ~recent
        /\ recent' = TRUE
        /\ gen' = gen + 1
        /\ main_pc' = "open" /\ idx' = 0
        /\ UNCHANGED ignored
  /\ UNCHANGED <<conn, asked, term, breaks>>

\* Mutant: the loop ends one worker early.
last_worker_missed == NumWorkers - 1

last_worker == NumWorkers

\* The first line of asy_open_redis: _redis is the new context, of which the
\* worker's loop does not know yet; or the connect fails at once.
redisAsyncConnect ==
  /\ main_pc = "open" /\ idx < last_worker /\ conn[idx][gen] = "none"
  /\ \/ /\ conn' = [conn EXCEPT ![idx][gen] = "raw"]
        /\ UNCHANGED <<term, idx>>
     \/ /\ conn' = [conn EXCEPT ![idx][gen] = "gone"]
        /\ term' = TRUE
        /\ idx' = idx + 1
  /\ UNCHANGED <<asked, gen, recent, usr1, main_pc, breaks, ignored>>


attached == "connecting"

\* The rest of asy_open_redis: attached, callbacks set, SELECT sent.
asy_open_redis ==
  /\ main_pc = "open" /\ idx < last_worker /\ conn[idx][gen] = "raw"
  /\ conn' = [conn EXCEPT ![idx][gen] = attached]
  /\ idx' = idx + 1
  /\ UNCHANGED <<asked, gen, recent, usr1, term, main_pc, breaks, ignored>>

all_opened ==
  /\ main_pc = "open" /\ idx = last_worker
  /\ main_pc' = "idle"
  /\ UNCHANGED <<conn, asked, gen, recent, usr1, term, idx, breaks, ignored>>

\* signal_cb: the server is stopped.
signal_cb ==
  /\ main_pc = "idle" /\ term
  /\ main_pc' = "stopped"
  /\ UNCHANGED <<conn, asked, gen, recent, usr1, term, idx, breaks, ignored>>

-----------------------------------------------------------------------------
Main == reconnect_redis \/ redisAsyncConnect \/ asy_open_redis \/ all_opened \/ signal_cb

LinkNext ==
  \/ Main \/ ten_seconds_pass
  \/ \E w \in Workers, k \in Kinds : command(w, k)
  \/ \E w \in Workers, g \in Gens :
       reply(w, g) \/ redis_connect_callback(w, g) \/ redis_disconnect_callback(w, g)

LinkSpec == LinkInit /\ [][LinkNext]_links

\* The main thread handles its signals, time passes, and Redis answers: a connect
\* succeeds or fails, and a command on a link that is up is answered.
LinkFairSpec ==
  /\ LinkSpec
  /\ WF_links(Main) /\ WF_links(ten_seconds_pass)
  /\ \A w \in Workers, g \in Gens :
       WF_links(reply(w, g)) /\ WF_links(redis_connect_callback(w, g))

-----------------------------------------------------------------------------
(* Properties.                                                             *)

\* A worker without a link is never forgotten: a signal is pending, its link is
\* about to be replaced, or the signal was one that reconnect_redis ignored.
BreakIsKnown ==
  \A w \in Workers :
    Gone(w) /\ ~Over => usr1 \/ term \/ w \in ignored \/ (main_pc = "open" /\ idx <= w)

\* Between two signals all workers are on links of one generation, so they ask the
\* same Redis (cur_conn_index is the generation modulo redis_info_count).
SameRedis == main_pc = "idle" => \A w \in Workers : current(w) = gen


\* A worker gets a new link, unless the signal came within the ten seconds.
LinkRestored == \A w \in Workers : Gone(w) ~> ~Gone(w) \/ w \in ignored \/ Over
=============================================================================
