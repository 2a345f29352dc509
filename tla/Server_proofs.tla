--------------------------- MODULE Server_proofs ----------------------------
(* The process and its links to Redis, for any processes, threads,            *)
(* descriptors, workers and links that break: whose pid the pid file holds,   *)
(* which file a line of the log is written to, and that no worker is left     *)
(* without a link to Redis and forgotten.                                     *)
EXTENDS Process, RedisLink, WellFoundedInduction, TLAPS

USE DEF files, logs, vars, main, links

\* A step of process p in its log.
LogStep(p) ==
  \/ rotate_log(p) \/ accept_client(p)
  \/ \E f \in Fds : close_client(p, f)
  \/ \E w \in Writers : read_log_fd(p, w) \/ write_log(p, w)

\* A step of process p in its life.
LifeStep(p) ==
  \/ start(p) \/ check_pid_file(p) \/ start_listen(p) \/ start_work_thread(p)
  \/ create_pid_file(p) \/ write_pid(p) \/ close_server(p) \/ remove_pid_file(p)
  \/ return_from_main(p) \/ crash(p)

-----------------------------------------------------------------------------
(* Type correctness.                                                           *)

\* A set of natural numbers that is not empty has a least element.
LEMMA LeastNumber ==
  ASSUME NEW S \in SUBSET Nat, S # {}
  PROVE  Min(S) \in S
<1>1. PICK x \in S : \A y \in S : <<y, x>> \notin OpToRel(<, Nat)
  BY Zenon, NatLessThanWellFounded, WFMin
<1>2. \A y \in S : ~(y < x)
  BY Zenon, <1>1 DEF OpToRel
<1>3. \A y \in S : x <= y
  BY <1>2
<1>. QED  BY Zenon, <1>3 DEF Min

\* The descriptor that open and accept return is one that was free.
LEMMA NewFdFree ==
  ASSUME NEW p \in Procs, NewFd(p) # -1
  PROVE  NewFd(p) \in Fds /\ fds[p][NewFd(p)] = "free"
<1>1. Free(p) # {} /\ NewFd(p) = Min(Free(p))
  BY Zenon DEF NewFd
<1>2. Free(p) \in SUBSET Nat
  BY Zenon, FdsAssumption DEF Free
<1>3. NewFd(p) \in Free(p)
  BY <1>1, <1>2, LeastNumber
<1>. QED  BY <1>3 DEF Free

\* open_log leaves the descriptors and their contents well typed.
LEMMA OpenLogType ==
  ASSUME TypeOK, NEW p \in Procs, open_log(p)
  PROVE  /\ fds' \in [Procs -> [Fds -> {"free", "log", "client"}]]
         /\ log_fd' \in [Procs -> Fds \cup {0}]
         /\ old_fd' \in [Procs -> Fds \cup {0}]
<1>1. NewFd(p) \in Fds
  BY NewFdFree DEF open_log, opened
<1>2. [f \in Fds |-> CASE f = NewFd(p) -> "log"
                      [] f = retire(p).close -> "free"
                      [] OTHER -> fds[p][f]] \in [Fds -> {"free", "log", "client"}]
  BY DEF TypeOK
<1>. QED  BY <1>1, <1>2 DEF open_log, retire, TypeOK

\* A process that ends leaves well-typed state behind.
LEMMA ExitType ==
  ASSUME TypeOK, NEW p \in Procs, NEW next \in {"exited", "crashed"}, exit_to(p, next)
  PROVE  /\ pc' \in [Procs -> NotRunning \cup
               {"init", "checked", "listening", "working", "created", "serving", "closed", "removed"}]
         /\ port' \in Procs \cup {Nil}
         /\ fds' \in [Procs -> [Fds -> {"free", "log", "client"}]]
         /\ log_fd' \in [Procs -> Fds \cup {0}]
         /\ old_fd' \in [Procs -> Fds \cup {0}]
         /\ line' \in [Procs -> [Writers -> Fds \cup {0}]]
         /\ passed' \in [Procs -> [Writers -> 0 .. MaxRotations]]
BY BoundsAssumption DEF exit_to, Go, TypeOK, NotRunning

\* The steps of the log.
LEMMA TypeLog ==
  ASSUME TypeOK, NEW p \in Procs, LogStep(p)
  PROVE  TypeOK'
<1>1. CASE rotate_log(p)
  <2>. \A w \in Writers : passed[p][w] \in 0 .. MaxRotations
    BY DEF TypeOK
  <2>1. [w \in Writers |-> IF line[p][w] = 0 \/ passed[p][w] = MaxRotations
                             THEN passed[p][w] ELSE passed[p][w] + 1]
        \in [Writers -> 0 .. MaxRotations]
    BY BoundsAssumption
  <2>2. passed' \in [Procs -> [Writers -> 0 .. MaxRotations]]
    BY <1>1, <2>1 DEF rotate_log, TypeOK
  <2>. QED  BY <1>1, <2>2, OpenLogType DEF rotate_log, TypeOK
<1>2. CASE accept_client(p)
  BY <1>2, NewFdFree DEF accept_client, TypeOK
<1>3. ASSUME NEW f \in Fds, close_client(p, f) PROVE TypeOK'
  BY <1>3 DEF close_client, TypeOK
<1>4. ASSUME NEW w \in Writers, read_log_fd(p, w) PROVE TypeOK'
  BY <1>4 DEF read_log_fd, TypeOK
<1>5. ASSUME NEW w \in Writers, write_log(p, w) PROVE TypeOK'
  BY <1>5, BoundsAssumption DEF write_log, TypeOK
<1>. QED  BY <1>1, <1>2, <1>3, <1>4, <1>5 DEF LogStep

\* The steps in the life of a process.
LEMMA TypeLife ==
  ASSUME TypeOK, NEW p \in Procs, LifeStep(p)
  PROVE  TypeOK'
<1>1. CASE start(p)
  BY Zenon, <1>1, OpenLogType DEF start, Go, TypeOK, NotRunning
<1>2. CASE check_pid_file(p)
  BY Zenon, <1>2, ExitType DEF check_pid_file, Go, TypeOK
<1>3. CASE start_listen(p)
  BY Zenon, <1>3, ExitType DEF start_listen, Go, TypeOK
<1>4. CASE start_work_thread(p)
  BY Zenon, <1>4, ExitType DEF start_work_thread, Go, TypeOK
<1>5. CASE create_pid_file(p)
  BY Zenon, <1>5, ExitType DEF create_pid_file, Go, TypeOK
<1>6. CASE write_pid(p)
  BY <1>6 DEF write_pid, Overwritten, Go, TypeOK
<1>7. CASE close_server(p)
  BY <1>7, BoundsAssumption DEF close_server, Go, TypeOK
<1>8. CASE remove_pid_file(p)
  BY <1>8 DEF remove_pid_file, without_pid_file, Go, TypeOK
<1>9. CASE return_from_main(p)
  BY <1>9, ExitType DEF return_from_main, TypeOK
<1>10. CASE crash(p)
  BY <1>10, ExitType DEF crash, TypeOK
<1>. QED  BY <1>1, <1>2, <1>3, <1>4, <1>5, <1>6, <1>7, <1>8, <1>9, <1>10 DEF LifeStep

\* The pid file, the port, the descriptors and the log of any number of processes
\* stay well typed: open and accept return -1 or a descriptor of the process.
THEOREM TypeCorrect == Spec => []TypeOK
<1>1. Init => TypeOK
  BY BoundsAssumption DEF Init, TypeOK, NotRunning
<1>2. TypeOK /\ [Next]_vars => TypeOK'
  <2>. SUFFICES ASSUME TypeOK, [Next]_vars PROVE TypeOK'
    OBVIOUS
  <2>1. CASE remove_stale
    BY <2>1 DEF remove_stale, TypeOK
  <2>2. CASE UNCHANGED vars
    BY <2>2 DEF TypeOK
  <2>. QED  BY Zenon, <2>1, <2>2, TypeLog, TypeLife DEF Next, LogStep, LifeStep
<1>. QED  BY <1>1, <1>2, PTL DEF Spec

-----------------------------------------------------------------------------
(* The log.  The descriptors open on log files are _log_fd and _old_fd, which  *)
(* differ; a thread that was not overtaken by a rotation is about to write to  *)
(* the first, one that was overtaken once to the second.                       *)

Descriptors(p) ==
  /\ \A f \in Fds : fds[p][f] = "log" <=> f \in {log_fd[p], old_fd[p]}
  /\ log_fd[p] = old_fd[p] => log_fd[p] = 0

Lines(p) ==
  \A w \in Writers :
    /\ line[p][w] = 0 => passed[p][w] = 0
    /\ line[p][w] # 0 =>
         /\ pc[p] = "serving"
         /\ passed[p][w] = 0 => line[p][w] = log_fd[p]
         /\ passed[p][w] = 1 => line[p][w] = old_fd[p]

LogInv == \A p \in Procs : Descriptors(p) /\ Lines(p)

\* The log of one process is not changed by another.
Log(p) == <<pc[p], fds[p], log_fd[p], old_fd[p], line[p], passed[p]>>

\* A process whose log is left alone.
LEMMA LogSame ==
  ASSUME NEW p, Descriptors(p), Lines(p), UNCHANGED Log(p)
  PROVE  Descriptors(p)' /\ Lines(p)'
BY DEF Log, Descriptors, Lines

\* open_log: the new descriptor is neither of the two, and the older one is closed.
LEMMA OpenLogDescriptors ==
  ASSUME TypeOK, NEW p \in Procs, Descriptors(p), open_log(p)
  PROVE  /\ Descriptors(p)'
         /\ old_fd'[p] = log_fd[p]
<1>1. NewFd(p) \in Fds /\ fds[p][NewFd(p)] = "free"
  BY NewFdFree DEF open_log, opened
<1>2. /\ old_fd'[p] = log_fd[p] /\ log_fd'[p] = NewFd(p)
      /\ \A f \in Fds : fds'[p][f] = CASE f = NewFd(p) -> "log"
                                       [] f = old_fd[p] -> "free"
                                       [] OTHER -> fds[p][f]
  BY DEF open_log, retire, TypeOK
<1>3. NewFd(p) # log_fd[p] /\ NewFd(p) # old_fd[p] /\ NewFd(p) # 0
  BY <1>1, FdsAssumption DEF Descriptors
<1>4. \A f \in Fds : fds'[p][f] = "log" <=> f \in {log_fd'[p], old_fd'[p]}
  <2>. TAKE f \in Fds
  <2>1. CASE f = NewFd(p)
    BY <1>2, <1>3, <2>1
  <2>2. CASE f # NewFd(p) /\ f = old_fd[p]
    BY <1>2, <2>2, FdsAssumption DEF Descriptors
  <2>3. CASE f # NewFd(p) /\ f # old_fd[p]
    BY <1>2, <2>3 DEF Descriptors
  <2>. QED  BY <2>1, <2>2, <2>3
<1>. QED  BY <1>2, <1>3, <1>4 DEF Descriptors

\* A process that has ended has nothing open and no line to write.
LEMMA ExitLog ==
  ASSUME TypeOK, NEW p \in Procs, NEW next \in {"exited", "crashed"}, exit_to(p, next)
  PROVE  Descriptors(p)' /\ Lines(p)'
<1>1. /\ log_fd'[p] = 0 /\ old_fd'[p] = 0
      /\ \A f \in Fds : fds'[p][f] = "free"
      /\ \A w \in Writers : line'[p][w] = 0 /\ passed'[p][w] = 0
  BY DEF exit_to, TypeOK
<1>. QED  BY <1>1, FdsAssumption DEF Descriptors, Lines

\* One rotation makes _log_fd of the line _old_fd.
LEMMA RotateLog ==
  ASSUME TypeOK, NEW p \in Procs, Descriptors(p), Lines(p), rotate_log(p)
  PROVE  Descriptors(p)' /\ Lines(p)'
<1>1. Descriptors(p)' /\ old_fd'[p] = log_fd[p]
  BY OpenLogDescriptors DEF rotate_log
<1>2. UNCHANGED <<pc, line>>
  BY DEF rotate_log
<1>3. Lines(p)'
  <2>. SUFFICES ASSUME NEW w \in Writers
                PROVE  /\ line[p][w] = 0 => passed'[p][w] = 0
                       /\ line[p][w] # 0 =>
                            /\ pc[p] = "serving"
                            /\ passed'[p][w] = 0 => line[p][w] = log_fd'[p]
                            /\ passed'[p][w] = 1 => line[p][w] = old_fd'[p]
    BY <1>2 DEF Lines
  <2>1. passed'[p][w] = IF line[p][w] = 0 \/ passed[p][w] = MaxRotations
                          THEN passed[p][w] ELSE passed[p][w] + 1
    BY DEF rotate_log, TypeOK
  <2>2. passed[p][w] \in Nat
    BY BoundsAssumption DEF TypeOK
  <2>. QED  BY <1>1, <2>1, <2>2, BoundsAssumption DEF Lines
<1>. QED  BY <1>1, <1>3

\* The steps of the log keep the two facts.
LEMMA LogOfLog ==
  ASSUME TypeOK, NEW p \in Procs, Descriptors(p), Lines(p), LogStep(p)
  PROVE  Descriptors(p)' /\ Lines(p)'
<1>1. CASE accept_client(p)
  <2>1. fds' = [fds EXCEPT ![p][NewFd(p)] = "client"] /\ UNCHANGED <<pc, log_fd, old_fd, line, passed>>
    BY <1>1 DEF accept_client
  <2>2. NewFd(p) \in Fds /\ fds[p][NewFd(p)] = "free"
    BY <1>1, NewFdFree DEF accept_client
  <2>3. \A f \in Fds : fds'[p][f] = IF f = NewFd(p) THEN "client" ELSE fds[p][f]
    BY <2>1, <2>2 DEF TypeOK
  <2>. QED  BY <2>1, <2>2, <2>3 DEF Descriptors, Lines
<1>2. ASSUME NEW f \in Fds, close_client(p, f) PROVE Descriptors(p)' /\ Lines(p)'
  <2>1. /\ fds[p][f] = "client" /\ UNCHANGED <<pc, log_fd, old_fd, line, passed>>
        /\ \A g \in Fds : fds'[p][g] = IF g = f THEN "free" ELSE fds[p][g]
    BY <1>2 DEF close_client, TypeOK
  <2>. QED  BY <2>1 DEF Descriptors, Lines
<1>3. ASSUME NEW w \in Writers, read_log_fd(p, w) PROVE Descriptors(p)' /\ Lines(p)'
  <2>1. /\ pc[p] = "serving" /\ line[p][w] = 0 /\ UNCHANGED <<pc, fds, log_fd, old_fd, passed>>
        /\ \A v \in Writers : line'[p][v] = IF v = w THEN log_fd[p] ELSE line[p][v]
    BY <1>3 DEF read_log_fd, TypeOK
  <2>2. Descriptors(p)'
    BY <2>1 DEF Descriptors
  <2>3. Lines(p)'
    BY <2>1 DEF Lines
  <2>. QED  BY <2>2, <2>3
<1>4. ASSUME NEW w \in Writers, write_log(p, w) PROVE Descriptors(p)' /\ Lines(p)'
  <2>1. /\ line' = [line EXCEPT ![p][w] = 0] /\ passed' = [passed EXCEPT ![p][w] = 0]
        /\ UNCHANGED <<pc, fds, log_fd, old_fd>>
    BY <1>4 DEF write_log
  <2>2. \A v \in Writers : line'[p][v] = IF v = w THEN 0 ELSE line[p][v]
    BY <2>1 DEF TypeOK
  <2>3. \A v \in Writers : passed'[p][v] = IF v = w THEN 0 ELSE passed[p][v]
    BY <2>1 DEF TypeOK
  <2>4. Descriptors(p)'
    BY <2>1 DEF Descriptors
  <2>5. Lines(p)'
    BY <2>1, <2>2, <2>3 DEF Lines
  <2>. QED  BY <2>4, <2>5
<1>. QED  BY <1>1, <1>2, <1>3, <1>4, RotateLog DEF LogStep

\* The steps in the life of a process keep them: no thread is writing a line when a
\* process starts, and none is left when it stops or dies.
LEMMA LogOfLife ==
  ASSUME TypeOK, NEW p \in Procs, Descriptors(p), Lines(p), LifeStep(p)
  PROVE  Descriptors(p)' /\ Lines(p)'
<1>1. ASSUME pc[p] # "serving", UNCHANGED logs PROVE Descriptors(p)' /\ Lines(p)'
  BY <1>1 DEF Descriptors, Lines
<1>2. CASE start(p)
  <2>1. \A w \in Writers : line[p][w] = 0 /\ passed[p][w] = 0
    BY <1>2 DEF start, Lines
  <2>2. Descriptors(p)'
    BY <1>2, OpenLogDescriptors DEF start, Descriptors
  <2>3. Lines(p)'
    BY <1>2, <2>1 DEF start, Lines
  <2>. QED  BY <2>2, <2>3
<1>3. CASE check_pid_file(p)
  BY <1>1, <1>3, ExitLog DEF check_pid_file
<1>4. CASE start_listen(p)
  BY <1>1, <1>4, ExitLog DEF start_listen
<1>5. CASE start_work_thread(p)
  BY <1>1, <1>5, ExitLog DEF start_work_thread
<1>6. CASE create_pid_file(p)
  BY <1>1, <1>6, ExitLog DEF create_pid_file
<1>7. CASE write_pid(p)
  BY <1>1, <1>7 DEF write_pid
<1>8. CASE close_server(p)
  <2>1. \A w \in Writers : line'[p][w] = 0 /\ passed'[p][w] = 0
    BY <1>8 DEF close_server, TypeOK
  <2>. QED  BY <1>8, <2>1 DEF close_server, Descriptors, Lines
<1>9. CASE remove_pid_file(p)
  BY <1>1, <1>9 DEF remove_pid_file
<1>10. CASE return_from_main(p)
  BY <1>10, ExitLog DEF return_from_main
<1>11. CASE crash(p)
  BY <1>11, ExitLog DEF crash
<1>. QED  BY <1>2, <1>3, <1>4, <1>5, <1>6, <1>7, <1>8, <1>9, <1>10, <1>11 DEF LifeStep

\* No process touches the log of another.
LEMMA LogIsOwn ==
  ASSUME TypeOK, NEW p \in Procs, LogStep(p) \/ LifeStep(p), NEW q \in Procs \ {p}
  PROVE  UNCHANGED Log(q)
<1>. USE DEF Log, TypeOK
<1>1. ASSUME NEW next, exit_to(p, next) PROVE UNCHANGED Log(q)
  BY <1>1 DEF exit_to, Go
<1>2. ASSUME NEW next, Go(p, next) PROVE UNCHANGED pc[q]
  BY <1>2 DEF Go
<1>3. ASSUME open_log(p) PROVE UNCHANGED <<fds[q], log_fd[q], old_fd[q]>>
  BY <1>3 DEF open_log
<1>4. CASE LogStep(p)
  <2>1. CASE rotate_log(p)
    BY <1>3, <2>1 DEF rotate_log
  <2>2. CASE accept_client(p) \/ \E f \in Fds : close_client(p, f)
    BY <2>2 DEF accept_client, close_client
  <2>3. CASE \E w \in Writers : read_log_fd(p, w) \/ write_log(p, w)
    BY <2>3 DEF read_log_fd, write_log
  <2>. QED  BY Zenon, <1>4, <2>1, <2>2, <2>3 DEF LogStep
<1>5. CASE start(p) \/ write_pid(p) \/ remove_pid_file(p)
  BY <1>2, <1>3, <1>5 DEF start, write_pid, remove_pid_file
<1>6. CASE close_server(p)
  BY <1>2, <1>6 DEF close_server
<1>7. CASE \/ check_pid_file(p) \/ start_listen(p) \/ start_work_thread(p)
           \/ create_pid_file(p) \/ return_from_main(p) \/ crash(p)
  BY <1>1, <1>2, <1>7 DEF check_pid_file, start_listen, start_work_thread, create_pid_file,
                          return_from_main, crash
<1>. QED  BY <1>4, <1>5, <1>6, <1>7 DEF LifeStep

\* The facts about the log are inductive.
LEMMA LogStays == Spec => []LogInv
<1>1. Init => LogInv
  BY FdsAssumption DEF Init, LogInv, Descriptors, Lines
<1>2. TypeOK /\ LogInv /\ [Next]_vars => LogInv'
  <2>. SUFFICES ASSUME TypeOK, LogInv, [Next]_vars, NEW q \in Procs
                PROVE  Descriptors(q)' /\ Lines(q)'
    BY DEF LogInv
  <2>0. Descriptors(q) /\ Lines(q)
    BY DEF LogInv
  <2>1. ASSUME NEW p \in Procs, LogStep(p) \/ LifeStep(p) PROVE Descriptors(q)' /\ Lines(q)'
    <3>1. CASE p = q
      BY <2>0, <2>1, <3>1, LogOfLog, LogOfLife
    <3>2. CASE p # q
      BY <2>0, <2>1, <3>2, LogIsOwn, LogSame
    <3>. QED  BY <3>1, <3>2
  <2>2. CASE remove_stale
    BY <2>0, <2>2, LogSame DEF remove_stale, Log
  <2>3. CASE UNCHANGED vars
    BY <2>0, <2>3, LogSame DEF Log
  <2>. QED  BY Zenon, <2>1, <2>2, <2>3 DEF Next, LogStep, LifeStep
<1>. QED  BY <1>1, <1>2, TypeCorrect, PTL DEF Spec

\* For any number of rotations, clients that take and free descriptors, crashes and
\* failing opens: the descriptors open on log files are _log_fd and _old_fd, so that
\* rotate_log leaks none and never closes the connection of a client.
THEOREM RotationKeepsDescriptors == Spec => []LogDescriptors
<1>1. TypeOK /\ LogInv => LogDescriptors
  <2>. SUFFICES ASSUME TypeOK, LogInv, NEW p \in Procs
                PROVE  {f \in Fds : fds[p][f] = "log"} = {log_fd[p], old_fd[p]} \ {0}
    BY DEF LogDescriptors
  <2>1. log_fd[p] \in Fds \cup {0} /\ old_fd[p] \in Fds \cup {0} /\ 0 \notin Fds
    BY FdsAssumption DEF TypeOK
  <2>2. \A f \in Fds : fds[p][f] = "log" <=> f \in {log_fd[p], old_fd[p]}
    BY DEF LogInv, Descriptors
  <2>. QED  BY <2>1, <2>2
<1>. QED  BY <1>1, LogStays, TypeCorrect, PTL

\* A worker thread that has read _log_fd and is overtaken by at most one rotation
\* before it writes, writes its line to a log file.
THEOREM LinesReachTheLog == Spec => []LineReachesLog
<1>1. TypeOK /\ LogInv => LineReachesLog
  <2>. SUFFICES ASSUME TypeOK, LogInv, NEW p \in Procs, NEW w \in Writers,
                       line[p][w] # 0, passed[p][w] < 2
                PROVE  fds[p][line[p][w]] = "log"
    BY DEF LineReachesLog
  <2>1. line[p][w] \in Fds /\ passed[p][w] \in 0 .. MaxRotations
    BY DEF TypeOK
  <2>. passed[p][w] \in {0, 1}
    BY <2>1, BoundsAssumption
  <2>2. line[p][w] \in {log_fd[p], old_fd[p]}
    BY <2>1 DEF LogInv, Lines
  <2>. QED  BY <2>1, <2>2 DEF LogInv, Descriptors
<1>. QED  BY <1>1, LogStays, TypeCorrect, PTL

-----------------------------------------------------------------------------
(* The pid file.  The port is what keeps the processes apart: whoever is past  *)
(* start_listen holds it, and only such a process touches the file.  The file  *)
(* exists on behalf of that process or of one that crashed.                    *)

Bound == {"listening", "working", "created", "serving", "closed", "removed"}

PortIsHeld == \A p \in Procs : pc[p] \in Bound <=> port = p

SweptCrashed == \A p \in swept : pc[p] = "crashed"

FileHasOwner ==
  pid_file # Nil => Crashed # {} \/ \E p \in Procs : pc[p] \in {"created", "serving", "closed"}

FreshFile == \A p \in Procs : pc[p] = "created" => pid_file = Empty \/ Crashed # {}

LifeInv == PortIsHeld /\ SweptCrashed /\ FileHasOwner /\ FreshFile /\ PidFileNamesServer

\* A process that holds the port is the only one.
LEMMA OneHolder ==
  ASSUME PortIsHeld, NEW p \in Procs, pc[p] \in Bound, NEW q \in Procs, pc[q] \in Bound
  PROVE  p = q
BY DEF PortIsHeld

\* A step of one process that is not a crash leaves the crashed ones as they are.
LEMMA CrashedStay ==
  ASSUME TypeOK, NEW p \in Procs, pc[p] # "crashed", NEW next, next # "crashed", Go(p, next),
         UNCHANGED swept
  PROVE  Crashed' = Crashed
BY DEF Go, Crashed, TypeOK

\* The steps up to the look at the pid file, and those of a process that fails.
LEMMA LifeEarly ==
  ASSUME TypeOK, LifeInv, NEW p \in Procs, NEW next \in {"init", "checked", "exited"}, Go(p, next),
         pc[p] \in {"new", "init", "checked", "listening", "working", "removed"},
         port' = IF port = p THEN Nil ELSE port,
         UNCHANGED <<pid_file, swept>>
  PROVE  LifeInv'
<1>1. /\ pc'[p] = next
      /\ \A q \in Procs \ {p} : pc'[q] = pc[q]
  BY DEF Go, TypeOK
<1>2. Crashed' = Crashed
  BY CrashedStay
<1>3. PortIsHeld'
  BY <1>1, ProcsAssumption DEF LifeInv, PortIsHeld, Bound
<1>4. SweptCrashed'
  BY <1>1 DEF LifeInv, SweptCrashed, TypeOK
<1>5. FileHasOwner'
  BY <1>1, <1>2 DEF LifeInv, FileHasOwner
<1>6. FreshFile' /\ PidFileNamesServer'
  BY <1>1, <1>2 DEF LifeInv, FreshFile, PidFileNamesServer
<1>. QED  BY <1>3, <1>4, <1>5, <1>6 DEF LifeInv

\* The steps of a process that holds the port, or takes it, and does not crash: what
\* is left to show is what they do to the pid file.
LEMMA LifeHolder ==
  ASSUME TypeOK, LifeInv, NEW p \in Procs, NEW next \in Bound, Go(p, next),
         pc[p] \in Bound \/ (pc[p] = "checked" /\ port = Nil),
         port' = p, UNCHANGED swept,
         next \in {"listening", "working", "removed"} =>
           pid_file' = Nil \/ (UNCHANGED pid_file /\ pc[p] \in {"checked", "listening"}),
         next = "created" => pid_file' = Empty \/ Crashed # {},
         next = "serving" => pid_file' = p \/ (pid_file' = Mixed /\ Crashed # {})
  PROVE  LifeInv'
<1>1. /\ pc'[p] = next
      /\ \A q \in Procs \ {p} : pc'[q] = pc[q]
  BY DEF Go, TypeOK
<1>2. Crashed' = Crashed
  BY CrashedStay DEF Bound
<1>3. \A q \in Procs \ {p} : pc[q] \notin Bound
  BY ProcsAssumption DEF LifeInv, PortIsHeld
<1>4. PortIsHeld'
  BY <1>1, <1>3 DEF PortIsHeld
<1>5. SweptCrashed'
  BY <1>1 DEF LifeInv, SweptCrashed, TypeOK, Bound
<1>6. FileHasOwner'
  BY <1>1, <1>2, <1>3 DEF LifeInv, FileHasOwner, Bound
<1>7. FreshFile'
  BY <1>1, <1>2, <1>3 DEF FreshFile, Bound
<1>8. PidFileNamesServer'
  BY <1>1, <1>2, <1>3 DEF PidFileNamesServer, Bound
<1>. QED  BY <1>4, <1>5, <1>6, <1>7, <1>8 DEF LifeInv

\* Whoever crashes is on record, and answers for the file from then on.
LEMMA LifeCrash ==
  ASSUME TypeOK, LifeInv, NEW p \in Procs, crash(p)
  PROVE  LifeInv'
<1>1. /\ pc[p] # "crashed" /\ pc'[p] = "crashed"
      /\ \A q \in Procs \ {p} : pc'[q] = pc[q]
      /\ port' = IF port = p THEN Nil ELSE port
      /\ UNCHANGED <<pid_file, swept>>
  BY DEF crash, exit_to, Running, NotRunning, Go, TypeOK
<1>2. p \in Crashed'
  BY <1>1 DEF LifeInv, SweptCrashed, Crashed
<1>3. PortIsHeld'
  BY <1>1, ProcsAssumption DEF LifeInv, PortIsHeld, Bound
<1>4. SweptCrashed'
  BY <1>1 DEF LifeInv, SweptCrashed, TypeOK
<1>5. FileHasOwner' /\ FreshFile'
  BY <1>2 DEF FileHasOwner, FreshFile
<1>6. PidFileNamesServer'
  BY <1>1, <1>2 DEF LifeInv, PidFileNamesServer
<1>. QED  BY <1>3, <1>4, <1>5, <1>6 DEF LifeInv

\* Every step in the life of a process keeps the facts about the pid file.
LEMMA LifeOfLife ==
  ASSUME TypeOK, LifeInv, NEW p \in Procs, LifeStep(p)
  PROVE  LifeInv'
<1>1. pc[p] \in Bound => port = p
  BY DEF LifeInv, PortIsHeld
<1>2. pc[p] \in {"new", "init", "checked"} => port # p
  BY DEF LifeInv, PortIsHeld, Bound
<1>3. CASE start(p)
  <2>1. pc[p] = "new" /\ UNCHANGED <<port, pid_file, swept>> /\ \E next \in {"init", "exited"} : Go(p, next)
    BY <1>3 DEF start
  <2>. QED  BY <1>2, <2>1, LifeEarly
<1>4. CASE check_pid_file(p)
  BY <1>2, <1>4, LifeEarly DEF check_pid_file, exit_to
<1>5. CASE start_listen(p)
  <2>1. CASE port = Nil /\ port' = p /\ Go(p, "listening")
    BY <1>5, <2>1, LifeHolder DEF start_listen, Bound
  <2>2. CASE exit_to(p, "exited")
    BY <1>5, <2>2, LifeEarly DEF start_listen, exit_to
  <2>. QED  BY <1>5, <2>1, <2>2 DEF start_listen, bind_ok
<1>6. CASE start_work_thread(p)
  <2>1. CASE Go(p, "working") /\ UNCHANGED port
    BY <1>1, <1>6, <2>1, LifeHolder DEF start_work_thread, Bound
  <2>2. CASE exit_to(p, "exited")
    BY <1>6, <2>2, LifeEarly DEF start_work_thread, exit_to
  <2>. QED  BY <1>6, <2>1, <2>2 DEF start_work_thread
<1>7. CASE create_pid_file(p)
  <2>1. CASE Go(p, "created") /\ UNCHANGED port
    <3>1. pc[p] = "working" /\ port' = p /\ UNCHANGED swept
      BY <1>1, <1>7, <2>1 DEF create_pid_file, Bound
    <3>2. \A q \in Procs : pc[q] \notin {"created", "serving", "closed"}
      BY <3>1, OneHolder DEF LifeInv, Bound
    <3>3. pid_file' = Empty \/ Crashed # {}
      BY <1>7, <2>1, <3>2 DEF create_pid_file, LifeInv, FileHasOwner, Go, exit_to, TypeOK
    <3>. QED  BY <2>1, <3>1, <3>3, LifeHolder DEF Bound
  <2>2. CASE exit_to(p, "exited") /\ UNCHANGED pid_file
    BY <1>7, <2>2, LifeEarly DEF create_pid_file, exit_to
  <2>. QED  BY <1>7, <2>1, <2>2 DEF create_pid_file
<1>8. CASE write_pid(p)
  <2>1. pc[p] = "created" /\ Go(p, "serving") /\ port' = p /\ UNCHANGED swept
    BY <1>1, <1>8 DEF write_pid, Bound
  <2>2. pid_file' = p \/ (pid_file' = Mixed /\ Crashed # {})
    BY <1>8, <2>1, ContentAssumption DEF write_pid, Overwritten, LifeInv, FreshFile
  <2>. QED  BY <2>1, <2>2, LifeHolder DEF Bound
<1>9. CASE close_server(p)
  BY <1>1, <1>9, LifeHolder DEF close_server, Bound
<1>10. CASE remove_pid_file(p)
  BY <1>1, <1>10, LifeHolder DEF remove_pid_file, without_pid_file, Bound
<1>11. CASE return_from_main(p)
  BY <1>11, LifeEarly DEF return_from_main, exit_to
<1>. QED
  BY <1>3, <1>4, <1>5, <1>6, <1>7, <1>8, <1>9, <1>10, <1>11, LifeCrash DEF LifeStep

\* The facts about the pid file are inductive.
LEMMA LifeStays == Spec => []LifeInv
<1>1. Init => LifeInv
  BY ProcsAssumption
  DEF Init, LifeInv, PortIsHeld, SweptCrashed, FileHasOwner, FreshFile, PidFileNamesServer, Bound
<1>2. TypeOK /\ LifeInv /\ [Next]_vars => LifeInv'
  <2>. SUFFICES ASSUME TypeOK, LifeInv, [Next]_vars PROVE LifeInv'
    OBVIOUS
  <2>1. ASSUME UNCHANGED <<pc, files>> PROVE LifeInv'
    BY <2>1 DEF LifeInv, PortIsHeld, SweptCrashed, FileHasOwner, FreshFile, PidFileNamesServer, Crashed
  <2>2. ASSUME NEW p \in Procs, LogStep(p) PROVE LifeInv'
    BY <2>1, <2>2 DEF LogStep, rotate_log, accept_client, close_client, read_log_fd, write_log
  <2>3. CASE remove_stale
    <3>1. /\ pid_file' = Nil /\ UNCHANGED <<pc, port>>
          /\ swept' = {p \in Procs : pc[p] = "crashed"}
          /\ \A p \in Procs : pc[p] \in NotRunning
      BY <2>3 DEF remove_stale, Running
    <3>. QED
      BY <3>1 DEF LifeInv, PortIsHeld, SweptCrashed, FileHasOwner, FreshFile, PidFileNamesServer, NotRunning
  <2>4. CASE UNCHANGED vars
    BY <2>1, <2>4
  <2>. QED  BY Zenon, <2>2, <2>3, <2>4, LifeOfLife DEF Next, LogStep, LifeStep
<1>. QED  BY <1>1, <1>2, TypeCorrect, PTL DEF Spec

\* For any number of processes that start, fail, stop and crash in any order: the pid
\* file of a serving process holds its pid, perhaps with the last digits of a longer
\* one behind it if a process crashed, although run_server creates it without O_EXCL.
THEOREM PidFileIsTheServers == Spec => []PidFileNamesServer
BY LifeStays, PTL DEF LifeInv

\* A pid file that keeps the server from starting while no process runs was left by a
\* crash: run_server removes it on every other way out.
THEOREM StaleFileMeansCrash == Spec => []StaleMeansCrash
<1>1. LifeInv => StaleMeansCrash
  BY DEF LifeInv, FileHasOwner, StaleMeansCrash, Running, NotRunning
<1>. QED  BY <1>1, LifeStays, PTL

-----------------------------------------------------------------------------
(* The links to Redis.                                                        *)

-----------------------------------------------------------------------------
(* Type correctness.  A signal that is pending stands for a break that has not *)
(* been answered with a new generation, so there are never more generations    *)
(* than breaks.                                                                *)

SignalsAreBreaks == gen <= breaks /\ (usr1 => gen < breaks)

TypeInv == LinkTypeOK /\ SignalsAreBreaks

States  == {"none", "raw", "connecting", "up", "gone"}
Pending == Kinds \cup {"nothing"}

\* One context that changes its state keeps the contexts well typed.
LEMMA ConnType ==
  ASSUME NEW c \in [Workers -> [Gens -> States]], NEW w \in Workers, NEW g, NEW s \in States
  PROVE  [c EXCEPT ![w][g] = s] \in [Workers -> [Gens -> States]]
<1>1. [c[w] EXCEPT ![g] = s] \in [Gens -> States]
  BY Zenon
<1>. QED  BY <1>1

\* So does one that is given a command, or answers it.
LEMMA AskedType ==
  ASSUME NEW a \in [Workers -> [Gens -> Pending]], NEW w \in Workers, NEW g, NEW k \in Pending
  PROVE  [a EXCEPT ![w][g] = k] \in [Workers -> [Gens -> Pending]]
<1>1. [a[w] EXCEPT ![g] = k] \in [Gens -> Pending]
  BY Zenon
<1>. QED  BY <1>1

\* A context is freed.
LEMMA FreeType ==
  ASSUME LinkTypeOK, NEW w \in Workers, NEW g \in Gens, free_context(w, g)
  PROVE  /\ conn' \in [Workers -> [Gens -> States]]
         /\ asked' \in [Workers -> [Gens -> Pending]]
         /\ main_pc' \in {main_pc, "dead"}
         /\ UNCHANGED <<gen, recent, idx, ignored>>
BY ConnType, AskedType DEF free_context, LinkTypeOK, States, Pending

\* The worker's side.
LEMMA TypeWorker ==
  ASSUME TypeInv, NEW w \in Workers, NEW g \in Gens,
         \/ \E k \in Kinds : command(w, k)
         \/ reply(w, g) \/ redis_connect_callback(w, g) \/ redis_disconnect_callback(w, g)
  PROVE  TypeInv'
<1>. USE DEF TypeInv, LinkTypeOK, SignalsAreBreaks
<1>1. ASSUME NEW k \in Kinds, command(w, k) PROVE TypeInv'
  <2>1. asked' = [asked EXCEPT ![w][current(w)] = k] \/ UNCHANGED asked
    BY <1>1 DEF command
  <2>2. asked \in [Workers -> [Gens -> Pending]] /\ k \in Pending
    BY DEF Pending
  <2>3. [asked EXCEPT ![w][current(w)] = k] \in [Workers -> [Gens -> Pending]]
    BY Zenon, <2>2, AskedType
  <2>. QED  BY <1>1, <2>1, <2>2, <2>3 DEF command, Pending
<1>2. CASE reply(w, g)
  <2>1. asked' \in [Workers -> [Gens -> Pending]]
    BY <1>2, AskedType DEF reply, Pending
  <2>. QED  BY <1>2, <2>1 DEF reply, Pending
<1>3. CASE connected(w, g)
  <2>1. conn' \in [Workers -> [Gens -> States]]
    BY <1>3, ConnType DEF connected, States
  <2>. QED  BY <1>3, <2>1 DEF connected, States
<1>4. CASE connect_fails(w, g)
  BY <1>4, FreeType DEF connect_fails, States, Pending
<1>5. CASE redis_disconnect_callback(w, g)
  BY <1>5, FreeType, BreaksAssumption DEF redis_disconnect_callback, send_signal, States, Pending, Gens
<1>. QED  BY <1>1, <1>2, <1>3, <1>4, <1>5 DEF redis_connect_callback

\* The main thread's side.
LEMMA TypeMain ==
  ASSUME TypeInv, Main \/ ten_seconds_pass
  PROVE  TypeInv'
<1>. USE DEF TypeInv, LinkTypeOK, SignalsAreBreaks
<1>1. CASE reconnect_redis
  <2>1. CASE recent /\ UNCHANGED <<gen, recent, main_pc, idx>>
    BY Zenon, <1>1, <2>1 DEF reconnect_redis, signal_taken
  <2>2. CASE recent' = TRUE /\ gen' = gen + 1 /\ main_pc' = "open" /\ idx' = 0 /\ UNCHANGED ignored
    <3>1. usr1 /\ usr1' = FALSE /\ UNCHANGED <<conn, asked, term, breaks>>
      BY Zenon, <1>1 DEF reconnect_redis, signal_taken
    <3>2. gen + 1 \in Gens /\ gen + 1 <= breaks
      BY <3>1, BreaksAssumption DEF Gens
    <3>3. 0 \in 0 .. NumWorkers
      BY WorkersAssumption
    <3>. QED  BY Zenon, <2>2, <3>1, <3>2, <3>3
  <2>. QED  BY Zenon, <1>1, <2>1, <2>2 DEF reconnect_redis
<1>2. CASE redisAsyncConnect
  <2>1. idx \in Workers /\ idx + 1 \in 0 .. NumWorkers
    BY <1>2, WorkersAssumption DEF redisAsyncConnect, last_worker, Workers
  <2>2. \E s \in States : conn' = [conn EXCEPT ![idx][gen] = s]
    BY <1>2 DEF redisAsyncConnect, States
  <2>3. conn' \in [Workers -> [Gens -> States]]
    BY <2>1, <2>2, ConnType DEF States
  <2>. QED  BY Zenon, <1>2, <2>1, <2>3 DEF redisAsyncConnect, States
<1>3. CASE asy_open_redis
  <2>1. idx \in Workers /\ idx + 1 \in 0 .. NumWorkers
    BY <1>3, WorkersAssumption DEF asy_open_redis, last_worker, Workers
  <2>2. conn' \in [Workers -> [Gens -> States]]
    BY <1>3, <2>1, ConnType DEF asy_open_redis, attached, States
  <2>. QED  BY <1>3, <2>1, <2>2 DEF asy_open_redis, States
<1>4. CASE all_opened
  BY <1>4 DEF all_opened
<1>5. CASE signal_cb
  BY <1>5 DEF signal_cb
<1>6. CASE ten_seconds_pass
  BY Zenon, <1>6 DEF ten_seconds_pass
<1>. QED  BY <1>1, <1>2, <1>3, <1>4, <1>5, <1>6 DEF Main

\* A new generation of links is opened only for a break that no earlier one answered,
\* however the signals of several workers merge.
LEMMA TypeStays == LinkSpec => []TypeInv
<1>1. LinkInit => TypeInv
  <2>1. 0 \in Gens /\ 0 \in 0 .. NumWorkers
    BY BreaksAssumption, WorkersAssumption DEF Gens
  <2>2. LinkInit => conn \in [Workers -> [Gens -> States]]
    BY DEF LinkInit, States
  <2>3. LinkInit => LinkTypeOK
    <3>1. LinkInit => asked \in [Workers -> [Gens -> Pending]]
      BY DEF LinkInit, Pending
    <3>2. LinkInit => gen \in Gens /\ idx \in 0 .. NumWorkers /\ breaks \in Gens
      BY <2>1 DEF LinkInit
    <3>. QED  BY Zenon, <2>2, <3>1, <3>2 DEF LinkInit, LinkTypeOK, States, Pending
  <2>. QED  BY <2>3 DEF LinkInit, TypeInv, SignalsAreBreaks
<1>2. TypeInv /\ [LinkNext]_links => TypeInv'
  <2>. SUFFICES ASSUME TypeInv, [LinkNext]_links PROVE TypeInv'
    OBVIOUS
  <2>1. CASE UNCHANGED links
    BY <2>1 DEF TypeInv, LinkTypeOK, SignalsAreBreaks
  <2>2. ASSUME NEW w \in Workers, NEW k \in Kinds, command(w, k) PROVE TypeInv'
    <3>. 0 \in Gens
      BY BreaksAssumption DEF Gens
    <3>. QED  BY <2>2, TypeWorker
  <2>. QED  BY <2>1, <2>2, TypeWorker, TypeMain DEF LinkNext
<1>. QED  BY <1>1, <1>2, PTL DEF LinkSpec

\* The state of the links, the signals and the main thread is well typed: no more
\* generations of links are opened than links have broken.
THEOREM LinkTypeCorrect == LinkSpec => []LinkTypeOK
BY TypeStays, PTL DEF TypeInv

-----------------------------------------------------------------------------
(* The generations.  All workers have the links of the earlier generations, and *)
(* of the latest one those workers that the main thread has passed.             *)

Made(w, g) == conn[w][g] \notin {"none", "raw"}

LinksOf(w) ==
  /\ \A g \in Gens : g < gen => Made(w, g)
  /\ \A g \in Gens : g > gen => conn[w][g] = "none"
  /\ (main_pc = "open" => w < idx) => Made(w, gen)
  /\ main_pc = "open" /\ w > idx => conn[w][gen] = "none"
  /\ main_pc = "open" /\ w = idx => conn[w][gen] \in {"none", "raw"}

Generations == ~Over => (main_pc = "open" => gen > 0) /\ \A w \in Workers : LinksOf(w)

LinkInv == Generations /\ BreakIsKnown

\* _redis is the link of the latest generation, or of the one before it while the
\* main thread has not come to the worker.
LEMMA Current ==
  ASSUME LinkTypeOK, Generations, ~Over, NEW w \in Workers
  PROVE  /\ current(w) \in Gens
         /\ current(w) = gen => conn[w][gen] # "none"
         /\ current(w) # gen => main_pc = "open" /\ idx <= w /\ current(w) = gen - 1 /\ conn[w][gen] = "none"
<1>1. gen \in Gens /\ w \in Int /\ idx \in Int
  BY WorkersAssumption DEF LinkTypeOK, Workers
<1>2. CASE conn[w][gen] # "none"
  BY <1>1, <1>2 DEF current
<1>3. CASE conn[w][gen] = "none"
  <2>1. main_pc = "open" /\ ~(w < idx) /\ gen > 0
    BY <1>3 DEF Generations, LinksOf, Made
  <2>. QED  BY <1>1, <1>3, <2>1, BreaksAssumption DEF current, Gens
<1>. QED  BY <1>2, <1>3

\* A link that was made and stays made, the main thread being where it was.
LEMMA LinkMoves ==
  ASSUME LinkTypeOK, LinkInv, ~Over, NEW w \in Workers, NEW g \in Gens,
         NEW s \in {"up", "gone"}, Made(w, g),
         conn' = [conn EXCEPT ![w][g] = s],
         UNCHANGED <<gen, main_pc, idx, ignored>>,
         usr1 => usr1', term => term',
         s = "gone" => usr1' \/ term'
  PROVE  LinkInv'
<1>1. /\ conn'[w][g] = s
      /\ \A v \in Workers, h \in Gens : v # w \/ h # g => conn'[v][h] = conn[v][h]
  BY DEF LinkTypeOK
<1>2. gen \in Gens /\ ~Over'
  BY DEF LinkTypeOK, Over
<1>3. Generations'
  <2>. SUFFICES ASSUME NEW v \in Workers PROVE LinksOf(v)'
    BY <1>2 DEF LinkInv, Generations
  <2>1. LinksOf(v)
    BY DEF LinkInv, Generations
  <2>2. \A h \in Gens : Made(v, h) => Made(v, h)'
    BY <1>1 DEF Made
  <2>3. \A h \in Gens : ~Made(v, h) => conn'[v][h] = conn[v][h]
    BY <1>1
  <2>. QED  BY <1>2, <2>1, <2>2, <2>3 DEF LinksOf, Made
<1>4. BreakIsKnown'
  <2>. SUFFICES ASSUME NEW v \in Workers, Gone(v)'
                PROVE  usr1' \/ term' \/ v \in ignored \/ (main_pc = "open" /\ idx <= v)
    BY DEF BreakIsKnown
  <2>1. CASE s = "gone"
    BY <2>1
  <2>2. CASE s = "up"
    <3>1. current(v)' = current(v) /\ current(v) \in Gens
      BY <1>1, <1>2, Current DEF current, LinkInv, Made
    <3>2. Gone(v)
      BY <1>1, <2>2, <3>1 DEF Gone
    <3>. QED  BY <3>2 DEF LinkInv, BreakIsKnown
  <2>. QED  BY <2>1, <2>2
<1>. QED  BY <1>3, <1>4 DEF LinkInv

\* Nothing is promised of a process that has stopped or died.
LEMMA LinkOver ==
  ASSUME Over'
  PROVE  LinkInv'
BY DEF LinkInv, Generations, BreakIsKnown

\* A step that leaves the links and the main thread alone and takes no signal back.
LEMMA LinkSame ==
  ASSUME LinkInv, UNCHANGED <<conn, gen, main_pc, idx, ignored>>, usr1 => usr1', term => term'
  PROVE  LinkInv'
<1>1. Over' <=> Over
  BY DEF Over
<1>2. Generations'
  BY <1>1 DEF LinkInv, Generations, LinksOf, Made
<1>3. \A w \in Workers : Gone(w)' <=> Gone(w)
  BY DEF Gone, current
<1>4. BreakIsKnown'
  BY <1>1, <1>3 DEF LinkInv, BreakIsKnown
<1>. QED  BY <1>2, <1>4 DEF LinkInv

\* The worker's side: whoever loses a link raises a signal.
LEMMA LinkWorker ==
  ASSUME LinkTypeOK, LinkInv, NEW w \in Workers, NEW g \in Gens,
         reply(w, g) \/ redis_connect_callback(w, g) \/ redis_disconnect_callback(w, g)
  PROVE  LinkInv'
<1>1. CASE reply(w, g)
  BY <1>1, LinkSame DEF reply
<1>2. ~Over
  BY DEF reply, redis_connect_callback, redis_disconnect_callback
<1>3. CASE connected(w, g)
  BY Zenon, <1>2, <1>3, LinkMoves DEF connected, Made
<1>4. ASSUME free_context(w, g), Made(w, g), usr1' \/ term', usr1 => usr1', term => term'
      PROVE  LinkInv'
  <2>1. CASE main_pc' = "dead"
    BY <2>1, LinkOver DEF Over
  <2>2. CASE UNCHANGED main_pc
    <3>1. conn' = [conn EXCEPT ![w][g] = "gone"] /\ UNCHANGED <<gen, idx, ignored>>
      BY Zenon, <1>4 DEF free_context
    <3>. QED  BY Zenon, <1>2, <1>4, <2>2, <3>1, LinkMoves
  <2>. QED  BY <1>4, <2>1, <2>2 DEF free_context
<1>5. CASE connect_fails(w, g)
  BY <1>4, <1>5 DEF connect_fails, Made
<1>6. CASE redis_disconnect_callback(w, g)
  BY <1>4, <1>6 DEF redis_disconnect_callback, send_signal, Made
<1>. QED  BY <1>1, <1>3, <1>5, <1>6 DEF redis_connect_callback

\* reconnect_redis: the links in use stay the ones in use, and a signal that comes too
\* early is put down for every worker it would have helped.
LEMMA LinkReconnect ==
  ASSUME TypeInv, LinkInv, reconnect_redis
  PROVE  LinkInv'
<1>1. main_pc = "idle" /\ usr1 /\ UNCHANGED <<conn, asked, term, breaks>> /\ ~Over
  BY DEF reconnect_redis, Over
<1>2. CASE /\ ignored' = ignored \cup {w \in Workers : Gone(w)}
           /\ UNCHANGED <<gen, recent, main_pc, idx>>
  <2>1. Generations'
    BY <1>1, <1>2 DEF LinkInv, Generations, LinksOf, Made, Over
  <2>2. BreakIsKnown'
    BY <1>1, <1>2 DEF BreakIsKnown, Gone, current
  <2>. QED  BY <2>1, <2>2 DEF LinkInv
<1>3. CASE gen' = gen + 1 /\ main_pc' = "open" /\ idx' = 0 /\ UNCHANGED ignored
  <2>1. gen \in Nat /\ gen + 1 \in Gens /\ Workers \subseteq Nat
    BY <1>1, BreaksAssumption DEF TypeInv, LinkTypeOK, SignalsAreBreaks, Gens, Workers
  <2>2. ASSUME NEW w \in Workers PROVE LinksOf(w)'
    <3>1. /\ \A g \in Gens : g < gen => Made(w, g)
          /\ \A g \in Gens : g > gen => conn[w][g] = "none"
          /\ Made(w, gen)
      BY <1>1 DEF LinkInv, Generations, LinksOf
    <3>2. \A g \in Gens : g < gen + 1 => Made(w, g)
      BY <2>1, <3>1, BreaksAssumption DEF Gens
    <3>3. \A g \in Gens : g > gen + 1 => conn[w][g] = "none"
      BY <2>1, <3>1, BreaksAssumption DEF Gens
    <3>4. conn[w][gen + 1] = "none" /\ ~(w < 0)
      BY <2>1, <3>1
    <3>. QED  BY <1>1, <1>3, <3>2, <3>3, <3>4 DEF LinksOf, Made
  <2>3. Generations'
    BY <1>3, <2>1, <2>2 DEF Generations
  <2>4. BreakIsKnown'
    BY <1>3, <2>1 DEF BreakIsKnown
  <2>. QED  BY <2>3, <2>4 DEF LinkInv
<1>. QED  BY <1>2, <1>3 DEF reconnect_redis

\* The main thread opens a link: the worker it is for has a new link, or the process
\* is told to stop.
LEMMA LinkOpen ==
  ASSUME LinkTypeOK, LinkInv, NEW s \in {"raw", "connecting", "gone"},
         main_pc = "open", idx < NumWorkers, conn' = [conn EXCEPT ![idx][gen] = s],
         UNCHANGED <<gen, main_pc, usr1, ignored>>,
         idx' = IF s = "raw" THEN idx ELSE idx + 1,
         term => term', s = "gone" => term'
  PROVE  LinkInv'
<1>1. idx \in Workers /\ gen \in Gens /\ idx \in Int /\ \A w \in Workers : w \in Int
  BY WorkersAssumption DEF LinkTypeOK, Workers
<1>2. /\ conn'[idx][gen] = s
      /\ \A v \in Workers, h \in Gens : v # idx \/ h # gen => conn'[v][h] = conn[v][h]
  BY <1>1 DEF LinkTypeOK
<1>3. ~Over /\ ~Over' /\ gen > 0
  BY DEF Over, LinkInv, Generations
<1>4. ASSUME NEW w \in Workers PROVE LinksOf(w)'
  <2>1. LinksOf(w)
    BY <1>3 DEF LinkInv, Generations
  <2>2. \A g \in Gens : g # gen => conn'[w][g] = conn[w][g]
    BY <1>2
  <2>3. /\ \A g \in Gens : g < gen => Made(w, g)'
        /\ \A g \in Gens : g > gen => conn'[w][g] = "none"
    BY <1>1, <2>1, <2>2, BreaksAssumption DEF LinksOf, Made, Gens
  <2>4. w # idx => conn'[w][gen] = conn[w][gen]
    BY <1>1, <1>2
  <2>5. /\ w < idx' => Made(w, gen)'
        /\ w > idx' => conn'[w][gen] = "none"
        /\ w = idx' => conn'[w][gen] \in {"none", "raw"}
    BY <1>1, <1>2, <2>1, <2>4 DEF LinksOf, Made
  <2>. QED  BY <2>3, <2>5 DEF LinksOf, Made
<1>5. Generations'
  BY <1>3, <1>4 DEF Generations
<1>6. BreakIsKnown'
  <2>. SUFFICES ASSUME NEW v \in Workers, Gone(v)'
                PROVE  usr1 \/ term' \/ v \in ignored \/ idx' <= v
    BY DEF BreakIsKnown
  <2>1. CASE v = idx
    BY <1>1, <1>2, <2>1 DEF Gone, current
  <2>2. CASE v # idx
    <3>1. current(v)' = current(v) /\ current(v) \in Gens
      BY <1>1, <1>2, <1>3, <2>2, Current DEF current, LinkInv
    <3>2. Gone(v)
      BY <1>2, <2>2, <3>1 DEF Gone
    <3>3. usr1 \/ term \/ v \in ignored \/ idx <= v
      BY <1>3, <3>2 DEF LinkInv, BreakIsKnown
    <3>. QED  BY <1>1, <2>2, <3>3
  <2>. QED  BY <2>1, <2>2
<1>. QED  BY <1>5, <1>6 DEF LinkInv

\* The main thread's steps, one by one.
LEMMA LinkMain ==
  ASSUME TypeInv, LinkInv, Main
  PROVE  LinkInv'
<1>1. CASE reconnect_redis
  BY <1>1, LinkReconnect
<1>2. CASE redisAsyncConnect
  <2>1. LinkTypeOK /\ main_pc = "open" /\ idx < NumWorkers /\ UNCHANGED <<gen, main_pc, usr1, ignored>>
    BY <1>2 DEF redisAsyncConnect, last_worker, TypeInv
  <2>2. CASE conn' = [conn EXCEPT ![idx][gen] = "raw"] /\ UNCHANGED <<term, idx>>
    BY <2>1, <2>2, LinkOpen
  <2>3. CASE conn' = [conn EXCEPT ![idx][gen] = "gone"] /\ term' = TRUE /\ idx' = idx + 1
    BY <2>1, <2>3, LinkOpen
  <2>. QED  BY Zenon, <1>2, <2>2, <2>3 DEF redisAsyncConnect
<1>3. CASE asy_open_redis
  BY <1>3, LinkOpen DEF asy_open_redis, last_worker, attached, TypeInv
<1>4. CASE all_opened
  <2>1. /\ main_pc = "open" /\ idx = NumWorkers /\ main_pc' = "idle"
        /\ UNCHANGED <<conn, gen, usr1, term, ignored>>
    BY <1>4 DEF all_opened, last_worker
  <2>2. \A w \in Workers : w < idx
    BY <2>1, WorkersAssumption DEF Workers
  <2>3. Generations'
    BY <2>1, <2>2 DEF LinkInv, Generations, LinksOf, Made, Over
  <2>4. BreakIsKnown'
    <3>1. ASSUME NEW w \in Workers, Gone(w)' PROVE usr1 \/ term \/ w \in ignored
      <4>1. Gone(w) /\ ~Over
        BY <2>1, <3>1 DEF Gone, current, Over
      <4>2. w \in Int /\ idx \in Int /\ w < idx
        BY <2>1, <2>2, WorkersAssumption DEF Workers
      <4>. QED  BY <4>1, <4>2 DEF LinkInv, BreakIsKnown
    <3>. QED  BY <2>1, <3>1 DEF BreakIsKnown
  <2>. QED  BY <2>3, <2>4 DEF LinkInv
<1>5. CASE signal_cb
  BY <1>5, LinkOver DEF signal_cb, Over
<1>. QED  BY <1>1, <1>2, <1>3, <1>4, <1>5 DEF Main

\* The generations of links, and what is known of a broken one, in every reachable
\* state.
LEMMA LinkStays == LinkSpec => []LinkInv
<1>1. LinkInit => LinkInv
  <2>. SUFFICES ASSUME LinkInit PROVE LinkInv
    OBVIOUS
  <2>1. 0 \in Gens /\ gen = 0 /\ main_pc = "idle"
    BY BreaksAssumption DEF LinkInit, Gens
  <2>2. \A w \in Workers, g \in Gens : conn[w][g] = IF g = 0 THEN "connecting" ELSE "none"
    BY DEF LinkInit
  <2>3. \A w \in Workers : conn[w][0] = "connecting"
    BY <2>1, <2>2
  <2>4. \A g \in Gens : ~(g < 0)
    BY BreaksAssumption DEF Gens
  <2>5. Generations
    BY <2>1, <2>2, <2>3, <2>4 DEF Generations, LinksOf, Made
  <2>6. BreakIsKnown
    BY <2>1, <2>3 DEF BreakIsKnown, Gone, current
  <2>. QED  BY <2>5, <2>6 DEF LinkInv
<1>2. TypeInv /\ LinkInv /\ [LinkNext]_links => LinkInv'
  <2>. SUFFICES ASSUME TypeInv, LinkInv, [LinkNext]_links PROVE LinkInv'
    OBVIOUS
  <2>1. CASE UNCHANGED links
    BY <2>1, LinkSame
  <2>2. CASE Main
    BY <2>2, LinkMain
  <2>3. CASE ten_seconds_pass
    BY <2>3, LinkSame DEF ten_seconds_pass
  <2>4. ASSUME NEW w \in Workers, NEW k \in Kinds, command(w, k) PROVE LinkInv'
    <3>1. UNCHANGED <<conn, gen, usr1, term, idx, ignored>> /\ (main_pc' = "dead" \/ UNCHANGED main_pc)
      BY <2>4 DEF command
    <3>2. CASE main_pc' = "dead"
      BY <3>2, LinkOver DEF Over
    <3>3. CASE UNCHANGED main_pc
      BY <3>1, <3>3, LinkSame
    <3>. QED  BY <3>1, <3>2, <3>3
  <2>5. ASSUME NEW w \in Workers, NEW g \in Gens,
               reply(w, g) \/ redis_connect_callback(w, g) \/ redis_disconnect_callback(w, g)
        PROVE  LinkInv'
    BY Zenon, <2>5, LinkWorker DEF TypeInv
  <2>. QED  BY <2>1, <2>2, <2>3, <2>4, <2>5 DEF LinkNext
<1>. QED  BY <1>1, <1>2, TypeStays, PTL DEF LinkSpec

\* A worker whose link is gone (redis_disconnect_callback, a connect that failed, or
\* asy_open_redis that failed) is never forgotten while the server runs: SIGUSR1 or
\* SIGTERM is pending, the main thread is about to give it a new link, or the signal
\* was one that reconnect_redis ignored within its ten seconds.  For any number of
\* workers and of broken links.
THEOREM NoWorkerIsForgotten == LinkSpec => []BreakIsKnown
<1>1. LinkInv => BreakIsKnown
  BY DEF LinkInv
<1>. QED  BY <1>1, LinkStays, PTL

\* Whenever the main thread is not inside reconnect_redis, the _redis of every worker is
\* of the latest round of asy_open_redis, so all workers ask the Redis that
\* cur_conn_index selects.
THEOREM WorkersShareRedis == LinkSpec => []SameRedis
<1>1. TypeInv /\ LinkInv => SameRedis
  <2>. SUFFICES ASSUME LinkTypeOK, Generations, main_pc = "idle", NEW w \in Workers PROVE current(w) = gen
    BY DEF SameRedis, TypeInv, LinkInv
  <2>1. ~Over
    BY DEF Over
  <2>. QED  BY <2>1, Current
<1>. QED  BY <1>1, TypeStays, LinkStays, PTL
=============================================================================
