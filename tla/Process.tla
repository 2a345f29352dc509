------------------------------ MODULE Process -------------------------------
(***************************************************************************)
(* The server processes of one configuration: their start and end, the pid *)
(* file and the port they compete for (src/core/eglcomet.cc, server.cc),   *)
(* and the log file of each, which SIGUSR2 rotates while the worker        *)
(* threads write to it (log.cc).                                           *)
(***************************************************************************)
EXTENDS Integers, FiniteSets, FiniteSetsExt

CONSTANTS
  Procs,         \* the processes, each started at most once
  ShortPids,     \* those whose pid has fewer digits than the others'
  Writers,       \* worker threads
  Fds,           \* descriptors, 0 to 2 left out; the limit of a process
  Nil,           \* no process, no pid file
  Mixed,         \* content of a pid file: one pid written over a longer one
  MaxRotations   \* bound: rotations that can overtake a writer are counted up to here

Empty == 0  \* content of a pid file that was created and not written

ASSUME ProcsAssumption == Nil \notin Procs /\ Mixed \notin Procs /\ ShortPids \subseteq Procs
ASSUME ContentAssumption == Nil # Mixed /\ Empty \notin Procs \cup {Nil, Mixed}
ASSUME FdsAssumption == IsFiniteSet(Fds) /\ Fds \subseteq Nat \ {0} /\ Fds # {}
ASSUME BoundsAssumption == MaxRotations \in Nat \ {0, 1}

VARIABLES
  pc,        \* how far each process is
  port,      \* the process whose socket is bound to the port
  pid_file,  \* the process the file names, Nil when there is no file
  swept,     \* history: crashed processes whose leftovers the operator removed
  fds,       \* what each descriptor of a process is open on
  log_fd,    \* _log_fd
  old_fd,    \* _old_fd, 0 when there is none
  line,      \* the descriptor a thread is about to write its line to, or 0
  passed     \* rotations since the thread read _log_fd

files == <<port, pid_file, swept>>
logs  == <<fds, log_fd, old_fd, line, passed>>
vars  == <<pc, files, logs>>

NotRunning == {"new", "exited", "crashed"}
Running(p) == pc[p] \notin NotRunning

TypeOK ==
  /\ pc \in [Procs -> NotRunning \cup
               {"init", "checked", "listening", "working", "created", "serving", "closed", "removed"}]
  /\ port \in Procs \cup {Nil}
  /\ pid_file \in Procs \cup {Nil, Mixed, Empty}
  /\ swept \subseteq Procs
  /\ fds \in [Procs -> [Fds -> {"free", "log", "client"}]]
  /\ log_fd \in [Procs -> Fds \cup {0}]
  /\ old_fd \in [Procs -> Fds \cup {0}]
  /\ line \in [Procs -> [Writers -> Fds \cup {0}]]
  /\ passed \in [Procs -> [Writers -> 0 .. MaxRotations]]

Init ==
  /\ pc = [p \in Procs |-> "new"]
  /\ port = Nil /\ pid_file = Nil /\ swept = {}
  /\ fds = [p \in Procs |-> [f \in Fds |-> "free"]]
  /\ log_fd = [p \in Procs |-> 0]
  /\ old_fd = [p \in Procs |-> 0]
  /\ line = [p \in Procs |-> [w \in Writers |-> 0]]
  /\ passed = [p \in Procs |-> [w \in Writers |-> 0]]

-----------------------------------------------------------------------------
(* The log.                                                                *)

Free(p) == {f \in Fds : fds[p][f] = "free"}

\* open, accept: the lowest descriptor that is free, or -1.
NewFd(p) == IF Free(p) = {} THEN -1 ELSE Min(Free(p))

\* Mutant: the result of open is not tested.
opened_untested(p) == TRUE

opened(p) == NewFd(p) # -1

\* Mutant: the file in use until now is closed at once.
retire_at_once(p) == [close |-> log_fd[p], keep |-> 0]

\* Mutant: the old file is left open.
retire_none(p) == [close |-> 0, keep |-> log_fd[p]]

\* The descriptor to close, 0 for none, and the one that is _old_fd from now on.
retire(p) == [close |-> old_fd[p], keep |-> log_fd[p]]

open_log(p) ==
  /\ opened(p)
  /\ fds' = [fds EXCEPT ![p] = [f \in Fds |-> CASE f = NewFd(p) -> "log"
                                              [] f = retire(p).close -> "free"
                                              [] OTHER -> @[f]]]
  /\ old_fd' = [old_fd EXCEPT ![p] = retire(p).keep]
  /\ log_fd' = [log_fd EXCEPT ![p] = NewFd(p)]

\* rotate_log: a file that cannot be opened leaves everything as it is.
rotate_log(p) ==
  /\ pc[p] = "serving"
  /\ open_log(p)
  /\ passed' = [passed EXCEPT ![p] =
                  [w \in Writers |-> IF line[p][w] = 0 \/ @[w] = MaxRotations THEN @[w] ELSE @[w] + 1]]
  /\ UNCHANGED <<pc, files, line>>

\* write_log in a worker: _log_fd is read and, a moment later, written to.
read_log_fd(p, w) ==
  /\ pc[p] = "serving"
  /\ line[p][w] = 0
  /\ line' = [line EXCEPT ![p][w] = log_fd[p]]
  /\ UNCHANGED <<pc, files, fds, log_fd, old_fd, passed>>

write_log(p, w) ==
  /\ Running(p)
  /\ line[p][w] # 0
  /\ line' = [line EXCEPT ![p][w] = 0]
  /\ passed' = [passed EXCEPT ![p][w] = 0]
  /\ UNCHANGED <<pc, files, fds, log_fd, old_fd>>

accept_client(p) ==
  /\ pc[p] = "serving"
  /\ NewFd(p) # -1
  /\ fds' = [fds EXCEPT ![p][NewFd(p)] = "client"]
  /\ UNCHANGED <<pc, files, log_fd, old_fd, line, passed>>

close_client(p, f) ==
  /\ pc[p] = "serving"
  /\ fds[p][f] = "client"
  /\ fds' = [fds EXCEPT ![p][f] = "free"]
  /\ UNCHANGED <<pc, files, log_fd, old_fd, line, passed>>

-----------------------------------------------------------------------------
(* The life of a process.                                                  *)

Go(p, next) == pc' = [pc EXCEPT ![p] = next]

\* The kernel closes what the process had open, the socket on the port included.
exit_to(p, next) ==
  /\ Go(p, next)
  /\ port' = IF port = p THEN Nil ELSE port
  /\ fds' = [fds EXCEPT ![p] = [f \in Fds |-> "free"]]
  /\ log_fd' = [log_fd EXCEPT ![p] = 0]
  /\ old_fd' = [old_fd EXCEPT ![p] = 0]
  /\ line' = [line EXCEPT ![p] = [w \in Writers |-> 0]]
  /\ passed' = [passed EXCEPT ![p] = [w \in Writers |-> 0]]

\* main and init_server, up to the look at the pid file, or to the step that fails.
start(p) ==
  /\ pc[p] = "new"
  /\ \/ Go(p, "init") /\ open_log(p)
     \/ Go(p, "exited") /\ UNCHANGED <<fds, log_fd, old_fd>>
  /\ UNCHANGED <<files, line, passed>>

pid_file_absent == pid_file = Nil

\* The end of init_server: access(pid_file_path).
check_pid_file(p) ==
  /\ pc[p] = "init"
  /\ \/ pid_file_absent /\ Go(p, "checked") /\ UNCHANGED <<port, logs>>
     \/ ~pid_file_absent /\ exit_to(p, "exited")
  /\ UNCHANGED <<pid_file, swept>>

\* Mutant: a bind that fails goes unnoticed.
bind_ok_assumed == TRUE

bind_ok == port = Nil

start_listen(p) ==
  /\ pc[p] = "checked"
  /\ \/ bind_ok /\ port' = p /\ Go(p, "listening") /\ UNCHANGED logs
     \/ ~bind_ok /\ exit_to(p, "exited")
  /\ UNCHANGED <<pid_file, swept>>

\* start_work_thread; main returns when it fails.
start_work_thread(p) ==
  /\ pc[p] = "listening"
  /\ \/ Go(p, "working") /\ UNCHANGED <<port, logs>>
     \/ exit_to(p, "exited")
  /\ UNCHANGED <<pid_file, swept>>

\* open with O_CREAT, without O_EXCL and without O_TRUNC.
create_pid_file(p) ==
  /\ pc[p] = "working"
  /\ \/ /\ Go(p, "created")
        /\ pid_file' = IF pid_file = Nil THEN Empty ELSE pid_file
        /\ UNCHANGED <<port, logs>>
     \/ exit_to(p, "exited") /\ UNCHANGED pid_file
  /\ UNCHANGED swept

\* What the file holds after the pid of p is written at its start.
Overwritten(p) ==
  IF p \in ShortPids /\ pid_file \in {Mixed} \cup (Procs \ ShortPids) THEN Mixed ELSE p

write_pid(p) ==
  /\ pc[p] = "created"
  /\ Go(p, "serving")
  /\ pid_file' = Overwritten(p)
  /\ UNCHANGED <<port, swept, logs>>

\* SIGINT or SIGTERM: close_server, and the loop ends.
close_server(p) ==
  /\ pc[p] = "serving"
  /\ Go(p, "closed")
  /\ line' = [line EXCEPT ![p] = [w \in Writers |-> 0]]
  /\ passed' = [passed EXCEPT ![p] = [w \in Writers |-> 0]]
  /\ UNCHANGED <<files, fds, log_fd, old_fd>>

\* Mutant: the file stays.
without_pid_file_not == pid_file

\* remove(pid_file_path)
without_pid_file == Nil

remove_pid_file(p) ==
  /\ pc[p] = "closed"
  /\ Go(p, "removed")
  /\ pid_file' = without_pid_file
  /\ UNCHANGED <<port, swept, logs>>

return_from_main(p) ==
  /\ pc[p] = "removed"
  /\ exit_to(p, "exited")
  /\ UNCHANGED <<pid_file, swept>>

\* The process is killed, or dies of a fault, wherever it is.
crash(p) ==
  /\ Running(p)
  /\ exit_to(p, "crashed")
  /\ UNCHANGED <<pid_file, swept>>

\* The operator deletes the pid file that a crash left, while no process runs.
remove_stale ==
  /\ pid_file # Nil
  /\ \A p \in Procs : ~Running(p)
  /\ pid_file' = Nil
  /\ swept' = {p \in Procs : pc[p] = "crashed"}
  /\ UNCHANGED <<pc, port, logs>>

-----------------------------------------------------------------------------
Next ==
  \/ \E p \in Procs :
       \/ start(p) \/ check_pid_file(p) \/ start_listen(p) \/ start_work_thread(p)
       \/ create_pid_file(p) \/ write_pid(p) \/ close_server(p) \/ remove_pid_file(p)
       \/ return_from_main(p) \/ crash(p)
       \/ rotate_log(p) \/ accept_client(p)
       \/ \E f \in Fds : close_client(p, f)
       \/ \E w \in Writers : read_log_fd(p, w) \/ write_log(p, w)
  \/ remove_stale

Spec == Init /\ [][Next]_vars

-----------------------------------------------------------------------------
(* Properties.                                                             *)

Crashed == {p \in Procs : pc[p] = "crashed"} \ swept

\* The pid file of a serving process holds its pid, although it is created without
\* O_EXCL and long after it was looked for; with O_TRUNC missing, the rest of a longer
\* pid stays behind it if a process crashed after the look.
PidFileNamesServer ==
  \A p \in Procs : pc[p] = "serving" => pid_file = p \/ (pid_file = Mixed /\ Crashed # {})

\* A pid file that no process answers for, and that keeps the server from starting, is
\* left by a crash, never by a process that was stopped or that failed to start.
StaleMeansCrash == pid_file # Nil /\ (\A p \in Procs : ~Running(p)) => Crashed # {}

\* The descriptors open on log files are _log_fd and _old_fd: rotation leaks none, and
\* what it closes is never the connection of a client.
LogDescriptors ==
  \A p \in Procs : {f \in Fds : fds[p][f] = "log"} = {log_fd[p], old_fd[p]} \ {0}

\* A thread that has read _log_fd writes its line to a log file, unless it is overtaken
\* by two rotations; then the descriptor may be closed, or be a client's.
LineReachesLog ==
  \A p \in Procs, w \in Writers :
    line[p][w] # 0 /\ passed[p][w] < 2 => fds[p][line[p][w]] = "log"
=============================================================================
