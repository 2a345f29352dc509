------------------------------ MODULE Session -------------------------------
(***************************************************************************)
(* One logged-in client over time (bufferevent_read_callback and           *)
(* del_expire_client of src/core/work_thread.cc, the timer of server.cc).  *)
(* The client sends packets, whose bytes arrive in pieces.  The read       *)
(* callback runs when bytes have arrived and takes off what is complete.   *)
(* Every 2*heartbeat_time seconds the main thread tells the worker to look *)
(* for clients whose last heartbeat is more than 2*heartbeat_time old.     *)
(* A tick is a second; times are kept as ages.                             *)
(***************************************************************************)
EXTENDS Framing

CONSTANTS
  Period,     \* heartbeat_time
  Latency,    \* seconds a byte is under way, at most
  Delay,      \* seconds a command waits in the worker's pipe, at most
  Packets,    \* the packets the client may send
  MaxWire,    \* bound: packets sent and not handled
  MaxDropped  \* bound: timeout commands in a row that the full pipe drops

ASSUME TimesAssumption == Period \in Nat \ {0} /\ Latency \in Nat /\ Delay \in Nat
ASSUME DelayAssumption == Delay < 2 * Period
ASSUME PacketsAssumption == Packets \subseteq Packet
ASSUME BoundsAssumption == MaxWire \in Nat /\ MaxDropped \in Nat

None == -1

VARIABLES
  wire,     \* packets sent and not handled, the oldest first
  since,    \* for each of them, the seconds it is under way, 0 once it has arrived
  avail,    \* how many of their bytes are in the input buffer
  ready,    \* bytes have arrived since the read callback last ran
  broke,    \* that run ended at a packet with an unknown property
  in_step,  \* the parser is at the start of a packet
  quiet,    \* seconds since the client sent a heartbeat
  lapse,    \* history: a heartbeat was "late" in being sent, "left" in the buffer
  age,      \* tv_sec - get_heartbeat_time()
  timer,    \* seconds until the timer goes off
  command,  \* seconds the timeout command has been in the pipe, or None
  slack,    \* 2*Period for each command dropped since the last heartbeat
  gone      \* the client was expired

input  == <<wire, since, avail, ready, broke, in_step>>
sweeps == <<timer, command, slack>>
vars   == <<input, quiet, lapse, age, sweeps, gone>>

TypeOK ==
  /\ wire \in Seq(Packets \cup {Heartbeat})
  /\ since \in Seq(0 .. Latency) /\ Len(since) = Len(wire) /\ Len(wire) <= MaxWire
  /\ avail \in Nat /\ avail <= Ends(wire)[Len(wire)]
  /\ ready \in BOOLEAN /\ broke \in BOOLEAN /\ in_step \in BOOLEAN
  /\ quiet \in 0 .. Period
  /\ lapse \subseteq {"late", "left"}
  /\ age \in Nat
  /\ timer \in 0 .. 2 * Period
  /\ command \in 0 .. Delay \cup {None}
  /\ slack \in Nat
  /\ gone \in BOOLEAN

\* set_id_bev takes the time of the login; the timer is anywhere in its period.
Init ==
  /\ wire = << >> /\ since = << >> /\ avail = 0
  /\ ready = FALSE /\ broke = FALSE /\ in_step = TRUE
  /\ quiet = 0 /\ lapse = {}
  /\ age = 0
  /\ timer \in 0 .. 2 * Period /\ command = None /\ slack = 0
  /\ gone = FALSE

-----------------------------------------------------------------------------
(* The client and the network.                                             *)

send(p) ==
  /\ ~gone
  /\ Len(wire) < MaxWire
  /\ wire' = Append(wire, p)
  /\ since' = Append(since, 0)
  /\ quiet' = IF p = Heartbeat THEN 0 ELSE quiet
  /\ UNCHANGED <<avail, ready, broke, in_step, lapse, age, sweeps, gone>>

arrive(i, n) ==
  /\ ~gone
  /\ LET bytes == Ends(wire)[i - 1] + n
     IN bytes > avail /\ avail' = bytes
  /\ since' = [j \in DOMAIN wire |-> IF avail' >= Ends(wire)[j] THEN 0 ELSE since[j]]
  /\ ready' = TRUE
  /\ UNCHANGED <<wire, broke, in_step, quiet, lapse, age, sweeps, gone>>

-----------------------------------------------------------------------------
(* The worker.                                                             *)

\* Mutant: the smallest packet is taken to be of five bytes.
min_data_bag_wrong == 5

min_data_bag == 4

\* The bytes in the buffer when the packets before the i-th have been taken off.
Left(i) == avail - Ends(wire)[i - 1]

\* The parser takes payload of the i-th packet for its length.  What it reads from
\* there on is not followed.
Strays(i) == Left(i) >= min_data_bag /\ Misread(wire[i], Left(i))

\* The turn of the loop that is at the i-th packet takes it off the buffer.
Takes(i) == Left(i) >= min_data_bag /\ analyse_data(wire[i], Left(i)) > 0 /\ ~Strays(i)

Breaks(k) == k > 0 /\ wire[k].kind = "unknown"

\* The loop handles the first k packets: it ends where a packet is not complete, and
\* after one with an unknown property, which is drained and reported as an error.
Handles(k) ==
  /\ \A i \in 1 .. k : Takes(i) /\ (i < k => wire[i].kind # "unknown")
  /\ k < Len(wire) /\ ~Breaks(k) => ~Takes(k + 1)

\* Complete packets that the client sent and the loop did not reach.
Stranded(k) == {i \in k + 1 .. Len(wire) : avail >= Ends(wire)[i]}

\* Mutant: a connection is not read any more once it has sent an unknown property.
readable_until_error == ready /\ ~broke

\* EV_READ is enabled for good.
readable == ready

bufferevent_read_callback ==
  /\ ~gone /\ readable
  /\ ready' = FALSE
  /\ \E k \in 0 .. Len(wire) :
       /\ Handles(k)
       /\ broke' = Breaks(k)
       /\ in_step' = /\ in_step
                     /\ \A i \in 1 .. k : analyse_data(wire[i], Left(i)) = PackSize(wire[i])
                     /\ k < Len(wire) /\ ~Breaks(k) => ~Strays(k + 1)
       /\ avail' = avail - Ends(wire)[k]
       /\ wire' = SubSeq(wire, k + 1, Len(wire))
       /\ since' = SubSeq(since, k + 1, Len(wire))
       /\ \/ /\ \E i \in 1 .. k : wire[i] = Heartbeat
             /\ age' = 0 /\ slack' = 0
          \/ /\ \A i \in 1 .. k : wire[i] # Heartbeat
             /\ UNCHANGED <<age, slack>>
       /\ lapse' = lapse \cup {"left" : i \in {j \in Stranded(k) : wire[j] = Heartbeat}}
  /\ UNCHANGED <<quiet, timer, command, gone>>

\* Mutant: a client is given one heartbeat period.
timeout_short == Period

\* Mutant: a client is given three.
timeout_long == 3 * Period

timeout == 2 * Period

del_expire_client ==
  /\ ~gone /\ command # None
  /\ command' = None
  /\ gone' = (age > timeout)
  /\ UNCHANGED <<input, quiet, lapse, age, timer, slack>>

-----------------------------------------------------------------------------
(* The main thread's timer, and time.                                      *)

\* Mutant: the timer is set to twice the time.
interval_double == 4 * Period

interval == 2 * Period

timer_event ==
  /\ ~gone /\ timer = 0
  /\ timer' = interval
  /\ \/ command' = 0 /\ UNCHANGED slack
     \/ slack < MaxDropped * 2 * Period /\ slack' = slack + 2 * Period /\ UNCHANGED command
  /\ UNCHANGED <<input, quiet, lapse, age, gone>>

\* A second goes by when nothing is due: the bytes that have been under way for long
\* have arrived, and the loops have run.
second ==
  /\ ~gone
  /\ \A i \in DOMAIN wire : avail < Ends(wire)[i] => since[i] < Latency
  /\ ~ready /\ timer > 0 /\ command # Delay
  /\ since' = [i \in DOMAIN wire |-> IF avail >= Ends(wire)[i] THEN 0 ELSE since[i] + 1]
  /\ quiet' = IF quiet = Period THEN Period ELSE quiet + 1
  /\ lapse' = IF quiet = Period THEN lapse \cup {"late"} ELSE lapse
  /\ age' = age + 1
  /\ timer' = timer - 1
  /\ command' = IF command = None THEN None ELSE command + 1
  /\ UNCHANGED <<wire, avail, ready, broke, in_step, slack, gone>>

-----------------------------------------------------------------------------
Next ==
  \/ \E p \in Packets \cup {Heartbeat} : send(p)
  \/ \E i \in DOMAIN wire : \E n \in Cuts(wire[i]) : arrive(i, n)
  \/ bufferevent_read_callback
  \/ del_expire_client
  \/ timer_event
  \/ second

Spec == Init /\ [][Next]_vars

\* Time passes, what has arrived is read, and the commands are carried out.
FairSpec ==
  /\ Spec
  /\ WF_vars(\E i \in DOMAIN wire : \E n \in Cuts(wire[i]) : arrive(i, n))
  /\ WF_vars(bufferevent_read_callback)
  /\ WF_vars(del_expire_client)
  /\ WF_vars(timer_event)
  /\ SF_vars(second)

-----------------------------------------------------------------------------
(* Properties.                                                             *)

\* The parser stays at the packet boundaries of what the client sent, unless a
\* packet with a payload of exactly 0xFF00 bytes has come to the head of the buffer.
InStep == in_step \/ (wire # << >> /\ wire[1].len = Mark)

\* When the read callback has run, a complete packet is left in the buffer only if
\* the run ended at an unknown property, or the packet has an empty payload and is
\* the last to arrive, or the parser is out of step.
NothingStranded ==
  ~ready /\ in_step /\ ~broke =>
    \A i \in DOMAIN wire :
      avail >= Ends(wire)[i] =>
        wire[i] # Heartbeat /\ wire[i].len = 0 /\ avail = Ends(wire)[i]

\* A client that sends its heartbeat every heartbeat_time seconds is not expired, as
\* long as the network takes no more than that and no heartbeat is left in the buffer.
HeartbeatKeeps == gone /\ in_step => lapse # {}

\* A client is not heard of for at most 4*heartbeat_time seconds and the delay of the
\* command, and 2*heartbeat_time more for every command dropped; then it is expired.
SilentExpires == ~gone => age <= 4 * Period + Delay + slack

\* No packet of a client that keeps up its heartbeat is left for good, neither behind
\* an unknown property nor with an empty payload: the bytes of the next heartbeat make
\* the read callback go on.
PacketHandled ==
  \/ []<>(wire = << >> \/ "late" \in lapse \/ gone \/ ~in_step)
  \/ []<><<Len(wire') < Len(wire)>>_vars
=============================================================================
