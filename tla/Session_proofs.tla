--------------------------- MODULE Session_proofs ---------------------------
(* Proofs about Session for any heartbeat period, any delays and any        *)
(* packets: how long a silent client stays, that the parser keeps to the    *)
(* packet boundaries and leaves nothing behind, and that a client that      *)
(* keeps up its heartbeat is not expired.                                   *)
EXTENDS Session, WellFoundedInduction, TLAPS

ClockTypes ==
  /\ age \in Nat /\ slack \in Nat
  /\ timer \in 0 .. 2 * Period
  /\ command \in 0 .. Delay \cup {None}

\* While no timeout command is under way, the next one comes before the client has
\* been silent for long.  While one is, the client has been silent for no longer than
\* the command allows, and the timer cannot go off again before it is carried out.
Clock ==
  ~gone =>
    \/ command = None /\ age + timer <= 4 * Period + slack
    \/ command # None /\ age <= 4 * Period + slack + command /\ timer + command = 2 * Period

ClockInv == ClockTypes /\ Clock

\* The client sends, or bytes arrive.
LEMMA ClockInput ==
  ASSUME ClockInv, UNCHANGED <<age, timer, command, slack, gone>>
  PROVE  ClockInv'
BY Zenon DEF ClockInv, ClockTypes, Clock

\* A heartbeat that is read starts the count again.
LEMMA ClockRead ==
  ASSUME ClockInv, bufferevent_read_callback
  PROVE  ClockInv'
<1>1. UNCHANGED <<timer, command, gone>>
  BY Zenon DEF bufferevent_read_callback
<1>2. (age' = 0 /\ slack' = 0) \/ UNCHANGED <<age, slack>>
  BY Zenon DEF bufferevent_read_callback
<1>3. CASE age' = 0 /\ slack' = 0
  BY <1>1, <1>3, TimesAssumption DEF ClockInv, ClockTypes, Clock, None
<1>4. CASE UNCHANGED <<age, slack>>
  BY <1>1, <1>4, ClockInput, Zenon
<1>. QED  BY <1>2, <1>3, <1>4, Zenon

\* The command is carried out: a client that stays was heard of within two periods.
LEMMA ClockSweep ==
  ASSUME ClockInv, del_expire_client
  PROVE  ClockInv'
<1>1. command' = None /\ UNCHANGED <<age, timer, slack>> /\ (gone' <=> age > timeout)
  BY Zenon DEF del_expire_client
<1>2. age > timeout \/ age + timer <= 4 * Period + slack
  BY TimesAssumption DEF timeout, ClockInv, ClockTypes
<1>3. ClockTypes'
  BY <1>1, Zenon DEF ClockInv, ClockTypes
<1>4. Clock'
  BY <1>1, <1>2, Zenon DEF Clock
<1>. QED  BY <1>3, <1>4, Zenon DEF ClockInv

\* The timer goes off when no command is in the pipe, for want of time.
LEMMA ClockTimer ==
  ASSUME ClockInv, timer_event
  PROVE  ClockInv'
<1>1. command = None
  BY TimesAssumption, DelayAssumption DEF timer_event, ClockInv, ClockTypes, Clock
<1>2. age <= 4 * Period + slack
  BY <1>1, TimesAssumption DEF timer_event, ClockInv, ClockTypes, Clock
<1>3. CASE command' = 0 /\ UNCHANGED slack
  BY <1>2, <1>3, TimesAssumption DEF timer_event, interval, ClockInv, ClockTypes, Clock, None
<1>4. CASE slack' = slack + 2 * Period /\ UNCHANGED command
  BY <1>1, <1>2, <1>4, TimesAssumption DEF timer_event, interval, ClockInv, ClockTypes, Clock, None
<1>. QED  BY <1>3, <1>4, Zenon DEF timer_event

\* A second goes by.
LEMMA ClockSecond ==
  ASSUME ClockInv, second
  PROVE  ClockInv'
<1>1. /\ ~gone /\ timer > 0 /\ command # Delay /\ age' = age + 1 /\ timer' = timer - 1
      /\ command' = IF command = None THEN None ELSE command + 1
      /\ UNCHANGED <<slack, gone>>
  BY Zenon DEF second
<1>2. ClockTypes'
  BY <1>1, TimesAssumption DEF ClockInv, ClockTypes, None
<1>3. Clock'
  BY <1>1, TimesAssumption DEF ClockInv, ClockTypes, Clock, None
<1>. QED  BY <1>2, <1>3, Zenon DEF ClockInv

\* For any heartbeat_time, any latency, and any delay of less than the timer's interval:
\* however the timer, the pipe and the read callback interleave, a client that
\* is not heard of is expired within four periods and that delay, counted on for
\* two periods with each command a full pipe drops.
THEOREM SilentClientsExpire == Spec => []SilentExpires
<1>1. Init => ClockInv
  BY TimesAssumption DEF Init, ClockInv, ClockTypes, Clock, None
<1>2. ClockInv /\ [Next]_vars => ClockInv'
  <2> SUFFICES ASSUME ClockInv, [Next]_vars PROVE ClockInv'
    BY Zenon
  <2>1. ASSUME NEW p, send(p) PROVE ClockInv'
    BY <2>1, ClockInput, Zenon DEF send, sweeps
  <2>2. ASSUME NEW i, NEW n, arrive(i, n) PROVE ClockInv'
    BY <2>2, ClockInput, Zenon DEF arrive, sweeps
  <2>3. CASE UNCHANGED vars
    BY <2>3, ClockInput, Zenon DEF vars, sweeps
  <2>. QED
    BY Zenon, <2>1, <2>2, <2>3, ClockRead, ClockSweep, ClockTimer, ClockSecond DEF Next
<1>3. ClockInv => SilentExpires
  BY TimesAssumption DEF ClockInv, ClockTypes, Clock, None, SilentExpires
<1>. QED  BY <1>1, <1>2, <1>3, PTL DEF Spec

-----------------------------------------------------------------------------
(* Where the packets of a stream end.                                      *)

\* Induction up to n, for a set of numbers.
LEMMA UpTo ==
  ASSUME NEW S, NEW n \in Nat, 0 \in S, \A i \in 0 .. n : i + 1 <= n /\ i \in S => i + 1 \in S
  PROVE  \A i \in 0 .. n : i \in S
<1>. DEFINE T == {i \in 0 .. n : i \notin S}
<1>. SUFFICES ASSUME T # {} PROVE FALSE
  BY Zenon
<1>1. T \in SUBSET Nat
  OBVIOUS
<1>2. PICK x \in T : \A y \in T : <<y, x>> \notin OpToRel(<, Nat)
  <2>. HIDE DEF T
  <2>. QED  BY Zenon, <1>1, NatLessThanWellFounded, WFMin
<1>3. \A y \in T : ~(y < x)
  <2>. HIDE DEF T
  <2>. QED  BY Zenon, <1>1, <1>2 DEF OpToRel
<1>4. x \in 0 .. n /\ x # 0 /\ x \notin S
  BY <1>2, Zenon
<1>5. x - 1 \in 0 .. n /\ x - 1 < x /\ (x - 1) + 1 = x
  BY <1>4
<1>6. x - 1 \in S
  BY <1>3, <1>5, Zenon
<1>. QED  BY <1>4, <1>5, <1>6

\* pack_data writes at least four bytes, and for all but a heartbeat the head, the
\* mark and the payload.
LEMMA SizeOfPacket ==
  ASSUME NEW p \in Packet
  PROVE  /\ PackSize(p) \in Nat /\ PackSize(p) >= 4
         /\ p # Heartbeat => PackSize(p) >= HeadLen + 5 + p.len
BY DEF PackSize, Packet, pack_data_head, HeadLen, Mark

\* The definition of Ends is one of a function: there is one that satisfies it.
LEMMA EndsExists ==
  ASSUME NEW ps \in Seq(Packet)
  PROVE  \E f : f = [i \in 0 .. Len(ps) |-> IF i = 0 THEN 0 ELSE f[i - 1] + PackSize(ps[i])]
<1>. DEFINE Up(n, f) == f = [i \in 0 .. n |-> IF i = 0 THEN 0 ELSE f[i - 1] + PackSize(ps[i])]
            S == {n \in Nat : \E f : Up(n, f)}
<1>1. 0 \in S
  <2>1. Up(0, [i \in 0 .. 0 |-> 0])
    OBVIOUS
  <2>. QED  BY <2>1, Zenon
<1>2. ASSUME NEW i \in Nat, i \in S PROVE i + 1 \in S
  <2>1. PICK f : Up(i, f)
    BY <1>2, Zenon
  <2>. DEFINE g == [j \in 0 .. i + 1 |-> IF j = i + 1 THEN f[i] + PackSize(ps[i + 1]) ELSE f[j]]
  <2>2. ASSUME NEW j \in 0 .. i + 1
        PROVE  g[j] = IF j = 0 THEN 0 ELSE g[j - 1] + PackSize(ps[j])
    <3>1. CASE j = i + 1
      BY <3>1
    <3>2. CASE j # i + 1
      <4>1. j \in 0 .. i /\ g[j] = f[j]
        BY <3>2
      <4>2. j # 0 => g[j - 1] = f[j - 1]
        BY <4>1
      <4>3. f[j] = IF j = 0 THEN 0 ELSE f[j - 1] + PackSize(ps[j])
        BY <2>1, <4>1, Zenon
      <4>. QED  BY <4>1, <4>2, <4>3, Zenon
    <3>. QED  BY <3>1, <3>2, Zenon
  <2>3. Up(i + 1, g)
    <3>. HIDE DEF g
    <3>1. g = [j \in 0 .. i + 1 |-> g[j]]
      BY Zenon DEF g
    <3>. QED  BY <2>2, <3>1, Zenon
  <2>4. i + 1 \in Nat
    OBVIOUS
  <2>5. \E h : Up(i + 1, h)
    <3>. HIDE DEF g, Up
    <3>. QED  BY Zenon, <2>3
  <2>. QED  BY Zenon, <2>4, <2>5
<1>3. Len(ps) \in S
  <2>. HIDE DEF S
  <2>1. Len(ps) \in Nat /\ Len(ps) \in 0 .. Len(ps)
    OBVIOUS
  <2>2. \A i \in 0 .. Len(ps) : i + 1 <= Len(ps) /\ i \in S => i + 1 \in S
    BY <1>2
  <2>. QED  BY <1>1, <2>1, <2>2, UpTo, Zenon
<1>. QED  BY <1>3, Zenon

\* A packet ends where the one before it ends, and its own bytes after that.
LEMMA EndsDef ==
  ASSUME NEW ps \in Seq(Packet)
  PROVE  /\ Ends(ps)[0] = 0
         /\ \A i \in 1 .. Len(ps) : Ends(ps)[i] = Ends(ps)[i - 1] + PackSize(ps[i])
<1>. DEFINE f == Ends(ps)
<1>1. f = [i \in 0 .. Len(ps) |-> IF i = 0 THEN 0 ELSE f[i - 1] + PackSize(ps[i])]
  BY Zenon, EndsExists DEF Ends
<1>. HIDE DEF f
<1>2. Len(ps) \in Nat
  OBVIOUS
<1>3. f[0] = 0 /\ \A i \in 1 .. Len(ps) : f[i] = f[i - 1] + PackSize(ps[i])
  BY <1>1, <1>2
<1>. QED  BY <1>3, Zenon DEF f

\* Where a packet ends is a number of bytes.
LEMMA EndsNat ==
  ASSUME NEW ps \in Seq(Packet)
  PROVE  \A i \in 0 .. Len(ps) : Ends(ps)[i] \in Nat
<1>. DEFINE S == {i \in 0 .. Len(ps) : Ends(ps)[i] \in Nat}
<1>1. Len(ps) \in Nat /\ 0 \in S
  BY EndsDef
<1>2. ASSUME NEW i \in 0 .. Len(ps), i + 1 <= Len(ps), i \in S PROVE i + 1 \in S
  <2>1. i + 1 \in 1 .. Len(ps) /\ (i + 1) - 1 = i
    BY <1>2
  <2>2. ps[i + 1] \in Packet
    BY <2>1
  <2>3. PackSize(ps[i + 1]) \in Nat
    BY <2>2, SizeOfPacket, Zenon
  <2>. QED  BY <1>2, <2>1, <2>3, EndsDef
<1>3. \A i \in 0 .. Len(ps) : i \in S
  <2>. HIDE DEF S
  <2>. QED  BY <1>1, <1>2, UpTo, Zenon
<1>. QED  BY <1>3, Zenon

\* One packet further on.
LEMMA EndsNext ==
  ASSUME NEW ps \in Seq(Packet), NEW i \in 1 .. Len(ps)
  PROVE  /\ ps[i] \in Packet /\ PackSize(ps[i]) \in Nat /\ PackSize(ps[i]) >= 4
         /\ Ends(ps)[i] \in Nat /\ Ends(ps)[i - 1] \in Nat
         /\ Ends(ps)[i] = Ends(ps)[i - 1] + PackSize(ps[i])
<1>1. i \in 0 .. Len(ps) /\ i - 1 \in 0 .. Len(ps)
  OBVIOUS
<1>2. ps[i] \in Packet
  OBVIOUS
<1>. QED  BY <1>1, <1>2, SizeOfPacket, EndsDef, EndsNat, Zenon

\* A later packet does not end before an earlier one.
LEMMA EndsGrow ==
  ASSUME NEW ps \in Seq(Packet), NEW k \in 0 .. Len(ps), NEW j \in 0 .. Len(ps), k <= j
  PROVE  Ends(ps)[k] <= Ends(ps)[j]
<1>. DEFINE S == {i \in 0 .. Len(ps) : k <= i => Ends(ps)[k] <= Ends(ps)[i]}
<1>1. Len(ps) \in Nat /\ Ends(ps)[k] \in Nat
  BY EndsNat
<1>2. 0 \in S
  BY <1>1
<1>3. ASSUME NEW i \in 0 .. Len(ps), i + 1 <= Len(ps), i \in S PROVE i + 1 \in S
  <2>1. i + 1 \in 1 .. Len(ps) /\ (i + 1) - 1 = i
    BY <1>3
  <2>2. Ends(ps)[i] \in Nat /\ Ends(ps)[i + 1] \in Nat /\ Ends(ps)[i] <= Ends(ps)[i + 1]
    BY <2>1, EndsNext
  <2>3. CASE k <= i
    BY <1>1, <1>3, <2>1, <2>2, <2>3
  <2>4. CASE ~(k <= i)
    BY <1>1, <2>1, <2>2, <2>4
  <2>. QED  BY <2>3, <2>4, Zenon
<1>4. \A i \in 0 .. Len(ps) : i \in S
  <2>. HIDE DEF S
  <2>. QED  BY <1>1, <1>2, <1>3, UpTo, Zenon
<1>. QED  BY <1>4, Zenon

\* A packet that is sent later moves no end.
LEMMA EndsAppend ==
  ASSUME NEW ps \in Seq(Packet), NEW p \in Packet
  PROVE  /\ Append(ps, p) \in Seq(Packet) /\ Len(Append(ps, p)) = Len(ps) + 1
         /\ \A i \in 0 .. Len(ps) : Ends(Append(ps, p))[i] = Ends(ps)[i]
<1>. DEFINE qs == Append(ps, p)
            S == {i \in 0 .. Len(ps) : Ends(qs)[i] = Ends(ps)[i]}
<1>1. Len(ps) \in Nat /\ qs \in Seq(Packet) /\ Len(qs) = Len(ps) + 1
  OBVIOUS
<1>2. 0 \in S
  <2>. HIDE DEF qs
  <2>1. Ends(qs)[0] = 0 /\ Ends(ps)[0] = 0
    BY <1>1, EndsDef, Zenon
  <2>. QED  BY <1>1, <2>1
<1>3. ASSUME NEW i \in 0 .. Len(ps), i + 1 <= Len(ps), i \in S PROVE i + 1 \in S
  <2>1. i + 1 \in 1 .. Len(ps) /\ i + 1 \in 1 .. Len(qs) /\ (i + 1) - 1 = i
    BY <1>1, <1>3
  <2>2. qs[i + 1] = ps[i + 1]
    BY <2>1
  <2>. HIDE DEF qs
  <2>3. Ends(qs)[i + 1] = Ends(qs)[i] + PackSize(qs[i + 1])
    BY <1>1, <2>1, EndsNext, Zenon
  <2>4. Ends(ps)[i + 1] = Ends(ps)[i] + PackSize(ps[i + 1])
    BY <2>1, EndsNext, Zenon
  <2>. QED  BY <1>3, <2>1, <2>2, <2>3, <2>4
<1>4. \A i \in 0 .. Len(ps) : i \in S
  <2>. HIDE DEF S
  <2>. QED  BY <1>1, <1>2, <1>3, UpTo, Zenon
<1>. QED  BY <1>1, <1>4, Zenon

\* What is taken off the front moves the ends of the rest by as many bytes.
LEMMA EndsShift ==
  ASSUME NEW ps \in Seq(Packet), NEW k \in 0 .. Len(ps)
  PROVE  LET qs == SubSeq(ps, k + 1, Len(ps))
         IN /\ qs \in Seq(Packet) /\ Len(qs) = Len(ps) - k
            /\ \A i \in 1 .. Len(qs) : qs[i] = ps[i + k]
            /\ \A i \in 0 .. Len(qs) : Ends(qs)[i] = Ends(ps)[i + k] - Ends(ps)[k]
<1>. DEFINE qs == SubSeq(ps, k + 1, Len(ps))
            S == {i \in 0 .. Len(qs) : Ends(qs)[i] = Ends(ps)[i + k] - Ends(ps)[k]}
<1>1. Len(ps) \in Nat /\ qs \in Seq(Packet) /\ Len(qs) = Len(ps) - k
  OBVIOUS
<1>2. \A i \in 1 .. Len(qs) : qs[i] = ps[i + k]
  BY <1>1
<1>. HIDE DEF qs
<1>3. 0 \in S
  BY <1>1, EndsDef, EndsNat
<1>4. ASSUME NEW i \in 0 .. Len(qs), i + 1 <= Len(qs), i \in S PROVE i + 1 \in S
  <2>1. i + 1 \in 1 .. Len(qs) /\ (i + 1) - 1 = i
    BY <1>1, <1>4
  <2>2. (i + 1) + k \in 1 .. Len(ps) /\ ((i + 1) + k) - 1 = i + k /\ i + k \in 0 .. Len(ps)
    BY <1>1, <2>1
  <2>3. Ends(qs)[i + 1] = Ends(qs)[i] + PackSize(qs[i + 1])
    BY <1>1, <2>1, EndsNext, Zenon
  <2>4. Ends(ps)[(i + 1) + k] = Ends(ps)[i + k] + PackSize(ps[(i + 1) + k])
    BY <2>2, EndsNext, Zenon
  <2>5. qs[i + 1] = ps[(i + 1) + k]
    BY <1>2, <2>1, Zenon
  <2>6. PackSize(ps[(i + 1) + k]) \in Nat
    BY <2>2, EndsNext, Zenon
  <2>7. Ends(ps)[i + k] \in Nat /\ Ends(ps)[k] \in Nat
    BY <2>2, EndsNat, Zenon
  <2>. QED  BY <1>4, <2>1, <2>3, <2>4, <2>5, <2>6, <2>7
<1>5. \A i \in 0 .. Len(qs) : i \in S
  <2>. HIDE DEF S
  <2>1. Len(qs) \in Nat
    BY <1>1
  <2>. QED  BY <1>3, <1>4, <2>1, UpTo, Zenon
<1>. QED  BY <1>1, <1>2, <1>5, Zenon DEF qs

-----------------------------------------------------------------------------
(* What the parser does with the packet at the head of the buffer.         *)

\* What TypeOK says of the packets on the wire, their age and the bytes that have
\* arrived.
LEMMA WireType ==
  ASSUME TypeOK
  PROVE  /\ wire \in Seq(Packet) /\ Len(wire) \in Nat /\ DOMAIN wire = 1 .. Len(wire)
         /\ since \in Seq(0 .. Latency) /\ Len(since) = Len(wire) /\ DOMAIN since = 1 .. Len(wire)
         /\ avail \in Nat
<1>1. Packets \cup {Heartbeat} \subseteq Packet
  BY PacketsAssumption DEF Packet, Heartbeat
<1>2. wire \in Seq(Packet)
  BY <1>1 DEF TypeOK
<1>. QED  BY <1>2 DEF TypeOK

\* A packet that is taken off is taken off whole, and its length was not misread.
LEMMA TakenWhole ==
  ASSUME TypeOK, NEW i \in 1 .. Len(wire), Takes(i)
  PROVE  /\ analyse_data(wire[i], Left(i)) = PackSize(wire[i])
         /\ Ends(wire)[i] <= avail
         /\ wire[i].len # Mark
<1>1. wire \in Seq(Packet) /\ avail \in Nat
  BY WireType, Zenon
<1>2. /\ wire[i] \in Packet /\ Ends(wire)[i - 1] \in Nat
      /\ Ends(wire)[i] = Ends(wire)[i - 1] + PackSize(wire[i])
  BY <1>1, EndsNext, Zenon
<1>3. Left(i) = avail - Ends(wire)[i - 1]
  BY Zenon DEF Left
<1>. DEFINE p == wire[i]
            n == Left(i)
<1>4. n \in Int /\ n >= 4 /\ analyse_data(p, n) > 0 /\ ~Misread(p, n)
  BY <1>1, <1>2, <1>3 DEF Takes, Strays, min_data_bag
<1>5. p \in Packet
  BY <1>2, Zenon
<1>6. analyse_data(p, n) = PackSize(p) /\ PackSize(p) <= n /\ p.len # Mark
  <2>. HIDE DEF p, n
  <2>1. CASE p = Heartbeat
    BY <1>4, <2>1 DEF analyse_data, PackSize, Heartbeat, Mark
  <2>2. CASE p # Heartbeat
    <3>1. /\ LengthArrived(p, n) /\ n >= HeadLen + data_head_len(p) + p.len
          /\ analyse_data(p, n) = HeadLen + data_head_len(p) + p.len
      BY <1>4, <2>2 DEF analyse_data
    <3>2. p.len # Mark
      BY <1>4, <3>1, Zenon DEF Misread
    <3>3. data_head_len(p) = pack_data_head(p.len)
      BY <1>5, <3>2 DEF data_head_len, pack_data_head, Marked, Mark, Packet
    <3>. QED  BY <2>2, <3>1, <3>2, <3>3, Zenon DEF PackSize
  <2>. QED  BY <2>1, <2>2, Zenon
<1>7. PackSize(p) \in Nat
  BY <1>5, SizeOfPacket, Zenon
<1>. QED  BY <1>1, <1>2, <1>3, <1>6, <1>7

\* A complete packet that is neither taken off nor misread has an empty payload and
\* nothing behind it.
LEMMA LeftBehind ==
  ASSUME TypeOK, NEW i \in 1 .. Len(wire), ~Takes(i), ~Strays(i), Ends(wire)[i] <= avail
  PROVE  wire[i] # Heartbeat /\ wire[i].len = 0 /\ avail = Ends(wire)[i]
<1>1. wire \in Seq(Packet) /\ avail \in Nat
  BY WireType, Zenon
<1>2. /\ wire[i] \in Packet /\ Ends(wire)[i - 1] \in Nat
      /\ Ends(wire)[i] = Ends(wire)[i - 1] + PackSize(wire[i])
      /\ PackSize(wire[i]) \in Nat /\ PackSize(wire[i]) >= 4
  BY <1>1, EndsNext, Zenon
<1>3. Left(i) = avail - Ends(wire)[i - 1]
  BY Zenon DEF Left
<1>. DEFINE p == wire[i]
            n == Left(i)
<1>4. n \in Int /\ n >= PackSize(p) /\ n >= min_data_bag
  BY <1>1, <1>2, <1>3 DEF min_data_bag
<1>5. ~(analyse_data(p, n) > 0) /\ ~Misread(p, n)
  BY <1>4, Zenon DEF Takes, Strays
<1>6. p \in Packet
  BY <1>2, Zenon
<1>7. p # Heartbeat /\ p.len = 0 /\ n = PackSize(p)
  <2>. HIDE DEF p, n
  <2>1. p # Heartbeat
    BY <1>5 DEF analyse_data
  <2>2. PackSize(p) = HeadLen + pack_data_head(p.len) + p.len /\ p.len \in Nat
    BY <1>6, <2>1, Zenon DEF PackSize, Packet
  <2>3. p.len >= Mark => LengthArrived(p, n)
    BY <1>4, <2>2 DEF LengthArrived, pack_data_head, HeadLen, Mark
  <2>4. p.len # Mark
    BY <1>5, <2>2, <2>3 DEF Misread, Mark
  <2>5. data_head_len(p) = pack_data_head(p.len)
    BY <2>2, <2>4 DEF data_head_len, pack_data_head, Marked, Mark
  <2>6. ~LengthArrived(p, n)
    BY <1>4, <1>5, <2>1, <2>2, <2>5 DEF analyse_data, pack_data_head, HeadLen
  <2>7. p.len < Mark
    BY <2>2, <2>3, <2>6 DEF Mark
  <2>. QED  BY <1>4, <2>1, <2>2, <2>6, <2>7 DEF LengthArrived, Marked, pack_data_head, HeadLen, Mark
<1>. QED  BY <1>1, <1>2, <1>3, <1>7

\* A run of the read callback takes whole packets off the front, k of them.
Reads(k) ==
  /\ Handles(k)
  /\ Ends(wire)[k] <= avail /\ avail' = avail - Ends(wire)[k]
  /\ wire' = SubSeq(wire, k + 1, Len(wire))
  /\ since' = SubSeq(since, k + 1, Len(wire))
  /\ broke' = Breaks(k)
  /\ in_step' = /\ in_step
                /\ \A i \in 1 .. k : analyse_data(wire[i], Left(i)) = PackSize(wire[i])
                /\ k < Len(wire) /\ ~Breaks(k) => ~Strays(k + 1)
  /\ \/ (\E i \in 1 .. k : wire[i] = Heartbeat) /\ age' = 0 /\ slack' = 0
     \/ (\A i \in 1 .. k : wire[i] # Heartbeat) /\ UNCHANGED <<age, slack>>
  /\ lapse' = lapse \cup {"left" : i \in {j \in Stranded(k) : wire[j] = Heartbeat}}

\* What is left of a sequence without its first k elements.
LEMMA RestOf ==
  ASSUME NEW T, NEW s \in Seq(T), NEW k \in 0 .. Len(s)
  PROVE  /\ SubSeq(s, k + 1, Len(s)) \in Seq(T)
         /\ Len(SubSeq(s, k + 1, Len(s))) = Len(s) - k
         /\ \A i \in 1 .. Len(s) - k : SubSeq(s, k + 1, Len(s))[i] = s[i + k]
<1>1. SubSeq(s, k + 1, Len(s)) \in Seq(T) /\ Len(SubSeq(s, k + 1, Len(s))) = Len(s) - k
  OBVIOUS
<1>2. \A i \in 1 .. Len(s) - k : SubSeq(s, k + 1, Len(s))[i] = s[i + k]
  BY <1>1
<1>. QED  BY <1>1, <1>2, Zenon

\* bufferevent_read_callback reads some number k of packets.
LEMMA ReadStep ==
  ASSUME TypeOK, bufferevent_read_callback
  PROVE  /\ ~gone /\ ready /\ ready' = FALSE /\ UNCHANGED <<quiet, timer, command, gone>>
         /\ \E k \in 0 .. Len(wire) : Reads(k)
<1>1. ~gone /\ ready /\ ready' = FALSE /\ UNCHANGED <<quiet, timer, command, gone>>
  BY Zenon DEF bufferevent_read_callback, readable
<1>2. PICK k \in 0 .. Len(wire) :
        /\ Handles(k)
        /\ broke' = Breaks(k)
        /\ in_step' = /\ in_step
                      /\ \A i \in 1 .. k : analyse_data(wire[i], Left(i)) = PackSize(wire[i])
                      /\ k < Len(wire) /\ ~Breaks(k) => ~Strays(k + 1)
        /\ avail' = avail - Ends(wire)[k]
        /\ wire' = SubSeq(wire, k + 1, Len(wire))
        /\ since' = SubSeq(since, k + 1, Len(wire))
        /\ \/ (\E i \in 1 .. k : wire[i] = Heartbeat) /\ age' = 0 /\ slack' = 0
           \/ (\A i \in 1 .. k : wire[i] # Heartbeat) /\ UNCHANGED <<age, slack>>
        /\ lapse' = lapse \cup {"left" : i \in {j \in Stranded(k) : wire[j] = Heartbeat}}
  BY Zenon DEF bufferevent_read_callback
<1>3. Ends(wire)[k] <= avail
  <2>1. CASE k = 0
    BY <2>1, WireType, EndsDef
  <2>2. CASE k # 0
    <3>1. k \in 1 .. Len(wire) /\ k \in 1 .. k
      BY <2>2
    <3>2. Takes(k)
      BY Zenon, <1>2, <3>1 DEF Handles
    <3>. QED  BY <3>1, <3>2, TakenWhole, Zenon
  <2>. QED  BY <2>1, <2>2, Zenon
<1>4. Reads(k)
  BY Zenon, <1>2, <1>3 DEF Reads
<1>. QED  BY <1>1, <1>4, Zenon

\* What is left of the stream when k packets have been taken off.
LEMMA ReadRest ==
  ASSUME TypeOK, NEW k \in 0 .. Len(wire), Reads(k)
  PROVE  /\ Len(wire)' = Len(wire) - k
         /\ wire' \in Seq(Packets \cup {Heartbeat})
         /\ since' \in Seq(0 .. Latency) /\ Len(since)' = Len(wire) - k
         /\ \A i \in 1 .. Len(wire) - k :
              /\ i + k \in 1 .. Len(wire)
              /\ wire'[i] = wire[i + k] /\ since'[i] = since[i + k]
              /\ Ends(wire')[i] = Ends(wire)[i + k] - Ends(wire)[k]
              /\ avail' >= Ends(wire')[i] <=> avail >= Ends(wire)[i + k]
              /\ avail' = Ends(wire')[i] <=> avail = Ends(wire)[i + k]
         /\ avail' \in Nat /\ avail' <= Ends(wire')[Len(wire')]
<1>1. /\ wire \in Seq(Packet) /\ since \in Seq(0 .. Latency) /\ Len(since) = Len(wire)
      /\ avail \in Nat /\ Len(wire) \in Nat
  BY WireType, Zenon
<1>2. /\ wire' = SubSeq(wire, k + 1, Len(wire)) /\ since' = SubSeq(since, k + 1, Len(wire))
      /\ avail' = avail - Ends(wire)[k] /\ Ends(wire)[k] <= avail
  BY Zenon DEF Reads
<1>3. /\ Len(wire)' = Len(wire) - k
      /\ \A i \in 1 .. Len(wire) - k : wire'[i] = wire[i + k]
      /\ \A i \in 0 .. Len(wire) - k : Ends(wire')[i] = Ends(wire)[i + k] - Ends(wire)[k]
  <2>. DEFINE qs == SubSeq(wire, k + 1, Len(wire))
  <2>1. /\ Len(qs) = Len(wire) - k
        /\ \A i \in 1 .. Len(qs) : qs[i] = wire[i + k]
        /\ \A i \in 0 .. Len(qs) : Ends(qs)[i] = Ends(wire)[i + k] - Ends(wire)[k]
    BY Zenon, <1>1, EndsShift
  <2>2. wire' = qs
    BY <1>2, Zenon
  <2>. HIDE DEF qs
  <2>. QED  BY Zenon, <2>1, <2>2
<1>4. wire' \in Seq(Packets \cup {Heartbeat})
  BY <1>2, <1>1 DEF TypeOK
<1>5. /\ since' \in Seq(0 .. Latency) /\ Len(since)' = Len(wire) - k
      /\ \A i \in 1 .. Len(wire) - k : since'[i] = since[i + k]
  <2>1. since' = SubSeq(since, k + 1, Len(since)) /\ k \in 0 .. Len(since)
    BY Zenon, <1>1, <1>2
  <2>2. /\ SubSeq(since, k + 1, Len(since)) \in Seq(0 .. Latency)
        /\ Len(SubSeq(since, k + 1, Len(since))) = Len(since) - k
        /\ \A i \in 1 .. Len(since) - k : SubSeq(since, k + 1, Len(since))[i] = since[i + k]
    BY Zenon, <1>1, <2>1, RestOf
  <2>. QED  BY Zenon, <1>1, <2>1, <2>2
<1>6. \A i \in 0 .. Len(wire) : Ends(wire)[i] \in Nat
  BY <1>1, EndsNat, Zenon
<1>7. ASSUME NEW i \in 1 .. Len(wire) - k
      PROVE  /\ i + k \in 1 .. Len(wire)
             /\ Ends(wire')[i] = Ends(wire)[i + k] - Ends(wire)[k]
             /\ avail' >= Ends(wire')[i] <=> avail >= Ends(wire)[i + k]
             /\ avail' = Ends(wire')[i] <=> avail = Ends(wire)[i + k]
  <2>1. i + k \in 1 .. Len(wire) /\ i + k \in 0 .. Len(wire) /\ i \in 0 .. Len(wire) - k
    BY <1>1
  <2>2. Ends(wire)[i + k] \in Nat /\ Ends(wire)[k] \in Nat
    BY <1>6, <2>1, Zenon
  <2>3. Ends(wire')[i] = Ends(wire)[i + k] - Ends(wire)[k]
    BY <1>3, <2>1, Zenon
  <2>. QED  BY <1>1, <1>2, <2>1, <2>2, <2>3
<1>8. avail' \in Nat /\ avail' <= Ends(wire')[Len(wire')]
  <2>1. Ends(wire)[k] \in Nat /\ Ends(wire)[Len(wire)] \in Nat
    BY <1>1, <1>6
  <2>2. Ends(wire')[Len(wire')] = Ends(wire)[Len(wire)] - Ends(wire)[k]
    BY <1>1, <1>3
  <2>3. avail <= Ends(wire)[Len(wire)]
    BY Zenon DEF TypeOK
  <2>. QED  BY <1>1, <1>2, <2>1, <2>2, <2>3
<1>. QED  BY <1>3, <1>4, <1>5, <1>7, <1>8, Zenon

-----------------------------------------------------------------------------
(* Types.                                                                  *)

\* The bytes in the buffer never outnumber those that were sent.
LEMMA TypeSend ==
  ASSUME TypeOK, NEW p \in Packets \cup {Heartbeat}, send(p)
  PROVE  /\ TypeOK'
         /\ Len(wire)' = Len(wire) + 1 /\ wire'[Len(wire) + 1] = p /\ since'[Len(wire) + 1] = 0
         /\ \A i \in 1 .. Len(wire) : wire'[i] = wire[i] /\ since'[i] = since[i]
         /\ \A i \in 1 .. Len(wire) : Ends(wire')[i] = Ends(wire)[i]
         /\ avail' = avail /\ ~(avail >= Ends(wire')[Len(wire) + 1])
<1>1. /\ wire \in Seq(Packet) /\ since \in Seq(0 .. Latency) /\ Len(since) = Len(wire)
      /\ avail \in Nat /\ Len(wire) \in Nat
  BY WireType, Zenon
<1>2. /\ Len(wire) < MaxWire /\ wire' = Append(wire, p) /\ since' = Append(since, 0)
      /\ quiet' = IF p = Heartbeat THEN 0 ELSE quiet
      /\ UNCHANGED <<avail, ready, broke, in_step, lapse, age, timer, command, slack, gone>>
  BY Zenon DEF send, sweeps
<1>3. p \in Packet
  BY PacketsAssumption DEF Packet, Heartbeat
<1>4. /\ wire' \in Seq(Packet) /\ Len(wire)' = Len(wire) + 1
      /\ \A i \in 0 .. Len(wire) : Ends(wire')[i] = Ends(wire)[i]
  BY Zenon, <1>1, <1>2, <1>3, EndsAppend
<1>5. wire'[Len(wire) + 1] = p /\ \A i \in 1 .. Len(wire) : wire'[i] = wire[i]
  BY <1>1, <1>2
<1>6. since'[Len(wire) + 1] = 0 /\ \A i \in 1 .. Len(wire) : since'[i] = since[i]
  BY <1>1, <1>2
<1>7. Len(wire) + 1 \in 1 .. Len(wire') /\ (Len(wire) + 1) - 1 = Len(wire)
  BY <1>1, <1>4
<1>8. /\ Ends(wire')[Len(wire) + 1] = Ends(wire')[Len(wire)] + PackSize(wire'[Len(wire) + 1])
      /\ PackSize(wire'[Len(wire) + 1]) \in Nat /\ PackSize(wire'[Len(wire) + 1]) >= 4
      /\ Ends(wire')[Len(wire)] \in Nat
  BY <1>4, <1>7, EndsNext, Zenon
<1>9. Ends(wire')[Len(wire)] = Ends(wire)[Len(wire)] /\ avail <= Ends(wire)[Len(wire)]
  <2>1. Len(wire) \in 0 .. Len(wire)
    BY <1>1
  <2>. QED  BY Zenon, <1>4, <2>1 DEF TypeOK
<1>10. avail' = avail /\ ~(avail >= Ends(wire')[Len(wire) + 1]) /\ avail <= Ends(wire')[Len(wire')]
  BY <1>1, <1>2, <1>4, <1>8, <1>9
<1>11. wire' \in Seq(Packets \cup {Heartbeat})
  BY <1>2 DEF TypeOK
<1>12. since' \in Seq(0 .. Latency) /\ Len(since)' = Len(wire)' /\ Len(wire)' <= MaxWire
  <2>1. 0 \in 0 .. Latency
    BY TimesAssumption
  <2>2. since' \in Seq(0 .. Latency) /\ Len(since)' = Len(since) + 1
    BY <1>1, <1>2, <2>1
  <2>. QED  BY <1>1, <1>2, <1>4, <2>2, BoundsAssumption
<1>13. quiet' \in 0 .. Period
  BY <1>2, TimesAssumption DEF TypeOK
<1>14. TypeOK'
  BY Zenon, <1>1, <1>2, <1>10, <1>11, <1>12, <1>13 DEF TypeOK
<1>. QED  BY <1>4, <1>5, <1>6, <1>10, <1>14

\* An element of a sequence over T is in T.
LEMMA ElementOf ==
  ASSUME NEW T, NEW s \in Seq(T), NEW j \in 1 .. Len(s)
  PROVE  s[j] \in T
OBVIOUS

\* A function on 1 .. n is a sequence of length n.
LEMMA FunctionIsSeq ==
  ASSUME NEW T, NEW n \in Nat, NEW f \in [1 .. n -> T]
  PROVE  f \in Seq(T) /\ Len(f) = n
OBVIOUS

\* The types over the arrival of more bytes of a packet.
LEMMA TypeArrive ==
  ASSUME TypeOK, NEW i \in DOMAIN wire, NEW n \in Cuts(wire[i]), arrive(i, n)
  PROVE  /\ TypeOK'
         /\ avail' > avail /\ avail' \in Nat /\ ready' = TRUE
         /\ UNCHANGED <<wire, broke, in_step, quiet, lapse, age, timer, command, slack, gone>>
         /\ \A j \in 1 .. Len(wire) :
              since'[j] = IF avail' >= Ends(wire)[j] THEN 0 ELSE since[j]
<1>1. /\ wire \in Seq(Packet) /\ since \in Seq(0 .. Latency) /\ Len(since) = Len(wire)
      /\ avail \in Nat /\ Len(wire) \in Nat /\ DOMAIN wire = 1 .. Len(wire)
      /\ DOMAIN since = 1 .. Len(wire)
  BY WireType, Zenon
<1>2. /\ avail' = Ends(wire)[i - 1] + n /\ avail' > avail
      /\ since' = [j \in DOMAIN wire |-> IF avail' >= Ends(wire)[j] THEN 0 ELSE since[j]]
      /\ ready' = TRUE
      /\ UNCHANGED <<wire, broke, in_step, quiet, lapse, age, timer, command, slack, gone>>
  BY Zenon DEF arrive, sweeps
<1>3. /\ i \in 1 .. Len(wire) /\ wire[i] \in Packet
      /\ PackSize(wire[i]) \in Nat /\ PackSize(wire[i]) >= 4
      /\ Ends(wire)[i] \in Nat /\ Ends(wire)[i - 1] \in Nat
      /\ Ends(wire)[i] = Ends(wire)[i - 1] + PackSize(wire[i])
  BY <1>1, EndsNext, Zenon
<1>4. n \in 1 .. PackSize(wire[i])
  BY <1>3 DEF Cuts, PackSize
<1>5. avail' \in Nat /\ avail' <= Ends(wire)[i]
  BY <1>2, <1>3, <1>4
<1>6. i \in 0 .. Len(wire) /\ Len(wire) \in 0 .. Len(wire) /\ i <= Len(wire)
  BY <1>1, <1>3
<1>7. Ends(wire)[i] <= Ends(wire)[Len(wire)] /\ Ends(wire)[Len(wire)] \in Nat
  BY <1>1, <1>6, EndsGrow, EndsNat, Zenon
<1>8. avail' <= Ends(wire')[Len(wire')]
  BY <1>2, <1>3, <1>5, <1>7
<1>9. \A j \in 1 .. Len(wire) : since'[j] = IF avail' >= Ends(wire)[j] THEN 0 ELSE since[j]
  BY <1>1, <1>2, Zenon
<1>10. since' \in Seq(0 .. Latency) /\ Len(since)' = Len(wire)
  <2>1. \A j \in 1 .. Len(wire) : (IF avail' >= Ends(wire)[j] THEN 0 ELSE since[j]) \in 0 .. Latency
    BY <1>1, TimesAssumption
  <2>2. since' \in [1 .. Len(wire) -> 0 .. Latency]
    BY Zenon, <1>1, <1>2, <2>1
  <2>. QED  BY Zenon, <1>1, <2>2, FunctionIsSeq
<1>11. TypeOK'
  BY Zenon, <1>2, <1>5, <1>8, <1>10 DEF TypeOK
<1>. QED  BY <1>2, <1>5, <1>9, <1>11, Zenon

\* ... over a second that goes by.
LEMMA TypeSecond ==
  ASSUME TypeOK, second
  PROVE  /\ TypeOK' /\ ~ready /\ ~gone
         /\ quiet' = IF quiet = Period THEN Period ELSE quiet + 1
         /\ lapse' = IF quiet = Period THEN lapse \cup {"late"} ELSE lapse
         /\ age' = age + 1
         /\ UNCHANGED <<wire, avail, ready, broke, in_step, slack, gone>>
         /\ \A j \in 1 .. Len(wire) :
              ~(avail >= Ends(wire)[j]) => since[j] < Latency /\ since'[j] = since[j] + 1
<1>1. /\ wire \in Seq(Packet) /\ since \in Seq(0 .. Latency) /\ Len(since) = Len(wire)
      /\ avail \in Nat /\ Len(wire) \in Nat /\ DOMAIN wire = 1 .. Len(wire)
      /\ DOMAIN since = 1 .. Len(wire)
  BY WireType, Zenon
<1>2. /\ \A j \in DOMAIN wire : avail < Ends(wire)[j] => since[j] < Latency
      /\ ~ready /\ ~gone /\ timer > 0 /\ command # Delay
      /\ since' = [j \in DOMAIN wire |-> IF avail >= Ends(wire)[j] THEN 0 ELSE since[j] + 1]
      /\ quiet' = IF quiet = Period THEN Period ELSE quiet + 1
      /\ lapse' = IF quiet = Period THEN lapse \cup {"late"} ELSE lapse
      /\ age' = age + 1 /\ timer' = timer - 1
      /\ command' = IF command = None THEN None ELSE command + 1
      /\ UNCHANGED <<wire, avail, ready, broke, in_step, slack, gone>>
  BY Zenon DEF second
<1>3. \A j \in 1 .. Len(wire) : Ends(wire)[j] \in Nat /\ since[j] \in 0 .. Latency
  <2>1. \A j \in 1 .. Len(wire) : Ends(wire)[j] \in Nat
    BY <1>1, EndsNext, Zenon
  <2>2. \A j \in 1 .. Len(wire) : since[j] \in 0 .. Latency
    BY Zenon, <1>1, ElementOf
  <2>. QED  BY <2>1, <2>2, Zenon
<1>4. \A j \in 1 .. Len(wire) :
        ~(avail >= Ends(wire)[j]) => since[j] < Latency /\ since'[j] = since[j] + 1
  <2>. SUFFICES ASSUME NEW j \in 1 .. Len(wire), ~(avail >= Ends(wire)[j])
                PROVE  since[j] < Latency /\ since'[j] = since[j] + 1
    BY Zenon
  <2>1. avail < Ends(wire)[j]
    BY <1>1, <1>3
  <2>2. since[j] < Latency
    BY Zenon, <1>1, <1>2, <2>1
  <2>. QED  BY <1>1, <1>2, <2>2, Zenon
<1>5. since' \in Seq(0 .. Latency) /\ Len(since)' = Len(wire)
  <2>1. \A j \in 1 .. Len(wire) :
          (IF avail >= Ends(wire)[j] THEN 0 ELSE since[j] + 1) \in 0 .. Latency
    BY <1>3, <1>4, TimesAssumption
  <2>2. since' \in [1 .. Len(wire) -> 0 .. Latency]
    BY Zenon, <1>1, <1>2, <2>1
  <2>. QED  BY Zenon, <1>1, <2>2, FunctionIsSeq
<1>6. quiet' \in 0 .. Period /\ age' \in Nat /\ timer' \in 0 .. 2 * Period
  BY <1>2, TimesAssumption DEF TypeOK
<1>7. command' \in 0 .. Delay \cup {None}
  BY <1>2, TimesAssumption DEF TypeOK, None
<1>8. lapse' \subseteq {"late", "left"}
  BY <1>2, Zenon DEF TypeOK
<1>9. TypeOK'
  BY Zenon, <1>2, <1>5, <1>6, <1>7, <1>8 DEF TypeOK
<1>. QED  BY <1>2, <1>4, <1>9, Zenon

\* ... over bufferevent_read_callback.
LEMMA TypeRead ==
  ASSUME TypeOK, bufferevent_read_callback
  PROVE  TypeOK'
<1>1. ready' = FALSE /\ UNCHANGED <<quiet, timer, command, gone>>
  BY Zenon, ReadStep
<1>2. PICK k \in 0 .. Len(wire) : Reads(k)
  BY Zenon, ReadStep
<1>3. /\ wire' \in Seq(Packets \cup {Heartbeat}) /\ since' \in Seq(0 .. Latency)
      /\ Len(since)' = Len(wire) - k /\ Len(wire)' = Len(wire) - k
      /\ avail' \in Nat /\ avail' <= Ends(wire')[Len(wire')]
  BY Zenon, <1>2, ReadRest
<1>4. Len(wire)' <= MaxWire /\ Len(since)' = Len(wire)'
  BY <1>3, WireType, BoundsAssumption DEF TypeOK
<1>5. broke' \in BOOLEAN /\ in_step' \in BOOLEAN
  <2>1. broke' = (k > 0 /\ wire[k].kind = "unknown")
    BY Zenon, <1>2 DEF Reads, Breaks
  <2>2. in_step' = /\ in_step
                   /\ \A i \in 1 .. k : analyse_data(wire[i], Left(i)) = PackSize(wire[i])
                   /\ k < Len(wire) /\ ~Breaks(k) => ~Strays(k + 1)
    BY Zenon, <1>2 DEF Reads
  <2>3. broke' \in BOOLEAN
    BY <2>1, Zenon
  <2>4. in_step' \in BOOLEAN
    BY <2>2, Zenon
  <2>. QED  BY <2>3, <2>4, Zenon
<1>6. age' \in Nat /\ slack' \in Nat
  <2>1. (age' = 0 /\ slack' = 0) \/ UNCHANGED <<age, slack>>
    BY Zenon, <1>2 DEF Reads
  <2>. QED  BY <2>1 DEF TypeOK
<1>7. lapse' \subseteq {"late", "left"}
  BY <1>2, Zenon DEF Reads, TypeOK
<1>. QED  BY Zenon, <1>1, <1>3, <1>4, <1>5, <1>6, <1>7 DEF TypeOK

\* The sweep and the timer do not touch the stream.
LEMMA TypeSweeps ==
  ASSUME TypeOK, del_expire_client \/ timer_event
  PROVE  TypeOK' /\ UNCHANGED <<input, quiet, lapse, age>>
<1>1. UNCHANGED <<input, quiet, lapse, age>>
  BY Zenon DEF del_expire_client, timer_event
<1>2. CASE del_expire_client
  <2>1. command' = None /\ (gone' = (age > timeout)) /\ UNCHANGED <<timer, slack>>
    BY Zenon, <1>2 DEF del_expire_client
  <2>2. gone' \in BOOLEAN
    BY <2>1
  <2>. QED  BY Zenon, <1>1, <2>1, <2>2 DEF TypeOK, input
<1>3. CASE timer_event
  <2>1. /\ timer' = interval /\ UNCHANGED gone
        /\ \/ command' = 0 /\ UNCHANGED slack
           \/ slack' = slack + 2 * Period /\ UNCHANGED command
    BY Zenon, <1>3 DEF timer_event
  <2>2. timer' \in 0 .. 2 * Period
    BY <2>1, TimesAssumption DEF interval
  <2>3. command' \in 0 .. Delay \cup {None} /\ slack' \in Nat
    <3>1. 0 \in 0 .. Delay /\ slack + 2 * Period \in Nat
      BY TimesAssumption DEF TypeOK
    <3>. QED  BY Zenon, <2>1, <3>1 DEF TypeOK
  <2>. QED  BY Zenon, <1>1, <2>1, <2>2, <2>3 DEF TypeOK, input
<1>. QED  BY <1>1, <1>2, <1>3, Zenon

\* The state of a session is well typed; above all, the input buffer never holds more
\* bytes than the client sent and the read callback has not taken off, so that
\* analyse_data never drains past what arrived.
THEOREM TypeCorrect == Spec => []TypeOK
<1>1. Init => TypeOK
  <2>. SUFFICES ASSUME Init PROVE TypeOK
    BY Zenon
  <2>1. wire = << >> /\ since = << >> /\ avail = 0 /\ Len(wire) = 0
    BY Zenon DEF Init
  <2>2. Ends(wire)[0] = 0
    <3>1. wire \in Seq(Packet)
      BY <2>1
    <3>. QED  BY <3>1, EndsDef, Zenon
  <2>3. /\ wire \in Seq(Packets \cup {Heartbeat}) /\ since \in Seq(0 .. Latency)
        /\ Len(since) = Len(wire) /\ Len(wire) <= MaxWire
        /\ avail \in Nat /\ avail <= Ends(wire)[Len(wire)]
    BY <2>1, <2>2, BoundsAssumption
  <2>4. quiet \in 0 .. Period /\ age \in Nat /\ slack \in Nat
    BY TimesAssumption DEF Init
  <2>. QED  BY Zenon, <2>3, <2>4 DEF Init, TypeOK
<1>2. TypeOK /\ [Next]_vars => TypeOK'
  <2>. SUFFICES ASSUME TypeOK, [Next]_vars PROVE TypeOK'
    BY Zenon
  <2>1. CASE UNCHANGED vars
    BY Zenon, <2>1 DEF vars, input, sweeps, TypeOK
  <2>. QED  BY Zenon, <2>1, TypeSend, TypeArrive, TypeRead, TypeSweeps, TypeSecond DEF Next
<1>. QED  BY <1>1, <1>2, PTL DEF Spec

-----------------------------------------------------------------------------
(* The parser keeps to the packets.                                        *)

\* For any packets, cut into any pieces: analyse_data and analyse_pack take off exactly
\* the bytes that pack_data wrote for a packet, and so stay at the packet boundaries,
\* unless a payload of exactly 0xFF00 bytes has come to the head of the buffer.
THEOREM ParserStaysInStep == Spec => []InStep
<1>1. Init => InStep
  BY Zenon DEF Init, InStep
<1>2. TypeOK /\ InStep /\ [Next]_vars => InStep'
  <2>. SUFFICES ASSUME TypeOK, InStep, [Next]_vars PROVE InStep'
    BY Zenon
  <2>1. /\ wire \in Seq(Packet) /\ Len(wire) \in Nat
    BY WireType, Zenon
  <2>2. ASSUME NEW p \in Packets \cup {Heartbeat}, send(p) PROVE InStep'
    <3>1. wire' = Append(wire, p) /\ UNCHANGED in_step
      BY Zenon, <2>2 DEF send
    <3>2. CASE in_step
      BY Zenon, <3>1, <3>2 DEF InStep
    <3>3. CASE ~in_step
      <4>1. wire # << >> /\ wire[1].len = Mark
        BY Zenon, <3>3 DEF InStep
      <4>2. wire' # << >> /\ wire'[1] = wire[1]
        BY <2>1, <3>1, <4>1
      <4>. QED  BY Zenon, <4>1, <4>2 DEF InStep
    <3>. QED  BY <3>2, <3>3, Zenon
  <2>3. ASSUME UNCHANGED <<wire, in_step>> PROVE InStep'
    BY Zenon, <2>3 DEF InStep
  <2>4. CASE bufferevent_read_callback
    <3>1. PICK k \in 0 .. Len(wire) : Reads(k)
      BY Zenon, <2>4, ReadStep
    <3>2. /\ Handles(k)
          /\ in_step' = /\ in_step
                        /\ \A i \in 1 .. k : analyse_data(wire[i], Left(i)) = PackSize(wire[i])
                        /\ k < Len(wire) /\ ~Breaks(k) => ~Strays(k + 1)
      BY Zenon, <3>1 DEF Reads
    <3>3. /\ Len(wire)' = Len(wire) - k
          /\ \A i \in 1 .. Len(wire) - k : wire'[i] = wire[i + k]
      BY Zenon, <3>1, ReadRest
    <3>4. \A i \in 1 .. k : /\ analyse_data(wire[i], Left(i)) = PackSize(wire[i])
                            /\ wire[i].len # Mark
      <4>1. \A i \in 1 .. k : i \in 1 .. Len(wire)
        BY <2>1
      <4>. QED  BY Zenon, <3>2, <4>1, TakenWhole DEF Handles
    <3>5. CASE in_step
      <4>. SUFFICES ASSUME k < Len(wire), Strays(k + 1) PROVE wire' # << >> /\ wire'[1].len = Mark
        BY Zenon, <3>2, <3>4, <3>5 DEF InStep
      <4>1. wire[k + 1].len = Mark
        BY Zenon DEF Strays, Misread
      <4>2. 1 \in 1 .. Len(wire) - k /\ 1 + k = k + 1 /\ Len(wire') # 0
        BY <2>1, <3>3
      <4>. QED  BY <3>3, <4>1, <4>2
    <3>6. CASE ~in_step
      <4>1. wire # << >> /\ wire[1].len = Mark
        BY Zenon, <3>6 DEF InStep
      <4>2. k = 0
        BY <3>4, <4>1
      <4>3. 1 \in 1 .. Len(wire) - k /\ 1 + k = 1 /\ Len(wire') # 0
        BY <2>1, <3>3, <4>1, <4>2
      <4>4. wire' # << >> /\ wire'[1] = wire[1]
        BY <3>3, <4>3
      <4>. QED  BY Zenon, <4>1, <4>4 DEF InStep
    <3>. QED  BY <3>5, <3>6, Zenon
  <2>5. ASSUME NEW i, NEW n, arrive(i, n) PROVE InStep'
    BY Zenon, <2>3, <2>5 DEF arrive
  <2>6. CASE UNCHANGED vars
    BY Zenon, <2>3, <2>6 DEF vars, input
  <2>7. CASE del_expire_client \/ timer_event \/ second
    BY Zenon, <2>3, <2>7 DEF del_expire_client, timer_event, second, input
  <2>. QED  BY Zenon, <2>2, <2>4, <2>5, <2>6, <2>7 DEF Next
<1>. QED  BY <1>1, <1>2, TypeCorrect, PTL DEF Spec

\* For any packets, cut into any pieces: when the read callback has run, a complete
\* packet is left in the buffer only if the run ended at an unknown property, or the
\* packet has an empty payload and is the last to arrive, or the parser is out of step.
THEOREM ReadsAllThatIsComplete == Spec => []NothingStranded
<1>1. Init => NothingStranded
  BY DEF Init, NothingStranded
<1>2. TypeOK /\ NothingStranded /\ [Next]_vars => NothingStranded'
  <2>. SUFFICES ASSUME TypeOK, NothingStranded, [Next]_vars PROVE NothingStranded'
    BY Zenon
  <2>1. wire \in Seq(Packet) /\ Len(wire) \in Nat /\ DOMAIN wire = 1 .. Len(wire) /\ avail \in Nat
    BY WireType, Zenon
  <2>2. ASSUME NEW p \in Packets \cup {Heartbeat}, send(p) PROVE NothingStranded'
    <3>1. UNCHANGED <<avail, ready, in_step, broke>> /\ TypeOK'
      BY Zenon, <2>2, TypeSend DEF send
    <3>2. /\ Len(wire)' = Len(wire) + 1
          /\ \A i \in 1 .. Len(wire) : wire'[i] = wire[i]
          /\ \A i \in 1 .. Len(wire) : Ends(wire')[i] = Ends(wire)[i]
          /\ ~(avail >= Ends(wire')[Len(wire) + 1])
      BY Zenon, <2>2, TypeSend
    <3>. SUFFICES ASSUME ~ready, in_step, ~broke, NEW i \in 1 .. Len(wire) + 1,
                         avail >= Ends(wire')[i]
                  PROVE  wire'[i] # Heartbeat /\ wire'[i].len = 0 /\ avail = Ends(wire')[i]
      <4>1. wire' \in Seq(Packets \cup {Heartbeat})
        BY Zenon, <3>1 DEF TypeOK
      <4>2. DOMAIN wire' = 1 .. Len(wire) + 1
        BY <3>2, <4>1
      <4>. QED  BY Zenon, <3>1, <4>2 DEF NothingStranded
    <3>3. i \in 1 .. Len(wire)
      BY <2>1, <3>2
    <3>. QED  BY Zenon, <2>1, <3>2, <3>3 DEF NothingStranded
  <2>3. ASSUME UNCHANGED <<wire, avail, ready, in_step, broke>> PROVE NothingStranded'
    BY Zenon, <2>3 DEF NothingStranded
  <2>4. CASE bufferevent_read_callback
    <3>1. PICK k \in 0 .. Len(wire) : Reads(k)
      BY Zenon, <2>4, ReadStep
    <3>2. /\ Handles(k) /\ broke' = Breaks(k)
          /\ in_step' => (k < Len(wire) /\ ~Breaks(k) => ~Strays(k + 1))
      BY Zenon, <3>1 DEF Reads
    <3>3. /\ Len(wire)' = Len(wire) - k
          /\ \A i \in 1 .. Len(wire) - k :
               /\ i + k \in 1 .. Len(wire)
               /\ wire'[i] = wire[i + k]
               /\ avail' >= Ends(wire')[i] <=> avail >= Ends(wire)[i + k]
               /\ avail' = Ends(wire')[i] <=> avail = Ends(wire)[i + k]
      BY Zenon, <3>1, ReadRest
    <3>. SUFFICES ASSUME in_step', ~broke', NEW i \in DOMAIN wire', avail' >= Ends(wire')[i]
                  PROVE  wire'[i] # Heartbeat /\ wire'[i].len = 0 /\ avail' = Ends(wire')[i]
      BY Zenon DEF NothingStranded
    <3>4. i \in 1 .. Len(wire) - k
      <4>1. wire' \in Seq(Packets \cup {Heartbeat})
        BY Zenon, <3>1, ReadRest
      <4>. QED  BY <3>3, <4>1
    <3>5. /\ avail >= Ends(wire)[i + k] /\ wire'[i] = wire[i + k]
          /\ avail' = Ends(wire')[i] <=> avail = Ends(wire)[i + k]
      BY Zenon, <3>4, <3>3
    <3>6. k < Len(wire) /\ k + 1 \in 1 .. Len(wire) /\ k + 1 \in 0 .. Len(wire)
          /\ i + k \in 1 .. Len(wire) /\ i + k \in 0 .. Len(wire) /\ k + 1 <= i + k
      BY <2>1, <3>4
    <3>7. ~Takes(k + 1) /\ ~Strays(k + 1)
      BY Zenon, <3>2, <3>6 DEF Handles
    <3>8. Ends(wire)[k + 1] <= Ends(wire)[i + k]
      BY <2>1, <3>6, EndsGrow, Zenon
    <3>9. Ends(wire)[k + 1] \in Nat /\ Ends(wire)[i + k] \in Nat
      BY <2>1, <3>6, EndsNat, Zenon
    <3>10. Ends(wire)[k + 1] <= avail
      BY <2>1, <3>5, <3>8, <3>9
    <3>11. wire[k + 1] # Heartbeat /\ wire[k + 1].len = 0 /\ avail = Ends(wire)[k + 1]
      BY Zenon, <3>6, <3>7, <3>10, LeftBehind
    <3>12. i + k = k + 1
      <4>. SUFFICES ASSUME k + 1 < i + k PROVE FALSE
        BY <3>6
      <4>1. (i + k) - 1 \in 0 .. Len(wire) /\ k + 1 <= (i + k) - 1
        BY <2>1, <3>6
      <4>2. Ends(wire)[k + 1] <= Ends(wire)[(i + k) - 1]
        BY <2>1, <3>6, <4>1, EndsGrow, Zenon
      <4>3. /\ Ends(wire)[i + k] = Ends(wire)[(i + k) - 1] + PackSize(wire[i + k])
            /\ PackSize(wire[i + k]) \in Nat /\ PackSize(wire[i + k]) >= 4
            /\ Ends(wire)[(i + k) - 1] \in Nat
        BY <2>1, <3>6, EndsNext, Zenon
      <4>. QED  BY <2>1, <3>9, <3>5, <3>11, <4>2, <4>3
    <3>. QED  BY Zenon, <3>5, <3>11, <3>12
  <2>5. ASSUME NEW i, NEW n, arrive(i, n) PROVE NothingStranded'
    <3>1. ready' = TRUE
      BY Zenon, <2>5 DEF arrive
    <3>. QED  BY Zenon, <3>1 DEF NothingStranded
  <2>6. CASE UNCHANGED vars
    BY Zenon, <2>3, <2>6 DEF vars, input
  <2>7. CASE del_expire_client \/ timer_event \/ second
    BY Zenon, <2>3, <2>7 DEF del_expire_client, timer_event, second, input
  <2>. QED  BY Zenon, <2>2, <2>4, <2>5, <2>6, <2>7 DEF Next
<1>. QED  BY <1>1, <1>2, TypeCorrect, PTL DEF Spec

-----------------------------------------------------------------------------
(* The heartbeat.  The last heartbeat that counts has been read, and the client's *)
(* age runs no faster than the client's own clock; or one is under way that will  *)
(* be read in time.                                                               *)

Heard == age <= quiet

Awaited(i) ==
  /\ wire[i] = Heartbeat
  /\ IF avail >= Ends(wire)[i]
     THEN ready /\ age <= Period + Latency
     ELSE age <= Period + since[i]

Kept == lapse = {} => ~gone /\ (Heard \/ \E i \in 1 .. Len(wire) : Awaited(i))

\* Kept over a packet that the client sends; a heartbeat is from then on the one on
\* the wire.
LEMMA KeptSend ==
  ASSUME TypeOK, Kept, NEW p \in Packets \cup {Heartbeat}, send(p)
  PROVE  Kept'
<1>. SUFFICES ASSUME lapse' = {} PROVE ~gone' /\ (Heard' \/ \E i \in 1 .. Len(wire') : Awaited(i)')
  BY Zenon DEF Kept
<1>1. /\ quiet' = IF p = Heartbeat THEN 0 ELSE quiet
      /\ UNCHANGED <<avail, ready, lapse, age, gone>>
  BY Zenon DEF send
<1>2. /\ Len(wire)' = Len(wire) + 1 /\ wire'[Len(wire) + 1] = p /\ since'[Len(wire) + 1] = 0
      /\ \A i \in 1 .. Len(wire) : wire'[i] = wire[i] /\ since'[i] = since[i]
      /\ \A i \in 1 .. Len(wire) : Ends(wire')[i] = Ends(wire)[i]
      /\ ~(avail >= Ends(wire')[Len(wire) + 1])
  BY Zenon, TypeSend
<1>3. Len(wire) \in Nat /\ age \in Nat /\ quiet \in 0 .. Period
  BY WireType, Zenon DEF TypeOK
<1>4. ~gone' /\ (Heard \/ \E i \in 1 .. Len(wire) : Awaited(i))
  BY Zenon, <1>1 DEF Kept
<1>5. ASSUME NEW i \in 1 .. Len(wire), Awaited(i) PROVE i \in 1 .. Len(wire') /\ Awaited(i)'
  <2>1. i \in 1 .. Len(wire')
    BY <1>2, <1>3
  <2>2. Awaited(i)'
    BY Zenon, <1>1, <1>2, <1>5 DEF Awaited
  <2>. QED  BY <2>1, <2>2, Zenon
<1>6. CASE Heard /\ p # Heartbeat
  BY <1>1, <1>4, <1>6, Zenon DEF Heard
<1>7. CASE Heard /\ p = Heartbeat
  <2>1. Len(wire) + 1 \in 1 .. Len(wire') /\ age <= Period + 0
    BY <1>2, <1>3, <1>7, TimesAssumption DEF Heard
  <2>2. PICK m \in 1 .. Len(wire') : m = Len(wire) + 1
    BY Zenon, <2>1
  <2>3. Awaited(m)'
    BY Zenon, <1>1, <1>2, <1>7, <2>1, <2>2 DEF Awaited
  <2>. QED  BY Zenon, <1>4, <2>3
<1>. QED  BY Zenon, <1>4, <1>5, <1>6, <1>7

\* ... over the arrival of bytes: the heartbeat is still to be read.
LEMMA KeptArrive ==
  ASSUME TypeOK, Kept, NEW i \in DOMAIN wire, NEW n \in Cuts(wire[i]), arrive(i, n)
  PROVE  Kept'
<1>. SUFFICES ASSUME lapse' = {} PROVE ~gone' /\ (Heard' \/ \E j \in 1 .. Len(wire') : Awaited(j)')
  BY Zenon DEF Kept
<1>1. /\ avail' > avail /\ avail' \in Nat /\ ready' = TRUE
      /\ UNCHANGED <<wire, quiet, lapse, age, gone>>
      /\ \A j \in 1 .. Len(wire) : since'[j] = IF avail' >= Ends(wire)[j] THEN 0 ELSE since[j]
  BY Zenon, TypeArrive
<1>2. /\ wire \in Seq(Packet) /\ avail \in Nat /\ age \in Nat
      /\ since \in Seq(0 .. Latency) /\ Len(since) = Len(wire)
  BY WireType, Zenon DEF TypeOK
<1>3. ~gone' /\ (Heard \/ \E j \in 1 .. Len(wire) : Awaited(j))
  BY Zenon, <1>1 DEF Kept
<1>4. CASE Heard
  BY Zenon, <1>1, <1>3, <1>4 DEF Heard
<1>5. ASSUME NEW j \in 1 .. Len(wire), Awaited(j) PROVE Awaited(j)'
  <2>1. Ends(wire)[j] \in Nat
    BY <1>2, EndsNext, Zenon
  <2>2. since[j] \in 0 .. Latency
    BY Zenon, <1>2, ElementOf
  <2>3. wire'[j] = Heartbeat
    BY Zenon, <1>1, <1>5 DEF Awaited
  <2>4. CASE avail >= Ends(wire)[j]
    <3>1. avail' >= Ends(wire)[j] /\ age <= Period + Latency
      BY <1>1, <1>2, <1>5, <2>1, <2>4 DEF Awaited
    <3>. QED  BY Zenon, <1>1, <2>3, <3>1 DEF Awaited
  <2>5. CASE ~(avail >= Ends(wire)[j])
    <3>1. age <= Period + since[j]
      BY Zenon, <1>5, <2>5 DEF Awaited
    <3>2. age <= Period + Latency
      BY <1>2, <2>2, <3>1, TimesAssumption
    <3>3. ~(avail' >= Ends(wire)[j]) => since'[j] = since[j]
      BY Zenon, <1>1
    <3>. QED  BY Zenon, <1>1, <2>3, <3>1, <3>2, <3>3 DEF Awaited
  <2>. QED  BY <2>4, <2>5, Zenon
<1>. QED  BY Zenon, <1>1, <1>3, <1>4, <1>5

\* ... over the read callback, which handles a heartbeat or leaves it where it was.
LEMMA KeptRead ==
  ASSUME TypeOK, Kept, bufferevent_read_callback
  PROVE  Kept'
<1>. SUFFICES ASSUME lapse' = {} PROVE ~gone' /\ (Heard' \/ \E j \in 1 .. Len(wire') : Awaited(j)')
  BY Zenon DEF Kept
<1>1. UNCHANGED <<quiet, gone>>
  BY Zenon, ReadStep
<1>2. PICK k \in 0 .. Len(wire) : Reads(k)
  BY Zenon, ReadStep
<1>3. /\ \/ (\E i \in 1 .. k : wire[i] = Heartbeat) /\ age' = 0
         \/ (\A i \in 1 .. k : wire[i] # Heartbeat) /\ age' = age
      /\ lapse' = lapse \cup {"left" : i \in {j \in Stranded(k) : wire[j] = Heartbeat}}
  BY Zenon, <1>2 DEF Reads
<1>4. lapse = {} /\ \A j \in Stranded(k) : wire[j] # Heartbeat
  BY <1>3, Zenon
<1>5. Len(wire) \in Nat /\ age \in Nat /\ quiet \in 0 .. Period
  BY WireType, Zenon DEF TypeOK
<1>6. ~gone' /\ (Heard \/ \E j \in 1 .. Len(wire) : Awaited(j))
  BY Zenon, <1>1, <1>4 DEF Kept
<1>7. CASE age' = 0
  BY <1>1, <1>5, <1>6, <1>7, TimesAssumption DEF Heard
<1>8. CASE age' = age /\ Heard
  BY <1>1, <1>6, <1>8, Zenon DEF Heard
<1>9. ASSUME NEW j \in 1 .. Len(wire), Awaited(j), age' = age, \A i \in 1 .. k : wire[i] # Heartbeat
      PROVE  \E i \in 1 .. Len(wire') : Awaited(i)'
  <2>1. wire[j] = Heartbeat
    BY Zenon, <1>9 DEF Awaited
  <2>2. j \in k + 1 .. Len(wire)
    BY <1>5, <1>9, <2>1
  <2>3. ~(avail >= Ends(wire)[j])
    BY Zenon, <1>4, <2>1, <2>2 DEF Stranded
  <2>4. age <= Period + since[j]
    BY Zenon, <1>9, <2>3 DEF Awaited
  <2>. DEFINE i == j - k
  <2>5. i \in 1 .. Len(wire) - k /\ i + k = j
    BY <1>5, <2>2
  <2>. HIDE DEF i
  <2>6. /\ Len(wire)' = Len(wire) - k
        /\ wire'[i] = wire[i + k] /\ since'[i] = since[i + k]
        /\ avail' >= Ends(wire')[i] <=> avail >= Ends(wire)[i + k]
    BY Zenon, <1>2, <2>5, ReadRest
  <2>7. Awaited(i)'
    BY Zenon, <1>9, <2>1, <2>3, <2>4, <2>5, <2>6 DEF Awaited
  <2>. QED  BY Zenon, <2>5, <2>6, <2>7
<1>. QED  BY Zenon, <1>3, <1>6, <1>7, <1>8, <1>9

\* ... over a second: a heartbeat on the wire is at most Latency old, one that has
\* arrived is read at once.
LEMMA KeptSecond ==
  ASSUME TypeOK, Kept, second
  PROVE  Kept'
<1>. SUFFICES ASSUME lapse' = {} PROVE ~gone' /\ (Heard' \/ \E j \in 1 .. Len(wire') : Awaited(j)')
  BY Zenon DEF Kept
<1>1. /\ ~ready /\ ~gone
      /\ quiet' = IF quiet = Period THEN Period ELSE quiet + 1
      /\ lapse' = IF quiet = Period THEN lapse \cup {"late"} ELSE lapse
      /\ age' = age + 1
      /\ UNCHANGED <<wire, avail, ready, gone>>
      /\ \A j \in 1 .. Len(wire) :
           ~(avail >= Ends(wire)[j]) => since[j] < Latency /\ since'[j] = since[j] + 1
  BY Zenon, TypeSecond
<1>2. quiet # Period /\ lapse = {} /\ quiet' = quiet + 1
  BY <1>1, Zenon
<1>3. /\ age \in Nat /\ quiet \in 0 .. Period
      /\ since \in Seq(0 .. Latency) /\ Len(since) = Len(wire)
  BY WireType, Zenon DEF TypeOK
<1>4. ~gone' /\ (Heard \/ \E j \in 1 .. Len(wire) : Awaited(j))
  BY Zenon, <1>1, <1>2 DEF Kept
<1>5. CASE Heard
  BY <1>1, <1>2, <1>3, <1>4, <1>5, TimesAssumption DEF Heard
<1>6. ASSUME NEW j \in 1 .. Len(wire), Awaited(j) PROVE Awaited(j)'
  <2>1. ~(avail >= Ends(wire)[j]) /\ wire[j] = Heartbeat /\ age <= Period + since[j]
    BY Zenon, <1>1, <1>6 DEF Awaited
  <2>2. since[j] \in 0 .. Latency
    BY Zenon, <1>3, ElementOf
  <2>3. since'[j] = since[j] + 1
    BY Zenon, <1>1, <2>1
  <2>4. age' <= Period + since'[j]
    BY <1>1, <1>3, <2>1, <2>2, <2>3, TimesAssumption
  <2>. QED  BY Zenon, <1>1, <2>1, <2>4 DEF Awaited
<1>. QED  BY Zenon, <1>1, <1>4, <1>5, <1>6

\* For any packets and any interleaving of the sweep with the read callback: a client
\* that sends its heartbeat every heartbeat_time seconds is not expired, as long as the
\* network takes no longer than that and no heartbeat is left in the buffer.
THEOREM HeartbeatKeepsTheClient ==
  ASSUME Latency <= Period
  PROVE  Spec => []HeartbeatKeeps
<1>1. Init => Kept
  <2>. SUFFICES ASSUME Init PROVE Kept
    BY Zenon
  <2>1. age = 0 /\ quiet = 0 /\ gone = FALSE
    BY Zenon DEF Init
  <2>. QED  BY <2>1 DEF Kept, Heard
<1>2. TypeOK /\ Kept /\ [Next]_vars => Kept'
  <2>. SUFFICES ASSUME TypeOK, Kept, [Next]_vars PROVE Kept'
    BY Zenon
  <2>1. ASSUME UNCHANGED <<wire, since, avail, ready, quiet, lapse, age>>, lapse' = {} => ~gone'
        PROVE  Kept'
    BY Zenon, <2>1 DEF Kept, Heard, Awaited
  <2>2. CASE del_expire_client
    <3>1. (gone' <=> age > timeout) /\ UNCHANGED <<wire, since, avail, ready, quiet, lapse, age>>
      BY Zenon, <2>2 DEF del_expire_client, input
    <3>2. ASSUME lapse = {} PROVE age <= Period + Latency
      <4>1. age \in Nat /\ quiet \in 0 .. Period /\ since \in Seq(0 .. Latency) /\ Len(since) = Len(wire)
        BY WireType, Zenon DEF TypeOK
      <4>2. CASE Heard
        BY <4>1, <4>2, TimesAssumption DEF Heard
      <4>3. ASSUME NEW j \in 1 .. Len(wire), Awaited(j) PROVE age <= Period + Latency
        <5>1. since[j] \in 0 .. Latency
          BY Zenon, <4>1, ElementOf
        <5>2. age <= Period + Latency \/ age <= Period + since[j]
          BY Zenon, <4>3 DEF Awaited
        <5>. QED  BY <4>1, <5>1, <5>2, TimesAssumption
      <4>. QED  BY Zenon, <3>2, <4>2, <4>3 DEF Kept
    <3>3. age \in Nat
      BY Zenon DEF TypeOK
    <3>4. lapse' = {} => ~gone'
      BY <3>1, <3>2, <3>3, TimesAssumption DEF timeout
    <3>. QED  BY <2>1, <3>1, <3>4, Zenon
  <2>3. lapse = {} => ~gone
    BY Zenon DEF Kept
  <2>4. CASE UNCHANGED vars
    BY Zenon, <2>1, <2>3, <2>4 DEF vars, input
  <2>5. CASE timer_event
    BY Zenon, <2>1, <2>3, <2>5 DEF timer_event, input
  <2>. QED  BY Zenon, <2>2, <2>4, <2>5, KeptSend, KeptArrive, KeptRead, KeptSecond DEF Next
<1>3. Kept => HeartbeatKeeps
  BY Zenon DEF Kept, HeartbeatKeeps
<1>. QED  BY <1>1, <1>2, <1>3, TypeCorrect, PTL DEF Spec
=============================================================================
