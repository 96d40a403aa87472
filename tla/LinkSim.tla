------------------------------ MODULE LinkSim ------------------------------
(***************************************************************************)
(* link_sim.c as a program: it learns who the sender is, relays what comes *)
(* from the receiver, and drops or delays what goes the other way.  Its    *)
(* select loop runs on a clock; delayed packets wait in a MinQueue ordered *)
(* by their expiration date.  Cutting and corrupting change a packet's     *)
(* bytes only (TrtpNetwork has their effect on a transfer).  A second has  *)
(* PerSec units here, a millisecond Retry of them: in the code they are    *)
(* 1000000 and 1000 microseconds.                                          *)
(***************************************************************************)
EXTENDS Integers, Sequences, FiniteSetsExt

CONSTANTS
    PerSec,      \* units of time in a second
    Retry,       \* units in the millisecond after which a write is tried again
    MaxLate,     \* units that the loop may be late after select's timeout
    delay,       \* option -d, in units
    jitter,      \* option -j, in units
    loss_rate,   \* option -l
    link_direction, \* option -r / -R: the directions it alters
    MaxPkts,     \* bound: packets the peers send
    MaxClock,    \* bound: the peers send nothing after it
    MaxBlocks    \* bound: calls that fail, most of them for a full buffer

ASSUME LinkSimAssumption ==
    /\ PerSec \in Nat \ {0} /\ Retry \in Nat \ {0} /\ MaxLate \in Nat
    /\ delay \in Nat /\ jitter \in Nat
    /\ loss_rate \in 0 .. 100
    /\ MaxPkts \in Nat /\ MaxClock \in Nat /\ MaxBlocks \in Nat

FORWARD == "forward"
REVERSE == "reverse"

(* Who may write to the simulator: the two programs, or somebody else. *)
Sender == "sender"
Dest == "receiver"
Alien == "alien"
Nobody == "nobody"

ASSUME DirectionAssumption == link_direction \subseteq {FORWARD, REVERSE}

VARIABLES
    status,      \* "starting", "running" in proxy_loop, "crashed" after it,
                 \* "exited"
    clock,       \* the time, in units
    last_clock,  \* the time update_time cached
    pkt_queue,   \* the delayed packets
    src_addr,    \* who sent the first packet, or Nobody
    inbox,       \* packets in the socket's buffer
    sent,        \* number of packets the peers have sent
    blocks,      \* calls that failed
    delivered,   \* packets written out, in order
    dropped      \* packets given up: lost by choice, malformed or alien

vars == <<status, clock, last_clock, pkt_queue, src_addr, inbox, sent, blocks,
          delivered, dropped>>

(* A struct timeval. *)
Timeval(sec, usec) == [sec |-> sec, usec |-> usec]
ToTimeval(t) == Timeval(t \div PerSec, t % PerSec)
Value(tv) == tv.sec * PerSec + tv.usec

(* left > right *)
timeval_cmp(left, right) ==
    IF left.sec = right.sec THEN left.usec > right.usec
    ELSE left.sec > right.sec

(* a - b; an underflow is not made up for when it uses up the last second. *)
timeval_diff(a, b) ==
    LET sec == a.sec - b.sec
        usec == a.usec - b.usec
    IN IF usec >= 0 THEN Timeval(sec, usec)
       ELSE IF sec - 1 # 0 THEN Timeval(sec - 1, usec + PerSec)
       ELSE Timeval(0, usec)

pkt_slot_cmp(a, b) == timeval_cmp(a.ts, b.ts)

INSTANCE MinQueue WITH cmp <- pkt_slot_cmp

Init ==
    /\ status = "starting"
    /\ clock \in 0 .. PerSec - 1
    /\ last_clock = clock
    /\ pkt_queue = EmptyQueue
    /\ src_addr = Nobody
    /\ inbox = <<>>
    /\ sent = 0
    /\ blocks = 0
    /\ delivered = <<>>
    /\ dropped = {}

-----------------------------------------------------------------------------
(* proxy_traffic binds the socket, makes the queue and enters proxy_loop. *)
Start ==
    /\ status = "starting"
    /\ status' = "running"
    /\ last_clock' = clock
    /\ UNCHANGED <<clock, pkt_queue, src_addr, inbox, sent, blocks, delivered,
                   dropped>>

(* The socket or the queue cannot be had, and the program returns. *)
StartFails ==
    /\ status = "starting" /\ blocks < MaxBlocks
    /\ status' = "exited"
    /\ blocks' = blocks + 1
    /\ UNCHANGED <<clock, last_clock, pkt_queue, src_addr, inbox, sent,
                   delivered, dropped>>

(* proxy_loop has returned: the queue is freed with what is in it. *)
Exit ==
    /\ status = "crashed"
    /\ status' = "exited"
    /\ pkt_queue' = EmptyQueue
    /\ inbox' = <<>>
    /\ UNCHANGED <<clock, last_clock, src_addr, sent, blocks, delivered,
                   dropped>>

-----------------------------------------------------------------------------
(***************************************************************************)
(* A packet for the simulator; a receiver only answers, and only strangers *)
(* write less than MIN_PKT_LEN bytes.                                      *)
(***************************************************************************)
Send(peer, malformed) ==
    /\ status \in {"running", "crashed"}
    /\ sent < MaxPkts /\ clock <= MaxClock
    /\ peer = Dest => \E i \in DOMAIN delivered : delivered[i].to = Dest
    /\ malformed => peer = Alien
    /\ inbox' = Append(inbox, [id |-> sent, from |-> peer,
                               malformed |-> malformed])
    /\ sent' = sent + 1
    /\ UNCHANGED <<status, clock, last_clock, pkt_queue, src_addr, blocks,
                   delivered, dropped>>

-----------------------------------------------------------------------------
(* How long select waits for this date; a millisecond once it has passed. *)
TimeoutFor(date) ==
    LET timeout == timeval_diff(date, ToTimeval(last_clock))
    IN IF timeout.sec < 0 \/ (timeout.sec = 0 /\ timeout.usec <= 0)
       THEN Retry
       ELSE Value(timeout)

(* A mutant of get_queue_timeout: the date is that of the array's last     *)
(* item.                                                                   *)
timeout_of_last == TimeoutFor(pkt_queue[Size(pkt_queue) - 1].ts)

(* How long select waits when a packet is queued: for the root. *)
get_queue_timeout == TimeoutFor(minq_peek(pkt_queue).ts)

(* now > expiration date, which deliver_delayed_pkt waits for. *)
Expired(now, slot) == timeval_cmp(ToTimeval(now), slot.ts)

(* What is recorded of a packet written out at time now in direction dir. *)
Out(pkt, dir, src, now, read, wait) ==
    [id |-> pkt.id, from |-> pkt.from,
     to |-> IF dir = FORWARD THEN Dest ELSE src,
     at |-> now, read |-> read, wait |-> wait]

(***************************************************************************)
(* deliver_delayed_pkt: the queue and what was written, after the root was *)
(* written and popped while it had expired, n times at most.               *)
(***************************************************************************)
Deliver(n) ==
    LET done[k \in 0 .. n] ==
            IF k = 0 THEN [queue |-> pkt_queue, out |-> <<>>]
            ELSE LET s == done[k - 1]
                     root == minq_peek(s.queue)
                 IN IF minq_empty(s.queue) \/ ~Expired(clock, root) THEN s
                    ELSE [queue |-> minq_pop(s.queue),
                          out |-> Append(s.out, Out(root.pkt, root.dir,
                                                    src_addr, clock,
                                                    root.read, root.wait))]
    IN done[n]

(* The delays simulate_link may apply: rand() spreads them by the jitter. *)
AppliedDelays ==
    LET spread == IF jitter = 0 THEN {delay}
                  ELSE IF jitter > delay THEN 0 .. delay + jitter - 1
                  ELSE delay - jitter .. delay + jitter - 1
    IN {d % (10 * PerSec) : d \in spread}

(* A mutant of Expiration: the seconds of the delay are left out. *)
ExpirationInSecond(now, d) ==
    Timeval(now \div PerSec, (now % PerSec) + (d % PerSec))

(* A mutant of Expiration: the delay is not cut into seconds. *)
ExpirationUncut(now, d) == Timeval(now \div PerSec, (now % PerSec) + d)

(* Expiration date: the units may add up to more than a second's. *)
Expiration(now, d) ==
    Timeval(now \div PerSec + d \div PerSec, (now % PerSec) + (d % PerSec))

(* A mutant of SourceAfter: whoever is not the receiver is the sender. *)
SourceIsLast(from) == IF from = Dest THEN src_addr ELSE from

(* The first to write is the sender from then on. *)
SourceAfter(from) == IF src_addr = Nobody THEN from ELSE src_addr

(* The longest delay there can be. *)
MaxDelay == Max(AppliedDelays)

(* The direction of a packet; Nobody's if it is alien to the connection. *)
DirectionOf(from) ==
    IF from = SourceAfter(from) THEN FORWARD
    ELSE IF from = Dest THEN REVERSE
    ELSE Nobody

(***************************************************************************)
(* process_incoming_pkt: what becomes of a packet of direction dir, once   *)
(* deliver_delayed_pkt has left queue and written.  It is dropped, written *)
(* at once or queued.  A write that would block and an allocation that     *)
(* fails end proxy_loop; only a delayed packet's write is tried again.     *)
(***************************************************************************)
Altered(dir) == dir \in link_direction

Drop(pkt, dir, queue, written) ==
    /\ dir = Nobody \/ (Altered(dir) /\ loss_rate > 0)
    /\ dropped' = dropped \cup {pkt.id}
    /\ pkt_queue' = queue /\ delivered' = written
    /\ UNCHANGED status

Relay(pkt, dir, queue, written) ==
    /\ dir # Nobody /\ (~Altered(dir) \/ delay = 0)
    /\ delivered' = Append(written, Out(pkt, dir, SourceAfter(pkt.from),
                                        clock, clock, 0))
    /\ pkt_queue' = queue
    /\ UNCHANGED <<status, dropped>>

Delay(pkt, dir, queue, written) ==
    /\ Altered(dir) /\ delay # 0
    /\ \E d \in AppliedDelays :
         pkt_queue' = minq_push(queue, [ts |-> Expiration(clock, d),
                                        dir |-> dir, pkt |-> pkt,
                                        read |-> clock, wait |-> d])
    /\ delivered' = written
    /\ UNCHANGED <<status, dropped>>

Fail(dir, queue, written) ==
    /\ dir # Nobody
    /\ status' = "crashed"
    /\ pkt_queue' = queue /\ delivered' = written
    /\ UNCHANGED dropped

(* A packet of fewer than MIN_PKT_LEN bytes tells nothing of its sender. *)
Malformed(pkt, queue, written) ==
    /\ dropped' = dropped \cup {pkt.id}
    /\ pkt_queue' = queue /\ delivered' = written
    /\ UNCHANGED <<status, src_addr>>

(* Nothing is to be read, recvfrom fails, or one packet is read. *)
Process(queue, written) ==
    \/ /\ \/ inbox = <<>> /\ UNCHANGED status
          \/ inbox # <<>> /\ status' = "crashed"
       /\ pkt_queue' = queue /\ delivered' = written
       /\ UNCHANGED <<src_addr, inbox, dropped>>
    \/ /\ inbox # <<>>
       /\ inbox' = Tail(inbox)
       /\ LET pkt == Head(inbox)
              dir == DirectionOf(pkt.from)
          IN \/ pkt.malformed /\ Malformed(pkt, queue, written)
             \/ /\ ~pkt.malformed
                /\ src_addr' = SourceAfter(pkt.from)
                /\ \/ Drop(pkt, dir, queue, written)
                   \/ Relay(pkt, dir, queue, written)
                   \/ Delay(pkt, dir, queue, written)
                   \/ Fail(dir, queue, written)

(* select returns: something can be read, or the wait for the root is over. *)
Woken ==
    \/ inbox # <<>>
    \/ ~minq_empty(pkt_queue) /\ clock >= last_clock + get_queue_timeout

(* A mutant of Left: a packet is popped before its write is tried. *)
LeftPopped(n) ==
    LET expired == Len(Deliver(Size(pkt_queue)).out)
    IN Deliver(IF n < expired THEN n + 1 ELSE n).queue

(* The queue after n expired packets were written and the next one blocked. *)
Left(n) == Deliver(n).queue

(***************************************************************************)
(* One pass of proxy_loop once select has returned: update_time, then      *)
(* deliver_delayed_pkt, which stops at a write that would block, then      *)
(* process_incoming_pkt.                                                   *)
(***************************************************************************)
Pass ==
    /\ status = "running" /\ Woken
    /\ last_clock' = clock
    /\ LET expired == Len(Deliver(Size(pkt_queue)).out)
       IN \E n \in 0 .. expired :
            /\ Process(Left(n), delivered \o Deliver(n).out)
            /\ blocks' = blocks + (IF n < expired THEN 1 ELSE 0)
                                + (IF status' = "crashed" THEN 1 ELSE 0)
    /\ blocks' <= MaxBlocks
    /\ UNCHANGED <<clock, sent>>

(***************************************************************************)
(* select or the clock fails for good, or, after n expired packets were    *)
(* written, the write of the next.                                         *)
(***************************************************************************)
PassFails ==
    /\ status = "running" /\ blocks < MaxBlocks
    /\ status' = "crashed"
    /\ blocks' = blocks + 1
    /\ \/ UNCHANGED <<last_clock, pkt_queue, delivered>>
       \/ /\ Woken
          /\ last_clock' = clock
          /\ \E n \in 0 .. Len(Deliver(Size(pkt_queue)).out) - 1 :
               /\ pkt_queue' = Left(n)
               /\ delivered' = delivered \o Deliver(n).out
    /\ UNCHANGED <<clock, src_addr, inbox, sent, dropped>>

(* The clock of this run stops when all that was sent must be written out. *)
LastTick ==
    MaxClock + MaxLate + MaxDelay + PerSec
        + (MaxBlocks + 1) * (Retry + MaxLate)

(* Time passes, though never for MaxLate more than select may wait.        *)
Tick ==
    /\ status = "running"
    /\ clock < LastTick
    /\ inbox # <<>> => clock < MaxClock + MaxLate
    /\ ~minq_empty(pkt_queue) =>
           clock < last_clock + get_queue_timeout + MaxLate
    /\ clock' = clock + 1
    /\ UNCHANGED <<status, last_clock, pkt_queue, src_addr, inbox, sent,
                   blocks, delivered, dropped>>

(* Nothing is left to do, or the program has returned. *)
Rest ==
    /\ \/ status = "exited"
       \/ clock > MaxClock /\ inbox = <<>> /\ minq_empty(pkt_queue)
    /\ UNCHANGED vars

Next ==
    \/ Start \/ StartFails \/ Pass \/ PassFails \/ Exit
    \/ \E peer \in {Sender, Dest, Alien}, malformed \in BOOLEAN :
         Send(peer, malformed)
    \/ Tick \/ Rest

Spec == Init /\ [][Next]_vars

-----------------------------------------------------------------------------
(* The types of the simulator's state. *)
Packets == [id : 0 .. MaxPkts - 1, from : {Sender, Dest, Alien},
            malformed : BOOLEAN]
LinkTypeOK ==
    /\ status \in {"starting", "running", "crashed", "exited"}
    /\ clock \in Nat /\ last_clock \in 0 .. clock
    /\ \A i \in DOMAIN pkt_queue :
         /\ pkt_queue[i].pkt \in Packets
         /\ pkt_queue[i].dir \in link_direction
         /\ pkt_queue[i].ts \in [sec : Nat, usec : 0 .. 2 * PerSec - 2]
    /\ src_addr \in {Sender, Dest, Alien, Nobody}
    /\ \A i \in DOMAIN inbox : inbox[i] \in Packets
    /\ sent \in 0 .. MaxPkts
    /\ blocks \in 0 .. MaxBlocks
    /\ dropped \subseteq 0 .. MaxPkts - 1

(***************************************************************************)
(* A delayed packet overtakes one that was read before it only if its own  *)
(* delay is shorter: the order is changed by the jitter, not by the heap   *)
(* nor by expiration dates whose units were not carried into seconds.      *)
(***************************************************************************)
OnlyJitterReorders ==
    \A i, j \in DOMAIN delivered :
        LET p == delivered[i]
            q == delivered[j]
        IN i < j /\ p.read > q.read /\ p.to = q.to => p.wait < q.wait

(***************************************************************************)
(* A packet is in one place only: none is written twice, written while it  *)
(* is still queued, or queued, written or read again after it was dropped. *)
(***************************************************************************)
WrittenIds == {delivered[i].id : i \in DOMAIN delivered}
QueuedIds == {pkt_queue[i].pkt.id : i \in DOMAIN pkt_queue}
UnreadIds == {inbox[i].id : i \in DOMAIN inbox}

WrittenOnce ==
    Cardinality(WrittenIds \cup QueuedIds \cup UnreadIds \cup dropped)
      = Len(delivered) + Size(pkt_queue) + Len(inbox) + Cardinality(dropped)

(***************************************************************************)
(* While the simulator runs it forgets no packet: each is unread, queued,  *)
(* written or dropped on purpose, whatever write of a delayed packet would *)
(* have blocked.  Only an error that ends proxy_loop loses packets.        *)
(***************************************************************************)
NothingVanishes ==
    status = "running" =>
        UnreadIds \cup QueuedIds \cup WrittenIds \cup dropped = 0 .. sent - 1

(***************************************************************************)
(* The simulator serves one connection: all that the receiver is sent      *)
(* comes from one host, which gets every answer, even when packets of that *)
(* host, of the receiver and of strangers come in any order and wait in    *)
(* the queue together.                                                     *)
(***************************************************************************)
OneConnection ==
    \A i, j \in DOMAIN delivered :
        LET p == delivered[i]
            q == delivered[j]
        IN p.to = Dest =>
              /\ q.to = Dest => q.from = p.from
              /\ q.to # Dest => q.to = p.from

(***************************************************************************)
(* A packet is written less than a second before its delay has passed, in  *)
(* spite of the dates whose units were not carried into seconds.           *)
(***************************************************************************)
LessThanASecondEarly ==
    \A i \in DOMAIN delivered :
        delivered[i].at > delivered[i].read + delivered[i].wait - PerSec

(***************************************************************************)
(* No packet stays queued for a second past the end of its delay, but for  *)
(* a retry and the loop's own lateness, and those again for each write     *)
(* that blocked - though the root, whose date select waits for, need not   *)
(* be the first to be due.                                                 *)
(***************************************************************************)
LessThanASecondLate ==
    \A i \in DOMAIN pkt_queue :
        LET slot == pkt_queue[i]
        IN status = "running" =>
              clock < slot.read + slot.wait + PerSec
                        + (blocks + 1) * (Retry + MaxLate)
=============================================================================
