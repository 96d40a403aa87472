----------------------------- MODULE TimedTrtp -----------------------------
(***************************************************************************)
(* The sender's timer by the clock.  Trtp lets the timer expire when it    *)
(* will; here the sender looks at clock(), the processor time it has used, *)
(* and at the timestamp of the first packet of its list, which keeps only  *)
(* the low 32 bits of the time it was set.                                 *)
(***************************************************************************)
EXTENDS Trtp

CONSTANTS
    Wrap,        \* values of the uint32_t timestamp: 2^32 in the code
    Delay,       \* ticks until the timer expires: 500000 in the code
    Ticks,       \* by how much the clock may advance in a pass of the loop
    MaxNow       \* where the clock of this run stops

ASSUME TimerAssumption ==
    /\ Delay \in Nat /\ Wrap \in Nat /\ Delay < Wrap
    /\ Ticks \subseteq Nat \ {0}
    /\ MaxNow \in Nat

VARIABLES
    now,         \* clock()
    stamped,     \* when the timestamp of a packet of the list was set
    sent,        \* when it was last written, or Never
    nacked       \* the packets whose last writing answered a NACK

timers == <<now, stamped, sent, nacked>>
timedVars == <<vars, timers>>

Never == -1

TimedInit ==
    /\ Init
    /\ now = 0
    /\ stamped = [id \in Range(listPkt) |-> 0]
    /\ sent = [id \in Range(listPkt) |-> Never]
    /\ nacked = {}

(***************************************************************************)
(* A pass that ends has taken some time; within a pass the model reads one *)
(* and the same clock.                                                     *)
(***************************************************************************)
ClockAdvances ==
    IF spc' = "poll"
    THEN \E n \in Ticks : now + n <= MaxNow /\ now' = now + n
    ELSE UNCHANGED now

(* pkt_get_timestamp: what pkt_set_timestamp(pkt, clock()) has kept. *)
timestamp(id) == stamped[id] % Wrap

(* A mutant of Expired: clock() is cut like the timestamp. *)
ExpiredByLowBits(id) == (timestamp(id) + Delay) % Wrap < now % Wrap

(***************************************************************************)
(* pkt_get_timestamp(listPkt[0]) + 500000 < clock(): the sum is a          *)
(* uint32_t, clock() is not.                                               *)
(***************************************************************************)
Expired(id) == (timestamp(id) + Delay) % Wrap < now

-----------------------------------------------------------------------------
(* A new packet of the list carries the time it was made. *)
TimedRecvAck ==
    /\ RecvAck
    /\ LET listed == Range(listPkt') \ {NULL}
       IN /\ stamped' = [id \in listed |->
                            IF id \in DOMAIN stamped THEN stamped[id] ELSE now]
          /\ sent' = [id \in listed |->
                         IF id \in DOMAIN sent THEN sent[id] ELSE Never]
          /\ nacked' = nacked \cap listed

(* The packet with this seqnum, if the list still holds one. *)
Listed(seq) == {listPkt[i] : i \in {find_buffer(seq, BufSize)} \ {NULL}}

(* A packet repeated on a NACK keeps its timestamp. *)
TimedResend ==
    /\ ResendNacked
    /\ sent' = [id \in DOMAIN sent |->
                   IF id \in Listed(nack) THEN now ELSE sent[id]]
    /\ nacked' = nacked \cup Listed(nack)
    /\ UNCHANGED stamped

(* write, then or before it pkt_set_timestamp(..., clock()). *)
Written(ids) ==
    /\ stamped' =
           [id \in DOMAIN stamped |-> IF id \in ids THEN now ELSE stamped[id]]
    /\ sent' = [id \in DOMAIN sent |-> IF id \in ids THEN now ELSE sent[id]]
    /\ nacked' = nacked \ ids

(* A mutant of TimedSendNext: the packet keeps the time it was made. *)
SendNextUnstamped ==
    /\ SendNext
    /\ sent' = [id \in DOMAIN sent |->
                   IF id \in Listed(nextseqnum % SeqSpace) THEN now
                   ELSE sent[id]]
    /\ UNCHANGED <<stamped, nacked>>

TimedSendNext == SendNext /\ Written(Listed(nextseqnum % SeqSpace))

(* The test of the timer ends a pass, one way or the other. *)
TimedTimeout ==
    /\ Timeout /\ UNCHANGED faults
    /\ Expired(listPkt[0])
    /\ Written({listPkt[0]})

TimedNoTimeout ==
    /\ NoTimeout
    /\ listPkt[0] # NULL => ~Expired(listPkt[0])
    /\ UNCHANGED <<stamped, sent, nacked>>

TimedSenderStep ==
    \/ TimedRecvAck \/ TimedResend \/ TimedSendNext
    \/ TimedTimeout \/ TimedNoTimeout
    \/ /\ \/ SenderStart /\ (ReceiverFirst => rstat # "unbound")
          \/ RecvNack \/ RecvCorrupted \/ SenderIdle \/ SenderError
          \/ StartBurst \/ EndBurst
       /\ UNCHANGED <<stamped, sent, nacked>>

(* The clock of this run has stopped, and the sender with it. *)
ClockAtEnd ==
    /\ \A n \in Ticks : now + n > MaxNow
    /\ UNCHANGED timedVars

TimedNext ==
    \/ TimedSenderStep /\ ClockAdvances /\ UNCHANGED rVars
    \/ ReceiverStep /\ UNCHANGED <<sVars, timers>>
    \/ Link /\ UNCHANGED <<sstat, rstat, sVars, rVars, timers>>
    \/ Terminated /\ UNCHANGED timers
    \/ ClockAtEnd

TimedSpec == TimedInit /\ [][TimedNext]_timedVars

-----------------------------------------------------------------------------
(***************************************************************************)
(* No pass of the loop leaves a packet at the front of the list that was   *)
(* last stamped more than Delay ago: whatever its timestamp has lost, and  *)
(* however far the clock has gone, an expired timer is never missed.       *)
(***************************************************************************)
NoTimerIsMissed ==
    [][spc = "timer" /\ spc' = "poll" /\ listPkt[0] # NULL
       => now - stamped'[listPkt[0]] <= Delay]_timedVars

(***************************************************************************)
(* The timer repeats a packet no sooner than Delay after it was last       *)
(* written, with two exceptions: one last repeated on a NACK, which keeps  *)
(* its old timestamp, and, once the clock has outgrown the timestamp, any. *)
(***************************************************************************)
EarlyRepeatsAreExplained ==
    [][TimedTimeout
       => LET head == listPkt[0]
          IN \/ now - sent[head] > Delay
             \/ head \in nacked
             \/ stamped[head] + Delay >= Wrap]_timedVars
=============================================================================
