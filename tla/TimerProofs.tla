---------------------------- MODULE TimerProofs ----------------------------
(***************************************************************************)
(* The sender's timer for every width of the timestamp, every delay and    *)
(* every advance of the clock: it is never missed, and early only for the  *)
(* two reasons EarlyRepeatsAreExplained names.                             *)
(***************************************************************************)
EXTENDS TimedTrtp, TLAPS

(* Cutting a sum to the width of the timestamp does not enlarge it. *)
LEMMA ModBelow ==
    ASSUME NEW a \in Nat, NEW b \in Nat \ {0}
    PROVE  a % b \in Nat /\ a % b <= a /\ (a < b => a % b = a)
OBVIOUS

(* What the proofs use of the assumption on the timer. *)
LEMMA WrapPositive == Wrap \in Nat \ {0} /\ Delay \in Nat
BY TimerAssumption

(* Without the timestamp's wrap, the timer is exact; with it, only early. *)
LEMMA ExpiredBounds ==
    ASSUME NEW id, stamped[id] \in Nat, now \in Nat
    PROVE  /\ ~Expired(id) => now - stamped[id] <= Delay
           /\ Expired(id) /\ stamped[id] + Delay < Wrap
              => now - stamped[id] > Delay
<1> DEFINE low == stamped[id] % Wrap
<1>1. low \in Nat /\ low <= stamped[id]
      /\ (stamped[id] < Wrap => low = stamped[id])
  BY ModBelow, WrapPositive
<1> DEFINE sum == (low + Delay) % Wrap
<1>2. sum \in Nat /\ sum <= low + Delay
      /\ (low + Delay < Wrap => sum = low + Delay)
  <2> HIDE DEF low
  <2>. QED BY <1>1, ModBelow, WrapPositive
<1>3. Expired(id) <=> sum < now
  BY DEF Expired, timestamp
<1> HIDE DEF low, sum
<1>. QED BY <1>1, <1>2, <1>3, WrapPositive

-----------------------------------------------------------------------------
(***************************************************************************)
(* The invariant both properties rest on: every packet of the list has a   *)
(* time it was stamped at and, unless a NACK had it repeated since, it was *)
(* not written later than that.                                            *)
(***************************************************************************)
StampedLater(id) ==
    /\ stamped[id] \in Nat /\ sent[id] \in Int
    /\ id \notin nacked => sent[id] <= stamped[id]

TimerInv ==
    /\ now \in Nat
    /\ DOMAIN listPkt = Slots
    /\ DOMAIN sent = DOMAIN stamped
    /\ \A i \in Slots : listPkt[i] # NULL => listPkt[i] \in DOMAIN stamped
    /\ \A id \in DOMAIN stamped : StampedLater(id)

(* The invariant holds at the start. *)
LEMMA TimerInit == TimedInit => TimerInv
<1> SUFFICES ASSUME TimedInit PROVE TimerInv
  OBVIOUS
<1>1. /\ DOMAIN listPkt = Slots
      /\ now = 0
      /\ stamped = [id \in Range(listPkt) |-> 0]
      /\ sent = [id \in Range(listPkt) |-> Never]
  BY DEF TimedInit, Init, SenderInit
<1>2. \A i \in Slots : listPkt[i] \in Range(listPkt)
  BY <1>1 DEF Range
<1>. QED BY <1>1, <1>2 DEF TimerInv, StampedLater, Never

(* The clock goes forward. *)
LEMMA ClockType ==
    ASSUME now \in Nat, ClockAdvances
    PROVE  now' \in Nat
BY TimerAssumption DEF ClockAdvances

(* Stamping what is written keeps the invariant. *)
LEMMA WrittenKeeps ==
    ASSUME TimerInv, now' \in Nat, UNCHANGED listPkt, NEW ids, Written(ids)
    PROVE  TimerInv'
<1>1. /\ DOMAIN stamped' = DOMAIN stamped /\ DOMAIN sent' = DOMAIN stamped
      /\ \A id \in DOMAIN stamped :
           /\ stamped'[id] = IF id \in ids THEN now ELSE stamped[id]
           /\ sent'[id] = IF id \in ids THEN now ELSE sent[id]
      /\ nacked' = nacked \ ids
  BY DEF Written, TimerInv
<1>2. \A id \in DOMAIN stamped : StampedLater(id)'
  BY <1>1 DEF TimerInv, StampedLater
<1>. QED BY <1>1, <1>2 DEF TimerInv

(* Every step keeps it. *)
LEMMA TimerNext == TimerInv /\ [TimedNext]_timedVars => TimerInv'
<1> SUFFICES ASSUME TimerInv, [TimedNext]_timedVars PROVE TimerInv'
  OBVIOUS
<1>1. ASSUME now' \in Nat, UNCHANGED <<listPkt, stamped, sent, nacked>>
      PROVE  TimerInv'
  BY <1>1 DEF TimerInv, StampedLater
<1>2. CASE TimedSenderStep /\ ClockAdvances /\ UNCHANGED rVars
  <2>1. now' \in Nat
    BY <1>2, ClockType DEF TimerInv
  <2>2. CASE TimedRecvAck
    <3> DEFINE listed == Range(listPkt') \ {NULL}
    <3>1. DOMAIN listPkt' = Slots
      BY <2>2 DEF TimedRecvAck, RecvAck, Shifted
    <3>2. \A i \in Slots : listPkt'[i] # NULL => listPkt'[i] \in listed
      BY <3>1 DEF Range
    <3>3. /\ stamped' = [id \in listed |->
                IF id \in DOMAIN stamped THEN stamped[id] ELSE now]
          /\ sent' = [id \in listed |->
                IF id \in DOMAIN sent THEN sent[id] ELSE Never]
          /\ nacked' = nacked \cap listed
      BY <2>2 DEF TimedRecvAck
    <3> HIDE DEF listed
    <3>4. \A id \in listed : StampedLater(id)'
      BY <3>3 DEF TimerInv, StampedLater, Never
    <3>. QED BY <2>1, <3>1, <3>2, <3>3, <3>4 DEF TimerInv
  <2>3. CASE TimedResend
    <3>1. /\ UNCHANGED <<listPkt, stamped>>
          /\ nacked' = nacked \cup Listed(nack)
          /\ sent' = [id \in DOMAIN sent |->
                IF id \in Listed(nack) THEN now ELSE sent[id]]
      BY <2>3 DEF TimedResend, ResendNacked
    <3>2. \A id \in DOMAIN stamped : StampedLater(id)'
      BY <3>1 DEF TimerInv, StampedLater
    <3>. QED BY <2>1, <3>1, <3>2 DEF TimerInv
  <2>4. CASE TimedSendNext
    BY <2>1, <2>4, WrittenKeeps DEF TimedSendNext, SendNext
  <2>5. CASE TimedTimeout
    BY <2>1, <2>5, WrittenKeeps DEF TimedTimeout, Timeout
  <2>6. CASE TimedNoTimeout
    BY <1>1, <2>1, <2>6 DEF TimedNoTimeout, NoTimeout
  <2>7. CASE /\ \/ SenderStart \/ RecvNack \/ RecvCorrupted \/ SenderIdle
                \/ SenderError \/ StartBurst \/ EndBurst
             /\ UNCHANGED <<stamped, sent, nacked>>
    BY <1>1, <2>1, <2>7
       DEF SenderStart, RecvNack, RecvCorrupted, SenderIdle, SenderError,
           StartBurst, EndBurst, sVars
  <2>. QED BY <1>2, <2>2, <2>3, <2>4, <2>5, <2>6, <2>7 DEF TimedSenderStep
<1>3. CASE UNCHANGED <<sVars, timers>>
  BY <1>1, <1>3 DEF sVars, timers, TimerInv
<1>4. CASE UNCHANGED timedVars
  BY <1>3, <1>4 DEF timedVars, vars
<1>. QED BY <1>2, <1>3, <1>4
         DEF TimedNext, Terminated, ClockAtEnd, timedVars, vars

(* So it holds always: every packet of the list has its timestamp. *)
THEOREM TimerInvariance == TimedSpec => []TimerInv
<1>. QED BY TimerInit, TimerNext, PTL DEF TimedSpec

(* The first packet of the list, if there is one, is stamped. *)
LEMMA HeadIsStamped ==
    ASSUME TimerInv, listPkt[0] # NULL
    PROVE  listPkt[0] \in DOMAIN stamped /\ StampedLater(listPkt[0])
<1>1. 0 \in Slots
  BY SizesAssumption DEF Slots
<1>. QED BY <1>1 DEF TimerInv

(***************************************************************************)
(* A pass of the sender's loop never leaves an expired timer unserved, for *)
(* any width of the timestamp.                                             *)
(***************************************************************************)
THEOREM TimerIsServed == TimedSpec => NoTimerIsMissed
<1>1. ASSUME TimerInv, [TimedNext]_timedVars,
             spc = "timer", spc' = "poll", listPkt[0] # NULL
      PROVE  now - stamped'[listPkt[0]] <= Delay
  <2>1. /\ listPkt[0] \in DOMAIN stamped /\ stamped[listPkt[0]] \in Nat
        /\ now \in Nat
    BY <1>1, HeadIsStamped DEF StampedLater, TimerInv
  <2>2. CASE TimedTimeout
    <3>1. stamped'[listPkt[0]] = now
      BY <2>1, <2>2 DEF TimedTimeout, Written
    <3>. QED BY <2>1, <3>1, WrapPositive
  <2>3. CASE TimedNoTimeout
    BY <1>1, <2>1, <2>3, ExpiredBounds DEF TimedNoTimeout
  <2>4. TimedTimeout \/ TimedNoTimeout
    <3>1. ~UNCHANGED spc
      BY <1>1
    <3>2. TimedSenderStep
      BY <1>1, <3>1
         DEF TimedNext, timedVars, vars, sVars, Terminated, ClockAtEnd
    <3>. QED BY <1>1, <3>1, <3>2
             DEF TimedSenderStep, TimedRecvAck, RecvAck, SenderRead,
                 TimedResend, ResendNacked, TimedSendNext, SendNext,
                 SenderStart, sVars, RecvNack, RecvCorrupted, SenderIdle,
                 SenderError, StartBurst, EndBurst
  <2>. QED BY <2>2, <2>3, <2>4
<1>. QED BY <1>1, TimerInvariance, PTL DEF TimedSpec, NoTimerIsMissed

(***************************************************************************)
(* The timer repeats a packet within Delay of its last writing only after  *)
(* a NACK, or once the clock has outgrown the timestamp.                   *)
(***************************************************************************)
THEOREM RepeatsAreExplained == TimedSpec => EarlyRepeatsAreExplained
<1> DEFINE Explained ==
        \/ now - sent[listPkt[0]] > Delay
        \/ listPkt[0] \in nacked
        \/ stamped[listPkt[0]] + Delay >= Wrap
<1>1. ASSUME TimerInv, TimedTimeout
      PROVE  Explained
  <2>1. listPkt[0] # NULL /\ Expired(listPkt[0])
    BY <1>1 DEF TimedTimeout, Timeout
  <2>2. StampedLater(listPkt[0]) /\ now \in Nat
    BY <1>1, <2>1, HeadIsStamped DEF TimerInv
  <2>3. stamped[listPkt[0]] + Delay < Wrap => now - stamped[listPkt[0]] > Delay
    BY <2>1, <2>2, ExpiredBounds DEF StampedLater
  <2>. QED BY <2>2, <2>3, WrapPositive DEF StampedLater
<1>2. TimerInv /\ [TimedNext]_timedVars => (TimedTimeout => Explained)
  BY <1>1
<1>. QED BY <1>2, TimerInvariance, PTL
         DEF TimedSpec, EarlyRepeatsAreExplained
=============================================================================
