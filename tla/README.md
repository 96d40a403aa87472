# Verification of TRTP-Network

TLA+ models, TLC runs and TLAPS proofs kept beside the code of TRTP-Network: a
sender and a receiver that transfer a file over UDP, and the link simulator the
tests put between them. Paths below are relative to the repository's `src/`,
those of the simulator to `Linksimulator/`.

## 1. The system

### Components

| component | code | state | operations |
|---|---|---|---|
| packets | `packet_implem.c`, `put_on_pkt.c`, `packet_interface.h` | none between calls, but each loop has one buffer of 512 bytes it reads and encodes in and never clears | `pkt_encode`, `pkt_decode`, the setters, `put_on_pkt`, `pkt_del` |
| sender loop | `read_write_loop_sender.c` | `listPkt` (50 packets), `base`, `nextseqnum`, `seqnum`, `window`, `lastAck`, `nack`, `buffer_update`; a timestamp in each packet | one `while` loop: read an ACK or NACK, repeat the packet of a NACK, send what the window has room for, repeat the first packet on a timeout |
| receiver loop | `read_write_loop.c`, `wait_for_client.c`, `create_socket.c` | `listPkt` (4 packets), `base`, `free_place`, `partial_ack`, `nack`, the datagram buffer, stdout | bind, wait for a first datagram, then a loop: read a datagram, place or refuse it, send the NACK and the ACK that are due, print and shift what is in order |
| main programs | `sender.c`, `receiver.c`, `real_adress.c` | which of the two has started, and how it ended | options, address, socket, file; then the loop; return |
| link simulator | `link_sim.c` | the source's address, the clock, the queue of delayed packets | start; `proxy_loop`: deliver what has expired, read one packet, relay, drop, cut, corrupt or delay it; leave the loop on an error and free the queue |
| delay queue | `min_queue.c` | a binary heap in an array | `minq_push`, `minq_pop`, `minq_peek`, `minq_empty` |
| logging | `log.c` | none | text on stderr |
| older copies, chat exercise | `sender.c`, `receiver.c`, ... at the repository's root, `SendAndReceiveData/` | - | not part of the TRTP programs |

The two programs share nothing but datagrams. A DATA packet carries one block of
the file (488 bytes, `fread` of 512 - sizeof(pkt)) under a one-byte seqnum; a
packet without payload says the file has ended. ACKs carry the seqnum that
follows the one accepted and the receiver's window; a NACK asks for a packet
again. Besides datagrams there is one more channel: an ICMP "port unreachable"
makes the next call on a connected socket fail, and this is how the sender
learns that the receiver has gone, and the receiver that the sender has. The link
simulator hides it.

### What is hard in it

* The sender, the receiver, the simulator and the two ICMP error states run
  concurrently; each pass of a loop is several system calls, and a datagram or
  an error may arrive between any two of them.
* Datagrams are lost, cut, corrupted, delayed and reordered; the same packet is
  repeated on a NACK and on a timeout while an ACK for it is under way.
* Seqnums wrap at 256 while `base` and `nextseqnum` are compared as integers, and
  the 32-bit timestamp wraps while `clock()` does not.
* Both lists are arrays of pointers, shifted in place and searched by seqnum;
  the scans have no bounds of their own, and the receiver's list is not cleared.
* `pkt_decode` is given the whole buffer whatever `read` returned: behind a short
  datagram it sees the bytes of an older one.
* A process may be killed, fail to start, or be started before its peer.
* The simulator's dates are not normalised and its heap has an unusual root.

What makes each component correct:

* *packets*: what `pkt_decode` accepts is what was sent; no byte outside the
  buffer is read and no pointer freed that nobody has set.
* *sender*: its list holds every packet not yet accepted, once and in order;
  scans and searches stay inside it; what is sent fits the receiver's window;
  an expired timer is served; it returns, and only after the whole file was
  printed.
* *receiver*: the output is a prefix of the file; it closes only after the last
  block; the window it announces is the room it has; an ACK answers a packet it
  really accepted.
* *transfer*: the file appears once, in order; both programs end, and the one
  whose peer dies notices.
* *link simulator*: each packet is in one place, none is forgotten, only the jitter
  reorders, a delay is kept, one connection is served.
* *delay queue*: a pop takes a smallest element and no other.

`PROJECT.json` lists each hazard at its line with the properties that watch it.

## 2. Modules

| module | models |
|---|---|
| `TrtpPackets` | constants of both programs, seqnums, the three kinds of datagram, which of them `pkt_decode` accepts |
| `PacketCodec` | the header's bytes, `pkt_encode`, `pkt_decode`, the setters, `pkt_del` |
| `PacketBuffer` | the one buffer of a program under any sequence of datagrams read and encoded; extends `PacketCodec` |
| `TrtpNetwork` | the two queues of datagrams, `write` with its ICMP errors, the link's faults, `kill` |
| `TrtpSender` | `main` of the sender, `read_write_loop_sender` and `clear_and_fill_buffer` |
| `TrtpReceiver` | `main` of the receiver, the bind, `wait_for_client`, `read_write_loop`, `clear_and_fill_buffer_r` |
| `Trtp` | sender, receiver and network composed; fairness; properties of a transfer |
| `TimedTrtp` | `Trtp` with `clock()`, the timestamps and the timer's own test |
| `FileTransfer` | abstract: what a transfer promises; `Trtp` is shown to implement it |
| `MinQueue` | `min_queue.c`'s operations on the heap's array |
| `PriorityQueue` | abstract: what `min_queue.h` promises |
| `DelayQueue` | the heap under any sequence of pushes and pops, implements `PriorityQueue`; what is pushed, the comparison (`minq_new`'s argument) and the address an item lies at are constants |
| `LinkSim` | `link_sim.c` as a program with a clock; uses `MinQueue` |
| `MCTrtp`, `MCTimedTrtp`, `MCPacketBuffer`, `MCDelayQueue`, `MCLinkSim` | sets for the runs |
| `NaturalLemmas` | facts on naturals all proofs use: minima, induction without an operator parameter, `div` and `%` |
| `LoopProofs` | lemmas about the two loops and the path, and what each of their actions keeps |
| `TrtpProofs` | the transfer's theorems that hold whatever the faults |
| `ReliableProofs` | those of a transfer over a path that loses nothing, with the refinement of `FileTransfer` |
| `PacketProofs` | `pkt_encode`, `pkt_decode` and the buffer |
| `TimerProofs`, `HeapProofs`, `LinkProofs` | the timer, the heap, the link simulator; `LinkProofs` instantiates `HeapProofs` with the simulator's comparison |

### How state and actions correspond

*Packets.* In the transfer a DATA packet is known by its *id*, the number of
packets made before it; its seqnum is `id % SeqSpace`, its payload the id-th
block, or none when `id >= FileLen`. So a list of packets is a function to ids,
the output is a sequence of ids, and "the output is a prefix of the file" is
`out[i] = i - 1`. What a program makes of a damaged datagram is given by
`DecodesOk` and `SeqnumSeen` of `TrtpPackets`. `PacketBuffer` justifies these two:
there a datagram is bytes, laid over the front of a buffer whose tail stays, and
`pkt_decode` works on all of it, into a `pkt_t` whose fields start as `malloc` may
leave them (`FreshPkts`, with a length of `FreshLengths`). A CRC is a function of the bytes it covers and differs
for different bytes.

*Sender.* `sstat` goes from "idle" to "running" (`SenderStart`) or "failed"
(`SenderStartFails`), then over "closing" to "done", or to "killed" or "ub". One pass of the loop is split
where another process can come between: `spc = "poll"` (poll, then at most one
datagram read: `RecvAck`, `RecvNack`, `RecvCorrupted`, `SenderIdle`, `SenderError`),
`"write"` (`ResendNacked`, `StartBurst`), `"burst"` (`SendNext` once per packet,
`EndBurst`), `"timer"` (`NoTimeout`, `Timeout`). `RecvAck` is the whole branch with
the shift and refill of the list that ends it. `freed` records packets already
freed to which `listPkt` still points; reading one moves the process to "ub".

*Timer.* `Trtp` lets the timer expire when it will. `TimedTrtp` conjoins each
action of the sender with what it does to the timestamps, and `Timeout` and
`NoTimeout` with the code's test: `Expired` adds `Delay` to a timestamp modulo
`Wrap` and compares the sum with the whole clock. The clock advances by one of
`Ticks` when a pass ends.

*Receiver.* `Bind`, `Accept` and `ReceiverStartFails`, then `rpc = "poll"`
(`Receive`, `ReceiveError`, `PollError`, `ReceiverIdle`) and `"write"` (`Answer`). A
slot is a pointer and the id behind it, because the in-place shift can leave one
packet in two slots and a free of the first leaves the other dangling:
`SafeWalk` and `SafeListing` say which memory the code reads. `Junk` is what
uninitialised memory may hold (`FreshHeap = FALSE`). `Place` takes any intact
datagram that is not a NACK for data, since the code looks at the type no
further; this matters when a failed `read` makes it decode the ACK it has just
encoded (`ReceiveError`).

*Network.* Every fault uses one unit of `MaxFaults`, and only kinds in `Faults`
happen. `premature` is a timeout while the packet or its answer is under way (a
round trip longer than the timer), `block` a socket that is not writable,
`killSender` and `killReceiver` the death of a program at any moment, the start
faults a `main` that returns before its loop. With `Proxied` the ICMP errors are
never seen.

*LinkSim.* A second has `PerSec` units and the millisecond after which a write that
blocked is tried again `Retry`; the loop may come `MaxLate` units later than
`select`'s timeout. `Pass` is one pass of `proxy_loop` after
`select` returned: `Deliver(n)` is `deliver_delayed_pkt`, stopped by a full buffer
after n writes, and `Process` is `process_incoming_pkt`, which drops, relays,
queues or fails. `PassFails` is a pass that `select`, the clock or the write of a
delayed packet ends, after those before it were written. `Malformed` is a datagram shorter than a header, `dropped` what was
given up on purpose. Every way out of the loop sets `status` to "crashed", and
`Exit` frees the queue.

## 3. Runs

| run | sizes (FileLen/SeqSpace/BufSize/RecvWin) and faults | checks |
|---|---|---|
| `reliable` | 40/16/8/4, one program may be killed; no proxy | `TypeOK`, `NoUndefinedBehaviour`, `ListIsContiguous`, `NoOverrun`, refinement `ImplementsFileTransfer`, liveness `Terminates`, `SenderNoticesDeath`, `ReceiverNoticesDeath` |
| `recovers` | 9/32/16/4, one of: datagram lost, cut, late, ACK late; proxy | `NoUndefinedBehaviour`, `OutputIsPrefix`, `NoOverrun`, liveness `Delivers` |
| `any_faults` | 4/12/9/3, any three faults, any start order, any heap | `WindowIsHonest`, `ScanStaysInList`, `AckIsAccepted`, `ReleasedIsAccepted` |
| `timer` | 3/8/5/2, one datagram lost or cut; `Wrap` 8, `Delay` 2, a clock that advances by 1 or 3 up to 14 | `NoTimerIsMissed`, `EarlyRepeatsAreExplained` |
| `codec` | three datagrams, blocks of 4 bytes, every place of an inverted byte, five lengths that `malloc` may leave | `DecodesWhatWasSent`, `StaysInBuffer`, `ReceiverFreesItsOwn`, `SenderFreesItsOwn` |
| `linksim` | 3 packets of three peers, 3 units a second, retries after 2, a loop late by up to 1, delays 2 to 5, one call that fails | `LinkTypeOK`, `OnlyJitterReorders`, `WrittenOnce`, `NothingVanishes`, `OneConnection`, `LessThanASecondEarly`, `LessThanASecondLate` |
| `delay_queue` | 7 packets, 4 dates | `HeapOrder`, refinement `ImplementsPriorityQueue` |
| `ack_lost`, `eof_first`, `long_file`, `proxied_return`, `start_race` | the smallest that show it | one property each, violated: section 5 |

What they show, and why the bounds are enough:

* `reliable`: without faults of the network the protocol implements its abstract
  specification and ends, and the survivor of a kill notices it. Liveness is
  costly, so the sizes are a fraction of 256/50/4; they keep RecvWin < BufSize <
  SeqSpace and a list that is half the seqnum space, and the file is more than
  two turns of the seqnums and five of the list, so the list is shifted past its
  first content, seqnums wrap, and every interleaving of the two loops at a wrap
  is met, with a kill at each. Deadlock is not checked: a receiver whose sender
  was killed may wait for ever; that is what the code does.
* `recovers` has the faults the code survives, one at a time; it does not survive
  every single one. A lost ACK is left out, because it makes the receiver print a
  block twice (`ack_lost`), and `Delivers` asks for the file up to its last window
  only, because the EOF may overtake a lost block of that one (`eof_first`). The
  file is well shorter than the list: from 11 blocks on, one loss can make an ACK
  release several packets while the list is refilled (`long_file`). Within these
  limits the run shows that NACK, timeout and reordering do their work.
* `any_faults` asks only what must hold whatever happens. Three faults with a
  window of three reach gaps, double pointers, stale buffers and undefined
  behaviour; the properties speak about all of these states.
* `timer`: the clock passes `Wrap` with room for two more expiries, and an advance
  of 3 is longer than `Delay`, so that a pass may find a timer long expired. The
  clock's end is a state the run may stop in.
* `codec`: 4 bytes stand for the block's 488. What matters stays: the buffer is
  eight bytes longer than the longest datagram, a block longer than an ACK's tail,
  the last block shorter than the others, and 512 the largest length the setter
  takes. Three datagrams let the bytes of a first one lie behind a second, and a
  `read` fail after a third. Every byte of every datagram is inverted once. The
  lengths left in a fresh packet include the first whose CRC2 would lie past the
  end of the buffer (497 in the code) and the last the test lets through, 512.
  What is asked of a cut datagram is what every reading of `packet_interface.h`
  asks: its lost payload is not taken from the bytes of an older one. That
  `pkt_decode` refuses its header as well is a disagreement (section 5).
* `linksim`: three packets suffice for an overtaking and a mis-ordered root;
  starting times and delays cover both sides of a second's boundary, and retry,
  lateness and second differ, so that a bound cannot hold by taking one for the
  other. Deadlock
  is checked: with a packet queued the loop or the clock can always move on.
* `delay_queue`: seven slots give two levels with two children to choose from;
  the slots' addresses are symmetric.

Fairness (`FairSpec` of `Trtp`): weak fairness of each program's steps, because
each is one thread that `poll` or a spin never blocks while something can be
done, and somebody starts it; strong fairness of the retransmission, because the
sender's loop spins and `clock()` advances, so a timer that runs again and again
must expire once; the `timer` run and `TimerIsServed` confirm this against the
code's arithmetic. The network loses only what the budget allows. Nothing fair is
asked of faults or kills.

## 4. Proofs

All theorems hold for every value of the constants the named assumptions allow.
Of the 29 properties of the passing runs, two of them checked by two runs, one
states each but the four of liveness.

| module | theorem | states |
|---|---|---|
| `TrtpProofs` | `TypeCorrect` | `TypeOK` |
| | `HonestWindow` | `WindowIsHonest` |
| | `BoundedScan` | `ScanStaysInList` |
| | `AcksAreAccepted` | `AckIsAccepted` |
| | `AcceptedIsKept` | no step takes back a block that was accepted |
| | `ReleasedWhenAccepted` | `ReleasedIsAccepted`, for files that fit the list |
| `ReliableProofs` | `CalmNeverCrashes` | `NoUndefinedBehaviour`, under `Calm` |
| | `CalmKeepsTheList` | `ListIsContiguous`, under `Calm` |
| | `CalmNeverOverruns` | `NoOverrun`, under `Calm` |
| | `CalmPrintsThePrefix` | `OutputIsPrefix`, under `Calm` |
| | `CalmIsAFileTransfer` | `ImplementsFileTransfer`, under `Calm` |
| `PacketProofs` | `DecodesTheSent` | `DecodesWhatWasSent` |
| | `CutIsRefused` | a cut datagram is refused although its header's CRC is right once TR is taken as 0 (section 5) |
| | `BufferIsNotLeft` | `StaysInBuffer` |
| | `ReceiverFreesOwn`, `SenderFreesOwn` | `ReceiverFreesItsOwn`, `SenderFreesItsOwn` |
| `TimerProofs` | `TimerIsServed` | `NoTimerIsMissed` |
| | `RepeatsAreExplained` | `EarlyRepeatsAreExplained` |
| `HeapProofs` | `HeapIsOrdered` | `HeapOrder` |
| | `HeapIsPriorityQueue` | `ImplementsPriorityQueue` |
| `LinkProofs` | `LinkTypeCorrect` | `LinkTypeOK` |
| | `PacketsAreWrittenOnce`, `PacketsAreKept` | `WrittenOnce`, `NothingVanishes` |
| | `ServesOneConnection` | `OneConnection` |
| | `OrderIsChangedByJitter` | `OnlyJitterReorders` |
| | `DelaysAreKept`, `DelaysEnd` | `LessThanASecondEarly`, `LessThanASecondLate` |

`TrtpProofs` asks nothing of the faults: any kinds, any number of them, proxied or
not, either program first, any initial heap. `ReliableProofs` assumes `Calm`.

### Assumptions

* `SizesAssumption`: RecvWin < BufSize < SeqSpace, true of 4, 50 and 256;
  `NetworkAssumption` and `ReceiverAssumption` say what the transfer's other
  constants are.
* `CodecAssumption` and `BufferAssumption`: a buffer longer than a `pkt_t`, which is
  longer than header and CRCs; a block, 488, no longer than what `pkt_set_length`
  takes, 512; a window of 5 bits and seqnums of 8. The code has 512, 24 and 512.
  Nothing is assumed of the lengths `malloc` leaves but that they are naturals.
* `TimerAssumption`: `Delay < Wrap`, true of 500000 and 2^32, and time does not go
  back.
* `OrderAssumption`: what `min_queue.c` is given compares like a strict order. For
  `pkt_slot_cmp` this is proved (`DatesAreOrdered`), so that the heap's theorems
  are the simulator's without a new assumption.
* `LinkSimAssumption` and `DirectionAssumption`: a second and the retry's millisecond
  have units, the loop's greatest lateness, delay and jitter are naturals, the loss
  rate is a percentage, directions are directions. With `PerSec` = 1000000 and
  `Retry` = 1000 the theorems speak about the code's microseconds.
* `Calm`, in `ReliableProofs` only: of all faults at most the two kills, receiver
  started first, memory fresh from `malloc` without old pointers. It is the
  setting of the run `reliable`, and every theorem that needs it names it. With
  more faults the five properties are false of the code (section 5).
* `FileLen <= BufSize - RecvWin + 1`, in `ReleasedWhenAccepted` only: files of up to
  47 blocks of 488 bytes. `long_file` shows that the property fails beyond.

### The transfer, whatever the faults

The inductive invariant `IInv` is `NetTypeOK`, `SenderTypeOK`, `ReceiverTypeOK`,
`ScanStaysInList`, `WindowIsHonest` and two small facts: a failed `read` finds a
datagram in the buffer (`BufferIsFilled`), and nothing is written to the word
after the receiver's list (`LastWordKept`). `TypeOK` is not inductive alone: that
an ACK announces no more than `RecvWin` follows only from `WindowIsHonest`, because
`free_place + n` is a sum of two counters; that the leading empty slots are
followed by a packet needs `ScanStaysInList`, and this needs that no window above
`RecvWin` was ever announced. The heart of `HonestWindow` is `ClearTakesN`
(`LoopProofs`): when the walk over the first n packets is safe, they are n
different packets (a bijection with 0 .. n-1), and the shifted list points to
exactly the others, although the slots the shift leaves behind are not cleared.
`PlaceAddsOne` is its counterpart. Where the walk is not safe the model is in
state "ub" and changes nothing.

`AckIsAccepted` needs `AckInv`. The receiver takes any intact packet but a NACK for
data, its own ACK in the buffer included, and then an ACK is due that answers no
block. This happens only after a failed `write`, so only when the sender is gone
(`rerr => SenderGone`) and no one is left to read that ACK. That a sender which
merely has not started yet cannot cause such a failure takes one more fact: the
receiver writes nothing before it was written to. `AcceptedIsKept` follows on the
way, and with `ReleaseInv` (each block is accepted or still in the list, no further
back than its place) `ReleasedWhenAccepted`: the faulty copy of
`clear_and_fill_buffer` may drop packets, but for such a file these lie past its
end.

### The transfer over a path that loses nothing

`CalmInv` says exactly what each variable holds. With `Acked` = `seqnum - BufSize` and
`Sent` derived from `nextseqnum` and `base`: the list is `Acked`, `Acked + 1`, ...; the
queue of datagrams followed by what the receiver holds and has printed are the
ids up to `Sent`; the ACKs under way answer what was printed and not acked. Two
parts of it were not in the first draft, and TLC showed that draft not to be
inductive. `WindowIsFull`: whenever the sender waits it has sent all its window
allows, and it never sends a packet of the next seqnum space before every one
of the last is acked; without this the comparison of `base + window` with the
wrapped `nextseqnum` has counterexamples. And a lone receiver: once the sender was
killed, a failed `write` makes the receiver decode its own answer, so that its
list may hold a packet that is not of the file, which is never printed.

From `CalmInv` follow the four invariants, and the refinement step by step: a
delivery maps to the abstract `Deliver`, the sender's return to `Return`, all else
stutters. So liveness is all of `reliable` that is left to TLC.

### Packets

`BufferInv` says that at the front of the buffer lies a datagram somebody sent, as
it was encoded, cut after its header with TR set, or with one byte inverted; of
what is behind it nothing is known. `Outcome` is `pkt_decode` with the setters
multiplied out (`DecodeIs`), `Laid` and `Sealed` say where `pkt_encode` puts fields
and CRCs (`EncodedIs`). The three kinds of datagram give `IntactOutcome`,
`CutOutcome` and `HitOutcome`. The last rests on an order of tests: a hit in the
first twelve bytes always breaks CRC1, one behind them leaves the length as it
was, so that CRC2 is looked for where it was put, and then breaks it. So
whatever the old bytes are, they are never what decides. An answer has no
payload, its length field is 0, and only an inverted length, or a NACK whose
inverted type lets `pkt_decode` return early, leaves a length over an unset
pointer.

### Timer

`TimerInv` says that every packet of the list has a time it was stamped at and
that one not in `nacked` was not written after it. Each timed step keeps it
whatever the rest of `Trtp` does, so these theorems need nothing of `IInv`. A sum
that wrapped is smaller than the true one: the test can only be true too often,
never too seldom. That is the first theorem; the second is its price.

### Heap and simulator

The heap's invariant says that the array is one of some size n, that no item is
greater than one below it, and that all lie at different addresses. The slots a
push or a pop visits are described by `Ascends` and `Descends` (the walk is a chain
of parents, or of smallest children, and where it stops); `AscentFacts` and
`DescentFacts` prove that the recursive functions in `MinQueue` compute such sets.
Order and content then need no recursion. `ChildFacts` is where the odd root
matters: slot 0 is its own left child, and `has_child` is right all the same,
because no item is greater than itself.

`LinkInv` is stated with `Carried`, about a queue q and a sequence w of written
packets rather than about the variables, because one pass of `proxy_loop` writes
any number of packets and then reads one: each of these steps keeps it
(`WriteOut`, `QueueUp`, `RelayOn`), and a pass is their composition. What was
written may precede what is queued (`MayPrecede`): a packet read later with no
shorter delay has the later date, field by field, although the units of dates
are not carried (`LaterReadLaterDue`), so the heap never lets it overtake. That
nothing vanishes needed one fact the runs did not ask for: before the loop has
started nothing was sent.

`LessThanASecondLate` has an invariant of its own, `LateInv`. Two dates that do not
compare as greater are less than a second apart (`NoSecondLater`); `select` waits
a retry's millisecond or exactly until the root's delay ends, `timeval_diff`'s
missing borrow included (`TimeoutIs`); and a pass in which no call failed leaves a
root that has not expired (`DeliverStops`). So what is not the root waits for less
than a second longer than it should, and the last wait and each failed call add
a retry and the lateness of the pass that follows it.

### Naturals

`NaturalLemmas` replaces the library's induction theorems, whose operator
parameters the provers cannot instantiate: a minimum exists, and a set of
counterexamples that is closed downwards and misses 0 is empty
(`NoCounterexample`). It shows that the recursive functions in `Payloads`, `Ascent`,
`Descent` and `Deliver` exist and what they return. `Division` and `ModPlus` are what
the seqnums and the dates need.

### Only model-checked

* Liveness: `Terminates`, `Delivers`, `SenderNoticesDeath`, `ReceiverNoticesDeath`.
  Liveness under fairness and ENABLED are out of the prover's reach and stay so.
* `NoUndefinedBehaviour`, `OutputIsPrefix` and `NoOverrun` where one datagram is lost,
  cut or late (`recovers`): the theorems about them assume `Calm`.
* What a recursive definition computes for every input is proved only where
  `NoCounterexample` suffices, which is everywhere it was needed.

## 5. Where code and documents disagree

Each is a run whose property TLC finds violated.

* `ack_lost`: the receiver does not know its window; a packet repeated because
  its ACK was lost falls into an empty slot and is printed twice.
* `eof_first`: the end of the file closes the transfer although a packet before
  it is missing.
* `long_file`: an ACK that releases several packets at once shifts the sender's
  list wrongly (the copy stops at index 50 - s), so a packet is lost and another
  is in the list twice; the sender then uses a freed packet.
* `proxied_return`: behind the simulator the sender never returns.
* `start_race`: a sender started first returns successfully with nothing sent.

In the models, but without a run that fails on it:

* A damaged answer whose length, or whose type if it is a NACK, was hit makes the
  sender free an uninitialised pointer (`RecvCorrupted`; `SenderFreesItsOwn` says
  that nothing else does). The receiver sets the length to 0 first.
* The uncleared list of the receiver is followed (`FreshHeap = FALSE`).
* A receiver whose sender was killed with a datagram still unread decodes its own
  answers, answers them, and never ends (`ReceiveError`; `ReceiverNoticesDeath`
  excludes exactly this).
* A sender whose receiver was killed returns EXIT_SUCCESS like any other.
* CRC1 covers the eight bytes as they are, where `packet_interface.h:48-50` asks
  for the field TR to be taken as 0: every truncated datagram is refused as
  damaged, with a header whose CRC is right by that rule. `CutIsRefused` proves
  both halves, for all sizes. The transfer survives it: a NACK, for
  seqnums 1 to 3, or else the sender's timer has the packet repeated.
* When stamp and delay no longer fit 32 bits, the sum wraps and the packet is
  repeated in each pass; after 2^32 ticks of `clock()`, 71 minutes of processor
  time, so is every first packet.
* The simulator writes a delayed packet up to a second early when another packet
  wakes it (`LessThanASecondEarly` is the bound that holds). A write that would
  block ends it unless the packet was delayed, and whoever writes first becomes
  its sender.

Seen in the code and outside the models:

* `link_sim.c:203` says the delay is "capped to 10s"; `%= 10000` makes a delay of
  10000 ms none at all (the model has the remainder).
* `tests/simple_test.sh:10,14` gives simulator and receiver the same port, so the
  second of them cannot bind it.
* A file that cannot be opened leaves a NULL `FILE *` to read from, and the
  statistics file is written to without a test.
* `receiver.c:69` takes a socket with descriptor 0 for none.

## 6. Not modelled

* The arithmetic of CRC32: that one inverted byte changes it is taken for granted.
  So is `rand`: every choice it may lead to is one of the model's.
* Statistics, logging, the text of options and addresses: no state of the transfer
  depends on them.
* The older copies at the repository's root: they include files that are not
  there, do not build, and are an earlier state of what is modelled. The chat
  exercise is a different program.
* What follows undefined behaviour: state "ub" is final.

## 7. Plan

1. `NoOverrun`, `NoUndefinedBehaviour` and `OutputIsPrefix` with one fault of the path,
   for files that fit the list: the invariant has to say which ids a gap, a
   repetition and a late ACK leave in the two lists.
2. The timed sender composed with `ReliableProofs`: with `Delay` above the round trip
   no packet is ever repeated.
3. `LinkSim` composed with the two programs in place of the budget of faults, on
   very small files.
