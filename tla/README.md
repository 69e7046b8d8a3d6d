# Verification of the Go-Back-N UDP client

The repository is a command-line client that sends a file to a server over UDP:
`cliente_t2_redes --server_host --file_name --window_size --packet_size
--max_sequence_number --server_port --client_port`. It numbers packets with
`max_sequence_number` decimal digits, keeps up to `window_size` of them in flight
(Go-Back-N), resends the window when a timer expires, and takes cumulative ACKs
from the server on a second socket. The server is not part of the repository.

This directory holds TLA+ models of the client, the TLC runs that check them and
TLAPS proofs. Source paths below are relative to `src/src/`; `lib/` is vendored code.

## The system

| component | state | operations | talks to |
|---|---|---|---|
| `DataProcessor` | open file, sizes, `chunk_index`, the current chunk | `readChunk`, `remainingChunks` | called by `ClientSender::sendChunk` |
| `ClientSender` | `base_idx`, `next_seq_num_idx`, `window_map`, `acked_count`, `last_acked_packet`, `finished_sending_data`, `timeoutTimer`, `olderTimers`, `estimated_rtt`, seven mutexes and two condition variables | sender thread (`threadFun` → `sendChunk` → `sendPacketReliable`), `timeoutHandler` on timer threads, `ackedPacket` on the receiver thread | socket, `Timer`, `Client` |
| `Timer` | `stopped`, `finished`, a thread | `start`, `stop`, destructor (joins) | calls `timeoutHandler` |
| `Packet` | number, payload, `retransmitted`, `acked`, time of first sending | formatting, MD5 check, parsing | `window_map`, `ClientReceiver` |
| `ClientReceiver` | socket, thread | receive loop, `stop` | calls `Client::ackedPacket` |
| `Client` (`ClientSubject`) | configuration, owns sender and receiver | `start`, `ackedPacket`, `stopReceiver` | forwards callbacks |
| `InputProccesor`, `main` | none | parse options, build and start the client | `Client` |

What is hard: three kinds of threads share `ClientSender`'s fields under five
different mutexes, and no mutex covers the window as a whole. `ackedPacket` moves
`base_idx` and notifies without the mutexes the waiters sleep with. Sequence
numbers wrap. Timers are objects with threads of their own, stopped, replaced and
joined under a mutex their handler needs. Datagrams get lost, repeated and reordered.
`PROJECT.json` lists each hazard at its line.

What makes each part right:

* ring arithmetic: `canAdvance`, the resend loop and the count of acknowledged
  packets agree with the distance on the ring;
* sender and receiver: the server gets packets 0, 1, 2, ... in order and once; what
  the client counts as acknowledged the server has; slots of `window_map` are
  replaced only when nobody needs them; a transfer comes to an end;
* timer: at most one timer is live, stopping and joining cannot deadlock;
* `DataProcessor`: the payloads, concatenated, are the file;
* `Packet`: a number and payload come back as they were sent, and what was damaged on
  the way is not taken for an ACK;
* the estimate of the round trip time: it stays among its samples, takes none from
  retransmissions, and follows the network;
* the process: no thread uses an object that `main` has destroyed, and it ends.

## Modules

| module | models |
|---|---|
| `SeqNumbers` | the arithmetic of `ClientSender` on the ring, as operators |
| `Network` | external: UDP in both directions, and a Go-Back-N server |
| `ClientSender` | the fields of `ClientSender` and one action per critical section, field access, datagram or notify of its three kinds of threads |
| `ClientReceiver` | the receive loop; calls `ackedPacket` of `ClientSender` |
| `Client` | composes the above (`Init`, `Next`, `Spec`, `FairSpec`), and states the properties |
| `ReliableTransfer` | abstract: in-order delivery, confirmation, end. `Client` implements it |
| `Timer` | `Timer` objects and threads, `startTimeoutTimer`, `stop`, `cleanTimers` |
| `TimeoutTimer` | abstract: one timeout and the handlers it called. `Timer` implements it and `Client` uses it |
| `DataProcessor` | chunking and `generatePacketsData`, on byte positions |
| `Packet` | the text of packets and ACKs, the receive buffer, the check and the parsing |
| `RttEstimator` | `estimated_rtt`, the timeout and `retransmitted`, with time in milliseconds |
| `Lifecycle` | `initClientFromInput`, `main`, `Client::start`, and the destructors of `Client` and its members against the threads |
| `MCClient`, `MCPacket` | instances of `Client` and `Packet` for TLC |
| `SeqNumbersProofs`, `ClientProofs`, `GoBackNProofs` | theorems about the ring and about `Client`: `ClientProofs` has what holds on every network, `GoBackNProofs` what holds when paths keep their order |
| `TimerProofs`, `RttEstimatorProofs`, `LifecycleProofs`, `DataProcessorProofs`, `PacketProofs` | theorems about the module of that name |

`Client` composes `ClientSender`, `ClientReceiver` and `Network` in full. The last three
look at the same code from the side `Client` abstracts: `Packet` at what "corrupt"
means, `RttEstimator` at when a timer expires, `Lifecycle` at what comes before and
after the transfer, which it abstracts in turn to sending and finished.

### How state and actions correspond to the code

Variables keep the names of the fields. The program counters `spc` (sender
thread), `hpc[h]` (timer thread `h`) and `apc` (receiver thread inside
`ackedPacket`) say between which two lines a thread is. A wait on a condition
variable is three steps: the test of the predicate, going to sleep (which releases
the mutex) and the wake-up; `CheckAdvance`/`BlockOnPacket`/`LockForSend` for
`packet_send_cv` and `CheckChunk`/`BlockOnChunk` for `chunk_sent_cv`. A notify moves
a sleeping thread on and does nothing to one that has tested and not yet slept.
Spurious wake-ups may happen (`Wakeup`), and progress never relies on them.
`packet_send_mutex` is a variable; the mutexes that guard one access or one
critical section are the atomicity of a step, and `chunk_sent_mutex` is taken by one
thread only. `cleanTimers` has no effect on the state `Client` keeps, and `Timer`
models it.

`sendChunk` lacks a `return` after a chunk. With the build the README describes the
caller reads what is left in a register, so `ResetChunkVars` goes on to the next
chunk or to the end, nondeterministically.

The file is a number of packets per chunk, given as the running total `PacketsIn`. A
datagram is the index `k` of its packet; the wire carries `SeqNum(k)` only.
`SlotNumbers` checks that the client does write `SeqNum(k)` on packet `k`. A
null pointer dereference ends the process: `crash` says of which pointer, and all
threads stop.

The server accepts the packet whose number it expects, acknowledges the last packet
it accepted, and closes on an empty datagram, which it may answer with one. A path
that holds `ChannelCapacity` datagrams drops its oldest for a new one.

In `Packet` a string is a sequence of symbols, and MD5 a digest of symbols that contain
the string they were made from: equal only for equal strings, and never produced by
damage. Damage replaces a symbol by one of `Noise` or cuts the datagram short. One
behaviour is one datagram from sender to receiver. The client's and the server's number
of digits are set separately, as on the command lines the README shows, and may differ.
`to_string`, the division loop of `getNumberOfDigits` (`Divisions`) and the reading of
digits (`Value`) are recursive functions, digit by digit.

In `RttEstimator` one packet is in flight at a time, so an ACK always stops the timer and
the restart at `ClientSender.cpp:276` is not reached; time passes only when no thread has
something to do, so the code takes none and what falls in one millisecond happens in any
order. `ackedPacket` is one step there (its interleavings are in `Client`), the steps of
`timeoutHandler` are separate, since the flag it sets is what `ackedPacket` reads.
`ClockIsSet` is `system_clock` being changed, which the samples are taken from.

In `Lifecycle` `pc` says where each thread is, main included. Members are destroyed in
reverse order of declaration, so main's program counter tells which objects are gone
(`ReceiverDestroyed`, `SocketClosed`); `misuse` records the first use of a destroyed
one, and `exit` how the process ended: 1 for what `main` catches, "terminated" for an
exception nobody catches.

Mutants: operators marked "Mutant" are faulty variants of the definition that follows
them. `PROJECT.json` pairs each with a property that fails when it replaces the
definition.

### Operating assumptions

`1 <= window_size <= max_seq_num_b10` (the window leaves a number of the ring
unused): the program does not test it, and Go-Back-N does not work without it. The
mutant `canAdvanceOneMore` shows what happens: the server takes a resent packet for a
new one. `packet_size` and `chunk_size` are positive. An end sends only numbers that its
digits can hold. Paths keep the order
except in `client_reorder` and `client_ackcount`; a ring of 10^7 numbers, the
README's example, makes an ACK from a full ring ago unlikely, and neither the client
nor any Go-Back-N sender can tell it apart.

## Runs

| run | instance | shows |
|---|---|---|
| `client_safety` | ring 3, window 2, chunks of 4 and 1 packets, two timer threads, loss and duplication, 2 datagrams per path | 16 properties, below |
| `client_reorder` | ring 4, window 2, chunks of 3 and 1, one timer thread, duplication and reordering | slots and the window when ACKs come late |
| `client_live` | ring 3, window 2, chunks of 2 and 1, one timer thread, loss | `OnlyKnownHangs` |
| `client_hang` | ring 2, window 1, perfect network | violation: lost wake-up |
| `client_stop` | ring 4, window 2, perfect network | violation: timer stopped with a packet in flight |
| `client_ackcount` | ring 4, window 2, reordering | violation: `acked_count` exceeds the chunk |
| `client_truncated` | ring 4, window 2, perfect network | violation: end of transfer with chunks unsent |
| `packet` | 1, 2 or 4 digits at either end, numbers around the powers of ten, payloads of 1 and 2 bytes, two damages | what the format, the check and the parsing guarantee |
| `rtt_estimator` | initial estimate 9 ms, round trips of 0, 2 and 5 ms, one change of the clock by 3 or 12 ms, losses | range of the estimate, Karn's rule, what the missing margin means |
| `lifecycle` | every outcome of options and resources, two timer threads | uses of destroyed objects, threads at exit, when the process ends |
| `timer` | 4 Timer objects | ownership, joins, deadlock, refinement of `TimeoutTimer`, `OlderTimersDrain` |
| `data_processor` | files up to 20 bytes, chunks up to 5, packets up to 6, greatest int 15 | payloads are the file |

The properties of `client_safety`:

* end to end: `InOrderDelivery`, `ConfirmedWasDelivered`, and `ImplementsTransfer`, the refinement of `ReliableTransfer`;
* the window: `WindowRespected`, `SlotReuse`, `SlotNumbers`, `AckedWasDelivered`;
* threads: `MutexExclusive`, `NoSlotRace` (two threads meet in a slot of
  `window_map` under different mutexes), `NullTimerOnlyOnFirstAck`, `NoNullPacket`;
* retransmission: `ResendWithinWindow`, `ResendReachesNext`, `UsesTimeout`;
* the receive loop: `ReceiverOutlivesTransfer`; and `TypeOK`.

Bounds. In `client_safety` five packets go around a ring of three numbers: every slot
is reused, the window wraps, the second chunk starts in the middle of the ring with a
`last_acked_packet` from the first, and two handlers contend for the mutex. The window
is the largest the ring allows, where an error of one shows. Two datagrams per path
hold an old and a new one at once. In `client_reorder` the file has as many packets as
the ring has numbers: with more, an old ACK is indistinguishable from a new one.
`data_processor` has sizes that are multiples of each other and sizes that are not,
and files beyond the greatest int (`IntMax`). The models stop when the transfer
ends, so the `Client`, `DataProcessor`, `Packet` and `Lifecycle` runs do not check for
deadlock; `timer` and `rtt_estimator` do. In `packet` a digest has 3 symbols, so
that two damages can cut or change any part of it. The premise of `ServerIsHarmless`
excludes a server whose ACKs are longer than the client's buffer, and one whose whole ACK,
digest included, is shorter than the client's number; the other properties do not. In
`rtt_estimator` the weights 7/8 and 1/8 make the truncation matter from the first sample,
the clock step of 12 makes samples negative and the largest allowed, and the round trips
lie below the initial estimate, as in the code (1000 ms); from there the estimate comes
down past each of them. In `lifecycle` two handlers can be late at once, one owned by
`olderTimers` and one by `timeoutTimer`.

Fairness (`FairSpec`, `client_live` and `client_hang`): the operating system runs every
thread (weak fairness of the sender thread, the handlers and `ackedPacket`), an armed
timer expires, a thread that wants `packet_send_mutex` gets it if it is free again and
again (strong fairness of the two lock steps), and a packet or ACK that is at the head
of its path again and again is received (strong fairness per packet), without which no
protocol over a lossy network ends. Nothing is assumed of spurious wake-ups, of
losses, or of corrupt datagrams. In `timer` the holder of `timer_mutex` and the timer
threads go on, a handler returns with or without a new Timer, and `cleanTimers` gets
`timer_mutex` again and again, which is so while ACKs arrive. In `rtt_estimator` time and
threads go on, and the network does not lose every first transmission nor every
retransmission (strong fairness). In `lifecycle` all threads are scheduled, an armed timer
expires, and the receiver gets to read the server's answer even if ACKs keep coming;
nothing is assumed of the transfer, the server or the user.

### What the runs found

1. `client_hang`: lost wake-up. `ackedPacket` does not hold the mutex the sender
   sleeps with when it changes what the sender waits for, and the sender can sleep for
   ever on a network without faults.
2. `client_stop`: the timer is stopped for a comparison that is out of date. If the
   packet sent in between is lost, nobody resends it.
3. `client_ackcount`: two ACKs that change places make `acked_count` jump by almost
   a ring; the wait with `==` then never ends.
4. `client_truncated`: the missing `return` of `sendChunk`. It concerns files of more
   than one chunk (2^18 bytes).

Three passing runs delimit what the code does where no document promises anything
else. `rtt_estimator`: the timeout is the bare average. On a steady
network it comes to rest at the round trip time or below (`SettlesWithoutMargin`: the
truncation pulls it down and nothing up), and while it is below, every packet is resent
before its ACK can come and none is sampled (`EstimateStuckBelow`). `lifecycle`: after the
server's closing answer the destructors race with the end of the sender thread
(`stopReceiver` on a receiver that is gone) and with a handler that passed its test of
`finished_sending_data` (`olderTimers`, closed socket); `OnlyKnownMisuse` says that there
is no other such use. `ExitNeedsAnswer` is why the README asks for Ctrl-C. `packet`: the
digest of a data packet does not cover its number (`AcceptedIsGenuine` is about its payload
only).

`client_live` shows that, without reordering, 1 and 2 are the only ways for a transfer
to hang. `NullTimerOnlyOnFirstAck` delimits another flaw: `timeoutTimer->stop()` with
a null `timeoutTimer` is possible, on the first ACK of a transfer and never later.
With reordering `ResendReachesNext` fails too, once the ring has gone round: an ACK that
moves `base_idx` back can put base and next further apart than the window, and the wrapped
branch of the resend loop then resends nothing.

## Proofs

Every theorem holds for all values of the constants that satisfy the assumption of its
module. The inductive invariants were checked by TLC on the instances of the runs first.

`SeqNumbersProofs`: for every ring and window that satisfy `SeqNumbersAssumption`,
`canAdvance` holds exactly when the distance from base to next is less than the window
(`CanAdvanceCorrect`), an ACK adds its distance from the previous one
(`AckedIncrementCorrect`), and the resend loop's condition holds exactly until
`nseqnum` is reached (`ResendMoreCorrect`). Its lemmas relate ring positions to indices in
the file: the numbers of two packets less than a ring apart differ, and their distance on
the ring is the difference of the indices.

`ClientProofs`: for every ring, window, file, channel capacity, set of faults
(reordering included) and set of timer threads:

* `TypeCorrect`. `TypeOK` is not inductive: that a packet index is a number needs
  `InChunk` (a chunk has been read when a packet is sent).
* `MutualExclusion`. The strengthening `MutexHeld` says that whoever is between lock
  and unlock holds the mutex.
* `ReceiverStays`. The receive loop ends on an empty datagram. The invariant `CloseInv`
  says that until `finished_sending_data` there is none on either path and the server
  is open. Handlers send what they find in slots, so it needs `SlotsInUse`: a slot that
  `ackedPacket` marks or has found holds a packet.
* `TimerContract`: every step maps to a step of `TimeoutTimer` or a stutter.
* `NoEmptySlot`, `NullTimerFirstAck`, `SlotsNumbered`: `NoNullPacket`,
  `NullTimerOnlyOnFirstAck` and `SlotNumbers`. The invariant is `AnyNetworkInv`.
  `NumbersInv`: whatever the network does with them, the numbers on the paths, in
  `base_idx`, in `ackedPacket` and in a handler's copies have been given out by
  `sendPacketReliable`, and those that come back have been accepted once. `FilledInv`: a
  number that has been given out has a packet in its slot for good, so no lookup fails;
  the resend loop wraps only around a ring that has been filled. `LoopInv` ties
  `next_seq_num_idx` to the loop of `sendChunk`. `FirstAckInv` and `CrashInv`: without a
  counted ACK the sender thread does not get out of its first chunk, and from the first one
  on there is a Timer object. TLC checked it with reordering on a ring of three and four
  packets (3 948 788 states), and with all faults on a ring of four and three packets
  (1 189 062 states).

For a file that fits the ring the same invariant says of packets what it says of numbers,
and more holds on every network:

| theorem | property | file |
|---|---|---|
| `ShortFileWindow`, `ShortFileMarks` | `WindowRespected`, `AckedWasDelivered` | at most `BufferSize` packets |
| `ShortFileSlots`, `ShortFileReuse` | `NoSlotRace`, `SlotReuse` | at most `BufferSize` packets |
| `ShortFileInOrder`, `ShortFileResends` | `InOrderDelivery`, `ResendReachesNext` | fewer than `BufferSize` packets |

The first row is what `client_reorder` checks, on a file exactly as long as the ring. The
last row needs one number more: with a file of `BufferSize` packets the number after the
last packet is 0 again, and a late copy of packet 0 is accepted a second time (TLC finds
this on a ring of three). With the README's seven digits a file that fits has up to
10^7 packets.

`GoBackNProofs`: Go-Back-N itself, for files of any length. The theorems have one
hypothesis, `KeepsOrder`: the paths may lose and repeat datagrams and do not reorder them.
It is needed: when the ring has gone round, an old number can come back. On a ring of three
with reordering TLC finds `InOrderDelivery`, `WindowRespected`, `AckedWasDelivered` and
`NoSlotRace` violated; `ConfirmedWasDelivered` (see `client_ackcount`) and
`ResendWithinWindow` fail also on files that fit the ring, since a late ACK is counted as
almost a ring of packets and moves `base_idx` back. Of the file they assume that no
chunk is empty (`ClientSenderAssumption`), which `SendsEveryChunk` of
`DataProcessorProofs` justifies.

| theorem | property |
|---|---|
| `DeliversInOrder` | `InOrderDelivery` |
| `ConfirmsDelivered`, `MarksDelivered` | `ConfirmedWasDelivered`, `AckedWasDelivered` |
| `RefinesTransfer` | `ImplementsTransfer`: `Client` implements `ReliableTransfer` |
| `KeepsWindow`, `ReusesDelivered` | `WindowRespected`, `SlotReuse` |
| `SlotsNotRaced` | `NoSlotRace` |
| `ResendsWindow`, `ResendsAll` | `ResendWithinWindow`, `ResendReachesNext` |

The code keeps positions on the ring; the argument is about indices in the file. The
inductive invariant `GoBackNInv` says which packet each position stands for.
`ackedPacket` keeps only the number of the packet it was called for, so the invariant is
"for some `a`": the packet whose ACK is being handled. Its parts:

* `ChunkInv`: the loop of `sendChunk` and its counters; `next_seq_num_idx` is the number
  of the packet the loop is at;
* `WindowInv`: `base_idx` stands for a packet the server's position and the last packet
  sent are at most `window_size` ahead of; `last_acked_packet` is the last one counted;
* `AckedInv`: `aseq` is the number of `a`, which the server has and, from `setBaseIdx` on,
  is not counted yet;
* `DataInv`, `AcksInv`: data on its way is at most a window behind the server and not
  ahead of what was sent, and at most a window out of order; ACKs are in ascending order
  from the last one counted. This makes a number stand for one packet only;
* `SlotInv`: the last packets sent, as many as the ring has numbers, are in their slots,
  and only counted ones are marked;
* `ResendInv`: the two positions a handler copied under the mutex stand for packets at most
  a window apart, and its loop is between them.

TLC checked the invariant on the instance of `client_safety` (982 825 states) and on a ring
of 4 with three datagrams per path (433 301 states).

`TimerProofs`: for every number of timers, `TimerInv` is inductive; it adds to the
properties what the holder of `timer_mutex` relies on at each step (`Holder`: a Timer
is stopped before it is pushed to `olderTimers`), that Timers not yet created are
untouched (`Fresh`) and that a finished Timer is stopped. From it `OneLiveTimer`,
`CleanTimersDoesNotBlock` and the refinement `TimerImplementsTimeout`. `OwnInv` adds who
owns each Timer at each step of a replacement: `NoTimerOwnedTwice` (no double
destruction) and `NoThreadWithoutTimer`.

`RttEstimatorProofs`: for every initial value, set of delays and change of the clock,
`EstimateBounded` and `KarnHolds`. The first rests on `AverageIsBetween`, about the
truncated average for all integers. `KarnRule` needs `AgainIsFlagged`: while a packet is
in flight, an ACK of a retransmission is only on its way, or about to be, if the packet
is flagged; this is where the order of `setRetransmitted` and the sending matters.
`NeverRecovers` is `EstimateStuckBelow`: while the estimate is below the round trip time,
no step changes it. `TimeoutFirst` is why: an ACK of the packet in flight cannot arrive
before its timer has run out and the packet is flagged.

`LifecycleProofs`: for every set of timer threads, `DestructionRaces`
(`OnlyKnownMisuse`: the list of destruction races is complete), `DestroysUnused`
(`NoThreadAtExit`) and `NeedsAnswer` (`ExitNeedsAnswer`). `LifecycleInv` says which
threads exist at each point of `main` (`Launched`, `JoinedThreads`) and what has happened
when a destructor runs (`Closing`).

`DataProcessorProofs`: for every file length, chunk size, packet size and `IntMax`,
`SendsFilePrefix` (the payloads sent so far are the first bytes of the file, in order and
without gaps), `SendsNoEmptyPayload`, `SendsEveryChunk` and, for files whose size fits an
int, `StopsAtEnd`. `DataInv` relates the position in the file, the chunk index and the
last payload; the lemmas are about the rounded-up divisions.

`PacketProofs`: for any digits, numbers, payloads, digest length, buffer and number of
damages, `DatagramsUnderstood` (`RoundTrip`), `AcceptsOnlyGenuine` (`AcceptedIsGenuine`)
and `ServerDoesNotStopReceiver` (`ServerIsHarmless`). Two things carry it. The first is
`NumberReadBack`: a number written with `to_string` and leading zeros is read back as it
was; with it goes `NumberOfDigits`, that the division loop counts the digits `to_string`
writes. These are inductions on the number; the library's induction theorems take a predicate,
which the provers cannot instantiate, so `Induction` is derived, with a set in place of the
predicate, from the fact that < is well-founded, and so is the existence of the functions
that the recursive definitions name. The second is the invariant `OnTheWay`: every symbol
of the datagram is text or the symbol of the digest that was sent in that place, and
without damage the datagram is what was sent. A digest that passes the check is therefore
the one that was sent, in the place where it was sent.

Only model-checked: the liveness properties (`OnlyKnownHangs`, `OlderTimersDrain`,
`SettlesWithoutMargin`, `AnswerEndsProcess`, `WholeFileIsRead`). Fairness and ENABLED are
beyond the prover.

## Not modelled

* Vendored libraries (`lib/`: asio, cxxopts, digestpp). They are nearly all lines of the
  repository, 148 000 against 1 250 of its own, and none of its logic: the program calls
  `send_to`, `receive_from`, `resolve`, one `parse` and one MD5. What it relies on is
  stated where it is used (`Network`, `Packet`, `Lifecycle`). The models cover the
  program's own files.
* Collisions of MD5, and damage that happens to produce a valid digest.
* `estimated_rtt` with several packets in flight, where samples of one window interleave:
  every sample is still one `Average`, so `AverageIsBetween` applies.
* Values of options that parse but make no sense (`packet_size` 0, ten digits, a window
  larger than the ring): the program does not look at them and the models exclude them
  (operating assumptions above).
* How long `olderTimers` gets while no ACK arrives: one entry per timeout, without limit.
* `calculateEstimatedRTT`, `max_seq_num_sent`, `getLastChunk`, `setDetachOn`: unused.
* Logging, getters, and the text of error messages.

## Plan

Done: all modules above, their runs and the theorems above. What could follow:
`estimated_rtt` with several packets in flight, and `olderTimers` on a network without ACKs
(see the previous section).
