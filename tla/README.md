# A formal model of the reliable packet transmission protocol

TLA+ specifications, model-checking configurations and machine-checked proofs
for the file-transfer protocol in `src/`: one program sends a file over UDP,
the other writes it, with a sliding window, cumulative and selective
acknowledgements, timeouts, fast retransmission and congestion control.

Paths below are relative to the repository's parent (`src/src/packet.c` is the
file `src/packet.c` of the repository).

## 1. The system

| Part | Source | State | Operations |
|---|---|---|---|
| Datagrams | `packet.h`, `packet.c` | none | fill and read the buffers of data packets and acknowledgements |
| Sender's window | `slideWindowSender.{h,cpp}` | deque of items (`NOT_SENT`, `SENT`, `TIMEOUT`, `RESENT`, `ACKED`), left bound, bytes acknowledged, `newDataReady`, congestion window / threshold / mark / punished flag, last acknowledgement and its repetitions | `finished`, `hasDataToSend`, `prepareDataPacketsToSend`, `ackArrived`, `checkTimeout` |
| Receiver's window | `slideWindowReceiver.{h,cpp}` | deque of `RECEIVED`/`NOT_RECEIVED` items, next expected number, number of the last packet, the file | `finished`, `receiveDataPacket` |
| Handshake | `reliable_sender.cpp` (`performHandshake`), answered in `reliable_receiver.cpp` | round-trip times measured so far | rounds of 4 packets, 3 answers wanted, 60 ms per round |
| Sender program | `reliable_sender.cpp` | `condVar`, `condVarMutex`, `done`, the packets `sendData` holds | handshake, then threads `sendData` (1), `receiveAck` (2), `checkTimeout` (1), then joins |
| Receiver program | `reliable_receiver.cpp` | the running threads, each with the address it answers to | threads `receiveDataReplyAck` (2), then joins |
| Round-trip estimator | `rttEstimatorJacobson.{h,cpp}` | estimate, deviation | `ackArrived`, `getCurrentTimeoutUs` |

**Interaction.** The sender first sends handshakes until it has measured
three round trips, which give the estimator its first value; then it starts its
threads. `sendData` waits until the window has something to send,
takes a vector of packets from it and sends them. The packets do not own their
data: they point into the window's items. `receiveAck` hands every
acknowledgement to the estimator and to the window and notifies `sendData`;
`checkTimeout` marks items that are older than the estimator's timeout and
notifies too. On the other side each thread takes a datagram, hands it to the
receiver's window, which writes the file, and sends back the acknowledgement
the window returns; once the file is complete it sends the answer
`FIN_ACK_NUM` times and leaves. Each window has a mutex held by every public
method for its whole body; nothing protects a sequence of two calls.

**What is hard.** The four sender threads interleave between any two calls of
the window; acknowledgements arrive lost, repeated and in any order; a timeout
and a fast retransmission react to the same loss; the congestion window
changes size under a deque that is refilled from it; the receiver stops
answering before the sender knows it is done; the condition variable is
notified without its mutex; answers to handshakes arrive in the middle of the
transfer; the receiver may be started late; numbers of 32 bits address a file
whose size has 64.

**What makes it correct.**

- *Datagrams*: what is read is what was filled in; unknown tags are invalid.
- *Sender's window*: the deque is aligned with the left bound and as full as
  the congestion window allows; nothing that waits to be sent is forgotten; an
  acknowledged item stays so; one punishment per round of sending; growth at
  most once per window of acknowledged data.
- *Receiver's window*: the file consists of the packets slid past and the
  buffered ones, each written once at its place; the answer to a packet that
  was thrown away claims nothing.
- *Both together*: what the sender takes for delivered is in the file; no
  acknowledgement, however late, moves the sender's window past its end or
  onto a packet already acknowledged selectively; `finished` on the sender's
  side means the file is complete.
- *The programs*: they end only when the file is delivered, and they do end;
  the handshake never disturbs the windows.
- *Estimator and timeouts*: a loss is noticed in bounded time, and an
  acknowledgement that comes as usual is not taken for late.
- *Sizes and offsets*: each byte is written at its place, and finished sides
  have transferred all of the file, as far as offsets do not wrap.

The list of everything in this code that is hard to test, at its line, is in
`PROJECT.json` under `hazards`, with the properties that cover each.

## 2. The modules

```
ReliableDelivery            what the protocol promises
      ^ implements
SlideWindowProtocol         both windows + lossy, duplicating, reordering link
  |  EXTENDS  SlideWindowSender, SlideWindowReceiver -> Packet
      ^ implements
ReliableTransfer            the threads, condVar, losses, end of the transfer
  |  MCReliableTransfer     the same for TLC, with interchangeable threads
      ^ implements SlideWindowProtocol again, EXTENDS ReliableTransfer
ReliableSession             handshake, start, done, joins, addresses
  |  EXTENDS  Handshake

TimeoutDetection            checkTimeout over time
  |  EXTENDS  RttEstimatorJacobson
LargeFile                   packets, offsets and their widths
      ^ implements
SlideWindowBytes            EXTENDS SlideWindowProtocol: its file, byte by byte
```

| Module | Models | Correspondence |
|---|---|---|
| `Packet` | `packet.{h,c}` | one operator per function; the tags are the two-letter headers |
| `SlideWindowSender` | `slideWindowSender.cpp` | variables are the object's fields under their names (`senderWindow` is `slideWindow`); one action per method. `AckArrived` is built from operators for the five stages of `ackArrived` in the order of the code; `RecoverCongestion` is the punishment by a fast retransmission, `AdjustCongestion` the growth after the slide |
| `SlideWindowReceiver` | `slideWindowReceiver.cpp` | likewise; `receiverWindow` is `slideWindow`, `file` the contents of `fileToWriteFd` |
| `SlideWindowProtocol` | the critical sections of the threads over a link | `SendDataCheck`, `SendDataPrepare`, `SendDataSendTo` are the three points of `sendData`'s inner loop at which the windows are looked at or a packet leaves; `ReceiveAck`, `CheckTimeoutOf`, `ReceiveDataReplyAck` are the calls of the other threads |
| `ReliableTransfer` | the threads of both programs | `waitPc` is where `sendData` is in its outer loop, `listening` is the set of the receiver's threads that run, `toReply` the answer each of them has from the window and has not sent yet, `dataInFlight` / `ackInFlight` are the sockets and the network between them |
| `Handshake` | `performHandshake` and the answers to it | `handshakePc`, `handshakeAckReceived`; the link counts handshakes, since they are alike |
| `ReliableSession` | `reliablyTransfer` and `reliablyReceive` from start to end | `senderPc` is where the main thread of the sender is, `receivingAck` / `checkingTimeout` are its running threads, `theirAddrLen` the variable of each receiver thread: "enough", "short" or "negative" |
| `RttEstimatorJacobson` | `rttEstimatorJacobson.cpp` | the two fields and the two methods, in integers |
| `TimeoutDetection` | the loop of `checkTimeout` and one item of the window | `ageUs` is now - `lastSentTime`, `wakeInUs` the rest of the sleep, `thresholdUs` is `currentTimeoutThresholdUs` |
| `LargeFile` | the constructor, `readFile`, `finished`, the write and the slide, with the widths of their numbers | fields under their names; `file[o]` is the byte of the sent file that was written at place `o` |
| `SlideWindowBytes` | what `write` has put into the file during `SlideWindowProtocol` | `FileBytes` gives the byte at each place; no variables or actions of its own. `ImplementsLargeFile` instantiates `LargeFile` with it |
| `ReliableDelivery` | nothing in the code | abstract specification |
| `*_proofs` | | theorems and lemmas about the module they are named after |

**Data abstraction.** The 1450 data bytes of a packet are "chunk" (the bytes of
the file that belong to its number) or "stale" (what freed memory holds).
Timestamps are left out. Time is left out: `CheckTimeout(expired)` lets any
set of outstanding items expire, which includes what the estimator's timeout,
`lastSentTime` and a clock set backwards can produce. `lastAckAckedCount` is
compared with the threshold only, so it is capped at one above the threshold.
`BytesUpTo(n)` replaces the running sum of `dataSize`; the lemma
`BytesUpToStep` proves that adding one packet's `dataSize` is what it does.
The sizes that `packet.c` asserts of a datagram are those the other side fills
in; an unknown tag makes it return the invalid type and nothing else. The
receiver's pop loop is `SlidePast(window, n)` for the `n` at which it
stops. Handshake packets differ only in the time they carry, so they are
counted.

**What `LargeFile` leaves out.** It drops the assumption of the windows that
numbers do not wrap, and in exchange reduces the protocol to the use of these
numbers: any packet may be received at any time, and any cumulative
acknowledgement up to the newest may reach the sender at any time, late ones
included. Congestion and retransmission decide only when that happens. That
this reduction is right is itself checked and proved (`ImplementsLargeFile`).

**What `TimeoutDetection` leaves out.** The state of the window other than one
item. `ReceiveAck` stands for acknowledgements of any item, `Settle` for
everything that ends the wait for this one.

**The link of `SlideWindowProtocol`** is the set of all datagrams ever sent. A
datagram may be received at any time later, any number of times, or never:
loss, duplication, delay and reordering without bound, and also a thread that
is slow between reading a datagram and processing it. It grows only with new
contents, so it is finite.

**The link of `ReliableTransfer`** loses at most `MaxLosses` datagrams and
delivers the others once. Between the steps of a receiver thread, which takes a
datagram and hands it to the window (`ReceiveDataBy`), and then looks whether
the window is finished, sends the answer once or `FIN_ACK_NUM` times and
perhaps leaves (`Reply`), the other thread may do anything. The link has to be finite in this way to state what the
`FIN_ACK_NUM` copies of the last answer are good for, and for liveness. That
it does no more than the first link is `ImplementsSlideWindowProtocol`.

## 3. The runs

Constants. The code's values are `DATA_PACKET_DATA_SIZE` 1450,
`CONGESTION_WINDOW_MIN` 10, `CONGESTION_THRESHOLD_MIN` 20, shrink 62 %,
`FAST_RETRANSMISSION_THRESHOLD` 2, `INIT_WINDOW_SIZE` 200, `RECEIVE_THREAD_NUM`
2, `RECEIVE_ACK_THREAD_NUM` 2, `FIN_ACK_NUM` 4, `HANDSHAKE_NUM_AT_A_TIME` 4,
`HANDSHAKE_DUPLICATE` 3, handshake timeout 60 ms, socket timeout 50 ms. The
runs use 2, 2, 3, 62, 2, a buffer of 1 or 2, 1 or 2 threads, 2 copies, and 1
answer wanted of 2 handshakes: the order of the values (window minimum <
threshold minimum, buffer smaller than the file, fewer answers than handshakes)
is that of the code. The proofs hold for all values, the code's among them.

| Run | What it asks | Instance and why it is enough | States |
|---|---|---|---|
| `core` | all safety of the two windows, and the refinements of `ReliableDelivery` and, byte by byte, of `LargeFile` | 7 bytes = 4 packets, the last one short; buffer of 2, so packets are thrown away; window grows 2 -> 4 or shrinks to 2 or 3, so it is both larger and smaller than what is left; two repetitions trigger fast retransmission. Deadlock is checked: the link can always repeat a datagram | 245,412 |
| `transfer_safety` | the programs: termination, the final acknowledgement, the refinement of `SlideWindowProtocol` | 2 packets, buffer 1, 2 receiver threads, so that one may hold an answer while the other completes the file, 2 copies, 1 loss: as many as the copies must make up for. The threads are interchangeable, hence the symmetry (of a run without liveness). May stop when both programs have ended | 1,104,853 |
| `transfer_liveness` | both sides finish | 2 packets, 1 receiver thread (with two, more answers are sent: one is the hard case), 2 copies, 1 loss | 110,530 |
| `session` | both programs from start to end: what an ended program has done, that they end, that the handshake and the addresses change nothing for the windows | 1 packet, which is first and last at once; 2 receiver threads, so that one may answer a handshake or be lost while the other completes the file; all three outcomes of `theirAddrLen`; 1 loss, one handshake and one answer to it on the link at a time; fast retransmission on, so that a handshake answer taken for an acknowledgement would show. May stop when both programs have ended | 64,612 |
| `timeout_detection` | how late a loss is noticed, when an acknowledgement is taken for late | round trips of 33 to 40 us: from 33 us on a settled estimate is safe, and the truncations weigh most when times are small. Time in steps of 3 us, delays of the scheduler up to 5 us. The theorems hold for all values | 119,479 |
| `large_file` | which transfers finish with which bytes | integers of 4 bits, packets of 3 bytes, all sizes from 0 to 48 = as many packets as there are sequence numbers; offsets wrap from 16 on; files of 0, 20 and 50 bytes; a buffer of 2. Stops when both sides have finished, or when they are stuck | 26,895 |
| `use_after_free` | expected to fail: finding 1 | 3 packets | |
| `punishment` | expected to fail: finding 2 | 3 packets | |
| `wrap_around` | expected to fail: finding 3 | as `large_file`, files that have all bytes asked for | |
| `lost_wakeup` | expected to fail: finding 4 | as `transfer_liveness` | |
| `session_astray` | expected to fail: finding 5 | as `session`, without losses, two handshakes on the link | |
| `large_file_offset` | expected to fail: finding 6 | as `large_file`, a file of 50 bytes | |

Fast retransmission is off in the two transfer runs: the code has it as a
switch (`SLIDE_WINDOW_FAST_RETRANSMISSION`, set to true), it is covered by
`core` and `session`, and it would multiply their states. The theorems about
the programs hold with it.

What the passing runs check:

- `TypeOK`, `TransferTypeOK`, `SessionTypeOK`, `LargeTypeOK`: types; no item,
  prepared packet or datagram has a number beyond the last packet, nothing is in
  flight or in a thread's hands that was not sent or given by the window.
- `WindowsAligned`: what `ensureCorrectness` asserts in debug builds.
- `AcksWithinWindow`: no acknowledgement still to arrive pops more items than
  there are. This is the other assertion of the debug build.
- `AckedWasReceived`: what the sender takes for delivered is in the file.
- `HeadNeverAcked`: the oldest item is never `ACKED`; the protocol would stall.
- `FileIntact`: only the right chunks, only of received packets, although
  `sendto` may read freed memory (finding 1).
- `FinishedMeansDelivered`, `DoneMeansDelivered`: the sender ends only when
  the file is complete, unaltered, and the receiver is finished.
- `NeverStuck`: until the sender of a file that is long enough is finished,
  its oldest packet is outstanding (so that `checkTimeout` or an answer will
  move it) or the next round of `sendData` may take it, and the flag says so. This is the safety half of
  progress; the liveness runs add the fairness.
- `NoForgottenPacket`: the flag `newDataReady` is never cleared while a packet
  could be sent.
- `LastAckIsLeftBound`, `WindowFilled`, `GrowthPaced`: the bookkeeping of
  `ackArrived` and the congestion control agree with each other.
- `PunishedOncePerRound`, `AckedStaysAcked`: action properties.
- `IInv`: the inductive invariant of the proofs, checked before it was proved.
- `FinalAckNotLost`: when the receiver has the whole file, one final
  acknowledgement has arrived, is on its way, or is still to be sent by a thread
  that has not returned, unless `FIN_ACK_NUM` datagrams were lost. While the
  thread that completed the file holds the answer, the other may see the end and
  leave, or send an older answer `FIN_ACK_NUM` times.
- `ReceiverGetsFile`, `SenderFinishes`, `ReadyDataIsSent`: liveness.
- `ExitMeansDelivered`: when either program has joined its threads, the file is
  complete, although `receiveAck` and `checkTimeout` may go on for a while
  after `done` and handshakes may be answered last; and when the sender has,
  none of its threads is left that uses the window, which it deletes then.
- `SessionImplementsProtocol`: from start to end nothing reaches the windows but
  what the protocol allows; in particular not the answers to handshakes.
- `ReceiverProgramEnds`, `SenderWindowFinishes`, `DoneEndsProgram`: which parts
  of the session end, and under which outcome of `theirAddrLen`. The sender's
  *program* may hang all the same (finding 4): what is shown is that its
  window finishes, and that the program ends once `sendData` has set `done`.
- `EstimateBounded`, `NoFalseTimeoutWhenSettled`, `LossDetectedInTime`,
  `TimeoutInv`: estimator and timeouts. 33 us is the least round-trip time for
  which the ratio of 1.1 makes up for the truncations.
- `WrittenInPlace`, `FinishedMeansWhole`: the file, whatever its size.
- `BothFinishOnlyIf`, `BothFinish`: which transfers finish. An empty one does not
  (the receiver waits for ever), nor one of a file shorter than asked for (the
  sender does), and one whose last buffer would pass `UINT_MAX` may stall.
- `FinishedIffAcked`: the sender's 64-bit count of bytes reaches what was asked
  for exactly when its window has slid past the last packet, for a file that is
  long enough.
- `ImplementsReliableDelivery`, `ImplementsSlideWindowProtocol`,
  `ImplementsLargeFile`: refinement.

**Fairness** (`TransferFairness`, for `transfer_liveness` and `lost_wakeup`;
weak but for receiving data):

- `sendData` takes its next step: it is a running thread, or waiting and then
  nothing is assumed of it; spurious wake-ups are possible and never assumed.
- `checkTimeout` makes a pass, and an item that stays outstanding expires
  eventually: the thread loops until `done` and the estimator's timeout is
  finite.
- an acknowledgement in flight that is not lost is received: `receiveAck` loops
  on `recvfrom`. For each cumulative number, since the threads could otherwise
  take others for ever.
- the same for data, with strong fairness: a thread of the receiver is not always
  able to receive, as it sends an answer in between, but comes back to
  `recvfrom` again and again, and a socket gives out what it has in the order of
  arrival.
- a thread that holds an answer sends it.
- finitely many losses (`MaxLosses`). With a link that loses everything
  nothing is delivered.

`SessionFairness` assumes the same of the threads of the session (weak fairness
for data is enough there), that a receiver thread whose window is finished
times out and returns, and

- the receiver program is started some time, and its threads answer handshakes;
- strong fairness for receiving the answer to a handshake: each round calls
  `recvfrom` at least once before it looks at the clock, and what has arrived
  between two rounds is waiting in the socket;
- the loops of `receiveAck` and `checkTimeout` come round to look at `done`:
  `recvfrom` has a timeout, and sleeps are finite.

`FairLargeSpec` assumes that the packet at the left bound is received some time
as long as the sender is not finished, and that an acknowledgement that is
newer than the left bound, one or another, reaches the sender.

## 4. Findings

1. **Data of a deleted item is sent** (`use_after_free`). A packet prepared for
   retransmission points into an item which a late acknowledgement deletes
   before `fillBufferDataPacket` copies it. `FileIntact` shows why it goes
   unnoticed: the receiver already has that packet and discards the datagram.
   Beyond that, reading freed memory is undefined behaviour.
2. **A punishment can enlarge the window** (`punishment`). A fast
   retransmission at a window of 10 to 19 sets it to 20.
3. **Sequence numbers cannot wrap around** (`wrap_around`). The header says that
   one can make use of their wrapping. But the receiver compares a packet's
   number with the end of its buffer, and when that end wraps it throws every
   packet away: the transfer stalls for ever, some packets short of `UINT_MAX`.
   Even without that, the number after the last packet would be 0. `BothFinish`
   says when it does not happen.
4. **The last wake-up can be lost** (`lost_wakeup`). Notifying without the
   mutex may miss a `sendData` that is about to wait. `checkTimeout` repairs it
   for data that is ready, which is `ReadyDataIsSent`, but not for the end of
   the transfer: the sender then hangs with everything delivered.
5. **The last answers may go astray** (`session_astray`). `theirAddrLen` is not
   set before the first `recvfrom` of a thread. If it happens to be too small,
   the thread's first answer goes to a truncated address. If that is the answer
   that completes the file, all its copies are lost at once and both threads
   return: the sender retransmits for ever. With a negative value the thread
   consumes datagrams and never answers. `ReceiverProgramEnds` shows that too
   small a value does no harm to the receiver.
6. **Beyond 4 GiB the start is sent again** (`large_file_offset`). The offsets
   of both sides are 32-bit products. As both wrap alike nothing is corrupted,
   and as bytes are counted with 64 bits both finish; the rest of the file is
   missing.

Smaller remarks. `slideWindowSender.h:112` says that the mark at which the window
grows next is counted from the old mark; the code (`slideWindowSender.cpp:403`)
counts it from the left bound, and `GrowthPaced` shows that this is right. The
comment at `reliable_sender.cpp:201` says the first
estimate is the average of three measurements; the code (and the comment at
line 257) takes the smallest.

## 5. The proofs

The assumptions are those on the constants, each named in the module that
declares them: `SenderAssumption` (sizes positive; the congestion minimum not
above the threshold minimum; the shrink a percentage; the bytes to send below
`UINT_MAX`), `ReceiverAssumption`, `NonEmptyTransfer` (something is sent),
`TransferAssumption` (at least one receiver thread, one copy),
`HandshakeAssumption`, `SessionAssumption`,
`RttAssumption` and `LargeFileAssumption` (no more packets than sequence
numbers: with more, `lastPacketSize` exceeds the buffer it is read into). TLC
evaluates them in the runs.

`SlideWindowProtocol_proofs`:

| Theorem | Statement |
|---|---|
| `Invariance` | `Spec => []IInv` |
| `TypeCorrect` | `[]TypeOK` |
| `WindowSafety` | `[](WindowsAligned /\ AcksWithinWindow /\ HeadNeverAcked)` |
| `FileSafety` | `[](FileIntact /\ AckedWasReceived)` |
| `SenderSafety` | `[](NoForgottenPacket /\ LastAckIsLeftBound /\ WindowFilled /\ GrowthPaced)` |
| `Delivered` | `[]FinishedMeansDelivered` |
| `NotStuck` | `[]NeverStuck` |
| `PunishedOnce`, `AckedForGood` | the two action properties |
| `Refinement` | `Spec => Delivery!Spec` |

`ReliableTransfer_proofs`: `TransferImplements` (the programs implement the
windows over a link), `TransferSafety` (so the file is safe in the programs
too), `DoneDelivered` (`done` is set only when the file is delivered),
`TransferTypes`, and `FinalAckArrivesUnlessLost`: for any numbers of threads and
copies, once the receiver is finished a final acknowledgement has arrived, is on
its way, or is held by a thread that has not returned, unless `FIN_ACK_NUM`
datagrams were lost.

`SlideWindowBytes_proofs`: `FileImplements` (`Spec => ImplementsLargeFile`, if
`NumbersFit`), and `ExactCopy`: when the receiver is finished, the bytes of its
file are those asked for as far as the sent file has them, each at its place
and no others; when the sender is finished, too, that is all that was asked for.

`ReliableSession_proofs`: `SessionImplements`, `SessionSafety`, `ExitDelivered`,
`SessionTypes`; `SessionFinalAck` (`[]FinalAckNotLost`, if `AddressesFit`: with
too small a `theirAddrLen` it is false, finding 5); `SessionImplementsFile`
(the session implements `LargeFile`, if `NumbersFit`); and what the programs
are for, `ExitMeansCopied`: a receiver program that has ended leaves an exact
copy of what the file has of the bytes asked for, a sender program that has
ended leaves all of them, whatever was lost, late, repeated or reordered.

`TimeoutDetection_proofs`: `TimeoutInvariance`, and from it
`EstimateInRange`, `LossDetected`, `SettledTimeoutSuffices`.

`LargeFile_proofs`: `InPlace` (`[]WrittenInPlace`), `FinishedWhole`
(`[]FinishedMeansWhole`), `LargeTypes` (`[]LargeTypeOK`), `CountTellsEnd`
(`[]FinishedIffAcked`) and `BothFinishNeeds` (`[]BothFinishOnlyIf`).

**The argument.** The safety properties are not inductive: `HeadNeverAcked`
depends on which acknowledgements may still arrive, those on what the receiver
has, and `FileIntact` on which datagrams carry freed memory. `IInv` adds

- `SenderInv` and `ReceiverInv`, inductive for each window by itself provided
  that every acknowledgement lies within the window (`SlideWindowSender_proofs`,
  `SlideWindowReceiver_proofs`: one lemma per method);
- `SenderBehindReceiver`: the left bound never passes what the receiver expects;
- `ReceivedWasSent`: the receiver has only what the window has reached; hence
  every acknowledgement lies within the window (`NextWithinWindow`);
- `DataPacketsInOrder`: a datagram is stale only if its packet lies left of the
  window, hence of what the receiver expects, so that it is not written;
- `AcksInOrder`: a number that was acknowledged selectively, ahead of its turn,
  is never the cumulative number of any acknowledgement: the receiver passes
  over it in the same step in which it receives the packet it waited for.
  Whatever the order of arrival, the left bound never comes to rest on an
  `ACKED` item;
- `LastPacketKnown`: who has the last packet knows that it is the last.

`NextIInv` has one case per action, each resting on a lemma of its own
(`PrepareStep`, `SendToStep`, `TimeoutStep`, `AckStep`, `ReceiveStep`).
The refinement maps `confirmed` to the left bound: `ReceiveDataReplyAck` is
`Deliver` or stutters, `ReceiveAck` is `Confirm` or stutters, all other steps
stutter. For the programs, `TransferStep` shows that each step is a step of
`SlideWindowProtocol` because what is in flight was sent; the rest follows.

`FinalAckArrivesUnlessLost` rests on a count: the copies of one final
acknowledgement that are in flight and the datagrams lost add up to at least
`FIN_ACK_NUM`, until one of the copies arrives. Before that, the thread that
completed the file holds the answer (`FinalAckHeld`): only a thread that holds
none returns without sending, and any answer given by a finished window is a
final one (`FinalAckTaken`), which leaves in all its copies (`FinalAckSent`).

A step of the session is a step of `SlideWindowProtocol` because a handshake
never changes the windows and what is in flight was sent. When `senderPc` is
"exited", all threads had returned and `done` was set, hence the sender's window
was finished, and no thread is started again (`ExitStep`); a receiver
thread returns only when its window is finished; and both windows stay so.

For the timeouts, the estimate is a weighted mean of values in the range and
stays there, and `ageUs + wakeInUs` is bounded: an item sent while the thread
sleeps has an age of 0 and the sleep is at most half of the worst timeout; one
that survives a round is not older than the timeout. Time moves the one up and
the other down.

For the file, `LargeInv` says that every packet received (to the left of what
is expected, or buffered) has all its bytes at their places, and that the right
end of the buffer never wraps past the sequence numbers. A finished receiver
has received every packet up to the last, and each byte asked for lies in one
(`ByteInPacket`).

The count of bytes is a sum of sizes, `SizesUpTo`, a function defined by
recursion on the left bound. What such a sum amounts to takes an induction;
the induction theorems of the library take an operator as a parameter, so the
lemmas argue by the least counterexample instead (`LeastNat`, from the
well-foundedness of the natural numbers): of all left bounds at which the sum
is not what is claimed the least is neither 0 nor the successor of another.
`SumsOfSizes` says what the sum is: all bytes of the packets to the left, but
no more than were asked for or than the file has, each exactly once. Hence the count reaches the
end with the last packet and not before, and a file that is too short leaves
the sender waiting unless its offsets wrap.

For `FileImplements` both modules are shown to cut the file into the same
packets (`SameCut`). A packet that enters the buffer fills its places with its
bytes (`WriteLarge`), since what is stale is not written (`DataPacketsInOrder`);
both buffers then slide alike (`SlideLarge`). Any acknowledgement the
sender takes acknowledges at most what the receiver expects
(`AcksInOrder`), which is what `LargeFile` allows. The hypothesis
`NumbersFit` says that a packet has at least two bytes, no more than `UINT_MAX`,
and that the right end of the receiver's buffer stays below `UINT_MAX`: the
windows are modelled with numbers that do not wrap, and here is what they need
for it. With the code's values it holds of all that can be asked for below
4 GiB, where `SenderAssumption` ends. `ExactCopy` and `ExitMeansCopied` do not
need it. For them, the packets of the window are shown to cover the file without
a gap (`PlacesCover`, by the quotient and remainder of a place).

`SessionFinalAck` carries the count of final copies over to the session: the
addresses stay as they are (`LensStayFitting`), so an answer leaves in
`FIN_ACK_NUM` copies, and the handshake takes no acknowledgement off the link
(`HandshakeKeepsFinalAck`).

**Only model-checked:** the liveness properties (`ReceiverGetsFile`,
`SenderFinishes`, `ReadyDataIsSent`, `ReceiverProgramEnds`,
`SenderWindowFinishes`, `DoneEndsProgram`, `BothFinish`): fairness and `ENABLED`
are out of reach of the provers. All invariants, action properties and
refinements that the passing runs check are proved for all values of the
constants that satisfy the assumptions.

## 6. What is not modelled

- A failing `write` or `lseek`, and other system calls that fail: where the code
  asserts or ignores, there is no behaviour to check.
- More packets than sequence numbers (bytes to send beyond 2^32 times 1450):
  the code then reads beyond its buffer, which is undefined.
- A clock that is set back while a datagram travels. The windows are safe
  whatever expires; a bound on the detection of a loss does not exist then.
- `done` being read from a register for ever: the accesses are not
  synchronized, but the loops call functions that the compiler cannot see
  through.
- Sockets, command line, profiling and debug printing: `createTransferSocket`,
  the `create...Fd` functions, `main` and the counters keep no protocol state.
  The receive timeouts appear as actions.
- Datagrams of other programs, and datagrams of unknown type, in the transfer
  (`Packet` models how the latter are recognised).

## 7. Plan

Done, in this order: `Packet`, `SlideWindowSender`, `SlideWindowReceiver`,
`SlideWindowProtocol` with `ReliableDelivery` and the run `core`; the proofs
of the windows and of the protocol; `ReliableTransfer`, its runs and proofs;
`RttEstimatorJacobson` with `TimeoutDetection`; `Handshake` with
`ReliableSession`; `LargeFile`; the proofs of these.

After that: `NeverStuck`; `BothFinishOnlyIf` and `LargeTypeOK` proved, with the
bytes counted by a recursive function; `SlideWindowBytes` and the byte-exact
theorems, for the windows and for the programs.

Left:

1. `session` with two packets and two answers wanted: out of TLC's reach in
   minutes with liveness; without liveness the theorems cover it.
2. The invariant that bounds the number of false timeouts while the estimate
   is not settled.
3. `LargeFile` with a buffer near `UINT_MAX` joined to the windows: the
   windows with numbers that wrap, so that `NumbersFit` could be dropped.
