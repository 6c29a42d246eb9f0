# Q-PARTS: a TLA+ verification project

Q-PARTS is a multipath transport over SCION: it offers streams like those of
QUIC and spreads the data of every `Write` over several QUIC connections, each
pinned to a path of its own. This directory holds TLA+ models of its Go code,
TLC configurations that check them on small instances, and TLAPS proofs of the
central invariants for instances of any size.

## 1. Inventory

| Component | Source | State | Operations | Modelled in |
|---|---|---|---|---|
| Stream | `qparts_stream.go`, `pkg/qpnet/packet_buf.go` | `ReadBuffer`, deadlines | `Write`, `Read`, `Set*Deadline` | `Dataplane`, `Reader` |
| Dataplane | `qparts_dataplane.go` | `Streams` (one queue and one QUIC connection each), `QPartsStreams`, `completionStore` | `WriteForStream`, `writeLoop`, `readLoop` | `Dataplane` |
| Completions | `qparts_dataplane_completion.go` | a map from sequence id to completion, under a lock | `AddCompletion`, `GetOrCreate...`, `RemoveCompletion`, `AddPart`, `AddSendingPart`, `IsComplete` | `Dataplane` |
| Queue, QUIC connection | `pkg/qpnet/queue.go`, `single_stream_quic_conn.go` | entries; one QUIC stream | `Add`, `Get`; `ReadAll`, `WriteAll` | `queue`, `net`, `up` of `Dataplane` |
| Packets | `pkg/qpproto` | - | `Encode`, `Decode` | records of their fields |
| Scheduler | `scheduler.go`, `scheduler_ecmp.go` | none for a Write | `ScheduleWrite`, `splitBytes` | `Ecmp` |
| Path selection | `scheduler_ecmp.go`, `metrics.go` | the paths to a remote, their state and preference | `AddRemote`, `InitialPathSelection`, `ActivePaths` | `NetworkState` |
| Control plane | `qparts_controlplane.go` | handshakes, `NewStreamChan`, the control connection | `Connect`, `ListenAndAccept`, racing; `OpenStream`, `AcceptStream`, `ChangeStreamPreference`, `readLoop` | `Startup`; `ControlStream` |
| Connection, API | `qparts_conn.go`, `qparts.go`, `qparts_listener.go` | the stream map, options | wrappers | with the control plane |
| Metrics | `pkg/qpmetrics`, `quic_conn_tracer.go`, `qparts_dataplane.go` | counters per remote and path, global to the process | `Add*` of the tracers; `DetectCongestion`, `FindSimilarPaths` and the reset by one ticker per connection, over all remotes | `NetworkState`; the entry that a dial needs in `Startup` |
| Log silencer | `pkg/qpnet/silence.go` | a count | `silenceLog`, `unsilenceLog` | `Startup` |
| Examples | `examples/` | what they have read of a header or a file | calls of `Read` and `Write` | `Examples` |
| SCION, crypto, logging | `pkg/qpscion`, `pkg/qpcrypto`, `pkg/qplogging`, ... | a path cache, certificates | I/O | whether there is a path, in `Startup` |

How they interact: an application goroutine in `PartsStream.Write` asks the
scheduler for a decision (a list of parts, each with a dataplane stream),
creates a completion, puts the parts on the queues of the dataplane streams and
waits on the completion's channel. The `writeLoop` goroutine of every dataplane
stream moves parts from its queue to its QUIC stream, a 52-byte header and then
the data, and counts them in the completion; the one that counts the last part
removes the completion and signals the Write. At the peer the `readLoop`
goroutine of every dataplane stream reads header and data, files the part in the
completion of its sequence, and, if it brought the last byte, removes the
completion and appends the whole sequence to the `ReadBuffer` of the stream,
which it looks up in the map that `AcceptStream` fills.

Before that, `Dial` and `Accept` exchange handshakes over a control connection
and race one QUIC connection per active path, each end with one goroutine per
path; when all have said hello the loops start. Afterwards the control
connection carries the packets that open streams and change preferences: the
calling goroutine writes one and reads it back, and the `readLoop` of either end
echoes what it reads and hands new streams to `AcceptStream`.

What is hard about it: one completion is shared by as many goroutines as there
are paths; the stream map is shared without a lock; the control connection has
two readers at each end; a QUIC stream has no record marks; connections fail
between any two steps; `Write` waits for something that another goroutine has to
do; parts come in any order; the metrics are written by tracers and tickers
without a lock; a process may end before what it wrote has arrived. The hazards are listed one
by one in `PROJECT.json`.

## 2. Modules

- `Dataplane` - one direction of a connection: writers, queues, write loops, QUIC
  streams, read loops, both completion stores, read buffers, and the stream map
  at the receiver. The other direction is the same code over the same
  connections and does not share sequence ids (random 64-bit numbers), so the
  completion store that an endpoint uses for both directions is two maps here.
- `Transfer` - what the dataplane promises: a Write is taken, arrives at most
  once and whole at its own stream, and returns. `Dataplane` implements it.
- `Ecmp` - `ScheduleWrite` and `splitBytes`, exactly.
- `ControlStream` - the control connection after the handshake, word by word:
  callers of `OpenStream` and `ChangeStreamPreference`, both readLoops,
  `AcceptStream`, the stream maps.
- `Startup` - `Connect`, `ListenAndAccept` and the racing goroutines up to the
  start of the loops.
- `Reader` - goroutines in `Read` on one `PacketBuffer`, and the read deadline.
- `NetworkState` - `qpmetrics.State`, with the paths to several remotes: which of them
  become active, the tracers that count on them, and the tickers that compare the
  counts of all and reset them.
- `Examples` - the programs under `examples/` as applications of `Transfer`, and of
  a QUIC stream.
- `DataplaneInv`, `ExamplesInv` - the inductive invariants of `Dataplane` and
  `Examples`, which runs check too. `DataplaneProofs` - the proof that the first is
  one, and what follows from it directly; `DeliveryProofs` - the
  refinement of `Transfer`, and what needs more invariants on top of it.
  `ReaderProofs`, `StartupProofs`, `ExamplesProofs`, `ControlProofs`,
  `SchedulerProofs` - the proofs about `Reader`, `Startup`, `Examples`,
  `ControlStream`, and `MCScheduler` with `Ecmp` and `NetworkState`. `SumProofs` -
  induction, and lemmas about sums over finite sets, for the last three.
- `MCDataplane`, `MCScheduler`, `MCControl`, `MCStartup` - instances for TLC.
  `MCDataplane` takes the scheduling decisions from `Ecmp`, in all orders in which
  Go may range over the map of dataplane streams; `MCScheduler` joins `Ecmp` and
  `NetworkState`, the two halves of the scheduler. Two assumptions that theorems use
  are in these modules, where TLC evaluates them: `NoEmptyParts` in `MCDataplane` (no
  decision of `Ecmp` has an empty part beside another one) and
  `MCSchedulerAssumption` in `MCScheduler`.

### State and actions of `Dataplane`

| Variables | In the code |
|---|---|
| `written`, `writing`, `next` | the Writes that were made (history), the call in progress of every application goroutine, and how far its loop over the assignments is |
| `sendStore`, `recvStore` | `completionStore.Completions` at the two ends |
| `queue` | `QPartsDataplaneStream.Queue` |
| `wpc`, `wpart`, `rpc`, `rpart`, `rdata` | where the goroutine of a write or read loop is, and its locals |
| `up`, `net` | the QUIC connection, and what is written to its stream and not yet read |
| `accepted`, `storing` | `QPartsStreams` at the receiver, and a store into it under way |
| `readBuffer` | everything ever appended to `PartsStream.ReadBuffer` |
| `panicked` | the receiving process is gone |

An action is what a goroutine does between two points where another goroutine
can come in between with an effect on it: a lock, a channel, a queue, a read or
write of a QUIC stream. `Write` is `PartsStream.Write` up to `AddCompletion`,
`Enqueue` one round of the loop in `WriteForStream`, `Complete` the meeting of
`compl.CompleteChan <- true` with `<-compl.CompleteChan`. `Dequeue`,
`WriteHeader`, `WriteData`, `WriteFails`, `CountPart` are the steps of
`writeLoop`; `ReadHeader`, `ReadData`, `ReadFails`, `Lookup`, `Deliver`, `Panic`
those of `readLoop`; `AcceptStream` and `StreamStored` the begin and the end of
the map store in `AcceptStream`; `ConnectionLost` is the network's.

Abstractions, and why they lose nothing:

- The bytes of a part are known by sequence, part number and count. `IsComplete`
  adds up lengths, so lengths are kept; `AddPart` sorts by part id, so a sequence
  is the set of its parts with their ids. That the parts in the order of their
  ids are the Write is checked in `Ecmp`.
- The loops keep a pointer to the completion where the model looks it up again
  by its id. `HeldCompletionLive`, which is proved, says that these are the same.
- `AddSendingPart` and the `RemoveCompletion` after it are one step: the part
  counted is the last one, so no other goroutine has one to look up, by the same
  invariant. The two stores of `AcceptStream` (in `qparts_controlplane.go` and
  `qparts_conn.go`) put the same pointer under the same key and are one.
- A Write whose deadline has passed returns before it changes anything.
- An unlocked map read during a store is a choice of the old content, the new
  one, and the abort of the Go runtime.
- A read error without a header read before it changes nothing (`readLoop` spins).

### State and actions of the other modules

`ControlStream`: `wire` holds the 32-bit words on their way to either end. A
packet is four words (`Encode`); a `ReadAll` takes them in as many reads as it
likes (`Answer`, `ReadBody`), and nothing keeps two readers apart, so a reader can
end up with words of different packets (`Garbled` stands for the id made of
them). `Request`, `Answer`, `Return`, `CallFails` are the steps of the two calls;
`ReadFlags`, `ReadBody`, `Echo`, `ReadLoopFails`, `Apply` those of `readLoop`;
`AcceptStream` is the meeting on `NewStreamChan`, `StreamStored` the stores that
follow it; `MapRace` is the Go runtime finding two uses of the map, one of them a
store. `opened`, `returned`, `seen` and `log` are history. Preferences are stored
and never read, so they have no value.

`Startup`: `main` is where `Connect` and `ListenAndAccept` are, `racer` where
every racing goroutine is. The i-th goroutine of an end uses the i-th port of a
range, so it can only meet the i-th of the other end. What differs between
set-ups is in `config`, chosen at the start: the two `PathSelectionResponsibility`
options, how many paths are active at each end, which destinations have an entry
in the metrics, whether the path cache knows a path, and which connections may
fail (0 is the control connection). `Connect` and `DialControl` are the two halves
of the control dial, before and after `quic.Dial` returns, `BeginDial` and `Hello`
those of a racing goroutine: in between `silenced`, the count of the log silencer,
is up by one, and a dial or a `quic.Listen` that fails (`muted`) leaves it there. Two
stores into `dp.Streams` at once may end the process, or lose what was stored
(`clashed`). At this commit
nothing in the library makes paths active or makes the entries of the metrics
(`Scheduler.InitialPathSelection` calls `OnNewStream`, the call of `AddRemote` is
commented out), so a dataplane with streams exists only if the application fills
the exported `qpmetrics.State`. The other modules start from a dataplane that has
its streams.

`Reader`: bytes are numbered in the order of their Appends. `Read` is the unlocked
look at `deadlineSet`, `CheckDeadline` the locked look at the deadline, `Wait` and
`Take` the two ways through the locked part of `PacketBuffer.Read`; `AppendData`
wakes all who wait.

`NetworkState`: slices that the code only filters, shuffles and cuts are sets, and
maps and random numbers a choice. A remote is a host and a port, so one path (an
element of `Ids`) may lead to several remotes; an entry belongs to a pair of the two.
The hops and the MTU of a path do not change.
`remotes` is the map and holds pointers: `heap` has the entries they point to, of
which one may be replaced by `AddRemote` while a tracer or a ticker still holds it.
An addition is two steps, `BeginAdd` (load) and `EndAdd` (store); a tick is `Look`
and `Copy` for every path of `DetectCongestion`, `Report`, and `ResetThroughput`
and `ResetPacketloss` for every path. `MapRace` is the Go runtime finding `AddRemote`
and a range over the map at once, `AddPanics` an addition for the path id 0 or without
an entry. `begun`, `added` and `settled` are history: which additions began and ended
in an entry, and how many of them there were at the last reset that none was under way
at. Rates are compared as fractions, without rounding.

`Examples`: a program is the sequence of its calls on the stream. Its Writes are
those of `Transfer`, from which `asked`, `received` and `done` come with their
actions; over one path they arrive in the order in which they were made
(`InOrderOnPath`), over several in any order, in both cases whole
(`WholeSequences`), and over QUIC in order but in pieces. A header is announced by
one Write and read by one `Read`; what is not exactly a header makes the program
`wrong`, and it is not followed further.

## 3. Runs

All runs of `Dataplane` use two dataplane streams unless noted: with two the parts of a Write
travel separately and every pair of loops can race; a third adds no new kind of
pair. The scheduler's constants are scaled down together, so that a Write of 4
bytes is split the way the code splits one of more than 1000: `SmallWrite = 3`
and `PartsPerStream = 2` give four parts over two paths, `1` and `1` give two.
`Window` bounds what a QUIC stream takes before `WriteAll` blocks. `SeqIds` bounds the number of Writes and is
symmetric in the safety runs. Deadlock is not checked: once the sequence ids are
used up the system may rest, and after a failure a Write may wait for ever, which
is a property of its own.

| Run | What it asks | Bounds |
|---|---|---|
| `MCDataplane` | `TypeOK`, `WholeSequences`, `AtMostOnce`, `HeldCompletionLive`, `ReturnMeansSent`, `NoOrphanCompletion`, `Framed`, `InOrderOnPath` with healthy connections | 2 writers on 2 streams, Writes of 1 or 4 bytes (1 or 4 parts), window 2; about 1 million states |
| `MCDataplaneLoss` | `Inv`, `ReturnMeansSent` and the refinement `ImplementsTransfer` when one connection may be lost at any time, Writes may be empty and one stream is accepted late | Writes of 0 or 2 bytes; about 570000 states |
| `MCIsolation` | `FailureIsolation`: a Write returns and is delivered unless a connection with a part of it is lost | Writes of 1 or 2 bytes (1 or 2 parts), window 1, one connection may be lost, fairness |
| `MCControl` | `TypeOK`, `NoEchoStorm`, `OpenMeansSeen`, `OnlyOpened`, with a connection that may be lost | two loads: one goroutine with 3 streams, 2 preference changes and 3 accepts, so that an answer can be taken, echoed and accepted before the next call; and a caller at each end with a stream each; about 580000 states |
| `MCStartup` | `TypeOK`, `LoopsCoverStreams`, `DialedMeansListened`, `LogComesBack`, `ProcessSurvives` for all options, path counts and metrics, with a path or the control connection that may fail; `ComesUp` for those where the ends agree and nothing fails | 3 paths: as many as the scheduler selects; fairness; about 250000 states |
| `MCReader` | `TypeOK`, `EveryByteOnce`, `NobodyWaitsInVain`, `ReturnsWithData`, `ReadsReturn` | 3 readers, 3 bytes, reads of 0, 1 or 3 bytes: one Append can wake three, satisfy one, and leave a rest |
| `MCScheduler` | three scenarios: `GoodSelection`; `LatestPackets`, `EveryPacketCounted` and `PairsAreTwo`; `PartsAreTheWrite`, `NoEmptyPart`, `Balanced` | 4 paths to one remote, one more than a selection takes, all ties of 2 hop counts and 2 MTUs, 2 queries; two entries - two paths to one remote, of which one may have the id 0, or one path to two remotes - each queried twice, with one ticker and 3 packets, or with two tickers and 2 packets, so that each can come between any two steps of the others; one entry with 4 packets, enough for a throughput and a loss before it is replaced and after; Writes of 0 .. 1100 bytes over 1 .. 8 streams with the code's constants: both sides of the 1000-byte limit and all remainders modulo 5 and modulo the number of streams; about 620000 states, symmetric in paths, remotes and tickers |
| `MCExamples` | `TypeOK`, `Inv`, `FramesKept`, `OnePingPerRead`, `EveryEndFinishes` | headers of 2 bytes, so that a Read can return half of one; files of 0, 1 and 3 bytes, fewer and more than a header; 3 rounds of the programs that go on for ever; fairness |
| `MCTwoPaths` | `InOrder` over two paths: violated | 2 Writes |
| `MCEarlyData` | `NoPanic` when no stream has been accepted yet: violated | 2 Writes |
| `MCOpenHangs` | `CallsReturn`: violated | one caller, fairness |
| `MCOptionsDiffer` | `BothReturn` with options that differ: violated | nothing fails, fairness |

In `Dataplane` fairness is weak fairness of every loop and of a Write that has parts to
enqueue: the Go scheduler runs a goroutine that can run, and `Queue.Get` is
signalled by `Queue.Add`. Nothing obliges an application to write or accept, nor
a connection to fail. QUIC delivers what was written as long as the connection
is up. `Startup` assumes that every goroutine runs, and that the applications have
called `Dial` and `Accept`. `Examples` assumes that the programs run and that a
Write arrives as long as the process that made it does; one that has exited owes
nothing. `ControlStream` and `Reader` have readers that compete
for the same bytes: there the readers have strong fairness, since `quic-go` and
`sync.Mutex` let waiting goroutines take turns and one that finds bytes again and
again gets some of them. `CallsReturn` fails even so. Deadlock is off in these
modules too: their bounds run out, and a connection that is up has nothing left
to do in `Startup`.

### What the violated ones show

- `MCTwoPaths`: `readLoop` appends a sequence when it is complete, so two Writes
  that the scheduler gives to different paths can be read in the wrong order.
  `README.md:33` of the repository says that sequences are transferred "in the
  right order". Within a Write the order is right (`WholeSequences`), and between
  Writes on the same path too (`InOrderOnPath`).
- `MCEarlyData`: the control plane answers the opener of a stream before the
  application has accepted it; if the first data overtakes `AcceptStream`,
  `readLoop` uses a nil stream. The map is not locked either.
- `MCOpenHangs`: the answer to `OpenStream` is a packet like the request. If the
  `readLoop` of the opener's own end gets it, it takes it for a stream that the
  peer opens: it sends it back once more, offers it to `AcceptStream`, and blocks
  until someone accepts; `OpenStream` waits for the bytes. What still holds
  (`MCControl`): `OpenStream` returns only when the peer knows the stream, nobody
  sees a stream that was not opened, and a packet goes round once at a time. The
  first two are claims about a single goroutine that makes calls: `OpenStream`
  takes no lock, and two of them can read each other's answers.
- `MCOptionsDiffer`: the handshake does not say who dials, so two ends with
  different options may both listen, for ever.

Other behaviour of the code that the models contain, and that the properties are
stated around: a Write with a part on a lost connection, or of no bytes at all,
waits for ever (`FailureIsolation` says that no other does, `NoEmptyPart` that
only an empty Write has an empty part); so the sender of an empty file never ends,
while its receiver does, and a sender that ends may take its last Write with it
(`EveryEndFinishes`); a header that a `Read` tears, or that overtakes another Write,
is taken for a size, which cannot happen over one path (`FramesKept`); a dial that
fails leaves the log silenced (`LogComesBack`); an increment that a reset falls into
brings back what was reset, and no more than that (`LatestPackets`); what was counted
in an entry is gone when `AddRemote` replaces it, with an increment that is under way
(`EveryPacketCounted` says that nothing else is); `DetectCongestion` copies the paths of
all remotes into one list and `FindSimilarPaths` does not look at their ids, so that a path
which the control connection and a dataplane connection both use (two remotes, since the
port is part of the key) may be printed as similar to itself (`PairsAreTwo` says that the
pair is not one entry copied twice); `Join` succeeds whether or not a racing
goroutine failed (`DialedMeansListened` is what holds of the other end). If the listener
dials and has fewer active paths than the dialer, its loops run and write on connections
that nobody reads, since the dialer waits for one more connection and never joins;
`DialedMeansListened` says that the loops of the other end follow in all other cases. The
completion of a Write that does not return, and of a sequence that is not delivered, stays
in its store (`NoOrphanCompletion` is about the others); a
preference change for a stream that is not in the map yet (`Apply`), a dial
without an entry in the metrics (`DialPanics`), one without a known path (`Connect`) and two stores into a map at the
same time end the process; a pending `Read` does not notice its deadline.

## 4. Proofs

All safety properties and action properties that the passing runs check are proved,
and the refinement, for every value of the constants that the assumptions named below
allow.

### The dataplane's invariant

For any sets of writers, streams, paths and sequence ids, any scheduler whose
decisions are non-empty lists of parts of any sizes (zero included), any window,
any connections lost and any streams accepted late - the assumption
`DataplaneAssumption` says only that the constants have their types and that
`None` is not one of the values it stands in for:

| Theorem | States |
|---|---|
| `DataplaneCorrect` | `Spec => []Inv` |
| `TypesCorrect` | `Spec => []TypeOK` |
| `SequencesAreWhole` | `Spec => []WholeSequences` |
| `DeliveredAtMostOnce` | `Spec => []AtMostOnce` |
| `CompletionsStayLive` | `Spec => []HeldCompletionLive` |
| `StreamsAreFramed` | `Spec => []Framed` |

None of these is inductive alone: that a sequence found complete is whole needs
that its completion holds nothing but parts of its own Write, each once, which
needs that what a header announces is what follows it on the QUIC stream, which
needs that the assignment in the hands of a write loop is one that its Write made
and that no second copy of it is anywhere. `Inv` says where a part can be - not
yet enqueued, in the queue of its path, with the write loop, on the QUIC stream,
with the read loop, in the completion - and that it is in one place only.

- `SenderInv` (first half of `DataplaneProofs`): every assignment in a queue or a write loop was
  made by its Write (`Made`), no two are the same part, and the completion in
  `sendStore` has been counted for exactly the parts that are done with; so it
  cannot be complete, and is not removed, while a part of its sequence is on the
  way. `SenderCorrect` proves it from the sender's actions alone; the others
  leave the sender's variables alone.
- `ReceiverInv` (second half): units on the QUIC stream alternate between
  headers and their data, with the read loop's position deciding which comes
  first; a part on the wire is not in its completion and its sequence is not
  delivered; a completion holds parts of its own Write under their own ids; so
  the sum of the lengths reaches the sequence size only when every part with
  bytes in it is there.

`IsComplete` compares sums of lengths. The sum is the cardinality of a set of
tagged bytes (`Bytes`), which lets the proofs use the library's theorems on
finite sets: of two nested finite sets of the same size, neither is smaller.

The same `Inv` is an invariant of the run `MCDataplaneLoss`.

### Reader

`ReaderProofs` proves the safety of `Reader` for any set of goroutines and any sizes
of Appends and Reads (`ReaderAssumption`: the sizes are numbers, and an Append is not
empty, and the bounds are numbers):

| Theorem | States |
|---|---|
| `ReaderTypes` | `Spec => []TypeOK` |
| `BytesReadOnce` | `Spec => []EveryByteOnce` |
| `NoLostWakeup` | `Spec => []NobodyWaitsInVain` |
| `ReadsHaveData` | `Spec => ReturnsWithData` |

Here the invariants are inductive together with `TypeOK`. `EveryByteOnce` rests on
one fact about sequences (`MoveTheCut`: what is cut off the buffer can be moved to
the end of what was taken), `NobodyWaitsInVain` on the broadcast of `AppendData` and
on `Wait` being possible only with an empty buffer under the lock, and
`ReturnsWithData` on `Take` being the only way out of the buffer.

### Delivery

`DeliveryProofs`, from `Inv` and with the same generality:

| Theorem | States |
|---|---|
| `DataplaneImplementsTransfer` | `Spec => ImplementsTransfer` |
| `ReturnedIsSent` | `Spec => []ReturnMeansSent` |
| `PathsKeepOrder` | `Spec => []InOrderOnPath` |
| `NoCompletionLeaks` | `PartsHaveBytes` implies `Spec => []NoOrphanCompletion` |

- The refinement: `Write`, `Deliver` and `Complete` are the three steps of `Transfer`,
  every other action leaves its variables alone. That `Deliver` is a step of it needs
  `WholeSequences` and `AtMostOnce` in the state before.
- `SentInv`: as long as all connections are up, the count in a completion is at most
  the number of parts that were sent, so one that was removed had all of them sent.
- `OrderInv`: the parts on a dataplane stream stand in a line - read loop, QUIC
  stream, write loop, queue - in which a later Write of a goroutine is never before
  an earlier one, and a delivered Write is before everything in the line.
- `OrphanInv`: the hypothesis `PartsHaveBytes` says that no decision of several parts
  has an empty one. Without it the header of an empty part could be the last to
  arrive, after the data was complete, and create the completion anew. `ScheduleWrite`
  never makes such a decision: `NoPartIsEmpty` below proves that, and TLC evaluates
  the hypothesis for the decisions of every run of `MCDataplane`.

### Startup

`StartupProofs`, for any number of paths and any set of configurations:
`StartupCorrect` (`Spec => []StartupInv`) and its consequences `StartupTypes`
(`TypeOK`), `LoopsMissNothing` (`LoopsCoverStreams`), `DialedAreListened`
(`DialedMeansListened`), `LogIsRestored` (`LogComesBack`), `OneRacerIsSafe`
(`ProcessSurvives`). The invariant joins what each end knows about itself
(`RoleInv`: which states a racing goroutine can be in, given the role of its end;
`LoopsInv`) with what a hello on a connection says about the goroutine at its other
end (`HelloInv`). `SilenceInv` counts: the silencer is at the number of goroutines
that dial or failed to, plus what `Connect` did.

### Control connection

`ControlProofs`:

| Theorem | States |
|---|---|
| `ControlTypes` | `Spec => []TypeOK` |
| `EchoesDoNotPileUp` | `Spec => []NoEchoStorm` |
| `OnlyOpenedAppear` | `Spec => []OnlyOpened` |
| `OpenedIsSeen` | `Spec => []OpenMeansSeen` |

The first two are for any callers at either end; `NoEchoStorm` is inductive with
`BaseInv` (types, and the length of what is read at each step). It compares sums over
the callers and ends, which `SumProofs` reduces to cardinalities of sets of pairs. The
other two are about a single caller, as the properties are. `PacketInv` is the heart of
them: the words on the wires and in the three readers' hands are at most one packet,
each word at most once, and each reader, followed by what is on the wire before it,
has them in the order of the packet; so four words in one hand are the packet, and
nothing is garbled. `BackInv` says that what is on its way to the caller has been at
the peer.

### Scheduler

`SchedulerProofs`:

| Theorem | States |
|---|---|
| `SplitKeepsTheWrite` | `MCSpec => []PartsAreTheWrite` |
| `NoPartIsEmpty` | `MCSpec => []NoEmptyPart` |
| `SplitIsBalanced` | `MCSpec => []Balanced` |
| `CountersAreLatest` | `Spec => []LatestPackets` |
| `NoPacketIsMissed` | `Spec => []EveryPacketCounted` |
| `PairsDiffer` | `Spec => []PairsAreTwo` |
| `SelectionsAreGood` | `Spec => GoodSelection` |

The first three are for Writes of every length, over any number of dataplane streams
that `MCSchedulerAssumption` allows: a Write that is split has a byte for every part,
which with the code's 1000 and 5 means at most 200 streams (with more, a Write of 1001
bytes does have empty parts; the scheduler selects three paths). `splitBytes` is a
recursive function, and its closed form (`PieceEnd`) is proved by the well-ordering of
the numbers: `SumProofs` states induction for a set instead of a predicate, since the
provers cannot instantiate the library's. The bytes that a stream carries are a
telescoping sum.

The others are about `NetworkState` with any remotes, paths, tickers, counts of packets
and queries; `NoneAssumption` says that `None` is not an addition. `NetInv` is the
inductive invariant: every pointer in use points to an entry whose counters are each the
total of its latest additions, all of them later than the last reset at which none was
under way (`HeapInv`); what a tracer has loaded is such a total too, so that storing
the sum makes another one, whatever was reset in between (`TracerInv`); in an entry that
the map holds, or a tracer is about to store to, all additions that began have ended, but
for the tracer's own (`CountInv`); and what a ticker has in hand is an entry (`TickerInv`).
`CountInv` has to speak of the replaced entry that a tracer still holds, because
the store goes there; and `AddRemote` has to find a slot for the new entry that nobody
holds, which is a pigeonhole argument. `PairsDiffer` rests on `OnceInv` besides: a ticker
has every entry in one place, still to come, in its hand or copied, and `AddRemote` adds only
new ones to those still to come. `SelectionsAreGood` is an action property and needs
`NetInv` only for types.

### Examples

`ExamplesProofs`, for headers and pings of any length but zero, files of any sizes and
any number of rounds (`ExamplesAssumption`; with a single round quictest would be the
same program as filetransfer, so there are two at least):

| Theorem | States |
|---|---|
| `ExamplesInvariant` | `Spec => []Inv` |
| `ExamplesTypes` | `Spec => []TypeOK` |
| `PingsAreWhole` | `Spec => []OnePingPerRead` |
| `FramesStayWhole` | `Spec => []FramesKept` |

The properties are about what was received; the invariant has to say what can be read,
and what is on its way.

- `BaseInv`: which Writes there are, which call of its end made each (`MadeAt`), and
  that every call of Write that an end has got past made one. It holds of all four
  programs, and over QUIC, where Writes arrive in pieces.
- `PingInv`: the buffer of pingpong's server is a sequence of whole pings
  (`WholeInv`), no byte of which is there twice or was read before (`OnceEachInv`).
  Nothing marks where a ping begins: a `Read` of 1400 bytes returns one because every
  `Read` before it did, which is an induction along the buffer (`FirstPing`). Over
  one path the Writes that have arrived are those up to some number, and each has been
  read or is in the buffer (`OrderInv`); so the ping that is read is the one that is
  due.
- `FileInv`: in the two programs that transfer files an end writes one header and,
  after it, one body (`OnceInv`); what it has read and can read is what has arrived of
  its peer's header and body, in this order (`StageInv`). A header is never read
  together with a part of the body, since the `Read` asks for the length of a header
  and the header has arrived whole, and the body is read whole at once: over one path
  `io.ReadFull` makes one `Read`, and the loop in it is needed only where Writes
  arrive in pieces.

The same `Inv` is an invariant of the run `MCExamples`.

### Only model-checked

- Liveness, which is out of the prover's reach: `FailureIsolation`, `ComesUp`,
  `ReadsReturn`, `EveryEndFinishes`.
- The four violated properties, which are TLC's counterexamples.

## 5. Not modelled

`scheduler_sbd.go` is commented out as a whole, as is the larger part of
`packet_buf.go`; `ext_queue.go`, `NewSequenceCompletionFromData`, `GetCompletion`,
`AddPathMetrics` and the handlers of congestion events have no callers. SCION
lookups, certificates, environment and logging are I/O without protocol state.
`Close` of a stream does nothing, and `Close` of a connection closes the control
stream, which nothing handles. The examples' files, hashes and output, and the
set-up of quictest's own connection, are left out; so is what a program does with
a size that was no size.

## 6. Plan

1. `Dataplane`, `Transfer`, `Ecmp`, the invariant and its proofs: done.
2. `ControlStream`, `Startup`, `NetworkState`, `Reader`: done, their safety proved.
3. `Examples` over `Transfer`: done, its safety proved.
4. Composition: `ControlStream` and `Dataplane` sharing the stream map, for what
   holds between `OpenStream` returning and the first data.
5. An abstract service for stream opening, and `ControlStream` with its answers
   kept apart shown to implement it.
