# 6grok in TLA+

TLA+ specifications of 6grok: the service that collects decoded packets and
serves them (`6grok-api`), and the collectors that configure a modem, read its
diagnostic stream and send frames to the service (`6grok-agent`,
`6grok-qcsuper`, `6grok-samsung-sdm`). TLC checks them on small instances;
the `*Proofs` modules hold theorems, checked by TLAPS, that hold for all values
of the constants.

## The system

| Component | State | Operations | Talks to |
|---|---|---|---|
| Ingest (`6grok-api/src/main.rs`: `run_ingest`, `ingest_client`, `process_frame`) | a listener, one task per agent connection | accept; read length, read frame, decode; mirror, store, publish | agents (TCP), store, live feed, GSMTAP |
| Packet store (`Store` under a tokio `RwLock`) | counters, bounded history, the queue of the lock | commit a packet; `/api/v1/stats`, `/api/v1/packets` | ingest tasks, REST clients |
| Live feed (`AppState.live`, `websocket`) | a broadcast channel of 2048 entries, a receiver and a socket per client | publish, subscribe, receive, report a lag, send | ingest tasks, WebSocket clients |
| GSMTAP mirror (`gsmtap.rs`) | a UDP socket | send a datagram | ingest tasks, Wireshark |
| Qualcomm log control (agent and qcsuper `main.rs`, `qualcomm.rs`, `protocol.rs`) | the modem's masks and ranges; a run's progress through its requests | probe, disable, configure: ask ranges, set masks, wait for answers | modem, by serial port or TCP bridge |
| HDLC framing | a half-read frame, an escape flag | encode, push a byte | log control, capture |
| SDM framing (`sdm.rs`: `SdmDecoder`) | a buffer | push a read | SDM capture |
| Capture, replay and import (`run_qualcomm_stream`, `run_capture`, `run_stream`, `replay_normalized_frames`, `run_vendor_records`, `emit_frame`, `WireSink`) | raw file, JSONL file, uplink, sequence number | read, save raw, decode, number, emit; replay raw; replay lines; import records | device, files, ingest |
| Vendor records (`vendor_records.rs`) | position in a file | read a header, a payload, a raw PDU; name the record | files of vendor tools, capture |
| SDM session (`open_device`, `configure_sdm`, `init_packets`, `stop_packet`) | the modem's item selection, and the packets on their way to it | start, period, deselect, select, stop | Shannon modem, other processes at its device |
| Frame codec, profiles, packet decoding | none | pure functions | all |

What is hard here: ingest tasks, handlers and WebSocket tasks interleave
(store, feed and GSMTAP are updated one after the other, under different
locks or none); receivers fall behind and connections end half way; a modem
answers late or never, among unbounded log traffic, and its answers carry no
number; runs are killed between two requests and the next run inherits what
is on the line; several processes write to one Shannon device and read nothing
back; streams are cut, spoilt and taken up in the middle; and files are left
behind by killed processes, or by other tools, for later ones to read.

What makes each part correct, in a sentence: a client sees every packet from
its subscription on or is told how many it missed; an answer shows one moment
of the store; an agent's frames arrive once and in order, and a connection
falls only for its own faults; the modem is left with whole masks of what
somebody selected, and a capture starts only when its masks are set; a Shannon
modem logs what the last configuration asked for, whatever was there before; a
file of records goes out record by record, all of it or with an error; a frame
that arrives intact is decoded, whatever came before; the outcome of a stream
does not depend on how reads cut it; whatever anybody saw of a capture can be
made again from its raw file.

## Modules

| Module | Models | Abstract specification, environment |
|---|---|---|
| `LiveFeed` | broadcast channel and `websocket` tasks | implements `Feed` |
| `Feed` | what `docs/API.md` promises a WebSocket: packets in order, gaps announced | |
| `PacketStore` | `Store` under the lock, writers and handlers | implements `AtomicStore` |
| `AtomicStore` | requests that run one at a time | |
| `ApiService` | ingest from the agents' `WireSink.send` to the feed; instantiates `PacketStore` and `LiveFeed` and ties its steps to theirs | agents that die at any byte, connections that break |
| `DiagControl` | `configure_qualcomm_logs` / `configure_logs`, probe, disable, the waits | a modem and a line |
| `Hdlc` | `encode_hdlc`, `validate_diag_frame`, `HdlcDecoder` | a line with faults |
| `SdmFraming` | `generate_packet`, `parse_header`, `SdmDecoder::push` | reads of any size |
| `SdmSession` | `open_device`, `init_packets`, `configure_sdm`, stop; several processes | a modem, users who break off |
| `Capture` | capture, `replay`, `frames` and `records` commands, `emit_frame` | a device, files, kills |
| `VendorRecords` | `read_records`, `read_exact_or_eof`, `run_vendor_records` | a file cut anywhere, reads of any size |
| `LiveFeedProofs`, `PacketStoreProofs`, `ApiServiceProofs`, `DiagControlProofs`, `HdlcProofs`, `SdmProofs`, `VendorRecordsProofs`, `CaptureProofs` | theorems; `ApiServiceProofs` instantiates the two before it, as `ApiService` does the modules they are about; `SdmProofs` is about both `SdmFraming` and `SdmSession` | |
| `MC...` | values of the constants for TLC | |

How state and actions correspond to the code is in the comment on each variable
and definition; the main decisions are these.

**LiveFeed.** `log` is everything ever published, `next[c]` a receiver's place;
the channel holds the last `Cap` entries (2048 in the code, 2 in the runs), so
a receiver lags when `next[c]` is older, and `RecvLagged` moves it to the oldest
entry there is and tells how many it skipped, as `recv()` does. A task holds at
most one message. The socket hides its peer's end for a while: a send to a peer
that has gone may still succeed (`SendSwallowed`), then fails (`SendErr`) and
ends the task.

**PacketStore.** The lock is tokio's: first come, first served, readers
together. Whatever runs under the guard takes two steps, so that a lock that
failed to exclude would show. `VendorOf`, `Clamp` and `history_limit` are the
code's conversions; the refinement files packets under their vendor, as `Filed`.

**ApiService.** A length and a body are separate writes and separate reads;
`Cut` is the remainder of a write that a dead agent left. A connection may break
(`Break`) at any time; from then on each read may still find what has come, or
fail (`ReadFails`), as `read_exact` does for any other reason than the end of the
stream. A GSMTAP send may fail at will, and ends the connection before the packet
is stored, as `?` does. So does a packet that cannot be serialized, after the
send: the decoder is an external crate, so this is a property of the frame
(`json`). What goes to GSMTAP depends on the vendor that the frame names
(`source`), what is counted on the one that the decoded packet names (`vendor`),
as in the code. Only the send of a datagram is modelled, not its arrival.

A client's WebSocket takes two steps: `Upgrade`, the 101 answer, and `Subscribe`,
the task that `on_upgrade` leaves the socket to. A client may ask for the history
before, between and after them. `heard` and `asOf` record whether its WebSocket
had brought it anything when it asked, and how many commits there were when it
was answered; `joined`, how many there were when its task subscribed. `Store` and `Live` are instances of the two
modules with the composition's own variables, and `ImplementsParts` has TLC check
that the composition is a behaviour of each.

**DiagControl.** One run at a time, `MaxRuns` in a row. A log code is a pair
`<<equipment, item>>`. The line is a queue of whole packets (module `Hdlc` is
about bytes): answers, log packets, and `Noise` for what fails the CRC. A read
takes any number of packets; what lies behind the answer in its read is lost,
and so is a packet that the end of the read cuts, which leaves `Noise`. An
answer carries no number, as in the code: the oldest answer with the expected
operation is taken, even if an earlier run asked for it. The history variable
`fresh` says whether a run found nothing of an earlier one on its way, which is
when a capture or a disable can be relied on. A wait ends after `IdleLimit` idle
reads in a row, and any bytes set the count back; the bridge may close besides.

**Hdlc.** The sender writes byte by byte, and may be killed in the middle of a
frame; a byte may be lost or changed; a new decoder may take over anywhere.
`Flip` and `Crc` are constants with the assumptions the decoder needs (`Flip` is
an involution that maps neither flag to a flag; a CRC has two bytes).

**SdmFraming.** Bytes are numbers, so that lengths are bytes: one byte here for
the two of a `u16`, with `MaxField` for 65535. `Header` of its bytes follow the
start marker, 14 in the code; the decoder looks at nothing but the two lengths.
Of the others `generate_packet` sets zero and stamp to 0 (`Zeroed` names their
places, one in the runs) and takes the rest as arguments.
`base` counts the bytes that have left the buffer, so that packets have places
in the stream.

**SdmSession.** A configuration is the row of packets that `init_packets` returns
and `configure_sdm` writes one at a time; `todo` is what is left of it. The
source does not say what a modem does with a packet, only what the packets are
for, so the modem is open where it can be: it may have anything selected at
first, a start may keep or reset the selection, a stop may empty it, and lists of
items add up or replace each other, for the modem's life (`adds`). Items count
by class: context, signaling and radio as `profile_items` groups them, and the
rest, which only `--all-items` selects. `alone` and `latest` are history: who
wrote a configuration without another writing into it, and who wrote last.

**VendorRecords.** A header is `Header` bytes (9 for MediaTek, 16 for
Samsung) of which the
first is the code or command and the second the length: the fields that
`read_records` looks at. Every read returns any number of bytes up to those
wanted. `start` is where the current record begins, and frames carry the
borders of their bytes, so that `Tiled` can compare them with the file.
`length > MAX_RECORD` cannot hold of a `u16`, and is left out.

**Capture.** The stream consists of pieces that do or do not complete a log
packet. A frame carries its number and the place of its packet. The raw file,
the lines and the uplink grow write by write (a line in three steps, a wire
frame in two), and `Dies` may strike between any two: it stands for a kill, a
failed write and a panic in `println!` alike, as none of them runs any more
code. `File` is unbuffered, so what was written survives; loss of power is not
modelled. An idle read changes nothing and is no action.

## Runs

Each run is a `.cfg` file; each finishes in about two minutes or less.

| Run | Shows |
|---|---|
| `LiveFeed` | `Placed`, `OnlyOverwrittenSkipped`: a transcript is the feed from the subscription on, with exactly the reported gaps; `ImplementsFeed`; `EverythingReported`: a connected client gets or is told of everything; `GoneIsUncounted`: one that has gone is not counted any more once a packet comes |
| `PacketStore` | `HistoryWindow`; `ImplementsAtomic`: every answer is of one moment, as if requests never overlapped; `EveryRequestServed` |
| `Diag` | three runs in a row over the bridge: `NeverOutOfRange`, `MaskIsASelection`, and, for runs that start clean, `CaptureConfigured` and `DisableSilences`; a wait ends once the line falls quiet (`QuietWaitEnds`) |
| `ApiTwoAgents` | `InOrder`, `LiveIsStored`; `NoGap`: what falls between a client's history and its WebSocket, and what never does; `MirrorCovers`; `ImplementsParts`: the whole uses the store and the feed as `PacketStore` and `LiveFeed` describe |
| `ApiRefused` | `CleanEnd`, `ErrorsExplained` with frames that are garbled, too long and cut short, and a connection that breaks; `FrameFate`: a written frame is stored, or its connection fails |
| `Hdlc` | `LossIsLocal` |
| `SdmFraming` | `Sliced`, `EveryStartAccounted`, `HoldsLessThanAPacket`, `ReadsDoNotMatter`, `CleanPacketsFound`, `OnlyCleanPackets`, `PushEnds` |
| `SdmSession` | `SelectionExact`, `NotSilenced`; `ConfigurationTakesHold`: what is begun and not broken off is what the modem logs in the end |
| `Capture` | `RawCovers`, `OutputsInStep`, `ReplayedInFull`, `ReplayReturns` |
| `VendorRecords` | `Tiled`, `EndIsHonest` |

Two runs show that the code does not do what a document or a comment says;
each checks that one statement, and TLC finds it violated:

| Run | The statement | What happens |
|---|---|---|
| `DiagBlocked` | requests fail rather than block forever (`6grok-agent/src/main.rs:223`) | an answer is lost, and steady log traffic sets the idle count back each time (`WaitEnds`) |
| `DiagStale` | response status is checked (`docs/QUALCOMM_CONTROL.md:51`) | two runs are killed while they wait; the third takes the answers to their requests for its own, and captures before the modem has handled its `SET_MASK` (`EveryCaptureConfigured`) |

Six more sentences of the documents differ from the code; they are seen in the
source and have no run of their own:

- statistics count *active* WebSocket subscribers (`docs/API.md:66`), but a
  client that leaves while nothing is published stays counted
  (`receiver_count()`, `6grok-api/src/main.rs:176`);
- item IDs are validated, then SET_MASK is sent (`docs/QUALCOMM_CONTROL.md:26`),
  but a code is validated when its equipment's turn comes, after the lower
  equipments are configured (`6grok-agent/src/main.rs:299`);
- without `--log` masks stay as they are (`docs/QUALCOMM_CONTROL.md:5`), but a
  `--profile` alone changes them (`6grok-agent/src/main.rs:146`);
- `--raw-capture` stores the exact incoming stream
  (`docs/QUALCOMM_CONTROL.md:28`), but what is read during the waits is not in
  it (`6grok-agent/src/main.rs:377`);
- the SDM decoder checks `length1 == length2 + 3` (`docs/MULTI_VENDOR.md:113`),
  but the sum saturates (`sdm.rs:350`): with a length1 of 65535 three wrong
  length2 pass. `OnlyCleanPackets` says just what is accepted there;
- synthetic Samsung IDs and native `0x24xx` frames are kept distinct
  (`docs/MULTI_VENDOR.md:149`), but `records --format samsung --log 0x2401` makes
  the latter of a file of the former (`vendor_records.rs:73`).

Two of the properties say less than one might expect, because the code does.

- `NoGap`. A WebSocket client is answered 101 (`ws_upgrade`) before the task that
  subscribes for it runs (`6grok-api/src/main.rs:200`). If it asks for the history
  as soon as it has the answer, a packet may be committed after the history was
  read and published before the task subscribes, and reaches the client neither
  way. `NoGap` lets just this happen (`~heard[k] /\ i <= joined[k]`): what is
  committed once the task has subscribed is never missed, and nothing at all is by
  a client that asks after its WebSocket has brought it a packet. No document
  promises more; without this disjunct TLC finds the race.
- `OnlyCleanPackets`. What the decoder hands out is what `generate_packet` makes,
  except in the bytes it does not check: zero, stamp, and a length2 that
  saturates.

**Bounds.** Two clients and a channel of two with four packets, of two values in
turn, let one receiver lag, twice even, while the other keeps up. Two writers
and two readers are the fewest that exclude and share; three commits overrun a
history of two. Two equipments with two items, one of which the modem lacks,
give one run two masks, and selections that are skipped, refused and merged;
three runs are what it takes for answers of the first two to satisfy a capture,
and `Diag` and `DiagStale` have three. The requests for packets are below the
least and above the greatest limit, so both are clamped; the greatest is 1 in
the run `PacketStore`, as 2 takes much longer, and `AnswersAtomic` is about any.
Two agents: in one run with good frames, but that the last of the first agent
cannot be serialized, where agents and client stay; in the other one with a good
frame before a garbled one, which may stop or be killed and whose connection may
break (`Ending`), one with a frame that is too long, and a client that may leave
while it listens (`Leaving`). `MaxWire` bounds what lies on a connection unread:
one length or frame in the first run, so that an agent waits for its task after
each, and two in the second, so that a complete frame lies behind the length
that is refused. The first run has `ImplementsParts`, whose steps are many, and
the second liveness; neither would finish soon with all of it, and the theorems
hold for any `Ending`, `Leaving` and `MaxWire`. Four bytes are the two flags
and what `Flip` makes of them, and packets of at most two bytes have CRCs with
every byte in them. Seven SDM bytes hold a complete packet behind a false start,
and every division into reads is explored. Two processes at a Shannon modem
write into each other's configurations, in five of the six modes (`full` selects
what `signaling` and `radio` do, in one configuration), and an inbox of two
makes them wait for the modem in between. Seven bytes of vendor file hold three
records, or a record and one cut short, and outgrow the `MaxRecord` of a raw
PDU. Two pieces make two frames, so that one sink can be a frame ahead of
another; three commands are a capture and both replays, and an import may come
before, between or after them; the archives end inside a record, between two,
and have a record of no known code.

Every safety and action property of the passing runs is proved for all values of
the constants, so the bounds need only be wide enough for the interesting cases
to happen; each run was also seen to fail when a plausible mistake is put into
one of the definitions it checks.

`CHECK_DEADLOCK FALSE` stands where the model rightly stops: when everything
that the bounds allow has been published, sent or run.

**Fairness.** Weak fairness on the steps of tasks, for the tokio runtime polls
every task that is ready; on `Grant`, for the lock's queue is in order; on the
websocket tasks' steps, which end with their sends; on a run's own steps, for a
process that is not killed runs, and a read either returns bytes or times out;
on `SdmFraming!Turn` and `Capture!Step` likewise; on
`SdmSession!Write` and `SdmSession!Handle`, for a process that is not killed writes
on and a modem reads its device (a modem that does not blocks the write, and
nothing can be promised). Nothing makes agents, clients or users act. The modem
is fair in `FairModemSpec` only, where every request is handled in the end, and
the line becomes quiet only as the premise of `QuietWaitEnds`.

## Proofs

*LiveFeedProofs.* The invariant `IInv` joins the types to what relates a
transcript, the message its task holds and the receiver's place: the places
reported by the transcript add up to `at[c]`, the message held continues there,
and the receiver's `next[c]` lies behind both. `Placed` alone is not inductive,
for it says nothing of the message that is on its way. From it follow
`TypeCorrect`, `FaithfulTranscript`, `LagIsReal`, and, step by step,
`FeedImplemented`: each step of the tasks is a step of `Feed` or leaves it alone.

*PacketStoreProofs.* `Queued` says that the lock's queue is just the tasks that
wait, `WriterAlone` that nobody is inside with a writer, and `Assigned` what each
task asked for. On them rest three parts about the data: `Counted`, each counter
is the number of commits it counts; `Windowed`, the history is the latest
commits, all of them or all but the one that the writer inside has still to
retain; and `ReadTrue`, what a handler read in its first step is still so, since
no writer can have come in between. `HistoryWindow` alone is not inductive: it
does not say which packet the writer holds. `HistoryKept` is that window for
every `--history`; `AnswersAtomic` maps a count to a commit of `AtomicStore`, an
answer to an answer computed from the log at that moment, and every other step
to a stutter.

*ApiServiceProofs.* The store's and the feed's own invariants are parts of this
one, through instances of their proof modules; what is to be shown of them is
only that each step of the service is a step of the store, of the feed, or of
neither (`StoreKeeps`, `LiveKeeps`). Three parts are added. `Stream`: what is left
on a connection continues where its task has stopped, as far as the agent has
written, but for the piece that a dying agent leaves; so a task reads a length
where it expects one, and the end of the stream means what it seems to mean.
`Position`: the frames stored of an agent are its first ones, and the frame its
task holds is the next, or the last once it is counted; while it reads, it holds
none, so that a failed read is told from a failed frame. `Tied`: what is live is
stored, and what a task has still to publish is not live yet, which makes
`InOrder` inductive. `NoGap` alone is not: it says nothing of a client that has
not been answered. `Covered` says that everything committed since a task
subscribed is on the feed behind its start or about to be (`OnFeed`), and `Asked`
that a client which had heard from its WebSocket when it asked had been
subscribed when it was answered; `NoGap` follows from the two. That the bounds of `PacketStore` and `LiveFeed`
never hold a task back (`RoomLeft`) is counted: the frames stored, and those in
the hands of tasks, are different frames. From the invariant follow
`SentInOrder`, `LiveIsInHistory`, `NothingMissed`, `MirrorAgrees`, `EndsClean` and
`DropsExplained`; `PartsImplemented` is the refinement of both parts at once, and with
`AnswersAtomic` and `FeedImplemented` it gives `PromisesHold`: the service as a
whole implements `AtomicStore` and `Feed`. `ScriptAssumption` makes each
frame of a script a thing of its own, with one place in one script: two captures
of equal bytes are two frames, which their `id`s tell apart.

*DiagControlProofs.* The invariant says of every mask request, wherever it is
(in the modem's inbox, or still to be written by the run), that it is the whole
selection of one user for its equipment, within the modem's range, and of
every answer to a range request on the line that its ranges are the modem's.
From it `MasksInRange` (`set_mask_request` never fails, nor does the modem get
an item beyond its range) and `WholeSelections`. A second invariant, `Own`, is
about a run that starts clean: at most one request or answer is on its way
(`Alone`), a good answer means that the modem has done what was asked
(`Faithful`), and the equipments the run is through with keep their masks
(`Done`). It yields `CapturesConfigured` and `DisablesSilence`, which
`CaptureConfigured` and `DisableSilences` alone would not: they say nothing of
the time before the capture begins or the disable returns.

*HdlcProofs.* The invariant ties the decoder to the sender's place: unless the
frame is spoilt, the decoder's `frame` is what the sender has written of the
current packet and its escape flag the sender's half-written escape; and no
frame in progress has been decoded yet. `LossStaysLocal` follows for every
alphabet, checksum and set of packets that satisfy the assumptions.

*VendorRecordsProofs.* `InRecord` says how far the reader is in its record and what
it has checked of it: never beyond the header while it reads one, never beyond
the payload that the header announces. With it `Tiled` and `EndIsHonest` are
inductive together: a frame is emitted exactly when the reader stands at the
border that `InRecord` bounds it by, which gives `RecordsTile` and `HonestEnd` for
files of any length, any header and any limit.

*SdmProofs, the decoder.* `Buffered`, that the buffer is the stream from `base` on, turns
every place in the buffer into a place in the stream; `Settled` says that what
waits between two reads is empty or may still become a packet, and `Verified`
that what was handed out has passed the header's check. With them `Sliced` and
`EveryStartAccounted` are inductive, and `HoldsLessThanAPacket` and
`OnlyCleanPackets` follow: `FramesAreSlices`, `NoStartIsLost`, `MemoryIsBounded` and
`PacketsAreClean` hold of streams of any length and for any header size, gap and
limits of the model. Its lengths are single symbols with any `MaxField`, where the
code has two bytes each: a stream of the code is one of the model's when the two
bytes of a length are read as one symbol, so that the theorems are about the
decoder's search and its checks, not about how `parse_header` puts a `u16`
together.

`CleanPacketsAreFound` needs `Reported` besides: a marker is reported only if some
bytes from it on were rejected, and lies in no packet. A verdict stands when
more bytes arrive (`VerdictStands`), and a clean packet is accepted
(`CleanIsAccepted`); so its marker has not been reported, is not what the decoder
still waits at, and is not in another packet unless a marker comes before it.

`AnyReadsWillDo` compares the decoder with a function defined by recursion over
the stream. `Scanned` shows first that the recursion has a solution, and that it
is what `AllAtOnce` evaluates: if there were none, some shortest rest of the stream
could not be scanned, but its scan needs only those of shorter ones
(`LeastElement` takes the place of the library's induction theorems, which the
provers cannot instantiate). The invariant is `OnTrack`:
whatever is still to be read, what has been found, followed by what a scan from
the buffer's place finds in the stream so continued, is what a scan of the whole
finds. Quantifying over the continuations makes it inductive, since a read is
the first part of one.

*SdmProofs, the sessions.* `InTurn` says that what a process has yet to write is
the end of its command's packets. For `SelectionIsExact`, `OnItsWay` follows one
configuration that nobody disturbs: its packets lie in the line in order, and
after the modem has handled `d` of them each group is empty that the first `d`
empty, and holds what is wanted where they select it; a group counts from its
emptying on, so what the modem had selected, and whether it adds lists up, is
forgotten. `d` is negative while packets of others lie before. For
`ModemIsNotSilenced`, `Mended` says of each group that all profiles select that
it will be selected by a process that is still writing, or in the line behind
all that would empty it, or holds a selection already; every packet that empties
a group has one behind it, in the same command, that fills it (`MendsItself`).

*CaptureProofs.* While a command runs, the invariant (`Running`) gives for each
place in the program how far each output must be: `Past` frames are behind the
command, and the one at hand is in the outputs that come before its place and in
no other; between commands it says what the last one left (`Together`,
`Replayed`). `Files` says that lines and raw file are as some command made them,
torn at the end only, and `AllCovered` that the raw file holds the packet of
every frame that any output has of its capture, because a read is written in
full before it is decoded. A property like `OutputsInStep` holds at a kill
because it holds at every step, so `Dies` needs no more than `EndsTogether`.
`OutputsNeverPart`, `NothingUnrecorded` and `ReplaysAreComplete` follow for streams,
files and rows of commands of any length.

Type correctness is a theorem of every component.

The proofs rest on the `ASSUME`s of the modules, which TLC evaluates in each run.

*Progress.* That something happens in the end needs fairness and ENABLED, which
are beyond the prover. What such a property rests on besides is not, and is
proved for all values of the constants: that it cannot go on for ever without
happening (a number that every step but named ones makes smaller, as each is
bounded from below), and that it has happened when nothing is left to do.

| Liveness, checked by TLC | What is proved of it |
|---|---|
| `EveryRequestServed` | `NobodyIsOvertaken`: requests are granted in the order in which they are made; `WaitsGetShorter`: `Turns`, the steps that those before a request may still take, falls with each of them, and no new request raises it |
| `EverythingReported` | `TasksCatchUp`: each step of a websocket task shortens its `Backlog`, which only a new packet raises; `ReportsAreComplete`: at no backlog, everything has been sent or reported |
| `GoneIsUncounted` | `GoneAreUncounted`: the task of a reset connection takes at most one more message, and its write fails |
| `QuietWaitEnds` | `QuietWaitsRunOut`: of a wait's steps, only a new log packet does not bring its end nearer: the others use up what is on its way (`Coming`) or count towards `IdleLimit` |
| `FrameFate` | `WrittenStays`: a frame written is on the wire, in its task's hands or stored, unless the connection has failed; `TasksGoOn`: a task waits for bytes and the lock only, since what it finds is what it expects, and store and feed have room |
| `PushEnds` | `PushAlwaysGetsOn`: each turn of the loop takes bytes off the buffer, or is the last |
| `ConfigurationTakesHold` | `ConfigurationsGetOn`: until another process writes, each step takes a packet on its way to the modem (`ToCome`) or changes nothing there; `SelectionIsExact` is about its end |
| `ReplayReturns` | `ReplaysGetOn`: each step takes the next piece or line, or comes nearer to taking it (`Work`); no command writes the file that it reads |

`ProgressHolds` is the first three rows for the whole service.

Checked by TLC alone are therefore the eight liveness properties of the table
themselves. Every safety property and action property that a run checks and that
is meant to hold is a theorem.

## Not modelled

The decoding of packets (the crate `fivegrok-parser`), the bytes of encoded
frames (MessagePack, JSON; that a frame decodes or does not is modelled), the
bytes of GSMTAP headers, the tables of the profiles, command-line parsing,
terminal settings, and `/health`: pure functions or I/O without state of their
own. Two collectors that read one serial port at the same time: how the driver
divides the bytes is not in the source, and `DiagControl`'s line loses answers
and packets anyway. Buffer sizes, except that the SDM decoder's is bounded. And
the shutdown of the service, which drops everything in memory.

## Plan

In order; all of it is done.

1. `LiveFeed` and its abstract `Feed`.
2. `PacketStore` and `AtomicStore`.
3. `DiagControl`.
4. `ApiService`, composed of 1 and 2.
5. `Hdlc`.
6. `SdmFraming`.
7. `Capture`: the collectors' pipelines and files.
8. Theorems about 1 to 7, and later 9.
9. `VendorRecords`: `read_records` over streams that are cut anywhere: only
   complete records are delivered, the end is clean only between records, the
   fixed log code takes precedence.
10. `SdmSession`: start, deselect, select and stop packets against a device, with
    kills between them: the final selection does not depend on what was there.
11. More theorems: `CleanPacketsFound` and `ReadsDoNotMatter` of `SdmFraming`;
    `SelectionExact` and `NotSilenced` of `SdmSession`.
12. The part of each liveness property that needs no fairness, as theorems.
