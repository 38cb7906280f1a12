# Verification of nrsc5-go

TLA+ specifications, TLC model-checking runs and TLAPS proofs for the receiver in
this repository: a Go decoder for HD Radio (NRSC-5) that takes IQ samples from an
rtl_tcp server, a file or the application, and delivers audio packets, station
information and files through one callback.

The modules follow the Go code; line numbers in comments are lines of that code.
`PROJECT.json` maps every definition that models code to the lines it stands for.

## 1. Inventory

    rtl_tcp server / file / PipeSamples
        -> radio.go, rtltcp.go   worker goroutine, API, gain selection
        -> input.go              conversion, decimation, sync state
        -> acquire.go            windows of 32 symbols, timing, FFT
        -> sync.go               references, block count, COARSE and FINE
        -> decode.go, conv.go    interleavers, Viterbi, P1 / PX / PIDS
        -> frame.go, rs.go       PCI, audio PDUs, HDLC, CCC      pids.go   station information
        -> output.go             elastic audio buffer, SIG, LOT files
        -> events.go, report.go  callback

Everything from `pushCU8` to the callback is one call stack on one goroutine, the
worker's for rtl_tcp, the application's otherwise.  The only concurrency is
between that goroutine and the application's calls of the API.  What makes the
decoder hard is not interleaving but history: every stage keeps state from one
window, frame or packet to the next, samples may be lost between any two windows,
and synchronisation may be given up and begun again at any point of a stage's work.

| Component | State | Operations | Hard behaviour | What makes it correct |
|---|---|---|---|---|
| Control (`radio.go`) | stopped, pause, closed under a mutex; freq, gain, autoGain outside it; the worker's position | Start, Stop, SetFrequency, SetGain, SetAutoGain, Close, Reset, doAutoGain, worker loop | calls in any order from several goroutines against a worker in a blocking read or in the decoder; failing commands | no lost wakeup, no use after release, one lost device per Start, recorded = commanded, Close returns |
| rtl_tcp (`rtltcp.go`) | connection, read deadline, gain table | sendCmd, read, resetBuffer | stall, EOF, reset, short reads, a deadline left behind | failures end in one lost device |
| Input (`input.go`) | syncState, decimation memory, leftovers of PipeSamples | push*, setSyncState, reset | the callback runs inside a transition; calls and reads end in the middle of a sample | Sync and LostSync match the state; no sample lost, doubled or shifted |
| Acquisition (`acquire.go`) | window buffer, idx, keepExtra, cfo | push, process, reset | the window may start anywhere, and moves by what sync finds | in the end windows are blocks |
| Sync (`sync.go`) | bc, psmi, cfoWait, offsetHistory | processFM, processAM, detectCFO, reset | false detections, noise, lost samples, reserved service modes | bc follows the station; sync comes back and stays |
| Decode (`decode.go`) | block buffers, interleaver memories of up to 16 frames | pushPM, pushPX, pushPLPUT, reset | sync begins in mid-frame; memories older than the session | no frame mixes sessions |
| Frame (`frame.go`) | HDLC buffers per program and channel, sync width | push, fuzzyPCI, process, processFixedData, parseHDLC, aasPush | PDUs, expansion fields and messages of any length, cut anywhere, damaged or lost | PDUs taken apart as they were put together, each message handed on once |
| Elastic buffer (`output.go`) | 64 packets, read offset | align, push, advance, reset | reader and writer in one ring, halves in two PDUs, losses on either side | every packet at its time, once |
| Data services (`output.go`) | services, 12 LOT slots each, LRU counter | parseSIG, processPort, aasReset | fragments in any phase, new headers, new tables, eviction | files whole, told once, none left out |
| Station information (`pids.go`) | frames of five texts, values, alert timer | one handler a message, report, reset | versions interleaved with loss; shared events; timeout against repetition | what is told is whole and current |
| Algorithms (`conv.go`, `rs.go`, interleavers, `fuzzyPCI`, `unicode.go`) | none, or tables | encode, decode | boundaries | agree with their definitions |

Not modelled at all are signal arithmetic, the binding to the AAC library, event
formatting, the probe command and the Python port; `PROJECT.json` lists them with
reasons.

## 2. Plan

Modules in the order of importance; all of them exist.

1. `RadioControl`, `DeviceLease`, `RadioControlProofs`: the only concurrent part.
2. `Windows`, `SyncFM`, `SyncAM`, with `SyncFMProofs`, `SyncAMProofs`: synchronisation
   and its effect on decode.
3. `ElasticBuffer`, `ElasticBufferProofs`: audio from PDUs to windows.
4. `SisDecoder`, `SisDecoderProofs`: station information.
5. `AasFiles`, `AasFilesProofs`: data services.
6. `ReedSolomon`: the code of the headers of audio PDUs.
7. `Hdlc`, `AudioPdu`, `FixedData`, `Pci`, composed by `Frames`, with `FramesProofs`: from the bits of
   a frame to packets and messages, against the encoder of a station.
8. `SampleFeed`, `SampleFeedProofs`: from calls of the application and reads to windows.

What is left out, and why, is in section 7.

All modules avoid RECURSIVE operators and take their sizes as constants, so that each
can be proved about; except `ReedSolomon`, which needs bitwise operators, out of the
provers' reach.

## 3. The modules and the code

**RadioControl.**  A step is one region under `stateMu`, one access of a Radio field
outside it, or one command or read on the connection; so every interleaving a Go
scheduler can produce at that grain is explored.  `wpc` is the worker's place in the loop
of `startWorker` and in `doAutoGain`, `cpc[c]` a caller's place in its call.  The decoder
is opaque: `wpc = "push"` is the worker inside it, `cpc[c] = "sf_reset"` a caller
reinitialising it.  `link` and `expired` are the connection, `devFreq` and `devGain` what
the tuner was told.  Gains are tenths of dB, as on the wire; the amplitude of a probe
is a free choice of quiet or loud.  `DeviceLease` is the abstract promise of Close, and
`RadioControl` is shown to implement it under a mapping of `closed`, `link` and `wpc`.

**Windows, SyncFM, SyncAM.**  A step is one window through `acquire.process`,
`sync.push` and what they call.  Of the station, the receiver sees windows of `BlkSz`
symbols that start at symbol `off` of block `blk`; `resid` says whether the carrier is a
whole bin off.  `Shift` is the arithmetic of `keepExtra` at the end of `process`.  What
the correlations find is a consequence of `blk`, `off` and `resid` for a clear window, and
a free choice for a noisy one.  `age[b]` is how many windows ago block b was written in the
buffer, so that a frame is *whole* when its blocks are in order; `px` is an interleaver of type
IV and `il` the AM diversity memory, reduced to how much of it is of this session.

**ElasticBuffer.**  The station numbers its packets without end, the receiver sees them
modulo 64 and the header modulo 32.  Packets are counted relative to the one due next,
so that a slot holds the packet *due* in it, a *missed* one or a *mixed* one of
two halves, which keeps the state finite without a bound on time.  `Advance` plays the
packets of a window; a PDU comes at the end of each `avg / Per` windows with any lead, any
number of packets and any split that `frame.process` accepts.

**SisDecoder.**  A step is one PIDS frame with one message.  Texts have versions and
`buf` holds, for each frame, the version it is from; a checksum holds when all are of
one version.  `Group` says which values one event reports.  Sequence numbers are kept
modulo `Seqs`, as on the air.

**AasFiles.**  A step is one parsed SIG table or one LOT fragment.  A fragment is the
version of the file it is from; a header is compared by version, and versions in `Odd` have
an expiry that `time.Date` normalises, so that it never compares equal.  Timestamps are kept
as ranks: only their order is used.  A service has one component and the files are all on the
port of the table's first service.
The histories belong to slots: `done[p]` is the version told complete from slot p since its lot got it, `late` has the
slots with fragments that came before the header that goes with them.

**ReedSolomon.**  Pure operators, one for each phase of `decodeRs`: syndromes, the steps of
Berlekamp-Massey, the search for roots, the evaluator and the corrections; and `fixHeader` around
them.  Field elements are numbers, addition is exclusive or; the code's logarithms, kept for speed,
appear only in `Times` and `Over`.  Erasures are left out: `fixHeader` passes none.
`MCElasticBuffer` puts the code beside the buffer whose headers it protects (of the header's
fields, it carries `pduSeq`).

**Hdlc, AudioPdu, FixedData, Pci, Frames.**  A step is one frame of a logical channel through
`frame.push` and `process`.  The first four modules are operators, each with an encoder, the
station, and a decoder, the code.  `AudioPdu` packs locations, header expansion fields and packets into
bytes and walks over them again; the bits of a header and its parity are a record that `fixHeader`
either finds at an offset or does not.  `Hdlc` frames, abandons and repeats messages; a check
sequence is taken to be perfect.  `FixedData` has the sync channel and its width.  `Pci` has the eight
words and the six lengths of frames.  `Frames` puts them together: the station chooses the shape of each
frame and how many bytes of its endless service data go into each PDU, and frames are
lost or damaged on the way.  Every loop of the code (over bytes, fields, PDUs) is one operator for a turn of
it, and a local function that repeats it; `TakeNext` on a PDU that `process` gives up at changes nothing, so that the walk over a
frame of n bytes may be repeated n times.  Of the station it assumes what the standard asks: a PDU is longer than a codeword,
service data is in stream 0, a PDU of an unknown stream is the last the receiver is promised,
and the width of the sync channel is not told wrong three times in a row.
`processFixedCCC` is called from nowhere, so that the code behind `fixedReady` cannot run
and has no model.

**SampleFeed.**  A step is one call of a PipeSamples function, one read of `Run` or the worker, or
a Reset or change of mode.  Units (bytes, int16s or floats) are numbered; a sample is the number of
its first unit as long as its units follow each other.  `left` are the leftovers, `stages` and `offset` the
decimation of AM, `inBuffer` the window being filled; `Halved[k]`, 2 to the power of k, is how many samples of the
first stage make one of stage k.  How much of a window `process` keeps is a choice,
which `Windows` makes from what sync finds.  A recording is not followed further once it is *spoilt*: a
read ended within a sample, or it follows a Reset with units of another left over.

## 4. The runs

| Run | Module, specification | Shows |
|---|---|---|
| `radio_safety` | MCRadioControl, Spec | two callers, stalls and resets: NoLostWakeup, OneLossPerStart, StaleReadsDropped, TunedAsAsked, GainMatchesTuner |
| `radio_live` | MCRadioControl, FairSpec | CloseReturns, StartedReads, LossNoticed, and LeaseSpec (refinement, liveness included) |
| `radio_stop_race` | violation | Stop then SetFrequency resets the decoder under the worker |
| `syncfm` | MCSyncFM, FairSpec | EventsMatchState, TracksStation, SessionsUnmixed, StaysIfVoted |
| `syncam` | MCSyncAM, FairSpec | TracksStation, NoStaleDiversity, SyncedOrStranded |
| `syncam_stranded` | violation | after a slip in FINE, AM never measures again |
| `elastic` | MCElasticBuffer, Spec | OnlyDue, NoDropout, DueKept, and HeadersRepaired (the header code: any damage it should repair is repaired) |
| `sis` | MCSisDecoder, FairSpec | TextsWhole, EventsTellValues, AlertKept, LatestShown, AlertEnds |
| `aas` | MCAasFiles, FairSpec | FilesUnmixed, CompleteOnce, AllComplete |
| `frames` | MCFrames, Spec | PdusAsSent, FramesHanded, PciRead |
| `aas_cut` | violation | a message received whole is handed on without its last byte |
| `feed` | SampleFeed, Spec | WindowsWhole |

Every module's `TypeOK` is checked by its first passing run.  Every property of a passing run
has a mutant in `PROJECT.json`: a plausible mistake in one mapped definition that makes the
same run fail.

### Bounds

* `radio_*`: two callers are enough for every pair of overlapping calls (a third adds
  none that differ for the properties, which are about the worker and one or two calls).
  `radio_safety` searches a table of three gains that begins below 0 dB, as the E4000's does, so that the search
  has a middle and both ends; `radio_live` one of two and an empty one.  `MaxStarts` bounds calls of
  Start only; other calls repeat without bound.  Callers are symmetric in `radio_safety`, which
  checks no liveness: nothing in the module tells them apart.
* `syncfm`, `syncam`: blocks of 3 symbols and frames of 4 blocks keep a first, a last and a
  middle one; `Wait` 2 for 8, the memories 2 deep for 16 (FM) and 3 (AM).  `MaxTrouble` bounds
  the bad windows, slips and resets of one behaviour; after the last, time goes on without bound, which
  is what the liveness properties speak of.  With `NB = 4`, AM's lock needs a whole frame, as
  0x5670 needs half of one in the code: the lock is compared with `NB-3..0`.
* `elastic`: a ring of 8 with PDUs of 2 and 4 packets, half a ring at most, as 32 of 64.
* `HeadersRepaired`: GF(8), 4 parity symbols for 8, headers of the last 5 of 7
  symbols for 96 of 255.  Two symbols can be repaired: one step of Berlekamp-Massey lengthens
  the polynomial and another does not; every place and every value of the damage is tried.
* `sis`: seven stations, each with the messages that share state (long name and slogan, the
  two parameter groups, ...); three versions; texts of two frames, three for the second version.
* `aas`: three lots of which two are sent at a time over two slots, a version of two fragments and a longer
  one of three, two tables, room for two services where the tables name three.
* `feed`: two stages of decimation for four, so that one is in the middle; windows of 3 samples of which 1 or 2 are
  kept; calls of 0 to 13 units, which is three samples and a part; numbers modulo 64, more than a window spans.
* `frames`: PDUs of one to three packets in every codec mode with its own width of locations, with and without
  each class of expansion field, one and two to a frame, an unknown stream among them; up to 3 bytes of service
  data in each, so that messages of 4 to 8 bytes (escapes counted) with a buffer of 7 are cut at every place;
  one message is abandoned, one too long, one of another protocol.  One trouble: a second one
  meets no state the first does not leave, the parser having been emptied by a flag in between.

### Fairness

* `HangingSpec`: weak fairness of the worker and of calls already begun: the Go runtime
  runs goroutines that can run.  No call is ever required to begin.
* `RadioControl!FairSpec` adds strong fairness of the worker and that every stall ends: a blocked read is
  served when data comes often enough.  This is an assumption about the server: without it, Close waits for
  ever for a worker that is blocked in a read.
* `SyncFM`, `SyncAM`: samples keep coming and well received windows with them; troubles are finite.
* `SisDecoder`, `AasFiles`: a station repeats each of its texts, tables and files; nothing is
  assumed of changes, losses or resets.

`CHECK_DEADLOCK FALSE` appears in the `Radio*` configurations only: after Close the worker
and the callers are gone and the system stops.

## 5. What the code does not do

The three violation runs are recorded as findings, with the lines they contradict: a Reset under the
worker (`radio_stop_race`), an AM receiver that never measures again (`syncam_stranded`), and a byte cut
off every message (`aas_cut`).
Others came up in modelling and are exempted, by name, in the properties they would break:

* `StaysIfVoted` excludes reserved service modes: `sync.go:411` looks for the majority among 16
  of the 64 modes counted, so a station in another is never synchronised with.
* `FilesUnmixed` excludes `early`: `aasReset` keeps the services, so after a Reset fragments
  are accepted before any SIG table, though `output.go:728` means to wait for one.
* It also excludes `late`: a fragment that comes before the header of its version stays.
* `CompleteOnce` excludes `Odd`: a file whose expiry is no date is wiped by each of its headers.  It also excludes `late`:
  when a longer file takes the place of one long complete and its header is lost, its last fragments are new data
  (`output.go:853`), and the old file is told complete again.
* `OnlyDue` excludes one length of the ring after lost windows: `align` moves the offset and
  clears nothing.
* `TextsWhole` is about texts with sequence numbers, and not after a lost frame: the
  buffers of slogan and universal short name survive a reset.
* `GainMatchesTuner` excludes applications that tune after their first Start, and
  connections that refuse commands; it and `TunedAsAsked` exclude calls of two goroutines that overlap:
  the order in which the tuner is told need not be the order in which the fields are assigned.
* `GainMatchesTuner` is checked, and proved, without gains below 0 dB but the -1 dB that stands for none.  The tables of
  the FC0012 and FC0013 have others (`rtltcp.go:111`): one of them, once found, is taken for no gain at all
  (`radio.go:114`), and the search runs again before every read; if it then fails, the tuner is left at another gain than the one recorded.
* `CloseReturns` needs a server that sends again: Close waits for the worker's read before it closes
  the connection that would end it (`radio.go:191`).
* `HeadersRepaired` is about headers with at most half as many damaged symbols as there are parity symbols.  Beyond,
  `decodeRs` counts the roots and does not look at the result again: some headers pass that are no words of the code.
  (`docs/architecture.md:146` speaks of 8-symbol correction; 8 parity symbols correct 4.)
* `WindowsWhole` excludes recordings with a read that ends within a sample: `Run`, which "processes the entire IQ
  file", and the worker drop the bytes beyond a multiple of four of each read, not only at the end of the file, and
  the rest is shifted; `PipeSamplesCF32` drops the last of an odd number of floats.  It also excludes a recording that follows a Reset with
  leftovers of another, which Reset keeps.
* `PdusAsSent` promises nothing behind a PDU of an unknown stream: `frame.go:550` skips it by its number of packets.

Seen in reading, outside of what the modules have: `processFixedCCC` has no caller, so that
`processFixedData` waits for ever for the subchannels (`frame.go:470`; the port in
`python/nrsc5py/frame.py:515` passes it to its parser); the width of a saturated probe wraps in a byte (`radio.go:304`); and a Reset
from within a callback changes the state of functions that go on afterwards (`radio.go:162`).

## 6. The proofs

Proved by TLAPS for every value of the constants that satisfies the modules' assumptions.

**RadioControlProofs.**  `IInv` is inductive: `InitIInv`, one lemma each for Start, the
worker and the other calls, and `[Next]_vars` from them.  It adds to the checked
invariants:

* `SearchInTable`: while doAutoGain probes, `low <= high`, so the middle is an index of the table
  (`MidInRange`).
* `PendingFreq`: an argument on its way to `freq` is one that was asked for.
* `ExitSeen`: whoever passed `workerWG.Wait` has seen the worker leave, and it does not come back.
* `LossCredit`: losses, plus one while the receiver runs or the worker is past the wait, are at most the
  Starts.  `OneLossPerStart` itself is not inductive: it does not know that the worker may still hold
  a loss it has not declared.
* `PauseImpliesStopped`: why no wakeup is lost although a pause ends without a Broadcast.
* `readStopped => stopped`, from which `StaleReadsDropped` follows at the recheck.

Theorems: `TypeCorrect`, `NoWakeupIsLost`, `ReleasedAfterExit`, `LossesPaidFor`,
`StoppedReadsDropped`, and `ImplementsLease` (the safety part of DeviceLease: initial
states map to initial states, every step to a step or a stutter).

That the fields agree with the tuner needs more than `IInv`: without overlap at most one
caller is inside SetFrequency or SetGain (`OneRetunes`); between command and assignment the tuner has the
caller's argument, and otherwise what is recorded (`FreqOnItsWay`, and `GainOnItsWay` with the gain that doAutoGain
holds in `best`); before the first Start the worker touches nothing, and after it nobody retunes
(`QuietBeforeStart`, `SettledAtStart`).  Theorems: `FrequencyTold` and, without gains below 0 dB
(`GainsTell`, see section 5), `GainTold`.

**SyncFMProofs.**  `IInv` adds to the checked invariants that the blocks before `bc` of a started
frame are in order (`FrameInOrder`), that a PX half is the block before (`HalfFresh`), that PX
collection runs only in the modes that have it (`PxOnlyExtended`), and that an interleaver that is
ready was filled in this session (`FilledWhenReady`).  Lemmas give the arithmetic of
`NextBlock`, `KeepExtra` and `Shift` modulo the sizes.  Theorems: `TypeCorrect`,
`EventsTellState`, `StationTracked`, `FramesUnmixed` (P1 frames and PX frames, as `SessionsUnmixed` has both).

**SyncAMProofs.**  `IInv` adds to the checked invariants that the blocks before `bc` of a started frame are in order and of
this session (`FrameInOrder`), and that as many frames of the diversity memory as were pushed in a
row are (`MemoryInOrder`).  Both are established by the lock, which counts the block it ends with as block 0, and survive losing sync because
`decode.reset` sets the wait anew.  `TracksStation` is about locks on numbers truly received; the lock has no
defence against noise that looks like 5, 6, 7, 0.  Theorems: `TypeCorrect`, `StationTracked`, `DiversityFresh`.

**ElasticBufferProofs.**  Station and receiver count the same packets in three moduli: 64 in the ring, 32 in the header,
and without end in the station.  The argument goes from distances to slots and back (`Ahead`,
`Around`, `PlaceIs`).  `InStep` says that the number of a header and the latency name the packet due when the PDU comes,
up to half a ring, and `ReadsNow` that a receiver that missed nothing reads there; `align` finds the same place
again (`FirstSlotIs`, `ReadsWell`).  `DueBeyondDoubt` bounds how far ahead anything wrong can lie, `SentIsThere` says that all that was
sent after the last loss is in its slot, half packets included, and `LostMeansGap` that a receiver that cannot know its
place lost all that was sent.  Theorems: `TypeCorrect`, `HearsOnlyDue`, `HearsAllDue` and, for the action property,
`KeepsWhatIsDue`.

**SisDecoderProofs.**  `IInv` adds to the checked invariants that frames that are there are of some version
(`Present`) and that the code's count of frames without an alert is never ahead of the frames that
came without it (`CountedQuiet`), which gives `AlertKept`.  What is shown is whole because of `Sequenced`: a buffer with a
sequence number has the frame 0 it came with, and no frame of an older version (`Headed`); without a loss
since then all its frames are of that version (`Unmixed`), and if shown all of them are there (`ShownThere`).  A frame 0 with
the number of the buffer must then be of the same version: the theorem assumes `SeqsTell`, that no two versions share a
sequence number.  Texts with a checksum need no such assumption.  Theorems: `TypeCorrect`, `ValuesTold`, `AlertStays` and
`TextsAreWhole`.

**AasFilesProofs.**  The three parts of the checked properties are not inductive, for they do not say what a slot may
hold before its file is complete.  `IInv` adds

* `HeadersFirst`: in a slot that is not `late`, all fragments are of the version of its header.  From it follows that a
  file told complete is of one version.
* `DoneStays`: there, a file that was told complete is still complete.  So no fragment of it is new, and it is told once; only the
  header of another version or another owner of the slot ends that, and both set `done` and `late` anew (`FreeUntold`).
* `HeadersSent` and `CarouselGoes`: versions in slots are not later than those that are sent, and versions only grow, so a
  version that was told and gave way does not come back.
* `TableKnown`: without a table no slot is in use, unless `early`; with `since`, this gives that nothing outlives its table.

Timestamps are kept as ranks, the cardinality of the timestamps up to one: `RankIs` and `RankedIs` show that ranks stay
within the number of slots and that a slot in use keeps a rank above 0.  `ParsedIs` is an induction over the services
of a table, `ComponentIs` and `SlotIs` show that findPort, findLot and findFreeLot find what they choose, `TakenIs` what
one fragment changes.  Theorems: `TypeCorrect`, `FilesWhole` and, for the action property, `ToldOnce`.

**SampleFeedProofs.**  That every window so far was whole says nothing of the next one.  `IInv` follows each unit from the call to
the window, unless the recording is spoilt: the leftovers are the units from `Pos` on (`LeftKept`), `Pos` is where a group begins, the
stages hold the samples between the window buffer and `Pos` (`StagesFollow`), and the buffer holds the window so far
(`BufferFollows`).  For the stages this is an argument about the bits of `offset`: where the bit for stage k is set,
the stage has the first of its two inputs, and it begins where the higher bits say (`Filled`); adding one to `offset` sets the
lowest bit that was not set and clears those below, just as the stages pass on what they have (`BitCounts`, `StageIs`).
Then come three inductions: over the stages a group goes through (`StageIs`), over the groups of a call
(`DecimatedIs`) and over the samples of a push (`PushIs`); and before them that filling up the leftovers and cutting the rest is
the same as cutting the whole (`PipedIs`).  `SizesAssumption` asks that Period is a multiple of the units of a sample
and more than a window has; it bounds the numbering only, not the code.  Theorems: `TypeCorrect`, `WindowsCorrect`.

**FramesProofs.**  The three properties compare what `process` finds in a frame with what the station put into it, so the
proof is mostly about one frame, and `IInv` says only what goes from one frame to the next: the parsers' buffers fit
(`ParsersRight`), a width that is believed is the right one and the parser of the CCC holds nothing but bytes of the CCC (`FixedRight`),
and the parser of program 0 is *in step* with the station (`InStepAt`): once a flag was received and nothing lost since, it holds what
the station has sent since that flag, or is switched off because that was too long.  Damage to a sync byte is allowed by
`Telling` as long as no wrong width is told three times in a row.  For one frame the argument goes up in layers:

* *Bytes.*  Unescaping undoes escaping (`UnescapedFramed`), no flag is left in what is escaped, and the parser that is in step stays in step at
  every byte of the endless stream, handing on a message at the flag that ends it exactly when the listener, who knows what was lost, expects it
  (`TurnTogether`, by induction over the bytes of a chunk).  Before the first flag at most one message more may come, one whose
  beginning the parser had from before (`Matches`).
* *PDUs.*  Locations of 12 and 16 bits are read as they were packed (`LocationRead`, case by case over the bytes two
  locations share); the header expansion is read field by field up to the last, however many there are, and tells the PDU's
  program; locations rise and end within the audio, so that the checks of `process` let the PDU pass and the slices it takes
  are the packets, each with its check byte.
* *Frames.*  A PDU that is put behind others leaves them where they were (`PduBuilt`, `FramesBuilt`).  Station and `process` then go
  abreast, PDU by PDU (`ShapeTaken`): both are at the same offset, and have brought the same, until a header is damaged or a stream unknown; from
  there on nothing more is found, and that the walk stops is shown from `CodewordLen` and from the places of the headers.
* *Fixed data* takes from the end of the frame a byte and as many as are believed, and never from the audio (`FixedRead`).
  It hands on nothing, because a message made of bytes of the CCC is none of the service data (`CccAssumption`).
* *PCI.*  The words of audio, mixed and fixed frames are apart from each word of another kind by nine of the 22 bits that the
  shortest header has (`WordsFar`); for each pair the proof names the nine.  With at most four bits damaged the word itself is near enough and
  no other kind's is (`ReadRight`), and the first word that is near enough tells the kind.

Theorems: `TypeCorrect`, `PdusTakenApart`, `MessagesHanded` and `KindsTaken`.  They hold for every schedule of messages, every set of
shapes of well-formed PDUs, any buffer sizes, and any number of troubles.  The assumptions say what a station
sends: `ShapesAssumption` that its PDUs are `WellFormed` (header fields as long as they say, locations that fit their bits, longer
than a codeword); `ScheduleAssumption` that no flag is within a message, and that an abandoned message has no right check sequence;
`CccAssumption` that no message of service data consists of bytes of the CCC alone, for a message of the CCC with the protocol
byte of service data would be handed on as such; `CodewordAssumption` that a header is shorter than its codeword; `BoundsAssumption` that the width is one a sync byte can tell, which is 1 or an even number up to 30.  TLC evaluates them
for the instance of the `frames` run.

**Facts about numbers.**  The library states induction for an operator that is a parameter, which the provers here cannot
instantiate.  The modules that need it state it for a set: a set that has 0, and with i also i + 1, has every number up to n
(`Inductive`); and recursive definitions for functions: there is one f with f[0] = a that goes on by the function F
(`Recursion`), from which follows what the model's local recursive functions are.  Both rest on `Least`, that a set of numbers has a
least one, which comes from the library's theorem on strict inclusion of finite sets.  The rest is counting modulo n, for the blocks of sync, the ring of the audio
buffer, the units of a recording and the stream of service data.  Each module of proofs begins with those of these facts that it needs.

**Only model-checked.**  All liveness properties (fairness and ENABLED are out of the prover's
reach), and `HeadersRepaired` (bitwise operators are).  All other invariants and action properties of the
passing runs are theorems, with the assumptions named above.

## 7. Abstractions to keep in mind

* The modules begin where a radio was made and opened; a failing constructor is not modelled.
* Reset is a step between two windows, frames or fragments.  A Reset from within a
  callback, or by another goroutine without a Stop, reaches states the modules do not have;
  `radio_stop_race` shows one way there.
* Floating point results are choices: an outcome is possible whether or not a signal exists
  that produces it.
* One program of eight, one interleaver of type IV and one port stand for the others, which share
  no state with them.

Not modelled: the Viterbi decoder, filters, FFTs and conversions of samples are arithmetic on
soft values, with nothing a model checker could decide; the permutations of the interleavers are tables, of
which the modules keep which blocks a frame is made of; the constructors do one thing after another before anything else begins.
Program service data is handed to an ID3 parser, and images of HERE are put together behind a comparison
that never holds; both read one buffer and keep nothing the modules' properties speak of.
