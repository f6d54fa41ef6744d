# decorate_video in TLA+

decorate_video composes a main video or audio with other materials (videos,
audio, images, text) frame by frame, pipes the result into an ffmpeg process and
takes commands while it runs. It is one process with many threads: a main loop,
one decoder thread per input, a command thread, short-lived threads that open
added materials, encoder threads per output, an event thread. Frames may also
come from another process through a ring in shared memory. The modules here
model the parts in which these threads meet.

## 1. Inventory

| Component | Code | State | Operations | Meets |
|---|---|---|---|---|
| Shared memory ring | `3rd/shmqueue/shm_queue.c` | `head_pos`, `tail_pos`, a token and a length per node | `sq_put`, `sq_get`, signalling | writer and reader processes, CAS only |
| Main material | `videoplayer.cpp` (`FFVideoDecodeThread` in `AV_TOGETHER`/`AV_SEPARATE` mode), `decorateVideo.cpp:1505-1645, 1924-2066` | bounded frame queue, `bEOF`, `bExit`, `error_ret`, `timeout_num`, the clock `cts`, `sent_audio_bytes` | fill, read, discard, convert, mix, give up, close | decoder thread and main loop |
| Materials | `stream_cmd.cpp`, `material.cpp`, `decorateVideo.cpp:1320-1504, 1656-1768` | command queue, `mlist`, `product_id`, `static_idx`, mailbox `pmlist`, decoders | ADD, DEL, SWPROD, open, hand over, start, stop, draw | command thread, main loop, opening threads |
| Substream output | `videowriter.cpp`, `videowriter.h`, `material.cpp:1182-1240`, `decorateVideo.cpp:1414-1457, 1849-1870` | `bStopped`, `writer`, `pipe_cmd`, queues | SUBOUT, STOPSUB, popen, write, close | main loop, video and audio encoder thread |
| Main output, shutdown | `videowriter.*`, `decorateVideo.cpp:77-120, 1095-1190, 2063-2096` | encoder queues, `bExit`, the audio fifo, ffmpeg | write, drain, join, pclose, signal handler | main loop, encoder threads, signals, ffmpeg, the ffmpeg of a substream |
| Streaming decoders | `videoplayer.cpp:1825-1961, 2089-2204, 2347-2471` | `vQueue`, `aQueue`, `bStopped`, `last_frame` | rewind, reconnect, stop, read | decoder thread, main loop |
| Events | `event.cpp` | event queue | push, send | main loop, video thread, opening threads, event thread |
| Subtitles | `videowriter.cpp:201-308` | bitmaps | render, publish | subtitle thread, main loop |
| Raw packets | `videoplayer.cpp:503-622, 800-1239, 2023-2206` | `rawAudio`, `audio_size`, `product_id`, byte counters | read a packet, switch product, cut frames of audio, time out | decoder thread, main loop, the program that writes the ring |
| libav calls, image operations, OpenGL, options, log | `videoplayer.cpp`, `matops.cpp`, `opengl/`, `filter/` | pixels | | sequential |

What is hard in this code, and what makes each component correct:

- *Ring.* A writer decides against a `head_pos` and a reader against a `tail_pos`
  that move before their CAS. A reader resets tokens of nodes it has given back
  already; a writer may be slower than the time a reader waits for it. Correct:
  it is a FIFO queue; neither end runs over the other.
- *Main material.* What the main loop does not get decides how the program ends.
  Correct: no frame is lost on the way, EOF and failure are told apart, it ends.
- *Materials.* A material moves from the command queue to a batch, a thread, a
  one-place mailbox and the list while commands and switches go on. Correct: it
  is in one place at a time, and its decoder runs when its product is shown.
- *Substream.* START and STOP of the main loop and RUN share `writer` and
  `pipe_cmd` without a lock. Correct: frames go to the pipe they are meant for,
  a pipe is closed once and not used afterwards.
- *Main output, shutdown, events.* Four threads, a signal handler and ffmpeg have
  to end in the right order, and each waits for another: the main thread for the
  video thread and for ffmpeg, ffmpeg for the end of two inputs, the handler for
  the mutex of a queue. Correct: nothing is lost on the way to ffmpeg, a normal
  end waits until it has everything, the fifo is removed, the program ends.
- *Streaming decoders.* A decoder is started, stopped and deleted at any moment.
  Correct: a stopped one ends up closed and empty, openings are not mixed.
- *Raw packets.* Audio and pictures come in any order, products change in
  between, files are truncated, the writer of the ring stops. Correct: each
  picture has its own audio, each byte of audio its product, none is lost but at
  a switch.

PROJECT.json lists the hazards line by line, where several bite at one place as one;
those that no model here can show are described in sections 4 and 6.

## 2. Modules

| Module | Models | Remarks |
|---|---|---|
| `FifoQueue` | what the ring promises | abstract specification |
| `ShmQueue`, `MCShmQueue` | `sq_put`, `sq_get` | refines `FifoQueue` |
| `MainReader`, `MCMainReader` | main decoder and main loop, frame rate conversion, the sound | one behaviour per setting in `Options` |
| `Materials`, `MCMaterials` | commands, opening, switch, drawing | |
| `SubStream` | substream output | |
| `StreamDecoder`, `MCStreamDecoder` | the decoder of one video or audio material | one behaviour per kind in `Options` |
| `MainOutput` | encoder threads of the main output, signals, shutdown, events | ffmpeg is external |
| `RawFeed`, `MCRawFeed` | the raw packet readers and the caching of their frames | one behaviour per setting and packet sequence |
| `QueueLemmas` | | what pushes, pops and floors of a `SafeQueue` do to a sequence; used by the proofs |
| `ShmQueueProofs`, `MainReaderProofs`, `MaterialsProofs`, `SubStreamProofs`, `StreamDecoderProofs`, `MainOutputProofs`, `RawFeedProofs` | | theorems about the module each is named after (section 5) |

**ShmQueue.** Each read, write or CAS of a shared word is an action named after
the place in `sq_put` (`Put...`) or `sq_get` (`Get...`); `wpc` and `rpc` are the
positions in the code, the other variables the C locals of the same name. A
message is its number in the order of the CAS on `tail_pos`; its bytes are the
number in `data`, and a payload of several nodes overwrites the headers of all
but its first node (`PAYLOAD`). Time is one flag: a reader that waits for a node
may find the conflict time over when `ConflictExpires`. A copy that mixes nodes
of two messages returns `Torn`.

**MainReader.** A frame is its number in the source. A `SafeQueue` call is one
step, because of its mutex. `PopNothing` and `AfterMiss` are two steps, because
`read_thread_merge_data` looks at `bEOF` after its pop. `opt` holds the settings
on which `can_wait`, the floor and the handling of late frames depend. Time and
sound are counted in ticks: a frame of the source lasts `tstep`, one of the output
`ostep`. A frame of a mainvideo brings the sound that was demuxed before it
(`videoplayer.cpp:2055`), which may be none, or that of several frames: `Brought` is
any of `Sounds`. Setting `sound` says whose sound it is: the mainvideo's own, that of a
separate mainaudio, which the main loop reads itself in the length that is due, or none.
When the rates differ the main loop converts:
`NeedsFrame` is the test of its inner loop, `main_vdata` what the iteration has read,
`shown` and `cts` the frame it may show again and its time. `Mix` sends the sound
that was read; nothing, if a frame is there and its sound has not arrived
(`NotYetHeard`, `decorateVideo.cpp:1960`); otherwise silence for what
`audio_bytes_cur_frame` says is due. The history `gap` is the most that the mainvideo's
own sound was behind its frames.

**Materials.** The main loop is a cycle (`mpc`): take the commands, carry them
out one by one, submit what was added, empty the mailbox, read the main frame,
draw. `openers` are the detached threads of `submit_open_materials`; the mailbox
`pmlist` holds the number of the thread whose materials are in it. `Parse` turns
a MOD line into a DEL command, as `stream_cmd.cpp:127` does. `Sorts` allows any
order of equal layers, as `std::sort` does. A decoder is only what START, STOP
and EXIT leave it in. A name in `Names` is one object made by one ADD line, so no
two ADD lines of `Lines` have the same name; they may have equal ids, products and
layers.

**SubStream.** A SUBOUT is its number, which also stands for its command line,
its pipe and its frame size. `writer` and `pipe_cmd` are plain members shared by
two threads, so each access is a step; `fwrite` or `fclose` of a null pointer
ends the program (`crashed`). `Settled` and the history `hasty` tell whether a
SUBOUT was accepted before the video thread was done with the last substream.

**StreamDecoder.** `dpc` is the position in `RUN` and `cache_video_data`, `mpc` that
of the main loop in START, STOP and `read_thread_stream_video_frame`. A frame is
the opening of the source it comes from and its number there; audio is cut into
pieces as long as a frame. `ReadFrame`, `Cut`, `Discard` and `PopFrame` are the
looks at the queues that one call makes, between which the decoder thread may clear
them; popping an empty queue is undefined, and the model stops there (`mpc =
"undefined"`). A read that fails is the end of an opening, for files too. `given`,
`lost`, `reset` and `revoked` are histories for the properties. The main loop reads
only materials that are started, as `Materials` shows it to do except after
`mat_switch_race`.

**MainOutput.** Starts where the fifo is made, ffmpeg and the video thread are
started (`decorateVideo.cpp:1141`). `mpc` is the main thread, `hpc` the handler that
interrupts it, `vpc` and `apc` the encoder threads, `fpc` ffmpeg. Frames and pieces
of audio are numbered; `rawdata_out` chooses between ffmpeg with pipe and fifo, and
a file. A call of a queue by another thread is one step; the main thread holds the
mutex from one step to the next (`HoldsVideo`, `HoldsAudio`), because there a signal
may arrive. `bExit` is looked at separately from the pop, as in the code. ffmpeg
probes the pipe, then opens the fifo, reads both, ends when both have ended, or
dies at any moment. Of the substream, which `SubStream` models, three things matter
here: `SubPopen`, because its ffmpeg inherits the descriptor of the fifo; `SubWrite`,
because its video thread is of the same class as the main one and sends
`START_OF_STREAM` after each START (`SubStart`, `FeedSub`); and `BadSubout`, because a
SUBOUT with too few parameters returns from main. `sent` are the events in the order
in which they are queued; the event thread takes them one by one from the front, so
what the receiver has seen is always a prefix of it.

**RawFeed.** `pc` is the place of the decoder thread in `cache_video_data` and in the
packet loops; a packet is read in one step. A byte of audio is the number of the
packet that brought it, so that every byte can be followed; a picture is the number
of its VIDEO packet. The four readers are one set of actions: `opt.main` tells
whether pictures or frames of audio are read, `opt.transport` a file (or stdin) from
shared memory, and `NextProduct` the one difference between them in what a plain
AUDIO packet means. `cut` says that the file ends within its last packet. `drops` and
`idle` are histories. `audio_per_frame` is a fraction, so the rounding of
`wanted` is that of the code.

## 3. Runs

| Run | Expect | Question |
|---|---|---|
| `shm_spsc` | pass | Is the ring a FIFO queue for one writer and one reader? `Fifo` (refinement), nothing skipped (`EmptyMeansDelivered`), tokens reset in time (`NoWriteAfterRead`), everything delivered (`EventuallyDelivered`) |
| `shm_slow_writer` | pass | What survives a writer slower than the conflict time and messages too long for the buffer? The window of used nodes (`WindowSafe`), and between two puts no old message shows in them (`FreshWhenQuiet`); messages may be lost, late or doubled |
| `shm_many` | pass | Do the CAS loops of two writers and two readers keep the order as long as the ring is not reused? |
| `main_all` | pass | In every setting: nothing lost or reordered (`FramesKept`: `NothingLostInTransit`, `InOrder`), EOF and failure told apart (`EofIsReal`, `FailureReported`), converted rates (`InStep`: each frame in its time; `Conversion`: the output as long as the source, `Duration`; sound that comes late waited for, the inserted silence bounded by one frame and the delay of the sound, a separate mainaudio not ahead of the pictures, `LipSync`), it ends |
| `main_eof_race` | violation | Is every frame rendered at EOF? No |
| `mat_all` | pass | Hand-over and order (`ListInv`: `HandedOver`, `LayersInOrder`), ownership of decoders (`DecodersOwned`), switching (`SwitchedDecoders`), drawing (`DrawsWhatIsListed`), every added material listed (`AddedIsListed`) |
| `mat_switch_race` | violation | Do the decoders of the current product play? Not those being opened during a switch |
| `sub_all` | pass | Three substreams at any speed: no stale frames, no use of a closed pipe (`PipeInv`: `NoStaleFrames`, `WriterIsOpen`), patient restarts work (`PatientRestart`), start and stop take effect (`Starts`, `StopCloses`) |
| `sub_crash` | violation | Does a quick restart work? No |
| `dec_all` | pass | Started, stopped and deleted at any moment: a file shown frame by frame (`NextShown`), openings not mixed and frames discarded only if they are there (`QueueInv`: `OneOpening`, `NoUnderflow`); a deleted decoder ends (`Exits`), a stopped one closes (`Parks`), a started file loops (`Loops`) |
| `out_all` | pass | With signals and failures at any moment: nothing lost, doubled or overtaken on the way to ffmpeg (`TransitInv`: `NothingLost`), a normal end is complete, a dead ffmpeg is noticed, the fifo is left by an early signal and by the return on a bad SUBOUT and no other end (`EndsClean`: `OutputComplete`, `FailureNoticed`, `FifoRemoved`), what a receiver may conclude from the events although a substream sends the same ones (`EventsInOrder`), the program ends (`Terminates`, `SignalEnds`) |
| `raw_all` | pass | Every short packet sequence: each picture with its audio (`FrameComplete`), each byte once, in order (`AudioIntact`) and under its product (`TagMatches`), the buffer, the rounding and what a switch costs (`AudioBounds`: `BufferFits`, `Pace`, `SwitchLoss`), the end of a file and timeouts (`EndIsReal`: `EofComplete`, `PatientRead`), it ends (`Ends`) |

Invariants that belong together are checked as one conjunction of named parts. Where
no invariant is called `TypeOK`, the type invariant is part of `FramesKept`, `ListInv`,
`PipeInv`, `QueueInv` or `TransitInv`.

Bounds, and why they are enough:

- `shm_spsc`: 8 nodes, reserve 3, lengths 1 and 2, 7 messages: the ring wraps
  with and without skipped nodes and is reused. `shm_slow_writer`: 5 nodes,
  lengths up to 3, buffer of 2, 7 messages: enough for the ring to go round twice, so
  that what a slow writer left behind is met again. `shm_many`: 6 nodes and 3 messages, all
  interleavings of four processes.
- `main_all`: 5 frames through a queue of 2 (`max_queque_size` is 100), a floor
  of 1, 2 tolerated timeouts, failure at any frame, all settings with steps of 1 to
  3 ticks, frames that bring 0, 2 or 5 ticks of sound. The queue fills, drains and is
  floored; frames are repeated and skipped, up to three at a time; the sound is behind
  the frames and ahead of them, by more than a frame.
- `mat_all`: 3 materials at the start, 3 to add, 3 command lines of 9, so up to
  three opening threads; equal layers, an opening that fails, a material below
  the background index, a deletion in the background, lines that are skipped. `mat_switch_race`: 2 lines.
- `sub_all`: 3 SUBOUT, any number of STOPSUB, 2 frames. `sub_crash`: 2 and 1.
- `dec_all`: 2 frames per opening, queues of 2 that are filled beyond their limit,
  a floor of 2, 3 commands (start, stop, start; 2 for a stream with video and sound),
  one late read, any number of openings whose numbers repeat after 2, all 6 kinds of
  material. With 3 frames the result is the same (15 million states, not kept).
- `out_all`: 2 iterations, pipe and fifo of 1 item, so that both block; one start of a
  substream and one death of ffmpeg at any moment, one handled signal (later ones are
  ignored). With two starts the invariants hold as well (1.9 million states, not kept).
- `raw_all`: all sequences of up to 4 packets out of a picture, audio of 2 bytes,
  audio as long as the buffer's step, two products, and a refused packet at the end;
  3.5 bytes of audio per frame, AUDIO_DELTA 1, a queue of 1, 1 tolerated poll. A
  packet gives more than one frame, a frame needs more than one packet, the buffer
  grows, and every prefix may be a truncated file.

`CHECK_DEADLOCK FALSE` stands where a bound or the end of the program stops the
behaviour (ring, main material, substream, main output, raw packets, and a decoder whose
material was deleted); `Materials` never stops.

Fairness, and why the code gives it:

- `ShmQueue`: weak fairness of a put that was begun and of each reader, loops of
  running processes that wait for nobody. Whether a put begins is open.
- `MainReader`: weak fairness of the two threads; a read of the source returns
  (a frame, the end or an error).
- `Materials`: weak fairness of the main loop and of each opening thread. The
  threads that compete for the mailbox need no strong fairness: each ends once it
  has put its materials, and the main loop empties the mailbox once per cycle.
- `SubStream`: weak fairness of the threads and of a command that was begun,
  strong fairness of `Popen`: a popen tried every second succeeds some time.
  Commands and frames need not come.
- `StreamDecoder`: weak fairness of the decoder thread and of the main loop, which
  draws frame after frame; strong fairness of opening and reading the source, which
  are tried again every second. START, STOP and EXIT need not come.
- `MainOutput`: weak fairness of the threads, of a SIGPIPE that was sent, and of a
  living ffmpeg; the ffmpeg of a substream ends once the process has ended. Signals,
  the end of the main material, the start, the popen and the first frame of a substream
  and the death of ffmpeg need not come.
- `RawFeed`: weak fairness of the decoder thread and of the main loop; none of the
  program that writes the ring.

## 4. What the runs found

- **The last frames are not rendered** (`main_eof_race`). The pop fails, the
  decoder queues its last frames and sets `bEOF`, the reader looks at `bEOF`.
- **A decoder that does not start** (`mat_switch_race`). A switch visits `mlist`; a
  material being opened for the old product joins it stopped, and stays so until its
  product is left and chosen again. `SwitchedDecoders` exempts such materials.
- **A null pointer is written to or closed** (`sub_crash`). START sets `writer` to
  NULL while RUN is between its test and its use.

Other behaviours of the models, that the exceptions in the properties name or
that showed when the properties were stated without them:

- With two readers and a ring that is reused, a reader that stalls before its CAS on
  `head_pos` until the ring went round succeeds although another reader has returned
  the message (4 nodes, 6 messages are enough); `shm_queue.h:9` promises several
  readers. The program has one reader per ring, so no run keeps it.
- `NoWriteAfterRead` needs a reserve with `RESERVE_BLOCK_COUNT + 1 >= 2 * longest
  message` (in nodes): the test after a wrap (`shm_queue.c:736`) ignores the
  reserve. With the reserve of 10 that is safe for messages of up to 5 nodes; with
  reserve 2 and messages of 2 nodes TLC finds a token reset in a node in use.
- A writer slower than the conflict time publishes a node that the reader has given
  up. The ring comes round, the next message in that node is filled and, before its own
  token is set, returned because of the old one; its token then stays behind in a free
  node, and one round later the message is returned again (3 nodes, 5 messages of one
  node are enough). `shm_queue.c:938` says of the reset tokens that a "node will not be
  treated as a starting node of data"; that nothing is returned twice holds only for
  writers in time (`RingIsFifo`). `FreshWhenQuiet` is what is left: it takes a put that
  is under way.
- In a live setting a main video frame that is late by one frame ends the program
  as EOF (`decorateVideo.cpp:2037`): the exception of `EofIsReal`.
- A converted video that reads the end of its source in an iteration that has read
  a frame advances its clock without a frame (`decorateVideo.cpp:1544`); with the
  race of `main_eof_race` that also happens before its last frames, which are then
  shown late (`bEOF`, the exception of `InStep`). Repeated frames bring no sound: when
  one is shown and the sound is behind, silence is sent for all that is due, up to one
  frame of the output and the delay of the sound, and the sound is late for good by that
  much. A frame shown for the first time waits for its sound instead.
- `sent_audio_bytes` is an `int` (`decorateVideo.cpp:1323`): at 48 kHz stereo it
  overflows after about 3.1 hours, although `decorateVideo.cpp:975` allows a week;
  from then on `audio_bytes_cur_frame` is out of range and an output without main
  audio gets no silence any more. The models count without a width.
- A switch from no product stops no decoder (`Unseen`, the exception of
  `SwitchedDecoders`).
- A DEL of a background material, or an ADD below it, shifts the list under
  `static_idx`. `DrawsWhatIsListed` excludes exactly this by its hypothesis, and no
  other property catches it.
- A MOD line deletes (`stream_cmd.cpp:127`); a DEL handled after the success event
  but before the main loop emptied the mailbox finds nothing.
- A quick restart of the substream may also lose the new command line, leave the
  old pipe open for ever, or send frames to the old address (`hasty`); a refused
  SUBOUT has already replaced the frame size (`refused`); a STOPSUB between popen
  and the start of the audio thread leaves the audio thread started.
- At the end of a file `RUN` waits until `vQueue` is empty
  (`videoplayer.cpp:1885`), then clears both queues: the last pieces of sound, or
  those of an audio-only material, of up to `max_queque_size` frames, are dropped.
- `Discard` after a clear by the decoder thread (a late read, a reconnection) pops
  from an empty queue (`reset`, the exception of `NoUnderflow`); when the clear
  comes between the two looks at the size, a negative length becomes a huge one.
- A stopped decoder does not always close: a frame queued after the clear of STOP
  holds `RUN` at the end of the file until the next START, or keeps
  `cache_video_data` in its loop when the audio has ended and `vQueue` is full
  (`Parked`). A STOP and START that `RUN` does not notice go on in the middle of the
  file; one that it notices late shows a frame and then starts over (`lost`).
- The encoder threads say "exit only when queue is empty" (`videowriter.cpp:77`), but
  look at `bExit` after a failed pop: what is pushed in between stays in the queue.
  `OutputComplete` therefore speaks of what the threads took.
- `AudioNeverOpened`, an exception of `Terminates`: a main material that ends before
  the audio thread has opened the fifo leaves ffmpeg waiting for a writer and main
  waiting in `pclose`. The other one, `inherited`: the fifo is opened without
  `O_CLOEXEC` (`videowriter.cpp:160`), so the ffmpeg of a substream holds it open, and
  `pclose` waits until the substream is over, which is only stopped afterwards.
- `SelfDeadlock`, the exception of `SignalEnds`: the handler clears queues
  (`decorateVideo.cpp:109`); if it interrupted a push it waits for its own thread.
- Two ends leave the fifo, and `FifoRemoved` names both: a signal before
  `decorateVideo.cpp:1170`, and a SUBOUT with fewer than four parameters, on which main
  returns from its loop without a `remove` (`decorateVideo.cpp:1425-1428`). Every
  other return after the fifo is made removes it, but that of line 1149, which is never
  taken: `start_stream_cmd_thread` always returns 0. No doc says what such a command
  should do.
- `START_OF_STREAM` is sent for the main output and again for each START of a
  substream, by the same class (`videowriter.cpp:95`, `videowriter.h:53`), without
  anything to tell them apart; the substream's may come first, before the main ffmpeg
  got a frame. `EventsInOrder` says what is left for the receiver.
- `fwrite` never returns a negative number, so `ET_PUSH_FAILURE`
  (`videowriter.cpp:86-91`) is never sent; `ET_END_OF_STREAM` is sent nowhere;
  `ET_READ_FAILURE` may still be queued when main returns.
- Raw packets: audio after the last picture of a raw mainvideo is dropped, and so is
  buffered audio when the ring times out; the byte counters start anew in each call
  of `cache_video_data`, so up to a byte per call is lost to rounding; `aQueue` may
  exceed its limit, because it is looked at once for all the frames a packet gives.
- A START between a failed reconnection and the next resets `bEOF`; old and new
  frames are then in the queues together (`revoked`).

## 5. Proofs

Seven modules of theorems, one per component, and one of lemmas, all checked by TLAPS.
Every theorem holds for all values of the constants that the named ASSUME of the
component's module allows; those ASSUMEs state types and, where said below, one more
fact. Each component has one inductive invariant, a conjunction of named parts that TLC
checked before it was proved. Its proof goes part by part and, within a part, action by
action; the properties follow from it.

**`ShmQueueProofs`**, for every ring size, reserve, set of lengths,
buffer and bound. The assumptions are those of
`ShmQueueAssumption` (sizes are naturals, the ring has a node, messages have at
least one). The first three theorems and the last hold for any speed of the processes.

- `TypeCorrect`: `Spec => []TypeOK`, for any writers and readers. `TypeOK` is
  inductive; `AddPosType` keeps positions in the ring.
- `WindowInvCorrect`: `Spec => []WindowInv`, for one writer and one reader (no run
  checks `WindowInv`: it is the strengthening, proved for every ring).
- `WindowCorrect`: `Spec => WindowSafe`, for one writer and one reader.

`WindowSafe` says what a step may do to the positions, but a CAS acts on values
computed earlier. So the invariant records what each side knows between its
checks and its CAS: `ClaimInv` (the claim of `sq_put` is free and does not reach
the head) and `GetInv` (the positions of `sq_get` lie between head and tail). Two
lemmas carry the interference: a reader that moves `head_pos` within the window
keeps `ClaimInv` (`HeadKeepsWriter`), a writer that claims keeps `GetInv`
(`ClaimKeepsReader`). `AddPosCases` and `UsedNodesCases` turn the modular
arithmetic of the macros into cases. One writer and one reader is what the program
uses; with two readers `GetInv` is false.

- `RingIsFifo`: `Spec => Fifo`, the refinement of `FifoQueue`; `EmptyRingCorrect`
  (`EmptyMeansDelivered`) and `ReserveCorrect` (`NoWriteAfterRead`), from
  `QueueInvCorrect` (`QueueInv`). For one writer and one reader, a writer faster than
  the conflict time (`~ConflictExpires`) and a reserve for two messages (`Fits`). The
  code checks neither; without the one messages are lost, without the other tokens are
  reset in nodes in use (section 4). The reserve of 10 covers messages of up to 5 nodes.

`QueueInv` says that some layout, a place for each message number, describes the
ring: the state has no such variable, so the invariant is an existential one, and only
`PutClaim` needs a new witness. `LayoutInv` lays the messages not yet returned in a row
from `head_pos` to `tail_pos`, each behind the one before or at node 0 behind skipped
nodes; `FullInv` says that they are complete and marked, `BusyInv` how far the one being
written is, `WalkInv` what the reader may already rely on. The reset of tokens behind the
CAS is the hard part: `ClearInv` and `FreeInv` say where tokens are still to be reset,
and `ReserveInv` that a claim stays clear of them. `ReserveEnough` and `ReserveWrapped`
are where `Fits` is used: the test after a wrap ignores the reserve, but a wrap only
happens with more than the reserve free below `head_pos`.

- `FreshCorrect`: `Spec => []FreshWhenQuiet`, for one writer and one reader, without
  `Fits` and without `~ConflictExpires`.

Its invariant `OldInv` has no layout, because a reader that gave up on a slow writer may
stand in the middle of a message. It gives each node the message it was last taken for,
again as an existential witness that only `PutClaim` changes (`OwnerInv`: owners grow
towards the tail). A token HAS_DATA is either that of the owner, whole and newer than
all that was returned, or left over in the nodes being written (`ShownInv`);
`WrittenInv` follows those until the message is published, which is where `PutMark` and
the memcpy over old headers matter. `CopiedInv` is the reader's side: what it has copied
is older than the owners of everything behind it. That is no longer so clear when the
token it looked at was reset or overwritten meanwhile, so `CopiedInv` says what the node
may be by then. `SizedInv` excludes a copy of no nodes. A reader that looks at nodes just
being written may still return an old message again (section 4): the theorem says that
once the put is over, a reader that looks then does not find one.

**`MainReaderProofs`**, for any length of the source, any queue, any patience and any
two frame rates, and any amounts of sound. Assumed besides types: main audio is not
converted and is its own sound, and only a main audio starts ahead, as in the code.

- `NoFrameLost` (`FramesKept`), `EndIsTrue` (`EofIsReal`), `ConversionKeeps`
  (`Conversion`), and the action property `ShownInTime` (`InStep`), from
  `ReaderInvariant` (`ReaderInv`).

`ReadInv` bounds the number of a frame by its place on the way and by what was read, so
that the last of `NumFrames` frames taken is the last of the source (`Duration`). The clock needs an invariant per relation
of the rates: `PlainInv` (equal), `FirstInv` (before the first frame), `RepeatInv` (a
slower source: `cts` is exactly one frame behind what was taken) and `SkipInv` (a faster source). `SkipInv` was the hard
one: a read that finds nothing in an iteration that has a frame moves `cts` ahead of the
frames, by one frame as long as others are queued and by more only when the queue is
empty for good. Its last conjunct gives the constant of `Duration`. `SoundInv` is the
part for `LipSync`: the frames taken last no longer than the sound sent that was the
source's, that of this iteration and `gap`, so that silence, which fills the output up to
its clock, cannot exceed its bound a second time. It holds while the main loop runs; the
silence at the end of the source is not in the middle of anything. The steps of the
main loop are first sorted by what they do to the pictures (`Waits`, `Quits`, `Jumps`,
`Shows`, `Mutes`, `Closes`), which leaves six cases instead of one per branch.

**`MaterialsProofs`**, for any materials, any set of lines and any number of opening
threads. Assumed besides types: finitely many materials at the start, one ADD line per
object (section 2).

- `ListsSound` (`ListInv`), `DecodersHaveOwners` (`DecodersOwned`), `SwitchIsComplete`
  (`SwitchedDecoders`), `DrawnAsListed` (`DrawsWhatIsListed`), from
  `MaterialsInvariant` (`MaterialsInv`).

`PlaceInv` says that the command queue, the batch, the opening threads with the mailbox,
the list and the deleted are disjoint and together all that was added; `HeldInv` that
the threads do not share a material and that the one whose number is in the mailbox has
ended; `QueueInv` that no sequence names a material twice. `OpenInv` knows of each opening thread how
far it came, which is what `DecodersOwned` needs when a failure closes the batch and
`SwitchedDecoders` when the batch is listed. `DrawInv` ties `static_idx` to what the
background was drawn from. The lemmas on `mlist` (`RemoveFacts`, `SortsFacts`,
`SelectFacts`) describe DEL, the sort and the selection without induction over the list.
`Least` is a least-number principle as a lemma about sets, without an operator as a
parameter, so it can be instantiated; it finds the material that DEL deletes, the first
product and the top of the background.

**`SubStreamProofs`**, for any number of SUBOUTs, STOPSUBs and frames.

- `PipesCorrect` (`PipeInv`) and `RestartsCorrect` (`PatientRestart`), from
  `SubInvariant` (`SubInv`).

`CommandInv` says in which state START and STOP leave the flags and the queue, `FrameInv`
that queued frames are of the current substream and that the one in the video thread's
hands is not of an earlier one than `writer`: that holds whatever START does to `writer`
meanwhile, and is why even a hasty restart writes no old frame into a new pipe.
`PatientInv` holds while no SUBOUT was hasty; it says at which places the thread has a
writer, which `NoCrash` (refuted by `sub_crash`) would need of all restarts.

**`StreamDecoderProofs`**, for any source, any queue sizes, kinds and commands.

- `QueuesCorrect` (`QueueInv`) and the action property `FileInOrder` (`NextShown`), from
  `DecoderInvariant` (`DecoderInv`).

`NextShown` compares the frame shown with the next one. `ShownInv` is the state that makes
it true: the queue of a file holds the latest frames, numbered without gaps up to what was
read, and the frame shown is the one before the queue or, when the queue begins the file,
the last one of the round before. `OpeningInv` says how long frames of an old opening may
be queued (until the source is opened once more, unless `revoked`), `DiscardInv` what the
two looks at the size still guarantee at the pop (unless `reset`), `SourceInv` where in
`RUN` the source is open and `bEOF` false.

**`MainOutputProofs`**, for any number of frames, any size of the pipes and any number of
substreams.

- `OutputKept` (`TransitInv`), `EndIsClean` (`EndsClean`), `EventOrder`
  (`EventsInOrder`), from `OutputInvariant` (`OutputInv`).

`VideoInv` and `AudioInv` hold the equation of what was queued with what arrived, what is
in the pipe, in a thread's hands and in the queue, and say that a thread that stopped
with a frame has sent a signal: without the last part `FailureNoticed` is not inductive.
`EndInv` says what is over at each place of the shutdown. `FirstInv` and `EventInv` tie the
events sent to the places of the threads that send them. `CountInv` counts
`START_OF_STREAM` with those that a started substream still owes (`Owed`), against
`sendnum` and the number of starts; without `Owed` it would not survive `SubWrite`.

**`RawFeedProofs`**, for every set of packet sequences, any fraction as the size of a
frame of audio, any buffer step, AUDIO_DELTA, queue and patience. Of
`RawFeedAssumption` only one part is not about types: a frame of audio is longer than
AUDIO_DELTA and two bytes (otherwise a request of nothing is taken for the end).

- `RawTypeCorrect`, `RawBufferSafe`, `RawTagsCorrect`, `RawPace`, `RawSwitchLoss`,
  `RawPatient`: `TypeOK`, `BufferFits`, `TagMatches`, `Pace`, `SwitchLoss` and
  `PatientRead` hold always; `RawAudioBounds` joins three of them into the
  `AudioBounds` that `raw_all` checks.
- `RawFramesComplete` (`FrameComplete`), `RawAudioIntact` (`AudioIntact`) and
  `RawEndIsReal` (`EndIsReal`).

All follow from one inductive invariant, `RawInv` (`RawInvariant`). `TagMatches` is
about frames handed on; it needs `OwnInv`, that the audio still buffered is of the
current product and the current product is the last one named. `Pace` and
`SwitchLoss` need `RateInv`: what was handed on against the frames counted, at each
place of the loop, and that a packet is only read while the buffer lacks more than
AUDIO_DELTA to what is wanted. The rounding is turned into linear facts by a few lemmas
(`DivFloor`, `Rounded`, `HandedOn`). `PatientRead` needs that `timeout` never exceeds
`idle` (`PollInv`).

`FeedInv` is the part for the last three. They count bytes, with cardinalities of sets of
places, so the proofs rest on lemmas on what a count becomes when a sequence is cut or put
behind another (`OccursCat`, `TotalAppend`, `HeardAppend`). `Moves` reduces the steps to
three kinds: one hands on the front of the buffer (`Hands`), one reads a packet behind
what is kept of it (`Adds`), the rest leave the bytes where they are (`Rests`). `FoundInv` counts
the bytes of each packet over frames, buffer and discarded pieces; it needs `SeenInv`,
that there are none of a packet before it is read. `OrderInv` says which piece precedes
which. `FrameComplete` needs `PictureInv`: between two packets the buffer of a raw
mainvideo is already the audio of the next picture, wherever that will come, which
`AudioAfter` and `NoAudioAfter` follow from packet to packet. `EndInv` says that only a
file is cut or ends, and that a raw mainaudio that takes nothing has nothing left.

Only model-checked:

- all liveness properties (`EventuallyDelivered`, `Ends`, `FailureReported`,
  `AddedIsListed`, `Starts`, `StopCloses`, `Exits`, `Parks`, `Loops`, `Terminates`,
  `SignalEnds`): fairness is out of the prover's reach;
- of the ring, `Fifo` with several writers and readers, for which `WindowInv` is false
  once the ring is reused.

## 6. Not modelled

- In the modelled components: signalling and creation of the ring; the
  sleep between the frames of a live output; the main loop's MOD
  branch, which the parser never reaches; ADD lines that do not parse, which have
  no effect; `disable_audio`; `close_streamout_thread`, followed by `_exit`; data races on
  `decodermap`, whose tree the models do not have.
- Of the streaming decoders: the bytes of sound kept between two reads and
  `reopen_time`, which discards them; frames that `read_video_frame` drops inside a
  stream, which the model does not count; the frames that the flush at the end of a
  source without audio leaves in `video->buffers` and that are queued without a look at
  the room (`videoplayer.cpp:697-785, 1291-1305, 2097-2109`). Extra frames are queued
  that way in the model with audio only.
- Of the main material: a main audio file without a mainvideo, which has no decoder
  thread; the sound that is demuxed after the last frame, which the code drops.
- Of the substream: the death of its ffmpeg. It raises SIGPIPE, and `sig_handler` ends
  the whole program (`decorateVideo.cpp:82-88`); the fifo of a substream, which only the
  normal end and `sig_handler` remove, no return from main.
- Of the background: animated pictures and clocks, `output_alpha` and the rotation and
  opacity of the OpenGL path, which end it earlier (`decorateVideo.cpp:1225, 1234-1240`).
  `StaticIdx` of a model without them covers more materials, and `DrawsWhatIsListed`
  does not depend on where it ends.
- A limit of the queue to ffmpeg: the code has none (`videowriter.cpp:131`).
- Of the main output: SIGABRT, destructors that run while threads go on after a
  return from main, an event fifo that nobody reads, the waits of the event thread. Of the raw packets: scaling,
  `bExit` during a read.
- Subtitles: the state of `FFSubtitleEncodeThread` is a filter graph of libav.
- The timing of animated materials (`material.cpp:921-1104`): sequential, no thread
  meets another there.
- libav, OpenCV and OpenGL calls, option parsing, logging: sequential, with data
  that no property here tells apart.

The repository has about 47,000 lines of implementation, of which more than 35,000
are vendored or generated (`3rd/ippiw`, `opengl/glad`, the log library); most of the
rest is pixel arithmetic, libav calls and option parsing. The modules cover the
files in which threads and processes meet.

## 7. Plan

1. Done: the ring, the main material with the conversion of the frame rate,
   materials, the substream, the streaming decoders, the main output with shutdown
   and events, the raw packet readers; the theorems of section 5, which cover every
   invariant of `MainReader`, `Materials`, `SubStream`, `StreamDecoder`, `MainOutput` and
   `RawFeed` that a run checks, those of the ring for one writer and one reader, the
   refinement of `FifoQueue`, and the action properties `WindowSafe`, `InStep` and
   `NextShown`.
2. The START and STOP states of `StreamDecoder` as what `Materials` assumes of a
   decoder: an abstract decoder that both modules are related to.
3. The width of `sent_audio_bytes`; signalling of the ring; the timing of animated
   materials as a function checked against a reference.
