---------------------------- MODULE StreamDecoder ---------------------------
(***************************************************************************)
(* The decoder of one material that is a video or an audio:                 *)
(* FFVideoDecodeThread in AV_STREAMING mode (videoplayer.cpp).  Its thread  *)
(* opens the source, fills vQueue and aQueue, and at the end starts again;  *)
(* the main loop starts and stops it with the product, takes frames from    *)
(* the queues, and lets it exit when the material is deleted.               *)
(*                                                                         *)
(* A frame is the opening of the source it comes from and its number there; *)
(* audio is cut into pieces as long as a frame.  Each SafeQueue call is one *)
(* step, and so are the Clear calls that follow one another.                *)
(***************************************************************************)
EXTENDS Integers, Sequences, Functions

CONSTANTS
    Options,     \* the kinds of material that are considered
    NumFrames,   \* bound: frames of the source, per opening
    frame_num,   \* max_queque_size
    stream_size, \* stream_buffer_size, the floor of a stream
    NumOpens,    \* openings that are told apart: their numbers start again
    MaxLate      \* bound: reads that take so long that the queues are cleared

\* stream: is it rtmp://...; video, audio: what is decoded; max_commands: bound
\* on the START and STOP by the main loop
Option == [stream : BOOLEAN, video : BOOLEAN, audio : BOOLEAN, max_commands : Nat]

ASSUME StreamDecoderAssumption ==
    /\ Options \subseteq {o \in Option : o.video \/ o.audio}
    /\ {MaxLate, stream_size} \subseteq Nat
    /\ {NumFrames, NumOpens, frame_num} \subseteq Nat \ {0}

VARIABLES
    opt,                   \* the kind of material, which does not change
    bStopped, bExit, bEOF, \* atomic flags
    vQueue, aQueue,        \* shared queues
    dpc,                   \* where the decoder thread is, "none" before it runs
    opened,                \* is the source open?
    opens,                 \* the number of this opening
    vpos, apos,            \* frames and pieces read from this opening
    has_data,              \* did this round of the cache loop do anything?
    mpc,                   \* where the main loop is
    discard,               \* the frames it is about to discard
    last_frame,            \* the frame it shows, <<>> for none
    commands,              \* bound: START and STOP so far
    late,                  \* bound: late reads so far
    reset,                 \* history: were the queues cleared during this ReadFrame?
    lost,                  \* history: were they cleared, other than to rewind, since
                           \* a frame was last shown?
    revoked,               \* history: did a START take back the end of the source?
    given                  \* history: the frames of the last opening that gave any

source == <<opened, opens, vpos, apos, given>>
history == <<reset, lost, late>>
queues == <<vQueue, aQueue>>
flags == <<bStopped, bExit, bEOF>>
mvars == <<mpc, discard, last_frame, commands, revoked>>
vars == <<opt, flags, queues, dpc, source, has_data, mvars, history>>

floor_size == IF opt.stream THEN stream_size ELSE 0

Init ==
    /\ opt \in Options
    /\ bStopped = FALSE /\ bExit = FALSE /\ bEOF = FALSE
    /\ vQueue = << >> /\ aQueue = << >>
    /\ dpc = "none" /\ opened = FALSE /\ opens = 0 /\ vpos = 0 /\ apos = 0 /\ has_data = FALSE
    /\ mpc = "idle" /\ discard = 0 /\ last_frame = << >> /\ commands = 0
    /\ late = 0 /\ reset = FALSE /\ lost = FALSE /\ revoked = FALSE /\ given = 0

-----------------------------------------------------------------------------
(* FFVideoDecodeThread::RUN.                                                *)

Goto(pc) ==
    /\ dpc' = pc
    /\ UNCHANGED <<opt, flags, queues, source, has_data, mvars, history>>

Clear ==
    /\ vQueue' = << >> /\ aQueue' = << >>
    /\ reset' = (mpc \in {"cut", "pop"})

\* while (!bExit), and the first test of bStopped
Top ==
    /\ dpc = "top"
    /\ Goto(IF bExit THEN "done" ELSE IF bStopped THEN "stopped" ELSE "open")

\* The source is opened at its beginning
OpenSource ==
    /\ opened' = TRUE
    /\ opens' = (opens + 1) % NumOpens
    /\ vpos' = 0 /\ apos' = 0
    /\ given' = IF vpos = 0 THEN given ELSE vpos

\* open_video_reader: nothing to do if it is open
Open ==
    /\ dpc = "open"
    /\ \/ opened /\ UNCHANGED source
       \/ ~opened /\ OpenSource
    /\ dpc' = "check"
    /\ UNCHANGED <<opt, flags, queues, has_data, mvars, history>>

\* It cannot be opened: the queues are cleared, tried again a second later
OpenFails ==
    /\ dpc = "open"
    /\ ~opened
    /\ Clear
    /\ lost' = TRUE
    /\ dpc' = "top"
    /\ UNCHANGED <<opt, flags, source, has_data, mvars, late>>

\* The second test of bStopped, then that of bEOF
Check ==
    /\ dpc = "check"
    /\ Goto(IF bStopped THEN "stopped" ELSE IF bEOF THEN "eof" ELSE "cache")

Stopped ==
    /\ dpc = "stopped"
    /\ Goto(IF bExit THEN "done" ELSE IF bStopped THEN "close" ELSE "top")

\* Mutant: the queues are not cleared
CloseKeepsQueues ==
    /\ dpc = "close"
    /\ opened' = FALSE
    /\ dpc' = "top"
    /\ UNCHANGED <<opt, flags, queues, opens, vpos, apos, given, has_data, mvars, history>>

\* read_video_close_only, and the queues are cleared
Close ==
    /\ dpc = "close"
    /\ opened' = FALSE
    /\ Clear
    /\ lost' = TRUE
    /\ dpc' = "top"
    /\ UNCHANGED <<opt, flags, opens, vpos, apos, given, has_data, mvars, late>>

-----------------------------------------------------------------------------
(* cache_video_data.                                                        *)

\* A round of the loop: video first, if its queue has room
Cache ==
    /\ dpc = "cache"
    /\ has_data' = FALSE
    /\ dpc' = IF bExit THEN "after"
              ELSE IF opt.video /\ Len(vQueue) < frame_num THEN "readv" ELSE "half"
    /\ UNCHANGED <<opt, flags, queues, source, mvars, history>>

\* The queues are kept, or cleared because the last read was too long ago
Late ==
    \/ UNCHANGED <<queues, history>>
    \/ /\ late < MaxLate
       /\ late' = late + 1
       /\ lost' = TRUE
       /\ Clear

ReadVideo ==
    /\ dpc = "readv"
    /\ vpos < NumFrames
    /\ vpos' = vpos + 1
    /\ Late
    /\ dpc' = "pushv"
    /\ UNCHANGED <<opt, flags, opened, opens, apos, given, has_data, mvars>>

\* Frames that were decoded on the way to the audio are queued along with it,
\* without a look at the room
PushVideo ==
    /\ dpc = "pushv"
    /\ vQueue' = Append(vQueue, [of |-> opens, no |-> vpos])
    /\ has_data' = TRUE
    /\ \/ opt.audio /\ vpos < NumFrames /\ vpos' = vpos + 1 /\ UNCHANGED dpc
       \/ dpc' = "half" /\ UNCHANGED vpos
    /\ UNCHANGED <<opt, flags, aQueue, opened, opens, apos, given, mvars, history>>

\* Then audio, if its queue has room; the loop ends when both are full
Half ==
    /\ dpc = "half"
    /\ Goto(IF opt.audio /\ Len(aQueue) < frame_num THEN "reada"
            ELSE IF has_data THEN "cache" ELSE "after")

ReadAudio ==
    /\ dpc = "reada"
    /\ apos < NumFrames
    /\ apos' = apos + 1
    /\ Late
    /\ dpc' = "pusha"
    /\ UNCHANGED <<opt, flags, opened, opens, vpos, given, has_data, mvars>>

\* All the pieces that were decoded with it are queued
PushAudio ==
    /\ dpc = "pusha"
    /\ aQueue' = Append(aQueue, [of |-> opens, no |-> apos])
    /\ has_data' = TRUE
    /\ \/ apos < NumFrames /\ apos' = apos + 1 /\ UNCHANGED dpc
       \/ dpc' = "cache" /\ UNCHANGED apos
    /\ UNCHANGED <<opt, flags, vQueue, opened, opens, vpos, given, mvars, history>>

\* No audio is left: the end, unless there is a video whose end is awaited
NoAudio ==
    /\ dpc = "reada"
    /\ apos = NumFrames
    /\ Late
    /\ has_data' = TRUE
    /\ IF opt.video THEN dpc' = "cache" /\ UNCHANGED bEOF
                    ELSE dpc' = "after" /\ bEOF' = TRUE
    /\ UNCHANGED <<opt, bStopped, bExit, source, mvars>>

\* No video is left
NoVideo ==
    /\ dpc = "readv"
    /\ vpos = NumFrames
    /\ Late
    /\ bEOF' = TRUE
    /\ dpc' = "after"
    /\ UNCHANGED <<opt, bStopped, bExit, source, has_data, mvars>>

\* A read failed: RUN takes that for the end
ReadFails ==
    /\ dpc \in {"readv", "reada"}
    /\ bEOF' = TRUE
    /\ dpc' = "after"
    /\ UNCHANGED <<opt, bStopped, bExit, queues, source, has_data, mvars, history>>

-----------------------------------------------------------------------------
(* RUN, at the end of the source.                                           *)

After ==
    /\ dpc = "after"
    /\ Goto(IF bEOF THEN "eof" ELSE "top")

\* Mutant: a file is rewound at once
EofAtOnce ==
    /\ dpc = "eof"
    /\ Goto("reopen")

\* A stream is reconnected after a second, a file when its frames are consumed
Eof ==
    /\ dpc = "eof"
    /\ Goto(IF opt.stream THEN "reopen" ELSE "drain")

\* Mutant: bExit is not looked at while frames are left
DrainStubborn ==
    /\ dpc = "drain"
    /\ vQueue = << >>
    /\ Goto("reopen")

Drain ==
    /\ dpc = "drain"
    /\ bExit \/ vQueue = << >>
    /\ Goto("reopen")

\* Mutant: the queues are not cleared
ReopenKeepsQueues ==
    /\ dpc = "reopen"
    /\ ~bExit
    /\ OpenSource
    /\ bEOF' = FALSE
    /\ dpc' = "top"
    /\ UNCHANGED <<opt, bStopped, bExit, queues, has_data, mvars, history>>

\* Mutant: bEOF stays set
ReopenStaysEof ==
    /\ dpc = "reopen"
    /\ ~bExit
    /\ OpenSource
    /\ Clear
    /\ dpc' = "top"
    /\ UNCHANGED <<opt, flags, has_data, mvars, lost, late>>

\* reopen_video_reader succeeded: the queues are cleared
Reopen ==
    /\ dpc = "reopen"
    /\ ~bExit
    /\ OpenSource
    /\ Clear
    /\ bEOF' = FALSE
    /\ dpc' = "top"
    /\ UNCHANGED <<opt, bStopped, bExit, has_data, mvars, lost, late>>

\* It failed: bEOF stays set, the queues stay as they are
ReopenFails ==
    /\ dpc = "reopen"
    /\ ~bExit
    /\ opened' = FALSE
    /\ dpc' = "top"
    /\ UNCHANGED <<opt, flags, queues, opens, vpos, apos, given, has_data, mvars, history>>

ReopenExit ==
    /\ dpc = "reopen"
    /\ bExit
    /\ Goto("done")

-----------------------------------------------------------------------------
(* The main loop.                                                           *)

\* start_video_decoder_thread: INIT resets the flags one by one and forgets
\* the last frame, START runs the thread if there is none
START ==
    /\ mpc = "idle"
    /\ commands < opt.max_commands
    /\ commands' = commands + 1
    /\ bStopped' = FALSE
    /\ mpc' = "init"
    /\ UNCHANGED <<opt, bExit, bEOF, queues, dpc, source, has_data, discard, last_frame, revoked, history>>

StartRun ==
    /\ mpc = "init"
    /\ bEOF' = FALSE
    /\ revoked' = (revoked \/ bEOF)
    /\ last_frame' = << >>
    /\ dpc' = IF dpc = "none" THEN "top" ELSE dpc
    /\ mpc' = "idle"
    /\ UNCHANGED <<opt, bStopped, bExit, queues, source, has_data, discard, commands, history>>

\* stop_video_decoder_thread: bStopped is set, ...
STOP ==
    /\ mpc = "idle"
    /\ commands < opt.max_commands
    /\ commands' = commands + 1
    /\ bStopped' = TRUE
    /\ mpc' = "stop"
    /\ UNCHANGED <<opt, bExit, bEOF, queues, dpc, source, has_data, discard, last_frame, revoked, history>>

\* ... the queues are cleared and the last frame is forgotten
StopClear ==
    /\ mpc = "stop"
    /\ Clear
    /\ last_frame' = << >>
    /\ mpc' = "idle"
    /\ UNCHANGED <<opt, flags, dpc, source, has_data, discard, commands, revoked, lost, late>>

\* close_video_thread with force: the thread is told to exit and detached
EXIT ==
    /\ mpc = "idle"
    /\ bExit' = TRUE
    /\ Clear
    /\ mpc' = "gone"
    /\ UNCHANGED <<opt, bStopped, bEOF, dpc, source, has_data, discard, last_frame, commands, revoked, lost, late>>

Least(m, n) == IF m <= n THEN m ELSE n
DropFirst(q, n) == SubSeq(q, n + 1, Len(q))

\* read_thread_stream_video_frame, for a material that is shown.  A stream
\* that is too far ahead is cut.
ReadFrame ==
    /\ mpc = "idle"
    /\ opt.video /\ ~bStopped
    /\ mpc' = IF floor_size > 0 /\ Len(vQueue) >= floor_size THEN "cut" ELSE "pop"
    /\ UNCHANGED <<opt, flags, queues, dpc, source, has_data, discard, last_frame, commands, revoked, history>>

\* With audio: as many frames are discarded as audio could be taken.  The size
\* is read again; when it is below the floor by now, the negative length is
\* taken for an unsigned one and all the audio is.
Cut ==
    /\ mpc = "cut"
    /\ opt.audio
    /\ LET may_discard == Len(vQueue) - (floor_size \div 2) IN
       discard' = IF may_discard < 0 THEN Len(aQueue) ELSE Least(may_discard, Len(aQueue))
    /\ aQueue' = DropFirst(aQueue, discard')
    /\ mpc' = "pop"
    /\ UNCHANGED <<opt, flags, vQueue, dpc, source, has_data, last_frame, commands, revoked, history>>

\* Without audio: SafeQueue::Floors
CutVideo ==
    /\ mpc = "cut"
    /\ ~opt.audio
    /\ vQueue' = IF Len(vQueue) <= floor_size \div 2 THEN vQueue
                 ELSE DropFirst(vQueue, Len(vQueue) - (floor_size \div 2))
    /\ mpc' = "pop"
    /\ UNCHANGED <<opt, flags, aQueue, dpc, source, has_data, discard, last_frame, commands, revoked, history>>

\* SafeQueue::Discard does not look at the size.  pop of an empty queue is
\* undefined: the program is not followed any further.
Discard ==
    /\ mpc = "pop"
    /\ discard > 0
    /\ IF discard <= Len(vQueue)
       THEN vQueue' = DropFirst(vQueue, discard) /\ mpc' = "pop"
       ELSE mpc' = "undefined" /\ UNCHANGED vQueue
    /\ discard' = 0
    /\ UNCHANGED <<opt, flags, aQueue, dpc, source, has_data, last_frame, commands, revoked, history>>

\* The next frame, or the last one again
PopFrame ==
    /\ mpc = "pop"
    /\ discard = 0
    /\ IF vQueue = << >> THEN UNCHANGED <<last_frame, vQueue, lost>>
       ELSE last_frame' = <<Head(vQueue)>> /\ vQueue' = Tail(vQueue) /\ lost' = FALSE
    /\ mpc' = "idle"
    /\ reset' = FALSE
    /\ UNCHANGED <<opt, flags, aQueue, dpc, source, has_data, discard, commands, revoked, late>>

\* read_thread_stream_audio_frame, for a material of the current product
ReadSound ==
    /\ mpc = "idle"
    /\ opt.audio /\ ~bStopped
    /\ aQueue # << >>
    /\ aQueue' = Tail(aQueue)
    /\ UNCHANGED <<opt, flags, vQueue, dpc, source, has_data, mvars, history>>

-----------------------------------------------------------------------------
RUN ==
    \/ Top \/ Open \/ OpenFails \/ Check \/ Stopped \/ Close
    \/ Cache \/ ReadVideo \/ PushVideo \/ Half \/ ReadAudio \/ PushAudio \/ NoAudio \/ NoVideo \/ ReadFails
    \/ After \/ Eof \/ Drain \/ Reopen \/ ReopenFails \/ ReopenExit

MainStep == StartRun \/ StopClear \/ ReadFrame \/ Cut \/ CutVideo \/ Discard \/ PopFrame
MainLoop == START \/ STOP \/ EXIT \/ ReadSound \/ MainStep

Next == mpc # "undefined" /\ (RUN \/ MainLoop)

Spec == Init /\ [][Next]_vars

\* Both threads go on: the decoder thread polls, the main loop draws frame by
\* frame.  A source that is tried again and again is opened and read some time.
FairSpec ==
    /\ Spec
    /\ WF_vars(mpc # "undefined" /\ RUN)
    /\ WF_vars(mpc # "undefined" /\ MainStep)
    /\ WF_vars(mpc # "undefined" /\ ReadSound)
    /\ SF_vars(Open) /\ SF_vars(Reopen) /\ SF_vars(ReadVideo)

-----------------------------------------------------------------------------
Frames == [of : 0 .. NumOpens - 1, no : 1 .. NumFrames]

\* The types of the variables; what is about to be discarded is no more than a
\* queue can hold and never negative (read_thread_stream_video_frame)
TypeOK ==
    /\ opt \in Options
    /\ bStopped \in BOOLEAN /\ bExit \in BOOLEAN /\ bEOF \in BOOLEAN
    /\ opened \in BOOLEAN /\ has_data \in BOOLEAN
    /\ reset \in BOOLEAN /\ lost \in BOOLEAN /\ revoked \in BOOLEAN
    /\ vQueue \in Seq(Frames) /\ aQueue \in Seq(Frames)
    /\ dpc \in {"none", "top", "open", "check", "stopped", "close", "cache", "readv", "pushv",
               "half", "reada", "pusha", "after", "eof", "drain", "reopen", "done"}
    /\ opens \in 0 .. NumOpens - 1
    /\ vpos \in 0 .. NumFrames /\ apos \in 0 .. NumFrames /\ given \in 0 .. NumFrames
    /\ mpc \in {"idle", "init", "stop", "cut", "pop", "undefined", "gone"}
    /\ discard \in 0 .. frame_num + NumFrames
    /\ last_frame \in {<< >>} \cup {<<f>> : f \in Frames}
    /\ commands \in 0 .. opt.max_commands /\ late \in 0 .. MaxLate

\* What waits to be shown or heard comes from one opening of the source.  Two
\* are mixed only after a START that comes between a failed reconnection and the
\* next: it resets bEOF, and the opening that follows does not clear the queues
\* (RUN, videoplayer.cpp:1832-1902).
OneOpening ==
    ~revoked => \A f, g \in Range(vQueue \o aQueue) : f.of = g.of

\* SafeQueue::Discard pops without looking at the size.  Only when the decoder
\* cleared the queues since read_thread_stream_video_frame looked at them can it
\* pop more frames than there are.
NoUnderflow == mpc = "undefined" => reset

\* The queues hold frames of one opening and are never popped when empty, but
\* for the two races named above.
QueueInv == TypeOK /\ OneOpening /\ NoUnderflow

\* A file is shown frame by frame: after each frame comes the next one or, when
\* the opening gave no more, the first one of a later opening.  The rewind of
\* RUN, which clears the queues, never costs a frame; clearing them for a read
\* that came late or for a stop (lost) may.
NextShown ==
    [][ ~opt.stream /\ ~lost /\ last_frame # << >> /\ last_frame' \notin {<< >>, last_frame}
        => \/ last_frame'[1].no = last_frame[1].no + 1
           \/ last_frame'[1].no = 1 /\ last_frame[1].no = given ]_last_frame

\* The detached thread of a deleted material ends, whatever it is waiting for
\* (EXIT with force)
Exits == bExit ~> dpc \in {"none", "done"}

\* Closed with nothing in the queues, or held up by frames that were queued
\* after the clear of STOP: RUN waits at the end of a file until they are shown,
\* and cache_video_data goes round for room in vQueue when the audio is over
Parked ==
    \/ dpc \in {"none", "done"}
    \/ ~opened /\ vQueue = << >> /\ aQueue = << >>
    \/ opened /\ vQueue # << >>

\* A decoder that stays stopped is parked in the end: no race between STOP and
\* RUN leaves old frames behind a closed source or keeps an idle source open
Parks == <>[]bStopped => <>[]Parked

Plays == opt.video /\ ~opt.stream /\ dpc # "none" /\ ~bStopped /\ ~bExit

\* A video file that stays started is played over and over: its first frame is
\* shown again and again, whatever failed to open or to be read before
Loops == <>[]Plays => []<>(last_frame # << >> /\ last_frame[1].no = 1)
=============================================================================
