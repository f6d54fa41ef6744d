----------------------------- MODULE MainReader -----------------------------
(***************************************************************************)
(* The main material: the decoder thread (FFVideoDecodeThread::RUN with     *)
(* cache_video_data) that fills a bounded queue, and the main loop of       *)
(* decorateVideo.cpp that reads it (read_thread_merge_data for a mainvideo, *)
(* read_thread_separate_audio_frame for a raw mainaudio) and decides, from  *)
(* what it did not get, that the program is over.                           *)
(*                                                                         *)
(* A frame is its number in the source.  Each SafeQueue call is one step    *)
(* (its mutex); the time a read waits is abstracted to "a frame came" or    *)
(* "the second is over and the queue is empty".  A mainvideo whose rate is  *)
(* not that of the output is converted: an iteration reads until it has the *)
(* frame of its time, or shows the last one again.  Time and sound are      *)
(* counted in ticks, which are longer than a sample.  A frame of a mainvideo *)
(* brings the sound that was demuxed before it, any amount of it: Pop picks *)
(* the amount, which nothing looks at before.                               *)
(***************************************************************************)
EXTENDS Integers, Sequences

CONSTANTS
    Options,      \* the settings of the program that are considered
    NumFrames,    \* bound: frames of the source
    SourceFails,  \* can reading the source fail?
    Sounds,       \* how much sound may have been demuxed when a frame comes
    frame_num,    \* max_queque_size, videoplayer.cpp:1827
    read_timeout  \* consecutive one second timeouts that are tolerated

\* main: "video" (AV_TOGETHER) or "audio" (AV_SEPARATE); floor_size:
\* stream_buffer_size for a stream, 0 for a file; has_stream_io: is a stream
\* among the inputs or outputs; is_shm: is the mainvideo's path shm://...;
\* audio_ahead: how far rounding has put a main audio ahead; tstep, ostep: how
\* long a frame of the source and one of the output lasts; sound: the sound is
\* the main material's "own", a mainvideo has "none" (~decode_audio), or there
\* is a "separate" mainaudio that is not raw and that the main loop reads itself
Option == [main : {"video", "audio"}, floor_size : Nat, has_stream_io : BOOLEAN,
           is_shm : BOOLEAN, audio_ahead : Nat, tstep : Nat \ {0}, ostep : Nat \ {0},
           sound : {"own", "none", "separate"}]

ASSUME MainReaderAssumption ==
    /\ Options \subseteq {o \in Option :
                             /\ o.main = "audio" => o.tstep = o.ostep /\ o.sound = "own"
                             /\ o.main = "video" => o.audio_ahead = 0}
    /\ Sounds \subseteq Nat
    /\ NumFrames \in Nat
    /\ SourceFails \in BOOLEAN
    /\ frame_num \in Nat \ {0}
    /\ read_timeout \in Nat \ {0}

VARIABLES
    opt,               \* the settings, which do not change
    queue,             \* videoQueue or aQueue
    bEOF, bExit,       \* atomic flags of the decoder
    error_ret,         \* did the decoder end with an error?
    dpc,               \* where the decoder thread is
    pos,               \* frames read from the source
    mpc,               \* where the main loop is
    timeout_num,       \* consecutive timeouts of the main loop
    first_frame_ready,
    main_vdata, main_adata, \* the frame this iteration has read, 0 if none, and its sound
    shown, cts,        \* mainvideo.ctx: the frame to show again, 0 if none, and its time
    sent_audio_bytes,  \* sound that was sent, in ticks
    result,            \* how the main loop ended
    taken, out,        \* history: the main frames that were read, and rendered
    silence,           \* history: how much of the sound is not the main material's
    gap,               \* history: the most that the mainvideo's own sound was behind
                       \* its frames when one of them came
    late               \* history: a frame was shown because its successor was late

dvars == <<dpc, pos>>
iteration == <<main_vdata, main_adata, shown, cts>>
sound == <<sent_audio_bytes, silence>>
mvars == <<mpc, timeout_num, first_frame_ready, iteration, sound, result, taken, out,
           gap, late>>
vars == <<opt, queue, bEOF, bExit, error_ret, dvars, mvars>>

Init ==
    /\ opt \in Options
    /\ queue = << >>
    /\ bEOF = FALSE /\ bExit = FALSE /\ error_ret = FALSE
    /\ dpc = "loop" /\ pos = 0
    /\ mpc = "top" /\ timeout_num = 0 /\ first_frame_ready = FALSE
    /\ main_vdata = 0 /\ main_adata = 0 /\ shown = 0 /\ cts = 0
    /\ sent_audio_bytes = opt.audio_ahead /\ silence = 0
    /\ result = "running" /\ taken = << >> /\ out = << >>
    /\ gap = 0 /\ late = FALSE

-----------------------------------------------------------------------------
(* The decoder thread.                                                      *)

\* while (!bExit): the reader is open, main is never stopped
RUN ==
    /\ dpc = "loop"
    /\ dpc' = IF bExit \/ bEOF THEN "done" ELSE "cache"
    /\ UNCHANGED <<opt, queue, bEOF, bExit, error_ret, pos, mvars>>

\* cache_video_data reads while its queue is below frame_num
CacheMore ==
    /\ dpc = "cache"
    /\ dpc' = IF ~bExit /\ Len(queue) < frame_num THEN "read" ELSE "loop"
    /\ UNCHANGED <<opt, queue, bEOF, bExit, error_ret, pos, mvars>>

CacheFrame ==
    /\ dpc = "read"
    /\ pos < NumFrames
    /\ pos' = pos + 1
    /\ dpc' = "push"
    /\ UNCHANGED <<opt, queue, bEOF, bExit, error_ret, mvars>>

\* Mutant: the frame is put in front of the queue
CachePushFront ==
    /\ dpc = "push"
    /\ queue' = <<pos>> \o queue
    /\ dpc' = "cache"
    /\ UNCHANGED <<opt, bEOF, bExit, error_ret, pos, mvars>>

CachePush ==
    /\ dpc = "push"
    /\ queue' = Append(queue, pos)
    /\ dpc' = "cache"
    /\ UNCHANGED <<opt, bEOF, bExit, error_ret, pos, mvars>>

CacheEOF ==
    /\ dpc = "read"
    /\ pos = NumFrames
    /\ bEOF' = TRUE
    /\ dpc' = "loop"
    /\ UNCHANGED <<opt, queue, bExit, error_ret, pos, mvars>>

\* Mutant: the error is only logged
CacheErrorSilent ==
    /\ dpc = "read"
    /\ SourceFails
    /\ bEOF' = TRUE
    /\ error_ret' = TRUE
    /\ dpc' = "done"
    /\ UNCHANGED <<opt, queue, bExit, pos, mvars>>

CacheError ==
    /\ dpc = "read"
    /\ SourceFails
    /\ error_ret' = TRUE
    /\ dpc' = "done"
    /\ UNCHANGED <<opt, queue, bEOF, bExit, pos, mvars>>

-----------------------------------------------------------------------------
(* The main loop.                                                           *)

\* Mutant: shared memory is not waited for
can_wait_files == ~first_frame_ready \/ ~opt.has_stream_io

can_wait ==
    \/ ~first_frame_ready
    \/ ~opt.has_stream_io
    \/ opt.main = "video" /\ opt.is_shm

\* Iterations so far.  One that sends silence for missing main audio is left
\* out, on both sides: it takes num and sent_audio_bytes forward alike
num == Len(out)

\* The rates differ by 0.1 frames per second at least
converts == opt.tstep # opt.ostep
ts == num * opt.ostep

\* One more frame is read in this iteration
NeedsFrame ==
    IF ~converts \/ shown = 0 THEN main_vdata = 0 ELSE cts + opt.tstep < ts

\* audio_bytes_cur_frame: what the output lacks at the end of this iteration
audio_due == (num + 1) * opt.ostep - sent_audio_bytes

\* A frame is there and its sound is not, although it has one
NotYetHeard == opt.main = "video" /\ opt.sound = "own" /\ main_vdata # 0

Send(data, dummy) ==
    /\ sent_audio_bytes' = sent_audio_bytes + data + dummy
    /\ silence' = silence + dummy

\* Mutant: silence is sent for sound that has not arrived
MixAtOnce ==
    \/ opt.sound = "separate" /\ \E a \in 0 .. audio_due : Send(a, IF a = 0 THEN audio_due ELSE 0)
    \/ opt.sound # "separate" /\ main_adata # 0 /\ Send(main_adata, 0)
    \/ opt.sound # "separate" /\ main_adata = 0 /\ Send(0, IF audio_due > 0 THEN audio_due ELSE 0)

\* What is sent: what a separate mainaudio has of the sound that is due, which
\* replaces that of the frames; or the sound of the frames read; or, unless it
\* is yet to come, silence for what is due
Mix ==
    \/ /\ opt.sound = "separate"
       /\ \E a \in 0 .. audio_due : Send(a, IF a = 0 THEN audio_due ELSE 0)
    \/ /\ opt.sound # "separate" /\ main_adata # 0
       /\ Send(main_adata, 0)
    \/ /\ opt.sound # "separate" /\ main_adata = 0
       /\ Send(0, IF NotYetHeard \/ audio_due <= 0 THEN 0 ELSE audio_due)

\* The main loop is left: on EOF, after the sound, it closes the decoder; on a
\* failure it sends ET_READ_FAILURE and returns from main at once
Leave(how) ==
    /\ result' = how
    /\ IF how = "EOF" THEN mpc' = "close" /\ Mix ELSE mpc' = "returned" /\ UNCHANGED sound
    /\ UNCHANGED <<timeout_num, first_frame_ready, iteration, taken, out, gap, late>>

\* The read returned 0 without data: the end, or main_vdata is still that of
\* the read before
NoData ==
    \/ main_vdata = 0 /\ Leave("EOF")
    \/ /\ main_vdata # 0
       /\ timeout_num' = 0
       /\ cts' = cts + opt.tstep
       /\ mpc' = "top"
       /\ UNCHANGED <<first_frame_ready, main_vdata, main_adata, shown, sound, result,
                      taken, out, gap, late>>

\* The frame that was read, or the last one again, is rendered, with the sound
Render ==
    /\ out' = Append(out, IF main_vdata # 0 THEN main_vdata ELSE shown)
    /\ shown' = IF converts /\ main_vdata # 0 THEN main_vdata ELSE shown
    /\ first_frame_ready' = TRUE
    /\ Mix
    /\ main_vdata' = 0 /\ main_adata' = 0
    /\ mpc' = "top"
    /\ UNCHANGED <<cts, result, taken, gap>>

\* The read returned 1.  A converted video that has read a frame shows it.
\* Otherwise the read is tried again while the main loop can wait; if not, a
\* missing video frame counts as EOF, missing audio is replaced by silence
NotArrived ==
    \/ /\ can_wait /\ timeout_num >= read_timeout
       /\ Leave("failure")
    \/ /\ main_vdata # 0 /\ ~(can_wait /\ timeout_num >= read_timeout)
       /\ timeout_num' = timeout_num + 1
       /\ Render
       /\ late' = TRUE
    \/ /\ main_vdata = 0 /\ can_wait /\ timeout_num < read_timeout
       /\ timeout_num' = timeout_num + 1
       /\ mpc' = "top"
       /\ UNCHANGED <<first_frame_ready, iteration, sound, result, taken, out, gap, late>>
    \/ /\ main_vdata = 0 /\ ~can_wait /\ (opt.main = "video" \/ audio_due <= 0)
       /\ Leave("EOF")
    \/ /\ ~can_wait /\ opt.main = "audio" /\ audio_due > 0
       /\ timeout_num' = 0
       /\ sent_audio_bytes' = num * opt.ostep
       /\ mpc' = "top"
       /\ UNCHANGED <<first_frame_ready, iteration, silence, result, taken, out, gap, late>>

\* SafeQueue::Floors: keep only the latest n frames
Floors(q, n) == IF n > 0 /\ Len(q) > n THEN SubSeq(q, Len(q) - n + 1, Len(q)) ELSE q

\* The first test of the read functions, then the discard
ReadBegin ==
    /\ mpc = "top" /\ NeedsFrame
    /\ IF bEOF /\ queue = << >>
       THEN NoData /\ UNCHANGED queue
       ELSE /\ queue' = IF opt.main = "video" THEN Floors(queue, opt.floor_size) ELSE queue
            /\ mpc' = "pop"
            /\ UNCHANGED <<timeout_num, first_frame_ready, iteration, sound, result, taken,
                           out, gap, late>>
    /\ UNCHANGED <<opt, bEOF, bExit, error_ret, dvars>>

\* What a frame brings: all the sound demuxed so far (at most one frame of it if
\* it is a raw mainaudio)
Brought ==
    IF opt.main = "audio" THEN 1 .. opt.tstep
    ELSE IF opt.sound = "none" THEN {0} ELSE Sounds

\* How far the mainvideo's own sound is behind the frames taken
lag == Len(taken) * opt.tstep - (sent_audio_bytes - silence + main_adata)

\* A frame comes out of the queue and the clock is set to clock
Pop(clock) ==
    /\ mpc = "pop"
    /\ queue # << >>
    /\ main_vdata' = Head(queue)
    /\ \E a \in Brought : main_adata' = main_adata + a
    /\ taken' = Append(taken, Head(queue))
    /\ queue' = Tail(queue)
    /\ cts' = clock
    /\ timeout_num' = 0
    /\ mpc' = "top"
    /\ UNCHANGED <<opt, bEOF, bExit, error_ret, dvars, first_frame_ready, shown, sound,
                   result, out, late>>
    /\ gap' = IF opt.main = "video" /\ opt.sound = "own" /\ lag' > gap THEN lag' ELSE gap

\* Mutant: the clock stands still
PopFrameNoClock == Pop(cts)

\* The first frame is that of time 0
PopFrame == Pop(IF converts /\ shown # 0 THEN cts + opt.tstep ELSE 0)

\* PopMove returned false: at once, or after waiting for a second
PopNothing ==
    /\ mpc = "pop"
    /\ queue = << >>
    /\ mpc' = "missed"
    /\ UNCHANGED <<opt, queue, bEOF, bExit, error_ret, dvars, timeout_num, first_frame_ready,
                   iteration, sound, result, taken, out, gap, late>>

ShowFrame ==
    /\ mpc = "top" /\ ~NeedsFrame
    /\ Render
    /\ UNCHANGED <<opt, queue, bEOF, bExit, error_ret, dvars, timeout_num, late>>

\* What is done about it depends on the flags the decoder set meanwhile
AfterMiss ==
    /\ mpc = "missed"
    /\ \/ /\ error_ret
          /\ Leave("failure")
       \/ /\ ~error_ret /\ bEOF
          /\ NoData
       \/ /\ ~error_ret /\ ~bEOF
          /\ NotArrived
    /\ UNCHANGED <<opt, queue, bEOF, bExit, error_ret, dvars>>

\* Mutant: the thread is joined without being told to exit
CloseWithoutExit ==
    /\ mpc = "close"
    /\ mpc' = "join"
    /\ UNCHANGED <<opt, queue, bEOF, bExit, error_ret, dvars, timeout_num, first_frame_ready,
                   iteration, sound, result, taken, out, gap, late>>

\* close_video_thread: EXIT sets bExit ...
CloseBegin ==
    /\ mpc = "close"
    /\ bExit' = TRUE
    /\ mpc' = "join"
    /\ UNCHANGED <<opt, queue, bEOF, error_ret, dvars, timeout_num, first_frame_ready,
                   iteration, sound, result, taken, out, gap, late>>

\* ... and joins the thread
CloseJoin ==
    /\ mpc = "join"
    /\ dpc = "done"
    /\ mpc' = "closed"
    /\ UNCHANGED <<opt, queue, bEOF, bExit, error_ret, dvars, timeout_num, first_frame_ready,
                   iteration, sound, result, taken, out, gap, late>>

-----------------------------------------------------------------------------
Decoder == RUN \/ CacheMore \/ CacheFrame \/ CachePush \/ CacheEOF \/ CacheError
MainLoop ==
    ReadBegin \/ PopFrame \/ PopNothing \/ AfterMiss \/ ShowFrame \/ CloseBegin \/ CloseJoin

Next == Decoder \/ MainLoop

Spec == Init /\ [][Next]_vars

\* Both are running threads, and reading the source returns
FairSpec == Spec /\ WF_vars(Decoder) /\ WF_vars(MainLoop)

-----------------------------------------------------------------------------
(* Properties.                                                              *)

\* The type of every variable.
TypeOK ==
    /\ opt \in Options
    /\ queue \in Seq(1 .. NumFrames)
    /\ bEOF \in BOOLEAN /\ bExit \in BOOLEAN /\ error_ret \in BOOLEAN
    /\ first_frame_ready \in BOOLEAN /\ late \in BOOLEAN
    /\ dpc \in {"loop", "cache", "read", "push", "done"}
    /\ pos \in 0 .. NumFrames
    /\ mpc \in {"top", "pop", "missed", "close", "join", "closed", "returned"}
    /\ timeout_num \in 0 .. read_timeout
    /\ result \in {"running", "EOF", "failure"}
    /\ main_vdata \in 0 .. NumFrames /\ shown \in 0 .. NumFrames
    /\ main_adata \in Nat /\ cts \in Nat /\ sent_audio_bytes \in Nat /\ silence \in Nat
    /\ gap \in Nat
    /\ taken \in Seq(1 .. NumFrames) /\ out \in Seq(1 .. NumFrames)

InFlight == IF dpc = "push" THEN <<pos>> ELSE << >>

\* Without a floor no frame is dropped between the decoder and the main loop:
\* what was taken, what is queued and the frame in the decoder's hands are
\* the frames read so far, in their order.
NothingLostInTransit ==
    opt.floor_size = 0 => taken \o queue \o InFlight = [i \in 1 .. pos |-> i]

\* Frames that the floor discards leave gaps, but no frame is taken twice or
\* after a later one.
InOrder ==
    LET all == taken \o queue \o InFlight
    IN  \A i, j \in DOMAIN all : i < j => all[i] < all[j]

\* No frame is lost, doubled or reordered between the decoder's reads and the
\* frames the main loop took; only a floor leaves gaps.
FramesKept == TypeOK /\ NothingLostInTransit /\ InOrder

\* A late frame is retried or, if it is audio, replaced by silence
LateIsTolerated ==
    \/ ~opt.has_stream_io
    \/ opt.main = "video" /\ opt.is_shm
    \/ opt.main = "audio" /\ opt.audio_ahead = 0

\* The main loop takes the main material for ended only when the decoder has
\* seen its end, in every setting but a live one that does not wait for late
\* frames; in that one it still waits for the first frame.
EofIsReal ==
    result = "EOF" /\ (LateIsTolerated \/ out = << >>) => bEOF

\* The mainvideo "decides the length of the output video": on EOF every one
\* of its frames has been rendered (decorateVideo.cpp:320).
Complete == result = "EOF" /\ opt.floor_size = 0 => Len(out) = NumFrames

\* A frame is not shown before its time, and by the end of its time the next
\* one is, as fast or as slow as the source may be; unless that one is late, or
\* the source has ended: then a read may return nothing and still advance the
\* clock.
InStep ==
    [][out' # out /\ opt.main = "video" /\ opt.floor_size = 0 =>
          LET f == out'[Len(out')]
          IN  /\ (f - 1) * opt.tstep <= ts
              /\ f * opt.tstep >= ts \/ timeout_num' > 0 \/ bEOF]_vars

\* The conversion does not cut the end of the main video and, when its frames
\* come in time, does not go on with the last one: the output lasts as long, to
\* two frames of each.
Duration ==
    result = "EOF" /\ opt.main = "video" /\ Len(taken) = NumFrames =>
        /\ NumFrames > 0 => out[Len(out)] = NumFrames
        /\ Len(out) * opt.ostep >= NumFrames * opt.tstep
        /\ late \/ Len(out) * opt.ostep <= (NumFrames + 2) * opt.tstep + 2 * opt.ostep

\* The sound stays with the pictures.  A mainvideo's own sound that is late is
\* waited for, not replaced by silence, which would shift it for good; only a
\* source slower than the output, whose frames are shown again, can get silence,
\* and never more than one frame of the output plus the most that its sound was
\* behind its frames.  A separate mainaudio is never ahead of the pictures: the
\* length that is due, which mverge_audio takes, does not become negative.
LipSync ==
    result = "running" /\ opt.main = "video" =>
        /\ opt.sound = "own" => silence <= IF opt.tstep > opt.ostep THEN opt.ostep + gap ELSE 0
        /\ opt.sound = "separate" => sent_audio_bytes <= ts

\* The conversion of the frame rate keeps the length of the main video and the
\* distance of its sound to its pictures.
Conversion == Duration /\ LipSync

\* The main loop ends and the decoder thread is joined, or main returns.
Ends == <>(mpc \in {"closed", "returned"})

\* A decoder that fails while the main loop runs is noticed, after the frames
\* still queued are rendered: the main loop reports a read failure.
FailureReported == error_ret /\ result = "running" ~> result = "failure"
=============================================================================
