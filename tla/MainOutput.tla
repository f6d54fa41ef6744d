----------------------------- MODULE MainOutput -----------------------------
(***************************************************************************)
(* The main output and the end of the program: the main thread that queues  *)
(* frames and audio and shuts down (decorateVideo.cpp), its signal handler, *)
(* the thread that pipes the video into ffmpeg and the one that feeds the    *)
(* audio fifo (videowriter.cpp), the events they send (event.cpp), the start  *)
(* of the substream (material.cpp) and, as an external process, ffmpeg.       *)
(*                                                                         *)
(* A frame and a piece of audio are numbered items.  The frames themselves,  *)
(* and the decoder that is closed before the shutdown begins, belong to      *)
(* MainReader.  Other threads take the queue's mutex for one step; the main  *)
(* thread holds it from one step to the next, because a signal may come in   *)
(* between.                                                                  *)
(***************************************************************************)
EXTENDS Integers, FiniteSets, SequencesExt

CONSTANTS
    NumFrames, \* bound: iterations of the main loop
    PipeSize,  \* items that the pipe, and the fifo, hold
    MaxStarts  \* bound: how often the substream is started

ASSUME MainOutputAssumption ==
    NumFrames \in Nat /\ PipeSize \in Nat \ {0} /\ MaxStarts \in Nat

VARIABLES
    rawdata_out,  \* the option: write to a file, without ffmpeg and without a fifo
    mpc, num, eof, \* the main thread: where it is, iterations so far, is this the last?
    frames, sounds, \* history: what was queued for the video and for the audio thread
    handlers,     \* sig_handler is installed
    hpc,          \* where sig_handler is on the main thread, "none" if it was not called
    sigpipe,      \* a thread has sent SIGPIPE to the main thread
    ended,        \* how the process ended, "no" while it runs
    audio_fifo,   \* the fifo exists in the file system
    videoBuffers, vExit, vKill, vpc, vbuf, sendnum, \* the video thread; vKill: SIGUSR1 sent
    audioBuffers, aExit, aKill, apc, abuf, awriter, \* the audio thread; awriter: the fifo is open
    pipe, fifo, fpc, \* external: what is in the pipe and in the fifo, and ffmpeg
    vgot, agot,   \* history: what ffmpeg, or the file, has got
    inherited,    \* does the ffmpeg of the substream hold the fifo open?
    sent,         \* the events in the order in which they were queued
    substream,    \* the substream's video thread: since its last START, was it given a frame,
                  \* and has it sent its event?
    substarts,    \* history: how often the substream was started
    crashed       \* history: ffmpeg died on its own

loop == <<rawdata_out, num, eof, frames, sounds>>
process == <<handlers, ended, audio_fifo>>
main == <<mpc, loop, process>>
handler == <<hpc, sigpipe>>
vthread == <<vKill, vpc, vbuf, sendnum>>
video == <<videoBuffers, vExit, vthread>>
athread == <<aKill, apc, abuf, awriter>>
audio == <<audioBuffers, aExit, athread>>
inputs == <<pipe, fifo, vgot, agot>>
ffmpeg == <<inputs, fpc, crashed, inherited>>
sub == <<substream, substarts>>
events == <<sent, sub>>
vars == <<main, handler, video, audio, ffmpeg, events>>

Video(n) == <<"video", n>>
Audio(n) == <<"audio", n>>
Items == {"video", "audio"} \X (1 .. NumFrames)

\* The main thread has made the fifo, started ffmpeg and the video thread
Init ==
    /\ rawdata_out \in BOOLEAN
    /\ mpc = "start" /\ num = 0 /\ eof = FALSE /\ frames = << >> /\ sounds = << >>
    /\ handlers = FALSE /\ hpc = "none" /\ sigpipe = FALSE /\ ended = "no"
    /\ audio_fifo = ~rawdata_out
    /\ videoBuffers = << >> /\ vExit = FALSE /\ vKill = FALSE /\ vpc = "top" /\ vbuf = << >>
    /\ sendnum = 0
    /\ audioBuffers = << >> /\ aExit = TRUE /\ aKill = FALSE /\ apc = "none" /\ abuf = << >>
    /\ awriter = FALSE
    /\ pipe = << >> /\ fifo = << >> /\ vgot = << >> /\ agot = << >> /\ crashed = FALSE
    /\ fpc = IF rawdata_out THEN "ended" ELSE "probe"
    /\ inherited = "no"
    /\ sent = << >> /\ substream = "off" /\ substarts = 0

Running == ended = "no"

-----------------------------------------------------------------------------
(* The main thread.                                                         *)

\* It runs its own code and goes from p to q; a SIGPIPE sent to it is handled first
Main(p, q) == Running /\ hpc = "none" /\ ~sigpipe /\ mpc = p /\ mpc' = q

MainOnly(p, q) ==
    /\ Main(p, q)
    /\ UNCHANGED <<loop, process, handler, video, audio, ffmpeg, events>>

\* PushEventThread writes the events one by one, from the front of their queue:
\* what the receiver sees is a prefix of sent
send_event(e) == sent' = Append(sent, e)

\* FFAudioEncodeThread::START
StartAudio ==
    /\ Main("start", "signals")
    /\ IF rawdata_out
       THEN UNCHANGED <<aExit, apc>>
       ELSE aExit' = FALSE /\ apc' = "top"
    /\ UNCHANGED <<loop, process, handler, video, audioBuffers, aKill, abuf, awriter, ffmpeg,
                   events>>

Signals ==
    /\ Main("signals", "init")
    /\ handlers' = TRUE
    /\ UNCHANGED <<loop, ended, audio_fifo, handler, video, audio, ffmpeg, events>>

\* OpenGL, the watermark's font or the subtitle file cannot be loaded
InitFails ==
    /\ Main("init", "return")
    /\ audio_fifo' = FALSE
    /\ UNCHANGED <<loop, handlers, ended, handler, video, audio, ffmpeg, events>>

InitSuccess ==
    /\ Main("init", "loop")
    /\ send_event("INIT_SUCCESS")
    /\ UNCHANGED <<sub, loop, process, handler, video, audio, ffmpeg>>

\* The audio is mixed, without a lock, and written; there is none while the
\* main material's is late
Mix(p) == Main(p, "audio_push") \/ Main(p, "loop")

\* start_streamout_thread, at launch or for a SUBOUT, which is refused until a
\* STOPSUB: START resets sendnum, and the thread may still be about to write a
\* frame that it was given before
SubStart ==
    /\ substarts < MaxStarts
    /\ \/ Main("signals", "signals") /\ substarts = 0
       \/ Main("loop", "loop") /\ ~eof
    /\ substarts' = substarts + 1
    /\ substream' = IF substream \in {"fed", "sent"} THEN "fed" ELSE "started"
    /\ UNCHANGED <<loop, process, handler, video, audio, ffmpeg, sent>>

\* The frame is written to the substream first, whose rate never skips its first one
FeedSub == substream' = IF substream = "started" THEN "fed" ELSE substream

\* An iteration with a frame, or the last one, in which the main video has ended
Iterate ==
    /\ num < NumFrames /\ ~eof
    /\ \/ Main("loop", "video_push") /\ FeedSub /\ UNCHANGED eof
       \/ Mix("loop") /\ eof' = TRUE /\ UNCHANGED substream
    /\ num' = num + 1
    /\ UNCHANGED <<rawdata_out, frames, sounds, process, handler, video, audio, ffmpeg, sent,
                   substarts>>

\* FFVideoEncodeThread::Write: PushMove and Size, each with the mutex
PushVideo ==
    /\ Mix("video_push")
    /\ videoBuffers' = Append(videoBuffers, Video(num))
    /\ frames' = Append(frames, Video(num))
    /\ UNCHANGED <<rawdata_out, num, eof, sounds, process, handler, vExit, vthread, audio, ffmpeg,
                   events>>

\* FFAudioEncodeThread::Write
PushAudio ==
    /\ ~rawdata_out
    /\ Main("audio_push", "loop")
    /\ audioBuffers' = Append(audioBuffers, Audio(num))
    /\ sounds' = Append(sounds, Audio(num))
    /\ UNCHANGED <<rawdata_out, num, eof, frames, process, handler, video, aExit, athread, ffmpeg,
                   events>>

\* Raw data: the audio goes through the video thread, by FFVideoEncodeThread::Write
PushRawAudio ==
    /\ rawdata_out
    /\ Main("audio_push", "loop")
    /\ videoBuffers' = Append(videoBuffers, Audio(num))
    /\ frames' = Append(frames, Audio(num))
    /\ UNCHANGED <<rawdata_out, num, eof, sounds, process, handler, vExit, vthread, audio, ffmpeg,
                   events>>

\* The main material cannot be read: the event, then the fifo, then return
ReadFailure ==
    /\ ~eof
    /\ Main("loop", "return")
    /\ send_event("READ_FAILURE")
    /\ audio_fifo' = FALSE
    /\ UNCHANGED <<sub, loop, handlers, ended, handler, video, audio, ffmpeg>>

\* A SUBOUT whose parameters are too few: return, and nothing else
BadSubout == ~eof /\ MainOnly("loop", "badcmd")

Return ==
    /\ \/ Main("return", "return") /\ ended' = "failed"
       \/ Main("badcmd", "badcmd") /\ ended' = "badcmd"
    /\ UNCHANGED <<loop, handlers, audio_fifo, handler, video, audio, ffmpeg, events>>

\* The end of the main material, and ffAudioEncodeThread.EXIT(false)
ExitAudio ==
    /\ Main("loop", "exit")
    /\ aExit' = TRUE
    /\ UNCHANGED <<loop, process, handler, video, audioBuffers, athread, ffmpeg, events>>

\* ffVideoEncodeThread.EXIT(false): bExit, ...
ExitVideo ==
    /\ Main("exit", "join")
    /\ vExit' = TRUE
    /\ UNCHANGED <<loop, process, handler, videoBuffers, vthread, audio, ffmpeg, events>>

\* ... and join
Join == vpc = "done" /\ MainOnly("join", "close")

\* fclose of the file, or pclose, which closes the pipe and ...
Close == MainOnly("close", IF rawdata_out THEN "remove" ELSE "wait")

\* ... waits for ffmpeg
Wait == fpc = "ended" /\ MainOnly("wait", "remove")

\* close_streamout_thread, remove, _exit
ExitProcess ==
    /\ Main("remove", "remove")
    /\ audio_fifo' = FALSE
    /\ ended' = "normal"
    /\ UNCHANGED <<loop, handlers, handler, video, audio, ffmpeg, events>>

MainStep ==
    \/ StartAudio \/ Signals \/ InitFails \/ InitSuccess \/ Iterate \/ PushVideo
    \/ PushAudio \/ PushRawAudio \/ SubStart \/ ReadFailure \/ BadSubout \/ Return
    \/ ExitAudio \/ ExitVideo \/ Join \/ Close \/ Wait \/ ExitProcess

-----------------------------------------------------------------------------
(* Signals.                                                                 *)

\* The main thread was interrupted inside a call of the queue, whose mutex it holds
HoldsVideo ==
    mpc = "video_push" \/ (mpc = "audio_push" /\ rawdata_out)

HoldsAudio == mpc = "audio_push" /\ ~rawdata_out

\* A signal before sig_handler is installed
KilledEarly ==
    /\ Running /\ ~handlers
    /\ ended' = "killed"
    /\ UNCHANGED <<mpc, loop, handlers, audio_fifo, handler, video, audio, ffmpeg, events>>

\* Where the handler waits for a mutex of its own thread, "remove" if it does not
Blocked == IF HoldsVideo THEN "video" ELSE IF HoldsAudio THEN "audio" ELSE "remove"

\* SIGTERM or SIGINT at any time, or the SIGPIPE of a thread: EXIT(true) of the
\* video thread and of the audio thread if it was started.  Each sets bExit,
\* clears the queue and sends SIGUSR1 unless the thread was joined.  Later
\* signals are ignored
SigHandler ==
    /\ Running /\ handlers /\ hpc = "none"
    /\ hpc' = Blocked
    /\ vExit' = TRUE
    /\ IF HoldsVideo
       THEN UNCHANGED <<videoBuffers, vKill, aExit>>
       ELSE /\ videoBuffers' = << >>
            /\ vKill' = (mpc \notin {"close", "wait", "remove"})
            /\ aExit' = TRUE
    /\ IF hpc' # "remove" \/ rawdata_out
       THEN UNCHANGED <<audioBuffers, aKill>>
       ELSE audioBuffers' = << >> /\ aKill' = TRUE
    /\ UNCHANGED <<main, sigpipe, vpc, vbuf, sendnum, apc, abuf, awriter, ffmpeg, events>>

\* The end of the handler
HandlerEnds ==
    /\ Running /\ hpc = "remove"
    /\ ended' = "signal"
    /\ UNCHANGED <<mpc, loop, handlers, handler, video, audio, ffmpeg, events>>

\* Mutant: ffmpeg is waited for, as at the normal end
HandlerExitWaits == HandlerEnds /\ fpc = "ended" /\ audio_fifo' = FALSE

\* Mutant: the fifo stays
HandlerExitOnly == HandlerEnds /\ UNCHANGED audio_fifo

\* remove, _exit(0)
HandlerExit == HandlerEnds /\ audio_fifo' = FALSE

-----------------------------------------------------------------------------
(* FFVideoEncodeThread::RUN.                                                *)

VideoAt(p) == Running /\ vpc = p

\* A step that only goes on to q
VideoGoto(q) ==
    /\ vpc' = q
    /\ UNCHANGED <<main, handler, videoBuffers, vExit, vKill, vbuf, sendnum, audio, ffmpeg, events>>

\* bExit and an empty queue end the thread
VideoTop ==
    /\ VideoAt("top")
    /\ vExit => ~HoldsVideo
    /\ VideoGoto(IF vExit /\ videoBuffers = << >> THEN "done" ELSE "pop")

VideoPop ==
    /\ VideoAt("pop")
    /\ ~HoldsVideo
    /\ IF videoBuffers = << >>
       THEN vpc' = "missed" /\ UNCHANGED <<videoBuffers, vbuf>>
       ELSE /\ vpc' = "write"
            /\ vbuf' = <<Head(videoBuffers)>>
            /\ videoBuffers' = Tail(videoBuffers)
    /\ UNCHANGED <<main, handler, vExit, vKill, sendnum, audio, ffmpeg, events>>

\* PopMove found nothing; bExit is looked at afterwards
VideoMissed ==
    /\ VideoAt("missed")
    /\ VideoGoto(IF vExit THEN "done" ELSE "top")

\* Mutant: the event is sent for every frame
StartOfStreamAlways ==
    /\ send_event("START_OF_STREAM") /\ UNCHANGED sub
    /\ sendnum' = 1

\* The event of the first frame; sendnum only tells the first from the others
StartOfStream ==
    /\ IF sendnum = 0
       THEN send_event("START_OF_STREAM") /\ UNCHANGED sub
       ELSE UNCHANGED events
    /\ sendnum' = 1

\* fwrite, which blocks while the pipe is full
VideoWrite ==
    /\ VideoAt("write")
    /\ IF rawdata_out
       THEN vgot' = vgot \o vbuf /\ UNCHANGED pipe
       ELSE /\ fpc # "ended" /\ Len(pipe) < PipeSize
            /\ pipe' = pipe \o vbuf
            /\ UNCHANGED vgot
    /\ vbuf' = << >>
    /\ vpc' = "top"
    /\ StartOfStream
    /\ UNCHANGED <<main, handler, videoBuffers, vExit, vKill, audio, fifo, fpc, agot, crashed,
                   inherited>>

\* Nobody reads the pipe: sig_handler sends SIGPIPE to the main thread and ends the thread
VideoSigPipe ==
    /\ VideoAt("write")
    /\ ~rawdata_out /\ fpc = "ended"
    /\ sigpipe' = (sigpipe \/ hpc = "none")
    /\ vpc' = "done"
    /\ UNCHANGED <<main, hpc, videoBuffers, vExit, vKill, vbuf, sendnum, audio, ffmpeg, events>>

\* SIGUSR1
VideoKilled ==
    /\ Running /\ vKill /\ vpc # "done"
    /\ VideoGoto("done")

VideoRUN ==
    VideoTop \/ VideoPop \/ VideoMissed \/ VideoWrite \/ VideoSigPipe \/ VideoKilled

-----------------------------------------------------------------------------
(* FFAudioEncodeThread::RUN.                                                *)

AudioAt(p) == Running /\ apc = p

\* A step that goes on to q, or closes the fifo and ends
AudioGoto(q) ==
    /\ apc' = q
    /\ UNCHANGED <<main, handler, video, audioBuffers, aExit, aKill, abuf, awriter, ffmpeg, events>>

AudioClose ==
    /\ apc' = "done" /\ awriter' = FALSE
    /\ UNCHANGED <<main, handler, video, audioBuffers, aExit, aKill, abuf, ffmpeg, events>>

\* The fifo is not open yet: bExit is looked at first, a missing file is tried again
AudioTop ==
    /\ AudioAt("top")
    /\ \/ aExit /\ AudioGoto("done")
       \/ ~aExit /\ audio_fifo /\ AudioGoto("open")

AudioCheck ==
    /\ AudioAt("check")
    /\ aExit => ~HoldsAudio
    /\ IF aExit /\ audioBuffers = << >> THEN AudioClose ELSE AudioGoto("pop")

AudioPop ==
    /\ AudioAt("pop")
    /\ ~HoldsAudio
    /\ IF audioBuffers = << >>
       THEN apc' = "missed" /\ UNCHANGED <<audioBuffers, abuf>>
       ELSE /\ apc' = "write"
            /\ abuf' = <<Head(audioBuffers)>>
            /\ audioBuffers' = Tail(audioBuffers)
    /\ UNCHANGED <<main, handler, video, aExit, aKill, awriter, ffmpeg, events>>

\* Mutant: the fifo is left open
AudioMissedOpen ==
    /\ AudioAt("missed")
    /\ AudioGoto(IF aExit THEN "done" ELSE "check")

AudioMissed ==
    /\ AudioAt("missed")
    /\ IF aExit THEN AudioClose ELSE AudioGoto("check")

\* write leaves the fifo as f
WriteFifo(f) ==
    /\ AudioAt("write")
    /\ fpc # "ended"
    /\ fifo' = f
    /\ abuf' = << >>
    /\ apc' = "check"
    /\ UNCHANGED <<main, handler, video, audioBuffers, aExit, aKill, awriter, pipe, fpc, vgot, agot,
                   crashed, inherited, events>>

\* Mutant: what does not fit into the fifo is dropped
AudioWriteDrops == WriteFifo(IF Len(fifo) < PipeSize THEN fifo \o abuf ELSE fifo)

\* write blocks while the fifo is full
AudioWrite == Len(fifo) < PipeSize /\ WriteFifo(fifo \o abuf)

AudioSigPipe ==
    /\ AudioAt("write")
    /\ fpc = "ended"
    /\ sigpipe' = (sigpipe \/ hpc = "none")
    /\ apc' = "done"
    /\ UNCHANGED <<main, hpc, video, audioBuffers, aExit, aKill, abuf, awriter, ffmpeg, events>>

AudioKilled ==
    /\ Running /\ aKill /\ apc # "done"
    /\ AudioGoto("done")

AudioRUN ==
    \/ AudioTop \/ AudioCheck \/ AudioPop \/ AudioMissed \/ AudioWrite \/ AudioSigPipe
    \/ AudioKilled

-----------------------------------------------------------------------------
(* External: ffmpeg, whose inputs are the pipe and then the fifo.           *)

PipeClosed == ~Running \/ mpc \in {"wait", "remove"}
FifoClosed == inherited # "held" /\ (~Running \/ ~awriter)

\* The first input is opened when it has a frame, or ends; then the second one
Probe ==
    /\ fpc = "probe"
    /\ pipe # << >> \/ PipeClosed
    /\ fpc' = IF audio_fifo THEN "open" ELSE "ended"
    /\ UNCHANGED <<main, handler, video, audio, inputs, crashed, inherited, events>>

\* open of a fifo returns on both sides when both have called it
Rendezvous ==
    /\ Running
    /\ fpc = "open" /\ apc = "open"
    /\ fpc' = "encode"
    /\ apc' = "check" /\ awriter' = TRUE
    /\ UNCHANGED <<main, handler, video, audioBuffers, aExit, aKill, abuf, inputs, crashed,
                   inherited, events>>

ReadVideo ==
    /\ fpc = "encode" /\ pipe # << >>
    /\ vgot' = Append(vgot, Head(pipe))
    /\ pipe' = Tail(pipe)
    /\ UNCHANGED <<main, handler, video, audio, fifo, fpc, agot, crashed, inherited, events>>

ReadAudio ==
    /\ fpc = "encode" /\ fifo # << >>
    /\ agot' = Append(agot, Head(fifo))
    /\ fifo' = Tail(fifo)
    /\ UNCHANGED <<main, handler, video, audio, pipe, fpc, vgot, crashed, inherited, events>>

\* Both inputs have ended
Finish ==
    /\ fpc = "encode" /\ pipe = << >> /\ PipeClosed /\ fifo = << >> /\ FifoClosed
    /\ fpc' = "ended"
    /\ UNCHANGED <<main, handler, video, audio, inputs, crashed, inherited, events>>

Crash ==
    /\ fpc # "ended"
    /\ fpc' = "ended"
    /\ crashed' = TRUE
    /\ UNCHANGED <<main, handler, video, audio, inputs, inherited, events>>

Encode == Probe \/ Rendezvous \/ ReadVideo \/ ReadAudio \/ Finish

-----------------------------------------------------------------------------
(* The substream: its video thread, an FFVideoEncodeThread too, starts      *)
(* another ffmpeg by popen.                                                  *)

\* popen: the child inherits the fifo, which was opened without O_CLOEXEC; the
\* pipe of the first popen is closed in it.  Before the fifo is open it has no effect
SubPopen ==
    /\ Running /\ mpc # "remove" /\ substarts > 0
    /\ inherited = "no" /\ awriter
    /\ inherited' = "held"
    /\ UNCHANGED <<main, handler, video, audio, inputs, fpc, crashed, events>>

\* RUN writes the first frame after a START and tells it, by the same event as
\* the main output's
SubWrite ==
    /\ Running
    /\ substream = "fed" /\ substream' = "sent"
    /\ send_event("START_OF_STREAM")
    /\ UNCHANGED <<main, handler, video, audio, ffmpeg, substarts>>

\* STOPSUB, or its ffmpeg ends on its own or because the process has ended
SubEnd ==
    /\ inherited = "held"
    /\ inherited' = "over"
    /\ UNCHANGED <<main, handler, video, audio, inputs, fpc, crashed, events>>

-----------------------------------------------------------------------------
Next ==
    \/ MainStep \/ KilledEarly \/ SigHandler \/ HandlerExit
    \/ VideoRUN \/ AudioRUN
    \/ Encode \/ Crash
    \/ SubPopen \/ SubWrite \/ SubEnd

Spec == Init /\ [][Next]_vars

\* Every thread is scheduled, a SIGPIPE that was sent arrives, a living ffmpeg
\* reads its inputs, and the children of a process that has ended see the end
\* of their input
FairSpec ==
    /\ Spec
    /\ WF_vars(MainStep) /\ WF_vars(sigpipe /\ SigHandler) /\ WF_vars(HandlerExit)
    /\ WF_vars(VideoRUN) /\ WF_vars(AudioRUN)
    /\ WF_vars(Encode) /\ WF_vars(~Running /\ SubEnd)

-----------------------------------------------------------------------------
(* Properties.                                                              *)

Events == {"INIT_SUCCESS", "START_OF_STREAM", "READ_FAILURE"}

\* Every variable has a value of the code's type.
TypeOK ==
    /\ rawdata_out \in BOOLEAN /\ handlers \in BOOLEAN /\ sigpipe \in BOOLEAN
    /\ mpc \in {"start", "signals", "init", "loop", "video_push", "audio_push", "return",
                "badcmd", "exit", "join", "close", "wait", "remove"}
    /\ num \in 0 .. NumFrames /\ eof \in BOOLEAN
    /\ hpc \in {"none", "video", "audio", "remove"}
    /\ ended \in {"no", "normal", "failed", "badcmd", "signal", "killed"}
    /\ audio_fifo \in BOOLEAN /\ vExit \in BOOLEAN /\ vKill \in BOOLEAN
    /\ vpc \in {"top", "pop", "missed", "write", "done"}
    /\ apc \in {"none", "top", "open", "check", "pop", "missed", "write", "done"}
    /\ sendnum \in 0 .. 1
    /\ aExit \in BOOLEAN /\ aKill \in BOOLEAN /\ awriter \in BOOLEAN
    /\ fpc \in {"probe", "open", "encode", "ended"}
    /\ Len(pipe) <= PipeSize /\ Len(fifo) <= PipeSize
    /\ frames \in Seq(Items) /\ videoBuffers \in Seq(Items) /\ vbuf \in Seq(Items)
    /\ sounds \in Seq(Items) /\ audioBuffers \in Seq(Items) /\ abuf \in Seq(Items)
    /\ pipe \in Seq(Items) /\ fifo \in Seq(Items) /\ vgot \in Seq(Items) /\ agot \in Seq(Items)
    /\ inherited \in {"no", "held", "over"} /\ crashed \in BOOLEAN
    /\ sent \in Seq(Events)
    /\ substream \in {"off", "started", "fed", "sent"} /\ substarts \in 0 .. MaxStarts

\* On the way from the queues of Write through the threads and the pipes to
\* ffmpeg nothing is lost, doubled or overtaken, as long as no signal clears
\* the queues; raw audio stays between its frames.
NothingLost ==
    hpc \in {"none", "video"} =>
        /\ frames = vgot \o pipe \o vbuf \o videoBuffers
        /\ sounds = agot \o fifo \o abuf \o audioBuffers

\* Everything handed to Write is on its way or has arrived, in its order.
TransitInv == TypeOK /\ NothingLost

\* When the program ends on its own, ffmpeg has got all that the threads did
\* not leave in the queues, and has ended: nothing is cut off by _exit.
OutputComplete ==
    ended = "normal" /\ ~crashed =>
        /\ fpc = "ended"
        /\ frames = vgot \o videoBuffers
        /\ rawdata_out \/ sounds = agot \o audioBuffers

\* Every way out of the program removes the fifo but two: a signal before
\* sig_handler is installed, and the return on a SUBOUT with too few parameters,
\* which always leaves it behind.
FifoRemoved ==
    ended \notin {"no", "killed"} => (audio_fifo <=> (ended = "badcmd" /\ ~rawdata_out))

\* A thread that could not write to ffmpeg brings the program down: it does
\* not go on to a normal end with a frame that nobody got.
FailureNoticed == ended = "normal" => vbuf = << >>

\* The program ends in order: with its output complete, no failure of the
\* output overlooked, and no fifo left behind but by the return on a bad SUBOUT.
EndsClean == OutputComplete /\ FailureNoticed /\ FifoRemoved

\* Where START_OF_STREAM is among the events s
Starts(s) == {i \in DOMAIN s : s[i] = "START_OF_STREAM"}

\* Although three threads send them, the receiver of the events sees INIT_SUCCESS
\* first, and only START_OF_STREAM more than once: once when ffmpeg was given the
\* main output's first frame, and at most once for each START of the substream.
\* Which of them it is about, or comes first, he cannot tell.
EventsInOrder ==
    /\ sent # << >> => sent[1] = "INIT_SUCCESS"
    /\ \A i, j \in DOMAIN sent : sent[i] = sent[j] => i = j \/ sent[i] = "START_OF_STREAM"
    /\ Cardinality(Starts(sent)) <= (IF vgot \o pipe = << >> THEN 0 ELSE 1) + substarts

\* ffmpeg waits for a writer of the fifo although the audio thread is gone
AudioNeverOpened == apc = "done" /\ ~awriter /\ fpc = "open"

\* After the end of the main material the program ends, unless ffmpeg waits
\* for ever: for a writer of the fifo, because the audio thread saw bExit
\* before it opened it, or for the end of the fifo, because the ffmpeg of a
\* substream holds it open.
Terminates ==
    (mpc = "exit" \/ (mpc = "wait" /\ inherited = "over")) ~>
        (~Running \/ AudioNeverOpened \/ inherited = "held")

\* The handler waits for a mutex that its own thread holds
SelfDeadlock == hpc \in {"video", "audio"}

\* A signal ends the program, and so does an ffmpeg that has died once a thread
\* had to write to it; unless the signal interrupts the main thread inside a
\* call of the queue that the handler clears.
SignalEnds == (hpc # "none" \/ sigpipe) ~> (~Running \/ SelfDeadlock)

=============================================================================
