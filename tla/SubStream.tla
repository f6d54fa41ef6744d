----------------------------- MODULE SubStream ------------------------------
(***************************************************************************)
(* The substream output: the SUBOUT and STOPSUB commands of the main loop   *)
(* (decorateVideo.cpp, start_streamout_thread and stop_streamout_thread in  *)
(* material.cpp), the thread that pipes the frames into ffmpeg              *)
(* (FFVideoEncodeThread) and the one that feeds its audio fifo              *)
(* (FFAudioEncodeThread, started by the former), videowriter.cpp.           *)
(*                                                                         *)
(* SUBOUT commands are numbered; a number stands for the parameters of the  *)
(* command, its ffmpeg command line, its pipe and its audio fifo.  writer   *)
(* and pipe_cmd are shared without a lock: each access is a step.           *)
(* Substreams have audio (disable_audio is 0), and EXIT, which is called    *)
(* when the program ends, is left out with the tests of bExit.              *)
(***************************************************************************)
EXTENDS Integers, Sequences

CONSTANTS
    MaxRequests, \* bound: SUBOUT commands
    MaxFrames    \* bound: frames of the main loop

ASSUME SubStreamAssumption == MaxRequests \in Nat /\ MaxFrames \in Nat

VARIABLES
    mpc,          \* where the main loop is
    request,      \* the last SUBOUT, whose parameters substream_out holds
    session,      \* the last SUBOUT that was accepted
    frames,       \* bound: frames of the main loop so far
    bStopped, abort, videoBuffers, \* shared: the video thread's flags and queue
    writer,       \* shared: 0 for NULL
    pipe_cmd,     \* shared: 0 for the empty string
    audio_fifo,   \* shared: the fifo the audio thread is started with
    vpc, buf,     \* the video thread: where it is, the frame it holds
    aStopped,     \* shared: bStopped of the audio thread
    audioBuffers, \* shared: number of audio buffers queued
    fifo_name, awriter, apc, \* the audio thread
    pipes,        \* the pipe of each ffmpeg: "none", "open", "closed"
    written,      \* history: the frames written, each with its pipe
    hasty,        \* history: was a SUBOUT accepted before the last one was over?
    refused       \* history: was a SUBOUT refused because one was running?

main == <<mpc, request, session, frames, hasty, refused>>
video == <<bStopped, abort, videoBuffers, writer, pipe_cmd, audio_fifo>>
vthread == <<vpc, buf, pipes, written>>
audio == <<aStopped, audioBuffers, fifo_name>>
athread == <<awriter, apc>>
vars == <<main, video, vthread, audio, athread>>

Requests == 1 .. MaxRequests
NoFrame == [of |-> 0, as |-> 0, no |-> 0]

Init ==
    /\ mpc = "top" /\ request = 0 /\ session = 0 /\ frames = 0
    /\ bStopped = TRUE /\ abort = FALSE /\ videoBuffers = << >>
    /\ writer = 0 /\ pipe_cmd = 0 /\ audio_fifo = 0
    /\ vpc = "none" /\ buf = NoFrame
    /\ aStopped = TRUE /\ audioBuffers = 0 /\ fifo_name = 0
    /\ awriter = 0 /\ apc = "none"
    /\ pipes = [r \in Requests |-> "none"] /\ written = << >> /\ hasty = FALSE /\ refused = FALSE

-----------------------------------------------------------------------------
(* The main loop.                                                           *)

\* The video thread has closed the pipe of the last substream and idles
Settled == writer = 0 /\ vpc \in {"none", "top", "idle"}

\* Mutant: any SUBOUT is accepted
SUBOUTAlways ==
    /\ mpc = "top"
    /\ request < MaxRequests
    /\ request' = request + 1
    /\ session' = request'
    /\ mpc' = "start"
    /\ UNCHANGED <<frames, hasty, refused, video, vthread, audio, athread>>

\* SUBOUT stores the parameters before it looks whether a substream runs; it
\* ends there if one does, or if the audio fifo cannot be made
SUBOUT ==
    /\ mpc = "top"
    /\ request < MaxRequests
    /\ request' = request + 1
    /\ \/ /\ bStopped
          /\ session' = request'
          /\ mpc' = "start"
          /\ hasty' = (hasty \/ ~Settled)
          /\ UNCHANGED refused
       \/ /\ refused' = (refused \/ ~bStopped)
          /\ UNCHANGED <<session, mpc, hasty>>
    /\ UNCHANGED <<frames, video, vthread, audio, athread>>

\* FFVideoEncodeThread::START: writer = NULL, ...
StartWriter ==
    /\ mpc = "start"
    /\ writer' = 0
    /\ mpc' = "start_cmd"
    /\ UNCHANGED <<request, session, frames, hasty, refused, bStopped, abort, videoBuffers, pipe_cmd, audio_fifo,
                   vthread, audio, athread>>

\* Mutant: the command line is not stored
StartNoCmd ==
    /\ mpc = "start_cmd"
    /\ audio_fifo' = session
    /\ mpc' = "start_flag"
    /\ UNCHANGED <<request, session, frames, hasty, refused, bStopped, abort, videoBuffers, writer, pipe_cmd, vthread,
                   audio, athread>>

\* ... pipe_cmd = pipe, audio_fifo = fifo, ...
StartCmd ==
    /\ mpc = "start_cmd"
    /\ pipe_cmd' = session
    /\ audio_fifo' = session
    /\ mpc' = "start_flag"
    /\ UNCHANGED <<request, session, frames, hasty, refused, bStopped, abort, videoBuffers, writer, vthread, audio,
                   athread>>

\* ... the queue is resumed, bStopped is reset, the thread runs
StartFlag ==
    /\ mpc = "start_flag"
    /\ abort' = FALSE
    /\ bStopped' = FALSE
    /\ vpc' = IF vpc = "none" THEN "top" ELSE vpc
    /\ mpc' = "top"
    /\ UNCHANGED <<request, session, frames, hasty, refused, videoBuffers, writer, pipe_cmd, audio_fifo, buf, pipes,
                   written, audio, athread>>

\* STOPSUB: bStopped is set, ...
STOPSUB ==
    /\ mpc = "top"
    /\ vpc # "none"
    /\ bStopped' = TRUE
    /\ mpc' = "stop_queue"
    /\ UNCHANGED <<request, session, frames, hasty, refused, abort, videoBuffers, writer, pipe_cmd, audio_fifo,
                   vthread, audio, athread>>

\* Mutant: the frames that were not sent stay in the queue
StopKeepsQueue ==
    /\ mpc = "stop_queue"
    /\ abort' = TRUE
    /\ mpc' = "stop_audio"
    /\ UNCHANGED <<request, session, frames, hasty, refused, bStopped, videoBuffers, writer, pipe_cmd, audio_fifo,
                   vthread, audio, athread>>

\* ... the queue is aborted and, with force, cleared, ...
StopQueue ==
    /\ mpc = "stop_queue"
    /\ abort' = TRUE
    /\ videoBuffers' = << >>
    /\ mpc' = "stop_audio"
    /\ UNCHANGED <<request, session, frames, hasty, refused, bStopped, writer, pipe_cmd, audio_fifo, vthread, audio,
                   athread>>

\* ... and the audio thread is stopped likewise
StopAudio ==
    /\ mpc = "stop_audio"
    /\ aStopped' = TRUE
    /\ audioBuffers' = 0
    /\ mpc' = "top"
    /\ UNCHANGED <<request, session, frames, hasty, refused, video, vthread, fifo_name, athread>>

\* One rendered frame: scaled to the parameters in substream_out and queued,
\* unless the output is stopped (SafeQueue::PushMove refuses when aborted)
Write ==
    /\ mpc = "top"
    /\ frames < MaxFrames
    /\ frames' = frames + 1
    /\ videoBuffers' = IF bStopped \/ abort THEN videoBuffers
                       ELSE Append(videoBuffers, [of |-> session, as |-> request, no |-> frames'])
    /\ audioBuffers' = IF aStopped THEN audioBuffers ELSE audioBuffers + 1
    /\ UNCHANGED <<mpc, request, session, hasty, refused, bStopped, abort, writer, pipe_cmd, audio_fifo, vthread,
                   aStopped, fifo_name, athread>>

-----------------------------------------------------------------------------
(* FFVideoEncodeThread::RUN.                                                *)

Goto(pc) ==
    /\ vpc' = pc
    /\ UNCHANGED <<main, video, buf, pipes, written, audio, athread>>

\* if (bStopped || writer==NULL)
Top ==
    /\ vpc = "top"
    /\ Goto(IF bStopped \/ writer = 0 THEN "idle" ELSE "pop")

\* Something to open, something to close, or nothing to do
Idle ==
    /\ vpc = "idle"
    /\ \/ /\ ~bStopped /\ writer = 0 /\ pipe_cmd # 0
          /\ Goto("popen")
       \/ /\ bStopped /\ writer # 0 /\ pipe_cmd # 0
          /\ Goto("fclose")
       \/ /\ pipe_cmd = 0 \/ bStopped = (writer = 0)
          /\ Goto("top")

Popen ==
    /\ vpc = "popen"
    /\ pipes' = [pipes EXCEPT ![pipe_cmd] = "open"]
    /\ writer' = pipe_cmd
    /\ vpc' = "start_audio"
    /\ UNCHANGED <<main, bStopped, abort, videoBuffers, pipe_cmd, audio_fifo, buf, written, audio,
                   athread>>

\* popen failed: tried again a second later
PopenFails ==
    /\ vpc = "popen"
    /\ Goto("top")

\* audio_starter->START(audio_fifo)
StartAudio ==
    /\ vpc = "start_audio"
    /\ fifo_name' = audio_fifo
    /\ aStopped' = FALSE
    /\ apc' = IF apc = "none" THEN "top" ELSE apc
    /\ vpc' = "top"
    /\ UNCHANGED <<main, video, buf, pipes, written, audioBuffers, awriter>>

\* Mutant: the pipe stays open
FcloseForgotten ==
    /\ vpc = "fclose"
    /\ Goto("null")

\* fclose(writer), of the writer there is now: a null pointer ends the program
Fclose ==
    /\ vpc = "fclose"
    /\ IF writer = 0
       THEN vpc' = "crashed" /\ UNCHANGED pipes
       ELSE vpc' = "null" /\ pipes' = [pipes EXCEPT ![writer] = "closed"]
    /\ UNCHANGED <<main, video, buf, written, audio, athread>>

\* writer = NULL; pipe_cmd.clear()
SetNull ==
    /\ vpc = "null"
    /\ writer' = 0
    /\ vpc' = "clear"
    /\ UNCHANGED <<main, bStopped, abort, videoBuffers, pipe_cmd, audio_fifo, buf, pipes, written,
                   audio, athread>>

ClearCmd ==
    /\ vpc = "clear"
    /\ pipe_cmd' = 0
    /\ vpc' = "top"
    /\ UNCHANGED <<main, bStopped, abort, videoBuffers, writer, audio_fifo, buf, pipes, written,
                   audio, athread>>

\* PopMove fails when the queue is empty or aborted
Pop ==
    /\ vpc = "pop"
    /\ IF abort \/ videoBuffers = << >>
       THEN vpc' = "top" /\ UNCHANGED <<buf, videoBuffers>>
       ELSE /\ buf' = Head(videoBuffers)
            /\ videoBuffers' = Tail(videoBuffers)
            /\ vpc' = "write"
    /\ UNCHANGED <<main, bStopped, abort, writer, pipe_cmd, audio_fifo, pipes, written, audio, athread>>

\* fwrite to the writer there is now: a null pointer ends the program
Fwrite ==
    /\ vpc = "write"
    /\ IF writer = 0
       THEN vpc' = "crashed" /\ UNCHANGED <<buf, written>>
       ELSE /\ written' = Append(written, [pipe |-> writer, frame |-> buf])
            /\ buf' = NoFrame
            /\ vpc' = "top"
    /\ UNCHANGED <<main, video, pipes, audio, athread>>

-----------------------------------------------------------------------------
(* FFAudioEncodeThread::RUN.                                                *)

AudioTop ==
    /\ apc = "top"
    /\ IF aStopped THEN awriter' = 0 /\ UNCHANGED apc
       ELSE /\ apc' = IF awriter = 0 THEN "open" ELSE "pop"
            /\ UNCHANGED awriter
    /\ UNCHANGED <<main, video, vthread, audio>>

\* open(fifo, O_WRONLY) waits for the ffmpeg that reads the fifo
AudioOpen ==
    /\ apc = "open"
    /\ pipes[fifo_name] = "open"
    /\ awriter' = fifo_name
    /\ apc' = "pop"
    /\ UNCHANGED <<main, video, vthread, audio>>

AudioPop ==
    /\ apc = "pop"
    /\ audioBuffers' = IF audioBuffers = 0 THEN 0 ELSE audioBuffers - 1
    /\ apc' = "top"
    /\ UNCHANGED <<main, video, vthread, aStopped, fifo_name, awriter>>

-----------------------------------------------------------------------------
MainStep == StartWriter \/ StartCmd \/ StartFlag \/ StopQueue \/ StopAudio
MainLoop == SUBOUT \/ STOPSUB \/ Write \/ MainStep
RUN == Top \/ Idle \/ Popen \/ PopenFails \/ StartAudio \/ Fclose \/ SetNull \/ ClearCmd
           \/ Pop \/ Fwrite
AudioRUN == AudioTop \/ AudioOpen \/ AudioPop

\* A crash ends every thread
Alive == vpc # "crashed"

Next ==
    \/ Alive /\ MainLoop
    \/ RUN
    \/ Alive /\ AudioRUN

Spec == Init /\ [][Next]_vars

\* The threads run, a command that was begun is carried out, popen succeeds
\* if it is tried often enough.  Whether commands or frames come is open.
FairSpec ==
    /\ Spec
    /\ WF_vars(Alive /\ MainStep) /\ WF_vars(RUN) /\ WF_vars(Alive /\ AudioRUN)
    /\ SF_vars(Popen)

-----------------------------------------------------------------------------
(* Properties.                                                              *)

Frame == [of : 0 .. MaxRequests, as : 0 .. MaxRequests, no : 0 .. MaxFrames]

\* The type of every variable.
TypeOK ==
    /\ mpc \in {"top", "start", "start_cmd", "start_flag", "stop_queue", "stop_audio"}
    /\ bStopped \in BOOLEAN /\ abort \in BOOLEAN /\ aStopped \in BOOLEAN
    /\ hasty \in BOOLEAN /\ refused \in BOOLEAN
    /\ request \in 0 .. MaxRequests /\ session \in 0 .. MaxRequests
    /\ writer \in 0 .. MaxRequests /\ pipe_cmd \in 0 .. MaxRequests
    /\ audio_fifo \in 0 .. MaxRequests /\ fifo_name \in 0 .. MaxRequests
    /\ awriter \in 0 .. MaxRequests
    /\ frames \in 0 .. MaxFrames /\ audioBuffers \in 0 .. MaxFrames
    /\ videoBuffers \in Seq(Frame) /\ buf \in Frame
    /\ vpc \in {"none", "top", "idle", "popen", "start_audio", "fclose", "null", "clear", "pop",
                "write", "crashed"}
    /\ apc \in {"none", "top", "open", "pop"}
    /\ pipes \in [Requests -> {"none", "open", "closed"}]
    /\ written \in Seq([pipe : Requests, frame : Frame])

\* Whatever the commands and the threads do, a frame that was queued for one
\* substream never enters the pipe of a later one, and the frames that are
\* written are in the order of the main loop, none of them twice.
NoStaleFrames ==
    /\ \A i \in DOMAIN written : written[i].frame.of >= written[i].pipe
    /\ \A i, j \in DOMAIN written : i < j => written[i].frame.no < written[j].frame.no

\* A pipe that the video thread uses is open: it never writes to, nor keeps,
\* a pipe that it has closed, except between fclose and writer = NULL.
WriterIsOpen == writer # 0 /\ vpc # "null" => pipes[writer] = "open"

\* What is written goes to an open pipe, in order, and not to a later substream.
PipeInv == TypeOK /\ NoStaleFrames /\ WriterIsOpen

\* A substream that was asked for has its pipe opened, or is stopped, unless a
\* SUBOUT came before the video thread had closed the pipe of the one before.
Starts ==
    (session # 0 /\ ~bStopped) ~> (bStopped \/ hasty \/ pipes[session] = "open")

\* When the substream is stopped for good, every pipe is closed in the end,
\* with the same exception.
StopCloses ==
    <>[]bStopped => <>[](hasty \/ \A r \in Requests : pipes[r] # "open")

\* SUBOUT is refused with "Substream output is running, please stop first!"
\* (decorateVideo.cpp:1446).  When each SUBOUT comes after the video thread has
\* closed the last pipe, there is one substream at a time, the frames queued for
\* it go to its own address and, unless a SUBOUT was refused, have its own size.
PatientRestart ==
    ~hasty => /\ Alive
              /\ \A r, s \in Requests : pipes[r] = "open" /\ pipes[s] = "open" => r = s
              /\ \A i \in DOMAIN written :
                    /\ written[i].frame.of = written[i].pipe
                    /\ refused \/ written[i].frame.as = written[i].pipe

\* By the same message a SUBOUT after a STOPSUB is the way to change the
\* substream: the video thread survives it.
NoCrash == Alive
=============================================================================
