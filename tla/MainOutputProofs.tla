-------------------------- MODULE MainOutputProofs --------------------------
(***************************************************************************)
(* What holds of the main output, and of the end of the program, for any    *)
(* number of frames and any size of the pipes.                              *)
(***************************************************************************)
EXTENDS MainOutput, QueueLemmas, FiniteSetTheorems

-----------------------------------------------------------------------------
(* The inductive invariant.                                                 *)

\* The way of the frames: the video thread holds one only while it writes it or
\* when it was stopped meanwhile, which is never overlooked; a file has no pipe.
VideoInv ==
    /\ hpc \in {"none", "video"} => frames = ((vgot \o pipe) \o vbuf) \o videoBuffers
    /\ vpc \in {"top", "pop", "missed"} => vbuf = << >>
    /\ vpc = "write" => Len(vbuf) = 1
    /\ vpc = "done" /\ vbuf # << >> => sigpipe \/ hpc # "none"
    /\ vKill => hpc # "none"
    /\ rawdata_out => pipe = << >>

\* A frame is numbered by its iteration; the audio thread waits for its start.
MainInv ==
    /\ mpc \in {"video_push", "audio_push"} => num # 0
    /\ mpc = "start" => apc \in {"none", "done"} /\ abuf = << >>

\* The way of the audio: the thread holds some only while the fifo is open.
AudioInv ==
    /\ hpc \in {"none", "video"} => sounds = ((agot \o fifo) \o abuf) \o audioBuffers
    /\ apc \in {"none", "top", "open", "check", "pop", "missed"} => abuf = << >>
    /\ apc = "write" => Len(abuf) = 1
    /\ apc \in {"check", "pop", "missed", "write"} => awriter
    /\ ~awriter => abuf = << >>

\* The way to the end: the thread is joined and ffmpeg waited for; unless it
\* died, ffmpeg only ends when both inputs are empty and closed.
EndInv ==
    /\ mpc \in {"close", "wait", "remove"} => vpc = "done"
    /\ mpc = "return" => ~audio_fifo
    /\ Running /\ mpc # "return" => (audio_fifo <=> ~rawdata_out)
    /\ rawdata_out \/ mpc = "remove" => fpc = "ended"
    /\ fpc = "ended" /\ ~rawdata_out /\ ~crashed /\ mpc # "return" /\ ended \in {"no", "normal"} =>
          pipe = << >> /\ fifo = << >> /\ ~awriter
    /\ ended = "normal" => mpc = "remove" /\ hpc = "none" /\ ~sigpipe

\* Nothing is sent before the initialisation is over, and no frame is queued.
FirstInv ==
    /\ mpc \in {"start", "signals", "init"} => sent = << >>
    /\ sent = << >> => /\ mpc \in {"start", "signals", "init", "return"}
                       /\ videoBuffers = << >> /\ vbuf = << >>
                       /\ substream \in {"off", "started"}

\* What the events say of the threads that send them.
EventInv ==
    /\ \A i \in DOMAIN sent :
          /\ sent[i] = "INIT_SUCCESS" <=> i = 1
          /\ sent[i] = "READ_FAILURE" => mpc = "return"
    /\ \A i, j \in DOMAIN sent : sent[i] = sent[j] => i = j \/ sent[i] = "START_OF_STREAM"
    /\ sendnum = 1 => vgot \o pipe # << >>

\* The event that the substream has still to send.
Owed == IF substream \in {"started", "fed"} THEN 1 ELSE 0

\* START_OF_STREAM is sent for the first frame, and for each start of the substream.
CountInv == Cardinality(Starts(sent)) + Owed <= sendnum + substarts

OutputInv ==
    /\ TypeOK /\ MainInv /\ VideoInv /\ AudioInv
    /\ EndInv /\ FifoRemoved /\ FirstInv /\ EventInv /\ CountInv

\* Every step keeps the types of the variables.
LEMMA TypeStep ==
    ASSUME TypeOK, MainInv, VideoInv, AudioInv, [Next]_vars
    PROVE  TypeOK'
  <1>1. CASE StartAudio
    <2>1. mpc \in {"start", "signals", "init", "loop", "video_push", "audio_push", "return",
       "badcmd", "exit", "join", "close", "wait", "remove"} /\ aExit \in BOOLEAN /\ apc \in {"none",
       "top", "open", "check", "pop", "missed", "write", "done"}
      BY DEF TypeOK
    <2>2. mpc' \in {"start", "signals", "init", "loop", "video_push", "audio_push", "return",
       "badcmd", "exit", "join", "close", "wait", "remove"}
      BY <1>1, <2>1 DEF StartAudio, Main, loop, process, handler, video, ffmpeg, events, sub,
         vthread, inputs
    <2>3. aExit' \in BOOLEAN
      BY <1>1, <2>1 DEF StartAudio, Main, loop, process, handler, video, ffmpeg, events, sub,
         vthread, inputs
    <2>4. apc' \in {"none", "top", "open", "check", "pop", "missed", "write", "done"}
      BY <1>1, <2>1 DEF StartAudio, Main, loop, process, handler, video, ffmpeg, events, sub,
         vthread, inputs
    <2>5. UNCHANGED <<rawdata_out, handlers, sigpipe, eof, audio_fifo, vExit, vKill, aKill,
       awriter, crashed, num, hpc, ended, vpc, sendnum, fpc, inherited, frames, videoBuffers,
       vbuf, sounds, audioBuffers, abuf, pipe, fifo, vgot, agot, sent, substream, substarts>>
      BY <1>1 DEF StartAudio, Main, loop, process, handler, video, ffmpeg, events, sub, vthread,
         inputs
    <2> QED
      BY <2>2, <2>3, <2>4, <2>5 DEF TypeOK
  <1>2. CASE Signals
    BY <1>2 DEF Signals, Main, loop, handler, video, audio, ffmpeg, events, sub, vthread, athread,
       inputs, TypeOK
  <1>3. CASE InitFails
    <2>1. mpc \in {"start", "signals", "init", "loop", "video_push", "audio_push", "return",
       "badcmd", "exit", "join", "close", "wait", "remove"} /\ audio_fifo \in BOOLEAN
      BY DEF TypeOK
    <2>2. mpc' \in {"start", "signals", "init", "loop", "video_push", "audio_push", "return",
       "badcmd", "exit", "join", "close", "wait", "remove"}
      BY <1>3, <2>1 DEF InitFails, Main, loop, handler, video, audio, ffmpeg, events, sub, vthread,
         athread, inputs
    <2>3. audio_fifo' \in BOOLEAN
      BY <1>3, <2>1 DEF InitFails, Main, loop, handler, video, audio, ffmpeg, events, sub, vthread,
         athread, inputs
    <2>4. UNCHANGED <<rawdata_out, handlers, sigpipe, eof, vExit, vKill, aExit, aKill, awriter,
       crashed, num, hpc, ended, vpc, apc, sendnum, fpc, inherited, frames, videoBuffers, vbuf,
       sounds, audioBuffers, abuf, pipe, fifo, vgot, agot, sent, substream, substarts>>
      BY <1>3 DEF InitFails, Main, loop, handler, video, audio, ffmpeg, events, sub, vthread,
         athread, inputs
    <2> QED
      BY <2>2, <2>3, <2>4 DEF TypeOK
  <1>4. CASE InitSuccess
    <2>1. mpc \in {"start", "signals", "init", "loop", "video_push", "audio_push", "return",
       "badcmd", "exit", "join", "close", "wait", "remove"} /\ sent \in Seq(Events)
      BY DEF TypeOK
    <2>2. mpc' \in {"start", "signals", "init", "loop", "video_push", "audio_push", "return",
       "badcmd", "exit", "join", "close", "wait", "remove"}
      BY <1>4, <2>1 DEF InitSuccess, Main, send_event, sub, loop, process, handler, video, audio,
         ffmpeg, vthread, athread, inputs
    <2>3. sent' \in Seq(Events)
      BY <1>4, <2>1 DEF InitSuccess, Main, send_event, sub, loop, process, handler, video, audio,
         ffmpeg, vthread, athread, inputs, Events
    <2>4. UNCHANGED <<rawdata_out, handlers, sigpipe, eof, audio_fifo, vExit, vKill, aExit,
       aKill, awriter, crashed, num, hpc, ended, vpc, apc, sendnum, fpc, inherited, frames,
       videoBuffers, vbuf, sounds, audioBuffers, abuf, pipe, fifo, vgot, agot, substream, substarts>>
      BY <1>4 DEF InitSuccess, Main, send_event, sub, loop, process, handler, video, audio, ffmpeg,
         vthread, athread, inputs
    <2> QED
      BY <2>2, <2>3, <2>4 DEF TypeOK
  <1>5. CASE Iterate
    <2>1. mpc \in {"start", "signals", "init", "loop", "video_push", "audio_push", "return",
       "badcmd", "exit", "join", "close", "wait", "remove"} /\ num \in 0 .. NumFrames /\ eof \in BOOLEAN
       /\ substream \in {"off", "started", "fed", "sent"}
      BY DEF TypeOK
    <2>2. mpc' \in {"start", "signals", "init", "loop", "video_push", "audio_push", "return",
       "badcmd", "exit", "join", "close", "wait", "remove"}
      BY <1>5, <2>1 DEF Iterate, Main, Mix, process, handler, video, audio, ffmpeg, events, sub,
         vthread, athread, inputs
    <2>3. num' \in 0 .. NumFrames
      BY <1>5, <2>1, MainOutputAssumption DEF Iterate, Main, Mix, process, handler, video,
         audio, ffmpeg, events, sub, vthread, athread, inputs
    <2>4. eof' \in BOOLEAN
      BY <1>5, <2>1 DEF Iterate, Main, Mix, process, handler, video, audio, ffmpeg, events, sub,
         vthread, athread, inputs
    <2>5. UNCHANGED <<rawdata_out, handlers, sigpipe, audio_fifo, vExit, vKill, aExit, aKill,
       awriter, crashed, hpc, ended, vpc, apc, sendnum, fpc, inherited, frames, videoBuffers,
       vbuf, sounds, audioBuffers, abuf, pipe, fifo, vgot, agot, sent, substarts>>
      BY <1>5 DEF Iterate, Main, Mix, process, handler, video, audio, ffmpeg, events, sub, vthread,
         athread, inputs
    <2>6. substream' \in {"off", "started", "fed", "sent"}
      BY <1>5, <2>1 DEF Iterate, FeedSub
    <2> QED
      BY <2>2, <2>3, <2>4, <2>5, <2>6 DEF TypeOK
  <1>6. CASE PushVideo
    <2>1. mpc \in {"start", "signals", "init", "loop", "video_push", "audio_push", "return",
       "badcmd", "exit", "join", "close", "wait", "remove"} /\ videoBuffers \in Seq(Items) /\ frames \in
       Seq(Items)
      BY DEF TypeOK
    <2>2. mpc \in {"video_push", "audio_push"}
      BY <1>6 DEF PushVideo, Mix, Main
    <2>3. num # 0 /\ num \in 0 .. NumFrames
      BY <2>2 DEF MainInv, TypeOK
    <2>4. Video(num) \in Items
      BY <2>3, MainOutputAssumption DEF Items, Video, Audio
    <2>5. mpc' \in {"start", "signals", "init", "loop", "video_push", "audio_push", "return",
       "badcmd", "exit", "join", "close", "wait", "remove"}
      BY <1>6, <2>1, <2>4 DEF PushVideo, Mix, process, handler, vthread, audio, ffmpeg, events, sub,
         Main, athread, inputs
    <2>6. videoBuffers' \in Seq(Items)
      BY <1>6, <2>1, <2>4 DEF PushVideo, Mix, process, handler, vthread, audio, ffmpeg, events, sub,
         Main, athread, inputs
    <2>7. frames' \in Seq(Items)
      BY <1>6, <2>1, <2>4 DEF PushVideo, Mix, process, handler, vthread, audio, ffmpeg, events, sub,
         Main, athread, inputs
    <2>8. UNCHANGED <<rawdata_out, handlers, sigpipe, eof, audio_fifo, vExit, vKill, aExit,
       aKill, awriter, crashed, num, hpc, ended, vpc, apc, sendnum, fpc, inherited, vbuf,
       sounds, audioBuffers, abuf, pipe, fifo, vgot, agot, sent, substream, substarts>>
      BY <1>6 DEF PushVideo, Mix, process, handler, vthread, audio, ffmpeg, events, sub, Main,
         athread, inputs
    <2> QED
      BY <2>5, <2>6, <2>7, <2>8 DEF TypeOK
  <1>7. CASE PushAudio
    <2>1. mpc \in {"start", "signals", "init", "loop", "video_push", "audio_push", "return",
       "badcmd", "exit", "join", "close", "wait", "remove"} /\ audioBuffers \in Seq(Items) /\ sounds \in
       Seq(Items)
      BY DEF TypeOK
    <2>2. mpc \in {"video_push", "audio_push"}
      BY <1>7 DEF PushAudio, Mix, Main
    <2>3. num # 0 /\ num \in 0 .. NumFrames
      BY <2>2 DEF MainInv, TypeOK
    <2>4. Audio(num) \in Items
      BY <2>3, MainOutputAssumption DEF Items, Video, Audio
    <2>5. mpc' \in {"start", "signals", "init", "loop", "video_push", "audio_push", "return",
       "badcmd", "exit", "join", "close", "wait", "remove"}
      BY <1>7, <2>1, <2>4 DEF PushAudio, Main, process, handler, video, athread, ffmpeg, events, sub,
         vthread, inputs
    <2>6. audioBuffers' \in Seq(Items)
      BY <1>7, <2>1, <2>4 DEF PushAudio, Main, process, handler, video, athread, ffmpeg, events, sub,
         vthread, inputs
    <2>7. sounds' \in Seq(Items)
      BY <1>7, <2>1, <2>4 DEF PushAudio, Main, process, handler, video, athread, ffmpeg, events, sub,
         vthread, inputs
    <2>8. UNCHANGED <<rawdata_out, handlers, sigpipe, eof, audio_fifo, vExit, vKill, aExit,
       aKill, awriter, crashed, num, hpc, ended, vpc, apc, sendnum, fpc, inherited, frames,
       videoBuffers, vbuf, abuf, pipe, fifo, vgot, agot, sent, substream, substarts>>
      BY <1>7 DEF PushAudio, Main, process, handler, video, athread, ffmpeg, events, sub, vthread,
         inputs
    <2> QED
      BY <2>5, <2>6, <2>7, <2>8 DEF TypeOK
  <1>8. CASE PushRawAudio
    <2>1. mpc \in {"start", "signals", "init", "loop", "video_push", "audio_push", "return",
       "badcmd", "exit", "join", "close", "wait", "remove"} /\ videoBuffers \in Seq(Items) /\ frames \in
       Seq(Items)
      BY DEF TypeOK
    <2>2. mpc \in {"video_push", "audio_push"}
      BY <1>8 DEF PushRawAudio, Mix, Main
    <2>3. num # 0 /\ num \in 0 .. NumFrames
      BY <2>2 DEF MainInv, TypeOK
    <2>4. Audio(num) \in Items
      BY <2>3, MainOutputAssumption DEF Items, Video, Audio
    <2>5. mpc' \in {"start", "signals", "init", "loop", "video_push", "audio_push", "return",
       "badcmd", "exit", "join", "close", "wait", "remove"}
      BY <1>8, <2>1, <2>4 DEF PushRawAudio, Main, process, handler, vthread, audio, ffmpeg,
         events, sub, athread, inputs
    <2>6. videoBuffers' \in Seq(Items)
      BY <1>8, <2>1, <2>4 DEF PushRawAudio, Main, process, handler, vthread, audio, ffmpeg,
         events, sub, athread, inputs
    <2>7. frames' \in Seq(Items)
      BY <1>8, <2>1, <2>4 DEF PushRawAudio, Main, process, handler, vthread, audio, ffmpeg,
         events, sub, athread, inputs
    <2>8. UNCHANGED <<rawdata_out, handlers, sigpipe, eof, audio_fifo, vExit, vKill, aExit,
       aKill, awriter, crashed, num, hpc, ended, vpc, apc, sendnum, fpc, inherited, vbuf,
       sounds, audioBuffers, abuf, pipe, fifo, vgot, agot, sent, substream, substarts>>
      BY <1>8 DEF PushRawAudio, Main, process, handler, vthread, audio, ffmpeg, events, sub, athread,
         inputs
    <2> QED
      BY <2>5, <2>6, <2>7, <2>8 DEF TypeOK
  <1>9. CASE ReadFailure
    <2>1. mpc \in {"start", "signals", "init", "loop", "video_push", "audio_push", "return",
       "badcmd", "exit", "join", "close", "wait", "remove"} /\ sent \in Seq(Events) /\ audio_fifo
       \in BOOLEAN
      BY DEF TypeOK
    <2>2. mpc' \in {"start", "signals", "init", "loop", "video_push", "audio_push", "return",
       "badcmd", "exit", "join", "close", "wait", "remove"}
      BY <1>9, <2>1 DEF ReadFailure, Main, send_event, sub, loop, handler, video, audio, ffmpeg,
         vthread, athread, inputs
    <2>3. sent' \in Seq(Events)
      BY <1>9, <2>1 DEF ReadFailure, Main, send_event, sub, loop, handler, video, audio, ffmpeg,
         vthread, athread, inputs, Events
    <2>4. audio_fifo' \in BOOLEAN
      BY <1>9, <2>1 DEF ReadFailure, Main, send_event, sub, loop, handler, video, audio, ffmpeg,
         vthread, athread, inputs
    <2>5. UNCHANGED <<rawdata_out, handlers, sigpipe, eof, vExit, vKill, aExit, aKill, awriter,
       crashed, num, hpc, ended, vpc, apc, sendnum, fpc, inherited, frames, videoBuffers, vbuf,
       sounds, audioBuffers, abuf, pipe, fifo, vgot, agot, substream, substarts>>
      BY <1>9 DEF ReadFailure, Main, send_event, sub, loop, handler, video, audio, ffmpeg, vthread,
         athread, inputs
    <2> QED
      BY <2>2, <2>3, <2>4, <2>5 DEF TypeOK
  <1>10. CASE Return
    BY <1>10 DEF Return, Main, loop, handler, video, audio, ffmpeg, events, sub, vthread, athread,
       inputs, TypeOK
  <1>11. CASE ExitAudio
    BY <1>11 DEF ExitAudio, Main, loop, process, handler, video, athread, ffmpeg, events, sub,
       vthread, inputs, TypeOK
  <1>12. CASE ExitVideo
    BY <1>12 DEF ExitVideo, Main, loop, process, handler, vthread, audio, ffmpeg, events, sub,
       athread, inputs, TypeOK
  <1>13. CASE Join
    BY <1>13 DEF Join, MainOnly, Main, loop, process, handler, video, audio, ffmpeg, events, sub,
       vthread, athread, inputs, TypeOK
  <1>14. CASE Close
    BY <1>14 DEF Close, MainOnly, Main, loop, process, handler, video, audio, ffmpeg, events, sub,
       vthread, athread, inputs, TypeOK
  <1>15. CASE Wait
    BY <1>15 DEF Wait, MainOnly, Main, loop, process, handler, video, audio, ffmpeg, events, sub,
       vthread, athread, inputs, TypeOK
  <1>16. CASE ExitProcess
    <2>1. mpc \in {"start", "signals", "init", "loop", "video_push", "audio_push", "return",
       "badcmd", "exit", "join", "close", "wait", "remove"} /\ audio_fifo \in BOOLEAN /\ ended \in {"no",
       "normal", "failed", "badcmd", "signal", "killed"}
      BY DEF TypeOK
    <2>2. mpc' \in {"start", "signals", "init", "loop", "video_push", "audio_push", "return",
       "badcmd", "exit", "join", "close", "wait", "remove"}
      BY <1>16, <2>1 DEF ExitProcess, Main, loop, handler, video, audio, ffmpeg, events, sub, vthread,
         athread, inputs
    <2>3. audio_fifo' \in BOOLEAN
      BY <1>16, <2>1 DEF ExitProcess, Main, loop, handler, video, audio, ffmpeg, events, sub, vthread,
         athread, inputs
    <2>4. ended' \in {"no", "normal", "failed", "badcmd", "signal", "killed"}
      BY <1>16, <2>1 DEF ExitProcess, Main, loop, handler, video, audio, ffmpeg, events, sub, vthread,
         athread, inputs
    <2>5. UNCHANGED <<rawdata_out, handlers, sigpipe, eof, vExit, vKill, aExit, aKill, awriter,
       crashed, num, hpc, vpc, apc, sendnum, fpc, inherited, frames, videoBuffers, vbuf, sounds,
       audioBuffers, abuf, pipe, fifo, vgot, agot, sent, substream, substarts>>
      BY <1>16 DEF ExitProcess, Main, loop, handler, video, audio, ffmpeg, events, sub, vthread,
         athread, inputs
    <2> QED
      BY <2>2, <2>3, <2>4, <2>5 DEF TypeOK
  <1>17. CASE KilledEarly
    BY <1>17 DEF KilledEarly, loop, handler, video, audio, ffmpeg, events, sub, vthread, athread,
       inputs, TypeOK
  <1>18. CASE SigHandler
    <2>1. hpc \in {"none", "video", "audio", "remove"} /\ vExit \in BOOLEAN /\ videoBuffers \in
       Seq(Items) /\ vKill \in BOOLEAN /\ aExit \in BOOLEAN /\ audioBuffers \in Seq(Items) /\
       aKill \in BOOLEAN
      BY DEF TypeOK
    <2>2. hpc' \in {"none", "video", "audio", "remove"}
      BY <1>18, <2>1 DEF SigHandler, Blocked, HoldsVideo, main, ffmpeg, events, sub, HoldsAudio, loop,
         process, inputs
    <2>3. vExit' \in BOOLEAN
      BY <1>18, <2>1 DEF SigHandler, Blocked, HoldsVideo, main, ffmpeg, events, sub, HoldsAudio, loop,
         process, inputs
    <2>4. videoBuffers' \in Seq(Items)
      <3>1. videoBuffers' = videoBuffers \/ videoBuffers' = << >>
        BY <1>18 DEF SigHandler, Blocked, HoldsVideo, main, ffmpeg, events, sub, HoldsAudio, loop,
           process, inputs
      <3> QED
        BY <2>1, <3>1, EmptyFacts
    <2>5. vKill' \in BOOLEAN
      BY <1>18, <2>1 DEF SigHandler, Blocked, HoldsVideo, main, ffmpeg, events, sub, HoldsAudio, loop,
         process, inputs
    <2>6. aExit' \in BOOLEAN
      BY <1>18, <2>1 DEF SigHandler, Blocked, HoldsVideo, main, ffmpeg, events, sub, HoldsAudio, loop,
         process, inputs
    <2>7. audioBuffers' \in Seq(Items)
      <3>1. audioBuffers' = audioBuffers \/ audioBuffers' = << >>
        BY <1>18 DEF SigHandler, Blocked, HoldsVideo, main, ffmpeg, events, sub, HoldsAudio, loop,
           process, inputs
      <3> QED
        BY <2>1, <3>1, EmptyFacts
    <2>8. aKill' \in BOOLEAN
      BY <1>18, <2>1 DEF SigHandler, Blocked, HoldsVideo, main, ffmpeg, events, sub, HoldsAudio, loop,
         process, inputs
    <2>9. UNCHANGED <<rawdata_out, handlers, sigpipe, eof, audio_fifo, awriter, crashed, mpc,
       num, ended, vpc, apc, sendnum, fpc, inherited, frames, vbuf, sounds, abuf, pipe, fifo,
       vgot, agot, sent, substream, substarts>>
      BY <1>18 DEF SigHandler, main, ffmpeg, events, sub, loop, process, inputs
    <2> QED
      BY <2>2, <2>3, <2>4, <2>5, <2>6, <2>7, <2>8, <2>9 DEF TypeOK
  <1>19. CASE HandlerExit
    <2>1. ended \in {"no", "normal", "failed", "badcmd", "signal", "killed"} /\ audio_fifo \in BOOLEAN
      BY DEF TypeOK
    <2>2. ended' \in {"no", "normal", "failed", "badcmd", "signal", "killed"}
      BY <1>19, <2>1 DEF HandlerExit, HandlerEnds, loop, handler, video, audio, ffmpeg, events, sub,
         vthread, athread, inputs
    <2>3. audio_fifo' \in BOOLEAN
      BY <1>19, <2>1 DEF HandlerExit, HandlerEnds, loop, handler, video, audio, ffmpeg, events, sub,
         vthread, athread, inputs
    <2>4. UNCHANGED <<rawdata_out, handlers, sigpipe, eof, vExit, vKill, aExit, aKill, awriter,
       crashed, mpc, num, hpc, vpc, apc, sendnum, fpc, inherited, frames, videoBuffers, vbuf,
       sounds, audioBuffers, abuf, pipe, fifo, vgot, agot, sent, substream, substarts>>
      BY <1>19 DEF HandlerExit, HandlerEnds, loop, handler, video, audio, ffmpeg, events, sub,
         vthread, athread, inputs
    <2> QED
      BY <2>2, <2>3, <2>4 DEF TypeOK
  <1>20. CASE VideoTop
    BY <1>20 DEF VideoTop, VideoAt, VideoGoto, main, handler, audio, ffmpeg, events, sub, loop,
       process, athread, inputs, TypeOK
  <1>21. CASE VideoPop
    <2>1. vpc \in {"top", "pop", "missed", "write", "done"} /\ vbuf \in Seq(Items) /\
       videoBuffers \in Seq(Items)
      BY DEF TypeOK
    <2>2. vpc' \in {"top", "pop", "missed", "write", "done"}
      BY <1>21, <2>1 DEF VideoPop, VideoAt, HoldsVideo, main, handler, audio, ffmpeg, events, sub,
         loop, process, athread, inputs
    <2>3. vbuf' \in Seq(Items)
      <3>1. vbuf' = vbuf \/ (videoBuffers # << >> /\ vbuf' = <<Head(videoBuffers)>>)
        BY <1>21 DEF VideoPop, VideoAt, HoldsVideo, main, handler, audio, ffmpeg, events, sub, loop,
           process, athread, inputs
      <3>2. CASE videoBuffers # << >> /\ vbuf' = <<Head(videoBuffers)>>
        <4>1. Head(videoBuffers) \in Items
          BY <2>1, <3>2, PopFacts
        <4> QED
          BY <3>2, <4>1, OneFacts
      <3> QED
        BY <2>1, <3>1, <3>2
    <2>4. videoBuffers' \in Seq(Items)
      BY <1>21, <2>1, PopFacts DEF VideoPop, VideoAt, HoldsVideo, main, handler, audio, ffmpeg,
         events, sub, loop, process, athread, inputs
    <2>5. UNCHANGED <<rawdata_out, handlers, sigpipe, eof, audio_fifo, vExit, vKill, aExit,
       aKill, awriter, crashed, mpc, num, hpc, ended, apc, sendnum, fpc, inherited, frames,
       sounds, audioBuffers, abuf, pipe, fifo, vgot, agot, sent, substream, substarts>>
      BY <1>21 DEF VideoPop, VideoAt, main, handler, audio, ffmpeg, events, sub, loop, process,
         athread, inputs
    <2> QED
      BY <2>2, <2>3, <2>4, <2>5 DEF TypeOK
  <1>22. CASE VideoMissed
    BY <1>22 DEF VideoMissed, VideoAt, VideoGoto, main, handler, audio, ffmpeg, events, sub, loop,
       process, athread, inputs, TypeOK
  <1>23. CASE VideoWrite
    <2>1. vgot \in Seq(Items) /\ pipe \in Seq(Items) /\ vbuf \in Seq(Items) /\ vpc \in {"top",
       "pop", "missed", "write", "done"} /\ sent \in Seq(Events) /\ sendnum \in 0 .. 1
      BY DEF TypeOK
    <2>2. Len(vbuf) = 1
      BY <1>23 DEF VideoWrite, VideoAt, VideoInv
    <2>3. pipe \in Seq(Items) /\ vbuf \in Seq(Items) /\ Len(pipe) <= PipeSize /\ vgot \in
       Seq(Items)
      BY DEF TypeOK
    <2>4. pipe \o vbuf \in Seq(Items) /\ vgot \o vbuf \in Seq(Items)
      BY <2>3, CatFacts
    <2>5. Len(pipe \o vbuf) = Len(pipe) + 1
      <3>1. Len(pipe \o vbuf) = Len(pipe) + Len(vbuf)
        BY <2>3, CatFacts
      <3> QED
        BY <2>2, <3>1
    <2>6. pipe' = pipe \/ (Len(pipe) < PipeSize /\ pipe' = pipe \o vbuf)
      BY <1>23 DEF VideoWrite, VideoAt, StartOfStream, main, handler, audio, send_event, events, sub,
         loop, process, athread
    <2>7. Len(pipe') <= PipeSize
      BY <2>6, <2>5, <2>3, MainOutputAssumption
    <2>8. vgot' \in Seq(Items)
      BY <1>23, <2>1, <2>6, <2>4, <2>3 DEF VideoWrite, VideoAt, StartOfStream, main, handler,
         audio, send_event, events, sub, loop, process, athread
    <2>9. pipe' \in Seq(Items)
      BY <1>23, <2>1, <2>6, <2>4, <2>3 DEF VideoWrite, VideoAt, StartOfStream, main, handler,
         audio, send_event, events, sub, loop, process, athread
    <2>10. vbuf' \in Seq(Items)
      BY <1>23, <2>1, <2>6, <2>4, <2>3 DEF VideoWrite, VideoAt, StartOfStream, main, handler,
         audio, send_event, events, sub, loop, process, athread
    <2>11. vpc' \in {"top", "pop", "missed", "write", "done"}
      BY <1>23, <2>1, <2>6, <2>4, <2>3 DEF VideoWrite, VideoAt, StartOfStream, main, handler,
         audio, send_event, events, sub, loop, process, athread
    <2>12. sent' \in Seq(Events)
      <3>1. sent' = sent \/ sent' = Append(sent, "START_OF_STREAM")
        BY <1>23 DEF VideoWrite, VideoAt, StartOfStream, main, handler, audio, send_event,
           events, sub, loop, process, athread
      <3> QED
        BY <2>1, <3>1, PushFacts, SMTT(30) DEF Events
    <2>13. sendnum' \in 0 .. 1
      BY <1>23, <2>1, <2>6, <2>4, <2>3 DEF VideoWrite, VideoAt, StartOfStream, main, handler,
         audio, send_event, events, sub, loop, process, athread
    <2>14. UNCHANGED <<rawdata_out, handlers, sigpipe, eof, audio_fifo, vExit, vKill, aExit,
       aKill, awriter, crashed, mpc, num, hpc, ended, apc, fpc, inherited, frames, videoBuffers,
       sounds, audioBuffers, abuf, fifo, agot, substream, substarts>>
      BY <1>23 DEF VideoWrite, VideoAt, StartOfStream, main, handler, audio, send_event, events, sub,
         loop, process, athread
    <2> QED
      BY <2>8, <2>9, <2>10, <2>11, <2>12, <2>13, <2>14, <2>7 DEF TypeOK
  <1>24. CASE VideoSigPipe
    BY <1>24 DEF VideoSigPipe, VideoAt, main, audio, ffmpeg, events, sub, loop, process, athread,
       inputs, TypeOK
  <1>25. CASE VideoKilled
    BY <1>25 DEF VideoKilled, VideoGoto, main, handler, audio, ffmpeg, events, sub, loop, process,
       athread, inputs, TypeOK
  <1>26. CASE AudioTop
    BY <1>26 DEF AudioTop, AudioAt, AudioGoto, main, handler, video, ffmpeg, events, sub, loop,
       process, vthread, inputs, TypeOK
  <1>27. CASE AudioCheck
    <2>1. apc \in {"none", "top", "open", "check", "pop", "missed", "write", "done"} /\ awriter
       \in BOOLEAN
      BY DEF TypeOK
    <2>2. apc' \in {"none", "top", "open", "check", "pop", "missed", "write", "done"}
      BY <1>27, <2>1 DEF AudioCheck, AudioAt, HoldsAudio, AudioClose, AudioGoto, main, handler,
         video, ffmpeg, events, sub, loop, process, vthread, inputs
    <2>3. awriter' \in BOOLEAN
      BY <1>27, <2>1 DEF AudioCheck, AudioAt, HoldsAudio, AudioClose, AudioGoto, main, handler,
         video, ffmpeg, events, sub, loop, process, vthread, inputs
    <2>4. UNCHANGED <<rawdata_out, handlers, sigpipe, eof, audio_fifo, vExit, vKill, aExit,
       aKill, crashed, mpc, num, hpc, ended, vpc, sendnum, fpc, inherited, frames, videoBuffers,
       vbuf, sounds, audioBuffers, abuf, pipe, fifo, vgot, agot, sent, substream, substarts>>
      BY <1>27 DEF AudioCheck, AudioAt, AudioClose, AudioGoto, main, handler, video, ffmpeg,
         events, sub, loop, process, vthread, inputs
    <2> QED
      BY <2>2, <2>3, <2>4 DEF TypeOK
  <1>28. CASE AudioPop
    <2>1. apc \in {"none", "top", "open", "check", "pop", "missed", "write", "done"} /\ abuf \in
       Seq(Items) /\ audioBuffers \in Seq(Items)
      BY DEF TypeOK
    <2>2. apc' \in {"none", "top", "open", "check", "pop", "missed", "write", "done"}
      BY <1>28, <2>1 DEF AudioPop, AudioAt, HoldsAudio, main, handler, video, ffmpeg, events, sub,
         loop, process, vthread, inputs
    <2>3. abuf' \in Seq(Items)
      <3>1. abuf' = abuf \/ (audioBuffers # << >> /\ abuf' = <<Head(audioBuffers)>>)
        BY <1>28 DEF AudioPop, AudioAt, HoldsAudio, main, handler, video, ffmpeg, events, sub, loop,
           process, vthread, inputs
      <3>2. CASE audioBuffers # << >> /\ abuf' = <<Head(audioBuffers)>>
        <4>1. Head(audioBuffers) \in Items
          BY <2>1, <3>2, PopFacts
        <4> QED
          BY <3>2, <4>1, OneFacts
      <3> QED
        BY <2>1, <3>1, <3>2
    <2>4. audioBuffers' \in Seq(Items)
      BY <1>28, <2>1, PopFacts DEF AudioPop, AudioAt, HoldsAudio, main, handler, video, ffmpeg,
         events, sub, loop, process, vthread, inputs
    <2>5. UNCHANGED <<rawdata_out, handlers, sigpipe, eof, audio_fifo, vExit, vKill, aExit,
       aKill, awriter, crashed, mpc, num, hpc, ended, vpc, sendnum, fpc, inherited, frames,
       videoBuffers, vbuf, sounds, pipe, fifo, vgot, agot, sent, substream, substarts>>
      BY <1>28 DEF AudioPop, AudioAt, main, handler, video, ffmpeg, events, sub, loop, process,
         vthread, inputs
    <2> QED
      BY <2>2, <2>3, <2>4, <2>5 DEF TypeOK
  <1>29. CASE AudioMissed
    <2>1. apc \in {"none", "top", "open", "check", "pop", "missed", "write", "done"} /\ awriter
       \in BOOLEAN
      BY DEF TypeOK
    <2>2. apc' \in {"none", "top", "open", "check", "pop", "missed", "write", "done"}
      BY <1>29, <2>1 DEF AudioMissed, AudioAt, AudioClose, AudioGoto, main, handler, video,
         ffmpeg, events, sub, loop, process, vthread, inputs
    <2>3. awriter' \in BOOLEAN
      BY <1>29, <2>1 DEF AudioMissed, AudioAt, AudioClose, AudioGoto, main, handler, video,
         ffmpeg, events, sub, loop, process, vthread, inputs
    <2>4. UNCHANGED <<rawdata_out, handlers, sigpipe, eof, audio_fifo, vExit, vKill, aExit,
       aKill, crashed, mpc, num, hpc, ended, vpc, sendnum, fpc, inherited, frames, videoBuffers,
       vbuf, sounds, audioBuffers, abuf, pipe, fifo, vgot, agot, sent, substream, substarts>>
      BY <1>29 DEF AudioMissed, AudioAt, AudioClose, AudioGoto, main, handler, video, ffmpeg,
         events, sub, loop, process, vthread, inputs
    <2> QED
      BY <2>2, <2>3, <2>4 DEF TypeOK
  <1>30. CASE AudioWrite
    <2>1. fifo \in Seq(Items) /\ abuf \in Seq(Items) /\ apc \in {"none", "top", "open", "check",
       "pop", "missed", "write", "done"}
      BY DEF TypeOK
    <2>2. Len(abuf) = 1
      BY <1>30 DEF AudioWrite, WriteFifo, AudioAt, AudioInv
    <2>3. fifo \in Seq(Items) /\ abuf \in Seq(Items) /\ Len(fifo) <= PipeSize /\ vgot \in
       Seq(Items)
      BY DEF TypeOK
    <2>4. fifo \o abuf \in Seq(Items) /\ vgot \o abuf \in Seq(Items)
      BY <2>3, CatFacts
    <2>5. Len(fifo \o abuf) = Len(fifo) + 1
      <3>1. Len(fifo \o abuf) = Len(fifo) + Len(abuf)
        BY <2>3, CatFacts
      <3> QED
        BY <2>2, <3>1
    <2>6. fifo' = fifo \/ (Len(fifo) < PipeSize /\ fifo' = fifo \o abuf)
      BY <1>30 DEF AudioWrite, WriteFifo, AudioAt, main, handler, video, events, sub, loop, process,
         vthread
    <2>7. Len(fifo') <= PipeSize
      BY <2>6, <2>5, <2>3, MainOutputAssumption
    <2>8. fifo' \in Seq(Items)
      BY <1>30, <2>1, <2>6, <2>4, <2>3 DEF AudioWrite, WriteFifo, AudioAt, main, handler, video,
         events, sub, loop, process, vthread
    <2>9. abuf' \in Seq(Items)
      BY <1>30, <2>1, <2>6, <2>4, <2>3 DEF AudioWrite, WriteFifo, AudioAt, main, handler, video,
         events, sub, loop, process, vthread
    <2>10. apc' \in {"none", "top", "open", "check", "pop", "missed", "write", "done"}
      BY <1>30, <2>1, <2>6, <2>4, <2>3 DEF AudioWrite, WriteFifo, AudioAt, main, handler, video,
         events, sub, loop, process, vthread
    <2>11. UNCHANGED <<rawdata_out, handlers, sigpipe, eof, audio_fifo, vExit, vKill, aExit,
       aKill, awriter, crashed, mpc, num, hpc, ended, vpc, sendnum, fpc, inherited, frames,
       videoBuffers, vbuf, sounds, audioBuffers, pipe, vgot, agot, sent, substream, substarts>>
      BY <1>30 DEF AudioWrite, WriteFifo, AudioAt, main, handler, video, events, sub, loop, process,
         vthread
    <2> QED
      BY <2>8, <2>9, <2>10, <2>11, <2>7 DEF TypeOK
  <1>31. CASE AudioSigPipe
    BY <1>31 DEF AudioSigPipe, AudioAt, main, video, ffmpeg, events, sub, loop, process, vthread,
       inputs, TypeOK
  <1>32. CASE AudioKilled
    BY <1>32 DEF AudioKilled, AudioGoto, main, handler, video, ffmpeg, events, sub, loop, process,
       vthread, inputs, TypeOK
  <1>33. CASE SubWrite
    <2>1. sent \in Seq(Events)
      BY DEF TypeOK
    <2>2. sent' = Append(sent, "START_OF_STREAM") /\ substream' = "sent"
      BY <1>33 DEF SubWrite, send_event
    <2>3. sent' \in Seq(Events)
      BY <2>1, <2>2, PushFacts DEF Events
    <2>4. UNCHANGED <<rawdata_out, handlers, sigpipe, eof, audio_fifo, vExit, vKill, aExit,
       aKill, awriter, crashed, mpc, num, hpc, ended, vpc, apc, sendnum, fpc, inherited, frames,
       videoBuffers, vbuf, sounds, audioBuffers, abuf, pipe, fifo, vgot, agot, substarts>>
      BY <1>33 DEF SubWrite, main, handler, video, audio, ffmpeg, loop, process, vthread,
         athread, inputs
    <2> QED
      BY <2>2, <2>3, <2>4 DEF TypeOK
  <1>34. CASE Probe
    BY <1>34 DEF Probe, main, handler, video, audio, inputs, events, sub, loop, process, vthread,
       athread, TypeOK
  <1>35. CASE Rendezvous
    BY <1>35 DEF Rendezvous, main, handler, video, inputs, events, sub, loop, process, vthread,
       TypeOK
  <1>36. CASE ReadVideo
    <2>1. vgot \in Seq(Items) /\ pipe \in Seq(Items)
      BY DEF TypeOK
    <2>2. pipe # << >> /\ pipe' = Tail(pipe)
      BY <1>36 DEF ReadVideo
    <2>3. Len(Tail(pipe)) = Len(pipe) - 1 /\ Len(pipe) \in Nat
      BY <2>1, <2>2, PopFacts
    <2>4. Len(pipe) <= PipeSize
      BY DEF TypeOK
    <2>5. Len(pipe') <= PipeSize
      BY <2>4, <2>3, <2>2, MainOutputAssumption
    <2>6. vgot' \in Seq(Items)
      BY <1>36, <2>1, PopFacts DEF ReadVideo, main, handler, video, audio, events, sub, loop, process,
         vthread, athread
    <2>7. pipe' \in Seq(Items)
      BY <1>36, <2>1, PopFacts DEF ReadVideo, main, handler, video, audio, events, sub, loop, process,
         vthread, athread
    <2>8. UNCHANGED <<rawdata_out, handlers, sigpipe, eof, audio_fifo, vExit, vKill, aExit,
       aKill, awriter, crashed, mpc, num, hpc, ended, vpc, apc, sendnum, fpc, inherited, frames,
       videoBuffers, vbuf, sounds, audioBuffers, abuf, fifo, agot, sent, substream, substarts>>
      BY <1>36 DEF ReadVideo, main, handler, video, audio, events, sub, loop, process, vthread,
         athread
    <2> QED
      BY <2>6, <2>7, <2>8, <2>5 DEF TypeOK
  <1>37. CASE ReadAudio
    <2>1. agot \in Seq(Items) /\ fifo \in Seq(Items)
      BY DEF TypeOK
    <2>2. fifo # << >> /\ fifo' = Tail(fifo)
      BY <1>37 DEF ReadAudio
    <2>3. Len(Tail(fifo)) = Len(fifo) - 1 /\ Len(fifo) \in Nat
      BY <2>1, <2>2, PopFacts
    <2>4. Len(fifo) <= PipeSize
      BY DEF TypeOK
    <2>5. Len(fifo') <= PipeSize
      BY <2>4, <2>3, <2>2, MainOutputAssumption
    <2>6. agot' \in Seq(Items)
      BY <1>37, <2>1, PopFacts DEF ReadAudio, main, handler, video, audio, events, sub, loop, process,
         vthread, athread
    <2>7. fifo' \in Seq(Items)
      BY <1>37, <2>1, PopFacts DEF ReadAudio, main, handler, video, audio, events, sub, loop, process,
         vthread, athread
    <2>8. UNCHANGED <<rawdata_out, handlers, sigpipe, eof, audio_fifo, vExit, vKill, aExit,
       aKill, awriter, crashed, mpc, num, hpc, ended, vpc, apc, sendnum, fpc, inherited, frames,
       videoBuffers, vbuf, sounds, audioBuffers, abuf, pipe, vgot, sent, substream, substarts>>
      BY <1>37 DEF ReadAudio, main, handler, video, audio, events, sub, loop, process, vthread,
         athread
    <2> QED
      BY <2>6, <2>7, <2>8, <2>5 DEF TypeOK
  <1>38. CASE Finish
    BY <1>38 DEF Finish, main, handler, video, audio, inputs, events, sub, loop, process, vthread,
       athread, TypeOK
  <1>39. CASE Crash
    BY <1>39 DEF Crash, main, handler, video, audio, inputs, events, sub, loop, process, vthread,
       athread, TypeOK
  <1>40. CASE SubPopen
    BY <1>40 DEF SubPopen, main, handler, video, audio, inputs, events, sub, loop, process, vthread,
       athread, TypeOK
  <1>41. CASE SubEnd
    BY <1>41 DEF SubEnd, main, handler, video, audio, inputs, events, sub, loop, process, vthread,
       athread, TypeOK
  <1>42. CASE SubStart
    <2>1. substarts \in 0 .. MaxStarts /\ substream \in {"off", "started", "fed", "sent"}
      BY DEF TypeOK
    <2>2. substarts' \in 0 .. MaxStarts
      BY <1>42, <2>1, MainOutputAssumption DEF SubStart
    <2>3. substream' \in {"off", "started", "fed", "sent"}
      BY <1>42, <2>1 DEF SubStart
    <2>4. UNCHANGED <<rawdata_out, handlers, sigpipe, eof, audio_fifo, vExit, vKill, aExit,
       aKill, awriter, crashed, mpc, num, hpc, ended, vpc, apc, sendnum, fpc, inherited, frames,
       videoBuffers, vbuf, sounds, audioBuffers, abuf, pipe, fifo, vgot, agot, sent>>
      BY <1>42 DEF SubStart, Main, loop, process, handler, video, audio, ffmpeg, vthread, athread,
         inputs
    <2> QED
      BY <2>2, <2>3, <2>4 DEF TypeOK
  <1>43. CASE BadSubout
    BY <1>43 DEF BadSubout, MainOnly, Main, loop, process, handler, video, audio, ffmpeg, events,
       sub, vthread, athread, inputs, TypeOK
  <1>44. CASE UNCHANGED vars
    BY <1>44 DEF vars, loop, process, main, handler, vthread, video, athread, audio, inputs,
       ffmpeg, events, sub, TypeOK
  <1> QED
    BY <1>1, <1>2, <1>3, <1>4, <1>5, <1>6, <1>7, <1>8, <1>9, <1>10, <1>11, <1>12, <1>13, <1>14,
       <1>15, <1>16, <1>17, <1>18, <1>19, <1>20, <1>21, <1>22, <1>23, <1>24, <1>25, <1>26,
       <1>27, <1>28, <1>29, <1>30, <1>31, <1>32, <1>33, <1>34, <1>35, <1>36, <1>37, <1>38,
       <1>39, <1>40, <1>41, <1>42, <1>43, <1>44 DEF Next, MainStep, VideoRUN, AudioRUN, Encode

\* Iterations are counted before their frame is queued.
LEMMA MainInvStep ==
    ASSUME TypeOK, MainInv, [Next]_vars
    PROVE  MainInv'
  <1>1. CASE UNCHANGED <<mpc, num, apc, abuf>>
    BY <1>1 DEF MainInv
  <1>2. CASE KilledEarly \/ SigHandler \/ HandlerExit
    BY <1>1, <1>2 DEF KilledEarly, loop, handler, video, audio, ffmpeg, events, sub, vthread,
       athread, inputs, SigHandler, main, process, HandlerExit, HandlerEnds
  <1>3. CASE VideoTop \/ VideoPop \/ VideoMissed \/ VideoWrite \/ VideoSigPipe \/ VideoKilled
    BY <1>1, <1>3 DEF VideoTop, VideoAt, VideoGoto, main, handler, audio, ffmpeg, events, sub, loop,
       process, athread, inputs, VideoPop, VideoMissed, VideoWrite, StartOfStream, send_event,
       VideoSigPipe, VideoKilled
  <1>4. CASE SubWrite \/ Probe \/ ReadVideo \/ ReadAudio \/ Finish \/ Crash \/ SubPopen \/
     SubEnd
    BY <1>1, <1>4 DEF SubWrite, send_event, main, handler, video, audio, ffmpeg, loop, process, vthread,
       athread, inputs, Probe, events, sub, ReadVideo, ReadAudio, Finish, Crash, SubPopen, SubEnd
  <1>5. CASE StartAudio
    BY <1>5 DEF StartAudio, Main, loop, process, handler, video, ffmpeg, events, sub, vthread,
       inputs, MainInv
  <1>6. CASE Signals
    BY <1>6 DEF Signals, Main, loop, handler, video, audio, ffmpeg, events, sub, vthread, athread,
       inputs, MainInv
  <1>7. CASE InitFails
    BY <1>7 DEF InitFails, Main, loop, handler, video, audio, ffmpeg, events, sub, vthread, athread,
       inputs, MainInv
  <1>8. CASE InitSuccess
    BY <1>8 DEF InitSuccess, Main, send_event, sub, loop, process, handler, video, audio, ffmpeg,
       vthread, athread, inputs, MainInv
  <1>9. CASE Iterate
    <2>1. num \in 0 .. NumFrames /\ num' = num + 1
      BY <1>9 DEF Iterate, TypeOK
    <2>2. mpc' # "start"
      BY <1>9 DEF Iterate, Mix, Main
    <2> QED
      BY <2>1, <2>2, MainOutputAssumption DEF MainInv
  <1>10. CASE PushVideo
    BY <1>10 DEF PushVideo, Mix, process, handler, vthread, audio, ffmpeg, events, sub, Main,
       athread, inputs, MainInv
  <1>11. CASE PushAudio
    BY <1>11 DEF PushAudio, Main, process, handler, video, athread, ffmpeg, events, sub, vthread,
       inputs, MainInv
  <1>12. CASE PushRawAudio
    BY <1>12 DEF PushRawAudio, Main, process, handler, vthread, audio, ffmpeg, events, sub, athread,
       inputs, MainInv
  <1>13. CASE ReadFailure
    BY <1>13 DEF ReadFailure, Main, send_event, sub, loop, handler, video, audio, ffmpeg, vthread,
       athread, inputs, MainInv
  <1>14. CASE Return
    BY <1>14 DEF Return, Main, loop, handler, video, audio, ffmpeg, events, sub, vthread, athread,
       inputs, MainInv
  <1>15. CASE ExitAudio
    BY <1>15 DEF ExitAudio, Main, loop, process, handler, video, athread, ffmpeg, events, sub,
       vthread, inputs, MainInv
  <1>16. CASE ExitVideo
    BY <1>16 DEF ExitVideo, Main, loop, process, handler, vthread, audio, ffmpeg, events, sub,
       athread, inputs, MainInv
  <1>17. CASE Join
    BY <1>17 DEF Join, MainOnly, Main, loop, process, handler, video, audio, ffmpeg, events, sub,
       vthread, athread, inputs, MainInv
  <1>18. CASE Close
    BY <1>18 DEF Close, MainOnly, Main, loop, process, handler, video, audio, ffmpeg, events, sub,
       vthread, athread, inputs, MainInv
  <1>19. CASE Wait
    BY <1>19 DEF Wait, MainOnly, Main, loop, process, handler, video, audio, ffmpeg, events, sub,
       vthread, athread, inputs, MainInv
  <1>20. CASE ExitProcess
    BY <1>20 DEF ExitProcess, Main, loop, handler, video, audio, ffmpeg, events, sub, vthread,
       athread, inputs, MainInv
  <1>21. CASE AudioTop
    BY <1>21 DEF AudioTop, AudioAt, AudioGoto, main, handler, video, ffmpeg, events, sub, loop,
       process, vthread, inputs, MainInv
  <1>22. CASE AudioCheck
    BY <1>22 DEF AudioCheck, AudioAt, AudioClose, AudioGoto, main, handler, video, ffmpeg,
       events, sub, loop, process, vthread, inputs, MainInv
  <1>23. CASE AudioPop
    BY <1>23 DEF AudioPop, AudioAt, main, handler, video, ffmpeg, events, sub, loop, process,
       vthread, inputs, MainInv
  <1>24. CASE AudioMissed
    BY <1>24 DEF AudioMissed, AudioAt, AudioClose, AudioGoto, main, handler, video, ffmpeg,
       events, sub, loop, process, vthread, inputs, MainInv
  <1>25. CASE AudioWrite
    BY <1>25 DEF AudioWrite, WriteFifo, AudioAt, main, handler, video, events, sub, loop, process,
       vthread, MainInv
  <1>26. CASE AudioSigPipe
    BY <1>26 DEF AudioSigPipe, AudioAt, main, video, ffmpeg, events, sub, loop, process, vthread,
       inputs, MainInv
  <1>27. CASE AudioKilled
    BY <1>27 DEF AudioKilled, AudioGoto, main, handler, video, ffmpeg, events, sub, loop, process,
       vthread, inputs, MainInv
  <1>28. CASE Rendezvous
    BY <1>28 DEF Rendezvous, main, handler, video, inputs, events, sub, loop, process, vthread,
       MainInv
  <1>29. CASE SubStart
    BY <1>1, <1>29 DEF SubStart, Main, loop, process, handler, video, audio, ffmpeg, vthread, athread,
       inputs
  <1>30. CASE BadSubout
    BY <1>30 DEF BadSubout, MainOnly, Main, loop, process, handler, video, audio, ffmpeg, events,
       sub, vthread, athread, inputs, MainInv
  <1>31. CASE UNCHANGED vars
    BY <1>1, <1>31 DEF vars, loop, process, main, handler, vthread, video, athread, audio,
       inputs, ffmpeg, events, sub
  <1> QED
    BY <1>2, <1>3, <1>4, <1>5, <1>6, <1>7, <1>8, <1>9, <1>10, <1>11, <1>12, <1>13, <1>14, <1>15,
       <1>16, <1>17, <1>18, <1>19, <1>20, <1>21, <1>22, <1>23, <1>24, <1>25, <1>26, <1>27,
       <1>28, <1>29, <1>30, <1>31 DEF Next, MainStep, VideoRUN, AudioRUN, Encode

\* No step loses a frame on its way, and none hides that a thread was stopped.
LEMMA VideoStep ==
    ASSUME TypeOK, MainInv, VideoInv, [Next]_vars
    PROVE  VideoInv'
  <1>1. CASE UNCHANGED <<hpc, frames, vgot, pipe, vbuf, videoBuffers, vpc, sigpipe, vKill,
     rawdata_out>>
    BY <1>1 DEF VideoInv
  <1>2. CASE StartAudio \/ Signals \/ InitFails \/ InitSuccess \/ Iterate \/ PushAudio
    BY <1>1, <1>2 DEF StartAudio, Main, loop, process, handler, video, ffmpeg, events, sub, vthread,
       inputs, Signals, audio, athread, InitFails, InitSuccess, send_event, Iterate, Mix,
       PushAudio
  <1>3. CASE ReadFailure \/ Return \/ ExitAudio \/ ExitVideo \/ Join \/ Close \/ Wait \/
     ExitProcess
    BY <1>1, <1>3 DEF ReadFailure, Main, send_event, sub, loop, handler, video, audio, ffmpeg,
       vthread, athread, inputs, Return, events, sub, ExitAudio, process, ExitVideo, Join, MainOnly,
       Close, Wait, ExitProcess
  <1>4. CASE KilledEarly \/ HandlerExit
    BY <1>1, <1>4 DEF KilledEarly, loop, handler, video, audio, ffmpeg, events, sub, vthread,
       athread, inputs, HandlerExit, HandlerEnds
  <1>5. CASE AudioTop \/ AudioCheck \/ AudioPop \/ AudioMissed \/ AudioWrite \/ AudioKilled
    BY <1>1, <1>5 DEF AudioTop, AudioAt, AudioGoto, main, handler, video, ffmpeg, events, sub, loop,
       process, vthread, inputs, AudioCheck, AudioClose, AudioPop, AudioMissed, AudioWrite,
       WriteFifo, AudioKilled
  <1>6. CASE SubWrite \/ Probe \/ Rendezvous \/ ReadAudio \/ Finish \/ Crash \/ SubPopen \/
     SubEnd
    BY <1>1, <1>6 DEF SubWrite, send_event, main, handler, video, audio, ffmpeg, loop, process, vthread,
       athread, inputs, Probe, events, sub, Rendezvous, ReadAudio, Finish, Crash, SubPopen, SubEnd
  <1>7. CASE PushVideo
    <2>1. hpc = "none" /\ mpc \in {"video_push", "audio_push"} /\ frames' = Append(frames,
       Video(num)) /\ videoBuffers' = Append(videoBuffers, Video(num))
      BY <1>7 DEF PushVideo, Mix, Main
    <2>2. UNCHANGED <<vgot, pipe, vbuf, hpc, vpc, sigpipe, vKill, rawdata_out>>
      BY <1>7 DEF PushVideo, Mix, process, handler, vthread, audio, ffmpeg, events, sub, Main,
         athread, inputs
    <2>3. vgot \in Seq(Items) /\ pipe \in Seq(Items) /\ vbuf \in Seq(Items) /\ videoBuffers \in
       Seq(Items) /\ num \in 0 .. NumFrames
      BY DEF TypeOK
    <2>4. Video(num) \in Items
      BY <2>1, <2>3, MainOutputAssumption DEF MainInv, Items, Video, Audio
    <2>5. ((vgot \o pipe) \o vbuf) \in Seq(Items)
      BY <2>3, CatFacts
    <2>6. ((vgot \o pipe) \o vbuf) \o Append(videoBuffers, Video(num)) = Append(((vgot \o pipe)
       \o vbuf) \o videoBuffers, Video(num))
      BY <2>3, <2>4, <2>5, PushEnd
    <2>7. frames = ((vgot \o pipe) \o vbuf) \o videoBuffers
      BY <2>1 DEF VideoInv
    <2>8. frames' = (((vgot \o pipe) \o vbuf) \o videoBuffers)'
      BY <2>1, <2>2, <2>6, <2>7
    <2> QED
      BY <2>1, <2>2, <2>8 DEF VideoInv
  <1>8. CASE PushRawAudio
    <2>1. hpc = "none" /\ mpc \in {"video_push", "audio_push"} /\ frames' = Append(frames,
       Audio(num)) /\ videoBuffers' = Append(videoBuffers, Audio(num))
      BY <1>8 DEF PushRawAudio, Mix, Main
    <2>2. UNCHANGED <<vgot, pipe, vbuf, hpc, vpc, sigpipe, vKill, rawdata_out>>
      BY <1>8 DEF PushRawAudio, Main, process, handler, vthread, audio, ffmpeg, events, sub, athread,
         inputs
    <2>3. vgot \in Seq(Items) /\ pipe \in Seq(Items) /\ vbuf \in Seq(Items) /\ videoBuffers \in
       Seq(Items) /\ num \in 0 .. NumFrames
      BY DEF TypeOK
    <2>4. Audio(num) \in Items
      BY <2>1, <2>3, MainOutputAssumption DEF MainInv, Items, Video, Audio
    <2>5. ((vgot \o pipe) \o vbuf) \in Seq(Items)
      BY <2>3, CatFacts
    <2>6. ((vgot \o pipe) \o vbuf) \o Append(videoBuffers, Audio(num)) = Append(((vgot \o pipe)
       \o vbuf) \o videoBuffers, Audio(num))
      BY <2>3, <2>4, <2>5, PushEnd
    <2>7. frames = ((vgot \o pipe) \o vbuf) \o videoBuffers
      BY <2>1 DEF VideoInv
    <2>8. frames' = (((vgot \o pipe) \o vbuf) \o videoBuffers)'
      BY <2>1, <2>2, <2>6, <2>7
    <2> QED
      BY <2>1, <2>2, <2>8 DEF VideoInv
  <1>9. CASE SigHandler
    <2>1. /\ hpc = "none" /\ hpc' # "none"
          /\ hpc' = "video" => UNCHANGED videoBuffers
          /\ hpc' \in {"none", "video"} => hpc' = "video"
      BY <1>9 DEF SigHandler, Blocked
    <2>2. UNCHANGED <<frames, vgot, pipe, vbuf, vpc, sigpipe, rawdata_out>>
      BY <1>9 DEF SigHandler, main, ffmpeg, loop, inputs
    <2> QED
      BY <2>1, <2>2 DEF VideoInv
  <1>10. CASE VideoTop
    BY <1>10 DEF VideoTop, VideoAt, VideoGoto, main, handler, audio, ffmpeg, events, sub, loop,
       process, athread, inputs, VideoInv
  <1>11. CASE VideoPop
    <2>1. vgot \in Seq(Items) /\ pipe \in Seq(Items) /\ vbuf \in Seq(Items) /\ videoBuffers \in
       Seq(Items)
      BY DEF TypeOK
    <2>2. vpc = "pop" /\ vbuf = << >>
      BY <1>11 DEF VideoPop, VideoAt, VideoInv
    <2>3. UNCHANGED <<frames, vgot, pipe, hpc, sigpipe, vKill, rawdata_out>>
      BY <1>11 DEF VideoPop, VideoAt, main, handler, audio, ffmpeg, events, sub, loop, process,
         athread, inputs
    <2>4. CASE videoBuffers = << >>
      <3>1. vpc' = "missed" /\ UNCHANGED <<videoBuffers, vbuf>>
        BY <1>11, <2>4 DEF VideoPop
      <3> QED
        BY <2>2, <2>3, <3>1 DEF VideoInv
    <2>5. CASE videoBuffers # << >>
      <3>1. vpc' = "write" /\ vbuf' = <<Head(videoBuffers)>> /\ videoBuffers' =
         Tail(videoBuffers)
        BY <1>11, <2>5 DEF VideoPop
      <3>2. ((vgot \o pipe) \o <<Head(videoBuffers)>>) \o Tail(videoBuffers) = ((vgot \o pipe)
         \o << >>) \o videoBuffers
        <4>1. (vgot \o pipe) \in Seq(Items)
          BY <2>1, CatFacts
        <4> QED
          BY <2>1, <2>5, <4>1, TakeThrough
      <3>3. Len(vbuf') = 1
        BY <2>1, <2>5, <3>1, PopFacts, OneFacts
      <3>4. hpc' \in {"none", "video"} => frames' = (((vgot \o pipe) \o vbuf) \o videoBuffers)'
        BY <2>2, <2>3, <3>1, <3>2 DEF VideoInv
      <3> QED
        BY <2>2, <2>3, <3>1, <3>3, <3>4 DEF VideoInv
    <2> QED
      BY <2>4, <2>5
  <1>12. CASE VideoMissed
    BY <1>12 DEF VideoMissed, VideoAt, VideoGoto, main, handler, audio, ffmpeg, events, sub, loop,
       process, athread, inputs, VideoInv
  <1>13. CASE VideoWrite
    <2>1. vgot \in Seq(Items) /\ pipe \in Seq(Items) /\ vbuf \in Seq(Items)
      BY DEF TypeOK
    <2>2. vpc' = "top" /\ vbuf' = << >>
      BY <1>13 DEF VideoWrite
    <2>3. UNCHANGED <<hpc, frames, videoBuffers, sigpipe, vKill, rawdata_out>>
      BY <1>13 DEF VideoWrite, main, handler, loop
    <2>4. /\ (vgot \o pipe) \o vbuf = ((vgot \o pipe) \o vbuf)'
          /\ rawdata_out => pipe' = << >>
      <3>1. CASE rawdata_out
        <4>1. vgot' = vgot \o vbuf /\ pipe' = pipe /\ pipe = << >>
          BY <1>13, <3>1 DEF VideoWrite, VideoInv
        <4>2. ((vgot \o vbuf) \o << >>) \o << >> = (vgot \o << >>) \o vbuf
          BY <2>1, WriteThrough
        <4> QED
          BY <2>2, <4>1, <4>2
      <3>2. CASE ~rawdata_out
        <4>1. pipe' = pipe \o vbuf /\ vgot' = vgot
          BY <1>13, <3>2 DEF VideoWrite
        <4>2. (vgot \o (pipe \o vbuf)) \o << >> = (vgot \o pipe) \o vbuf
          BY <2>1, WriteThrough
        <4> QED
          BY <2>2, <3>2, <4>1, <4>2
      <3> QED
        BY <3>1, <3>2
    <2> QED
      BY <2>2, <2>3, <2>4 DEF VideoInv
  <1>14. CASE VideoSigPipe
    BY <1>14 DEF VideoSigPipe, VideoAt, main, audio, ffmpeg, events, sub, loop, process, athread,
       inputs, VideoInv
  <1>15. CASE VideoKilled
    BY <1>15 DEF VideoKilled, VideoGoto, main, handler, audio, ffmpeg, events, sub, loop, process,
       athread, inputs, VideoInv
  <1>16. CASE AudioSigPipe
    BY <1>16 DEF AudioSigPipe, AudioAt, main, video, ffmpeg, events, sub, loop, process, vthread,
       inputs, VideoInv
  <1>17. CASE ReadVideo
    <2>1. pipe # << >> /\ vgot' = Append(vgot, Head(pipe)) /\ pipe' = Tail(pipe)
      BY <1>17 DEF ReadVideo
    <2>2. vgot \in Seq(Items) /\ pipe \in Seq(Items)
      BY DEF TypeOK
    <2>3. vgot' \o pipe' = vgot \o pipe
      BY <2>1, <2>2, PopThrough
    <2>4. UNCHANGED <<hpc, frames, vbuf, videoBuffers, vpc, sigpipe, vKill, rawdata_out>>
      BY <1>17 DEF ReadVideo, main, handler, video, audio, events, sub, loop, process, vthread,
         athread
    <2>5. ~rawdata_out
      BY <2>1 DEF VideoInv
    <2> QED
      BY <2>3, <2>4, <2>5 DEF VideoInv
  <1>18. CASE SubStart
    BY <1>1, <1>18 DEF SubStart, Main, loop, process, handler, video, audio, ffmpeg, vthread, athread,
       inputs
  <1>19. CASE BadSubout
    BY <1>1, <1>19 DEF BadSubout, MainOnly, Main, loop, process, handler, video, audio, ffmpeg, events,
       sub, vthread, athread, inputs
  <1>20. CASE UNCHANGED vars
    BY <1>1, <1>20 DEF vars, loop, process, main, handler, vthread, video, athread, audio,
       inputs, ffmpeg, events, sub
  <1> QED
    BY <1>2, <1>3, <1>4, <1>5, <1>6, <1>7, <1>8, <1>9, <1>10, <1>11, <1>12, <1>13, <1>14, <1>15,
       <1>16, <1>17, <1>18, <1>19, <1>20 DEF Next, MainStep, VideoRUN, AudioRUN, Encode

\* No step loses audio on its way.
LEMMA AudioStep ==
    ASSUME TypeOK, MainInv, AudioInv, [Next]_vars
    PROVE  AudioInv'
  <1>1. CASE UNCHANGED <<hpc, sounds, agot, fifo, abuf, audioBuffers, apc, awriter>>
    BY <1>1 DEF AudioInv
  <1>2. CASE Signals \/ InitFails \/ InitSuccess \/ Iterate \/ PushVideo \/ PushRawAudio
    BY <1>1, <1>2 DEF Signals, Main, loop, handler, video, audio, ffmpeg, events, sub, vthread,
       athread, inputs, InitFails, InitSuccess, send_event, process, Iterate, Mix, PushVideo,
       PushRawAudio
  <1>3. CASE ReadFailure \/ Return \/ ExitAudio \/ ExitVideo \/ Join \/ Close \/ Wait \/
     ExitProcess
    BY <1>1, <1>3 DEF ReadFailure, Main, send_event, sub, loop, handler, video, audio, ffmpeg,
       vthread, athread, inputs, Return, events, sub, ExitAudio, process, ExitVideo, Join, MainOnly,
       Close, Wait, ExitProcess
  <1>4. CASE KilledEarly \/ HandlerExit
    BY <1>1, <1>4 DEF KilledEarly, loop, handler, video, audio, ffmpeg, events, sub, vthread,
       athread, inputs, HandlerExit, HandlerEnds
  <1>5. CASE VideoTop \/ VideoPop \/ VideoMissed \/ VideoWrite \/ VideoSigPipe \/ VideoKilled
    BY <1>1, <1>5 DEF VideoTop, VideoAt, VideoGoto, main, handler, audio, ffmpeg, events, sub, loop,
       process, athread, inputs, VideoPop, VideoMissed, VideoWrite, StartOfStream, send_event,
       VideoSigPipe, VideoKilled
  <1>6. CASE SubWrite \/ Probe \/ ReadVideo \/ Finish \/ Crash \/ SubPopen \/ SubEnd
    BY <1>1, <1>6 DEF SubWrite, send_event, main, handler, video, audio, ffmpeg, loop, process, vthread,
       athread, inputs, Probe, events, sub, ReadVideo, Finish, Crash, SubPopen, SubEnd
  <1>7. CASE StartAudio
    BY <1>7 DEF StartAudio, Main, loop, process, handler, video, ffmpeg, events, sub, vthread,
       inputs, AudioInv, MainInv
  <1>8. CASE PushAudio
    <2>1. hpc = "none" /\ mpc \in {"video_push", "audio_push"} /\ sounds' = Append(sounds,
       Audio(num)) /\ audioBuffers' = Append(audioBuffers, Audio(num))
      BY <1>8 DEF PushAudio, Mix, Main
    <2>2. UNCHANGED <<agot, fifo, abuf, hpc, apc, awriter>>
      BY <1>8 DEF PushAudio, Main, process, handler, video, athread, ffmpeg, events, sub, vthread,
         inputs
    <2>3. agot \in Seq(Items) /\ fifo \in Seq(Items) /\ abuf \in Seq(Items) /\ audioBuffers \in
       Seq(Items) /\ num \in 0 .. NumFrames
      BY DEF TypeOK
    <2>4. Audio(num) \in Items
      BY <2>1, <2>3, MainOutputAssumption DEF MainInv, Items, Video, Audio
    <2>5. ((agot \o fifo) \o abuf) \in Seq(Items)
      BY <2>3, CatFacts
    <2>6. ((agot \o fifo) \o abuf) \o Append(audioBuffers, Audio(num)) = Append(((agot \o fifo)
       \o abuf) \o audioBuffers, Audio(num))
      BY <2>3, <2>4, <2>5, PushEnd, SMTT(30)
    <2>7. sounds = ((agot \o fifo) \o abuf) \o audioBuffers
      BY <2>1 DEF AudioInv
    <2>8. sounds' = (((agot \o fifo) \o abuf) \o audioBuffers)'
      BY <2>1, <2>2, <2>6, <2>7
    <2> QED
      BY <2>1, <2>2, <2>8 DEF AudioInv
  <1>9. CASE SigHandler
    <2>1. /\ hpc = "none" /\ hpc' # "none"
          /\ hpc' = "video" => UNCHANGED audioBuffers
          /\ hpc' \in {"none", "video"} => hpc' = "video"
      BY <1>9 DEF SigHandler, Blocked
    <2>2. UNCHANGED <<sounds, agot, fifo, abuf, apc, awriter>>
      BY <1>9 DEF SigHandler, main, ffmpeg, loop, inputs
    <2> QED
      BY <2>1, <2>2 DEF AudioInv
  <1>10. CASE AudioTop
    BY <1>10 DEF AudioTop, AudioAt, AudioGoto, main, handler, video, ffmpeg, events, sub, loop,
       process, vthread, inputs, AudioInv
  <1>11. CASE AudioCheck
    BY <1>11 DEF AudioCheck, AudioAt, AudioClose, AudioGoto, main, handler, video, ffmpeg,
       events, sub, loop, process, vthread, inputs, AudioInv
  <1>12. CASE AudioPop
    <2>1. agot \in Seq(Items) /\ fifo \in Seq(Items) /\ abuf \in Seq(Items) /\ audioBuffers \in
       Seq(Items)
      BY DEF TypeOK
    <2>2. apc = "pop" /\ abuf = << >>
      BY <1>12 DEF AudioPop, AudioAt, AudioInv
    <2>3. UNCHANGED <<sounds, agot, fifo, hpc, awriter>>
      BY <1>12 DEF AudioPop, AudioAt, main, handler, video, ffmpeg, events, sub, loop, process,
         vthread, inputs
    <2>4. CASE audioBuffers = << >>
      <3>1. apc' = "missed" /\ UNCHANGED <<audioBuffers, abuf>>
        BY <1>12, <2>4 DEF AudioPop
      <3> QED
        BY <2>2, <2>3, <3>1 DEF AudioInv
    <2>5. CASE audioBuffers # << >>
      <3>1. apc' = "write" /\ abuf' = <<Head(audioBuffers)>> /\ audioBuffers' =
         Tail(audioBuffers)
        BY <1>12, <2>5 DEF AudioPop
      <3>2. ((agot \o fifo) \o <<Head(audioBuffers)>>) \o Tail(audioBuffers) = ((agot \o fifo)
         \o << >>) \o audioBuffers
        <4>1. (agot \o fifo) \in Seq(Items)
          BY <2>1, CatFacts
        <4> QED
          BY <2>1, <2>5, <4>1, TakeThrough
      <3>3. Len(abuf') = 1
        BY <2>1, <2>5, <3>1, PopFacts, OneFacts
      <3>4. hpc' \in {"none", "video"} => sounds' = (((agot \o fifo) \o abuf) \o audioBuffers)'
        BY <2>2, <2>3, <3>1, <3>2 DEF AudioInv
      <3> QED
        BY <2>2, <2>3, <3>1, <3>3, <3>4 DEF AudioInv
    <2> QED
      BY <2>4, <2>5
  <1>13. CASE AudioMissed
    BY <1>13 DEF AudioMissed, AudioAt, AudioClose, AudioGoto, main, handler, video, ffmpeg,
       events, sub, loop, process, vthread, inputs, AudioInv
  <1>14. CASE AudioWrite
    <2>1. agot \in Seq(Items) /\ fifo \in Seq(Items) /\ abuf \in Seq(Items)
      BY DEF TypeOK
    <2>2. apc = "write" /\ apc' = "check" /\ abuf' = << >> /\ fifo' = fifo \o abuf
      BY <1>14 DEF AudioWrite, WriteFifo, AudioAt
    <2>3. UNCHANGED <<hpc, sounds, agot, audioBuffers, awriter>>
      BY <1>14 DEF AudioWrite, WriteFifo, main, handler, loop
    <2>4. (agot \o (fifo \o abuf)) \o << >> = (agot \o fifo) \o abuf
      BY <2>1, WriteThrough
    <2> QED
      BY <2>2, <2>3, <2>4 DEF AudioInv
  <1>15. CASE AudioSigPipe
    BY <1>15 DEF AudioSigPipe, AudioAt, main, video, ffmpeg, events, sub, loop, process, vthread,
       inputs, AudioInv
  <1>16. CASE AudioKilled
    BY <1>16 DEF AudioKilled, AudioGoto, main, handler, video, ffmpeg, events, sub, loop, process,
       vthread, inputs, AudioInv
  <1>17. CASE Rendezvous
    BY <1>17 DEF Rendezvous, main, handler, video, inputs, events, sub, loop, process, vthread,
       AudioInv
  <1>18. CASE ReadAudio
    <2>1. fifo # << >> /\ agot' = Append(agot, Head(fifo)) /\ fifo' = Tail(fifo)
      BY <1>18 DEF ReadAudio
    <2>2. agot \in Seq(Items) /\ fifo \in Seq(Items)
      BY DEF TypeOK
    <2>3. agot' \o fifo' = agot \o fifo
      BY <2>1, <2>2, PopThrough
    <2>4. UNCHANGED <<hpc, sounds, abuf, audioBuffers, apc, awriter>>
      BY <1>18 DEF ReadAudio, main, handler, video, audio, events, sub, loop, process, vthread,
         athread
    <2> QED
      BY <2>3, <2>4 DEF AudioInv
  <1>19. CASE SubStart
    BY <1>1, <1>19 DEF SubStart, Main, loop, process, handler, video, audio, ffmpeg, vthread, athread,
       inputs
  <1>20. CASE BadSubout
    BY <1>1, <1>20 DEF BadSubout, MainOnly, Main, loop, process, handler, video, audio, ffmpeg, events,
       sub, vthread, athread, inputs
  <1>21. CASE UNCHANGED vars
    BY <1>1, <1>21 DEF vars, loop, process, main, handler, vthread, video, athread, audio,
       inputs, ffmpeg, events, sub
  <1> QED
    BY <1>2, <1>3, <1>4, <1>5, <1>6, <1>7, <1>8, <1>9, <1>10, <1>11, <1>12, <1>13, <1>14, <1>15,
       <1>16, <1>17, <1>18, <1>19, <1>20, <1>21 DEF Next, MainStep, VideoRUN, AudioRUN, Encode

\* No step hides the end of ffmpeg, or ends the program before its time.
LEMMA EndStep ==
    ASSUME TypeOK, EndInv, [Next]_vars
    PROVE  EndInv'
  <1>1. CASE UNCHANGED <<mpc, vpc, audio_fifo, rawdata_out, ended, fpc, crashed, pipe, fifo,
     awriter, hpc, sigpipe>>
    BY <1>1 DEF EndInv, Running
  <1>2. CASE AudioTop \/ AudioPop \/ AudioKilled
    BY <1>1, <1>2 DEF AudioTop, AudioAt, AudioGoto, main, handler, video, ffmpeg, events, sub, loop,
       process, vthread, inputs, AudioPop, AudioKilled
  <1>3. CASE SubWrite \/ SubPopen \/ SubEnd
    BY <1>1, <1>3 DEF SubWrite, send_event, main, handler, video, audio, ffmpeg, loop, process, vthread,
       athread, inputs, SubPopen, events, sub, SubEnd
  <1>4. CASE StartAudio
    BY <1>4 DEF StartAudio, Main, loop, process, handler, video, ffmpeg, events, sub, Running,
       vthread, inputs, EndInv
  <1>5. CASE Signals
    BY <1>5 DEF Signals, Main, loop, handler, video, audio, ffmpeg, events, sub, Running, vthread,
       athread, inputs, EndInv
  <1>6. CASE InitFails
    BY <1>6 DEF InitFails, Main, loop, handler, video, audio, ffmpeg, events, sub, Running, vthread,
       athread, inputs, EndInv
  <1>7. CASE InitSuccess
    BY <1>7 DEF InitSuccess, Main, send_event, sub, loop, process, handler, video, audio, ffmpeg,
       Running, vthread, athread, inputs, EndInv
  <1>8. CASE Iterate
    BY <1>8 DEF Iterate, Main, Mix, process, handler, video, audio, ffmpeg, events, sub, Running,
       vthread, athread, inputs, EndInv
  <1>9. CASE PushVideo
    BY <1>9 DEF PushVideo, Mix, process, handler, vthread, audio, ffmpeg, events, sub, Main, athread,
       inputs, Running, EndInv
  <1>10. CASE PushAudio
    BY <1>10 DEF PushAudio, Main, process, handler, video, athread, ffmpeg, events, sub, Running,
       vthread, inputs, EndInv
  <1>11. CASE PushRawAudio
    BY <1>11 DEF PushRawAudio, Main, process, handler, vthread, audio, ffmpeg, events, sub, Running,
       athread, inputs, EndInv
  <1>12. CASE ReadFailure
    BY <1>12 DEF ReadFailure, Main, send_event, sub, loop, handler, video, audio, ffmpeg, Running,
       vthread, athread, inputs, EndInv
  <1>13. CASE Return
    BY <1>13 DEF Return, Main, loop, handler, video, audio, ffmpeg, events, sub, Running, vthread,
       athread, inputs, EndInv
  <1>14. CASE ExitAudio
    BY <1>14 DEF ExitAudio, Main, loop, process, handler, video, athread, ffmpeg, events, sub,
       Running, vthread, inputs, EndInv
  <1>15. CASE ExitVideo
    BY <1>15 DEF ExitVideo, Main, loop, process, handler, vthread, audio, ffmpeg, events, sub,
       Running, athread, inputs, EndInv
  <1>16. CASE Join
    BY <1>16 DEF Join, MainOnly, Main, loop, process, handler, video, audio, ffmpeg, events, sub,
       Running, vthread, athread, inputs, EndInv
  <1>17. CASE Close
    BY <1>17 DEF Close, MainOnly, Main, loop, process, handler, video, audio, ffmpeg, events, sub,
       Running, vthread, athread, inputs, EndInv
  <1>18. CASE Wait
    BY <1>18 DEF Wait, MainOnly, Main, loop, process, handler, video, audio, ffmpeg, events, sub,
       Running, vthread, athread, inputs, EndInv
  <1>19. CASE ExitProcess
    BY <1>19 DEF ExitProcess, Main, loop, handler, video, audio, ffmpeg, events, sub, Running,
       vthread, athread, inputs, EndInv
  <1>20. CASE KilledEarly
    BY <1>20 DEF KilledEarly, Running, loop, handler, video, audio, ffmpeg, events, sub, vthread,
       athread, inputs, EndInv
  <1>21. CASE SigHandler
    BY <1>21 DEF SigHandler, Running, Blocked, main, ffmpeg, events, sub, loop, process, inputs,
       EndInv
  <1>22. CASE HandlerExit
    BY <1>22 DEF HandlerExit, HandlerEnds, Running, loop, handler, video, audio, ffmpeg, events, sub,
       vthread, athread, inputs, EndInv
  <1>23. CASE VideoTop
    BY <1>23 DEF VideoTop, VideoAt, VideoGoto, Running, main, handler, audio, ffmpeg, events, sub,
       loop, process, athread, inputs, EndInv
  <1>24. CASE VideoPop
    BY <1>24 DEF VideoPop, VideoAt, main, handler, audio, ffmpeg, events, sub, Running, loop,
       process, athread, inputs, EndInv
  <1>25. CASE VideoMissed
    BY <1>25 DEF VideoMissed, VideoAt, VideoGoto, Running, main, handler, audio, ffmpeg, events, sub,
       loop, process, athread, inputs, EndInv
  <1>26. CASE VideoWrite
    BY <1>26 DEF VideoWrite, VideoAt, StartOfStream, main, handler, audio, Running, send_event,
       events, sub, loop, process, athread, EndInv
  <1>27. CASE VideoSigPipe
    BY <1>27 DEF VideoSigPipe, VideoAt, main, audio, ffmpeg, events, sub, Running, loop, process,
       athread, inputs, EndInv
  <1>28. CASE VideoKilled
    BY <1>28 DEF VideoKilled, Running, VideoGoto, main, handler, audio, ffmpeg, events, sub, loop,
       process, athread, inputs, EndInv
  <1>29. CASE AudioCheck
    BY <1>29 DEF AudioCheck, AudioAt, AudioClose, AudioGoto, Running, main, handler, video,
       ffmpeg, events, sub, loop, process, vthread, inputs, EndInv
  <1>30. CASE AudioMissed
    BY <1>30 DEF AudioMissed, AudioAt, AudioClose, AudioGoto, Running, main, handler, video,
       ffmpeg, events, sub, loop, process, vthread, inputs, EndInv
  <1>31. CASE AudioWrite
    BY <1>31 DEF AudioWrite, WriteFifo, AudioAt, main, handler, video, events, sub, Running, loop,
       process, vthread, EndInv
  <1>32. CASE AudioSigPipe
    BY <1>32 DEF AudioSigPipe, AudioAt, main, video, ffmpeg, events, sub, Running, loop, process,
       vthread, inputs, EndInv
  <1>33. CASE Probe
    BY <1>33 DEF Probe, PipeClosed, main, handler, video, audio, inputs, events, sub, Running, loop,
       process, vthread, athread, EndInv
  <1>34. CASE Rendezvous
    BY <1>34 DEF Rendezvous, Running, main, handler, video, inputs, events, sub, loop, process,
       vthread, EndInv
  <1>35. CASE ReadVideo
    <2>1. fpc = "encode"
      BY <1>35 DEF ReadVideo
    <2>2. UNCHANGED <<mpc, vpc, audio_fifo, rawdata_out, ended, fpc, crashed, fifo, awriter,
       hpc, sigpipe>>
      BY <1>35 DEF ReadVideo, main, handler, video, audio, events, sub, loop, process, vthread,
         athread
    <2> QED
      BY <2>1, <2>2 DEF EndInv, Running
  <1>36. CASE ReadAudio
    <2>1. fpc = "encode"
      BY <1>36 DEF ReadAudio
    <2>2. UNCHANGED <<mpc, vpc, audio_fifo, rawdata_out, ended, fpc, crashed, pipe, awriter,
       hpc, sigpipe>>
      BY <1>36 DEF ReadAudio, main, handler, video, audio, events, sub, loop, process, vthread,
         athread
    <2> QED
      BY <2>1, <2>2 DEF EndInv, Running
  <1>37. CASE Finish
    BY <1>37 DEF Finish, PipeClosed, FifoClosed, main, handler, video, audio, inputs, events, sub,
       Running, loop, process, vthread, athread, EndInv
  <1>38. CASE Crash
    <2>1. crashed' /\ fpc' = "ended"
      BY <1>38 DEF Crash
    <2>2. UNCHANGED <<mpc, vpc, audio_fifo, rawdata_out, ended, pipe, fifo, awriter, hpc,
       sigpipe>>
      BY <1>38 DEF Crash, main, handler, video, audio, inputs, events, sub, loop, process, vthread,
         athread
    <2> QED
      BY <2>1, <2>2 DEF EndInv, Running
  <1>39. CASE SubStart
    BY <1>1, <1>39 DEF SubStart, Main, loop, process, handler, video, audio, ffmpeg, vthread, athread,
       inputs
  <1>40. CASE BadSubout
    BY <1>40 DEF BadSubout, MainOnly, Main, loop, process, handler, video, audio, ffmpeg, events,
       sub, vthread, athread, inputs, Running, EndInv
  <1>41. CASE UNCHANGED vars
    BY <1>1, <1>41 DEF vars, loop, process, main, handler, vthread, video, athread, audio,
       inputs, ffmpeg, events, sub
  <1> QED
    BY <1>2, <1>3, <1>4, <1>5, <1>6, <1>7, <1>8, <1>9, <1>10, <1>11, <1>12, <1>13, <1>14, <1>15,
       <1>16, <1>17, <1>18, <1>19, <1>20, <1>21, <1>22, <1>23, <1>24, <1>25, <1>26, <1>27,
       <1>28, <1>29, <1>30, <1>31, <1>32, <1>33, <1>34, <1>35, <1>36, <1>37, <1>38, <1>39, <1>40, <1>41 DEF
       Next, MainStep, VideoRUN, AudioRUN, Encode

\* Every way out but the return on a bad SUBOUT removes the fifo first.
LEMMA FifoStep ==
    ASSUME TypeOK, EndInv, FifoRemoved, [Next]_vars
    PROVE  FifoRemoved'
  <1>1. CASE UNCHANGED <<ended, audio_fifo, rawdata_out>>
    BY <1>1 DEF FifoRemoved
  <1>2. CASE StartAudio \/ Signals \/ InitSuccess \/ Iterate \/ PushVideo \/ PushAudio \/
     PushRawAudio
    BY <1>1, <1>2 DEF StartAudio, Main, loop, process, handler, video, ffmpeg, events, sub, vthread,
       inputs, Signals, audio, athread, InitSuccess, send_event, Iterate, Mix, PushVideo,
       PushAudio, PushRawAudio
  <1>3. CASE ExitAudio \/ ExitVideo \/ Join \/ Close \/ Wait
    BY <1>1, <1>3 DEF ExitAudio, Main, loop, process, handler, video, athread, ffmpeg, events, sub,
       vthread, inputs, ExitVideo, audio, Join, MainOnly, Close, Wait
  <1>4. CASE SigHandler
    BY <1>1, <1>4 DEF SigHandler, main, ffmpeg, events, sub, loop, process, inputs
  <1>5. CASE VideoTop \/ VideoPop \/ VideoMissed \/ VideoWrite \/ VideoSigPipe \/ VideoKilled
    BY <1>1, <1>5 DEF VideoTop, VideoAt, VideoGoto, main, handler, audio, ffmpeg, events, sub, loop,
       process, athread, inputs, VideoPop, VideoMissed, VideoWrite, StartOfStream, send_event,
       VideoSigPipe, VideoKilled
  <1>6. CASE AudioTop \/ AudioCheck \/ AudioPop \/ AudioMissed \/ AudioWrite \/ AudioSigPipe \/
     AudioKilled
    BY <1>1, <1>6 DEF AudioTop, AudioAt, AudioGoto, main, handler, video, ffmpeg, events, sub, loop,
       process, vthread, inputs, AudioCheck, AudioClose, AudioPop, AudioMissed, AudioWrite,
       WriteFifo, AudioSigPipe, AudioKilled
  <1>7. CASE SubWrite \/ Probe \/ Rendezvous \/ ReadVideo \/ ReadAudio \/ Finish \/ Crash \/
     SubPopen \/ SubEnd
    BY <1>1, <1>7 DEF SubWrite, send_event, main, handler, video, audio, ffmpeg, loop, process, vthread,
       athread, inputs, Probe, events, sub, Rendezvous, ReadVideo, ReadAudio, Finish, Crash,
       SubPopen, SubEnd
  <1>8. CASE InitFails
    BY <1>8 DEF InitFails, Main, loop, handler, video, audio, ffmpeg, events, sub, Running, vthread,
       athread, inputs, FifoRemoved
  <1>9. CASE ReadFailure
    BY <1>9 DEF ReadFailure, Main, send_event, sub, loop, handler, video, audio, ffmpeg, Running,
       vthread, athread, inputs, FifoRemoved
  <1>10. CASE Return
    BY <1>10 DEF Return, Main, loop, handler, video, audio, ffmpeg, events, sub, Running, vthread,
       athread, inputs, FifoRemoved, EndInv
  <1>11. CASE ExitProcess
    BY <1>11 DEF ExitProcess, Main, loop, handler, video, audio, ffmpeg, events, sub, Running,
       vthread, athread, inputs, FifoRemoved
  <1>12. CASE KilledEarly
    BY <1>12 DEF KilledEarly, Running, loop, handler, video, audio, ffmpeg, events, sub, vthread,
       athread, inputs, FifoRemoved
  <1>13. CASE HandlerExit
    BY <1>13 DEF HandlerExit, HandlerEnds, Running, loop, handler, video, audio, ffmpeg, events, sub,
       vthread, athread, inputs, FifoRemoved
  <1>14. CASE SubStart
    BY <1>1, <1>14 DEF SubStart, Main, loop, process, handler, video, audio, ffmpeg, vthread, athread,
       inputs
  <1>15. CASE BadSubout
    BY <1>1, <1>15 DEF BadSubout, MainOnly, Main, loop, process, handler, video, audio, ffmpeg, events,
       sub, vthread, athread, inputs
  <1>16. CASE UNCHANGED vars
    BY <1>1, <1>16 DEF vars, loop, process, main, handler, vthread, video, athread, audio,
       inputs, ffmpeg, events, sub
  <1> QED
    BY <1>2, <1>3, <1>4, <1>5, <1>6, <1>7, <1>8, <1>9, <1>10, <1>11, <1>12, <1>13, <1>14, <1>15, <1>16 DEF
       Next, MainStep, VideoRUN, AudioRUN, Encode

\* INIT_SUCCESS is sent before anything is queued.
LEMMA FirstStep ==
    ASSUME TypeOK, VideoInv, FirstInv, [Next]_vars
    PROVE  FirstInv'
  <1>1. CASE UNCHANGED <<mpc, sent, videoBuffers, vbuf, substream>>
    BY <1>1 DEF FirstInv
  <1>2. CASE KilledEarly \/ HandlerExit
    BY <1>1, <1>2 DEF KilledEarly, loop, handler, video, audio, ffmpeg, events, sub, vthread,
       athread, inputs, HandlerExit, HandlerEnds
  <1>3. CASE VideoTop \/ VideoMissed \/ VideoSigPipe \/ VideoKilled
    BY <1>1, <1>3 DEF VideoTop, VideoAt, VideoGoto, main, handler, audio, ffmpeg, events, sub, loop,
       process, athread, inputs, VideoMissed, VideoSigPipe, VideoKilled
  <1>4. CASE AudioTop \/ AudioCheck \/ AudioPop \/ AudioMissed \/ AudioWrite \/ AudioSigPipe \/
     AudioKilled
    BY <1>1, <1>4 DEF AudioTop, AudioAt, AudioGoto, main, handler, video, ffmpeg, events, sub, loop,
       process, vthread, inputs, AudioCheck, AudioClose, AudioPop, AudioMissed, AudioWrite,
       WriteFifo, AudioSigPipe, AudioKilled
  <1>5. CASE Probe \/ Rendezvous \/ ReadVideo \/ ReadAudio \/ Finish \/ Crash \/ SubPopen \/
     SubEnd
    BY <1>1, <1>5 DEF Probe, main, handler, video, audio, inputs, events, sub, loop, process,
       vthread, athread, Rendezvous, ReadVideo, ReadAudio, Finish, Crash, SubPopen, SubEnd
  <1>6. CASE StartAudio
    BY <1>6 DEF StartAudio, Main, loop, process, handler, video, ffmpeg, events, sub, Running,
       vthread, inputs, FirstInv
  <1>7. CASE Signals
    BY <1>7 DEF Signals, Main, loop, handler, video, audio, ffmpeg, events, sub, Running, vthread,
       athread, inputs, FirstInv
  <1>8. CASE InitFails
    BY <1>8 DEF InitFails, Main, loop, handler, video, audio, ffmpeg, events, sub, Running, vthread,
       athread, inputs, FirstInv
  <1>9. CASE InitSuccess
    <2>1. sent \in Seq(Events) /\ "INIT_SUCCESS" \in Events
      BY DEF TypeOK, Events
    <2>2. sent' = Append(sent, "INIT_SUCCESS") /\ mpc' \notin {"start", "signals", "init"}
      BY <1>9 DEF InitSuccess, send_event, Main
    <2>3. sent' # << >>
      BY <2>1, <2>2, PushFacts, EmptyFacts, SMTT(30)
    <2> QED
      BY <2>2, <2>3 DEF FirstInv
  <1>10. CASE Iterate
    <2>1. mpc = "loop" /\ mpc' \notin {"start", "signals", "init"} /\ sent' = sent
      BY <1>10 DEF Iterate, Main, Mix
    <2> QED
      BY <2>1 DEF FirstInv
  <1>11. CASE PushVideo
    BY <1>11 DEF PushVideo, Mix, process, handler, vthread, audio, ffmpeg, events, sub, Main,
       athread, inputs, Running, FirstInv
  <1>12. CASE PushAudio
    BY <1>12 DEF PushAudio, Main, process, handler, video, athread, ffmpeg, events, sub, Running,
       vthread, inputs, FirstInv
  <1>13. CASE PushRawAudio
    BY <1>13 DEF PushRawAudio, Main, process, handler, vthread, audio, ffmpeg, events, sub, Running,
       athread, inputs, FirstInv
  <1>14. CASE ReadFailure
    <2>1. sent \in Seq(Events) /\ "READ_FAILURE" \in Events
      BY DEF TypeOK, Events
    <2>2. sent' = Append(sent, "READ_FAILURE") /\ mpc' \notin {"start", "signals", "init"}
      BY <1>14 DEF ReadFailure, send_event, Main
    <2>3. sent' # << >>
      BY <2>1, <2>2, PushFacts, EmptyFacts, SMTT(30)
    <2> QED
      BY <2>2, <2>3 DEF FirstInv
  <1>15. CASE Return
    BY <1>15 DEF Return, Main, loop, handler, video, audio, ffmpeg, events, sub, Running, vthread,
       athread, inputs, FirstInv
  <1>16. CASE ExitAudio
    BY <1>16 DEF ExitAudio, Main, loop, process, handler, video, athread, ffmpeg, events, sub,
       Running, vthread, inputs, FirstInv
  <1>17. CASE ExitVideo
    BY <1>17 DEF ExitVideo, Main, loop, process, handler, vthread, audio, ffmpeg, events, sub,
       Running, athread, inputs, FirstInv
  <1>18. CASE Join
    BY <1>18 DEF Join, MainOnly, Main, loop, process, handler, video, audio, ffmpeg, events, sub,
       Running, vthread, athread, inputs, FirstInv
  <1>19. CASE Close
    BY <1>19 DEF Close, MainOnly, Main, loop, process, handler, video, audio, ffmpeg, events, sub,
       Running, vthread, athread, inputs, FirstInv
  <1>20. CASE Wait
    BY <1>20 DEF Wait, MainOnly, Main, loop, process, handler, video, audio, ffmpeg, events, sub,
       Running, vthread, athread, inputs, FirstInv
  <1>21. CASE ExitProcess
    BY <1>21 DEF ExitProcess, Main, loop, handler, video, audio, ffmpeg, events, sub, Running,
       vthread, athread, inputs, FirstInv
  <1>22. CASE SigHandler
    BY <1>22 DEF SigHandler, Running, Blocked, main, ffmpeg, events, sub, loop, process, inputs,
       FirstInv
  <1>23. CASE VideoPop
    BY <1>23 DEF VideoPop, VideoAt, main, handler, audio, ffmpeg, events, sub, Running, loop,
       process, athread, inputs, FirstInv
  <1>24. CASE VideoWrite
    <2>1. sent \in Seq(Events) /\ "START_OF_STREAM" \in Events
      BY DEF TypeOK, Events
    <2>2. vpc = "write" /\ UNCHANGED mpc
      BY <1>24 DEF VideoWrite, VideoAt, main
    <2>3. vbuf # << >>
      BY <2>2, EmptyFacts DEF VideoInv
    <2>4. sent # << >> /\ mpc \notin {"start", "signals", "init"}
      BY <2>3 DEF FirstInv
    <2>5. sent' = sent \/ sent' = Append(sent, "START_OF_STREAM")
      BY <1>24 DEF VideoWrite, StartOfStream, send_event, events
    <2>6. sent' # << >>
      BY <2>1, <2>4, <2>5, PushFacts, EmptyFacts
    <2> QED
      BY <2>2, <2>4, <2>6 DEF FirstInv
  <1>25. CASE SubWrite
    <2>1. sent \in Seq(Events) /\ "START_OF_STREAM" \in Events
      BY DEF TypeOK, Events
    <2>2. substream = "fed" /\ UNCHANGED mpc /\ sent' = Append(sent, "START_OF_STREAM")
      BY <1>25 DEF SubWrite, send_event, main
    <2>3. mpc \notin {"start", "signals", "init"}
      BY <2>2 DEF FirstInv
    <2>4. sent' # << >>
      BY <2>1, <2>2, PushFacts, EmptyFacts, SMTT(30)
    <2> QED
      BY <2>2, <2>3, <2>4 DEF FirstInv
  <1>26. CASE SubStart
    <2>1. UNCHANGED <<mpc, sent, videoBuffers, vbuf>>
      BY <1>26 DEF SubStart, Main, video, vthread
    <2>2. substream \in {"off", "started"} => substream' = "started"
      BY <1>26 DEF SubStart
    <2> QED
      BY <2>1, <2>2 DEF FirstInv
  <1>27. CASE BadSubout
    <2>1. mpc = "loop" /\ mpc' = "badcmd" /\ sent' = sent
      BY <1>27 DEF BadSubout, MainOnly, Main, events
    <2> QED
      BY <2>1 DEF FirstInv
  <1>28. CASE UNCHANGED vars
    BY <1>1, <1>28 DEF vars, loop, process, main, handler, vthread, video, athread, audio,
       inputs, ffmpeg, events, sub
  <1> QED
    BY <1>2, <1>3, <1>4, <1>5, <1>6, <1>7, <1>8, <1>9, <1>10, <1>11, <1>12, <1>13, <1>14, <1>15,
       <1>16, <1>17, <1>18, <1>19, <1>20, <1>21, <1>22, <1>23, <1>24, <1>25, <1>26, <1>27, <1>28 DEF Next,
       MainStep, VideoRUN, AudioRUN, Encode

\* One more START_OF_STREAM leaves the order of the other events as it is.
LEMMA OneMoreStart ==
    ASSUME EventInv, sent \in Seq(Events), sent # << >>,
           sent' = Append(sent, "START_OF_STREAM"), mpc' = mpc,
           sendnum' = 1 => (vgot \o pipe)' # << >>
    PROVE  EventInv'
  <1>1. "START_OF_STREAM" \in Events
    BY DEF Events
  <1>2. /\ Len(sent) \in Nat \ {0} /\ DOMAIN sent = 1 .. Len(sent)
        /\ DOMAIN sent' = 1 .. Len(sent) + 1
        /\ \A i \in 1 .. Len(sent) : sent'[i] = sent[i]
        /\ sent'[Len(sent) + 1] = "START_OF_STREAM"
    BY <1>1, PushFacts, PopFacts
  <1>3. \A i \in DOMAIN sent' : /\ sent'[i] = "INIT_SUCCESS" <=> i = 1
                               /\ sent'[i] = "READ_FAILURE" => mpc' = "return"
    BY <1>2 DEF EventInv
  <1>4. \A i, j \in DOMAIN sent' :
           sent'[i] = sent'[j] => i = j \/ sent'[i] = "START_OF_STREAM"
    BY <1>2 DEF EventInv
  <1> QED
    BY <1>3, <1>4 DEF EventInv

\* Every step keeps the order of the events.
LEMMA EventStep ==
    ASSUME TypeOK, VideoInv, FirstInv, EventInv, [Next]_vars
    PROVE  EventInv'
  <1>1. CASE UNCHANGED <<sent, sendnum, vgot, pipe>> /\ (mpc = "return" => mpc' =
     "return")
    BY <1>1 DEF EventInv
  <1>2. CASE StartAudio \/ Signals \/ InitFails \/ Iterate \/ PushVideo \/ PushAudio \/
     PushRawAudio
    BY <1>1, <1>2 DEF StartAudio, Main, loop, process, handler, video, ffmpeg, events, sub, vthread,
       inputs, Signals, audio, athread, InitFails, Iterate, Mix, PushVideo, PushAudio,
       PushRawAudio
  <1>3. CASE Return \/ ExitAudio \/ ExitVideo \/ Join \/ Close \/ Wait \/ ExitProcess
    BY <1>1, <1>3 DEF Return, Main, loop, handler, video, audio, ffmpeg, events, sub, vthread,
       athread, inputs, ExitAudio, process, ExitVideo, Join, MainOnly, Close, Wait, ExitProcess
  <1>4. CASE KilledEarly \/ SigHandler \/ HandlerExit
    BY <1>1, <1>4 DEF KilledEarly, loop, handler, video, audio, ffmpeg, events, sub, vthread,
       athread, inputs, SigHandler, main, process, HandlerExit, HandlerEnds
  <1>5. CASE VideoTop \/ VideoPop \/ VideoMissed \/ VideoSigPipe \/ VideoKilled
    BY <1>1, <1>5 DEF VideoTop, VideoAt, VideoGoto, main, handler, audio, ffmpeg, events, sub, loop,
       process, athread, inputs, VideoPop, VideoMissed, VideoSigPipe, VideoKilled
  <1>6. CASE AudioTop \/ AudioCheck \/ AudioPop \/ AudioMissed \/ AudioWrite \/ AudioSigPipe \/
     AudioKilled
    BY <1>1, <1>6 DEF AudioTop, AudioAt, AudioGoto, main, handler, video, ffmpeg, events, sub, loop,
       process, vthread, inputs, AudioCheck, AudioClose, AudioPop, AudioMissed, AudioWrite,
       WriteFifo, AudioSigPipe, AudioKilled
  <1>7. CASE Probe \/ Rendezvous \/ ReadAudio \/ Finish \/ Crash \/ SubPopen \/ SubEnd
    BY <1>1, <1>7 DEF Probe, main, handler, video, audio, inputs, events, sub, loop, process,
       vthread, athread, Rendezvous, ReadAudio, Finish, Crash, SubPopen, SubEnd
  <1>8. CASE InitSuccess
    <2>1. sent = << >> /\ sent' = Append(sent, "INIT_SUCCESS") /\ UNCHANGED <<sendnum, vgot, pipe>>
      BY <1>8 DEF InitSuccess, Main, FirstInv, send_event, video, vthread, ffmpeg, inputs
    <2>2. DOMAIN sent' = {1} /\ sent'[1] = "INIT_SUCCESS"
      BY <2>1
    <2> QED
      BY <2>1, <2>2 DEF EventInv
  <1>9. CASE ReadFailure
    <2>1. sent \in Seq(Events) /\ "READ_FAILURE" \in Events
      BY DEF TypeOK, Events
    <2>2. sent' = Append(sent, "READ_FAILURE")
      BY <1>9 DEF ReadFailure, send_event
    <2>3. mpc = "loop" /\ mpc' = "return" /\ UNCHANGED <<sendnum, vgot, pipe>>
      BY <1>9 DEF ReadFailure, Main, video, vthread, ffmpeg, inputs
    <2>4. sent # << >>
      BY <2>3 DEF FirstInv
    <2>5. /\ Len(sent) \in Nat \ {0} /\ DOMAIN sent = 1 .. Len(sent)
          /\ DOMAIN sent' = 1 .. Len(sent) + 1
          /\ \A i \in 1 .. Len(sent) : sent'[i] = sent[i]
          /\ sent'[Len(sent) + 1] = "READ_FAILURE"
      BY <2>1, <2>2, <2>4, PushFacts, PopFacts
    <2>6. \A i \in DOMAIN sent : sent[i] # "READ_FAILURE"
      BY <2>3 DEF EventInv
    <2> QED
      BY <2>3, <2>5, <2>6 DEF EventInv
  <1>10. CASE VideoWrite
    <2>1. sent \in Seq(Events) /\ sendnum \in 0 .. 1
      BY DEF TypeOK
    <2>2. vpc = "write" /\ UNCHANGED mpc /\ sendnum' = 1
      BY <1>10 DEF VideoWrite, VideoAt, StartOfStream, main
    <2>3. Len(vbuf) = 1 /\ vbuf # << >>
      BY <2>2, EmptyFacts DEF VideoInv
    <2>4. sent # << >>
      BY <2>3 DEF FirstInv
    <2>5. (vgot \o pipe)' # << >>
      <3>1. vgot \in Seq(Items) /\ pipe \in Seq(Items) /\ vbuf \in Seq(Items)
        BY DEF TypeOK
      <3>2. (vgot' = vgot \o vbuf /\ pipe' = pipe) \/ (vgot' = vgot /\ pipe' = pipe \o vbuf)
        BY <1>10 DEF VideoWrite
      <3>3. /\ vgot \o vbuf \in Seq(Items) /\ pipe \o vbuf \in Seq(Items)
            /\ Len(vgot \o vbuf) = Len(vgot) + Len(vbuf)
            /\ Len(pipe \o vbuf) = Len(pipe) + Len(vbuf)
            /\ Len(vgot) \in Nat /\ Len(pipe) \in Nat
        BY <3>1, CatFacts
      <3>4. /\ Len((vgot \o vbuf) \o pipe) = Len(vgot \o vbuf) + Len(pipe)
            /\ Len(vgot \o (pipe \o vbuf)) = Len(vgot) + Len(pipe \o vbuf)
        BY <3>1, <3>3, CatFacts
      <3>5. Len((vgot \o vbuf) \o pipe) # 0 /\ Len(vgot \o (pipe \o vbuf)) # 0
        BY <2>3, <3>3, <3>4
      <3> QED
        BY <3>2, <3>5, EmptyFacts
    <2>6. CASE sendnum = 0
      <3>1. sent' = Append(sent, "START_OF_STREAM")
        BY <1>10, <2>6 DEF VideoWrite, StartOfStream, send_event
      <3> QED
        BY <2>1, <2>2, <2>4, <2>5, <3>1, OneMoreStart
    <2>7. CASE sendnum # 0
      <3>1. sent' = sent
        BY <1>10, <2>7 DEF VideoWrite, StartOfStream, events
      <3> QED
        BY <2>2, <2>5, <3>1 DEF EventInv
    <2> QED
      BY <2>6, <2>7
  <1>11. CASE SubWrite
    <2>1. sent \in Seq(Events)
      BY DEF TypeOK
    <2>2. /\ substream = "fed" /\ sent' = Append(sent, "START_OF_STREAM")
          /\ UNCHANGED <<mpc, sendnum, vgot, pipe>>
      BY <1>11 DEF SubWrite, send_event, main, video, vthread, ffmpeg, inputs
    <2>3. sent # << >>
      BY <2>2 DEF FirstInv
    <2>4. sendnum' = 1 => (vgot \o pipe)' # << >>
      BY <2>2 DEF EventInv
    <2> QED
      BY <2>1, <2>2, <2>3, <2>4, OneMoreStart
  <1>12. CASE ReadVideo
    <2>1. pipe # << >> /\ vgot' = Append(vgot, Head(pipe)) /\ pipe' = Tail(pipe)
      BY <1>12 DEF ReadVideo
    <2>2. vgot \in Seq(Items) /\ pipe \in Seq(Items)
      BY DEF TypeOK
    <2>3. vgot' \o pipe' = vgot \o pipe
      BY <2>1, <2>2, PopThrough
    <2>4. UNCHANGED <<mpc, sendnum, sent>>
      BY <1>12 DEF ReadVideo, main, video, vthread, events, sub
    <2> QED
      BY <2>3, <2>4 DEF EventInv
  <1>13. CASE SubStart
    BY <1>1, <1>13 DEF SubStart, Main, loop, process, handler, video, audio, ffmpeg, vthread, athread,
       inputs
  <1>14. CASE BadSubout
    BY <1>1, <1>14 DEF BadSubout, MainOnly, Main, loop, process, handler, video, audio, ffmpeg, events,
       sub, vthread, athread, inputs
  <1>15. CASE UNCHANGED vars
    BY <1>1, <1>15 DEF vars, loop, process, main, handler, vthread, video, athread, audio,
       inputs, ffmpeg, events, sub
  <1> QED
    BY <1>2, <1>3, <1>4, <1>5, <1>6, <1>7, <1>8, <1>9, <1>10, <1>11, <1>12, <1>13, <1>14, <1>15 DEF Next,
       MainStep, VideoRUN, AudioRUN, Encode

\* What an event adds to the number of START_OF_STREAM.
LEMMA StartsPush ==
    ASSUME NEW s \in Seq(Events), NEW e \in Events
    PROVE  /\ Cardinality(Starts(s)) \in Nat
           /\ e # "START_OF_STREAM" =>
                 Cardinality(Starts(Append(s, e))) = Cardinality(Starts(s))
           /\ e = "START_OF_STREAM" =>
                 Cardinality(Starts(Append(s, e))) = Cardinality(Starts(s)) + 1
  <1>1. /\ Len(s) \in Nat /\ DOMAIN s = 1 .. Len(s)
        /\ DOMAIN Append(s, e) = 1 .. Len(s) + 1
        /\ \A i \in 1 .. Len(s) : Append(s, e)[i] = s[i]
        /\ Append(s, e)[Len(s) + 1] = e
    BY PushFacts
  <1>2. IsFiniteSet(Starts(s))
    <2>1. IsFiniteSet(1 .. Len(s))
      BY <1>1, FS_Interval
    <2>2. Starts(s) \in SUBSET (1 .. Len(s))
      BY <1>1 DEF Starts
    <2> QED
      BY <2>1, <2>2, FS_Subset
  <1>3. Cardinality(Starts(s)) \in Nat
    BY <1>2, FS_CardinalityType
  <1>4. ASSUME e # "START_OF_STREAM"
        PROVE  Starts(Append(s, e)) = Starts(s)
    BY <1>1, <1>4 DEF Starts
  <1>5. ASSUME e = "START_OF_STREAM"
        PROVE  Cardinality(Starts(Append(s, e))) = Cardinality(Starts(s)) + 1
    <2>1. Starts(Append(s, e)) = Starts(s) \cup {Len(s) + 1} /\ Len(s) + 1 \notin Starts(s)
      BY <1>1, <1>5 DEF Starts
    <2> QED
      BY <1>2, <2>1, FS_AddElement
  <1> QED
    BY <1>3, <1>4, <1>5

\* The video thread sends its event once, the substream's once for each start.
LEMMA CountStep ==
    ASSUME TypeOK, CountInv, [Next]_vars
    PROVE  CountInv'
  <1> DEFINE n == Cardinality(Starts(sent))
  <1>1. CASE UNCHANGED <<sent, substream, substarts, sendnum>>
    BY <1>1 DEF CountInv, Owed, Starts
  <1>2. CASE StartAudio \/ Signals \/ InitFails \/ PushVideo \/ PushAudio \/ PushRawAudio
    BY <1>1, <1>2 DEF StartAudio, Signals, InitFails, PushVideo, PushAudio, PushRawAudio, events,
       sub, video, vthread
  <1>3. CASE BadSubout \/ Return \/ ExitAudio \/ ExitVideo \/ Join \/ Close \/ Wait \/
     ExitProcess
    BY <1>1, <1>3 DEF BadSubout, Return, ExitAudio, ExitVideo, Join, MainOnly, Close, Wait,
       ExitProcess, events, sub, video, vthread
  <1>4. CASE KilledEarly \/ SigHandler \/ HandlerExit
    BY <1>1, <1>4 DEF KilledEarly, SigHandler, HandlerExit, HandlerEnds, events, sub, video,
       vthread
  <1>5. CASE VideoTop \/ VideoPop \/ VideoMissed \/ VideoSigPipe \/ VideoKilled
    BY <1>1, <1>5 DEF VideoTop, VideoGoto, VideoPop, VideoMissed, VideoSigPipe, VideoKilled,
       events, sub
  <1>6. CASE AudioTop \/ AudioCheck \/ AudioPop \/ AudioMissed \/ AudioWrite \/ AudioSigPipe \/
     AudioKilled
    BY <1>1, <1>6 DEF AudioTop, AudioGoto, AudioCheck, AudioClose, AudioPop, AudioMissed,
       AudioWrite, WriteFifo, AudioSigPipe, AudioKilled, events, sub, video, vthread
  <1>7. CASE Probe \/ Rendezvous \/ ReadVideo \/ ReadAudio \/ Finish \/ Crash \/ SubPopen \/
     SubEnd
    BY <1>1, <1>7 DEF Probe, Rendezvous, ReadVideo, ReadAudio, Finish, Crash, SubPopen, SubEnd,
       events, sub, video, vthread
  <1>8. /\ sent \in Seq(Events) /\ sendnum \in 0 .. 1 /\ substarts \in Nat
        /\ Events = {"INIT_SUCCESS", "START_OF_STREAM", "READ_FAILURE"}
    BY MainOutputAssumption DEF TypeOK, Events
  <1>9. /\ n \in Nat
        /\ Cardinality(Starts(Append(sent, "INIT_SUCCESS"))) = n
        /\ Cardinality(Starts(Append(sent, "READ_FAILURE"))) = n
        /\ Cardinality(Starts(Append(sent, "START_OF_STREAM"))) = n + 1
    BY <1>8, StartsPush
  <1>10. n + Owed <= sendnum + substarts /\ Owed \in 0 .. 1
    BY DEF CountInv, Owed
  <1>11. ASSUME n' + Owed' <= sendnum' + substarts'
         PROVE  CountInv'
    BY <1>11 DEF CountInv
  <1> HIDE DEF n
  <1>12. CASE InitSuccess
    <2>1. sent' = Append(sent, "INIT_SUCCESS") /\ UNCHANGED <<sendnum, substarts, substream>>
      BY <1>12 DEF InitSuccess, send_event, video, vthread, sub
    <2>2. n' = n /\ Owed' = Owed
      BY <1>9, <2>1 DEF n, Owed
    <2> QED
      BY <1>10, <1>11, <2>1, <2>2
  <1>13. CASE ReadFailure
    <2>1. sent' = Append(sent, "READ_FAILURE") /\ UNCHANGED <<sendnum, substarts, substream>>
      BY <1>13 DEF ReadFailure, send_event, video, vthread, sub
    <2>2. n' = n /\ Owed' = Owed
      BY <1>9, <2>1 DEF n, Owed
    <2> QED
      BY <1>10, <1>11, <2>1, <2>2
  <1>14. CASE Iterate
    <2>1. UNCHANGED <<sent, sendnum, substarts>>
      BY <1>14 DEF Iterate, video, vthread
    <2>2. n' = n
      BY <2>1 DEF n
    <2>3. Owed' = Owed
      BY <1>14 DEF Iterate, FeedSub, Owed
    <2> QED
      BY <1>10, <1>11, <2>1, <2>2, <2>3
  <1>15. CASE SubStart
    <2>1. UNCHANGED <<sent, sendnum>> /\ substarts' = substarts + 1
      BY <1>15 DEF SubStart, video, vthread
    <2>2. n' = n
      BY <2>1 DEF n
    <2>3. Owed' = 1
      BY <1>15 DEF SubStart, Owed
    <2>4. Owed \in 0 .. 1 /\ n <= sendnum + substarts
      BY <1>8, <1>9, <1>10
    <2> QED
      BY <1>8, <1>9, <1>11, <2>1, <2>2, <2>3, <2>4
  <1>16. CASE SubWrite
    <2>1. /\ sent' = Append(sent, "START_OF_STREAM") /\ UNCHANGED <<sendnum, substarts>>
          /\ substream = "fed" /\ substream' = "sent"
      BY <1>16 DEF SubWrite, send_event, video, vthread
    <2>2. n' = n + 1
      BY <1>9, <2>1 DEF n
    <2>3. Owed = 1 /\ Owed' = 0
      BY <2>1 DEF Owed
    <2> QED
      BY <1>8, <1>9, <1>10, <1>11, <2>1, <2>2, <2>3
  <1>17. CASE VideoWrite
    <2>1. sendnum' = 1 /\ UNCHANGED <<substarts, substream>>
      BY <1>17 DEF VideoWrite, StartOfStream, events, sub
    <2>2. Owed' = Owed
      BY <2>1 DEF Owed
    <2>3. CASE sendnum = 0
      <3>1. sent' = Append(sent, "START_OF_STREAM")
        BY <1>17, <2>3 DEF VideoWrite, StartOfStream, send_event
      <3>2. n' = n + 1
        BY <1>9, <3>1 DEF n
      <3> QED
        BY <1>8, <1>9, <1>10, <1>11, <2>1, <2>2, <2>3, <3>2
    <2>4. CASE sendnum # 0
      <3>1. sent' = sent
        BY <1>17, <2>4 DEF VideoWrite, StartOfStream, events
      <3>2. n' = n /\ sendnum = 1
        BY <1>8, <2>4, <3>1 DEF n
      <3> QED
        BY <1>10, <1>11, <2>1, <2>2, <3>2
    <2> QED
      BY <2>3, <2>4
  <1>18. CASE UNCHANGED vars
    BY <1>1, <1>18 DEF vars, video, vthread, events, sub
  <1> QED
    BY <1>2, <1>3, <1>4, <1>5, <1>6, <1>7, <1>12, <1>13, <1>14, <1>15, <1>16, <1>17, <1>18 DEF
       Next, MainStep, VideoRUN, AudioRUN, Encode

-----------------------------------------------------------------------------
(* The theorems.                                                            *)

\* The invariant holds of the main output from its start on: frames and audio
\* on their way, threads, the end of ffmpeg, the fifo and the events.
THEOREM OutputInvariant == Spec => []OutputInv
  <1>1. Init => OutputInv
    <2> SUFFICES ASSUME Init
                 PROVE  OutputInv
      OBVIOUS
    <2>1. /\ << >> \in Seq(Items) /\ << >> \in Seq(Events) /\ Len(<< >>) = 0
          /\ << >> \o << >> = << >>
      BY EmptyFacts, ConcatEmptySeq
    <2>2. TypeOK
      <3>1. /\ frames \in Seq(Items) /\ videoBuffers \in Seq(Items) /\ vbuf \in Seq(Items)
            /\ sounds \in Seq(Items) /\ audioBuffers \in Seq(Items) /\ abuf \in Seq(Items)
            /\ pipe \in Seq(Items) /\ fifo \in Seq(Items)
            /\ vgot \in Seq(Items) /\ agot \in Seq(Items)
            /\ sent \in Seq(Events)
        BY <2>1 DEF Init
      <3>2. Len(pipe) <= PipeSize /\ Len(fifo) <= PipeSize
        BY <2>1, MainOutputAssumption DEF Init
      <3>3. num \in 0 .. NumFrames /\ sendnum \in 0 .. 1 /\ substarts \in 0 .. MaxStarts
        BY MainOutputAssumption DEF Init
      <3>4. audio_fifo \in BOOLEAN /\ fpc \in {"probe", "open", "encode", "ended"}
        BY DEF Init
      <3> QED
        BY <3>1, <3>2, <3>3, <3>4 DEF Init, TypeOK
    <2>3. MainInv /\ VideoInv /\ AudioInv
      BY <2>1 DEF Init, MainInv, VideoInv, AudioInv
    <2>4. EndInv /\ FifoRemoved
      BY DEF Init, EndInv, Running, FifoRemoved
    <2>5. FirstInv /\ EventInv
      BY DEF Init, FirstInv, EventInv
    <2>6. CountInv
      <3>1. Starts(sent) = {}
        BY DEF Init, Starts
      <3> QED
        BY <3>1, FS_EmptySet DEF Init, CountInv, Owed
    <2> QED
      BY <2>2, <2>3, <2>4, <2>5, <2>6 DEF OutputInv
  <1>2. OutputInv /\ [Next]_vars => OutputInv'
    BY TypeStep, MainInvStep, VideoStep, AudioStep, EndStep, FifoStep, FirstStep, EventStep,
       CountStep DEF OutputInv
  <1> QED
    BY <1>1, <1>2, PTL DEF Spec

\* Whatever Write was given is on its way to ffmpeg or to the file, or has arrived,
\* in its order, until a signal clears the queues.
THEOREM OutputKept == Spec => []TransitInv
  <1>1. OutputInv => TransitInv
    BY DEF OutputInv, TransitInv, NothingLost, VideoInv, AudioInv
  <1> QED
    BY <1>1, OutputInvariant, PTL

\* The normal end of the program comes after ffmpeg has got everything the threads
\* took, and after no thread was stopped with a frame; only the return on a bad SUBOUT
\* leaves the fifo behind.
THEOREM EndIsClean == Spec => []EndsClean
  <1>1. OutputInv => EndsClean
    <2> SUFFICES ASSUME OutputInv
                 PROVE  EndsClean
      OBVIOUS
    <2>1. FifoRemoved
      BY DEF OutputInv
    <2>2. ASSUME ended = "normal"
          PROVE  /\ fpc = "ended" /\ vbuf = << >>
                 /\ frames = ((vgot \o pipe) \o << >>) \o videoBuffers
                 /\ sounds = ((agot \o fifo) \o abuf) \o audioBuffers
      <3>1. mpc = "remove" /\ hpc = "none" /\ ~sigpipe /\ vpc = "done" /\ fpc = "ended"
        BY <2>2 DEF OutputInv, EndInv
      <3>2. vbuf = << >>
        BY <3>1 DEF OutputInv, VideoInv
      <3> QED
        BY <3>1, <3>2 DEF OutputInv, VideoInv, AudioInv
    <2>3. ASSUME ended = "normal", ~crashed
          PROVE  pipe = << >> /\ (~rawdata_out => fifo = << >> /\ abuf = << >>)
      <3>1. CASE rawdata_out
        BY <3>1 DEF OutputInv, VideoInv
      <3>2. CASE ~rawdata_out
        <4>1. pipe = << >> /\ fifo = << >> /\ ~awriter
          BY <2>2, <2>3, <3>2 DEF OutputInv, EndInv
        <4> QED
          BY <4>1 DEF OutputInv, AudioInv
      <3> QED
        BY <3>1, <3>2
    <2>4. vgot \in Seq(Items) /\ agot \in Seq(Items)
      BY DEF OutputInv, TypeOK
    <2>5. (vgot \o << >>) \o << >> = vgot /\ (agot \o << >>) \o << >> = agot
      BY <2>4, ConcatEmptySeq
    <2> QED
      BY <2>1, <2>2, <2>3, <2>5 DEF EndsClean, OutputComplete, FailureNoticed
  <1> QED
    BY <1>1, OutputInvariant, PTL

\* The receiver of the events gets INIT_SUCCESS first, and only START_OF_STREAM
\* more than once: for the main output's first frame, and at most once for each
\* start of the substream.
THEOREM EventOrder == Spec => []EventsInOrder
  <1>1. OutputInv => EventsInOrder
    <2> SUFFICES ASSUME OutputInv
                 PROVE  EventsInOrder
      OBVIOUS
    <2>1. sent \in Seq(Events) /\ sendnum \in 0 .. 1 /\ substarts \in Nat
      BY MainOutputAssumption DEF OutputInv, TypeOK
    <2>2. EventInv /\ CountInv
      BY DEF OutputInv
    <2>3. sent # << >> => sent[1] = "INIT_SUCCESS"
      <3>1. sent # << >> => 1 \in DOMAIN sent
        BY <2>1, PopFacts
      <3> QED
        BY <2>2, <3>1 DEF EventInv
    <2>4. Cardinality(Starts(sent)) <= (IF vgot \o pipe = << >> THEN 0 ELSE 1) + substarts
      <3>1. Cardinality(Starts(sent)) \in Nat
        BY <2>1, StartsPush DEF Events
      <3>2. Cardinality(Starts(sent)) <= sendnum + substarts
        BY <2>1, <2>2, <3>1 DEF CountInv, Owed
      <3>3. sendnum <= IF vgot \o pipe = << >> THEN 0 ELSE 1
        BY <2>1, <2>2 DEF EventInv
      <3> QED
        BY <2>1, <3>1, <3>2, <3>3
    <2> QED
      BY <2>2, <2>3, <2>4 DEF EventsInOrder, EventInv
  <1> QED
    BY <1>1, OutputInvariant, PTL
=============================================================================
