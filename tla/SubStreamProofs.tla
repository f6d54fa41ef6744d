-------------------------- MODULE SubStreamProofs ---------------------------
(***************************************************************************)
(* What holds of the substream output for any number of SUBOUT commands and *)
(* frames, at any speed of the three threads.                               *)
(***************************************************************************)
EXTENDS SubStream, QueueLemmas

-----------------------------------------------------------------------------
(* The inductive invariant.                                                 *)

\* What the commands leave behind: START works on a stopped output whose queue
\* is empty, for a request that was accepted; popen has a command line.
CommandInv ==
    /\ mpc \in {"start", "start_cmd", "start_flag"} => bStopped /\ session # 0
    /\ mpc \in {"stop_queue", "stop_audio"} => bStopped
    /\ bStopped /\ mpc # "stop_queue" => videoBuffers = << >>
    /\ vpc = "popen" => pipe_cmd # 0
    /\ session <= request
    /\ writer <= session /\ pipe_cmd <= session
    /\ audioBuffers <= frames

\* The frames on their way: those queued are of the current substream, the one
\* in the video thread's hands not of an earlier one than the writer's, and all
\* are in the order of the main loop.
FrameInv ==
    /\ \A i \in DOMAIN videoBuffers : videoBuffers[i].of = session /\ videoBuffers[i].no <= frames
    /\ \A i, j \in DOMAIN videoBuffers : i < j => videoBuffers[i].no < videoBuffers[j].no
    /\ \A i \in DOMAIN written :
          /\ written[i].frame.no <= frames
          /\ \A j \in DOMAIN videoBuffers : written[i].frame.no < videoBuffers[j].no
    /\ vpc = "write" =>
          /\ buf.of >= writer /\ buf.no <= frames
          /\ \A i \in DOMAIN written : written[i].frame.no < buf.no
          /\ \A j \in DOMAIN videoBuffers : buf.no < videoBuffers[j].no

\* When every SUBOUT waits until the last substream is over: the video thread
\* has a writer wherever it uses one and none where it opens one, both are those
\* of the current substream, no other pipe is open, and the frames on their way
\* are its own, in its own size unless a SUBOUT was refused.
PatientInv ==
    ~hasty =>
        /\ mpc \in {"start", "start_cmd", "start_flag"} =>
              writer = 0 /\ vpc \in {"none", "top", "idle"} /\ request = session
        /\ mpc \notin {"start", "start_cmd"} => pipe_cmd \in {0, session}
        /\ writer \in {0, session}
        /\ vpc \in {"popen", "clear"} => writer = 0
        /\ vpc \in {"fclose", "null", "pop", "write"} => writer # 0
        /\ \A r \in Requests : pipes[r] = "open" => r = writer
        /\ vpc = "null" => \A r \in Requests : pipes[r] # "open"
        /\ vpc = "write" => buf.of = session /\ (refused \/ buf.as = session)
        /\ refused \/ bStopped \/ request = session
        /\ \A i \in DOMAIN videoBuffers : refused \/ videoBuffers[i].as = session

SubInv == PipeInv /\ PatientRestart /\ CommandInv /\ FrameInv /\ PatientInv

-----------------------------------------------------------------------------

\* What the types say of the frames that are queued, held and written.
LEMMA FrameTypes ==
    ASSUME TypeOK
    PROVE  /\ session \in Int /\ frames \in Int /\ writer \in Int /\ request \in Int
           /\ Len(videoBuffers) \in Nat /\ DOMAIN videoBuffers = 1 .. Len(videoBuffers)
           /\ \A i \in DOMAIN videoBuffers :
                 videoBuffers[i].of \in Nat /\ videoBuffers[i].no \in Nat
           /\ Len(written) \in Nat /\ DOMAIN written = 1 .. Len(written)
           /\ \A i \in DOMAIN written : /\ written[i].pipe \in Int
                                        /\ written[i].frame.of \in Nat
                                        /\ written[i].frame.no \in Nat
           /\ buf.of \in Nat /\ buf.no \in Nat
  <1>1. session \in Int /\ frames \in Int /\ writer \in Int /\ request \in Int
    BY SubStreamAssumption DEF TypeOK
  <1>2. \A f \in Frame : f.of \in Nat /\ f.no \in Nat
    BY SubStreamAssumption DEF Frame
  <1>3. /\ Len(videoBuffers) \in Nat /\ DOMAIN videoBuffers = 1 .. Len(videoBuffers)
        /\ \A i \in DOMAIN videoBuffers : videoBuffers[i] \in Frame
    BY DEF TypeOK
  <1>4. /\ Len(written) \in Nat /\ DOMAIN written = 1 .. Len(written)
        /\ \A i \in DOMAIN written : written[i].pipe \in Requests /\ written[i].frame \in Frame
    <2>1. written \in Seq([pipe : Requests, frame : Frame])
      BY DEF TypeOK
    <2>2. Len(written) \in Nat /\ DOMAIN written = 1 .. Len(written)
      BY <2>1, LenProperties
    <2>3. \A i \in 1 .. Len(written) : written[i] \in [pipe : Requests, frame : Frame]
      BY <2>1, ElementOfSeq
    <2> QED
      BY <2>2, <2>3
  <1>5. buf \in Frame
    BY DEF TypeOK
  <1> QED
    BY <1>1, <1>2, <1>3, <1>4, <1>5, SubStreamAssumption DEF Requests

\* One frame more is in the pipe, of the writer there is and the one that was held.
LEMMA Written ==
    ASSUME TypeOK, Fwrite, writer # 0
    PROVE  /\ vpc = "write"
           /\ written' \in Seq([pipe : Requests, frame : Frame])
           /\ DOMAIN written = 1 .. Len(written)
           /\ DOMAIN written' = 1 .. Len(written) + 1
           /\ \A i \in 1 .. Len(written) : written'[i] = written[i]
           /\ written'[Len(written) + 1].pipe = writer
           /\ written'[Len(written) + 1].frame = buf
  <1> DEFINE w == [pipe |-> writer, frame |-> buf]
  <1>1. vpc = "write" /\ written' = Append(written, w)
    BY DEF Fwrite
  <1>2. w \in [pipe : Requests, frame : Frame] /\ w.pipe = writer /\ w.frame = buf
    BY SubStreamAssumption DEF TypeOK, Requests
  <1>3. written \in Seq([pipe : Requests, frame : Frame])
    BY DEF TypeOK
  <1> HIDE DEF w
  <1>4. /\ Append(written, w) \in Seq([pipe : Requests, frame : Frame])
        /\ DOMAIN written = 1 .. Len(written)
        /\ DOMAIN Append(written, w) = 1 .. Len(written) + 1
        /\ \A i \in 1 .. Len(written) : Append(written, w)[i] = written[i]
        /\ Append(written, w)[Len(written) + 1] = w
    BY <1>2, <1>3, PushFacts
  <1> QED
    BY <1>1, <1>2, <1>4

\* Every step keeps the types of the variables.
LEMMA TypeStep ==
    ASSUME SubInv, [Next]_vars
    PROVE  TypeOK'
  <1> USE SubStreamAssumption DEF SubInv, PipeInv, TypeOK, CommandInv, WriterIsOpen, Requests,
           Frame, NoFrame
  <1>1. CASE SUBOUT
    <2>1. hasty' \in BOOLEAN /\ refused' \in BOOLEAN
      BY <1>1 DEF SUBOUT
    <2> QED
      BY <1>1, <2>1 DEF SUBOUT, video, vthread, audio, athread
  <1>2. CASE StartWriter
    BY <1>2 DEF StartWriter, vthread, audio, athread
  <1>3. CASE StartCmd
    BY <1>3 DEF StartCmd, vthread, audio, athread
  <1>4. CASE StartFlag
    BY <1>4 DEF StartFlag, audio, athread
  <1>5. CASE STOPSUB
    BY <1>5 DEF STOPSUB, vthread, audio, athread
  <1>6. CASE StopQueue
    BY <1>6 DEF StopQueue, vthread, audio, athread
  <1>7. CASE StopAudio
    BY <1>7 DEF StopAudio, video, vthread, athread
  <1>8. CASE Write
    <2> DEFINE f == [of |-> session, as |-> request, no |-> frames']
    <2>1. f \in Frame
      BY <1>8 DEF Write
    <2>2. videoBuffers' \in Seq(Frame)
      BY <1>8, <2>1, PushFacts DEF Write
    <2>3. audioBuffers' \in 0 .. MaxFrames
      BY <1>8 DEF Write
    <2> QED
      BY <1>8, <2>2, <2>3 DEF Write, vthread, athread
  <1>9. CASE Top
    BY <1>9 DEF Top, Goto, main, video, audio, athread
  <1>10. CASE Idle
    BY <1>10, ZenonT(60) DEF Idle, Goto, main, video, audio, athread
  <1>11. CASE Popen
    BY <1>11 DEF Popen, main, audio, athread
  <1>12. CASE PopenFails
    BY <1>12 DEF PopenFails, Goto, main, video, audio, athread
  <1>13. CASE StartAudio
    BY <1>13 DEF StartAudio, main, video
  <1>14. CASE Fclose
    BY <1>14 DEF Fclose, main, video, audio, athread
  <1>15. CASE SetNull
    BY <1>15 DEF SetNull, main, audio, athread
  <1>16. CASE ClearCmd
    BY <1>16 DEF ClearCmd, main, audio, athread
  <1>17. CASE Pop
    <2> HIDE DEF Frame
    <2>1. buf' \in Frame /\ videoBuffers' \in Seq(Frame)
      <3>1. buf \in Frame /\ videoBuffers \in Seq(Frame)
        OBVIOUS
      <3>2. \/ buf' = buf /\ videoBuffers' = videoBuffers
            \/ /\ videoBuffers # << >>
               /\ buf' = Head(videoBuffers) /\ videoBuffers' = Tail(videoBuffers)
        BY <1>17 DEF Pop
      <3> HIDE DEF SubInv, TypeOK
      <3> QED
        BY <3>1, <3>2, PopFacts
    <2> QED
      BY <1>17, <2>1 DEF Pop, main, audio, athread
  <1>18. CASE Fwrite
    <2>1. buf' \in Frame
      BY <1>18 DEF Fwrite
    <2>2. written' \in Seq([pipe : Requests, frame : Frame])
      <3> HIDE DEF TypeOK, Requests, Frame
      <3>1. CASE writer = 0
        BY <1>18, <3>1 DEF Fwrite, TypeOK
      <3> QED
        BY <1>18, <3>1, Written
    <2> HIDE DEF Frame
    <2> QED
      BY <1>18, <2>1, <2>2 DEF Fwrite, main, video, audio, athread
  <1>19. CASE AudioTop
    BY <1>19 DEF AudioTop, main, video, vthread, audio
  <1>20. CASE AudioOpen
    BY <1>20 DEF AudioOpen, main, video, vthread, audio
  <1>21. CASE AudioPop
    BY <1>21 DEF AudioPop, main, video, vthread
  <1>22. CASE UNCHANGED vars
    BY <1>22 DEF vars, main, video, vthread, audio, athread
  <1> QED
    BY <1>1, <1>2, <1>3, <1>4, <1>5, <1>6, <1>7, <1>8, <1>9, <1>10, <1>11, <1>12, <1>13,
             <1>14, <1>15, <1>16, <1>17, <1>18, <1>19, <1>20, <1>21, <1>22 DEF Next,
             MainLoop, MainStep, RUN, AudioRUN

\* Whatever a step does, the writer's pipe is open, but for the moment between
\* fclose and writer = NULL.
LEMMA WriterStep ==
    ASSUME SubInv, [Next]_vars
    PROVE  WriterIsOpen'
  <1> USE SubStreamAssumption DEF SubInv, PipeInv, TypeOK, CommandInv, WriterIsOpen, Requests
  <1>1. CASE SUBOUT
    BY <1>1 DEF SUBOUT, video, vthread, audio, athread
  <1>2. CASE StartWriter
    BY <1>2 DEF StartWriter, vthread, audio, athread
  <1>3. CASE StartCmd
    BY <1>3 DEF StartCmd, vthread, audio, athread
  <1>4. CASE StartFlag
    BY <1>4 DEF StartFlag, audio, athread
  <1>5. CASE STOPSUB
    BY <1>5 DEF STOPSUB, vthread, audio, athread
  <1>6. CASE StopQueue
    BY <1>6 DEF StopQueue, vthread, audio, athread
  <1>7. CASE StopAudio
    BY <1>7 DEF StopAudio, video, vthread, athread
  <1>8. CASE Write
    BY <1>8 DEF Write, vthread, athread
  <1>9. CASE Top
    BY <1>9 DEF Top, Goto, main, video, audio, athread
  <1>10. CASE Idle
    BY <1>10 DEF Idle, Goto, main, video, audio, athread
  <1>11. CASE Popen
    BY <1>11 DEF Popen, main, audio, athread
  <1>12. CASE PopenFails
    BY <1>12 DEF PopenFails, Goto, main, video, audio, athread
  <1>13. CASE StartAudio
    BY <1>13 DEF StartAudio, main, video
  <1>14. CASE Fclose
    BY <1>14 DEF Fclose, main, video, audio, athread
  <1>15. CASE SetNull
    BY <1>15 DEF SetNull, main, audio, athread
  <1>16. CASE ClearCmd
    BY <1>16 DEF ClearCmd, main, audio, athread
  <1>17. CASE Pop
    BY <1>17 DEF Pop, main, audio, athread
  <1>18. CASE Fwrite
    BY <1>18 DEF Fwrite, main, video, audio, athread
  <1>19. CASE AudioTop
    BY <1>19 DEF AudioTop, main, video, vthread, audio
  <1>20. CASE AudioOpen
    BY <1>20 DEF AudioOpen, main, video, vthread, audio
  <1>21. CASE AudioPop
    BY <1>21 DEF AudioPop, main, video, vthread
  <1>22. CASE UNCHANGED vars
    BY <1>22 DEF vars, main, video, vthread, audio, athread
  <1> QED
    BY <1>1, <1>2, <1>3, <1>4, <1>5, <1>6, <1>7, <1>8, <1>9, <1>10, <1>11, <1>12, <1>13,
             <1>14, <1>15, <1>16, <1>17, <1>18, <1>19, <1>20, <1>21, <1>22 DEF Next,
             MainLoop, MainStep, RUN, AudioRUN

\* START and STOP, and the threads between their steps, keep CommandInv.
LEMMA CommandStep ==
    ASSUME SubInv, [Next]_vars
    PROVE  CommandInv'
  <1> USE SubStreamAssumption DEF SubInv, PipeInv, TypeOK, CommandInv
  <1>1. CASE SUBOUT
    BY <1>1 DEF SUBOUT, video, vthread, audio, athread
  <1>2. CASE StartWriter
    BY <1>2 DEF StartWriter, vthread, audio, athread
  <1>3. CASE StartCmd
    BY <1>3 DEF StartCmd, vthread, audio, athread
  <1>4. CASE StartFlag
    BY <1>4 DEF StartFlag, audio, athread
  <1>5. CASE STOPSUB
    BY <1>5 DEF STOPSUB, vthread, audio, athread
  <1>6. CASE StopQueue
    BY <1>6 DEF StopQueue, vthread, audio, athread
  <1>7. CASE StopAudio
    BY <1>7 DEF StopAudio, video, vthread, athread
  <1>8. CASE Write
    BY <1>8 DEF Write, vthread, athread
  <1>9. CASE Top
    BY <1>9 DEF Top, Goto, main, video, audio, athread
  <1>10. CASE Idle
    BY <1>10 DEF Idle, Goto, main, video, audio, athread
  <1>11. CASE Popen
    BY <1>11 DEF Popen, main, audio, athread
  <1>12. CASE PopenFails
    BY <1>12 DEF PopenFails, Goto, main, video, audio, athread
  <1>13. CASE StartAudio
    BY <1>13 DEF StartAudio, main, video
  <1>14. CASE Fclose
    BY <1>14 DEF Fclose, main, video, audio, athread
  <1>15. CASE SetNull
    BY <1>15 DEF SetNull, main, audio, athread
  <1>16. CASE ClearCmd
    BY <1>16 DEF ClearCmd, main, audio, athread
  <1>17. CASE Pop
    BY <1>17 DEF Pop, main, audio, athread
  <1>18. CASE Fwrite
    BY <1>18 DEF Fwrite, main, video, audio, athread
  <1>19. CASE AudioTop
    BY <1>19 DEF AudioTop, main, video, vthread, audio
  <1>20. CASE AudioOpen
    BY <1>20 DEF AudioOpen, main, video, vthread, audio
  <1>21. CASE AudioPop
    BY <1>21 DEF AudioPop, main, video, vthread
  <1>22. CASE UNCHANGED vars
    BY <1>22 DEF vars, main, video, vthread, audio, athread
  <1> QED
    BY <1>1, <1>2, <1>3, <1>4, <1>5, <1>6, <1>7, <1>8, <1>9, <1>10, <1>11, <1>12, <1>13,
             <1>14, <1>15, <1>16, <1>17, <1>18, <1>19, <1>20, <1>21, <1>22 DEF Next,
             MainLoop, MainStep, RUN, AudioRUN

\* Frames are queued, popped and written in order; a START finds the queue empty.
LEMMA FrameStep ==
    ASSUME SubInv, [Next]_vars
    PROVE  FrameInv'
  <1> USE DEF SubInv, PipeInv, FrameInv
  <1>1. CASE SUBOUT
    BY <1>1 DEF SUBOUT, video, vthread, audio, athread, TypeOK, CommandInv
  <1>2. CASE StartWriter
    <2>1. buf.of >= 0
      BY FrameTypes
    <2> QED
      BY <1>2, <2>1 DEF StartWriter, vthread
  <1>3. CASE StartCmd
    BY <1>3 DEF StartCmd, vthread, audio, athread
  <1>4. CASE StartFlag
    BY <1>4 DEF StartFlag, audio, athread
  <1>5. CASE STOPSUB
    BY <1>5 DEF STOPSUB, vthread, audio, athread
  <1>6. CASE StopQueue
    BY <1>6 DEF StopQueue, vthread, audio, athread, TypeOK, CommandInv
  <1>7. CASE StopAudio
    BY <1>7 DEF StopAudio, video, vthread, athread
  <1>8. CASE Write
    <2> DEFINE f == [of |-> session, as |-> request, no |-> frames']
    <2>1. UNCHANGED <<session, writer, vpc, buf, written>> /\ frames' = frames + 1
      BY <1>8 DEF Write, vthread
    <2>2. CASE UNCHANGED videoBuffers
      BY <2>1, <2>2, FrameTypes
    <2>3. CASE videoBuffers' = Append(videoBuffers, f)
      <3>1. f \in Frame /\ f.of = session /\ f.no = frames + 1
        BY <1>8, <2>1, SubStreamAssumption DEF Write, TypeOK, Frame
      <3> HIDE DEF f
      <3>2. /\ DOMAIN videoBuffers' = 1 .. Len(videoBuffers) + 1
            /\ \A i \in 1 .. Len(videoBuffers) : videoBuffers'[i] = videoBuffers[i]
            /\ videoBuffers'[Len(videoBuffers) + 1] = f
        BY <2>3, <3>1, PushFacts DEF TypeOK
      <3>3. \A i \in DOMAIN videoBuffers' :
               videoBuffers'[i].of = session' /\ videoBuffers'[i].no <= frames'
        BY <2>1, <3>1, <3>2, FrameTypes
      <3>4. \A i, j \in DOMAIN videoBuffers' : i < j => videoBuffers'[i].no < videoBuffers'[j].no
        BY <2>1, <3>1, <3>2, FrameTypes, SMTT(30)
      <3>5. \A i \in DOMAIN written' :
              /\ written'[i].frame.no <= frames'
              /\ \A j \in DOMAIN videoBuffers' : written'[i].frame.no < videoBuffers'[j].no
        BY <2>1, <3>1, <3>2, FrameTypes, SMTT(30)
      <3>6. vpc' = "write" =>
              /\ buf'.of >= writer' /\ buf'.no <= frames'
              /\ \A i \in DOMAIN written' : written'[i].frame.no < buf'.no
              /\ \A j \in DOMAIN videoBuffers' : buf'.no < videoBuffers'[j].no
        <4> SUFFICES ASSUME vpc = "write"
                     PROVE  /\ buf.of >= writer /\ buf.no <= frames + 1
                            /\ \A i \in DOMAIN written : written[i].frame.no < buf.no
                            /\ \A j \in DOMAIN videoBuffers' : buf.no < videoBuffers'[j].no
          BY <2>1
        <4>1. /\ buf.of >= writer /\ buf.no <= frames
              /\ \A i \in DOMAIN written : written[i].frame.no < buf.no
              /\ \A j \in DOMAIN videoBuffers : buf.no < videoBuffers[j].no
          OBVIOUS
        <4> HIDE DEF FrameInv
        <4>2. \A j \in DOMAIN videoBuffers' : buf.no < videoBuffers'[j].no
          BY <3>1, <3>2, <4>1, FrameTypes
        <4> QED
          BY <4>1, <4>2, FrameTypes
      <3> QED
        BY <3>3, <3>4, <3>5, <3>6
    <2> QED
      BY <1>8, <2>2, <2>3 DEF Write
  <1>9. CASE Top
    BY <1>9 DEF Top, Goto, main, video, audio, athread
  <1>10. CASE Idle
    BY <1>10 DEF Idle, Goto, main, video, audio, athread
  <1>11. CASE Popen
    BY <1>11 DEF Popen, main, audio, athread, TypeOK
  <1>12. CASE PopenFails
    BY <1>12 DEF PopenFails, Goto, main, video, audio, athread
  <1>13. CASE StartAudio
    BY <1>13 DEF StartAudio, main, video
  <1>14. CASE Fclose
    BY <1>14 DEF Fclose, main, video, audio, athread
  <1>15. CASE SetNull
    BY <1>15 DEF SetNull, main, audio, athread
  <1>16. CASE ClearCmd
    BY <1>16 DEF ClearCmd, main, audio, athread
  <1>17. CASE Pop
    <2>1. UNCHANGED <<session, frames, writer, written>>
      BY <1>17 DEF Pop, main
    <2>2. CASE abort \/ videoBuffers = << >>
      BY <1>17, <2>1, <2>2 DEF Pop
    <2>3. CASE ~abort /\ videoBuffers # << >>
      <3>1. buf' = videoBuffers[1] /\ videoBuffers' = Tail(videoBuffers)
        BY <1>17, <2>3, PopFacts DEF Pop, TypeOK
      <3>2. /\ Len(videoBuffers) \in Nat \ {0}
            /\ DOMAIN videoBuffers = 1 .. Len(videoBuffers)
            /\ DOMAIN videoBuffers' = 1 .. Len(videoBuffers) - 1
            /\ \A i \in 1 .. Len(videoBuffers) - 1 : videoBuffers'[i] = videoBuffers[i + 1]
        BY <2>3, <3>1, PopFacts DEF TypeOK
      <3>3. \A j \in DOMAIN videoBuffers' : buf'.no < videoBuffers'[j].no
        BY <3>1, <3>2
      <3>4. buf'.of >= writer' /\ buf'.no <= frames'
        BY <2>1, <3>1, <3>2, FrameTypes DEF CommandInv
      <3>5. \A i \in DOMAIN written' :
              /\ written'[i].frame.no <= frames' /\ written'[i].frame.no < buf'.no
              /\ \A j \in DOMAIN videoBuffers' : written'[i].frame.no < videoBuffers'[j].no
        BY <2>1, <3>1, <3>2
      <3>6. \A i \in DOMAIN videoBuffers' :
               videoBuffers'[i].of = session' /\ videoBuffers'[i].no <= frames'
        BY <2>1, <3>2
      <3>7. \A i, j \in DOMAIN videoBuffers' : i < j => videoBuffers'[i].no < videoBuffers'[j].no
        <4> SUFFICES ASSUME NEW i \in DOMAIN videoBuffers', NEW j \in DOMAIN videoBuffers', i < j
                     PROVE  videoBuffers'[i].no < videoBuffers'[j].no
          OBVIOUS
        <4>1. i + 1 \in DOMAIN videoBuffers /\ j + 1 \in DOMAIN videoBuffers /\ i + 1 < j + 1
          BY <3>2
        <4> QED
          BY <3>2, <4>1
      <3> QED
        BY <3>3, <3>4, <3>5, <3>6, <3>7
    <2> QED
      BY <2>2, <2>3
  <1>18. CASE Fwrite
    <2>1. UNCHANGED <<session, frames, writer, videoBuffers>> /\ vpc' # "write"
      BY <1>18 DEF Fwrite, main, video
    <2>2. CASE writer = 0
      BY <1>18, <2>1, <2>2 DEF Fwrite
    <2>3. CASE writer # 0
      <3>1. \A i \in DOMAIN written' :
              /\ written'[i].frame.no <= frames'
              /\ \A j \in DOMAIN videoBuffers' : written'[i].frame.no < videoBuffers'[j].no
        BY <1>18, <2>1, <2>3, Written, FrameTypes
      <3> QED
        BY <2>1, <3>1
    <2> QED
      BY <2>2, <2>3
  <1>19. CASE AudioTop
    BY <1>19 DEF AudioTop, main, video, vthread, audio
  <1>20. CASE AudioOpen
    BY <1>20 DEF AudioOpen, main, video, vthread, audio
  <1>21. CASE AudioPop
    BY <1>21 DEF AudioPop, main, video, vthread
  <1>22. CASE UNCHANGED vars
    BY <1>22 DEF vars, main, video, vthread, audio, athread
  <1> QED
    BY <1>1, <1>2, <1>3, <1>4, <1>5, <1>6, <1>7, <1>8, <1>9, <1>10, <1>11, <1>12, <1>13,
             <1>14, <1>15, <1>16, <1>17, <1>18, <1>19, <1>20, <1>21, <1>22 DEF Next,
             MainLoop, MainStep, RUN, AudioRUN

\* What is written is not for a later substream, and in order.
LEMMA StaleStep ==
    ASSUME SubInv, [Next]_vars
    PROVE  NoStaleFrames'
  <1> USE DEF SubInv, PipeInv, NoStaleFrames
  <1>1. CASE SUBOUT
    BY <1>1 DEF SUBOUT, video, vthread, audio, athread
  <1>2. CASE StartWriter
    BY <1>2 DEF StartWriter, vthread, audio, athread
  <1>3. CASE StartCmd
    BY <1>3 DEF StartCmd, vthread, audio, athread
  <1>4. CASE StartFlag
    BY <1>4 DEF StartFlag, audio, athread
  <1>5. CASE STOPSUB
    BY <1>5 DEF STOPSUB, vthread, audio, athread
  <1>6. CASE StopQueue
    BY <1>6 DEF StopQueue, vthread, audio, athread
  <1>7. CASE StopAudio
    BY <1>7 DEF StopAudio, video, vthread, athread
  <1>8. CASE Write
    BY <1>8 DEF Write, vthread, athread
  <1>9. CASE Top
    BY <1>9 DEF Top, Goto, main, video, audio, athread
  <1>10. CASE Idle
    BY <1>10 DEF Idle, Goto, main, video, audio, athread
  <1>11. CASE Popen
    BY <1>11 DEF Popen, main, audio, athread
  <1>12. CASE PopenFails
    BY <1>12 DEF PopenFails, Goto, main, video, audio, athread
  <1>13. CASE StartAudio
    BY <1>13 DEF StartAudio, main, video
  <1>14. CASE Fclose
    BY <1>14 DEF Fclose, main, video, audio, athread
  <1>15. CASE SetNull
    BY <1>15 DEF SetNull, main, audio, athread
  <1>16. CASE ClearCmd
    BY <1>16 DEF ClearCmd, main, audio, athread
  <1>17. CASE Pop
    BY <1>17 DEF Pop, main, audio, athread
  <1>18. CASE Fwrite
    <2>1. CASE writer = 0
      BY <1>18, <2>1 DEF Fwrite
    <2>2. CASE writer # 0
      <3>1. \A i \in DOMAIN written' : written'[i].frame.of >= written'[i].pipe
        BY <1>18, <2>2, Written, FrameTypes DEF FrameInv
      <3>2. \A i, j \in DOMAIN written' : i < j => written'[i].frame.no < written'[j].frame.no
        BY <1>18, <2>2, Written, FrameTypes, SMTT(30) DEF FrameInv
      <3> QED
        BY <3>1, <3>2
    <2> QED
      BY <2>1, <2>2
  <1>19. CASE AudioTop
    BY <1>19 DEF AudioTop, main, video, vthread, audio
  <1>20. CASE AudioOpen
    BY <1>20 DEF AudioOpen, main, video, vthread, audio
  <1>21. CASE AudioPop
    BY <1>21 DEF AudioPop, main, video, vthread
  <1>22. CASE UNCHANGED vars
    BY <1>22 DEF vars, main, video, vthread, audio, athread
  <1> QED
    BY <1>1, <1>2, <1>3, <1>4, <1>5, <1>6, <1>7, <1>8, <1>9, <1>10, <1>11, <1>12, <1>13,
             <1>14, <1>15, <1>16, <1>17, <1>18, <1>19, <1>20, <1>21, <1>22 DEF Next,
             MainLoop, MainStep, RUN, AudioRUN

\* Every step keeps what patient restarts rely on.
LEMMA PatientStep ==
    ASSUME SubInv, [Next]_vars
    PROVE  PatientInv'
  <1> USE SubStreamAssumption DEF SubInv, PipeInv, TypeOK, CommandInv, PatientInv, Requests
  <1>1. CASE SUBOUT
    <2>1. UNCHANGED <<video, vthread>>
      BY <1>1 DEF SUBOUT
    <2>2. CASE bStopped /\ session' = request' /\ mpc' = "start" /\ hasty' = (hasty \/ ~Settled)
               /\ UNCHANGED refused
      <3>1. SUFFICES ASSUME ~hasty'
                     PROVE  PatientInv'
        OBVIOUS
      <3>2. ~hasty /\ Settled /\ videoBuffers = << >>
        BY <1>1, <2>2, <3>1 DEF SUBOUT
      <3> QED
        BY <2>1, <2>2, <3>2 DEF Settled, video, vthread
    <2>3. CASE refused' = (refused \/ ~bStopped) /\ UNCHANGED <<session, mpc, hasty>>
      <3>1. refused \/ bStopped => refused' \/ bStopped'
        BY <2>1, <2>3 DEF video
      <3>2. refused => refused'
        BY <2>3
      <3>3. mpc = "top" /\ (bStopped => videoBuffers = << >>) /\ (~bStopped => refused')
        BY <1>1, <2>3 DEF SUBOUT
      <3> QED
        BY <2>1, <2>3, <3>1, <3>2, <3>3 DEF video, vthread
    <2> QED
      BY <1>1, <2>2, <2>3 DEF SUBOUT
  <1>2. CASE StartWriter
    BY <1>2 DEF StartWriter, vthread, audio, athread
  <1>3. CASE StartCmd
    BY <1>3 DEF StartCmd, vthread, audio, athread
  <1>4. CASE StartFlag
    BY <1>4 DEF StartFlag, audio, athread
  <1>5. CASE STOPSUB
    BY <1>5 DEF STOPSUB, vthread, audio, athread
  <1>6. CASE StopQueue
    BY <1>6 DEF StopQueue, vthread, audio, athread
  <1>7. CASE StopAudio
    BY <1>7 DEF StopAudio, video, vthread, athread
  <1>8. CASE Write
    <2> DEFINE f == [of |-> session, as |-> request, no |-> frames']
    <2>1. UNCHANGED <<mpc, request, session, hasty, refused, bStopped, writer, pipe_cmd, vthread>>
      BY <1>8 DEF Write
    <2>2. ~hasty => \A i \in DOMAIN videoBuffers' : refused \/ videoBuffers'[i].as = session
      <3>1. CASE UNCHANGED videoBuffers
        BY <3>1
      <3>2. CASE ~bStopped /\ videoBuffers' = Append(videoBuffers, f)
        <4>1. f.as = request
          OBVIOUS
        <4>2. f \in Frame
          BY <1>8 DEF Write, Frame
        <4> HIDE DEF f
        <4>3. /\ DOMAIN videoBuffers = 1 .. Len(videoBuffers)
              /\ DOMAIN videoBuffers' = 1 .. Len(videoBuffers) + 1
              /\ \A i \in 1 .. Len(videoBuffers) : videoBuffers'[i] = videoBuffers[i]
              /\ videoBuffers'[Len(videoBuffers) + 1] = f
          BY <3>2, <4>2, PushFacts
        <4>4. ~hasty => refused \/ request = session
          BY <3>2
        <4>5. ~hasty => \A i \in DOMAIN videoBuffers : refused \/ videoBuffers[i].as = session
          OBVIOUS
        <4> HIDE DEF SubInv, PipeInv, TypeOK, PatientInv, CommandInv
        <4> QED
          BY <4>1, <4>3, <4>4, <4>5, FrameTypes DEF SubInv, PipeInv
      <3> QED
        BY <1>8, <3>1, <3>2 DEF Write
    <2> QED
      BY <2>1, <2>2 DEF vthread
  <1>9. CASE Top
    BY <1>9 DEF Top, Goto, main, video, audio, athread
  <1>10. CASE Idle
    BY <1>10 DEF Idle, Goto, main, video, audio, athread
  <1>11. CASE Popen
    BY <1>11 DEF Popen, main, audio, athread
  <1>12. CASE PopenFails
    BY <1>12 DEF PopenFails, Goto, main, video, audio, athread
  <1>13. CASE StartAudio
    BY <1>13 DEF StartAudio, main, video
  <1>14. CASE Fclose
    BY <1>14 DEF Fclose, main, video, audio, athread
  <1>15. CASE SetNull
    <2>1. SUFFICES ASSUME ~hasty
                   PROVE  PatientInv'
      BY <1>15 DEF SetNull, main
    <2> QED
      BY <1>15, <2>1 DEF SetNull, main, audio, athread
  <1>16. CASE ClearCmd
    BY <1>16 DEF ClearCmd, main, audio, athread
  <1>17. CASE Pop
    <2>1. UNCHANGED <<mpc, request, session, hasty, refused, bStopped, writer, pipe_cmd, pipes>>
      BY <1>17 DEF Pop, main
    <2>2. CASE abort \/ videoBuffers = << >>
      BY <1>17, <2>1, <2>2 DEF Pop
    <2>3. CASE ~abort /\ videoBuffers # << >>
      <3>1. /\ vpc = "pop" /\ vpc' = "write"
            /\ buf' = videoBuffers[1] /\ videoBuffers' = Tail(videoBuffers)
        BY <1>17, <2>3, PopFacts DEF Pop
      <3>2. /\ Len(videoBuffers) \in Nat \ {0}
            /\ DOMAIN videoBuffers = 1 .. Len(videoBuffers)
            /\ DOMAIN videoBuffers' = 1 .. Len(videoBuffers) - 1
            /\ \A i \in 1 .. Len(videoBuffers) - 1 : videoBuffers'[i] = videoBuffers[i + 1]
        BY <2>3, <3>1, PopFacts
      <3>3. ~hasty => \A i \in DOMAIN videoBuffers' : refused \/ videoBuffers'[i].as = session
        <4>1. ~hasty => \A i \in DOMAIN videoBuffers : refused \/ videoBuffers[i].as = session
          OBVIOUS
        <4>2. \A i \in DOMAIN videoBuffers' : i + 1 \in DOMAIN videoBuffers
          BY <3>2
        <4> HIDE DEF SubInv, TypeOK, CommandInv, PatientInv
        <4> QED
          BY <3>2, <4>1, <4>2
      <3>4. ~hasty => buf'.of = session /\ (refused \/ buf'.as = session)
        BY <3>1, <3>2 DEF FrameInv
      <3> QED
        BY <2>1, <3>1, <3>3, <3>4
    <2> QED
      BY <2>2, <2>3
  <1>18. CASE Fwrite
    BY <1>18 DEF Fwrite, main, video, audio, athread
  <1>19. CASE AudioTop
    BY <1>19 DEF AudioTop, main, video, vthread, audio
  <1>20. CASE AudioOpen
    BY <1>20 DEF AudioOpen, main, video, vthread, audio
  <1>21. CASE AudioPop
    BY <1>21 DEF AudioPop, main, video, vthread
  <1>22. CASE UNCHANGED vars
    BY <1>22 DEF vars, main, video, vthread, audio, athread
  <1> QED
    BY <1>1, <1>2, <1>3, <1>4, <1>5, <1>6, <1>7, <1>8, <1>9, <1>10, <1>11, <1>12, <1>13,
             <1>14, <1>15, <1>16, <1>17, <1>18, <1>19, <1>20, <1>21, <1>22 DEF Next,
             MainLoop, MainStep, RUN, AudioRUN

\* Every step keeps the promise of patient restarts.
LEMMA RestartStep ==
    ASSUME SubInv, [Next]_vars
    PROVE  PatientRestart'
  <1> USE SubStreamAssumption DEF SubInv, PipeInv, TypeOK, PatientInv, PatientRestart, Alive,
           Requests
  <1>1. CASE SUBOUT
    BY <1>1 DEF SUBOUT, video, vthread, audio, athread, Settled
  <1>2. CASE StartWriter
    BY <1>2 DEF StartWriter, vthread, audio, athread
  <1>3. CASE StartCmd
    BY <1>3 DEF StartCmd, vthread, audio, athread
  <1>4. CASE StartFlag
    BY <1>4 DEF StartFlag, audio, athread
  <1>5. CASE STOPSUB
    BY <1>5 DEF STOPSUB, vthread, audio, athread
  <1>6. CASE StopQueue
    BY <1>6 DEF StopQueue, vthread, audio, athread
  <1>7. CASE StopAudio
    BY <1>7 DEF StopAudio, video, vthread, athread
  <1>8. CASE Write
    BY <1>8 DEF Write, vthread, athread
  <1>9. CASE Top
    BY <1>9 DEF Top, Goto, main, video, audio, athread
  <1>10. CASE Idle
    BY <1>10 DEF Idle, Goto, main, video, audio, athread
  <1>11. CASE Popen
    BY <1>11 DEF Popen, main, audio, athread
  <1>12. CASE PopenFails
    BY <1>12 DEF PopenFails, Goto, main, video, audio, athread
  <1>13. CASE StartAudio
    BY <1>13 DEF StartAudio, main, video
  <1>14. CASE Fclose
    BY <1>14 DEF Fclose, main, video, audio, athread
  <1>15. CASE SetNull
    BY <1>15 DEF SetNull, main, audio, athread
  <1>16. CASE ClearCmd
    BY <1>16 DEF ClearCmd, main, audio, athread
  <1>17. CASE Pop
    BY <1>17 DEF Pop, main, audio, athread
  <1>18. CASE Fwrite
    <2>1. UNCHANGED <<hasty, refused, pipes>>
      BY <1>18 DEF Fwrite, main
    <2>2. SUFFICES ASSUME ~hasty
                   PROVE  PatientRestart'
      BY <2>1
    <2>3. writer = session /\ writer # 0 /\ buf.of = session /\ (refused \/ buf.as = session)
      BY <1>18, <2>2 DEF Fwrite
    <2>4. vpc' # "crashed"
      BY <1>18, <2>3 DEF Fwrite
    <2>5. \A i \in DOMAIN written' : /\ written'[i].frame.of = written'[i].pipe
                                     /\ refused' \/ written'[i].frame.as = written'[i].pipe
      <3>1. /\ TypeOK
            /\ \A i \in DOMAIN written : /\ written[i].frame.of = written[i].pipe
                                         /\ refused \/ written[i].frame.as = written[i].pipe
        BY <2>2
      <3> HIDE DEF SubInv, TypeOK, PatientInv, PatientRestart
      <3>3. /\ DOMAIN written' = 1 .. Len(written) + 1 /\ Len(written) \in Nat
            /\ written'[Len(written) + 1].pipe = writer
            /\ written'[Len(written) + 1].frame = buf
        BY <1>18, <2>3, <3>1, Written, FrameTypes
      <3>4. \A i \in DOMAIN written' : i \in 1 .. Len(written) \/ i = Len(written) + 1
        BY <3>3
      <3>5. refused' = refused
        BY <2>1
      <3> DEFINE ok(w) == w.frame.of = w.pipe /\ (refused \/ w.frame.as = w.pipe)
      <3>6. ok(written'[Len(written) + 1])
        BY <2>3, <3>3
      <3>7. \A i \in DOMAIN written' : ok(written'[i])
        <4> SUFFICES ASSUME NEW i \in DOMAIN written'
                     PROVE  ok(written'[i])
          OBVIOUS
        <4>1. CASE i = Len(written) + 1
          BY <3>6, <4>1
        <4>2. CASE i \in 1 .. Len(written)
          <5>1. written'[i] = written[i] /\ i \in DOMAIN written
            BY <1>18, <2>3, <3>1, <4>2, Written
          <5>2. ok(written[i])
            BY <3>1, <5>1
          <5> QED
            BY <5>1, <5>2
        <4> QED
          BY <3>4, <4>1, <4>2
      <3> QED
        BY <3>5, <3>7
    <2> QED
      BY <2>1, <2>2, <2>4, <2>5
  <1>19. CASE AudioTop
    BY <1>19 DEF AudioTop, main, video, vthread, audio
  <1>20. CASE AudioOpen
    BY <1>20 DEF AudioOpen, main, video, vthread, audio
  <1>21. CASE AudioPop
    BY <1>21 DEF AudioPop, main, video, vthread
  <1>22. CASE UNCHANGED vars
    BY <1>22 DEF vars, main, video, vthread, audio, athread
  <1> QED
    BY <1>1, <1>2, <1>3, <1>4, <1>5, <1>6, <1>7, <1>8, <1>9, <1>10, <1>11, <1>12, <1>13,
             <1>14, <1>15, <1>16, <1>17, <1>18, <1>19, <1>20, <1>21, <1>22 DEF Next,
             MainLoop, MainStep, RUN, AudioRUN

\* The strengthened invariant holds in every state that can be reached.
THEOREM SubInvariant == Spec => []SubInv
  <1>1. Init => SubInv
    <2> SUFFICES ASSUME Init
                 PROVE  SubInv
      OBVIOUS
    <2>1. TypeOK
      <3>1. NoFrame \in Frame /\ 0 \in 0 .. MaxFrames /\ 0 \in 0 .. MaxRequests
        BY SubStreamAssumption DEF NoFrame, Frame
      <3>2. videoBuffers \in Seq(Frame) /\ written \in Seq([pipe : Requests, frame : Frame])
        BY EmptySeq DEF Init
      <3>3. pipes \in [Requests -> {"none", "open", "closed"}]
        BY DEF Init
      <3> QED
        BY <3>1, <3>2, <3>3 DEF Init, TypeOK
    <2>2. DOMAIN videoBuffers = {} /\ DOMAIN written = {}
      BY DEF Init
    <2>3. NoStaleFrames /\ WriterIsOpen /\ FrameInv
      BY <2>2 DEF Init, NoStaleFrames, WriterIsOpen, FrameInv
    <2>4. CommandInv
      BY DEF Init, CommandInv
    <2>5. PatientInv
      BY <2>2 DEF Init, PatientInv
    <2>6. PatientRestart
      BY <2>2 DEF Init, PatientRestart, Alive
    <2> QED
      BY <2>1, <2>3, <2>4, <2>5, <2>6 DEF SubInv, PipeInv
  <1>2. SubInv /\ [Next]_vars => SubInv'
    BY TypeStep, WriterStep, CommandStep, FrameStep, StaleStep, PatientStep, RestartStep
       DEF SubInv, PipeInv
  <1> QED
    BY <1>1, <1>2, PTL DEF Spec

\* However the commands and the threads interleave, frames go to an open pipe, in
\* the order of the main loop, and never to the pipe of a later substream.
THEOREM PipesCorrect == Spec => []PipeInv
  <1>1. SubInv => PipeInv
    BY DEF SubInv
  <1> QED
    BY <1>1, SubInvariant, PTL

\* If every SUBOUT waits until the video thread has closed the last pipe, the
\* thread never uses a null pointer, at most one pipe is open, and each frame is
\* written to the substream it was queued for, in its size.
THEOREM RestartsCorrect == Spec => []PatientRestart
  <1>1. SubInv => PatientRestart
    BY DEF SubInv
  <1> QED
    BY <1>1, SubInvariant, PTL
=============================================================================
