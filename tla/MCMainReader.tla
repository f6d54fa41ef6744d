---------------------------- MODULE MCMainReader ----------------------------
(* The settings of MainReader that the program can be started with.          *)
EXTENDS MainReader

\* A buffer floor belongs to a main video that is a stream (rtmp://), shm://
\* to a main video, and audio that is sent ahead to a main audio.  A main video
\* without its own sound is tried as a file
AllOptions ==
    {o \in [main : {"video", "audio"}, floor_size : {0, 1}, has_stream_io : BOOLEAN,
            is_shm : BOOLEAN, audio_ahead : {0, 2}, tstep : 1 .. 3, ostep : 1 .. 3,
            sound : {"own", "none", "separate"}] :
        /\ o.floor_size > 0 => o.main = "video" /\ o.has_stream_io /\ ~o.is_shm
        /\ o.is_shm => o.main = "video"
        /\ o.audio_ahead > 0 => o.main = "audio"
        /\ o.tstep = o.ostep => o.tstep = 2
        /\ o.main = "audio" => o.tstep = o.ostep /\ o.sound = "own"
        /\ o.sound # "own" => ~o.has_stream_io /\ ~o.is_shm}

\* A main video file and no stream at all
FileOptions ==
    {o \in AllOptions : o.main = "video" /\ ~o.has_stream_io /\ ~o.is_shm /\ o.tstep = o.ostep
                         /\ o.sound = "own"}
=============================================================================
