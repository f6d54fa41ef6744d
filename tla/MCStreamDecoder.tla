-------------------------- MODULE MCStreamDecoder ---------------------------
(* The instance of StreamDecoder for TLC.                                   *)
EXTENDS StreamDecoder

\* Videos with and without sound and audios, as files and as streams.  One
\* START or STOP for a video with sound from a stream, the largest of them.
AllOptions ==
    {[stream |-> s, video |-> v, audio |-> a,
      max_commands |-> IF s /\ v /\ a THEN 1 ELSE 2] :
        s \in BOOLEAN, <<v, a>> \in {<<TRUE, TRUE>>, <<TRUE, FALSE>>, <<FALSE, TRUE>>}}
=============================================================================
