------------------------------ MODULE RawFeed ------------------------------
(***************************************************************************)
(* The raw packet readers of videoplayer.cpp: how the decoder thread of a    *)
(* raw main material turns a sequence of VIDEO, AUDIO and EXT_AUDIO packets, *)
(* read from a file (or stdin) or from a shared memory ring, into the frames *)
(* the main loop gets.                                                      *)
(*                                                                         *)
(* A raw mainvideo is cached AV_TOGETHER: each frame takes all the audio     *)
(* that came before it.  A raw mainaudio is cached AV_SEPARATE: the audio is *)
(* cut into pieces of audio_per_frame bytes.  An EXT_AUDIO packet names the  *)
(* product its audio belongs to; audio of another product than the buffered  *)
(* one empties the buffer.                                                   *)
(*                                                                         *)
(* A byte of audio is the number of the packet that brought it, a picture is *)
(* the number of its VIDEO packet.  Packets whose header the code refuses    *)
(* have type "BAD", but for the audio length, which the model checks.        *)
(***************************************************************************)
EXTENDS Integers, Sequences, FiniteSets

CONSTANTS
    Options,        \* the settings that are considered
    Sources,        \* the packet sequences that are considered
    Chunk,          \* 1024*1024: the most audio of a packet, and the buffer's growth
    AUDIO_DELTA,    \* 64: a request that lacks no more than this is served
    audio_per_frame_num, audio_per_frame_den, \* audio_per_frame, a fraction
    frame_num,      \* max_queque_size, 100
    max_polls       \* polls of an empty ring before a read gives up, 6000

Option == [main : {"video", "audio"}, transport : {"file", "shm"},
           aud_fmt : BOOLEAN]
AudioTypes == {"AUDIO", "EXT_AUDIO"}
Packet == [type : AudioTypes \cup {"VIDEO", "BAD"}, len : Nat, product : Nat]

\* A frame of audio is more than what a request may lack: at 16 bit, 8 kHz
\* and one channel that is any rate below 240 frames per second
ASSUME RawFeedAssumption ==
    /\ Options \subseteq {o \in Option : o.main = "audio" => o.aud_fmt}
    /\ Sources \subseteq Seq(Packet)
    /\ Chunk \in Nat \ {0}
    /\ AUDIO_DELTA \in Nat
    /\ audio_per_frame_den \in Nat \ {0}
    /\ audio_per_frame_num \in Nat
    /\ audio_per_frame_num > (AUDIO_DELTA + 2) * audio_per_frame_den
    /\ frame_num \in Nat \ {0}
    /\ max_polls \in Nat \ {0}

VARIABLES
    opt, source, cut,   \* settings, packets; cut: does the file end within the last one?
    sent,               \* packets the writer has put (all of them, for a file)
    pos,                \* packets taken
    rawAudio, capacity, \* audio buffered, size of the buffer
    product_id,
    pc,                 \* where the decoder thread is
    timeout,            \* timeout_ms of the read, in polls
    wanted,             \* bytes of the frame of audio being read
    avail_frames,       \* frames of audio still to be cut from the buffer
    recv_frames, recv_audio_bytes_i, \* this call's frames (recv_audio_bytes_f) and bytes
    bEOF, error,        \* how the reader ended
    popped,             \* frames the main loop took
    out,                \* history: every frame put in videoQueue or aQueue
    drops,              \* history: what each switch of product discarded
    idle                \* history: polls since the last packet came

inputs == <<opt, source, cut>>
audioVars == <<rawAudio, capacity, product_id, drops>>
paceVars == <<wanted, avail_frames, recv_frames, recv_audio_bytes_i>>
pollVars == <<timeout, idle>>
endVars == <<bEOF, error>>
vars == <<inputs, sent, pos, audioVars, paceVars, pollVars, endVars, pc,
          popped, out>>

audio_size == Len(rawAudio)
queueSize == Len(out) - popped
file == opt.transport = "file"

\* open_raw_video.  Without aud_fmt the packets are bare pictures.
Init ==
    /\ opt \in Options /\ source \in Sources
    /\ ~opt.aud_fmt => \A i \in 1..Len(source) : source[i].type = "VIDEO"
    /\ cut \in IF file /\ source # << >> THEN BOOLEAN ELSE {FALSE}
    /\ sent = IF file THEN Len(source) ELSE 0
    /\ pos = 0
    /\ rawAudio = << >> /\ capacity = Chunk /\ product_id = 0
    /\ pc = "call" /\ timeout = 0
    /\ wanted = 0 /\ avail_frames = 0
    /\ recv_frames = 0 /\ recv_audio_bytes_i = 0
    /\ bEOF = FALSE /\ error = "none"
    /\ popped = 0 /\ out = << >> /\ drops = << >> /\ idle = 0

-----------------------------------------------------------------------------
(* cache_video_data, called by RUN until the end of the source or an error. *)

Call ==
    /\ pc = "call"
    /\ pc' = IF bEOF THEN "done" ELSE "loop"
    /\ recv_frames' = 0 /\ recv_audio_bytes_i' = 0
    /\ UNCHANGED <<inputs, sent, pos, audioVars, wanted, avail_frames, pollVars,
                   endVars, popped, out>>

\* The queue has room: a video frame is read, or as many frames of audio as
\* the buffer holds (at least one) are asked for
CacheMore ==
    /\ pc = "loop"
    /\ IF queueSize >= frame_num
         THEN pc' = "call" /\ UNCHANGED avail_frames
         ELSE /\ pc' = IF opt.main = "video" THEN "read" ELSE "want"
              /\ avail_frames' = (audio_size * audio_per_frame_den)
                                   \div audio_per_frame_num
    /\ timeout' = 0
    /\ UNCHANGED <<inputs, sent, pos, audioVars, wanted, recv_frames,
                   recv_audio_bytes_i, idle, endVars, popped, out>>

\* What is missing to the frames so far, rounded up to a whole sample
NextWanted ==
    LET bytes == ((recv_frames + 1) * audio_per_frame_num)
                    \div audio_per_frame_den - recv_audio_bytes_i
    IN  bytes + (bytes % 2)

\* Mutant: a buffer that holds enough is not looked at first
WantAlwaysReads ==
    /\ pc = "want"
    /\ wanted' = NextWanted
    /\ pc' = "read"
    /\ timeout' = 0
    /\ UNCHANGED <<inputs, sent, pos, audioVars, avail_frames, recv_frames,
                   recv_audio_bytes_i, idle, endVars, popped, out>>

Want ==
    /\ pc = "want"
    /\ wanted' = NextWanted
    /\ pc' = IF audio_size + AUDIO_DELTA >= wanted' THEN "take" ELSE "read"
    /\ timeout' = 0
    /\ UNCHANGED <<inputs, sent, pos, audioVars, avail_frames, recv_frames,
                   recv_audio_bytes_i, idle, endVars, popped, out>>

\* What this call has handed on, n more bytes included
Received(n) == recv_audio_bytes_i + n

\* What stays in the buffer after its first n bytes (memmove).  Mutant: one
\* byte too many.
LeftoverOneMore(n) == SubSeq(rawAudio, IF n = 0 THEN 1 ELSE n, audio_size)
Leftover(n) == SubSeq(rawAudio, n + 1, audio_size)

\* read_audio_data hands on what was wanted, or what there is; nothing, asked
\* for alone, is the end of the source
Take ==
    /\ pc = "take"
    /\ LET n == IF wanted > audio_size THEN audio_size ELSE wanted
       IN  /\ out' = IF n = 0 THEN out
                     ELSE Append(out, [video |-> 0, audio |-> SubSeq(rawAudio, 1, n),
                                       product_id |-> product_id])
           /\ rawAudio' = Leftover(n)
           /\ recv_frames' = recv_frames + 1
           /\ recv_audio_bytes_i' = Received(n)
           /\ avail_frames' = IF avail_frames = 0 \/ n < wanted THEN 0
                              ELSE avail_frames - 1
           /\ bEOF' = (n = 0 /\ avail_frames = 0)
           /\ pc' = IF bEOF' THEN "call"
                    ELSE IF avail_frames' > 0 THEN "want" ELSE "loop"
    /\ UNCHANGED <<inputs, sent, pos, capacity, product_id, drops, wanted,
                   pollVars, error, popped>>

-----------------------------------------------------------------------------
(* The packet loops: read_rawvideo_frame, read_rawaudio_frame and their     *)
(* _shm forms.  One packet is read per step.                                *)

next == source[pos + 1]
\* The next packet is there, whole or (at the end of a file) in part
Whole == pos < sent /\ ~(cut /\ pos + 1 = Len(source))
Cut == pos < sent /\ cut /\ pos + 1 = Len(source)

Fail(why) ==
    /\ error' = why
    /\ pc' = "done"
    /\ UNCHANGED bEOF

\* Mutant: a plain AUDIO packet in a file leaves the product as it is
NextProductKeeps == IF next.type = "EXT_AUDIO" THEN next.product ELSE product_id

\* A plain AUDIO packet is of product 0 in a file and of the current product
\* in shared memory
NextProduct ==
    IF next.type = "EXT_AUDIO" THEN next.product
    ELSE IF file THEN 0 ELSE product_id

\* Mutant: the buffer is not emptied
SwitchKeeps ==
    /\ product_id' = NextProduct
    /\ drops' = drops

\* Another product: its first packet empties the buffer
Switch ==
    /\ product_id' = NextProduct
    /\ drops' = IF product_id' # product_id THEN Append(drops, rawAudio) ELSE drops

Kept == IF drops' # drops THEN << >> ELSE rawAudio

LengthOK == next.len \in 1..Chunk

\* A packet came: timeout_ms = 0
Came == timeout' = 0 /\ idle' = 0

\* The audio of the packet is put behind the buffer, which grows when needed.
\* A raw mainaudio reads until it has what is wanted.
ReadAudio ==
    /\ pc = "read" /\ Whole
    /\ next.type \in AudioTypes /\ LengthOK
    /\ Switch
    /\ rawAudio' = Kept \o [i \in 1..next.len |-> pos + 1]
    /\ capacity' = capacity + (IF next.len + Len(Kept) > capacity THEN Chunk ELSE 0)
    /\ pos' = pos + 1
    /\ pc' = IF opt.main = "audio" /\ Len(rawAudio') + AUDIO_DELTA >= wanted
             THEN "take" ELSE "read"
    /\ Came
    /\ UNCHANGED <<inputs, sent, paceVars, endVars, popped, out>>

\* The header is enough to refuse a packet
ReadBadLength ==
    /\ pc = "read" /\ pos < sent
    /\ next.type \in AudioTypes /\ ~LengthOK
    /\ Switch
    /\ rawAudio' = Kept
    /\ pos' = pos + 1
    /\ Fail("packet")
    /\ Came
    /\ UNCHANGED <<inputs, sent, capacity, paceVars, popped, out>>

ReadBad ==
    /\ pc = "read" /\ pos < sent
    /\ next.type = "BAD"
    /\ pos' = pos + 1
    /\ Fail("packet")
    /\ Came
    /\ UNCHANGED <<inputs, sent, audioVars, paceVars, popped, out>>

\* A raw mainaudio skips the picture
DiscardVideo ==
    /\ pc = "read" /\ Whole
    /\ next.type = "VIDEO" /\ opt.main = "audio"
    /\ pos' = pos + 1
    /\ Came
    /\ UNCHANGED <<inputs, sent, audioVars, paceVars, endVars, pc, popped, out>>

\* Mutant: the audio of a frame stays for the next one too
ReadVideoKeeps ==
    /\ pc = "read" /\ Whole
    /\ next.type = "VIDEO" /\ opt.main = "video"
    /\ pos' = pos + 1
    /\ out' = Append(out, [video |-> pos', audio |-> rawAudio,
                           product_id |-> product_id])
    /\ pc' = "loop"
    /\ Came
    /\ UNCHANGED <<inputs, sent, audioVars, paceVars, endVars, popped>>

\* A picture with all the audio that came before it is put in videoQueue
ReadVideo ==
    /\ pc = "read" /\ Whole
    /\ next.type = "VIDEO" /\ opt.main = "video"
    /\ pos' = pos + 1
    /\ out' = Append(out, [video |-> pos', audio |-> rawAudio,
                           product_id |-> product_id])
    /\ rawAudio' = << >>
    /\ pc' = "loop"
    /\ Came
    /\ UNCHANGED <<inputs, sent, capacity, product_id, drops, paceVars, endVars,
                   popped>>

\* Mutant: a raw mainaudio ends with what it has buffered unread
EndOfFileAtOnce ==
    /\ bEOF' = TRUE
    /\ pc' = "call"

\* The end of a file, or of what there is of it: a raw mainvideo has no frame,
\* a raw mainaudio hands on what it has buffered
EndOfFile ==
    IF opt.main = "video"
      THEN bEOF' = TRUE /\ pc' = "call"
      ELSE pc' = "take" /\ UNCHANGED bEOF

ReadEOF ==
    /\ pc = "read" /\ file
    /\ pos = Len(source)
    /\ EndOfFile
    /\ UNCHANGED <<inputs, sent, pos, audioVars, paceVars, pollVars, error,
                   popped, out>>

\* The file ends in the header, the extended header or in the data: by then
\* the product was switched
ReadCut ==
    /\ pc = "read" /\ Cut
    /\ pos' = pos + 1
    /\ \/ UNCHANGED audioVars
       \/ /\ next.type \in AudioTypes /\ LengthOK
          /\ Switch
          /\ rawAudio' = Kept
          /\ capacity' = capacity + (IF next.len + Len(Kept) > capacity THEN Chunk ELSE 0)
    /\ EndOfFile
    /\ UNCHANGED <<inputs, sent, paceVars, pollVars, error, popped, out>>

\* fread or sq_get report an error: a fault, which nothing makes happen
ReadError ==
    /\ pc = "read"
    /\ Fail("read")
    /\ UNCHANGED <<inputs, sent, pos, audioVars, paceVars, pollVars, popped, out>>

\* Mutant: an empty ring is polled without end
PollForever ==
    /\ pc = "read" /\ ~file
    /\ pos = sent
    /\ UNCHANGED <<timeout, idle, endVars, pc>>
    /\ UNCHANGED <<inputs, sent, pos, audioVars, paceVars, popped, out>>

\* An empty ring is polled every 10 ms; after a minute without a packet the
\* length 0 is refused like any other too short for a header
Poll ==
    /\ pc = "read" /\ ~file
    /\ pos = sent
    /\ timeout' = timeout + 1 /\ idle' = idle + 1
    /\ IF timeout' > max_polls THEN Fail("timeout") ELSE UNCHANGED <<endVars, pc>>
    /\ UNCHANGED <<inputs, sent, pos, audioVars, paceVars, popped, out>>

Reader ==
    \/ Call \/ CacheMore \/ Want \/ Take
    \/ ReadAudio \/ ReadBadLength \/ ReadBad \/ DiscardVideo \/ ReadVideo
    \/ ReadEOF \/ ReadCut \/ Poll

-----------------------------------------------------------------------------
(* The two neighbours: the program that writes the ring (external) and the  *)
(* main loop that takes the frames.                                         *)

Send ==
    /\ sent < Len(source)
    /\ sent' = sent + 1
    /\ UNCHANGED <<inputs, pos, audioVars, paceVars, pollVars, endVars, pc,
                   popped, out>>

\* Mutant: an empty queue is popped
PopEmpty ==
    /\ popped' = popped + 1
    /\ UNCHANGED <<inputs, sent, pos, audioVars, paceVars, pollVars, endVars, pc,
                   out>>

Pop ==
    /\ queueSize > 0
    /\ popped' = popped + 1
    /\ UNCHANGED <<inputs, sent, pos, audioVars, paceVars, pollVars, endVars, pc,
                   out>>

Next == Reader \/ ReadError \/ Send \/ Pop

Spec == Init /\ [][Next]_vars

\* The decoder thread runs and the main loop keeps reading; nothing is assumed
\* of the program that writes the ring
FairSpec == Spec /\ WF_vars(Reader) /\ WF_vars(Pop)

-----------------------------------------------------------------------------
(* Properties.                                                              *)

Frame == [video : Nat, audio : Seq(Nat), product_id : Nat]

\* Every variable has a value of its type, positions are within the source, and
\* no more frames are popped than were queued (videoQueue, aQueue).
TypeOK ==
    /\ opt \in Options /\ source \in Sources /\ cut \in BOOLEAN
    /\ pos \in Nat /\ sent \in Nat /\ pos <= sent /\ sent <= Len(source)
    /\ rawAudio \in Seq(Nat) /\ capacity \in Nat /\ product_id \in Nat
    /\ pc \in {"call", "loop", "want", "read", "take", "done"}
    /\ timeout \in Nat /\ idle \in Nat
    /\ wanted \in Int /\ avail_frames \in Nat
    /\ recv_frames \in Nat /\ recv_audio_bytes_i \in Nat
    /\ bEOF \in BOOLEAN /\ error \in {"none", "packet", "read", "timeout"}
    /\ out \in Seq(Frame) /\ popped \in 0..Len(out)
    /\ drops \in Seq(Seq(Nat))

\* Packet i of s names a product: EXT_AUDIO does, and in a file (f) plain AUDIO
\* names product 0
Names(s, f, i) ==
    \/ s[i].type = "EXT_AUDIO"
    \/ f /\ s[i].type = "AUDIO"
Named(s, i) == IF s[i].type = "EXT_AUDIO" THEN s[i].product ELSE 0

\* p is the product the source is at after n packets: the last one named
CurrentIn(s, f, n, p) ==
    \/ p = 0 /\ \A i \in 1..n : ~Names(s, f, i)
    \/ \E i \in 1..n : /\ Names(s, f, i) /\ Named(s, i) = p
                       /\ \A j \in (i + 1)..n : ~Names(s, f, j)
Current(n, p) == CurrentIn(source, file, n, p)

\* Every byte of audio that reaches the main loop is of the product its frame
\* is tagged with, whatever the products that were switched to in between: the
\* main loop shows the materials of that product (decorateVideo.cpp:1475, 1670).
TagMatches ==
    \A k \in 1..Len(out) : \A i \in 1..Len(out[k].audio) :
        Current(out[k].audio[i], out[k].product_id)

\* The copy of a packet's audio stays within rawAudio (one resize is enough).
BufferFits == audio_size <= capacity

Occurs(s, q) == Cardinality({i \in 1..Len(s) : s[i] = q})

Products == {0} \cup {source[i].product : i \in 1..Len(source)}
SameProduct(i, j) == \E p \in Products : Current(i, p) /\ Current(j, p)

\* The audio that belongs to the picture in packet v: the packets since the
\* picture before it after which no other product was switched to
FrameAudio(v) ==
    {q \in 1..v - 1 :
        /\ source[q].type \in AudioTypes
        /\ \A i \in q..v - 1 : source[i].type # "VIDEO" /\ SameProduct(q, i)}

\* A raw mainvideo hands on every picture in turn, each with all of its own
\* audio and with no other (AV_TOGETHER: "read all available audio into the
\* current frame", videoplayer.h:128), over both transports.
FrameComplete ==
    opt.main = "video" =>
        \A k \in 1..Len(out) : LET v == out[k].video IN
            /\ k = Cardinality({i \in 1..v : source[i].type = "VIDEO"})
            /\ source[v].type = "VIDEO"
            /\ \A q \in 1..Len(source) :
                   Occurs(out[k].audio, q) =
                       IF q \in FrameAudio(v) THEN source[q].len ELSE 0

\* The bytes of packet q in a sequence of pieces of audio, in those handed on and
\* in those a switch discarded
Total(pieces, q) ==
    Cardinality(UNION {{k} \X {i \in 1..Len(pieces[k]) : pieces[k][i] = q} :
                       k \in 1..Len(pieces)})
Delivered(q) == Total([k \in 1..Len(out) |-> out[k].audio], q)
Dropped(q) == Total(drops, q)
Sorted(s) == \A i, j \in 1..Len(s) : i < j => s[i] <= s[j]

\* Every byte that was read is, once, in a frame handed on, in the buffer or
\* among those a switch discarded, and the frames and the buffer hold them in
\* the order they were sent.
AudioIntact ==
    /\ \A q \in 1..pos :
           source[q].type \in AudioTypes /\ source[q].len \in 1..Chunk /\ ~(cut /\ q = Len(source)) =>
               Delivered(q) + Dropped(q) + Occurs(rawAudio, q) = source[q].len
    /\ Sorted(rawAudio)
    /\ \A k \in 1..Len(out) :
           /\ Sorted(out[k].audio)
           /\ k < Len(out) => Sorted(out[k].audio \o out[k + 1].audio)
           /\ Sorted(out[k].audio \o rawAudio)

\* A switch of product costs a raw mainaudio less than one frame of audio (and
\* one byte of rounding): it reads no further ahead than the frame it is asked for.
SwitchLoss ==
    opt.main = "audio" =>
        \A k \in 1..Len(drops) :
            (Len(drops[k]) - 1) * audio_per_frame_den < audio_per_frame_num

\* The audio of a call keeps pace with its frames: never more than a byte of
\* rounding ahead, never more than a byte and AUDIO_DELTA behind, until the
\* source ends (recv_audio_bytes_f against recv_audio_bytes_i).
Pace ==
    opt.main = "audio" /\ pos < Len(source) =>
        LET due == recv_frames * audio_per_frame_num
            got == recv_audio_bytes_i * audio_per_frame_den
        IN  /\ got <= due + audio_per_frame_den
            /\ got > due - (1 + AUDIO_DELTA) * audio_per_frame_den

\* The amounts of audio stay within their bounds: in the buffer, against the
\* frames of a call, and of what a switch discards.
AudioBounds == BufferFits /\ Pace /\ SwitchLoss

\* The end is declared only at the end of the file, with every whole picture
\* or every byte of audio handed on or, at a switch, discarded.
EofComplete ==
    bEOF =>
        /\ file /\ pos = Len(source)
        /\ IF opt.main = "audio" THEN rawAudio = << >>
           ELSE Len(out) = Cardinality({i \in 1..pos : /\ source[i].type = "VIDEO"
                                                       /\ ~(cut /\ i = pos)})

\* A read of shared memory gives up only after a whole minute in which no
\* packet came, not after a minute of short pauses.
PatientRead == error = "timeout" => idle > max_polls

\* The reader does not stop early: neither for the end of a file nor for a
\* silent writer that is not one.
EndIsReal == EofComplete /\ PatientRead

\* The decoder thread ends, even when the program that writes the ring stops
\* without a word.
Ends == <>(pc = "done")
=============================================================================
