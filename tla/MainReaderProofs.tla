-------------------------- MODULE MainReaderProofs --------------------------
(***************************************************************************)
(* What holds of the main material for any length of the source, any size   *)
(* of the queue and any pair of frame rates.                                *)
(***************************************************************************)
EXTENDS MainReader, QueueLemmas

-----------------------------------------------------------------------------
(* The inductive invariant.                                                 *)

\* The frames between the source and the main loop, the oldest first
Transit == taken \o queue \o InFlight

\* Every frame in transit was read, after as many others as are before it.
ReadInv == \A i \in DOMAIN Transit : i <= Transit[i] /\ Transit[i] <= pos

\* The control of both threads: a read is only begun for a frame that is needed,
\* the decoder stops at the end of the source, and a read that found a frame
\* ends the count of timeouts.
LoopInv ==
    /\ result = "running" <=> mpc \in {"top", "pop", "missed"}
    /\ mpc \in {"pop", "missed"} => NeedsFrame
    /\ first_frame_ready <=> out # << >>
    /\ main_vdata # 0 => timeout_num = 0
    /\ bEOF => dpc \in {"loop", "done"}
    /\ dpc = "push" => pos # 0

\* How long the frames taken last
Played == Len(taken) * opt.tstep

\* The frame of this iteration is the last one taken; without one the last one
\* taken is on the screen.
FrameInv ==
    /\ main_vdata # 0 => taken # << >> /\ main_vdata = taken[Len(taken)]
    /\ main_vdata = 0 /\ taken # << >> => out # << >> /\ out[Len(out)] = taken[Len(taken)]
    /\ out # << >> => taken # << >>

\* Equal rates: a frame of the source is a frame of the output.
PlainInv ==
    /\ shown = 0 /\ ~late
    /\ Len(taken) = Len(out) + (IF main_vdata = 0 THEN 0 ELSE 1)

\* Before the first frame of a conversion is rendered.
FirstInv ==
    /\ out = << >> /\ cts = 0 /\ ~late
    /\ Len(taken) = IF main_vdata = 0 THEN 0 ELSE 1

\* What a conversion that has begun keeps whatever the rates are.
ShownInv ==
    /\ out # << >> /\ taken # << >>
    /\ main_vdata = 0 => shown = taken[Len(taken)]
    /\ Played <= ts + opt.tstep

\* The source is slower: frames are shown again, and no read is needed after the
\* first one of an iteration.
RepeatInv ==
    /\ ~late
    /\ cts + opt.tstep = Played
    /\ ts <= Played + (IF main_vdata = 0 THEN opt.ostep ELSE 0)

\* The source is faster: every iteration needs a frame, and passes over some.
\* A read that finds nothing although one in the same iteration did moves the
\* clock ahead of the frames: by one frame while there are others in the queue,
\* by more when it is empty for good, and then the next iteration is the last.
SkipInv ==
    /\ Played <= cts + opt.tstep
    /\ IF main_vdata = 0 THEN cts + opt.tstep < ts ELSE cts < ts
    /\ cts + opt.tstep > Played =>
          bEOF /\ mpc # "missed" /\ (mpc = "pop" => queue # << >>)
    /\ cts > Played => bEOF /\ queue = << >>
    /\ \/ late
       \/ ts <= Played + opt.tstep + opt.ostep
       \/ main_vdata = 0 /\ cts > Played /\ ts <= Played + opt.tstep + 2 * opt.ostep

ClockInv ==
    /\ ~converts => PlainInv
    /\ converts /\ shown = 0 => FirstInv
    /\ converts /\ shown # 0 => ShownInv
    /\ converts /\ shown # 0 /\ opt.tstep > opt.ostep => RepeatInv
    /\ converts /\ shown # 0 /\ opt.tstep < opt.ostep => SkipInv

PictureInv == result = "running" => FrameInv /\ ClockInv

\* The sound: that of a raw mainaudio is not ahead of its frames by more than the
\* rounding, a separate mainaudio is not ahead at all, and what was received of a
\* mainvideo's own sound is behind the frames taken by the recorded gap at most.
SoundInv ==
    /\ main_vdata = 0 => main_adata = 0
    /\ opt.main = "audio" => /\ main_adata <= opt.tstep
                             /\ sent_audio_bytes <= ts + opt.audio_ahead
    /\ opt.sound = "separate" => sent_audio_bytes <= ts
    /\ opt.main = "video" /\ opt.sound = "own" =>
          /\ Played + silence <= sent_audio_bytes + main_adata + gap
          /\ silence <= IF opt.tstep > opt.ostep THEN opt.ostep + gap ELSE 0

HeardInv == result = "running" => SoundInv

ReaderInv ==
    /\ FramesKept /\ ReadInv /\ LoopInv /\ PictureInv /\ HeardInv
    /\ EofIsReal /\ Duration

-----------------------------------------------------------------------------
(* The steps of the main loop, sorted by what they do to the pictures.      *)

\* The decoder has no part in it
Calm == UNCHANGED <<opt, bEOF, bExit, error_ret, dvars>>

\* A read goes on, or is tried again
Waits ==
    /\ Calm /\ UNCHANGED <<first_frame_ready, iteration, sound, result, taken, out, gap, late>>
    /\ \/ /\ mpc = "top" /\ mpc' = "pop" /\ NeedsFrame /\ UNCHANGED timeout_num
          /\ queue' \in {queue, Floors(queue, opt.floor_size)}
          /\ bEOF => queue # << >>
       \/ /\ mpc = "pop" /\ mpc' = "missed" /\ queue = << >> /\ UNCHANGED <<queue, timeout_num>>
       \/ /\ mpc = "missed" /\ mpc' = "top" /\ UNCHANGED queue
          /\ main_vdata = 0 /\ timeout_num' \in 0 .. read_timeout

\* The main loop is left
Quits(how) ==
    /\ Calm /\ UNCHANGED queue /\ Leave(how)
    /\ mpc \in {"top", "missed"} /\ NeedsFrame
    /\ how = "EOF" => /\ main_vdata = 0
                      /\ bEOF \/ (~can_wait /\ (opt.main = "video" \/ audio_due <= 0))

\* The clock goes on without a frame
Jumps ==
    /\ Calm /\ UNCHANGED <<queue, first_frame_ready, main_vdata, main_adata, shown, sound, result,
                           taken, out, gap, late>>
    /\ main_vdata # 0 /\ NeedsFrame /\ bEOF
    /\ mpc = "missed" \/ (mpc = "top" /\ queue = << >>)
    /\ mpc' = "top" /\ timeout_num' = 0
    /\ cts' = cts + opt.tstep

\* A frame is rendered: because it is its time, or the next one is late
Shows ==
    /\ Calm /\ UNCHANGED queue /\ Render
    /\ \/ /\ mpc = "top" /\ ~NeedsFrame /\ UNCHANGED <<timeout_num, late>>
       \/ /\ mpc = "missed" /\ main_vdata # 0 /\ ~bEOF
          /\ timeout_num' = timeout_num + 1 /\ late' = TRUE

\* Silence is sent for missing main audio
Mutes ==
    /\ Calm /\ UNCHANGED <<queue, first_frame_ready, iteration, silence, result, taken, out, gap, late>>
    /\ opt.main = "audio" /\ mpc = "missed" /\ mpc' = "top"
    /\ timeout_num' = 0 /\ sent_audio_bytes' = ts

\* The decoder is closed
Closes ==
    /\ mpc \in {"close", "join"} /\ mpc' \in {"join", "closed"}
    /\ bExit' \in BOOLEAN
    /\ UNCHANGED <<opt, queue, bEOF, error_ret, dvars, timeout_num, first_frame_ready, iteration,
                   sound, result, taken, out, gap, late>>

\* What the settings and the lengths are, as numbers
NumberFacts ==
    /\ opt.tstep \in Nat /\ opt.tstep > 0 /\ opt.ostep \in Nat /\ opt.ostep > 0
    /\ opt.floor_size \in Nat /\ opt.audio_ahead \in Nat
    /\ opt.has_stream_io \in BOOLEAN /\ opt.is_shm \in BOOLEAN
    /\ opt.main \in {"video", "audio"}
    /\ opt.main = "audio" => opt.sound = "own"
    /\ opt.main = "video" => opt.audio_ahead = 0
    /\ converts => opt.main = "video"
    /\ Len(out) \in Nat /\ Len(taken) \in Nat /\ ts \in Nat /\ Played \in Nat
    /\ audio_due = ts + opt.ostep - sent_audio_bytes
    /\ read_timeout \in Nat /\ read_timeout > 0 /\ NumFrames \in Nat

\* The types say so.
LEMMA Numbers ==
    ASSUME TypeOK
    PROVE  NumberFacts
  <1>1. /\ opt \in Option
        /\ opt.main = "audio" => opt.tstep = opt.ostep /\ opt.sound = "own"
        /\ opt.main = "video" => opt.audio_ahead = 0
    BY MainReaderAssumption DEF TypeOK
  <1>2. Len(out) \in Nat /\ Len(taken) \in Nat
    BY DEF TypeOK
  <1>3. ts \in Nat /\ Played \in Nat /\ (num + 1) * opt.ostep = ts + opt.ostep
    BY <1>1, <1>2, Products DEF Option, ts, num, Played
  <1>4. /\ opt.tstep \in Nat /\ opt.tstep > 0 /\ opt.ostep \in Nat /\ opt.ostep > 0
        /\ opt.floor_size \in Nat /\ opt.audio_ahead \in Nat
        /\ opt.has_stream_io \in BOOLEAN /\ opt.is_shm \in BOOLEAN
        /\ opt.main \in {"video", "audio"}
    BY <1>1 DEF Option
  <1>5. converts => opt.main = "video"
    BY <1>1, <1>4 DEF converts
  <1>6. audio_due = ts + opt.ostep - sent_audio_bytes
    BY <1>2, <1>3, <1>4 DEF audio_due, num, TypeOK
  <1> QED
    BY <1>1, <1>2, <1>3, <1>4, <1>5, <1>6, MainReaderAssumption DEF NumberFacts

\* The decoder reads, queues and ends; the main loop's part stays.
LEMMA DecoderSteps ==
    ASSUME TypeOK, Decoder
    PROVE  /\ UNCHANGED <<opt, bExit, mvars>>
           /\ bEOF => bEOF'
           /\ queue' = queue \/ (dpc = "push" /\ queue' = Append(queue, pos))
  <1>1. CASE RUN
    BY <1>1 DEF RUN
  <1>2. CASE CacheMore
    BY <1>2 DEF CacheMore
  <1>3. CASE CacheFrame
    BY <1>3 DEF CacheFrame
  <1>4. CASE CachePush
    BY <1>4 DEF CachePush
  <1>5. CASE CacheEOF
    BY <1>5 DEF CacheEOF
  <1>6. CASE CacheError
    BY <1>6 DEF CacheError
  <1> QED
    BY <1>1, <1>2, <1>3, <1>4, <1>5, <1>6 DEF Decoder

\* The main loop does nothing else.
LEMMA MainSteps ==
    ASSUME TypeOK, LoopInv, MainLoop
    PROVE  \/ Waits \/ Quits("EOF") \/ Quits("failure") \/ Jumps \/ PopFrame \/ Shows \/ Mutes
           \/ Closes
  <1>1. CASE ReadBegin
    <2>1. CASE bEOF /\ queue = << >>
      <3>1. Calm /\ UNCHANGED queue /\ mpc = "top" /\ NeedsFrame /\ NoData
        BY <1>1, <2>1 DEF ReadBegin, Calm
      <3>2. CASE main_vdata = 0 /\ Leave("EOF")
        BY <2>1, <3>1, <3>2 DEF Quits
      <3>3. CASE main_vdata # 0
        BY <2>1, <3>1, <3>3 DEF NoData, Jumps
      <3> QED
        BY <3>1, <3>2, <3>3 DEF NoData
    <2>2. CASE ~(bEOF /\ queue = << >>)
      BY <1>1, <2>2 DEF ReadBegin, Waits, Calm
    <2> QED
      BY <2>1, <2>2
  <1>2. CASE PopNothing
    BY <1>2 DEF PopNothing, Waits, Calm
  <1>3. CASE AfterMiss
    <2>1. Calm /\ UNCHANGED queue /\ mpc = "missed" /\ NeedsFrame
      BY <1>3 DEF AfterMiss, Calm, LoopInv
    <2>2. CASE error_ret /\ Leave("failure")
      BY <2>1, <2>2 DEF Quits
    <2>3. CASE bEOF /\ NoData
      <3>1. CASE main_vdata = 0 /\ Leave("EOF")
        BY <2>1, <2>3, <3>1 DEF Quits
      <3>2. CASE main_vdata # 0
        BY <2>1, <2>3, <3>2 DEF NoData, Jumps
      <3> QED
        BY <2>3, <3>1, <3>2 DEF NoData
    <2>4. CASE ~bEOF /\ NotArrived
      <3>1. CASE Leave("failure")
        BY <2>1, <3>1 DEF Quits
      <3>2. CASE main_vdata # 0 /\ timeout_num' = timeout_num + 1 /\ Render /\ late' = TRUE
        BY <2>1, <2>4, <3>2 DEF Shows
      <3>3. CASE /\ main_vdata = 0 /\ timeout_num < read_timeout
                 /\ timeout_num' = timeout_num + 1 /\ mpc' = "top"
                 /\ UNCHANGED <<first_frame_ready, iteration, sound, result, taken, out, gap, late>>
        BY <2>1, <3>3, Numbers DEF Waits, TypeOK, NumberFacts
      <3>4. CASE main_vdata = 0 /\ ~can_wait /\ (opt.main = "video" \/ audio_due <= 0) /\ Leave("EOF")
        BY <2>1, <3>4 DEF Quits
      <3>5. CASE /\ opt.main = "audio" /\ timeout_num' = 0 /\ sent_audio_bytes' = num * opt.ostep
                 /\ mpc' = "top"
                 /\ UNCHANGED <<first_frame_ready, iteration, silence, result, taken, out, gap, late>>
        BY <2>1, <3>5 DEF Mutes, ts
      <3> QED
        BY <2>4, <3>1, <3>2, <3>3, <3>4, <3>5 DEF NotArrived
    <2> QED
      BY <1>3, <2>2, <2>3, <2>4 DEF AfterMiss
  <1>4. CASE ShowFrame
    BY <1>4 DEF ShowFrame, Shows, Calm
  <1>5. CASE CloseBegin \/ CloseJoin
    BY <1>5 DEF CloseBegin, CloseJoin, Closes, TypeOK
  <1> QED
    BY <1>1, <1>2, <1>3, <1>4, <1>5 DEF MainLoop

-----------------------------------------------------------------------------
(* Types and control.                                                       *)

\* A rendered frame is one of the source: the one that was read, or the last
\* one again.
LEMMA ShownIsFrame ==
    ASSUME TypeOK, LoopInv, Shows
    PROVE  /\ main_vdata # 0 \/ (converts /\ shown # 0)
           /\ (IF main_vdata # 0 THEN main_vdata ELSE shown) \in 1 .. NumFrames
           /\ out' \in Seq(1 .. NumFrames) /\ out' # << >>
  <1>1. main_vdata # 0 \/ (converts /\ shown # 0)
    BY DEF Shows, NeedsFrame
  <1>n. NumberFacts
    BY Numbers
  <1>2. (IF main_vdata # 0 THEN main_vdata ELSE shown) \in 1 .. NumFrames
    BY <1>1, <1>n DEF TypeOK, NumberFacts
  <1>3. out' = Append(out, IF main_vdata # 0 THEN main_vdata ELSE shown)
    BY DEF Shows, Render
  <1> QED
    BY <1>1, <1>2, <1>3 DEF TypeOK

\* The sound of an iteration: what a separate mainaudio has of what is due, that of
\* the frames read, or silence for what is due.
LEMMA MixFacts ==
    ASSUME TypeOK, Mix
    PROVE  /\ opt.sound = "separate" =>
                 /\ sent_audio_bytes <= ts + opt.ostep
                 /\ sent_audio_bytes' \in sent_audio_bytes .. ts + opt.ostep
                 /\ silence' \in Nat
           /\ opt.sound # "separate" /\ main_adata # 0 =>
                 /\ sent_audio_bytes' = sent_audio_bytes + main_adata
                 /\ silence' = silence
           /\ opt.sound # "separate" /\ main_adata = 0 =>
                 \/ UNCHANGED sound
                 \/ /\ ~NotYetHeard /\ sent_audio_bytes < ts + opt.ostep
                    /\ sent_audio_bytes' = ts + opt.ostep
                    /\ silence' = silence + (ts + opt.ostep - sent_audio_bytes)
  <1>1. /\ audio_due = ts + opt.ostep - sent_audio_bytes /\ ts \in Nat /\ opt.ostep \in Nat
        /\ main_adata \in Nat /\ sent_audio_bytes \in Nat /\ silence \in Nat
    BY Numbers DEF NumberFacts, TypeOK
  <1>2. CASE opt.sound = "separate"
    <2>1. PICK a \in 0 .. audio_due : Send(a, IF a = 0 THEN audio_due ELSE 0)
      BY <1>2 DEF Mix
    <2>2. audio_due \in Nat /\ a \in Nat /\ a <= audio_due
      BY <1>1, <2>1
    <2>3. CASE a = 0
      BY <1>1, <1>2, <2>1, <2>2, <2>3 DEF Send
    <2>4. CASE a # 0
      BY <1>1, <1>2, <2>1, <2>2, <2>4 DEF Send
    <2> QED
      BY <2>3, <2>4
  <1>3. CASE opt.sound # "separate" /\ main_adata # 0
    BY <1>1, <1>3 DEF Mix, Send
  <1>4. CASE opt.sound # "separate" /\ main_adata = 0
    <2>1. Send(0, IF NotYetHeard \/ audio_due <= 0 THEN 0 ELSE audio_due)
      BY <1>4 DEF Mix
    <2>2. CASE NotYetHeard \/ audio_due <= 0
      BY <1>1, <1>4, <2>1, <2>2 DEF Send, sound
    <2>3. CASE ~NotYetHeard /\ ~(audio_due <= 0)
      BY <1>1, <1>4, <2>1, <2>3 DEF Send
    <2> QED
      BY <2>2, <2>3
  <1> QED
    BY <1>2, <1>3, <1>4

\* Mixing the sound of an iteration adds to what was sent.
LEMMA MixTypes ==
    ASSUME TypeOK, Mix
    PROVE  sent_audio_bytes' \in Nat /\ silence' \in Nat
  <1>1. /\ ts \in Nat /\ opt.ostep \in Nat
        /\ main_adata \in Nat /\ sent_audio_bytes \in Nat /\ silence \in Nat
    BY Numbers DEF NumberFacts, TypeOK
  <1>2. CASE opt.sound = "separate"
    BY <1>1, <1>2, MixFacts
  <1>3. CASE opt.sound # "separate" /\ main_adata # 0
    BY <1>1, <1>3, MixFacts
  <1>4. CASE opt.sound # "separate" /\ main_adata = 0
    BY <1>1, <1>4, MixFacts DEF sound
  <1> QED
    BY <1>2, <1>3, <1>4

\* The sound a frame brings, and the gap that is recorded when it comes.
LEMMA BroughtFacts ==
    ASSUME TypeOK, PopFrame
    PROVE  /\ main_adata' \in Nat /\ main_adata' >= main_adata
           /\ opt.main = "audio" => main_adata' <= main_adata + opt.tstep
           /\ gap' \in Nat /\ gap' >= gap
           /\ opt.main = "video" /\ opt.sound = "own" => lag' <= gap'
  <1>1. /\ opt.tstep \in Nat /\ opt.main \in {"video", "audio"}
        /\ main_adata \in Nat /\ sent_audio_bytes \in Nat /\ silence \in Nat /\ gap \in Nat
    BY Numbers DEF NumberFacts, TypeOK
  <1>2. PICK a \in Brought : main_adata' = main_adata + a
    BY DEF PopFrame, Pop
  <1>3. a \in Nat /\ (opt.main = "audio" => a <= opt.tstep)
    <2>1. CASE opt.main = "audio"
      BY <1>1, <1>2, <2>1 DEF Brought
    <2>2. CASE opt.main # "audio"
      BY <1>2, <2>2, MainReaderAssumption DEF Brought
    <2> QED
      BY <2>1, <2>2
  <1>4. /\ main_adata' \in Nat /\ main_adata' >= main_adata
        /\ opt.main = "audio" => main_adata' <= main_adata + opt.tstep
    BY <1>1, <1>2, <1>3
  <1>5. lag' \in Int
    <2>1. Len(taken') \in Nat
      <3>1. taken' = Append(taken, Head(queue)) /\ taken \in Seq(1 .. NumFrames)
            /\ Head(queue) \in 1 .. NumFrames
        BY PopFacts DEF PopFrame, Pop, TypeOK
      <3> QED
        BY <3>1
    <2>2. Len(taken') * opt.tstep \in Nat /\ UNCHANGED <<opt, sent_audio_bytes, silence>>
      BY <1>1, <2>1, Products DEF PopFrame, Pop, sound
    <2> QED
      BY <1>1, <1>4, <2>2 DEF lag
  <1>6. gap' = IF opt.main = "video" /\ opt.sound = "own" /\ lag' > gap THEN lag' ELSE gap
    BY DEF PopFrame, Pop
  <1> HIDE DEF lag
  <1>7. /\ gap' \in Nat /\ gap' >= gap
        /\ opt.main = "video" /\ opt.sound = "own" => lag' <= gap'
    <2> DEFINE l == lag'
    <2>1. gap' = (IF opt.main = "video" /\ opt.sound = "own" /\ l > gap THEN l ELSE gap) /\ l \in Int
      BY <1>5, <1>6
    <2> HIDE DEF l
    <2>2. /\ gap' \in Nat /\ gap' >= gap
          /\ opt.main = "video" /\ opt.sound = "own" => l <= gap'
      BY <1>1, <2>1
    <2> QED
      BY <2>2 DEF l
  <1> QED
    BY <1>4, <1>7

\* Every step keeps the types of the variables.
LEMMA TypeStep ==
    ASSUME TypeOK, LoopInv, [Next]_vars
    PROVE  TypeOK'
  <1>n. NumberFacts
    BY Numbers
  <1>1. CASE Decoder
    <2>1. UNCHANGED <<opt, bExit, mvars>>
      BY <1>1, DecoderSteps
    <2>2. queue' \in Seq(1 .. NumFrames)
      <3>1. dpc = "push" => pos \in 1 .. NumFrames
        BY <1>n DEF NumberFacts, LoopInv, TypeOK
      <3>2. queue \in Seq(1 .. NumFrames)
        BY DEF TypeOK
      <3> QED
        <4>1. queue' = queue \/ (dpc = "push" /\ queue' = Append(queue, pos))
          BY <1>1, DecoderSteps
        <4>2. CASE dpc = "push" /\ queue' = Append(queue, pos)
          BY <3>1, <3>2, <4>2
        <4> QED
          BY <3>2, <4>1, <4>2
    <2>3. pos' \in 0 .. NumFrames
      <3>1. pos' = pos \/ (pos < NumFrames /\ pos' = pos + 1)
        BY <1>1
           DEF Decoder, RUN, CacheMore, CacheFrame, CachePush, CacheEOF, CacheError
      <3> QED
        BY <3>1, <1>n DEF NumberFacts, TypeOK
    <2>4. /\ bEOF' \in BOOLEAN /\ error_ret' \in BOOLEAN
          /\ dpc' \in {"loop", "cache", "read", "push", "done"}
      BY <1>1, <1>n
         DEF NumberFacts, Decoder, RUN, CacheMore, CacheFrame, CachePush, CacheEOF, CacheError, TypeOK
    <2> QED
      BY <2>1, <2>2, <2>3, <2>4 DEF mvars, iteration, sound, TypeOK
  <1>2. CASE Waits
    <2>1. queue' \in Seq(1 .. NumFrames)
      <3>1. Floors(queue, opt.floor_size) \in Seq(1 .. NumFrames)
        <4>1. queue \in Seq(1 .. NumFrames) /\ Len(queue) \in Nat
          BY DEF TypeOK
        <4>2. CASE opt.floor_size > 0 /\ Len(queue) > opt.floor_size
          <5>1. Len(queue) - opt.floor_size \in 0 .. Len(queue)
            <6>1. opt.floor_size \in Nat /\ Len(queue) \in Nat
              BY <1>n, <4>1 DEF NumberFacts
            <6> QED
              BY <4>2, <6>1
          <5> QED
            BY <4>1, <4>2, <5>1, DropFacts DEF Floors, TypeOK
        <4> QED
          BY <4>1, <4>2 DEF Floors, TypeOK
      <3> QED
        BY <1>2, <3>1 DEF Waits, TypeOK
    <2> QED
      BY <1>2, <2>1 DEF Waits, Calm, dvars, iteration, sound, TypeOK
  <1>3. CASE Quits("EOF")
    <2>1. sent_audio_bytes' \in Nat /\ silence' \in Nat
      BY <1>3, MixTypes DEF Quits, Leave, TypeOK
    <2> QED
      BY <1>3, <2>1 DEF Quits, Leave, Calm, dvars, iteration, TypeOK
  <1>4. CASE Quits("failure")
    BY <1>4 DEF Quits, Leave, Calm, dvars, iteration, sound, TypeOK
  <1>5. CASE Jumps
    <2>1. cts' \in Nat /\ timeout_num' \in 0 .. read_timeout
      <3>1. cts' = cts + opt.tstep /\ timeout_num' = 0
        BY <1>5 DEF Jumps
      <3>2. cts \in Nat /\ opt.tstep \in Nat /\ 0 \in 0 .. read_timeout
        BY <1>n DEF NumberFacts, TypeOK
      <3> QED
        BY <3>1, <3>2
    <2> QED
      BY <1>5, <2>1 DEF Jumps, Calm, dvars, sound, TypeOK
  <1>6. CASE PopFrame
    <2>1. /\ Head(queue) \in 1 .. NumFrames /\ Tail(queue) \in Seq(1 .. NumFrames)
          /\ Append(taken, Head(queue)) \in Seq(1 .. NumFrames)
      BY <1>6, PopFacts, PushFacts DEF PopFrame, Pop, TypeOK
    <2>2. cts' \in Nat /\ main_adata' \in Nat /\ gap' \in Nat
      <3>1. cts' \in {0, cts + opt.tstep}
        BY <1>6 DEF PopFrame, Pop
      <3>2. cts \in Nat /\ opt.tstep \in Nat
        BY <1>n DEF NumberFacts, TypeOK
      <3> QED
        BY <1>6, <3>1, <3>2, BroughtFacts
    <2>3. main_vdata' \in 0 .. NumFrames /\ timeout_num' \in 0 .. read_timeout
      BY <1>6, <1>n, <2>1 DEF NumberFacts, PopFrame, Pop
    <2> QED
      BY <1>6, <2>1, <2>2, <2>3 DEF PopFrame, Pop, dvars, sound, TypeOK
  <1>7. CASE Shows
    <2>1. out' \in Seq(1 .. NumFrames)
      BY <1>7, ShownIsFrame
    <2>2. sent_audio_bytes' \in Nat /\ silence' \in Nat
      BY <1>7, MixTypes DEF Shows, Render, TypeOK
    <2>3. timeout_num' \in 0 .. read_timeout
      BY <1>7, <1>n, SMTT(30) DEF NumberFacts, Shows, LoopInv, TypeOK
    <2>4. main_vdata' = 0 /\ main_adata' = 0 /\ shown' \in 0 .. NumFrames
      BY <1>7, <1>n DEF NumberFacts, Shows, Render, TypeOK
    <2> QED
      <3>1. main_vdata' \in 0 .. NumFrames /\ main_adata' \in Nat /\ late' \in BOOLEAN
        <4>1. 0 \in 0 .. NumFrames
          BY <1>n DEF NumberFacts
        <4>2. late' \in BOOLEAN
          BY <1>7 DEF Shows, TypeOK
        <4> QED
          BY <2>4, <4>1, <4>2
      <3> QED
        BY <1>7, <2>1, <2>2, <2>3, <2>4, <3>1 DEF Shows, Render, Calm, dvars, TypeOK
  <1>8. CASE Mutes
    BY <1>8, <1>n DEF NumberFacts, Mutes, Calm, dvars, iteration, TypeOK
  <1>9. CASE Closes
    BY <1>9 DEF Closes, dvars, iteration, sound, TypeOK
  <1>10. CASE UNCHANGED vars
    BY <1>10 DEF vars, dvars, mvars, iteration, sound, TypeOK
  <1> QED
    BY <1>1, <1>2, <1>3, <1>4, <1>5, <1>6, <1>7, <1>8, <1>9, <1>10, MainSteps DEF Next

\* Every step keeps the control of the two threads.
LEMMA LoopStep ==
    ASSUME TypeOK, LoopInv, [Next]_vars
    PROVE  LoopInv'
  <1>1. CASE Decoder
    <2>1. UNCHANGED <<opt, mvars>>
      BY <1>1, DecoderSteps
    <2>2. /\ bEOF' => dpc' \in {"loop", "done"}
          /\ dpc' = "push" => pos' # 0
      BY <1>1
         DEF Decoder, RUN, CacheMore, CacheFrame, CachePush, CacheEOF, CacheError, LoopInv, TypeOK
    <2> QED
      BY <2>1, <2>2 DEF LoopInv, mvars, iteration, NeedsFrame, converts, ts, num
  <1> USE DEF LoopInv
  <1>2. CASE Waits
    <2>1. NeedsFrame' = NeedsFrame
      BY <1>2 DEF Waits, Calm, iteration, NeedsFrame, converts, ts, num
    <2> QED
      BY <1>2, <2>1 DEF Waits, Calm, dvars, iteration, TypeOK
  <1>3. CASE Quits("EOF")
    BY <1>3 DEF Quits, Leave, Calm, dvars, iteration
  <1>4. CASE Quits("failure")
    BY <1>4 DEF Quits, Leave, Calm, dvars, iteration
  <1>5. CASE Jumps
    BY <1>5 DEF Jumps, Calm, dvars
  <1>6. CASE PopFrame
    BY <1>6 DEF PopFrame, Pop, dvars
  <1>7. CASE Shows
    <2>1. out' # << >>
      BY <1>7, ShownIsFrame
    <2> QED
      BY <1>7, <2>1 DEF Shows, Render, Calm, dvars
  <1>8. CASE Mutes
    BY <1>8 DEF Mutes, Calm, dvars, iteration
  <1>9. CASE Closes
    BY <1>9 DEF Closes, dvars, iteration
  <1>10. CASE UNCHANGED vars
    BY <1>10 DEF vars, dvars, mvars, iteration, NeedsFrame, converts, ts, num
  <1> HIDE DEF LoopInv
  <1> QED
    BY <1>1, <1>2, <1>3, <1>4, <1>5, <1>6, <1>7, <1>8, <1>9, <1>10, MainSteps DEF Next

-----------------------------------------------------------------------------
(* The frames in transit.                                                   *)

\* What is in transit is a sequence of frames.
LEMMA TransitType ==
    ASSUME TypeOK, LoopInv
    PROVE  /\ InFlight \in Seq(1 .. NumFrames) /\ taken \o queue \in Seq(1 .. NumFrames)
           /\ Transit \in Seq(1 .. NumFrames)
           /\ Len(Transit) \in Nat /\ DOMAIN Transit = 1 .. Len(Transit)
  <1>1. NumberFacts
    BY Numbers
  <1>2. taken \in Seq(1 .. NumFrames) /\ queue \in Seq(1 .. NumFrames)
    BY DEF TypeOK
  <1>3. InFlight \in Seq(1 .. NumFrames)
    <2>1. CASE dpc = "push"
      <3>1. pos \in 1 .. NumFrames
        BY <1>1, <2>1 DEF NumberFacts, TypeOK, LoopInv
      <3> QED
        BY <2>1, <3>1 DEF InFlight
    <2> QED
      BY <2>1, EmptySeq DEF InFlight
  <1>4. taken \o queue \in Seq(1 .. NumFrames)
    BY <1>2, CatFacts
  <1>5. Transit \in Seq(1 .. NumFrames)
    BY <1>3, <1>4, CatFacts DEF Transit
  <1> QED
    BY <1>3, <1>4, <1>5, LenProperties

\* A step passes frames on, reads one more, or discards some that are queued.
LEMMA TransitSteps ==
    ASSUME TypeOK, LoopInv, [Next]_vars
    PROVE  /\ opt' = opt
           /\ \/ Transit' = Transit /\ pos' = pos
              \/ Transit' = Transit \o <<pos + 1>> /\ pos' = pos + 1 /\ pos < NumFrames
              \/ /\ opt.floor_size > 0 /\ pos' = pos
                 /\ \E k \in Nat, n \in Nat :
                       /\ Len(Transit) - n \in Nat
                       /\ DOMAIN Transit' = 1 .. Len(Transit) - n
                       /\ \A i \in 1 .. Len(Transit) - n :
                             Transit'[i] = Transit[IF i <= k THEN i ELSE i + n]
  <1>1. CASE UNCHANGED <<opt, taken, queue, InFlight, pos>>
    BY <1>1 DEF Transit
  <1>2. CASE CacheFrame
    <2>1. /\ UNCHANGED <<opt, taken, queue>> /\ pos' = pos + 1 /\ pos < NumFrames
          /\ InFlight = << >> /\ InFlight' = <<pos + 1>>
      BY <1>2 DEF CacheFrame, InFlight, mvars
    <2>2. Transit = taken \o queue
      BY <2>1, TransitType, ConcatEmptySeq DEF Transit
    <2> QED
      BY <2>1, <2>2 DEF Transit
  <1>3. CASE CachePush
    <2>1. /\ UNCHANGED <<opt, taken, pos>> /\ queue' = Append(queue, pos)
          /\ InFlight = <<pos>> /\ InFlight' = << >> /\ dpc = "push"
      BY <1>3 DEF CachePush, InFlight, mvars
    <2>2. pos \in 1 .. NumFrames /\ taken \in Seq(1 .. NumFrames) /\ queue \in Seq(1 .. NumFrames)
      <3>1. NumFrames \in Nat
        BY MainReaderAssumption
      <3> QED
        BY <2>1, <3>1 DEF TypeOK, LoopInv
    <2>3. (taken \o Append(queue, pos)) \o << >> = (taken \o queue) \o <<pos>>
      BY <2>2, PushThrough
    <2> QED
      BY <2>1, <2>3 DEF Transit
  <1>4. CASE PopFrame
    <2>1. /\ UNCHANGED <<opt, pos, InFlight>> /\ queue # << >>
          /\ taken' = Append(taken, Head(queue)) /\ queue' = Tail(queue)
      BY <1>4 DEF PopFrame, Pop, InFlight, dvars
    <2>2. taken \in Seq(1 .. NumFrames) /\ queue \in Seq(1 .. NumFrames)
      BY DEF TypeOK
    <2>3. Append(taken, Head(queue)) \o Tail(queue) = taken \o queue
      BY <2>1, <2>2, PopThrough
    <2> QED
      BY <2>1, <2>3 DEF Transit
  <1>5. CASE UNCHANGED <<opt, taken, dpc, pos>> /\ queue' = Floors(queue, opt.floor_size)
    <2>1. CASE queue' = queue
      BY <1>1, <1>5, <2>1 DEF InFlight
    <2>2. CASE queue' # queue
      <3> DEFINE n == Len(queue) - opt.floor_size
                 k == Len(taken)
                 S == 1 .. NumFrames
      <3>1. /\ n \in 0 .. Len(queue) /\ opt.floor_size > 0
            /\ queue' = SubSeq(queue, n + 1, Len(queue))
        <4>1. opt.floor_size \in Nat
          BY Numbers DEF NumberFacts
        <4>2. Len(queue) \in Nat
          BY DEF TypeOK
        <4>3. /\ opt.floor_size > 0 /\ Len(queue) > opt.floor_size
              /\ queue' = SubSeq(queue, n + 1, Len(queue))
          BY <1>5, <2>2 DEF Floors
        <4> QED
          BY <4>1, <4>2, <4>3
      <3>2. /\ taken \in Seq(S) /\ queue \in Seq(S) /\ InFlight \in Seq(S)
            /\ InFlight' = InFlight
        BY <1>5, TransitType DEF TypeOK, InFlight
      <3> HIDE DEF S, n
      <3>3. /\ queue' \in Seq(S) /\ Len(queue') = Len(queue) - n /\ Len(queue) \in Nat
            /\ \A i \in 1 .. Len(queue) - n : queue'[i] = queue[n + i]
        BY <3>1, <3>2, DropFacts
      <3>4. /\ taken \o queue \in Seq(S) /\ Len(taken \o queue) = k + Len(queue) /\ k \in Nat
            /\ \A i \in 1 .. k : (taken \o queue)[i] = taken[i]
            /\ \A i \in 1 .. Len(queue) : (taken \o queue)[k + i] = queue[i]
        BY <3>2, CatFacts
      <3>5. /\ taken \o queue' \in Seq(S) /\ Len(taken \o queue') = k + (Len(queue) - n)
            /\ \A i \in 1 .. k : (taken \o queue')[i] = taken[i]
            /\ \A i \in 1 .. Len(queue) - n : (taken \o queue')[k + i] = queue'[i]
        <4> DEFINE q == queue'
        <4>1. q \in Seq(S)
          BY <3>3
        <4> HIDE DEF q
        <4>2. /\ taken \o q \in Seq(S) /\ Len(taken \o q) = Len(taken) + Len(q)
              /\ \A i \in 1 .. Len(taken) : (taken \o q)[i] = taken[i]
              /\ \A i \in 1 .. Len(q) : (taken \o q)[Len(taken) + i] = q[i]
          BY <3>2, <4>1, CatFacts
        <4> QED
          BY <3>3, <4>2 DEF q
      <3> DEFINE m == Len(InFlight)
                 l == k + Len(queue)
      <3>6. /\ Len(Transit) = l + m /\ m \in Nat
            /\ \A i \in 1 .. l : Transit[i] = (taken \o queue)[i]
            /\ \A i \in 1 .. m : Transit[l + i] = InFlight[i]
        BY <3>2, <3>4, CatFacts DEF Transit
      <3>7. /\ DOMAIN Transit' = 1 .. (l - n) + m
            /\ \A i \in 1 .. l - n : Transit'[i] = (taken \o queue')[i]
            /\ \A i \in 1 .. m : Transit'[(l - n) + i] = InFlight[i]
        <4>1. Transit' = (taken \o queue') \o InFlight
          BY <1>5, <3>2 DEF Transit
        <4>2. k + (Len(queue) - n) = l - n
          BY <3>1, <3>3, <3>4
        <4> QED
          BY <3>2, <3>5, <4>1, <4>2, CatFacts, SMTT(30)
      <3> HIDE DEF k
      <3>8. \A i \in 1 .. Len(Transit) - n : Transit'[i] = Transit[IF i <= k THEN i ELSE i + n]
        <4> SUFFICES ASSUME NEW i \in 1 .. Len(Transit) - n
                     PROVE  Transit'[i] = Transit[IF i <= k THEN i ELSE i + n]
          OBVIOUS
        <4>1. CASE i <= k
          <5>1. i \in 1 .. k /\ i \in 1 .. l /\ i \in 1 .. l - n
            BY <3>1, <3>3, <3>4, <4>1
          <5> QED
            BY <3>4, <3>5, <3>6, <3>7, <4>1, <5>1
        <4>2. CASE i > k /\ i <= l - n
          <5> DEFINE j == i - k
          <5>1. /\ j \in 1 .. Len(queue) - n /\ i = k + j /\ i \in 1 .. l - n
                /\ n + j \in 1 .. Len(queue) /\ i + n = k + (n + j) /\ i + n \in 1 .. l
            BY <3>1, <3>3, <3>4, <4>2
          <5> HIDE DEF j
          <5>2. Transit'[i] = queue[n + j]
            BY <3>3, <3>5, <3>7, <5>1
          <5>3. Transit[i + n] = queue[n + j]
            BY <3>4, <3>6, <5>1
          <5> QED
            BY <3>4, <4>2, <5>2, <5>3
        <4>3. CASE i > l - n
          <5> DEFINE j == i - (l - n)
          <5>1. j \in 1 .. m /\ i = (l - n) + j /\ i + n = l + j /\ i > k
            BY <3>1, <3>3, <3>4, <3>6, <4>3
          <5> HIDE DEF j
          <5>2. Transit'[i] = InFlight[j]
            BY <3>7, <5>1
          <5>3. Transit[i + n] = InFlight[j]
            BY <3>6, <5>1
          <5> QED
            BY <3>4, <5>1, <5>2, <5>3
        <4> QED
          BY <3>1, <3>3, <3>4, <4>1, <4>2, <4>3
      <3>9. Len(Transit) - n \in Nat /\ DOMAIN Transit' = 1 .. Len(Transit) - n /\ n \in Nat
        BY <3>1, <3>3, <3>4, <3>6, <3>7
      <3> QED
        BY <1>5, <3>1, <3>4, <3>8, <3>9
    <2> QED
      BY <2>1, <2>2
  <1>6. CASE Decoder
    <2>1. CASE RUN \/ CacheMore \/ CacheEOF \/ CacheError
      BY <1>1, <2>1 DEF RUN, CacheMore, CacheEOF, CacheError, mvars, InFlight
    <2> QED
      BY <1>2, <1>3, <1>6, <2>1 DEF Decoder
  <1>7. CASE MainLoop
    <2>1. CASE Waits
      BY <1>1, <1>5, <2>1 DEF Waits, Calm, dvars, InFlight
    <2>2. CASE Quits("EOF") \/ Quits("failure")
      BY <1>1, <2>2 DEF Quits, Leave, Calm, dvars, InFlight
    <2>3. CASE Jumps
      BY <1>1, <2>3 DEF Jumps, Calm, dvars, InFlight
    <2>4. CASE Shows
      BY <1>1, <2>4 DEF Shows, Render, Calm, dvars, InFlight
    <2>5. CASE Mutes
      BY <1>1, <2>5 DEF Mutes, Calm, dvars, InFlight
    <2>6. CASE Closes
      BY <1>1, <2>6 DEF Closes, dvars, InFlight
    <2> QED
      BY <1>4, <1>7, <2>1, <2>2, <2>3, <2>4, <2>5, <2>6, MainSteps
  <1>8. CASE UNCHANGED vars
    BY <1>1, <1>8 DEF vars, dvars, mvars, InFlight
  <1> QED
    BY <1>6, <1>7, <1>8 DEF Next

\* Every step keeps the frames in their order, none twice, and all of them if
\* there is no floor.
LEMMA FramesStep ==
    ASSUME TypeOK, LoopInv, NothingLostInTransit, InOrder, ReadInv, [Next]_vars
    PROVE  NothingLostInTransit' /\ InOrder' /\ ReadInv'
  <1> DEFINE L == Len(Transit)
  <1>1. /\ Transit \in Seq(1 .. NumFrames) /\ L \in Nat /\ DOMAIN Transit = 1 .. L
        /\ \A i \in 1 .. L : Transit[i] \in Int
        /\ pos \in Nat /\ opt.floor_size \in Nat
    <2>1. NumberFacts /\ pos \in Nat
      BY Numbers, MainReaderAssumption DEF TypeOK
    <2>2. Transit \in Seq(1 .. NumFrames) /\ L \in Nat /\ DOMAIN Transit = 1 .. L
      BY TransitType
    <2>3. \A i \in 1 .. L : Transit[i] \in Int
      <3>1. \A i \in 1 .. L : Transit[i] \in 1 .. NumFrames
        BY <2>2, LenProperties
      <3> QED
        BY <3>1, MainReaderAssumption
    <2> QED
      BY <2>1, <2>2, <2>3 DEF NumberFacts
  <1>2. \A i \in 1 .. L : i <= Transit[i] /\ Transit[i] <= pos
    BY <1>1 DEF ReadInv
  <1>3. \A i, j \in 1 .. L : i < j => Transit[i] < Transit[j]
    BY <1>1 DEF InOrder, Transit
  <1>4. opt.floor_size = 0 => Transit = [i \in 1 .. pos |-> i]
    BY DEF NothingLostInTransit, Transit
  <1>5. opt' = opt
    BY TransitSteps
  <1>6. SUFFICES /\ opt.floor_size = 0 => Transit' = [i \in 1 .. pos' |-> i]
                 /\ \A i, j \in DOMAIN Transit' : i < j => Transit'[i] < Transit'[j]
                 /\ \A i \in DOMAIN Transit' : i <= Transit'[i] /\ Transit'[i] <= pos'
    BY <1>5 DEF NothingLostInTransit, InOrder, ReadInv, Transit
  <1>7. CASE Transit' = Transit /\ pos' = pos
    BY <1>1, <1>2, <1>3, <1>4, <1>7
  <1>8. CASE Transit' = Transit \o <<pos + 1>> /\ pos' = pos + 1 /\ pos < NumFrames
    <2>1. pos + 1 \in 1 .. NumFrames
      BY <1>1, <1>8, MainReaderAssumption
    <2>2. Transit' = Append(Transit, pos + 1)
      BY <1>1, <1>8, <2>1
    <2>3. /\ DOMAIN Transit' = 1 .. L + 1
          /\ \A i \in 1 .. L : Transit'[i] = Transit[i]
          /\ Transit'[L + 1] = pos + 1
      BY <1>1, <2>1, <2>2, PushFacts
    <2>4. L <= pos
      BY <1>1, <1>2
    <2>5. \A i \in 1 .. L + 1 : i \in 1 .. L \/ i = L + 1
      BY <1>1
    <2>6. \A i, j \in DOMAIN Transit' : i < j => Transit'[i] < Transit'[j]
      BY <1>1, <1>2, <1>3, <2>3, <2>5
    <2>7. \A i \in DOMAIN Transit' : i <= Transit'[i] /\ Transit'[i] <= pos'
      BY <1>1, <1>2, <1>8, <2>3, <2>4, <2>5
    <2>8. ASSUME opt.floor_size = 0 PROVE Transit' = [i \in 1 .. pos' |-> i]
      <3>1. Transit = [i \in 1 .. pos |-> i] /\ DOMAIN Transit = 1 .. pos
        BY <1>4, <2>8
      <3>2. L = pos
        BY <1>1, <3>1
      <3>3. \A i \in 1 .. pos' : Transit'[i] = i
        BY <1>1, <1>8, <2>3, <2>5, <3>1, <3>2
      <3>4. DOMAIN Transit' = 1 .. pos'
        BY <1>8, <2>3, <3>2
      <3>5. Transit' = [i \in DOMAIN Transit' |-> Transit'[i]]
        BY <1>1, <2>1, <2>2
      <3> QED
        BY <3>3, <3>4, <3>5
    <2> QED
      BY <2>6, <2>7, <2>8
  <1>9. ASSUME opt.floor_size > 0 /\ pos' = pos,
               NEW k \in Nat, NEW n \in Nat, L - n \in Nat, DOMAIN Transit' = 1 .. L - n,
               \A i \in 1 .. L - n : Transit'[i] = Transit[IF i <= k THEN i ELSE i + n]
        PROVE  /\ opt.floor_size = 0 => Transit' = [i \in 1 .. pos' |-> i]
               /\ \A i, j \in DOMAIN Transit' : i < j => Transit'[i] < Transit'[j]
               /\ \A i \in DOMAIN Transit' : i <= Transit'[i] /\ Transit'[i] <= pos'
    <2> DEFINE at(i) == IF i <= k THEN i ELSE i + n
    <2>1. \A i \in 1 .. L - n : at(i) \in 1 .. L /\ i <= at(i)
      BY <1>1, <1>9
    <2>2. \A i, j \in 1 .. L - n : i < j => at(i) < at(j)
      BY <1>1, <1>9
    <2>3. \A i \in 1 .. L - n : Transit'[i] = Transit[at(i)]
      BY <1>9
    <2> HIDE DEF at
    <2>4. \A i, j \in 1 .. L - n : i < j => Transit'[i] < Transit'[j]
      BY <1>3, <2>1, <2>2, <2>3
    <2>5. \A i \in 1 .. L - n : i <= Transit'[i] /\ Transit'[i] <= pos
      BY <1>1, <1>2, <1>9, <2>1, <2>3
    <2>6. opt.floor_size # 0
      BY <1>1, <1>9
    <2> QED
      BY <1>9, <2>4, <2>5, <2>6
  <1> HIDE DEF L
  <1>10. \/ Transit' = Transit /\ pos' = pos
         \/ Transit' = Transit \o <<pos + 1>> /\ pos' = pos + 1 /\ pos < NumFrames
         \/ /\ opt.floor_size > 0 /\ pos' = pos
            /\ \E k \in Nat, n \in Nat :
                  /\ L - n \in Nat
                  /\ DOMAIN Transit' = 1 .. L - n
                  /\ \A i \in 1 .. L - n : Transit'[i] = Transit[IF i <= k THEN i ELSE i + n]
    BY TransitSteps DEF L
  <1> QED
    BY <1>7, <1>8, <1>9, <1>10

-----------------------------------------------------------------------------
(* The pictures, their time and their sound.                                *)

\* The main loop takes the end for real, or has had a frame and does not wait.
LEMMA EofStep ==
    ASSUME TypeOK, LoopInv, HeardInv, EofIsReal, [Next]_vars
    PROVE  EofIsReal'
  <1>1. CASE Quits("EOF")
    <2>1. UNCHANGED <<opt, bEOF, out>>
      BY <1>1 DEF Quits, Leave, Calm
    <2>2. CASE ~bEOF
      <3>1. /\ first_frame_ready /\ opt.has_stream_io /\ ~(opt.main = "video" /\ opt.is_shm)
            /\ opt.main = "video" \/ audio_due <= 0
        BY <1>1, <2>2 DEF Quits, can_wait
      <3>2. out # << >>
        BY <3>1 DEF LoopInv
      <3>3. ~LateIsTolerated
        <4>1. CASE opt.main = "video"
          BY <3>1, <4>1 DEF LateIsTolerated
        <4>2. CASE opt.main # "video" /\ opt.audio_ahead = 0
          <5>1. NumberFacts
            BY Numbers
          <5>2. SoundInv /\ opt.main = "audio"
            BY <1>1, <4>2, <5>1 DEF NumberFacts, Quits, LoopInv, HeardInv
          <5>3. sent_audio_bytes <= ts /\ audio_due = ts + opt.ostep - sent_audio_bytes
            BY <4>2, <5>1, <5>2 DEF SoundInv, NumberFacts, TypeOK
          <5> QED
            BY <3>1, <4>2, <5>1, <5>3 DEF NumberFacts, TypeOK
        <4> QED
          BY <3>1, <4>1, <4>2 DEF LateIsTolerated
      <3> QED
        BY <2>1, <3>2, <3>3 DEF EofIsReal, LateIsTolerated
    <2> QED
      BY <2>1, <2>2 DEF EofIsReal
  <1>2. CASE UNCHANGED <<opt, result, out>> /\ (bEOF => bEOF')
    BY <1>2 DEF EofIsReal, LateIsTolerated
  <1>3. CASE Quits("failure")
    BY <1>3 DEF Quits, Leave, EofIsReal
  <1>4. CASE Shows
    BY <1>4 DEF Shows, Render, LoopInv, EofIsReal
  <1>5. CASE Decoder
    BY <1>2, <1>5, DecoderSteps DEF mvars
  <1>6. CASE Waits \/ Jumps \/ Mutes \/ Closes
    BY <1>2, <1>6 DEF Waits, Jumps, Mutes, Closes, Calm
  <1>7. CASE PopFrame
    BY <1>2, <1>7 DEF PopFrame, Pop
  <1>8. CASE UNCHANGED vars
    BY <1>2, <1>8 DEF vars, mvars
  <1> QED
    BY <1>1, <1>3, <1>4, <1>5, <1>6, <1>7, <1>8, MainSteps DEF Next

\* What a pop and a rendered frame do to the lengths.
LEMMA LengthSteps ==
    ASSUME TypeOK, LoopInv
    PROVE  /\ PopFrame => /\ Len(taken') = Len(taken) + 1 /\ taken' # << >>
                          /\ taken'[Len(taken')] = Head(queue) /\ Head(queue) \in 1 .. NumFrames
                          /\ Played' = Played + opt.tstep /\ ts' = ts
           /\ Shows => /\ Len(out') = Len(out) + 1 /\ out' # << >>
                       /\ out'[Len(out')] = IF main_vdata # 0 THEN main_vdata ELSE shown
                       /\ ts' = ts + opt.ostep /\ Played' = Played
  <1>1. NumberFacts
    BY Numbers
  <1>2. ASSUME PopFrame
        PROVE  /\ Len(taken') = Len(taken) + 1 /\ taken' # << >>
               /\ taken'[Len(taken')] = Head(queue) /\ Head(queue) \in 1 .. NumFrames
               /\ Played' = Played + opt.tstep /\ ts' = ts
    <2>1. /\ queue # << >> /\ taken' = Append(taken, Head(queue)) /\ UNCHANGED <<opt, out>>
          /\ queue \in Seq(1 .. NumFrames) /\ taken \in Seq(1 .. NumFrames)
      BY <1>2 DEF PopFrame, Pop, TypeOK
    <2>2. Head(queue) \in 1 .. NumFrames
      BY <2>1, PopFacts
    <2>3. /\ Len(taken') = Len(taken) + 1 /\ taken' # << >>
          /\ taken'[Len(taken')] = Head(queue)
      BY <2>1, <2>2
    <2>4. (Len(taken) + 1) * opt.tstep = Len(taken) * opt.tstep + opt.tstep
      BY <1>1, Products DEF NumberFacts
    <2> QED
      BY <2>1, <2>2, <2>3, <2>4 DEF Played, ts, num
  <1>3. ASSUME Shows
        PROVE  /\ Len(out') = Len(out) + 1 /\ out' # << >>
               /\ out'[Len(out')] = IF main_vdata # 0 THEN main_vdata ELSE shown
               /\ ts' = ts + opt.ostep /\ Played' = Played
    <2> DEFINE f == IF main_vdata # 0 THEN main_vdata ELSE shown
    <2>1. f \in 1 .. NumFrames
      BY <1>3, ShownIsFrame
    <2>2. out' = Append(out, f) /\ UNCHANGED <<opt, taken>> /\ out \in Seq(1 .. NumFrames)
      BY <1>3 DEF Shows, Render, Calm, TypeOK
    <2> HIDE DEF f
    <2>3. Len(out') = Len(out) + 1 /\ out' # << >> /\ out'[Len(out')] = f
      BY <2>1, <2>2
    <2>4. (Len(out) + 1) * opt.ostep = Len(out) * opt.ostep + opt.ostep
      BY <1>1, Products DEF NumberFacts
    <2> QED
      BY <2>2, <2>3, <2>4 DEF f, Played, ts, num
  <1> QED
    BY <1>2, <1>3

\* A step that leaves the pictures alone leaves what is said about them, except
\* for what the clock's lead says of the queue.
LEMMA ClockKept ==
    ASSUME UNCHANGED <<opt, iteration, taken, out, late>>, FrameInv, ClockInv,
           converts /\ shown # 0 /\ opt.tstep < opt.ostep /\ SkipInv => SkipInv'
    PROVE  FrameInv' /\ ClockInv'
  <1>1. UNCHANGED <<Played, ts, converts>>
    BY DEF Played, ts, num, converts
  <1>2. FrameInv'
    BY DEF FrameInv, iteration
  <1>3. /\ PlainInv => PlainInv'
        /\ FirstInv => FirstInv'
        /\ ShownInv => ShownInv'
        /\ RepeatInv => RepeatInv'
    BY <1>1 DEF PlainInv, FirstInv, ShownInv, RepeatInv, iteration
  <1> QED
    BY <1>1, <1>2, <1>3 DEF ClockInv, iteration

\* The decoder does not disturb the pictures.
LEMMA PictureDecoder ==
    ASSUME TypeOK, LoopInv, PictureInv, Decoder
    PROVE  PictureInv'
  <1>1. /\ UNCHANGED <<opt, mvars>> /\ (bEOF => bEOF')
        /\ queue' = queue \/ (dpc = "push" /\ queue' = Append(queue, pos))
    BY DecoderSteps
  <1>2. queue # << >> => queue' # << >>
    <2>1. queue \in Seq(1 .. NumFrames) /\ Append(queue, pos) # << >>
      BY DEF TypeOK
    <2> QED
      BY <1>1, <2>1
  <1>3. bEOF => queue' = queue
    BY <1>1 DEF LoopInv
  <1>4. UNCHANGED <<mpc, iteration, sound, taken, out, late, result, Played, ts>>
    BY <1>1 DEF mvars, iteration, Played, ts, num
  <1>5. SkipInv => SkipInv'
    BY <1>1, <1>2, <1>3, <1>4 DEF SkipInv, iteration, sound
  <1> QED
    BY <1>1, <1>4, <1>5, ClockKept DEF PictureInv

\* Nor does waiting for a frame.
LEMMA PictureWaits ==
    ASSUME TypeOK, LoopInv, PictureInv, Waits
    PROVE  PictureInv'
  <1>1. UNCHANGED <<opt, iteration, sound, taken, out, late, result, bEOF, Played, ts>>
    BY DEF Waits, Calm, Played, ts, num
  <1>2. NumberFacts
    BY Numbers
  <1>3. SkipInv => SkipInv'
    <2> SUFFICES ASSUME SkipInv
                 PROVE  SkipInv'
      OBVIOUS
    <2>1. cts > Played => cts + opt.tstep > Played
      BY <1>2 DEF NumberFacts, TypeOK
    <2>2. /\ cts + opt.tstep > Played => mpc' # "missed" /\ (mpc' = "pop" => queue' # << >>)
          /\ cts > Played => queue' = queue
      <3>1. CASE mpc' = "pop"
        <4>1. queue' \in {queue, Floors(queue, opt.floor_size)} /\ (bEOF => queue # << >>)
          BY <3>1 DEF Waits
        <4>2. queue # << >> => queue' # << >>
          <5> SUFFICES ASSUME queue # << >>, queue' = Floors(queue, opt.floor_size)
                       PROVE  queue' # << >>
            BY <4>1
          <5>1. CASE opt.floor_size > 0 /\ Len(queue) > opt.floor_size
            <6> DEFINE n == Len(queue) - opt.floor_size
            <6>1. queue \in Seq(1 .. NumFrames) /\ Len(queue) \in Nat
              BY DEF TypeOK
            <6>2. n \in 0 .. Len(queue) /\ Len(queue) - n > 0
              BY <1>2, <5>1, <6>1, SMTT(30) DEF NumberFacts
            <6>3. queue' = SubSeq(queue, n + 1, Len(queue))
              BY <5>1 DEF Floors
            <6> HIDE DEF n
            <6>4. Len(queue') = Len(queue) - n
              BY <6>1, <6>2, <6>3, DropFacts
            <6> QED
              BY <6>1, <6>2, <6>4
          <5> QED
            BY <5>1 DEF Floors
        <4> QED
          BY <3>1, <4>1, <4>2 DEF SkipInv
      <3>2. CASE mpc' = "missed"
        BY <2>1, <3>2 DEF Waits, SkipInv
      <3>3. CASE mpc' = "top"
        BY <3>3 DEF Waits
      <3> QED
        BY <3>1, <3>2, <3>3 DEF Waits
    <2> QED
      BY <1>1, <2>2 DEF SkipInv, iteration, sound
  <1> QED
    BY <1>1, <1>3, ClockKept DEF PictureInv

\* The clock only goes on without a frame when the source is faster.
LEMMA PictureJumps ==
    ASSUME TypeOK, LoopInv, PictureInv, Jumps
    PROVE  PictureInv'
  <1>1. /\ UNCHANGED <<opt, main_vdata, main_adata, shown, sound, taken, out, late, result, bEOF,
                       queue, Played, ts, converts>>
        /\ main_vdata # 0 /\ bEOF /\ mpc' = "top" /\ cts' = cts + opt.tstep
        /\ mpc = "missed" \/ (mpc = "top" /\ queue = << >>)
    BY DEF Jumps, Calm, Played, ts, num, converts
  <1>2. NumberFacts /\ FrameInv /\ ClockInv /\ result = "running"
    BY Numbers, <1>1 DEF LoopInv, PictureInv
  <1>3. converts /\ shown # 0 /\ cts + opt.tstep < ts
    BY <1>1 DEF Jumps, NeedsFrame
  <1>4. opt.tstep < opt.ostep
    BY <1>1, <1>2, <1>3 DEF ClockInv, RepeatInv, NumberFacts, TypeOK, converts
  <1>5. SkipInv'
    BY <1>1, <1>2, <1>3, <1>4, SMTT(30) DEF ClockInv, SkipInv, NumberFacts, TypeOK, sound
  <1>6. FrameInv' /\ ShownInv'
    BY <1>1, <1>2, <1>3 DEF FrameInv, ClockInv, ShownInv
  <1> QED
    BY <1>1, <1>3, <1>4, <1>5, <1>6, <1>2 DEF PictureInv, ClockInv, NumberFacts

\* A frame that is read is the frame of this iteration, and puts the clock right.
LEMMA PicturePop ==
    ASSUME TypeOK, LoopInv, PictureInv, PopFrame
    PROVE  PictureInv'
  <1>1. /\ UNCHANGED <<opt, shown, sound, out, late, result, bEOF, converts>>
        /\ mpc = "pop" /\ mpc' = "top" /\ queue # << >>
        /\ main_vdata' = Head(queue)
        /\ cts' = IF converts /\ shown # 0 THEN cts + opt.tstep ELSE 0
    BY DEF PopFrame, Pop, converts
  <1>2. NumberFacts /\ FrameInv /\ ClockInv /\ result = "running"
    BY Numbers, <1>1 DEF LoopInv, PictureInv
  <1>n. /\ opt.tstep \in Nat /\ opt.tstep > 0 /\ opt.ostep \in Nat /\ opt.ostep > 0
        /\ ts \in Nat /\ Played \in Nat /\ cts \in Nat
    BY <1>2 DEF NumberFacts, TypeOK
  <1>3. /\ Len(taken') = Len(taken) + 1 /\ taken' # << >>
        /\ taken'[Len(taken')] = Head(queue) /\ Head(queue) \in 1 .. NumFrames
        /\ Played' = Played + opt.tstep /\ ts' = ts
    BY LengthSteps
  <1>4. main_vdata' # 0
    <2>1. main_vdata' \in 1 .. NumFrames
      BY <1>1, <1>3
    <2> QED
      BY <2>1
  <1>5. FrameInv'
    BY <1>1, <1>3, <1>4 DEF FrameInv
  <1>6. NeedsFrame
    BY <1>1 DEF LoopInv
  <1>7. CASE ~converts
    <2>1. main_vdata = 0
      BY <1>6, <1>7 DEF NeedsFrame
    <2>2. PlainInv'
      BY <1>1, <1>2, <1>3, <1>4, <1>7, <2>1 DEF ClockInv, PlainInv, NumberFacts, sound
    <2> QED
      BY <1>1, <1>5, <1>7, <2>2 DEF PictureInv, ClockInv
  <1>8. CASE converts /\ shown = 0
    <2>1. main_vdata = 0
      BY <1>6, <1>8 DEF NeedsFrame
    <2>2. FirstInv'
      BY <1>1, <1>2, <1>3, <1>4, <1>8, <2>1 DEF ClockInv, FirstInv, NumberFacts, sound
    <2> QED
      BY <1>1, <1>5, <1>8, <2>2 DEF PictureInv, ClockInv
  <1>9. CASE converts /\ shown # 0
    <2>1. cts + opt.tstep < ts /\ cts' = cts + opt.tstep
      BY <1>1, <1>6, <1>9 DEF NeedsFrame
    <2>2. CASE opt.tstep > opt.ostep
      <3>1. RepeatInv /\ ShownInv
        BY <1>2, <1>9, <2>2 DEF ClockInv
      <3>2. main_vdata = 0
        BY <1>n, <2>1, <3>1 DEF RepeatInv
      <3>3. RepeatInv'
        <4>1. UNCHANGED <<opt, late>>
          BY <1>1
        <4>2. cts' + opt.tstep = Played' /\ ts' <= Played'
          <5>1. Played' = Played + opt.tstep /\ ts' = ts
            BY <1>3
          <5>2. cts + opt.tstep = Played /\ ts <= Played + opt.ostep
            BY <3>1, <3>2 DEF RepeatInv
          <5> QED
            BY <1>n, <2>1, <2>2, <5>1, <5>2
        <4>3. Played' + 0 = Played'
          BY <1>3, <1>n
        <4> QED
          BY <1>4, <3>1, <4>1, <4>2, <4>3 DEF RepeatInv
      <3>4. ShownInv'
        <4>1. Played' <= ts' + opt'.tstep
          BY <1>1, <1>3, <1>n, <2>1, <3>1, SMTT(30) DEF RepeatInv
        <4> QED
          BY <1>1, <1>3, <1>4, <3>1, <4>1 DEF ShownInv
      <3> QED
        BY <1>1, <1>2, <1>5, <1>9, <2>2, <3>3, <3>4 DEF PictureInv, ClockInv, NumberFacts
    <2>3. CASE opt.tstep < opt.ostep
      <3>1. SkipInv /\ ShownInv
        BY <1>2, <1>9, <2>3 DEF ClockInv
      <3>2. SkipInv'
        <4>1. UNCHANGED <<opt, late, bEOF>>
          BY <1>1
        <4>2. ~(cts > Played)
          BY <1>1, <3>1 DEF SkipInv
        <4>3. late \/ ts' <= Played' + opt.tstep + opt.ostep
          BY <1>3, <1>n, <3>1, <4>2, SMTT(30) DEF SkipInv
        <4>4. ~(cts' > Played') /\ cts' < ts' /\ Played' <= cts' + opt.tstep
          BY <1>3, <1>n, <2>1, <3>1, <4>2 DEF SkipInv
        <4>5. cts' + opt.tstep > Played' => bEOF
          BY <1>3, <1>n, <2>1, <3>1 DEF SkipInv
        <4> QED
          BY <1>1, <1>4, <3>1, <4>1, <4>3, <4>4, <4>5 DEF SkipInv
      <3>3. ShownInv'
        <4>1. Played' <= ts' + opt'.tstep
          BY <1>1, <1>3, <1>n, <2>1, <3>1 DEF SkipInv
        <4> QED
          BY <1>1, <1>3, <1>4, <3>1, <4>1 DEF ShownInv
      <3> QED
        BY <1>1, <1>2, <1>5, <1>9, <2>3, <3>2, <3>3 DEF PictureInv, ClockInv, NumberFacts
    <2> QED
      BY <1>2, <1>9, <2>2, <2>3 DEF converts, NumberFacts
  <1> QED
    BY <1>7, <1>8, <1>9

\* A rendered frame takes the output one frame further, with its sound.
LEMMA PictureShows ==
    ASSUME TypeOK, LoopInv, PictureInv, Shows
    PROVE  PictureInv'
  <1>1. /\ UNCHANGED <<opt, cts, result, taken, bEOF, queue, converts>>
        /\ main_vdata' = 0 /\ mpc' = "top"
        /\ shown' = IF converts /\ main_vdata # 0 THEN main_vdata ELSE shown
    BY DEF Shows, Render, Calm, converts
  <1>2. NumberFacts /\ FrameInv /\ ClockInv /\ result = "running"
    BY Numbers, <1>1 DEF Shows, LoopInv, PictureInv
  <1>n. /\ opt.tstep \in Nat /\ opt.tstep > 0 /\ opt.ostep \in Nat /\ opt.ostep > 0
        /\ ts \in Nat /\ Played \in Nat /\ cts \in Nat
        /\ Len(out) \in Nat /\ Len(taken) \in Nat
    BY <1>2 DEF NumberFacts, TypeOK
  <1>3. /\ Len(out') = Len(out) + 1 /\ out' # << >>
        /\ out'[Len(out')] = IF main_vdata # 0 THEN main_vdata ELSE shown
        /\ ts' = ts + opt.ostep /\ Played' = Played
    BY LengthSteps
  <1>4. main_vdata # 0 \/ (converts /\ shown # 0)
    BY ShownIsFrame
  <1>6. \/ ~NeedsFrame /\ late' = late
        \/ NeedsFrame /\ main_vdata # 0 /\ ~bEOF /\ late' = TRUE
    BY DEF Shows, LoopInv
  <1>8. FrameInv'
    <2>1. taken # << >> => out'[Len(out')] = taken[Len(taken)]
      BY <1>2, <1>3, <1>4 DEF FrameInv, ClockInv, ShownInv
    <2>2. taken # << >>
      BY <1>2, <1>4 DEF FrameInv, ClockInv, ShownInv
    <2> QED
      BY <1>1, <1>3, <2>1, <2>2 DEF FrameInv
  <1>9. CASE ~converts
    <2>1. PlainInv /\ main_vdata # 0 /\ opt.tstep = opt.ostep /\ shown' = 0
      BY <1>1, <1>2, <1>4, <1>9 DEF ClockInv, PlainInv, converts
    <2>2. late' = late
      BY <1>6, <1>9, <2>1 DEF NeedsFrame
    <2>3. Len(taken) = Len(out) + 1
      BY <2>1 DEF PlainInv
    <2>4. PlainInv'
      BY <1>1, <1>3, <1>n, <2>1, <2>2, <2>3 DEF PlainInv
    <2> QED
      BY <1>1, <1>8, <1>9, <2>4 DEF PictureInv, ClockInv
  <1>10. CASE converts /\ shown = 0
    <2>1. FirstInv /\ main_vdata # 0 /\ shown' = main_vdata
      BY <1>1, <1>2, <1>4, <1>10 DEF ClockInv
    <2>2. late' = late /\ ~late
      BY <1>6, <1>10, <2>1 DEF NeedsFrame, FirstInv
    <2>3. Len(taken) = 1 /\ cts = 0 /\ Len(out) = 0
      BY <2>1 DEF FirstInv
    <2>4. ts' = opt.ostep /\ Played = opt.tstep
      <3>1. 0 * opt.ostep = 0 /\ 1 * opt.tstep = opt.tstep
        BY <1>n, Products
      <3>2. ts = 0
        BY <2>3, <3>1 DEF ts, num
      <3> QED
        BY <1>3, <1>n, <2>3, <3>1, <3>2 DEF Played
    <2>6. shown' = taken[Len(taken)] /\ taken # << >>
      BY <1>2, <2>1 DEF FrameInv
    <2>7. ShownInv'
      BY <1>1, <1>3, <1>n, <2>4, <2>6 DEF ShownInv
    <2>8. opt.tstep > opt.ostep => RepeatInv'
      BY <1>1, <1>3, <1>n, <2>2, <2>3, <2>4 DEF RepeatInv
    <2>9. opt.tstep < opt.ostep => SkipInv'
      BY <1>1, <1>3, <1>n, <2>2, <2>3, <2>4 DEF SkipInv
    <2> QED
      BY <1>1, <1>8, <1>10, <2>1, <2>7, <2>8, <2>9 DEF PictureInv, ClockInv
  <1>11. CASE converts /\ shown # 0
    <2>1. shown' # 0 /\ shown' = taken[Len(taken)] /\ ShownInv
      BY <1>1, <1>2, <1>11 DEF FrameInv, ClockInv, ShownInv
    <2>2. ShownInv'
      BY <1>1, <1>3, <1>n, <2>1, SMTT(30) DEF ShownInv
    <2>3. ~NeedsFrame <=> ts <= cts + opt.tstep
      BY <1>11, <1>n DEF NeedsFrame
    <2>4. ASSUME opt.tstep > opt.ostep
          PROVE  RepeatInv'
      <3>1. RepeatInv
        BY <1>2, <1>11, <2>4 DEF ClockInv
      <3>2. ts <= Played /\ late' = late
        BY <1>6, <1>n, <2>3, <3>1 DEF RepeatInv
      <3>4. ts' <= Played' + opt.ostep
        BY <1>3, <1>n, <3>2
      <3> QED
        BY <1>1, <1>3, <1>n, <3>1, <3>2, <3>4 DEF RepeatInv
    <2>5. ASSUME opt.tstep < opt.ostep
          PROVE  SkipInv'
      <3>1. SkipInv
        BY <1>2, <1>11, <2>5 DEF ClockInv
      <3>2. main_vdata # 0 /\ cts < ts
        BY <1>6, <1>n, <2>3, <3>1 DEF SkipInv
      <3>3. cts' + opt.tstep < ts'
        BY <1>1, <1>3, <1>n, <2>5, <3>2
      <3>4. late' \/ ts' <= Played + opt.tstep + opt.ostep
                  \/ (cts > Played /\ ts' <= Played + opt.tstep + 2 * opt.ostep)
        <4>1. CASE late' = TRUE
          BY <4>1
        <4>2. CASE late' = late /\ ~NeedsFrame
          <5>1. late \/ ts <= Played + opt.tstep + opt.ostep
            BY <3>1, <3>2 DEF SkipInv
          <5>2. ts <= cts + opt.tstep
            BY <2>3, <4>2
          <5> QED
            <6>1. CASE late
              BY <4>2, <6>1
            <6>2. CASE cts > Played /\ ts <= Played + opt.tstep + opt.ostep
              <7>1. ts + opt.ostep <= Played + opt.tstep + 2 * opt.ostep
                BY <1>n, <6>2
              <7> QED
                BY <1>3, <6>2, <7>1
            <6>3. CASE ~(cts > Played)
              <7>1. ts + opt.ostep <= Played + opt.tstep + opt.ostep
                BY <1>n, <5>2, <6>3
              <7> QED
                BY <1>3, <7>1
            <6> QED
              BY <5>1, <6>1, <6>2, <6>3
        <4> QED
          BY <1>6, <4>1, <4>2
      <3> QED
        BY <1>1, <1>3, <3>1, <3>3, <3>4 DEF SkipInv
    <2> QED
      BY <1>1, <1>8, <1>11, <2>1, <2>2, <2>4, <2>5 DEF PictureInv, ClockInv
  <1> QED
    BY <1>9, <1>10, <1>11

\* Silence for missing audio changes no picture.
LEMMA PictureMutes ==
    ASSUME TypeOK, LoopInv, PictureInv, Mutes
    PROVE  PictureInv'
  <1>1. /\ UNCHANGED <<opt, iteration, taken, out, late, result, converts, Played, ts>>
        /\ opt.main = "audio"
    BY DEF Mutes, Calm, converts, Played, ts, num
  <1>2. NumberFacts /\ result = "running"
    BY Numbers DEF Mutes, LoopInv
  <1>3. ~converts /\ opt.main # "video"
    BY <1>1, <1>2 DEF NumberFacts
  <1>4. FrameInv /\ PlainInv
    BY <1>2, <1>3 DEF PictureInv, ClockInv
  <1>6. PlainInv'
    BY <1>1, <1>4 DEF PlainInv, iteration
  <1>7. FrameInv'
    BY <1>1, <1>4 DEF FrameInv, iteration
  <1> QED
    BY <1>1, <1>3, <1>6, <1>7 DEF PictureInv, ClockInv

\* Every step keeps the frames shown in their time and the sound with them.
LEMMA PictureStep ==
    ASSUME TypeOK, LoopInv, PictureInv, [Next]_vars
    PROVE  PictureInv'
  <1>1. CASE Quits("EOF") \/ Quits("failure")
    BY <1>1 DEF Quits, Leave, PictureInv
  <1>2. CASE Closes
    BY <1>2 DEF Closes, LoopInv, PictureInv
  <1>3. CASE UNCHANGED vars
    <2>1. /\ UNCHANGED <<opt, iteration, sound, taken, out, late, result, mpc, bEOF, queue, Played,
                         ts>>
      BY <1>3 DEF vars, mvars, Played, ts, num
    <2>2. SkipInv => SkipInv'
      BY <2>1 DEF SkipInv, iteration, sound
    <2> QED
      BY <2>1, <2>2, ClockKept DEF PictureInv
  <1> QED
    BY <1>1, <1>2, <1>3, MainSteps, PictureDecoder, PictureWaits, PictureJumps, PicturePop,
       PictureShows, PictureMutes DEF Next

-----------------------------------------------------------------------------
(* The sound.                                                               *)

\* A frame brings sound, and the gap is recorded.
LEMMA SoundPop ==
    ASSUME TypeOK, LoopInv, PictureInv, SoundInv, PopFrame
    PROVE  SoundInv'
  <1>1. /\ opt.tstep \in Nat /\ opt.ostep \in Nat /\ Played \in Nat /\ main_adata \in Nat
        /\ sent_audio_bytes \in Nat /\ silence \in Nat /\ gap \in Nat
        /\ opt.main \in {"video", "audio"} /\ (converts => opt.main = "video")
    BY Numbers DEF NumberFacts, TypeOK
  <1>2. UNCHANGED <<opt, sent_audio_bytes, silence, ts>> /\ NeedsFrame
    BY DEF PopFrame, Pop, sound, ts, num, LoopInv
  <1>3. /\ main_adata' \in Nat /\ main_adata' >= main_adata
        /\ opt.main = "audio" => main_adata' <= main_adata + opt.tstep
        /\ gap' \in Nat /\ gap' >= gap
        /\ opt.main = "video" /\ opt.sound = "own" => lag' <= gap'
    BY BroughtFacts
  <1>4. main_vdata' # 0
    <2>1. main_vdata' = Head(queue) /\ Head(queue) \in 1 .. NumFrames
      BY LengthSteps DEF PopFrame, Pop
    <2> QED
      BY <2>1
  <1>5. opt.main = "audio" => main_adata' <= opt.tstep
    <2>1. opt.main = "audio" => main_adata = 0
      BY <1>1, <1>2 DEF NeedsFrame, SoundInv
    <2> QED
      BY <1>1, <1>3, <2>1
  <1>6. Played' \in Nat /\ lag' = Played' - (sent_audio_bytes - silence + main_adata')
    <2>1. Played' = Played + opt.tstep
      BY LengthSteps
    <2> QED
      BY <1>1, <1>2, <2>1 DEF lag, Played
  <1>7. opt.main = "video" /\ opt.sound = "own" =>
            Played' + silence <= sent_audio_bytes + main_adata' + gap'
    <2> DEFINE p == Played'  a == main_adata'  g == gap'
    <2>1. /\ p \in Nat /\ a \in Nat /\ g \in Nat
          /\ opt.main = "video" /\ opt.sound = "own" => p - (sent_audio_bytes - silence + a) <= g
      BY <1>3, <1>6
    <2> HIDE DEF p, a, g
    <2>2. opt.main = "video" /\ opt.sound = "own" => p + silence <= sent_audio_bytes + a + g
      BY <1>1, <2>1
    <2> QED
      BY <2>2 DEF p, a, g
  <1>8. opt.main = "video" /\ opt.sound = "own" =>
            silence <= IF opt.tstep > opt.ostep THEN opt.ostep + gap' ELSE 0
    BY <1>1, <1>3 DEF SoundInv
  <1> QED
    BY <1>2, <1>4, <1>5, <1>7, <1>8 DEF SoundInv

\* Frames are shown again only by a source that is slower, and not after its time.
LEMMA ShownAgain ==
    ASSUME TypeOK, LoopInv, PictureInv, Shows, main_vdata = 0
    PROVE  opt.tstep > opt.ostep /\ ts <= Played
  <1>1. /\ opt.tstep \in Nat /\ opt.ostep \in Nat /\ Played \in Nat /\ ts \in Nat /\ cts \in Nat
    BY Numbers DEF NumberFacts, TypeOK
  <1>2. converts /\ shown # 0 /\ ~NeedsFrame
    BY ShownIsFrame DEF Shows
  <1>3. ~(cts + opt.tstep < ts)
    BY <1>2 DEF NeedsFrame
  <1>4. ClockInv
    BY DEF Shows, LoopInv, PictureInv
  <1>5. opt.tstep > opt.ostep
    <2>1. CASE opt.tstep < opt.ostep
      BY <1>2, <1>3, <1>4, <2>1 DEF ClockInv, SkipInv
    <2> QED
      BY <1>1, <1>2, <2>1 DEF converts
  <1>6. cts + opt.tstep = Played
    BY <1>2, <1>4, <1>5 DEF ClockInv, RepeatInv
  <1> QED
    BY <1>1, <1>3, <1>5, <1>6

\* The sound sent with a rendered frame.
LEMMA SoundShows ==
    ASSUME TypeOK, LoopInv, PictureInv, SoundInv, Shows
    PROVE  SoundInv'
  <1>1. /\ opt.tstep \in Nat /\ opt.ostep \in Nat /\ Played \in Nat /\ ts \in Nat
        /\ main_adata \in Nat /\ sent_audio_bytes \in Nat /\ silence \in Nat /\ gap \in Nat
        /\ opt.audio_ahead \in Nat /\ opt.main \in {"video", "audio"}
        /\ opt.main = "audio" => opt.sound = "own" /\ opt.tstep = opt.ostep
    BY Numbers DEF NumberFacts, TypeOK, converts
  <1>2. /\ UNCHANGED <<opt, gap, Played>> /\ main_vdata' = 0 /\ main_adata' = 0
        /\ ts' = ts + opt.ostep
    BY LengthSteps DEF Shows, Render, Calm
  <1>3. Mix
    BY DEF Shows, Render
  <1>4. CASE opt.sound = "separate"
    <2>1. sent_audio_bytes' <= ts + opt.ostep
      BY <1>1, <1>3, <1>4, MixFacts
    <2> QED
      BY <1>1, <1>2, <1>4, <2>1 DEF SoundInv
  <1>5. CASE opt.sound # "separate" /\ main_adata # 0
    <2>1. sent_audio_bytes' = sent_audio_bytes + main_adata /\ silence' = silence
      BY <1>3, <1>5, MixFacts
    <2>2. opt.main = "audio" => sent_audio_bytes' <= ts' + opt.audio_ahead
      BY <1>1, <1>2, <2>1 DEF SoundInv
    <2>3. opt.main = "video" /\ opt.sound = "own" =>
              Played + silence' <= sent_audio_bytes' + 0 + gap
      BY <1>1, <2>1 DEF SoundInv
    <2> QED
      BY <1>1, <1>2, <1>5, <2>1, <2>2, <2>3 DEF SoundInv
  <1>6. CASE opt.sound # "separate" /\ main_adata = 0 /\ UNCHANGED sound
    <2>1. UNCHANGED <<sent_audio_bytes, silence, main_adata>>
      BY <1>2, <1>6 DEF sound
    <2>2. opt.main = "audio" => sent_audio_bytes' <= ts' + opt.audio_ahead
      BY <1>1, <1>2, <2>1 DEF SoundInv
    <2> QED
      BY <1>1, <1>2, <1>6, <2>1, <2>2 DEF SoundInv
  <1>7. CASE /\ opt.sound # "separate" /\ main_adata = 0
             /\ ~NotYetHeard /\ sent_audio_bytes < ts + opt.ostep
             /\ sent_audio_bytes' = ts + opt.ostep
             /\ silence' = silence + (ts + opt.ostep - sent_audio_bytes)
    <2>1. opt.main = "audio" => sent_audio_bytes' <= ts' + opt.audio_ahead
      BY <1>1, <1>2, <1>7
    <2>2. ASSUME opt.main = "video" /\ opt.sound = "own"
          PROVE  /\ Played + silence' <= sent_audio_bytes' + 0 + gap
                 /\ silence' <= IF opt.tstep > opt.ostep THEN opt.ostep + gap ELSE 0
      <3>1. main_vdata = 0
        BY <1>7, <2>2 DEF NotYetHeard
      <3>2. opt.tstep > opt.ostep /\ ts <= Played
        BY <3>1, ShownAgain
      <3>3. Played + silence <= sent_audio_bytes + gap
        BY <1>1, <1>7, <2>2 DEF SoundInv
      <3>4. Played + silence' <= sent_audio_bytes' + 0 + gap
        BY <1>1, <1>7, <3>3
      <3>5. silence' <= opt.ostep + gap
        BY <1>1, <1>7, <3>2, <3>3
      <3> QED
        BY <3>2, <3>4, <3>5
    <2> QED
      BY <1>1, <1>2, <1>7, <2>1, <2>2 DEF SoundInv
  <1> QED
    BY <1>3, <1>4, <1>5, <1>6, <1>7, MixFacts

\* Every step keeps what is said of the sound.
LEMMA SoundStep ==
    ASSUME TypeOK, LoopInv, PictureInv, HeardInv, [Next]_vars
    PROVE  HeardInv'
  <1>1. CASE UNCHANGED <<opt, main_vdata, main_adata, sound, result, taken, out, gap>>
    BY <1>1 DEF HeardInv, SoundInv, Played, ts, num, sound
  <1>2. CASE Decoder
    BY <1>1, <1>2, DecoderSteps DEF mvars, iteration
  <1>3. CASE Waits
    BY <1>1, <1>3 DEF Waits, Calm, iteration
  <1>4. CASE Quits("EOF") \/ Quits("failure")
    BY <1>4 DEF Quits, Leave, HeardInv
  <1>5. CASE Jumps
    BY <1>1, <1>5 DEF Jumps, Calm
  <1>6. CASE PopFrame
    BY <1>6, SoundPop DEF PopFrame, Pop, HeardInv
  <1>7. CASE Shows
    BY <1>7, SoundShows DEF Shows, Render, HeardInv
  <1>8. CASE Mutes
    <2>1. /\ UNCHANGED <<opt, main_vdata, main_adata, silence, result, taken, out, gap, ts>>
          /\ sent_audio_bytes' = ts /\ opt.main = "audio"
      BY <1>8 DEF Mutes, Calm, iteration, ts, num
    <2>2. ts \in Nat /\ opt.audio_ahead \in Nat /\ opt.sound = "own"
      BY <2>1, Numbers DEF NumberFacts
    <2>3. SoundInv => SoundInv'
      BY <2>1, <2>2 DEF SoundInv
    <2> QED
      BY <2>1, <2>3 DEF HeardInv
  <1>9. CASE Closes
    BY <1>1, <1>9 DEF Closes, iteration
  <1>10. CASE UNCHANGED vars
    BY <1>1, <1>10 DEF vars, mvars, iteration
  <1> QED
    BY <1>2, <1>3, <1>4, <1>5, <1>6, <1>7, <1>8, <1>9, <1>10, MainSteps DEF Next

-----------------------------------------------------------------------------
(* The length of the output and the time of its frames.                     *)

\* The last frame taken is not before its place in the source, and at it if no
\* frame was discarded.
LEMMA LastTaken ==
    ASSUME TypeOK, LoopInv, ReadInv, NothingLostInTransit, taken # << >>
    PROVE  /\ taken[Len(taken)] \in Len(taken) .. NumFrames /\ Len(taken) \in Nat \ {0}
           /\ opt.floor_size = 0 => taken[Len(taken)] = Len(taken)
  <1> DEFINE n == Len(taken)
  <1>1. taken \in Seq(1 .. NumFrames) /\ queue \in Seq(1 .. NumFrames)
    BY DEF TypeOK
  <1>2. n \in Nat \ {0} /\ n \in 1 .. n /\ taken[n] \in 1 .. NumFrames
    <2>1. n \in Nat \ {0}
      BY <1>1, EmptySeq
    <2>2. n \in 1 .. n
      BY <2>1
    <2> QED
      BY <1>1, <2>1, <2>2, ElementOfSeq
  <1>3. Len(taken \o queue) = n + Len(queue) /\ Len(queue) \in Nat /\ (taken \o queue)[n] = taken[n]
    BY <1>1, <1>2, CatFacts
  <1>4. InFlight \in Seq(1 .. NumFrames) /\ taken \o queue \in Seq(1 .. NumFrames)
    BY TransitType
  <1>5. /\ \A i \in 1 .. Len(taken \o queue) : Transit[i] = (taken \o queue)[i]
        /\ DOMAIN Transit = 1 .. Len(taken \o queue) + Len(InFlight) /\ Len(InFlight) \in Nat
    BY <1>4, CatFacts DEF Transit
  <1> HIDE DEF n
  <1>6. n \in 1 .. Len(taken \o queue) /\ n \in DOMAIN Transit
    BY <1>2, <1>3, <1>5
  <1>7. Transit[n] = taken[n] /\ n <= Transit[n]
    BY <1>3, <1>5, <1>6 DEF ReadInv
  <1>8. opt.floor_size = 0 => Transit[n] = n
    BY <1>6 DEF NothingLostInTransit, Transit
  <1>9. taken[n] \in n .. NumFrames
    BY <1>2, <1>7
  <1> QED
    BY <1>2, <1>7, <1>8, <1>9 DEF n

\* When the main loop needs a frame and has none, the output is as long as what
\* was taken, and not much longer.
LEMMA LengthAtEnd ==
    ASSUME TypeOK, LoopInv, PictureInv, result = "running", main_vdata = 0, NeedsFrame
    PROVE  /\ ts >= Played
           /\ late \/ ts <= Played + opt.tstep + 2 * opt.ostep
  <1>1. /\ opt.tstep \in Nat /\ opt.tstep > 0 /\ opt.ostep \in Nat /\ opt.ostep > 0
        /\ ts \in Nat /\ Played \in Nat /\ cts \in Nat
    BY Numbers DEF NumberFacts, TypeOK
  <1>2. ClockInv
    BY DEF PictureInv
  <1>3. CASE ~converts
    <2>1. ts = Played
      BY <1>2, <1>3 DEF ClockInv, PlainInv, ts, num, Played, converts, TypeOK
    <2> QED
      BY <1>1, <2>1
  <1>4. CASE converts /\ shown = 0
    <2>1. Len(out) = 0 /\ Len(taken) = 0
      BY <1>2, <1>4 DEF ClockInv, FirstInv
    <2>2. ts = 0 /\ Played = 0
      BY <1>1, <2>1, Products DEF ts, num, Played
    <2> QED
      BY <1>1, <2>2
  <1>5. CASE converts /\ shown # 0
    <2>1. cts + opt.tstep < ts
      BY <1>5 DEF NeedsFrame
    <2>2. CASE opt.tstep > opt.ostep
      <3>1. cts + opt.tstep = Played /\ ts <= Played + opt.ostep
        BY <1>2, <1>5, <2>2 DEF ClockInv, RepeatInv
      <3> QED
        BY <1>1, <2>1, <3>1
    <2>3. CASE opt.tstep < opt.ostep
      <3>1. /\ Played <= cts + opt.tstep
            /\ \/ late \/ ts <= Played + opt.tstep + opt.ostep
               \/ ts <= Played + opt.tstep + 2 * opt.ostep
        BY <1>2, <1>5, <2>3 DEF ClockInv, SkipInv
      <3>2. ts >= Played
        BY <1>1, <2>1, <3>1
      <3>3. ts <= Played + opt.tstep + opt.ostep => ts <= Played + opt.tstep + 2 * opt.ostep
        BY <1>1
      <3> QED
        BY <3>1, <3>2, <3>3
    <2> QED
      BY <1>1, <1>5, <2>2, <2>3 DEF converts
  <1> QED
    BY <1>3, <1>4, <1>5

\* Every step keeps the length of the output, which is decided when the main loop
\* takes the source for ended.
LEMMA DurationStep ==
    ASSUME TypeOK, LoopInv, PictureInv, ReadInv, NothingLostInTransit, Duration, [Next]_vars
    PROVE  Duration'
  <1>1. CASE Quits("EOF")
    <2> SUFFICES ASSUME opt.main = "video", Len(taken) = NumFrames
                 PROVE  /\ NumFrames > 0 => out[Len(out)] = NumFrames
                        /\ Len(out) * opt.ostep >= NumFrames * opt.tstep
                        /\ \/ late
                           \/ Len(out) * opt.ostep <= (NumFrames + 2) * opt.tstep + 2 * opt.ostep
      BY <1>1 DEF Quits, Leave, Calm, Duration
    <2>1. /\ opt.tstep \in Nat /\ opt.ostep \in Nat /\ NumFrames \in Nat
          /\ ts \in Nat /\ Played \in Nat
      BY Numbers DEF NumberFacts
    <2>2. result = "running" /\ main_vdata = 0 /\ NeedsFrame
      BY <1>1 DEF Quits, LoopInv
    <2>3. ts >= Played /\ (late \/ ts <= Played + opt.tstep + 2 * opt.ostep)
      BY <2>2, LengthAtEnd
    <2>4. Played = NumFrames * opt.tstep /\ ts = Len(out) * opt.ostep
      BY DEF Played, ts, num
    <2>5. (NumFrames + 2) * opt.tstep = Played + 2 * opt.tstep
      <3>1. (NumFrames + 1) * opt.tstep = Played + opt.tstep
        BY <2>1, <2>4, Products
      <3>2. NumFrames + 1 \in Nat /\ (NumFrames + 1) + 1 = NumFrames + 2
        BY <2>1
      <3>3. ((NumFrames + 1) + 1) * opt.tstep = (NumFrames + 1) * opt.tstep + opt.tstep
        BY <2>1, <3>2, Products
      <3> QED
        BY <2>1, <3>1, <3>2, <3>3
    <2>6. ASSUME NumFrames > 0
          PROVE  out[Len(out)] = NumFrames
      <3>1. taken # << >>
        BY <2>1, <2>6
      <3>2. taken[Len(taken)] = NumFrames
        BY <2>1, <3>1, LastTaken
      <3>3. out[Len(out)] = taken[Len(taken)]
        BY <2>2, <3>1 DEF PictureInv, FrameInv
      <3> QED
        BY <3>2, <3>3
    <2>7. late \/ ts <= (NumFrames + 2) * opt.tstep + 2 * opt.ostep
      <3>1. ts <= Played + opt.tstep + 2 * opt.ostep => ts <= Played + 2 * opt.tstep + 2 * opt.ostep
        BY <2>1
      <3> QED
        BY <2>3, <2>5, <3>1
    <2> QED
      BY <2>3, <2>4, <2>6, <2>7
  <1>2. CASE result' # "EOF"
    BY <1>2 DEF Duration
  <1>3. CASE UNCHANGED <<opt, result, taken, out, gap, late>>
    BY <1>3 DEF Duration
  <1>4. CASE Decoder
    BY <1>3, <1>4, DecoderSteps DEF mvars
  <1>5. CASE Waits \/ Jumps \/ Mutes \/ Closes
    BY <1>3, <1>5 DEF Waits, Jumps, Mutes, Closes, Calm
  <1>6. CASE PopFrame
    BY <1>2, <1>6 DEF PopFrame, Pop, LoopInv
  <1>7. CASE Shows
    BY <1>2, <1>7 DEF Shows, Render, LoopInv
  <1>8. CASE Quits("failure")
    BY <1>2, <1>8 DEF Quits, Leave
  <1>9. CASE UNCHANGED vars
    BY <1>3, <1>9 DEF vars, mvars
  <1> QED
    BY <1>1, <1>4, <1>5, <1>6, <1>7, <1>8, <1>9, MainSteps DEF Next

\* A frame that is rendered is in its time.
LEMMA RenderInTime ==
    ASSUME ReaderInv, Shows, opt.floor_size = 0
    PROVE  LET f == out'[Len(out')]
           IN  /\ (f - 1) * opt.tstep <= ts
               /\ f * opt.tstep >= ts \/ timeout_num' > 0 \/ bEOF
  <1>1. TypeOK /\ LoopInv /\ PictureInv /\ ReadInv /\ NothingLostInTransit
    BY DEF ReaderInv, FramesKept
  <1>2. FrameInv /\ ClockInv
    BY <1>1 DEF Shows, LoopInv, PictureInv
  <1>3. /\ opt.tstep \in Nat /\ opt.tstep > 0 /\ opt.ostep \in Nat /\ opt.ostep > 0
        /\ ts \in Nat /\ Played \in Nat /\ cts \in Nat /\ timeout_num \in Nat
        /\ Len(out) \in Nat /\ Len(taken) \in Nat
    BY <1>1, Numbers DEF NumberFacts, TypeOK
  <1>4. main_vdata # 0 \/ (converts /\ shown # 0)
    BY <1>1, ShownIsFrame
  <1>5. out'[Len(out')] = IF main_vdata # 0 THEN main_vdata ELSE shown
    BY <1>1, LengthSteps
  <1>6. taken # << >> /\ out'[Len(out')] = taken[Len(taken)]
    BY <1>2, <1>4, <1>5 DEF FrameInv, ClockInv, ShownInv
  <1> DEFINE n == Len(taken)
  <1>7. out'[Len(out')] = n /\ n \in Nat \ {0}
    BY <1>1, <1>6, LastTaken
  <1>8. n * opt.tstep = Played /\ (n - 1) * opt.tstep = Played - opt.tstep
    <2>1. n - 1 \in Nat /\ (n - 1) + 1 = n
      BY <1>7
    <2>2. ((n - 1) + 1) * opt.tstep = (n - 1) * opt.tstep + opt.tstep /\ (n - 1) * opt.tstep \in Nat
      BY <1>3, <2>1, Products
    <2>3. n * opt.tstep = Played
      BY DEF Played
    <2> QED
      BY <1>3, <2>1, <2>2, <2>3
  <1>9. CASE ~converts
    <2>1. n = Len(out) + 1 /\ opt.tstep = opt.ostep
      BY <1>2, <1>4, <1>9 DEF ClockInv, PlainInv, converts
    <2>2. n * opt.tstep = ts + opt.ostep
      BY <1>3, <2>1, Products DEF ts, num
    <2> QED
      BY <1>3, <1>7, <1>8, <2>1, <2>2
  <1>10. CASE converts /\ shown = 0
    <2>1. n = 1 /\ Len(out) = 0
      BY <1>2, <1>4, <1>10 DEF ClockInv, FirstInv
    <2>2. ts = 0 /\ Played = opt.tstep
      BY <1>3, <2>1, Products DEF ts, num, Played
    <2> QED
      BY <1>3, <1>7, <1>8, <2>2
  <1>11. CASE converts /\ shown # 0
    <2>1. Played - opt.tstep <= ts
      BY <1>2, <1>3, <1>11 DEF ClockInv, ShownInv
    <2>2. Played >= ts \/ timeout_num' > 0 \/ bEOF
      <3>1. CASE mpc = "missed"
        <4>1. timeout_num' = timeout_num + 1
          BY <3>1 DEF Shows
        <4> QED
          BY <1>3, <4>1
      <3>2. CASE mpc # "missed"
        <4>1. ts <= cts + opt.tstep
          <5>1. ~(cts + opt.tstep < ts)
            BY <1>11, <3>2 DEF Shows, NeedsFrame
          <5> QED
            BY <1>3, <5>1
        <4>2. CASE opt.tstep > opt.ostep
          BY <1>2, <1>11, <4>1, <4>2 DEF ClockInv, RepeatInv
        <4>3. CASE opt.tstep < opt.ostep
          <5>1. cts + opt.tstep > Played => bEOF
            BY <1>2, <1>11, <4>3 DEF ClockInv, SkipInv
          <5>2. cts + opt.tstep > Played \/ ts <= Played
            BY <1>3, <4>1
          <5> QED
            BY <1>3, <5>1, <5>2
        <4> QED
          BY <1>3, <1>11, <4>2, <4>3 DEF converts
      <3> QED
        BY <3>1, <3>2
    <2> HIDE DEF n
    <2> QED
      BY <1>7, <1>8, <2>1, <2>2
  <1> QED
    BY <1>9, <1>10, <1>11

-----------------------------------------------------------------------------
(* The theorems.                                                            *)

\* The strengthened invariant holds in every state that can be reached.
THEOREM ReaderInvariant == Spec => []ReaderInv
  <1>1. Init => ReaderInv
    <2> SUFFICES ASSUME Init
                 PROVE  ReaderInv
      OBVIOUS
    <2>1. TypeOK
      <3>1. /\ opt \in Options /\ opt.audio_ahead \in Nat /\ NumFrames \in Nat
            /\ read_timeout \in Nat
        BY MainReaderAssumption DEF Init, Option
      <3>2. 0 \in 0 .. NumFrames /\ 0 \in 0 .. read_timeout /\ << >> \in Seq(1 .. NumFrames)
        BY <3>1, EmptySeq
      <3> QED
        BY <3>1, <3>2 DEF Init, TypeOK
    <2>2. LoopInv
      BY DEF Init, LoopInv
    <2>3. Transit = << >>
      <3>1. << >> \in Seq(1 .. NumFrames)
        BY EmptySeq
      <3> QED
        BY <3>1, ConcatEmptySeq DEF Init, Transit, InFlight
    <2>4. NothingLostInTransit /\ InOrder /\ ReadInv
      <3>1. pos = 0 /\ [i \in 1 .. 0 |-> i] = << >>
        BY DEF Init
      <3> QED
        BY <2>3, <3>1 DEF NothingLostInTransit, InOrder, ReadInv, Transit
    <2>5. PictureInv
      <3>1. NumberFacts
        BY <2>1, Numbers
      <3>2. PlainInv /\ FirstInv /\ FrameInv /\ shown = 0
        BY <3>1 DEF Init, PlainInv, FirstInv, FrameInv, NumberFacts
      <3> QED
        BY <3>2 DEF PictureInv, ClockInv
    <2>6. EofIsReal /\ Duration
      BY DEF Init, EofIsReal, Duration
    <2>7. HeardInv
      <3>1. /\ opt.audio_ahead \in Nat /\ ts \in Nat /\ opt.tstep \in Nat /\ opt.ostep \in Nat
            /\ opt.main = "video" => opt.audio_ahead = 0
            /\ opt.main \in {"video", "audio"} /\ (opt.main = "audio" => opt.sound = "own")
        BY <2>1, Numbers DEF NumberFacts
      <3>2. Played = 0
        <4>1. Len(taken) = 0
          BY DEF Init
        <4> QED
          BY <3>1, <4>1, Products DEF Played
      <3>3. sent_audio_bytes = opt.audio_ahead /\ silence = 0 /\ main_adata = 0 /\ gap = 0
        BY DEF Init
      <3> QED
        BY <3>1, <3>2, <3>3 DEF HeardInv, SoundInv
    <2> QED
      BY <2>1, <2>2, <2>4, <2>5, <2>6, <2>7 DEF ReaderInv, FramesKept
  <1>2. ReaderInv /\ [Next]_vars => ReaderInv'
    <2> SUFFICES ASSUME ReaderInv, [Next]_vars
                 PROVE  ReaderInv'
      OBVIOUS
    <2>1. /\ TypeOK /\ NothingLostInTransit /\ InOrder /\ ReadInv /\ LoopInv /\ PictureInv
          /\ HeardInv /\ EofIsReal /\ Duration
      BY DEF ReaderInv, FramesKept
    <2>2. TypeOK' /\ LoopInv' /\ PictureInv' /\ HeardInv'
      BY <2>1, TypeStep, LoopStep, PictureStep, SoundStep
    <2>3. NothingLostInTransit' /\ InOrder' /\ ReadInv'
      BY <2>1, FramesStep
    <2>4. EofIsReal' /\ Duration'
      BY <2>1, EofStep, DurationStep
    <2> QED
      BY <2>2, <2>3, <2>4 DEF ReaderInv, FramesKept
  <1> QED
    BY <1>1, <1>2, PTL DEF Spec

\* Between the decoder's reads and the frames the main loop takes, no frame is
\* lost, doubled or reordered; only a floor leaves gaps.
THEOREM NoFrameLost == Spec => []FramesKept
  <1>1. ReaderInv => FramesKept
    BY DEF ReaderInv
  <1> QED
    BY <1>1, ReaderInvariant, PTL

\* The main loop takes the source for ended only when it is, in every setting that
\* tolerates late frames, and in no setting before the first frame.
THEOREM EndIsTrue == Spec => []EofIsReal
  <1>1. ReaderInv => EofIsReal
    BY DEF ReaderInv
  <1> QED
    BY <1>1, ReaderInvariant, PTL

\* For any two frame rates the conversion keeps the length of the main video, to a
\* few frames; its own sound is never replaced by silence because it is late, and
\* the silence between repeated frames is bounded by a frame and the source's own
\* delay; a separate mainaudio never runs ahead.
THEOREM ConversionKeeps == Spec => []Conversion
  <1>1. ReaderInv => LipSync
    BY DEF ReaderInv, HeardInv, SoundInv, LipSync
  <1>2. ReaderInv => Conversion
    BY <1>1 DEF ReaderInv, Conversion
  <1> QED
    BY <1>2, ReaderInvariant, PTL

\* For any two frame rates a frame is shown in its time, unless the next one is
\* late or the source has ended.
THEOREM ShownInTime == Spec => InStep
  <1>1. ReaderInv /\ [Next]_vars =>
            [out' # out /\ opt.main = "video" /\ opt.floor_size = 0 =>
                LET f == out'[Len(out')]
                IN  /\ (f - 1) * opt.tstep <= ts
                    /\ f * opt.tstep >= ts \/ timeout_num' > 0 \/ bEOF]_vars
    <2> SUFFICES ASSUME ReaderInv, [Next]_vars, out' # out, opt.floor_size = 0
                 PROVE  LET f == out'[Len(out')]
                        IN  /\ (f - 1) * opt.tstep <= ts
                            /\ f * opt.tstep >= ts \/ timeout_num' > 0 \/ bEOF
      OBVIOUS
    <2>1. CASE Decoder
      BY <2>1, DecoderSteps DEF ReaderInv, FramesKept, mvars
    <2>2. CASE MainLoop
      <3>1. \/ Waits \/ Quits("EOF") \/ Quits("failure") \/ Jumps \/ PopFrame \/ Shows \/ Mutes
            \/ Closes
        BY <2>2, MainSteps DEF ReaderInv, FramesKept
      <3>2. CASE Shows
        BY <3>2, RenderInTime
      <3>3. CASE Waits \/ Quits("EOF") \/ Quits("failure") \/ Jumps \/ PopFrame \/ Mutes \/ Closes
        BY <3>3 DEF Waits, Quits, Leave, Jumps, PopFrame, Pop, Mutes, Closes
      <3> QED
        BY <3>1, <3>2, <3>3
    <2>3. CASE UNCHANGED vars
      BY <2>3 DEF vars, mvars
    <2> QED
      BY <2>1, <2>2, <2>3 DEF Next
  <1> QED
    BY <1>1, ReaderInvariant, PTL DEF Spec, InStep
=============================================================================
