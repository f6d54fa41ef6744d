------------------------- MODULE StreamDecoderProofs ------------------------
(***************************************************************************)
(* What holds of the queues of a streaming decoder and of the frames it     *)
(* shows, for any source, any queue sizes and any commands.                 *)
(***************************************************************************)
EXTENDS StreamDecoder, QueueLemmas

-----------------------------------------------------------------------------
(* The inductive invariant.                                                 *)

\* cache_video_data
Caching == {"cache", "readv", "pushv", "half", "reada", "pusha"}

\* At the end of the source
Ending == {"eof", "drain", "reopen"}

\* RUN reads an open source that has not ended, and is at its end only when bEOF
\* was set; nobody but a START resets it then.
SourceInv ==
    /\ dpc \in Caching => ~bEOF
    /\ dpc \in Caching \cup Ending \cup {"check", "after"} => opened
    /\ dpc \in Ending => bEOF \/ revoked
    /\ dpc = "pushv" => vpos > 0
    /\ dpc = "pusha" => apos > 0

\* The audio of one read is queued in full when there was room for a piece of it.
LenInv ==
    /\ Len(aQueue) <= frame_num + NumFrames
    /\ dpc = "reada" => Len(aQueue) < frame_num
    /\ dpc = "pusha" => Len(aQueue) < frame_num + apos

Queued == Range(vQueue) \cup Range(aQueue)

\* All that is queued is of opening k.
AllOf(k) == \A f \in Queued : f.of = k

\* The queues may hold frames of an opening before this one only until the source
\* is opened once more.
OpeningInv ==
    ~revoked => /\ \E k \in Nat : AllOf(k)
                /\ ~bEOF => AllOf(opens) /\ (opened \/ Queued = {})

\* What will be discarded is there, unless the decoder has cleared the queues since.
DiscardInv ==
    /\ mpc # "pop" => discard = 0
    /\ mpc = "cut" => floor_size > 0
    /\ mpc = "cut" /\ ~reset => Len(vQueue) >= floor_size
    /\ mpc = "pop" /\ ~reset => discard <= Len(vQueue)
    /\ ~opt.stream => discard = 0
    /\ NoUnderflow

\* The frames of this opening that were queued so far, and those before the queue
Pushed == IF dpc = "pushv" THEN vpos - 1 ELSE vpos
Before == Pushed - Len(vQueue)

\* The queue of a file holds its latest frames in order; the frame that is shown is
\* the one before the queue or, when the queue begins the file, the last of the
\* opening before.
ShownInv ==
    ~opt.stream =>
        /\ ~opened => vQueue = << >>
        /\ dpc = "reopen" /\ ~bExit => vQueue = << >>
        /\ \A i \in DOMAIN vQueue : vQueue[i].no = Before + i
        /\ ~lost /\ last_frame # << >> /\ mpc # "gone" =>
              last_frame[1].no = IF Before > 0 THEN Before ELSE given

DecoderInv ==
    /\ TypeOK /\ SourceInv /\ LenInv /\ OpeningInv /\ DiscardInv /\ ShownInv

-----------------------------------------------------------------------------
(* The queues.                                                              *)

\* The elements of a queue.
LEMMA RangeFacts ==
    ASSUME NEW S, NEW q \in Seq(S)
    PROVE  /\ Range(q) \subseteq S
           /\ \A i \in DOMAIN q : q[i] \in Range(q)
           /\ \A x \in Range(q) : \E i \in DOMAIN q : x = q[i]
  BY DEF Range

\* A cleared queue has no elements.
LEMMA RangeEmpty == Range(<< >>) = {}
  BY DEF Range

\* A push adds its element.
LEMMA RangePush ==
    ASSUME NEW S, NEW q \in Seq(S), NEW e \in S
    PROVE  Range(Append(q, e)) = Range(q) \cup {e}
  <1> DEFINE a == Append(q, e)
             n == Len(q)
  <1>1. /\ n \in Nat /\ DOMAIN a = 1 .. n + 1 /\ DOMAIN q = 1 .. n
        /\ \A i \in 1 .. n : a[i] = q[i]
        /\ a[n + 1] = e
    BY PushFacts
  <1> HIDE DEF a, n
  <1>2. \A i \in DOMAIN a : i \in DOMAIN q \/ i = n + 1
    BY <1>1
  <1>3. \A i \in DOMAIN q : i \in DOMAIN a /\ a[i] = q[i]
    BY <1>1
  <1>4. n + 1 \in DOMAIN a
    BY <1>1
  <1>5. \A i \in DOMAIN a : a[i] \in Range(q) \cup {e}
    BY <1>1, <1>2, <1>3 DEF Range
  <1>6. \A i \in DOMAIN q : q[i] \in Range(a)
    BY <1>3 DEF Range
  <1>7. e \in Range(a)
    BY <1>1, <1>4 DEF Range
  <1>8. Range(a) \subseteq Range(q) \cup {e}
    BY <1>5 DEF Range
  <1>9. Range(q) \subseteq Range(a)
    BY <1>6 DEF Range
  <1> QED
    BY <1>7, <1>8, <1>9 DEF a

\* Dropping the first elements adds none.
LEMMA RangeDrop ==
    ASSUME NEW S, NEW q \in Seq(S), NEW n \in 0 .. Len(q)
    PROVE  /\ DropFirst(q, n) \in Seq(S) /\ Len(DropFirst(q, n)) = Len(q) - n
           /\ Range(DropFirst(q, n)) \subseteq Range(q)
           /\ Len(q) \in Nat
  <1> DEFINE d == DropFirst(q, n)
  <1>1. /\ d \in Seq(S) /\ Len(d) = Len(q) - n /\ DOMAIN d = 1 .. Len(q) - n
        /\ DOMAIN q = 1 .. Len(q) /\ Len(q) \in Nat
        /\ \A i \in 1 .. Len(q) - n : d[i] = q[n + i]
    BY DropFacts DEF DropFirst
  <1> HIDE DEF d
  <1>2. \A i \in DOMAIN d : n + i \in DOMAIN q /\ d[i] = q[n + i]
    BY <1>1
  <1>3. Range(d) \subseteq Range(q)
    BY <1>2 DEF Range
  <1> QED
    BY <1>1, <1>3 DEF d

\* A pop adds none.
LEMMA RangePop ==
    ASSUME NEW S, NEW q \in Seq(S), q # << >>
    PROVE  Range(Tail(q)) \subseteq Range(q)
  <1> DEFINE d == Tail(q)
  <1>1. /\ DOMAIN d = 1 .. Len(q) - 1 /\ DOMAIN q = 1 .. Len(q) /\ Len(q) \in Nat
        /\ \A i \in 1 .. Len(q) - 1 : d[i] = q[i + 1]
    BY PopFacts
  <1> HIDE DEF d
  <1>2. \A i \in DOMAIN d : i + 1 \in DOMAIN q /\ d[i] = q[i + 1]
    BY <1>1
  <1>3. Range(d) \subseteq Range(q)
    BY <1>2 DEF Range
  <1> QED
    BY <1>3 DEF d

\* The elements of two queues together.
LEMMA RangeCat ==
    ASSUME NEW S, NEW s \in Seq(S), NEW t \in Seq(S)
    PROVE  Range(s \o t) \subseteq Range(s) \cup Range(t)
  <1> DEFINE c == s \o t
             n == Len(s)
             k == Len(t)
  <1>1. /\ n \in Nat /\ k \in Nat /\ DOMAIN c = 1 .. n + k
        /\ \A i \in 1 .. n : c[i] = s[i]
        /\ \A i \in 1 .. k : c[n + i] = t[i]
    BY CatFacts
  <1>2. DOMAIN s = 1 .. n /\ DOMAIN t = 1 .. k
    OBVIOUS
  <1> HIDE DEF c, n, k
  <1>3. ASSUME NEW i \in DOMAIN c
        PROVE  c[i] \in Range(s) \cup Range(t)
    <2>1. CASE i \in 1 .. n
      BY <1>1, <1>2, <2>1 DEF Range
    <2>2. CASE i \notin 1 .. n
      <3>1. i - n \in 1 .. k /\ n + (i - n) = i
        BY <1>1, <2>2
      <3>2. c[i] = t[i - n]
        BY <1>1, <3>1
      <3> QED
        BY <1>2, <3>1, <3>2 DEF Range
    <2> QED
      BY <2>1, <2>2
  <1> QED
    BY <1>3 DEF Range, c

\* What the constants allow.
LEMMA Constants ==
    /\ NumFrames \in Nat \ {0} /\ NumOpens \in Nat \ {0} /\ frame_num \in Nat \ {0}
    /\ MaxLate \in Nat /\ stream_size \in Nat
    /\ \A o \in Options : /\ o.stream \in BOOLEAN /\ o.video \in BOOLEAN /\ o.audio \in BOOLEAN
                          /\ o.max_commands \in Nat
  BY StreamDecoderAssumption DEF Option

\* The floor of a file is zero, that of a stream the size of its buffer.
LEMMA FloorFacts ==
    ASSUME TypeOK
    PROVE  /\ floor_size \in Nat /\ floor_size \div 2 \in Nat /\ floor_size \div 2 <= floor_size
           /\ ~opt.stream => floor_size = 0
  <1>1. floor_size \in Nat /\ (~opt.stream => floor_size = 0)
    BY Constants DEF floor_size
  <1> HIDE DEF floor_size
  <1>2. \A n \in Nat : n \div 2 \in Nat /\ n \div 2 <= n
    OBVIOUS
  <1> QED
    BY <1>1, <1>2

\* A read that comes late clears the queues.
LEMMA LateFacts ==
    ASSUME TypeOK, Late
    PROVE  \/ UNCHANGED <<vQueue, aQueue, reset, lost, late>>
           \/ Clear /\ lost' = TRUE /\ late' \in 0 .. MaxLate
  <1>1. CASE UNCHANGED <<queues, history>>
    BY <1>1 DEF queues, history
  <1>2. CASE late < MaxLate /\ late' = late + 1 /\ lost' = TRUE /\ Clear
    <2>1. late' \in 0 .. MaxLate
      BY <1>2, Constants DEF TypeOK
    <2> QED
      BY <1>2, <2>1
  <1> QED
    BY <1>1, <1>2 DEF Late

\* Cleared queues are typed.
LEMMA ClearFacts ==
    ASSUME Clear
    PROVE  /\ vQueue' \in Seq(Frames) /\ aQueue' \in Seq(Frames) /\ reset' \in BOOLEAN
           /\ Len(vQueue') = 0 /\ Len(aQueue') = 0 /\ Queued' = {}
           /\ mpc \in {"cut", "pop"} => reset'
           /\ mpc \notin {"cut", "pop"} => ~reset'
  <1>1. vQueue' = << >> /\ aQueue' = << >>
    BY DEF Clear
  <1>2. /\ vQueue' \in Seq(Frames) /\ aQueue' \in Seq(Frames)
        /\ Len(vQueue') = 0 /\ Len(aQueue') = 0
    BY <1>1, EmptyFacts
  <1>3. reset' = (mpc \in {"cut", "pop"})
    BY DEF Clear
  <1>4. reset' \in BOOLEAN
    BY <1>3
  <1> QED
    BY <1>1, <1>2, <1>3, <1>4, RangeEmpty DEF Queued

\* The frame that PushVideo queues, the piece that PushAudio queues.
LEMMA PushedFrames ==
    ASSUME TypeOK, SourceInv
    PROVE  /\ dpc = "pushv" => [of |-> opens, no |-> vpos] \in Frames
           /\ dpc = "pusha" => [of |-> opens, no |-> apos] \in Frames
  <1>1. opens \in 0 .. NumOpens - 1 /\ vpos \in 0 .. NumFrames /\ apos \in 0 .. NumFrames
    BY DEF TypeOK
  <1>2. dpc = "pushv" => vpos \in 1 .. NumFrames
    BY <1>1, Constants DEF SourceInv
  <1>3. dpc = "pusha" => apos \in 1 .. NumFrames
    BY <1>1, Constants DEF SourceInv
  <1> QED
    BY <1>1, <1>2, <1>3 DEF Frames

\* OpenSource gives the opening a number and starts from the beginning.
LEMMA OpenFacts ==
    ASSUME TypeOK, OpenSource
    PROVE  /\ opened' = TRUE /\ opens' \in 0 .. NumOpens - 1 /\ vpos' = 0 /\ apos' = 0
           /\ given' = (IF vpos = 0 THEN given ELSE vpos) /\ given' \in 0 .. NumFrames
           /\ vpos' \in 0 .. NumFrames /\ apos' \in 0 .. NumFrames
  <1>1. /\ opened' = TRUE /\ vpos' = 0 /\ apos' = 0
        /\ given' = (IF vpos = 0 THEN given ELSE vpos)
        /\ opens' = (opens + 1) % NumOpens
    BY DEF OpenSource
  <1>2. \A n, k \in Nat : k # 0 => n % k \in 0 .. k - 1
    OBVIOUS
  <1>3. opens + 1 \in Nat
    BY Constants DEF TypeOK
  <1>4. opens' \in 0 .. NumOpens - 1
    BY <1>1, <1>2, <1>3, Constants
  <1>5. given' \in 0 .. NumFrames
    BY <1>1 DEF TypeOK
  <1> QED
    BY <1>1, <1>4, <1>5, Constants

\* The length that Cut discards is there in the queue of audio, and in that of video
\* when that has not shrunk below the floor.
LEMMA CutFacts ==
    ASSUME TypeOK, Cut
    PROVE  /\ discard' \in 0 .. Len(aQueue) /\ aQueue' = DropFirst(aQueue, discard')
           /\ Len(vQueue) >= floor_size => discard' <= Len(vQueue)
           /\ mpc = "cut" /\ mpc' = "pop" /\ opt.audio
           /\ UNCHANGED <<opt, bStopped, bExit, bEOF, vQueue, dpc, opened, opens, vpos, apos, given,
                          has_data, last_frame, commands, revoked, reset, lost, late>>
  <1> DEFINE h == floor_size \div 2
             n == Len(vQueue)
             k == Len(aQueue)
  <1>1. /\ discard' = IF n - h < 0 THEN k ELSE Least(n - h, k)
        /\ aQueue' = DropFirst(aQueue, discard')
    BY DEF Cut
  <1>2. n \in Nat /\ k \in Nat /\ h \in Nat /\ h <= floor_size /\ floor_size \in Nat
    BY FloorFacts DEF TypeOK
  <1>3. /\ mpc = "cut" /\ mpc' = "pop" /\ opt.audio
        /\ UNCHANGED <<opt, bStopped, bExit, bEOF, vQueue, dpc, opened, opens, vpos, apos, given,
                       has_data, last_frame, commands, revoked, reset, lost, late>>
    BY DEF Cut, flags, source, history
  <1> HIDE DEF h, n, k
  <1>4. discard' \in 0 .. k
    BY <1>1, <1>2 DEF Least
  <1>5. n >= floor_size => discard' <= n
    BY <1>1, <1>2 DEF Least
  <1> QED
    BY <1>1, <1>3, <1>4, <1>5 DEF n, k

\* CutVideo drops the first frames of the queue, as many as are above half the floor.
LEMMA CutVideoFacts ==
    ASSUME TypeOK, CutVideo
    PROVE  /\ vQueue' \in Seq(Frames) /\ Range(vQueue') \subseteq Range(vQueue)
           /\ mpc = "cut" /\ mpc' = "pop"
  <1>1. mpc = "cut" /\ mpc' = "pop"
    BY DEF CutVideo
  <1> DEFINE h == floor_size \div 2
             n == Len(vQueue)
  <1>2. vQueue \in Seq(Frames) /\ n \in Nat /\ h \in Nat
    BY FloorFacts DEF TypeOK
  <1>3. vQueue' = IF n <= h THEN vQueue ELSE DropFirst(vQueue, n - h)
    BY DEF CutVideo
  <1> HIDE DEF h
  <1>4. CASE n <= h
    BY <1>1, <1>2, <1>3, <1>4
  <1>5. CASE ~(n <= h)
    <2>1. n - h \in 0 .. Len(vQueue)
      BY <1>2, <1>5
    <2> QED
      BY <1>1, <1>2, <1>3, <1>5, <2>1, RangeDrop
  <1> QED
    BY <1>4, <1>5

\* Discard drops what it is told to, if there is as much.
LEMMA DiscardFacts ==
    ASSUME TypeOK, Discard
    PROVE  /\ vQueue' \in Seq(Frames) /\ Range(vQueue') \subseteq Range(vQueue)
           /\ discard' = 0 /\ mpc = "pop" /\ discard > 0 /\ mpc' \in {"pop", "undefined"}
           /\ mpc' = "undefined" => ~(discard <= Len(vQueue))
  <1>1. discard' = 0 /\ mpc = "pop" /\ discard > 0
    BY DEF Discard
  <1>2. vQueue \in Seq(Frames) /\ discard \in Nat /\ Len(vQueue) \in Nat
    BY DEF TypeOK
  <1>3. CASE discard <= Len(vQueue)
    <2>1. vQueue' = DropFirst(vQueue, discard) /\ mpc' = "pop"
      BY <1>3 DEF Discard
    <2>2. discard \in 0 .. Len(vQueue)
      BY <1>2, <1>3
    <2> QED
      BY <1>1, <1>2, <2>1, <2>2, RangeDrop
  <1>4. CASE ~(discard <= Len(vQueue))
    <2>1. vQueue' = vQueue /\ mpc' = "undefined"
      BY <1>4 DEF Discard
    <2> QED
      BY <1>1, <1>2, <1>4, <2>1
  <1> QED
    BY <1>3, <1>4

\* PopFrame shows the first frame of the queue, if there is one.
LEMMA PopFrameFacts ==
    ASSUME TypeOK, PopFrame
    PROVE  /\ mpc = "pop" /\ mpc' = "idle" /\ discard = 0 /\ reset' = FALSE
           /\ \/ vQueue = << >> /\ UNCHANGED <<last_frame, vQueue, lost>>
              \/ /\ vQueue # << >> /\ lost' = FALSE
                 /\ last_frame' = <<Head(vQueue)>> /\ vQueue' = Tail(vQueue)
                 /\ Head(vQueue) \in Frames /\ vQueue' \in Seq(Frames)
                 /\ Range(vQueue') \subseteq Range(vQueue)
  <1>1. mpc = "pop" /\ mpc' = "idle" /\ discard = 0 /\ reset' = FALSE
    BY DEF PopFrame
  <1>2. vQueue \in Seq(Frames)
    BY DEF TypeOK
  <1>3. CASE vQueue = << >>
    BY <1>1, <1>3 DEF PopFrame
  <1>4. CASE vQueue # << >>
    <2>1. lost' = FALSE /\ last_frame' = <<Head(vQueue)>> /\ vQueue' = Tail(vQueue)
      BY <1>4 DEF PopFrame
    <2>2. Head(vQueue) \in Frames /\ Tail(vQueue) \in Seq(Frames)
      BY <1>2, <1>4, PopFacts
    <2>3. Range(Tail(vQueue)) \subseteq Range(vQueue)
      BY <1>2, <1>4, RangePop
    <2> QED
      BY <1>1, <1>4, <2>1, <2>2, <2>3
  <1> QED
    BY <1>3, <1>4

\* ReadSound takes the first piece of audio.
LEMMA ReadSoundFacts ==
    ASSUME TypeOK, ReadSound
    PROVE  /\ aQueue' \in Seq(Frames) /\ Range(aQueue') \subseteq Range(aQueue)
           /\ Len(aQueue') = Len(aQueue) - 1
  <1>1. aQueue \in Seq(Frames) /\ aQueue # << >> /\ aQueue' = Tail(aQueue)
    BY DEF TypeOK, ReadSound
  <1> QED
    BY <1>1, PopFacts, RangePop

\* Cut takes pieces of audio.
LEMMA CutAudio ==
    ASSUME TypeOK, Cut
    PROVE  /\ aQueue' \in Seq(Frames) /\ Range(aQueue') \subseteq Range(aQueue)
           /\ Len(aQueue') <= Len(aQueue)
  <1>1. aQueue \in Seq(Frames) /\ discard' \in 0 .. Len(aQueue) /\ aQueue' = DropFirst(aQueue, discard')
    BY CutFacts DEF TypeOK
  <1>2. /\ aQueue' \in Seq(Frames) /\ Len(aQueue') = Len(aQueue) - discard'
        /\ Range(aQueue') \subseteq Range(aQueue) /\ Len(aQueue) \in Nat
    BY <1>1, RangeDrop
  <1> QED
    BY <1>1, <1>2

\* Every step keeps the types of the variables.
LEMMA TypeStep ==
    ASSUME TypeOK, SourceInv, LenInv, [Next]_vars
    PROVE  TypeOK'
  <1>1. CASE Top
    <2>1. dpc' \in {"none", "top", "open", "check", "stopped", "close", "cache", "readv",
       "pushv", "half", "reada", "pusha", "after", "eof", "drain", "reopen", "done"}
      BY <1>1 DEF Top, Goto, TypeOK
    <2>2. UNCHANGED <<opt, bStopped, bExit, bEOF, vQueue, aQueue, opened, opens, vpos, apos,
       given, has_data, mpc, discard, last_frame, commands, revoked, reset, lost, late>>
      BY <1>1 DEF Top, Goto, flags, queues, source, mvars, history
    <2> QED
      BY <2>1, <2>2 DEF TypeOK
  <1>2. CASE Open
    <2>1. dpc' \in {"none", "top", "open", "check", "stopped", "close", "cache", "readv",
       "pushv", "half", "reada", "pusha", "after", "eof", "drain", "reopen", "done"}
      BY <1>2 DEF Open, TypeOK
    <2>2. opened' \in BOOLEAN
      BY <1>2, OpenFacts DEF Open, source, TypeOK
    <2>3. opens' \in 0 .. NumOpens - 1
      BY <1>2, OpenFacts DEF Open, source, TypeOK
    <2>4. vpos' \in 0 .. NumFrames
      BY <1>2, OpenFacts DEF Open, source, TypeOK
    <2>5. apos' \in 0 .. NumFrames
      BY <1>2, OpenFacts DEF Open, source, TypeOK
    <2>6. given' \in 0 .. NumFrames
      BY <1>2, OpenFacts DEF Open, source, TypeOK
    <2>7. UNCHANGED <<opt, bStopped, bExit, bEOF, vQueue, aQueue, has_data, mpc, discard,
       last_frame, commands, revoked, reset, lost, late>>
      BY <1>2 DEF Open, flags, queues, source, mvars, history
    <2> QED
      BY <2>1, <2>2, <2>3, <2>4, <2>5, <2>6, <2>7 DEF TypeOK
  <1>3. CASE OpenFails
    <2>1. vQueue' \in Seq(Frames)
      BY <1>3, ClearFacts DEF OpenFails
    <2>2. aQueue' \in Seq(Frames)
      BY <1>3, ClearFacts DEF OpenFails
    <2>3. dpc' \in {"none", "top", "open", "check", "stopped", "close", "cache", "readv",
       "pushv", "half", "reada", "pusha", "after", "eof", "drain", "reopen", "done"}
      BY <1>3 DEF OpenFails, TypeOK
    <2>4. reset' \in BOOLEAN
      BY <1>3, ClearFacts DEF OpenFails
    <2>5. lost' \in BOOLEAN
      BY <1>3 DEF OpenFails, TypeOK
    <2>6. UNCHANGED <<opt, bStopped, bExit, bEOF, opened, opens, vpos, apos, given, has_data,
       mpc, discard, last_frame, commands, revoked, late>>
      BY <1>3 DEF OpenFails, flags, source, mvars
    <2> QED
      BY <2>1, <2>2, <2>3, <2>4, <2>5, <2>6 DEF TypeOK
  <1>4. CASE Check
    <2>1. dpc' \in {"none", "top", "open", "check", "stopped", "close", "cache", "readv",
       "pushv", "half", "reada", "pusha", "after", "eof", "drain", "reopen", "done"}
      BY <1>4 DEF Check, Goto, TypeOK
    <2>2. UNCHANGED <<opt, bStopped, bExit, bEOF, vQueue, aQueue, opened, opens, vpos, apos,
       given, has_data, mpc, discard, last_frame, commands, revoked, reset, lost, late>>
      BY <1>4 DEF Check, Goto, flags, queues, source, mvars, history
    <2> QED
      BY <2>1, <2>2 DEF TypeOK
  <1>5. CASE Stopped
    <2>1. dpc' \in {"none", "top", "open", "check", "stopped", "close", "cache", "readv",
       "pushv", "half", "reada", "pusha", "after", "eof", "drain", "reopen", "done"}
      BY <1>5 DEF Stopped, Goto, TypeOK
    <2>2. UNCHANGED <<opt, bStopped, bExit, bEOF, vQueue, aQueue, opened, opens, vpos, apos,
       given, has_data, mpc, discard, last_frame, commands, revoked, reset, lost, late>>
      BY <1>5 DEF Stopped, Goto, flags, queues, source, mvars, history
    <2> QED
      BY <2>1, <2>2 DEF TypeOK
  <1>6. CASE Close
    <2>1. vQueue' \in Seq(Frames)
      BY <1>6, ClearFacts DEF Close
    <2>2. aQueue' \in Seq(Frames)
      BY <1>6, ClearFacts DEF Close
    <2>3. dpc' \in {"none", "top", "open", "check", "stopped", "close", "cache", "readv",
       "pushv", "half", "reada", "pusha", "after", "eof", "drain", "reopen", "done"}
      BY <1>6 DEF Close, TypeOK
    <2>4. opened' \in BOOLEAN
      BY <1>6 DEF Close, TypeOK
    <2>5. reset' \in BOOLEAN
      BY <1>6, ClearFacts DEF Close
    <2>6. lost' \in BOOLEAN
      BY <1>6 DEF Close, TypeOK
    <2>7. UNCHANGED <<opt, bStopped, bExit, bEOF, opens, vpos, apos, given, has_data, mpc,
       discard, last_frame, commands, revoked, late>>
      BY <1>6 DEF Close, flags, mvars
    <2> QED
      BY <2>1, <2>2, <2>3, <2>4, <2>5, <2>6, <2>7 DEF TypeOK
  <1>7. CASE Cache
    <2>1. dpc' \in {"none", "top", "open", "check", "stopped", "close", "cache", "readv",
       "pushv", "half", "reada", "pusha", "after", "eof", "drain", "reopen", "done"}
      BY <1>7 DEF Cache, TypeOK
    <2>2. has_data' \in BOOLEAN
      BY <1>7 DEF Cache, TypeOK
    <2>3. UNCHANGED <<opt, bStopped, bExit, bEOF, vQueue, aQueue, opened, opens, vpos, apos,
       given, mpc, discard, last_frame, commands, revoked, reset, lost, late>>
      BY <1>7 DEF Cache, flags, queues, source, mvars, history
    <2> QED
      BY <2>1, <2>2, <2>3 DEF TypeOK
  <1>8. CASE ReadVideo
    <2>1. vQueue' \in Seq(Frames)
      BY <1>8, LateFacts, ClearFacts DEF ReadVideo, TypeOK
    <2>2. aQueue' \in Seq(Frames)
      BY <1>8, LateFacts, ClearFacts DEF ReadVideo, TypeOK
    <2>3. dpc' \in {"none", "top", "open", "check", "stopped", "close", "cache", "readv",
       "pushv", "half", "reada", "pusha", "after", "eof", "drain", "reopen", "done"}
      BY <1>8 DEF ReadVideo, TypeOK
    <2>4. vpos' \in 0 .. NumFrames
      BY <1>8, Constants DEF ReadVideo, TypeOK
    <2>5. reset' \in BOOLEAN
      BY <1>8, LateFacts, ClearFacts DEF ReadVideo, TypeOK
    <2>6. lost' \in BOOLEAN
      BY <1>8, LateFacts, ClearFacts DEF ReadVideo, TypeOK
    <2>7. late' \in 0 .. MaxLate
      BY <1>8, LateFacts, ClearFacts DEF ReadVideo, TypeOK
    <2>8. UNCHANGED <<opt, bStopped, bExit, bEOF, opened, opens, apos, given, has_data, mpc,
       discard, last_frame, commands, revoked>>
      BY <1>8 DEF ReadVideo, Late, flags, queues, mvars, history
    <2> QED
      BY <2>1, <2>2, <2>3, <2>4, <2>5, <2>6, <2>7, <2>8 DEF TypeOK
  <1>9. CASE PushVideo
    <2>1. vQueue' \in Seq(Frames)
      BY <1>9, PushedFrames, PushFacts DEF PushVideo, TypeOK
    <2>2. dpc' \in {"none", "top", "open", "check", "stopped", "close", "cache", "readv",
       "pushv", "half", "reada", "pusha", "after", "eof", "drain", "reopen", "done"}
      BY <1>9 DEF PushVideo, TypeOK
    <2>3. vpos' \in 0 .. NumFrames
      BY <1>9, Constants DEF PushVideo, TypeOK
    <2>4. has_data' \in BOOLEAN
      BY <1>9 DEF PushVideo, TypeOK
    <2>5. UNCHANGED <<opt, bStopped, bExit, bEOF, aQueue, opened, opens, apos, given, mpc,
       discard, last_frame, commands, revoked, reset, lost, late>>
      BY <1>9 DEF PushVideo, flags, mvars, history
    <2> QED
      BY <2>1, <2>2, <2>3, <2>4, <2>5 DEF TypeOK
  <1>10. CASE Half
    <2>1. dpc' \in {"none", "top", "open", "check", "stopped", "close", "cache", "readv",
       "pushv", "half", "reada", "pusha", "after", "eof", "drain", "reopen", "done"}
      BY <1>10 DEF Half, Goto, TypeOK
    <2>2. UNCHANGED <<opt, bStopped, bExit, bEOF, vQueue, aQueue, opened, opens, vpos, apos,
       given, has_data, mpc, discard, last_frame, commands, revoked, reset, lost, late>>
      BY <1>10 DEF Half, Goto, flags, queues, source, mvars, history
    <2> QED
      BY <2>1, <2>2 DEF TypeOK
  <1>11. CASE ReadAudio
    <2>1. vQueue' \in Seq(Frames)
      BY <1>11, LateFacts, ClearFacts DEF ReadAudio, TypeOK
    <2>2. aQueue' \in Seq(Frames)
      BY <1>11, LateFacts, ClearFacts DEF ReadAudio, TypeOK
    <2>3. dpc' \in {"none", "top", "open", "check", "stopped", "close", "cache", "readv",
       "pushv", "half", "reada", "pusha", "after", "eof", "drain", "reopen", "done"}
      BY <1>11 DEF ReadAudio, TypeOK
    <2>4. apos' \in 0 .. NumFrames
      BY <1>11, Constants DEF ReadAudio, TypeOK
    <2>5. reset' \in BOOLEAN
      BY <1>11, LateFacts, ClearFacts DEF ReadAudio, TypeOK
    <2>6. lost' \in BOOLEAN
      BY <1>11, LateFacts, ClearFacts DEF ReadAudio, TypeOK
    <2>7. late' \in 0 .. MaxLate
      BY <1>11, LateFacts, ClearFacts DEF ReadAudio, TypeOK
    <2>8. UNCHANGED <<opt, bStopped, bExit, bEOF, opened, opens, vpos, given, has_data, mpc,
       discard, last_frame, commands, revoked>>
      BY <1>11 DEF ReadAudio, Late, flags, queues, mvars, history
    <2> QED
      BY <2>1, <2>2, <2>3, <2>4, <2>5, <2>6, <2>7, <2>8 DEF TypeOK
  <1>12. CASE PushAudio
    <2>1. aQueue' \in Seq(Frames)
      BY <1>12, PushedFrames, PushFacts DEF PushAudio, TypeOK
    <2>2. dpc' \in {"none", "top", "open", "check", "stopped", "close", "cache", "readv",
       "pushv", "half", "reada", "pusha", "after", "eof", "drain", "reopen", "done"}
      BY <1>12 DEF PushAudio, TypeOK
    <2>3. apos' \in 0 .. NumFrames
      BY <1>12, Constants DEF PushAudio, TypeOK
    <2>4. has_data' \in BOOLEAN
      BY <1>12 DEF PushAudio, TypeOK
    <2>5. UNCHANGED <<opt, bStopped, bExit, bEOF, vQueue, opened, opens, vpos, given, mpc,
       discard, last_frame, commands, revoked, reset, lost, late>>
      BY <1>12 DEF PushAudio, flags, mvars, history
    <2> QED
      BY <2>1, <2>2, <2>3, <2>4, <2>5 DEF TypeOK
  <1>13. CASE NoAudio
    <2>1. bEOF' \in BOOLEAN
      BY <1>13 DEF NoAudio, TypeOK
    <2>2. vQueue' \in Seq(Frames)
      BY <1>13, LateFacts, ClearFacts DEF NoAudio, TypeOK
    <2>3. aQueue' \in Seq(Frames)
      BY <1>13, LateFacts, ClearFacts DEF NoAudio, TypeOK
    <2>4. dpc' \in {"none", "top", "open", "check", "stopped", "close", "cache", "readv",
       "pushv", "half", "reada", "pusha", "after", "eof", "drain", "reopen", "done"}
      BY <1>13 DEF NoAudio, TypeOK
    <2>5. has_data' \in BOOLEAN
      BY <1>13 DEF NoAudio, TypeOK
    <2>6. reset' \in BOOLEAN
      BY <1>13, LateFacts, ClearFacts DEF NoAudio, TypeOK
    <2>7. lost' \in BOOLEAN
      BY <1>13, LateFacts, ClearFacts DEF NoAudio, TypeOK
    <2>8. late' \in 0 .. MaxLate
      BY <1>13, LateFacts, ClearFacts DEF NoAudio, TypeOK
    <2>9. UNCHANGED <<opt, bStopped, bExit, opened, opens, vpos, apos, given, mpc, discard,
       last_frame, commands, revoked>>
      BY <1>13 DEF NoAudio, Late, queues, source, mvars, history
    <2> QED
      BY <2>1, <2>2, <2>3, <2>4, <2>5, <2>6, <2>7, <2>8, <2>9 DEF TypeOK
  <1>14. CASE NoVideo
    <2>1. bEOF' \in BOOLEAN
      BY <1>14 DEF NoVideo, TypeOK
    <2>2. vQueue' \in Seq(Frames)
      BY <1>14, LateFacts, ClearFacts DEF NoVideo, TypeOK
    <2>3. aQueue' \in Seq(Frames)
      BY <1>14, LateFacts, ClearFacts DEF NoVideo, TypeOK
    <2>4. dpc' \in {"none", "top", "open", "check", "stopped", "close", "cache", "readv",
       "pushv", "half", "reada", "pusha", "after", "eof", "drain", "reopen", "done"}
      BY <1>14 DEF NoVideo, TypeOK
    <2>5. reset' \in BOOLEAN
      BY <1>14, LateFacts, ClearFacts DEF NoVideo, TypeOK
    <2>6. lost' \in BOOLEAN
      BY <1>14, LateFacts, ClearFacts DEF NoVideo, TypeOK
    <2>7. late' \in 0 .. MaxLate
      BY <1>14, LateFacts, ClearFacts DEF NoVideo, TypeOK
    <2>8. UNCHANGED <<opt, bStopped, bExit, opened, opens, vpos, apos, given, has_data, mpc,
       discard, last_frame, commands, revoked>>
      BY <1>14 DEF NoVideo, Late, queues, source, mvars, history
    <2> QED
      BY <2>1, <2>2, <2>3, <2>4, <2>5, <2>6, <2>7, <2>8 DEF TypeOK
  <1>15. CASE ReadFails
    <2>1. bEOF' \in BOOLEAN
      BY <1>15 DEF ReadFails, TypeOK
    <2>2. dpc' \in {"none", "top", "open", "check", "stopped", "close", "cache", "readv",
       "pushv", "half", "reada", "pusha", "after", "eof", "drain", "reopen", "done"}
      BY <1>15 DEF ReadFails, TypeOK
    <2>3. UNCHANGED <<opt, bStopped, bExit, vQueue, aQueue, opened, opens, vpos, apos, given,
       has_data, mpc, discard, last_frame, commands, revoked, reset, lost, late>>
      BY <1>15 DEF ReadFails, queues, source, mvars, history
    <2> QED
      BY <2>1, <2>2, <2>3 DEF TypeOK
  <1>16. CASE After
    <2>1. dpc' \in {"none", "top", "open", "check", "stopped", "close", "cache", "readv",
       "pushv", "half", "reada", "pusha", "after", "eof", "drain", "reopen", "done"}
      BY <1>16 DEF After, Goto, TypeOK
    <2>2. UNCHANGED <<opt, bStopped, bExit, bEOF, vQueue, aQueue, opened, opens, vpos, apos,
       given, has_data, mpc, discard, last_frame, commands, revoked, reset, lost, late>>
      BY <1>16 DEF After, Goto, flags, queues, source, mvars, history
    <2> QED
      BY <2>1, <2>2 DEF TypeOK
  <1>17. CASE Eof
    <2>1. dpc' \in {"none", "top", "open", "check", "stopped", "close", "cache", "readv",
       "pushv", "half", "reada", "pusha", "after", "eof", "drain", "reopen", "done"}
      BY <1>17 DEF Eof, Goto, TypeOK
    <2>2. UNCHANGED <<opt, bStopped, bExit, bEOF, vQueue, aQueue, opened, opens, vpos, apos,
       given, has_data, mpc, discard, last_frame, commands, revoked, reset, lost, late>>
      BY <1>17 DEF Eof, Goto, flags, queues, source, mvars, history
    <2> QED
      BY <2>1, <2>2 DEF TypeOK
  <1>18. CASE Drain
    <2>1. dpc' \in {"none", "top", "open", "check", "stopped", "close", "cache", "readv",
       "pushv", "half", "reada", "pusha", "after", "eof", "drain", "reopen", "done"}
      BY <1>18 DEF Drain, Goto, TypeOK
    <2>2. UNCHANGED <<opt, bStopped, bExit, bEOF, vQueue, aQueue, opened, opens, vpos, apos,
       given, has_data, mpc, discard, last_frame, commands, revoked, reset, lost, late>>
      BY <1>18 DEF Drain, Goto, flags, queues, source, mvars, history
    <2> QED
      BY <2>1, <2>2 DEF TypeOK
  <1>19. CASE Reopen
    <2>1. bEOF' \in BOOLEAN
      BY <1>19 DEF Reopen, TypeOK
    <2>2. vQueue' \in Seq(Frames)
      BY <1>19, ClearFacts DEF Reopen
    <2>3. aQueue' \in Seq(Frames)
      BY <1>19, ClearFacts DEF Reopen
    <2>4. dpc' \in {"none", "top", "open", "check", "stopped", "close", "cache", "readv",
       "pushv", "half", "reada", "pusha", "after", "eof", "drain", "reopen", "done"}
      BY <1>19 DEF Reopen, TypeOK
    <2>5. opened' \in BOOLEAN
      BY <1>19, OpenFacts DEF Reopen, source, TypeOK
    <2>6. opens' \in 0 .. NumOpens - 1
      BY <1>19, OpenFacts DEF Reopen, source, TypeOK
    <2>7. vpos' \in 0 .. NumFrames
      BY <1>19, OpenFacts DEF Reopen, source, TypeOK
    <2>8. apos' \in 0 .. NumFrames
      BY <1>19, OpenFacts DEF Reopen, source, TypeOK
    <2>9. given' \in 0 .. NumFrames
      BY <1>19, OpenFacts DEF Reopen, source, TypeOK
    <2>10. reset' \in BOOLEAN
      BY <1>19, ClearFacts DEF Reopen
    <2>11. UNCHANGED <<opt, bStopped, bExit, has_data, mpc, discard, last_frame, commands,
       revoked, lost, late>>
      BY <1>19 DEF Reopen, mvars
    <2> QED
      BY <2>1, <2>2, <2>3, <2>4, <2>5, <2>6, <2>7, <2>8, <2>9, <2>10, <2>11 DEF TypeOK
  <1>20. CASE ReopenFails
    <2>1. dpc' \in {"none", "top", "open", "check", "stopped", "close", "cache", "readv",
       "pushv", "half", "reada", "pusha", "after", "eof", "drain", "reopen", "done"}
      BY <1>20 DEF ReopenFails, TypeOK
    <2>2. opened' \in BOOLEAN
      BY <1>20 DEF ReopenFails, TypeOK
    <2>3. UNCHANGED <<opt, bStopped, bExit, bEOF, vQueue, aQueue, opens, vpos, apos, given,
       has_data, mpc, discard, last_frame, commands, revoked, reset, lost, late>>
      BY <1>20 DEF ReopenFails, flags, queues, mvars, history
    <2> QED
      BY <2>1, <2>2, <2>3 DEF TypeOK
  <1>21. CASE ReopenExit
    <2>1. dpc' \in {"none", "top", "open", "check", "stopped", "close", "cache", "readv",
       "pushv", "half", "reada", "pusha", "after", "eof", "drain", "reopen", "done"}
      BY <1>21 DEF ReopenExit, Goto, TypeOK
    <2>2. UNCHANGED <<opt, bStopped, bExit, bEOF, vQueue, aQueue, opened, opens, vpos, apos,
       given, has_data, mpc, discard, last_frame, commands, revoked, reset, lost, late>>
      BY <1>21 DEF ReopenExit, Goto, flags, queues, source, mvars, history
    <2> QED
      BY <2>1, <2>2 DEF TypeOK
  <1>22. CASE START
    <2>1. bStopped' \in BOOLEAN
      BY <1>22 DEF START, TypeOK
    <2>2. mpc' \in {"idle", "init", "stop", "cut", "pop", "undefined", "gone"}
      BY <1>22 DEF START, TypeOK
    <2>3. commands' \in 0 .. opt.max_commands
      BY <1>22, Constants DEF START, TypeOK
    <2>4. UNCHANGED <<opt, bExit, bEOF, vQueue, aQueue, dpc, opened, opens, vpos, apos, given,
       has_data, discard, last_frame, revoked, reset, lost, late>>
      BY <1>22 DEF START, queues, source, history
    <2> QED
      BY <2>1, <2>2, <2>3, <2>4 DEF TypeOK
  <1>23. CASE StartRun
    <2>1. bEOF' \in BOOLEAN
      BY <1>23 DEF StartRun, TypeOK
    <2>2. dpc' \in {"none", "top", "open", "check", "stopped", "close", "cache", "readv",
       "pushv", "half", "reada", "pusha", "after", "eof", "drain", "reopen", "done"}
      BY <1>23 DEF StartRun, TypeOK
    <2>3. mpc' \in {"idle", "init", "stop", "cut", "pop", "undefined", "gone"}
      BY <1>23 DEF StartRun, TypeOK
    <2>4. last_frame' \in {<< >>} \cup {<<f>> : f \in Frames}
      BY <1>23 DEF StartRun
    <2>5. revoked' \in BOOLEAN
      BY <1>23 DEF StartRun, TypeOK
    <2>6. UNCHANGED <<opt, bStopped, bExit, vQueue, aQueue, opened, opens, vpos, apos, given,
       has_data, discard, commands, reset, lost, late>>
      BY <1>23 DEF StartRun, queues, source, history
    <2> QED
      BY <2>1, <2>2, <2>3, <2>4, <2>5, <2>6 DEF TypeOK
  <1>24. CASE STOP
    <2>1. bStopped' \in BOOLEAN
      BY <1>24 DEF STOP, TypeOK
    <2>2. mpc' \in {"idle", "init", "stop", "cut", "pop", "undefined", "gone"}
      BY <1>24 DEF STOP, TypeOK
    <2>3. commands' \in 0 .. opt.max_commands
      BY <1>24, Constants DEF STOP, TypeOK
    <2>4. UNCHANGED <<opt, bExit, bEOF, vQueue, aQueue, dpc, opened, opens, vpos, apos, given,
       has_data, discard, last_frame, revoked, reset, lost, late>>
      BY <1>24 DEF STOP, queues, source, history
    <2> QED
      BY <2>1, <2>2, <2>3, <2>4 DEF TypeOK
  <1>25. CASE StopClear
    <2>1. vQueue' \in Seq(Frames)
      BY <1>25, ClearFacts DEF StopClear
    <2>2. aQueue' \in Seq(Frames)
      BY <1>25, ClearFacts DEF StopClear
    <2>3. mpc' \in {"idle", "init", "stop", "cut", "pop", "undefined", "gone"}
      BY <1>25 DEF StopClear, TypeOK
    <2>4. last_frame' \in {<< >>} \cup {<<f>> : f \in Frames}
      BY <1>25 DEF StopClear
    <2>5. reset' \in BOOLEAN
      BY <1>25, ClearFacts DEF StopClear
    <2>6. UNCHANGED <<opt, bStopped, bExit, bEOF, dpc, opened, opens, vpos, apos, given,
       has_data, discard, commands, revoked, lost, late>>
      BY <1>25 DEF StopClear, flags, source
    <2> QED
      BY <2>1, <2>2, <2>3, <2>4, <2>5, <2>6 DEF TypeOK
  <1>26. CASE EXIT
    <2>1. bExit' \in BOOLEAN
      BY <1>26 DEF EXIT, TypeOK
    <2>2. vQueue' \in Seq(Frames)
      BY <1>26, ClearFacts DEF EXIT
    <2>3. aQueue' \in Seq(Frames)
      BY <1>26, ClearFacts DEF EXIT
    <2>4. mpc' \in {"idle", "init", "stop", "cut", "pop", "undefined", "gone"}
      BY <1>26 DEF EXIT, TypeOK
    <2>5. reset' \in BOOLEAN
      BY <1>26, ClearFacts DEF EXIT
    <2>6. UNCHANGED <<opt, bStopped, bEOF, dpc, opened, opens, vpos, apos, given, has_data,
       discard, last_frame, commands, revoked, lost, late>>
      BY <1>26 DEF EXIT, source
    <2> QED
      BY <2>1, <2>2, <2>3, <2>4, <2>5, <2>6 DEF TypeOK
  <1>27. CASE ReadFrame
    <2>1. mpc' \in {"idle", "init", "stop", "cut", "pop", "undefined", "gone"}
      BY <1>27 DEF ReadFrame, TypeOK
    <2>2. UNCHANGED <<opt, bStopped, bExit, bEOF, vQueue, aQueue, dpc, opened, opens, vpos,
       apos, given, has_data, discard, last_frame, commands, revoked, reset, lost, late>>
      BY <1>27 DEF ReadFrame, flags, queues, source, history
    <2> QED
      BY <2>1, <2>2 DEF TypeOK
  <1>28. CASE Cut
    <2>1. aQueue' \in Seq(Frames)
      BY <1>28, CutAudio
    <2>2. mpc' \in {"idle", "init", "stop", "cut", "pop", "undefined", "gone"}
      BY <1>28, CutFacts DEF TypeOK
    <2>3. discard' \in 0 .. frame_num + NumFrames
      <3>1. discard' \in 0 .. Len(aQueue) /\ Len(aQueue) \in Nat
        BY <1>28, CutFacts DEF TypeOK
      <3> QED
        BY <3>1, Constants DEF LenInv
    <2>4. UNCHANGED <<opt, bStopped, bExit, bEOF, vQueue, dpc, opened, opens, vpos, apos, given,
       has_data, last_frame, commands, revoked, reset, lost, late>>
      BY <1>28 DEF Cut, flags, source, history
    <2> QED
      BY <2>1, <2>2, <2>3, <2>4 DEF TypeOK
  <1>29. CASE CutVideo
    <2>1. vQueue' \in Seq(Frames)
      BY <1>29, CutVideoFacts DEF TypeOK
    <2>2. mpc' \in {"idle", "init", "stop", "cut", "pop", "undefined", "gone"}
      BY <1>29, CutVideoFacts DEF TypeOK
    <2>3. UNCHANGED <<opt, bStopped, bExit, bEOF, aQueue, dpc, opened, opens, vpos, apos, given,
       has_data, discard, last_frame, commands, revoked, reset, lost, late>>
      BY <1>29 DEF CutVideo, flags, source, history
    <2> QED
      BY <2>1, <2>2, <2>3 DEF TypeOK
  <1>30. CASE Discard
    <2>1. vQueue' \in Seq(Frames)
      BY <1>30, DiscardFacts DEF TypeOK
    <2>2. mpc' \in {"idle", "init", "stop", "cut", "pop", "undefined", "gone"}
      BY <1>30, DiscardFacts DEF TypeOK
    <2>3. discard' \in 0 .. frame_num + NumFrames
      BY <1>30, DiscardFacts, Constants
    <2>4. UNCHANGED <<opt, bStopped, bExit, bEOF, aQueue, dpc, opened, opens, vpos, apos, given,
       has_data, last_frame, commands, revoked, reset, lost, late>>
      BY <1>30 DEF Discard, flags, source, history
    <2> QED
      BY <2>1, <2>2, <2>3, <2>4 DEF TypeOK
  <1>31. CASE PopFrame
    <2>1. vQueue' \in Seq(Frames)
      BY <1>31, PopFrameFacts DEF TypeOK
    <2>2. mpc' \in {"idle", "init", "stop", "cut", "pop", "undefined", "gone"}
      BY <1>31, PopFrameFacts DEF TypeOK
    <2>3. last_frame' \in {<< >>} \cup {<<f>> : f \in Frames}
      BY <1>31, PopFrameFacts DEF TypeOK
    <2>4. reset' \in BOOLEAN
      BY <1>31, PopFrameFacts DEF TypeOK
    <2>5. lost' \in BOOLEAN
      BY <1>31, PopFrameFacts DEF TypeOK
    <2>6. UNCHANGED <<opt, bStopped, bExit, bEOF, aQueue, dpc, opened, opens, vpos, apos, given,
       has_data, discard, commands, revoked, late>>
      BY <1>31 DEF PopFrame, flags, source
    <2> QED
      BY <2>1, <2>2, <2>3, <2>4, <2>5, <2>6 DEF TypeOK
  <1>32. CASE ReadSound
    <2>1. aQueue' \in Seq(Frames)
      BY <1>32, ReadSoundFacts
    <2>2. UNCHANGED <<opt, bStopped, bExit, bEOF, vQueue, dpc, opened, opens, vpos, apos, given,
       has_data, mpc, discard, last_frame, commands, revoked, reset, lost, late>>
      BY <1>32 DEF ReadSound, flags, source, mvars, history
    <2> QED
      BY <2>1, <2>2 DEF TypeOK
  <1>33. CASE UNCHANGED vars
    BY <1>33 DEF vars, flags, queues, source, mvars, history, TypeOK
  <1> QED
    BY <1>1, <1>2, <1>3, <1>4, <1>5, <1>6, <1>7, <1>8, <1>9, <1>10, <1>11, <1>12, <1>13, <1>14,
       <1>15, <1>16, <1>17, <1>18, <1>19, <1>20, <1>21, <1>22, <1>23, <1>24, <1>25, <1>26,
       <1>27, <1>28, <1>29, <1>30, <1>31, <1>32, <1>33 DEF Next, RUN, MainLoop, MainStep

\* RUN caches and ends as the flags say.
LEMMA SourceStep ==
    ASSUME TypeOK, SourceInv, [Next]_vars
    PROVE  SourceInv'
  <1>1. CASE Top
    <2>1. UNCHANGED <<bEOF, opened, revoked, vpos, apos>>
      BY <1>1 DEF Top, Goto, flags, queues, source, mvars, history
    <2> QED
      BY <1>1, <2>1 DEF Top, Goto, SourceInv, Caching, Ending
  <1>2. CASE Open
    <2>1. UNCHANGED <<bEOF, revoked>>
      BY <1>2 DEF Open, flags, queues, source, mvars, history
    <2> QED
      BY <1>2, <2>1 DEF Open, OpenSource, source, SourceInv, Caching, Ending
  <1>3. CASE OpenFails
    <2>1. UNCHANGED <<bEOF, opened, revoked, vpos, apos>>
      BY <1>3 DEF OpenFails, flags, source, mvars
    <2> QED
      BY <1>3, <2>1 DEF OpenFails, SourceInv, Caching, Ending
  <1>4. CASE Check
    <2>1. UNCHANGED <<bEOF, opened, revoked, vpos, apos>>
      BY <1>4 DEF Check, Goto, flags, queues, source, mvars, history
    <2> QED
      BY <1>4, <2>1 DEF Check, Goto, SourceInv, Caching, Ending
  <1>5. CASE Stopped
    <2>1. UNCHANGED <<bEOF, opened, revoked, vpos, apos>>
      BY <1>5 DEF Stopped, Goto, flags, queues, source, mvars, history
    <2> QED
      BY <1>5, <2>1 DEF Stopped, Goto, SourceInv, Caching, Ending
  <1>6. CASE Close
    <2>1. UNCHANGED <<bEOF, revoked, vpos, apos>>
      BY <1>6 DEF Close, flags, mvars
    <2> QED
      BY <1>6, <2>1 DEF Close, SourceInv, Caching, Ending
  <1>7. CASE Cache
    <2>1. UNCHANGED <<bEOF, opened, revoked, vpos, apos>>
      BY <1>7 DEF Cache, flags, queues, source, mvars, history
    <2> QED
      BY <1>7, <2>1 DEF Cache, SourceInv, Caching, Ending
  <1>8. CASE ReadVideo
    <2>1. UNCHANGED <<bEOF, opened, revoked, apos>>
      BY <1>8 DEF ReadVideo, Late, flags, queues, mvars, history
    <2>2. vpos \in Nat
      BY Constants DEF TypeOK
    <2> QED
      BY <1>8, <2>1, <2>2 DEF ReadVideo, SourceInv, Caching, Ending
  <1>9. CASE PushVideo
    <2>1. UNCHANGED <<bEOF, opened, revoked, apos>>
      BY <1>9 DEF PushVideo, flags, mvars, history
    <2>2. vpos \in Nat
      BY Constants DEF TypeOK
    <2> QED
      BY <1>9, <2>1, <2>2 DEF PushVideo, SourceInv, Caching, Ending
  <1>10. CASE Half
    <2>1. UNCHANGED <<bEOF, opened, revoked, vpos, apos>>
      BY <1>10 DEF Half, Goto, flags, queues, source, mvars, history
    <2> QED
      BY <1>10, <2>1 DEF Half, Goto, SourceInv, Caching, Ending
  <1>11. CASE ReadAudio
    <2>1. UNCHANGED <<bEOF, opened, revoked, vpos>>
      BY <1>11 DEF ReadAudio, Late, flags, queues, mvars, history
    <2>2. apos \in Nat
      BY Constants DEF TypeOK
    <2> QED
      BY <1>11, <2>1, <2>2 DEF ReadAudio, SourceInv, Caching, Ending
  <1>12. CASE PushAudio
    <2>1. UNCHANGED <<bEOF, opened, revoked, vpos>>
      BY <1>12 DEF PushAudio, flags, mvars, history
    <2>2. apos \in Nat
      BY Constants DEF TypeOK
    <2> QED
      BY <1>12, <2>1, <2>2 DEF PushAudio, SourceInv, Caching, Ending
  <1>13. CASE NoAudio
    <2>1. UNCHANGED <<opened, revoked, vpos, apos>>
      BY <1>13 DEF NoAudio, Late, queues, source, mvars, history
    <2> QED
      BY <1>13, <2>1 DEF NoAudio, SourceInv, Caching, Ending
  <1>14. CASE NoVideo
    <2>1. UNCHANGED <<opened, revoked, vpos, apos>>
      BY <1>14 DEF NoVideo, Late, queues, source, mvars, history
    <2> QED
      BY <1>14, <2>1 DEF NoVideo, SourceInv, Caching, Ending
  <1>15. CASE ReadFails
    <2>1. UNCHANGED <<opened, revoked, vpos, apos>>
      BY <1>15 DEF ReadFails, queues, source, mvars, history
    <2> QED
      BY <1>15, <2>1 DEF ReadFails, SourceInv, Caching, Ending
  <1>16. CASE After
    <2>1. UNCHANGED <<bEOF, opened, revoked, vpos, apos>>
      BY <1>16 DEF After, Goto, flags, queues, source, mvars, history
    <2> QED
      BY <1>16, <2>1 DEF After, Goto, SourceInv, Caching, Ending
  <1>17. CASE Eof
    <2>1. UNCHANGED <<bEOF, opened, revoked, vpos, apos>>
      BY <1>17 DEF Eof, Goto, flags, queues, source, mvars, history
    <2> QED
      BY <1>17, <2>1 DEF Eof, Goto, SourceInv, Caching, Ending
  <1>18. CASE Drain
    <2>1. UNCHANGED <<bEOF, opened, revoked, vpos, apos>>
      BY <1>18 DEF Drain, Goto, flags, queues, source, mvars, history
    <2> QED
      BY <1>18, <2>1 DEF Drain, Goto, SourceInv, Caching, Ending
  <1>19. CASE Reopen
    <2>1. UNCHANGED <<revoked>>
      BY <1>19 DEF Reopen, mvars
    <2> QED
      BY <1>19, <2>1 DEF Reopen, OpenSource, SourceInv, Caching, Ending
  <1>20. CASE ReopenFails
    <2>1. UNCHANGED <<bEOF, revoked, vpos, apos>>
      BY <1>20 DEF ReopenFails, flags, queues, mvars, history
    <2> QED
      BY <1>20, <2>1 DEF ReopenFails, SourceInv, Caching, Ending
  <1>21. CASE ReopenExit
    <2>1. UNCHANGED <<bEOF, opened, revoked, vpos, apos>>
      BY <1>21 DEF ReopenExit, Goto, flags, queues, source, mvars, history
    <2> QED
      BY <1>21, <2>1 DEF ReopenExit, Goto, SourceInv, Caching, Ending
  <1>22. CASE START
    <2>1. UNCHANGED <<dpc, bEOF, opened, revoked, vpos, apos>>
      BY <1>22 DEF START, queues, source, history
    <2> QED
      BY <2>1 DEF SourceInv
  <1>23. CASE StartRun
    <2>1. UNCHANGED <<opened, vpos, apos>>
      BY <1>23 DEF StartRun, queues, source, history
    <2> QED
      BY <1>23, <2>1 DEF StartRun, SourceInv, Caching, Ending
  <1>24. CASE STOP
    <2>1. UNCHANGED <<dpc, bEOF, opened, revoked, vpos, apos>>
      BY <1>24 DEF STOP, queues, source, history
    <2> QED
      BY <2>1 DEF SourceInv
  <1>25. CASE StopClear
    <2>1. UNCHANGED <<dpc, bEOF, opened, revoked, vpos, apos>>
      BY <1>25 DEF StopClear, flags, source
    <2> QED
      BY <2>1 DEF SourceInv
  <1>26. CASE EXIT
    <2>1. UNCHANGED <<dpc, bEOF, opened, revoked, vpos, apos>>
      BY <1>26 DEF EXIT, source
    <2> QED
      BY <2>1 DEF SourceInv
  <1>27. CASE ReadFrame
    <2>1. UNCHANGED <<dpc, bEOF, opened, revoked, vpos, apos>>
      BY <1>27 DEF ReadFrame, flags, queues, source, history
    <2> QED
      BY <2>1 DEF SourceInv
  <1>28. CASE Cut
    <2>1. UNCHANGED <<dpc, bEOF, opened, revoked, vpos, apos>>
      BY <1>28 DEF Cut, flags, source, history
    <2> QED
      BY <2>1 DEF SourceInv
  <1>29. CASE CutVideo
    <2>1. UNCHANGED <<dpc, bEOF, opened, revoked, vpos, apos>>
      BY <1>29 DEF CutVideo, flags, source, history
    <2> QED
      BY <2>1 DEF SourceInv
  <1>30. CASE Discard
    <2>1. UNCHANGED <<dpc, bEOF, opened, revoked, vpos, apos>>
      BY <1>30 DEF Discard, flags, source, history
    <2> QED
      BY <2>1 DEF SourceInv
  <1>31. CASE PopFrame
    <2>1. UNCHANGED <<dpc, bEOF, opened, revoked, vpos, apos>>
      BY <1>31 DEF PopFrame, flags, source
    <2> QED
      BY <2>1 DEF SourceInv
  <1>32. CASE ReadSound
    <2>1. UNCHANGED <<dpc, bEOF, opened, revoked, vpos, apos>>
      BY <1>32 DEF ReadSound, flags, source, mvars, history
    <2> QED
      BY <2>1 DEF SourceInv
  <1>33. CASE UNCHANGED vars
    BY <1>33 DEF vars, flags, queues, source, mvars, history, SourceInv
  <1> QED
    BY <1>1, <1>2, <1>3, <1>4, <1>5, <1>6, <1>7, <1>8, <1>9, <1>10, <1>11, <1>12, <1>13, <1>14,
       <1>15, <1>16, <1>17, <1>18, <1>19, <1>20, <1>21, <1>22, <1>23, <1>24, <1>25, <1>26,
       <1>27, <1>28, <1>29, <1>30, <1>31, <1>32, <1>33 DEF Next, RUN, MainLoop, MainStep

\* The queue of audio is bounded.
LEMMA LenStep ==
    ASSUME TypeOK, SourceInv, LenInv, [Next]_vars
    PROVE  LenInv'
  <1>1. CASE Top
    <2>1. UNCHANGED <<aQueue, apos>>
      BY <1>1 DEF Top, Goto, flags, queues, source, mvars, history
    <2>2. dpc' \notin {"reada", "pusha"}
      BY <1>1 DEF Top, Goto
    <2> QED
      BY <2>1, <2>2 DEF LenInv
  <1>2. CASE Open
    <2>1. UNCHANGED aQueue /\ dpc' = "check"
      BY <1>2 DEF Open, queues
    <2> QED
      BY <2>1 DEF LenInv
  <1>3. CASE OpenFails
    <2>1. Len(aQueue') = 0
      BY <1>3, ClearFacts DEF OpenFails
    <2>2. dpc' = "top"
      BY <1>3 DEF OpenFails
    <2> QED
      BY <2>1, <2>2, Constants DEF LenInv
  <1>4. CASE Check
    <2>1. UNCHANGED <<aQueue, apos>>
      BY <1>4 DEF Check, Goto, flags, queues, source, mvars, history
    <2>2. dpc' \notin {"reada", "pusha"}
      BY <1>4 DEF Check, Goto
    <2> QED
      BY <2>1, <2>2 DEF LenInv
  <1>5. CASE Stopped
    <2>1. UNCHANGED <<aQueue, apos>>
      BY <1>5 DEF Stopped, Goto, flags, queues, source, mvars, history
    <2>2. dpc' \notin {"reada", "pusha"}
      BY <1>5 DEF Stopped, Goto
    <2> QED
      BY <2>1, <2>2 DEF LenInv
  <1>6. CASE Close
    <2>1. Len(aQueue') = 0
      BY <1>6, ClearFacts DEF Close
    <2>2. dpc' = "top"
      BY <1>6 DEF Close
    <2> QED
      BY <2>1, <2>2, Constants DEF LenInv
  <1>7. CASE Cache
    <2>1. UNCHANGED <<aQueue, apos>>
      BY <1>7 DEF Cache, flags, queues, source, mvars, history
    <2>2. dpc' \notin {"reada", "pusha"}
      BY <1>7 DEF Cache
    <2> QED
      BY <2>1, <2>2 DEF LenInv
  <1>8. CASE ReadVideo
    <2>1. Len(aQueue') = 0 \/ aQueue' = aQueue
      BY <1>8, LateFacts, ClearFacts DEF ReadVideo
    <2>2. dpc' \notin {"reada", "pusha"}
      BY <1>8 DEF ReadVideo
    <2> QED
      BY <2>1, <2>2, Constants DEF LenInv
  <1>9. CASE PushVideo
    <2>1. UNCHANGED <<aQueue, apos>>
      BY <1>9 DEF PushVideo, flags, mvars, history
    <2>2. dpc' \notin {"reada", "pusha"}
      BY <1>9 DEF PushVideo
    <2> QED
      BY <2>1, <2>2 DEF LenInv
  <1>10. CASE Half
    <2>1. UNCHANGED <<aQueue, apos>>
      BY <1>10 DEF Half, Goto, flags, queues, source, mvars, history
    <2>2. (dpc' = "reada" => Len(aQueue) < frame_num) /\ dpc' # "pusha"
      BY <1>10 DEF Half, Goto
    <2> QED
      BY <2>1, <2>2 DEF LenInv
  <1>11. CASE ReadAudio
    <2>1. Len(aQueue') = 0 \/ aQueue' = aQueue
      BY <1>11, LateFacts, ClearFacts DEF ReadAudio
    <2>2. dpc = "reada" /\ dpc' = "pusha" /\ apos' = apos + 1 /\ apos \in Nat
      BY <1>11, Constants DEF ReadAudio, TypeOK
    <2>3. Len(aQueue) \in Nat
      BY DEF TypeOK
    <2> QED
      BY <2>1, <2>2, <2>3, Constants DEF LenInv
  <1>12. CASE PushAudio
    <2>1. Len(aQueue') = Len(aQueue) + 1 /\ Len(aQueue) \in Nat
      BY <1>12, PushedFrames, PushFacts DEF PushAudio, TypeOK
    <2>2. /\ dpc = "pusha"
          /\ \/ dpc' = "pusha" /\ apos' = apos + 1 /\ apos < NumFrames
             \/ dpc' = "cache" /\ apos' = apos
      BY <1>12 DEF PushAudio
    <2>3. apos \in 0 .. NumFrames
      BY DEF TypeOK
    <2> QED
      BY <2>1, <2>2, <2>3, Constants DEF LenInv
  <1>13. CASE NoAudio
    <2>1. Len(aQueue') = 0 \/ aQueue' = aQueue
      BY <1>13, LateFacts, ClearFacts DEF NoAudio
    <2>2. dpc' \notin {"reada", "pusha"}
      BY <1>13 DEF NoAudio
    <2> QED
      BY <2>1, <2>2, Constants DEF LenInv
  <1>14. CASE NoVideo
    <2>1. Len(aQueue') = 0 \/ aQueue' = aQueue
      BY <1>14, LateFacts, ClearFacts DEF NoVideo
    <2>2. dpc' \notin {"reada", "pusha"}
      BY <1>14 DEF NoVideo
    <2> QED
      BY <2>1, <2>2, Constants DEF LenInv
  <1>15. CASE ReadFails
    <2>1. UNCHANGED <<aQueue, apos>>
      BY <1>15 DEF ReadFails, queues, source, mvars, history
    <2>2. dpc' \notin {"reada", "pusha"}
      BY <1>15 DEF ReadFails
    <2> QED
      BY <2>1, <2>2 DEF LenInv
  <1>16. CASE After
    <2>1. UNCHANGED <<aQueue, apos>>
      BY <1>16 DEF After, Goto, flags, queues, source, mvars, history
    <2>2. dpc' \notin {"reada", "pusha"}
      BY <1>16 DEF After, Goto
    <2> QED
      BY <2>1, <2>2 DEF LenInv
  <1>17. CASE Eof
    <2>1. UNCHANGED <<aQueue, apos>>
      BY <1>17 DEF Eof, Goto, flags, queues, source, mvars, history
    <2>2. dpc' \notin {"reada", "pusha"}
      BY <1>17 DEF Eof, Goto
    <2> QED
      BY <2>1, <2>2 DEF LenInv
  <1>18. CASE Drain
    <2>1. UNCHANGED <<aQueue, apos>>
      BY <1>18 DEF Drain, Goto, flags, queues, source, mvars, history
    <2>2. dpc' \notin {"reada", "pusha"}
      BY <1>18 DEF Drain, Goto
    <2> QED
      BY <2>1, <2>2 DEF LenInv
  <1>19. CASE Reopen
    <2>1. Len(aQueue') = 0
      BY <1>19, ClearFacts DEF Reopen
    <2>2. dpc' = "top"
      BY <1>19 DEF Reopen
    <2> QED
      BY <2>1, <2>2, Constants DEF LenInv
  <1>20. CASE ReopenFails
    <2>1. UNCHANGED <<aQueue, apos>>
      BY <1>20 DEF ReopenFails, flags, queues, mvars, history
    <2>2. dpc' \notin {"reada", "pusha"}
      BY <1>20 DEF ReopenFails
    <2> QED
      BY <2>1, <2>2 DEF LenInv
  <1>21. CASE ReopenExit
    <2>1. UNCHANGED <<aQueue, apos>>
      BY <1>21 DEF ReopenExit, Goto, flags, queues, source, mvars, history
    <2>2. dpc' \notin {"reada", "pusha"}
      BY <1>21 DEF ReopenExit, Goto
    <2> QED
      BY <2>1, <2>2 DEF LenInv
  <1>22. CASE START
    <2>1. UNCHANGED <<aQueue, dpc, apos>>
      BY <1>22 DEF START, queues, source, history
    <2> QED
      BY <2>1 DEF LenInv
  <1>23. CASE StartRun
    <2>1. UNCHANGED <<aQueue, apos>>
      BY <1>23 DEF StartRun, queues, source, history
    <2>2. (dpc' = dpc \/ dpc' = "top")
      BY <1>23 DEF StartRun
    <2> QED
      BY <2>1, <2>2 DEF LenInv
  <1>24. CASE STOP
    <2>1. UNCHANGED <<aQueue, dpc, apos>>
      BY <1>24 DEF STOP, queues, source, history
    <2> QED
      BY <2>1 DEF LenInv
  <1>25. CASE StopClear
    <2>1. Len(aQueue') = 0
      BY <1>25, ClearFacts DEF StopClear
    <2>2. UNCHANGED <<dpc, apos>>
      BY <1>25 DEF StopClear, flags, source
    <2>3. apos \in Nat
      BY Constants DEF TypeOK
    <2> QED
      BY <2>1, <2>2, <2>3, Constants DEF LenInv
  <1>26. CASE EXIT
    <2>1. Len(aQueue') = 0
      BY <1>26, ClearFacts DEF EXIT
    <2>2. UNCHANGED <<dpc, apos>>
      BY <1>26 DEF EXIT, source
    <2>3. apos \in Nat
      BY Constants DEF TypeOK
    <2> QED
      BY <2>1, <2>2, <2>3, Constants DEF LenInv
  <1>27. CASE ReadFrame
    <2>1. UNCHANGED <<aQueue, dpc, apos>>
      BY <1>27 DEF ReadFrame, flags, queues, source, history
    <2> QED
      BY <2>1 DEF LenInv
  <1>28. CASE Cut
    <2>1. UNCHANGED <<dpc, apos>>
      BY <1>28 DEF Cut, flags, source, history
    <2>2. Len(aQueue') <= Len(aQueue) /\ Len(aQueue') \in Nat /\ Len(aQueue) \in Nat
      BY <1>28, CutAudio DEF TypeOK
    <2>3. apos \in Nat
      BY Constants DEF TypeOK
    <2> QED
      BY <2>1, <2>2, <2>3, Constants DEF LenInv
  <1>29. CASE CutVideo
    <2>1. UNCHANGED <<aQueue, dpc, apos>>
      BY <1>29 DEF CutVideo, flags, source, history
    <2> QED
      BY <2>1 DEF LenInv
  <1>30. CASE Discard
    <2>1. UNCHANGED <<aQueue, dpc, apos>>
      BY <1>30 DEF Discard, flags, source, history
    <2> QED
      BY <2>1 DEF LenInv
  <1>31. CASE PopFrame
    <2>1. UNCHANGED <<aQueue, dpc, apos>>
      BY <1>31 DEF PopFrame, flags, source
    <2> QED
      BY <2>1 DEF LenInv
  <1>32. CASE ReadSound
    <2>1. UNCHANGED <<dpc, apos>>
      BY <1>32 DEF ReadSound, flags, source, mvars, history
    <2>2. Len(aQueue') <= Len(aQueue) /\ Len(aQueue') \in Nat /\ Len(aQueue) \in Nat
      BY <1>32, ReadSoundFacts DEF TypeOK
    <2>3. apos \in Nat
      BY Constants DEF TypeOK
    <2> QED
      BY <2>1, <2>2, <2>3, Constants DEF LenInv
  <1>33. CASE UNCHANGED vars
    BY <1>33 DEF vars, flags, queues, source, mvars, history, LenInv
  <1> QED
    BY <1>1, <1>2, <1>3, <1>4, <1>5, <1>6, <1>7, <1>8, <1>9, <1>10, <1>11, <1>12, <1>13, <1>14,
       <1>15, <1>16, <1>17, <1>18, <1>19, <1>20, <1>21, <1>22, <1>23, <1>24, <1>25, <1>26,
       <1>27, <1>28, <1>29, <1>30, <1>31, <1>32, <1>33 DEF Next, RUN, MainLoop, MainStep

-----------------------------------------------------------------------------
(* The openings that the queues are filled from.                            *)

\* A step that adds nothing to the queues and opens nothing.
LEMMA OpeningKept ==
    ASSUME OpeningInv, Queued' \subseteq Queued, UNCHANGED <<opens, opened>>,
           ~revoked' => ~revoked /\ (~bEOF' => ~bEOF)
    PROVE  OpeningInv'
  <1>1. \A k : AllOf(k) => AllOf(k)'
    BY DEF AllOf
  <1> SUFFICES ASSUME ~revoked'
               PROVE  /\ \E k \in Nat : AllOf(k)'
                      /\ ~bEOF' => AllOf(opens)' /\ (opened' \/ Queued' = {})
    BY DEF OpeningInv
  <1>2. (\E k \in Nat : AllOf(k)) /\ (~bEOF => AllOf(opens) /\ (opened \/ Queued = {}))
    BY DEF OpeningInv
  <1>3. \E k \in Nat : AllOf(k)'
    BY <1>1, <1>2
  <1>4. ASSUME ~bEOF'
        PROVE  AllOf(opens)' /\ (opened' \/ Queued' = {})
    <2>1. AllOf(opens) /\ (opened \/ Queued = {})
      BY <1>2, <1>4
    <2>2. AllOf(opens)'
      BY <2>1 DEF AllOf
    <2> QED
      BY <2>1, <2>2
  <1> QED
    BY <1>3, <1>4

\* A step that clears the queues.
LEMMA OpeningCleared ==
    ASSUME Queued' = {}
    PROVE  OpeningInv'
  <1>1. \A k : AllOf(k)'
    BY DEF AllOf
  <1>2. AllOf(0)' /\ AllOf(opens)'
    BY DEF AllOf
  <1>3. \E k \in Nat : AllOf(k)'
    BY <1>2
  <1> QED
    BY <1>2, <1>3 DEF OpeningInv

\* A step that queues a frame of this opening while RUN caches.
LEMMA OpeningPushed ==
    ASSUME TypeOK, SourceInv, OpeningInv, dpc \in Caching, NEW e, e.of = opens,
           Queued' \subseteq Queued \cup {e}, UNCHANGED <<opens, opened, bEOF, revoked>>
    PROVE  OpeningInv'
  <1>1. ~bEOF /\ opened
    BY DEF SourceInv
  <1>2. opens \in Nat
    BY Constants DEF TypeOK
  <1> SUFFICES ASSUME ~revoked
               PROVE  (\E k \in Nat : AllOf(k)') /\ AllOf(opens)' /\ opened'
    BY DEF OpeningInv
  <1>3. AllOf(opens)
    BY <1>1 DEF OpeningInv
  <1>4. AllOf(opens)'
    BY <1>3 DEF AllOf
  <1>5. \E k \in Nat : AllOf(k)'
    <2>1. \A f \in Queued' : f.of = opens
      BY <1>4 DEF AllOf
    <2> QED
      BY <1>2, <2>1 DEF AllOf
  <1> QED
    BY <1>1, <1>4, <1>5

\* The queues are filled from one opening.
LEMMA OpeningStep ==
    ASSUME TypeOK, SourceInv, LenInv, OpeningInv, [Next]_vars
    PROVE  OpeningInv'
  <1>1. CASE Top
    <2>1. UNCHANGED <<vQueue, aQueue, opens, bEOF, opened, revoked>>
      BY <1>1 DEF Top, Goto, flags, queues, source, mvars, history
    <2>2. Queued' = Queued
      BY <2>1 DEF Queued
    <2> QED
      BY <2>1, <2>2, OpeningKept
  <1>2. CASE Open
    <2>1. UNCHANGED <<vQueue, aQueue, bEOF, revoked>>
      BY <1>2 DEF Open, queues, flags, mvars
    <2>2. Queued' = Queued
      BY <2>1 DEF Queued
    <2>3. CASE opened
      <3>1. UNCHANGED <<opens, opened>>
        BY <1>2, <2>3 DEF Open, source, OpenSource
      <3> QED
        BY <2>1, <2>2, <3>1, OpeningKept
    <2>4. CASE ~opened
      <3> SUFFICES ASSUME ~revoked
                   PROVE  /\ \E k \in Nat : AllOf(k)'
                          /\ ~bEOF => AllOf(opens)' /\ (opened' \/ Queued' = {})
        BY <2>1 DEF OpeningInv
      <3>1. (\E k \in Nat : AllOf(k)) /\ (~bEOF => Queued = {})
        BY <2>4 DEF OpeningInv
      <3>2. \E k \in Nat : AllOf(k)'
        BY <2>2, <3>1 DEF AllOf
      <3>3. ~bEOF => AllOf(opens)' /\ Queued' = {}
        BY <2>2, <3>1 DEF AllOf
      <3> QED
        BY <3>2, <3>3
    <2> QED
      BY <2>3, <2>4
  <1>3. CASE OpenFails
    <2>1. Queued' = {}
      BY <1>3, ClearFacts DEF OpenFails
    <2> QED
      BY <2>1, OpeningCleared
  <1>4. CASE Check
    <2>1. UNCHANGED <<vQueue, aQueue, opens, bEOF, opened, revoked>>
      BY <1>4 DEF Check, Goto, flags, queues, source, mvars, history
    <2>2. Queued' = Queued
      BY <2>1 DEF Queued
    <2> QED
      BY <2>1, <2>2, OpeningKept
  <1>5. CASE Stopped
    <2>1. UNCHANGED <<vQueue, aQueue, opens, bEOF, opened, revoked>>
      BY <1>5 DEF Stopped, Goto, flags, queues, source, mvars, history
    <2>2. Queued' = Queued
      BY <2>1 DEF Queued
    <2> QED
      BY <2>1, <2>2, OpeningKept
  <1>6. CASE Close
    <2>1. Queued' = {}
      BY <1>6, ClearFacts DEF Close
    <2> QED
      BY <2>1, OpeningCleared
  <1>7. CASE Cache
    <2>1. UNCHANGED <<vQueue, aQueue, opens, bEOF, opened, revoked>>
      BY <1>7 DEF Cache, flags, queues, source, mvars, history
    <2>2. Queued' = Queued
      BY <2>1 DEF Queued
    <2> QED
      BY <2>1, <2>2, OpeningKept
  <1>8. CASE ReadVideo
    <2>1. UNCHANGED <<opens, opened, revoked>>
      BY <1>8 DEF ReadVideo, Late, flags, queues, mvars, history
    <2>2. UNCHANGED <<vQueue, aQueue>> \/ Queued' = {}
      BY <1>8, LateFacts, ClearFacts DEF ReadVideo
    <2>3. ~bEOF' => ~bEOF
      BY <1>8 DEF ReadVideo, flags
    <2>4. Queued' \subseteq Queued
      BY <2>2 DEF Queued
    <2> QED
      BY <2>1, <2>3, <2>4, OpeningKept
  <1>9. CASE PushVideo
    <2> DEFINE e == [of |-> opens, no |-> vpos]
    <2>1. vQueue' = Append(vQueue, e) /\ dpc \in Caching
      BY <1>9 DEF PushVideo, Caching
    <2>2. UNCHANGED <<aQueue, opens, opened, bEOF, revoked>>
      BY <1>9 DEF PushVideo, flags, mvars, history
    <2>3. e \in Frames /\ vQueue \in Seq(Frames) /\ e.of = opens
      BY <1>9, PushedFrames DEF PushVideo, TypeOK
    <2> HIDE DEF e
    <2>4. Range(vQueue') = Range(vQueue) \cup {e}
      BY <2>1, <2>3, RangePush
    <2>5. Queued' \subseteq Queued \cup {e}
      BY <2>2, <2>4 DEF Queued
    <2> QED
      BY <2>1, <2>2, <2>3, <2>5, OpeningPushed
  <1>10. CASE Half
    <2>1. UNCHANGED <<vQueue, aQueue, opens, bEOF, opened, revoked>>
      BY <1>10 DEF Half, Goto, flags, queues, source, mvars, history
    <2>2. Queued' = Queued
      BY <2>1 DEF Queued
    <2> QED
      BY <2>1, <2>2, OpeningKept
  <1>11. CASE ReadAudio
    <2>1. UNCHANGED <<opens, opened, revoked>>
      BY <1>11 DEF ReadAudio, Late, flags, queues, mvars, history
    <2>2. UNCHANGED <<vQueue, aQueue>> \/ Queued' = {}
      BY <1>11, LateFacts, ClearFacts DEF ReadAudio
    <2>3. ~bEOF' => ~bEOF
      BY <1>11 DEF ReadAudio, flags
    <2>4. Queued' \subseteq Queued
      BY <2>2 DEF Queued
    <2> QED
      BY <2>1, <2>3, <2>4, OpeningKept
  <1>12. CASE PushAudio
    <2> DEFINE e == [of |-> opens, no |-> apos]
    <2>1. aQueue' = Append(aQueue, e) /\ dpc \in Caching
      BY <1>12 DEF PushAudio, Caching
    <2>2. UNCHANGED <<vQueue, opens, opened, bEOF, revoked>>
      BY <1>12 DEF PushAudio, flags, mvars, history
    <2>3. e \in Frames /\ aQueue \in Seq(Frames) /\ e.of = opens
      BY <1>12, PushedFrames DEF PushAudio, TypeOK
    <2> HIDE DEF e
    <2>4. Range(aQueue') = Range(aQueue) \cup {e}
      BY <2>1, <2>3, RangePush
    <2>5. Queued' \subseteq Queued \cup {e}
      BY <2>2, <2>4 DEF Queued
    <2> QED
      BY <2>1, <2>2, <2>3, <2>5, OpeningPushed
  <1>13. CASE NoAudio
    <2>1. UNCHANGED <<opens, opened, revoked>>
      BY <1>13 DEF NoAudio, Late, queues, source, mvars, history
    <2>2. UNCHANGED <<vQueue, aQueue>> \/ Queued' = {}
      BY <1>13, LateFacts, ClearFacts DEF NoAudio
    <2>3. ~bEOF' => ~bEOF
      BY <1>13 DEF NoAudio
    <2>4. Queued' \subseteq Queued
      BY <2>2 DEF Queued
    <2> QED
      BY <2>1, <2>3, <2>4, OpeningKept
  <1>14. CASE NoVideo
    <2>1. UNCHANGED <<opens, opened, revoked>>
      BY <1>14 DEF NoVideo, Late, queues, source, mvars, history
    <2>2. UNCHANGED <<vQueue, aQueue>> \/ Queued' = {}
      BY <1>14, LateFacts, ClearFacts DEF NoVideo
    <2>3. ~bEOF' => ~bEOF
      BY <1>14 DEF NoVideo
    <2>4. Queued' \subseteq Queued
      BY <2>2 DEF Queued
    <2> QED
      BY <2>1, <2>3, <2>4, OpeningKept
  <1>15. CASE ReadFails
    <2>1. UNCHANGED <<vQueue, aQueue, opens, opened, revoked>>
      BY <1>15 DEF ReadFails, queues, source, mvars, history
    <2>2. bEOF'
      BY <1>15 DEF ReadFails
    <2>3. Queued' = Queued
      BY <2>1 DEF Queued
    <2> QED
      BY <2>1, <2>2, <2>3, OpeningKept
  <1>16. CASE After
    <2>1. UNCHANGED <<vQueue, aQueue, opens, bEOF, opened, revoked>>
      BY <1>16 DEF After, Goto, flags, queues, source, mvars, history
    <2>2. Queued' = Queued
      BY <2>1 DEF Queued
    <2> QED
      BY <2>1, <2>2, OpeningKept
  <1>17. CASE Eof
    <2>1. UNCHANGED <<vQueue, aQueue, opens, bEOF, opened, revoked>>
      BY <1>17 DEF Eof, Goto, flags, queues, source, mvars, history
    <2>2. Queued' = Queued
      BY <2>1 DEF Queued
    <2> QED
      BY <2>1, <2>2, OpeningKept
  <1>18. CASE Drain
    <2>1. UNCHANGED <<vQueue, aQueue, opens, bEOF, opened, revoked>>
      BY <1>18 DEF Drain, Goto, flags, queues, source, mvars, history
    <2>2. Queued' = Queued
      BY <2>1 DEF Queued
    <2> QED
      BY <2>1, <2>2, OpeningKept
  <1>19. CASE Reopen
    <2>1. Queued' = {}
      BY <1>19, ClearFacts DEF Reopen
    <2> QED
      BY <2>1, OpeningCleared
  <1>20. CASE ReopenFails
    <2>1. UNCHANGED <<vQueue, aQueue, bEOF, revoked>> /\ dpc = "reopen"
      BY <1>20 DEF ReopenFails, queues, flags, mvars
    <2>2. Queued' = Queued
      BY <2>1 DEF Queued
    <2> SUFFICES ASSUME ~revoked
                 PROVE  (\E k \in Nat : AllOf(k)') /\ bEOF
      BY <2>1 DEF OpeningInv
    <2>3. \E k \in Nat : AllOf(k)'
      BY <2>2 DEF OpeningInv, AllOf
    <2> QED
      BY <2>1, <2>3 DEF SourceInv, Ending
  <1>21. CASE ReopenExit
    <2>1. UNCHANGED <<vQueue, aQueue, opens, bEOF, opened, revoked>>
      BY <1>21 DEF ReopenExit, Goto, flags, queues, source, mvars, history
    <2>2. Queued' = Queued
      BY <2>1 DEF Queued
    <2> QED
      BY <2>1, <2>2, OpeningKept
  <1>22. CASE START
    <2>1. UNCHANGED <<vQueue, aQueue, opens, bEOF, opened, revoked>>
      BY <1>22 DEF START, queues, source, history
    <2>2. Queued' = Queued
      BY <2>1 DEF Queued
    <2> QED
      BY <2>1, <2>2, OpeningKept
  <1>23. CASE StartRun
    <2>1. UNCHANGED <<vQueue, aQueue, opens, opened>>
      BY <1>23 DEF StartRun, queues, source, history
    <2>2. ~revoked' => ~revoked /\ ~bEOF
      BY <1>23 DEF StartRun
    <2>3. Queued' = Queued
      BY <2>1 DEF Queued
    <2> QED
      BY <2>1, <2>2, <2>3, OpeningKept
  <1>24. CASE STOP
    <2>1. UNCHANGED <<vQueue, aQueue, opens, bEOF, opened, revoked>>
      BY <1>24 DEF STOP, queues, source, history
    <2>2. Queued' = Queued
      BY <2>1 DEF Queued
    <2> QED
      BY <2>1, <2>2, OpeningKept
  <1>25. CASE StopClear
    <2>1. Queued' = {}
      BY <1>25, ClearFacts DEF StopClear
    <2> QED
      BY <2>1, OpeningCleared
  <1>26. CASE EXIT
    <2>1. Queued' = {}
      BY <1>26, ClearFacts DEF EXIT
    <2> QED
      BY <2>1, OpeningCleared
  <1>27. CASE ReadFrame
    <2>1. UNCHANGED <<vQueue, aQueue, opens, bEOF, opened, revoked>>
      BY <1>27 DEF ReadFrame, flags, queues, source, history
    <2>2. Queued' = Queued
      BY <2>1 DEF Queued
    <2> QED
      BY <2>1, <2>2, OpeningKept
  <1>28. CASE Cut
    <2>1. UNCHANGED <<vQueue, opens, bEOF, opened, revoked>>
      BY <1>28 DEF Cut, flags, source, history
    <2>2. Range(aQueue') \subseteq Range(aQueue)
      BY <1>28, CutAudio
    <2>3. Queued' \subseteq Queued
      BY <2>1, <2>2 DEF Queued
    <2> QED
      BY <2>1, <2>3, OpeningKept
  <1>29. CASE CutVideo
    <2>1. UNCHANGED <<aQueue, opens, bEOF, opened, revoked>>
      BY <1>29 DEF CutVideo, flags, source, history
    <2>2. Range(vQueue') \subseteq Range(vQueue)
      BY <1>29, CutVideoFacts
    <2>3. Queued' \subseteq Queued
      BY <2>1, <2>2 DEF Queued
    <2> QED
      BY <2>1, <2>3, OpeningKept
  <1>30. CASE Discard
    <2>1. UNCHANGED <<aQueue, opens, bEOF, opened, revoked>>
      BY <1>30 DEF Discard, flags, source, history
    <2>2. Range(vQueue') \subseteq Range(vQueue)
      BY <1>30, DiscardFacts
    <2>3. Queued' \subseteq Queued
      BY <2>1, <2>2 DEF Queued
    <2> QED
      BY <2>1, <2>3, OpeningKept
  <1>31. CASE PopFrame
    <2>1. UNCHANGED <<aQueue, opens, bEOF, opened, revoked>>
      BY <1>31 DEF PopFrame, flags, source
    <2>2. Range(vQueue') \subseteq Range(vQueue)
      BY <1>31, PopFrameFacts
    <2>3. Queued' \subseteq Queued
      BY <2>1, <2>2 DEF Queued
    <2> QED
      BY <2>1, <2>3, OpeningKept
  <1>32. CASE ReadSound
    <2>1. UNCHANGED <<vQueue, opens, bEOF, opened, revoked>>
      BY <1>32 DEF ReadSound, flags, source, mvars, history
    <2>2. Range(aQueue') \subseteq Range(aQueue)
      BY <1>32, ReadSoundFacts
    <2>3. Queued' \subseteq Queued
      BY <2>1, <2>2 DEF Queued
    <2> QED
      BY <2>1, <2>3, OpeningKept
  <1>33. CASE UNCHANGED vars
    BY <1>33 DEF vars, flags, queues, source, mvars, history, OpeningInv, AllOf, Queued
  <1> QED
    BY <1>1, <1>2, <1>3, <1>4, <1>5, <1>6, <1>7, <1>8, <1>9, <1>10, <1>11, <1>12, <1>13, <1>14,
       <1>15, <1>16, <1>17, <1>18, <1>19, <1>20, <1>21, <1>22, <1>23, <1>24, <1>25, <1>26,
       <1>27, <1>28, <1>29, <1>30, <1>31, <1>32, <1>33 DEF Next, RUN, MainLoop, MainStep

-----------------------------------------------------------------------------
(* What the main loop discards.                                             *)

\* RUN only adds frames, or clears the queues and leaves a trace of it.
Grows ==
    /\ UNCHANGED <<opt, mpc, discard>>
    /\ \/ Len(vQueue') >= Len(vQueue) /\ reset' = reset
       \/ mpc \in {"cut", "pop"} => reset'

\* Such a step leaves what will be discarded in the queue.
LEMMA DiscardGrows ==
    ASSUME TypeOK, TypeOK', DiscardInv, mpc # "undefined", Grows
    PROVE  DiscardInv'
  <1>1. UNCHANGED <<mpc, discard, opt, floor_size>>
    BY DEF Grows, floor_size
  <1>2. Len(vQueue) \in Nat /\ Len(vQueue') \in Nat /\ discard \in Nat /\ floor_size \in Nat
    BY FloorFacts, Constants, SMTT(30) DEF TypeOK
  <1> HIDE DEF floor_size
  <1>3. mpc = "cut" /\ ~reset' => Len(vQueue') >= floor_size
    BY <1>2 DEF Grows, DiscardInv
  <1>4. mpc = "pop" /\ ~reset' => discard <= Len(vQueue')
    BY <1>2 DEF Grows, DiscardInv
  <1>5. /\ mpc' # "pop" => discard' = 0
        /\ mpc' = "cut" => floor_size' > 0
        /\ ~opt'.stream => discard' = 0
    BY <1>1 DEF DiscardInv
  <1>6. NoUnderflow'
    BY <1>1 DEF NoUnderflow
  <1> QED
    BY <1>1, <1>3, <1>4, <1>5, <1>6 DEF DiscardInv

\* A step of the main loop that leaves it outside read_thread_stream_video_frame.
LEMMA DiscardOutside ==
    ASSUME DiscardInv, mpc # "pop" \/ discard = 0, UNCHANGED <<opt, discard>>,
           mpc' \notin {"cut", "pop", "undefined"}
    PROVE  DiscardInv'
  <1>1. discard' = 0
    BY DEF DiscardInv
  <1> QED
    BY <1>1 DEF DiscardInv, NoUnderflow

\* The main loop pops what is there, unless the decoder clears the queues in
\* between.
LEMMA DiscardStep ==
    ASSUME TypeOK, TypeOK', SourceInv, DiscardInv, Next
    PROVE  DiscardInv'
  <1>0. mpc # "undefined"
    BY DEF Next
  <1>1. CASE Top
    <2>1. UNCHANGED <<opt, mpc, discard, vQueue, reset>>
      BY <1>1 DEF Top, Goto, flags, queues, source, mvars, history
    <2>2. Len(vQueue) \in Nat
      BY DEF TypeOK
    <2>3. Grows
      BY <2>1, <2>2 DEF Grows
    <2> QED
      BY <1>0, <2>3, DiscardGrows
  <1>2. CASE Open
    <2>1. UNCHANGED <<opt, mpc, discard, vQueue, reset>>
      BY <1>2 DEF Open, flags, queues, source, mvars, history
    <2>2. Len(vQueue) \in Nat
      BY DEF TypeOK
    <2>3. Grows
      BY <2>1, <2>2 DEF Grows
    <2> QED
      BY <1>0, <2>3, DiscardGrows
  <1>3. CASE OpenFails
    <2>1. UNCHANGED <<opt, mpc, discard>>
      BY <1>3 DEF OpenFails, flags, source, mvars
    <2>2. Grows
      BY <1>3, <2>1, ClearFacts DEF OpenFails, Grows
    <2> QED
      BY <1>0, <2>2, DiscardGrows
  <1>4. CASE Check
    <2>1. UNCHANGED <<opt, mpc, discard, vQueue, reset>>
      BY <1>4 DEF Check, Goto, flags, queues, source, mvars, history
    <2>2. Len(vQueue) \in Nat
      BY DEF TypeOK
    <2>3. Grows
      BY <2>1, <2>2 DEF Grows
    <2> QED
      BY <1>0, <2>3, DiscardGrows
  <1>5. CASE Stopped
    <2>1. UNCHANGED <<opt, mpc, discard, vQueue, reset>>
      BY <1>5 DEF Stopped, Goto, flags, queues, source, mvars, history
    <2>2. Len(vQueue) \in Nat
      BY DEF TypeOK
    <2>3. Grows
      BY <2>1, <2>2 DEF Grows
    <2> QED
      BY <1>0, <2>3, DiscardGrows
  <1>6. CASE Close
    <2>1. UNCHANGED <<opt, mpc, discard>>
      BY <1>6 DEF Close, flags, mvars
    <2>2. Grows
      BY <1>6, <2>1, ClearFacts DEF Close, Grows
    <2> QED
      BY <1>0, <2>2, DiscardGrows
  <1>7. CASE Cache
    <2>1. UNCHANGED <<opt, mpc, discard, vQueue, reset>>
      BY <1>7 DEF Cache, flags, queues, source, mvars, history
    <2>2. Len(vQueue) \in Nat
      BY DEF TypeOK
    <2>3. Grows
      BY <2>1, <2>2 DEF Grows
    <2> QED
      BY <1>0, <2>3, DiscardGrows
  <1>8. CASE ReadVideo
    <2>1. UNCHANGED <<opt, mpc, discard>>
      BY <1>8 DEF ReadVideo, Late, flags, queues, mvars, history
    <2>2. Len(vQueue) \in Nat
      BY DEF TypeOK
    <2>3. UNCHANGED <<vQueue, reset>> \/ (mpc \in {"cut", "pop"} => reset')
      BY <1>8, LateFacts, ClearFacts DEF ReadVideo
    <2>4. Grows
      BY <2>1, <2>2, <2>3 DEF Grows
    <2> QED
      BY <1>0, <2>4, DiscardGrows
  <1>9. CASE PushVideo
    <2>1. UNCHANGED <<opt, mpc, discard, reset>>
      BY <1>9 DEF PushVideo, flags, mvars, history
    <2>2. Len(vQueue') = Len(vQueue) + 1 /\ Len(vQueue) \in Nat
      BY <1>9, PushedFrames, PushFacts DEF PushVideo, TypeOK
    <2>3. Grows
      BY <2>1, <2>2 DEF Grows
    <2> QED
      BY <1>0, <2>3, DiscardGrows
  <1>10. CASE Half
    <2>1. UNCHANGED <<opt, mpc, discard, vQueue, reset>>
      BY <1>10 DEF Half, Goto, flags, queues, source, mvars, history
    <2>2. Len(vQueue) \in Nat
      BY DEF TypeOK
    <2>3. Grows
      BY <2>1, <2>2 DEF Grows
    <2> QED
      BY <1>0, <2>3, DiscardGrows
  <1>11. CASE ReadAudio
    <2>1. UNCHANGED <<opt, mpc, discard>>
      BY <1>11 DEF ReadAudio, Late, flags, queues, mvars, history
    <2>2. Len(vQueue) \in Nat
      BY DEF TypeOK
    <2>3. UNCHANGED <<vQueue, reset>> \/ (mpc \in {"cut", "pop"} => reset')
      BY <1>11, LateFacts, ClearFacts DEF ReadAudio
    <2>4. Grows
      BY <2>1, <2>2, <2>3 DEF Grows
    <2> QED
      BY <1>0, <2>4, DiscardGrows
  <1>12. CASE PushAudio
    <2>1. UNCHANGED <<opt, mpc, discard, vQueue, reset>>
      BY <1>12 DEF PushAudio, flags, mvars, history
    <2>2. Len(vQueue) \in Nat
      BY DEF TypeOK
    <2>3. Grows
      BY <2>1, <2>2 DEF Grows
    <2> QED
      BY <1>0, <2>3, DiscardGrows
  <1>13. CASE NoAudio
    <2>1. UNCHANGED <<opt, mpc, discard>>
      BY <1>13 DEF NoAudio, Late, queues, source, mvars, history
    <2>2. Len(vQueue) \in Nat
      BY DEF TypeOK
    <2>3. UNCHANGED <<vQueue, reset>> \/ (mpc \in {"cut", "pop"} => reset')
      BY <1>13, LateFacts, ClearFacts DEF NoAudio
    <2>4. Grows
      BY <2>1, <2>2, <2>3 DEF Grows
    <2> QED
      BY <1>0, <2>4, DiscardGrows
  <1>14. CASE NoVideo
    <2>1. UNCHANGED <<opt, mpc, discard>>
      BY <1>14 DEF NoVideo, Late, queues, source, mvars, history
    <2>2. Len(vQueue) \in Nat
      BY DEF TypeOK
    <2>3. UNCHANGED <<vQueue, reset>> \/ (mpc \in {"cut", "pop"} => reset')
      BY <1>14, LateFacts, ClearFacts DEF NoVideo
    <2>4. Grows
      BY <2>1, <2>2, <2>3 DEF Grows
    <2> QED
      BY <1>0, <2>4, DiscardGrows
  <1>15. CASE ReadFails
    <2>1. UNCHANGED <<opt, mpc, discard, vQueue, reset>>
      BY <1>15 DEF ReadFails, queues, source, mvars, history
    <2>2. Len(vQueue) \in Nat
      BY DEF TypeOK
    <2>3. Grows
      BY <2>1, <2>2 DEF Grows
    <2> QED
      BY <1>0, <2>3, DiscardGrows
  <1>16. CASE After
    <2>1. UNCHANGED <<opt, mpc, discard, vQueue, reset>>
      BY <1>16 DEF After, Goto, flags, queues, source, mvars, history
    <2>2. Len(vQueue) \in Nat
      BY DEF TypeOK
    <2>3. Grows
      BY <2>1, <2>2 DEF Grows
    <2> QED
      BY <1>0, <2>3, DiscardGrows
  <1>17. CASE Eof
    <2>1. UNCHANGED <<opt, mpc, discard, vQueue, reset>>
      BY <1>17 DEF Eof, Goto, flags, queues, source, mvars, history
    <2>2. Len(vQueue) \in Nat
      BY DEF TypeOK
    <2>3. Grows
      BY <2>1, <2>2 DEF Grows
    <2> QED
      BY <1>0, <2>3, DiscardGrows
  <1>18. CASE Drain
    <2>1. UNCHANGED <<opt, mpc, discard, vQueue, reset>>
      BY <1>18 DEF Drain, Goto, flags, queues, source, mvars, history
    <2>2. Len(vQueue) \in Nat
      BY DEF TypeOK
    <2>3. Grows
      BY <2>1, <2>2 DEF Grows
    <2> QED
      BY <1>0, <2>3, DiscardGrows
  <1>19. CASE Reopen
    <2>1. UNCHANGED <<opt, mpc, discard>>
      BY <1>19 DEF Reopen, mvars
    <2>2. Grows
      BY <1>19, <2>1, ClearFacts DEF Reopen, Grows
    <2> QED
      BY <1>0, <2>2, DiscardGrows
  <1>20. CASE ReopenFails
    <2>1. UNCHANGED <<opt, mpc, discard, vQueue, reset>>
      BY <1>20 DEF ReopenFails, flags, queues, mvars, history
    <2>2. Len(vQueue) \in Nat
      BY DEF TypeOK
    <2>3. Grows
      BY <2>1, <2>2 DEF Grows
    <2> QED
      BY <1>0, <2>3, DiscardGrows
  <1>21. CASE ReopenExit
    <2>1. UNCHANGED <<opt, mpc, discard, vQueue, reset>>
      BY <1>21 DEF ReopenExit, Goto, flags, queues, source, mvars, history
    <2>2. Len(vQueue) \in Nat
      BY DEF TypeOK
    <2>3. Grows
      BY <2>1, <2>2 DEF Grows
    <2> QED
      BY <1>0, <2>3, DiscardGrows
  <1>22. CASE START
    <2>1. UNCHANGED <<opt, discard>>
      BY <1>22 DEF START, queues, source, history
    <2>2. (mpc # "pop" \/ discard = 0) /\ mpc' \notin {"cut", "pop", "undefined"}
      BY <1>22 DEF START
    <2> QED
      BY <2>1, <2>2, DiscardOutside
  <1>23. CASE StartRun
    <2>1. UNCHANGED <<opt, discard>>
      BY <1>23 DEF StartRun, queues, source, history
    <2>2. (mpc # "pop" \/ discard = 0) /\ mpc' \notin {"cut", "pop", "undefined"}
      BY <1>23 DEF StartRun
    <2> QED
      BY <2>1, <2>2, DiscardOutside
  <1>24. CASE STOP
    <2>1. UNCHANGED <<opt, discard>>
      BY <1>24 DEF STOP, queues, source, history
    <2>2. (mpc # "pop" \/ discard = 0) /\ mpc' \notin {"cut", "pop", "undefined"}
      BY <1>24 DEF STOP
    <2> QED
      BY <2>1, <2>2, DiscardOutside
  <1>25. CASE StopClear
    <2>1. UNCHANGED <<opt, discard>>
      BY <1>25 DEF StopClear, flags, source
    <2>2. (mpc # "pop" \/ discard = 0) /\ mpc' \notin {"cut", "pop", "undefined"}
      BY <1>25 DEF StopClear
    <2> QED
      BY <2>1, <2>2, DiscardOutside
  <1>26. CASE EXIT
    <2>1. UNCHANGED <<opt, discard>>
      BY <1>26 DEF EXIT, source
    <2>2. (mpc # "pop" \/ discard = 0) /\ mpc' \notin {"cut", "pop", "undefined"}
      BY <1>26 DEF EXIT
    <2> QED
      BY <2>1, <2>2, DiscardOutside
  <1>27. CASE ReadFrame
    <2>1. UNCHANGED <<opt, discard, vQueue, reset>>
      BY <1>27 DEF ReadFrame, flags, queues, source, history
    <2>2. mpc = "idle" /\ mpc' \in {"cut", "pop"}
      BY <1>27 DEF ReadFrame
    <2>3. mpc' = "cut" => floor_size > 0 /\ Len(vQueue) >= floor_size
      BY <1>27 DEF ReadFrame
    <2>4. discard' = 0 /\ Len(vQueue) \in Nat
      BY <2>1, <2>2, SMTT(30) DEF DiscardInv, TypeOK
    <2>5. UNCHANGED floor_size
      BY <2>1 DEF floor_size
    <2> HIDE DEF floor_size
    <2> QED
      BY <2>1, <2>2, <2>3, <2>4, <2>5 DEF DiscardInv, NoUnderflow
  <1>28. CASE Cut
    <2>1. /\ mpc = "cut" /\ mpc' = "pop" /\ UNCHANGED <<opt, vQueue, reset>>
          /\ Len(vQueue) >= floor_size => discard' <= Len(vQueue)
      BY <1>28, CutFacts
    <2>2. opt.stream
      BY <2>1, FloorFacts DEF DiscardInv
    <2> QED
      BY <2>1, <2>2 DEF DiscardInv, NoUnderflow
  <1>29. CASE CutVideo
    <2>1. mpc = "cut" /\ mpc' = "pop" /\ UNCHANGED <<opt, discard, reset>>
      BY <1>29 DEF CutVideo, history
    <2>2. discard' = 0 /\ Len(vQueue') \in Nat
      BY <1>29, <2>1, CutVideoFacts DEF DiscardInv
    <2> QED
      BY <2>1, <2>2 DEF DiscardInv, NoUnderflow
  <1>30. CASE Discard
    <2>1. UNCHANGED <<opt, reset>> /\ discard' = 0 /\ mpc = "pop" /\ mpc' \in {"pop", "undefined"}
      BY <1>30, DiscardFacts DEF Discard, history
    <2>2. mpc' = "undefined" => ~(discard <= Len(vQueue))
      BY <1>30, DiscardFacts
    <2>3. mpc' = "undefined" => reset
      BY <2>1, <2>2 DEF DiscardInv
    <2>4. Len(vQueue') \in Nat
      BY DEF TypeOK
    <2> QED
      BY <2>1, <2>3, <2>4 DEF DiscardInv, NoUnderflow
  <1>31. CASE PopFrame
    <2>1. UNCHANGED <<opt, discard>>
      BY <1>31 DEF PopFrame, flags, source
    <2>2. (mpc # "pop" \/ discard = 0) /\ mpc' \notin {"cut", "pop", "undefined"}
      BY <1>31 DEF PopFrame
    <2> QED
      BY <2>1, <2>2, DiscardOutside
  <1>32. CASE ReadSound
    <2>1. UNCHANGED <<opt, mpc, discard, vQueue, reset>>
      BY <1>32 DEF ReadSound, flags, source, mvars, history
    <2> QED
      BY <2>1 DEF DiscardInv, NoUnderflow, floor_size
  <1> QED
    BY <1>1, <1>2, <1>3, <1>4, <1>5, <1>6, <1>7, <1>8, <1>9, <1>10, <1>11, <1>12, <1>13, <1>14,
       <1>15, <1>16, <1>17, <1>18, <1>19, <1>20, <1>21, <1>22, <1>23, <1>24, <1>25, <1>26,
       <1>27, <1>28, <1>29, <1>30, <1>31, <1>32 DEF Next, RUN, MainLoop, MainStep

-----------------------------------------------------------------------------
(* What is shown of a file.                                                 *)

\* A step that leaves the queue and the source where they are.
LEMMA ShownKept ==
    ASSUME ShownInv, UNCHANGED <<opt, vQueue, Pushed, given>>, lost => lost',
           mpc = "gone" => mpc' = "gone", last_frame' \in {last_frame, << >>},
           ~opt.stream => /\ ~opened' => vQueue = << >>
                          /\ dpc' = "reopen" /\ ~bExit' => vQueue = << >>
    PROVE  ShownInv'
  <1>1. Before' = Before
    BY DEF Before
  <1> SUFFICES ASSUME ~opt.stream
               PROVE  /\ \A i \in DOMAIN vQueue' : vQueue'[i].no = Before' + i
                      /\ ~lost' /\ last_frame' # << >> /\ mpc' # "gone" =>
                            last_frame'[1].no = IF Before' > 0 THEN Before' ELSE given'
    BY DEF ShownInv
  <1>2. /\ \A i \in DOMAIN vQueue : vQueue[i].no = Before + i
        /\ ~lost /\ last_frame # << >> /\ mpc # "gone" =>
              last_frame[1].no = IF Before > 0 THEN Before ELSE given
    BY DEF ShownInv
  <1> HIDE DEF Before
  <1> QED
    BY <1>1, <1>2

\* A step that clears the queue, and shows nothing or loses frames.
LEMMA ShownCleared ==
    ASSUME vQueue' = << >>, lost' \/ last_frame' = << >> \/ mpc' = "gone"
    PROVE  ShownInv'
  BY DEF ShownInv

\* A source is opened when the frames of the opening before are shown.
LEMMA ShownOpened ==
    ASSUME TypeOK, ShownInv, OpenSource, UNCHANGED <<opt, lost, last_frame, mpc>>,
           dpc \in {"open", "reopen"}, dpc' \in {"check", "top"},
           ~opt.stream => vQueue = << >> /\ vQueue' = << >>
    PROVE  ShownInv'
  <1> SUFFICES ASSUME ~opt.stream
               PROVE  ShownInv'
    BY DEF ShownInv
  <1>1. /\ vQueue = << >> /\ vQueue' = << >> /\ Len(vQueue) = 0 /\ Len(vQueue') = 0
        /\ vpos \in Nat /\ given \in Nat
    BY Constants, EmptyFacts DEF TypeOK
  <1>2. vpos' = 0 /\ given' = IF vpos = 0 THEN given ELSE vpos
    BY OpenFacts
  <1>3. Before = vpos /\ Before' = 0
    BY <1>1, <1>2 DEF Before, Pushed
  <1> HIDE DEF Before
  <1>4. ~lost /\ last_frame # << >> /\ mpc # "gone" =>
            last_frame[1].no = IF Before > 0 THEN Before ELSE given
    BY DEF ShownInv
  <1>5. ~lost' /\ last_frame' # << >> /\ mpc' # "gone" =>
            last_frame'[1].no = IF Before' > 0 THEN Before' ELSE given'
    BY <1>1, <1>2, <1>3, <1>4
  <1> QED
    BY <1>1, <1>5 DEF ShownInv

\* The frame that is queued is the next one of the file.
LEMMA ShownPushed ==
    ASSUME TypeOK, SourceInv, ShownInv, PushVideo
    PROVE  ShownInv'
  <1> DEFINE e == [of |-> opens, no |-> vpos]
             n == Len(vQueue)
  <1>1. vQueue' = Append(vQueue, e) /\ e.no = vpos /\ dpc = "pushv"
    BY DEF PushVideo
  <1>2. UNCHANGED <<opt, opened, given, lost, last_frame, mpc, bExit>>
    BY DEF PushVideo, flags, mvars, history
  <1>3. e \in Frames /\ vQueue \in Seq(Frames)
    BY <1>1, PushedFrames DEF TypeOK
  <1>4. opened' /\ dpc' # "reopen"
    BY <1>1, <1>2 DEF SourceInv, Caching, PushVideo
  <1> HIDE DEF e
  <1>5. /\ n \in Nat /\ Len(vQueue') = n + 1 /\ DOMAIN vQueue' = 1 .. n + 1 /\ DOMAIN vQueue = 1 .. n
        /\ \A i \in 1 .. n : vQueue'[i] = vQueue[i]
        /\ vQueue'[n + 1] = e
    BY <1>1, <1>3, PushFacts
  <1>6. vpos \in Nat
    BY Constants DEF TypeOK
  <1>7. Pushed = vpos - 1 /\ Pushed' = vpos
    <2>1. \/ vpos' = vpos + 1 /\ dpc' = "pushv"
          \/ vpos' = vpos /\ dpc' = "half"
      BY <1>1 DEF PushVideo
    <2> QED
      BY <1>1, <1>6, <2>1 DEF Pushed
  <1>8. Before' = Before /\ Before = vpos - (n + 1) /\ Before \in Int
    BY <1>5, <1>6, <1>7 DEF Before
  <1> HIDE DEF Before, n
  <1> SUFFICES ASSUME ~opt.stream
               PROVE  /\ \A i \in DOMAIN vQueue' : vQueue'[i].no = Before + i
                      /\ ~lost /\ last_frame # << >> /\ mpc # "gone" =>
                            last_frame[1].no = IF Before > 0 THEN Before ELSE given
    BY <1>2, <1>4, <1>8 DEF ShownInv
  <1>9. \A i \in DOMAIN vQueue : vQueue[i].no = Before + i
    BY DEF ShownInv
  <1>10. ASSUME NEW i \in DOMAIN vQueue'
         PROVE  vQueue'[i].no = Before + i
    <2>1. CASE i \in 1 .. n
      BY <1>5, <1>9, <2>1
    <2>2. CASE i = n + 1
      BY <1>1, <1>5, <1>6, <1>8, <2>2
    <2> QED
      BY <1>5, <2>1, <2>2
  <1> QED
    BY <1>10 DEF ShownInv

\* What the first frame of the queue of a file is.
LEMMA FirstQueued ==
    ASSUME TypeOK, SourceInv, ShownInv, ~opt.stream, vQueue # << >>
    PROVE  Before \in Nat /\ Head(vQueue).no = Before + 1
  <1>1. /\ vQueue \in Seq(Frames) /\ Head(vQueue) \in Frames /\ Head(vQueue) = vQueue[1]
        /\ Len(vQueue) \in Nat \ {0} /\ DOMAIN vQueue = 1 .. Len(vQueue)
    BY PopFacts DEF TypeOK
  <1>2. 1 \in DOMAIN vQueue
    BY <1>1
  <1>3. vQueue[1].no = Before + 1
    BY <1>2 DEF ShownInv
  <1>4. Head(vQueue).no \in Nat \ {0}
    BY <1>1, Constants DEF Frames
  <1>5. Before \in Int
    <2>1. vpos \in Nat
      BY Constants DEF TypeOK
    <2>2. Pushed \in Int
      BY <2>1 DEF Pushed
    <2> QED
      BY <1>1, <2>2 DEF Before
  <1> QED
    BY <1>1, <1>3, <1>4, <1>5

\* The frame that is shown is the one before the rest of the queue.
LEMMA ShownPopped ==
    ASSUME TypeOK, SourceInv, ShownInv, PopFrame, vQueue # << >>
    PROVE  ShownInv'
  <1> SUFFICES ASSUME ~opt.stream
               PROVE  ShownInv'
    BY DEF ShownInv, PopFrame
  <1>1. last_frame' = <<Head(vQueue)>> /\ vQueue' = Tail(vQueue)
    BY PopFrameFacts
  <1>2. UNCHANGED <<opt, opened, given, dpc, bExit, vpos>>
    BY DEF PopFrame, flags, source
  <1> DEFINE n == Len(vQueue)
  <1>3. vQueue \in Seq(Frames)
    BY DEF TypeOK
  <1>4. /\ n \in Nat \ {0} /\ Len(vQueue') = n - 1 /\ DOMAIN vQueue' = 1 .. n - 1
        /\ DOMAIN vQueue = 1 .. n
        /\ \A i \in 1 .. n - 1 : vQueue'[i] = vQueue[i + 1]
    BY <1>1, <1>3, PopFacts
  <1>5. Before \in Nat /\ Head(vQueue).no = Before + 1
    BY FirstQueued
  <1>6. Before' = Before + 1
    <2>1. vpos \in Nat
      BY Constants DEF TypeOK
    <2>2. Pushed' = Pushed /\ Pushed \in Int
      BY <1>2, <2>1 DEF Pushed
    <2> QED
      BY <1>4, <2>2 DEF Before
  <1> HIDE DEF n
  <1>7. \A i \in DOMAIN vQueue : vQueue[i].no = Before + i
    BY DEF ShownInv
  <1>8. opened /\ ~(dpc = "reopen" /\ ~bExit)
    BY DEF ShownInv
  <1> HIDE DEF Before
  <1>9. ASSUME NEW i \in DOMAIN vQueue'
        PROVE  vQueue'[i].no = Before' + i
    <2>1. i \in Nat /\ i + 1 \in DOMAIN vQueue /\ vQueue'[i] = vQueue[i + 1]
      BY <1>4
    <2> QED
      BY <1>5, <1>6, <1>7, <2>1
  <1>10. last_frame'[1].no = Before' /\ Before' > 0
    BY <1>1, <1>5, <1>6
  <1> QED
    BY <1>2, <1>8, <1>9, <1>10 DEF ShownInv

\* The queue of a file goes on where the frame that is shown ends.
LEMMA ShownStep ==
    ASSUME TypeOK, SourceInv, DiscardInv, ShownInv, [Next]_vars
    PROVE  ShownInv'
  <1>1. CASE Top
    <2>1. UNCHANGED <<opt, vQueue, vpos, given, bExit, lost, last_frame, mpc, opened>>
      BY <1>1 DEF Top, Goto, flags, queues, source, mvars, history
    <2>2. dpc' # "reopen" /\ dpc # "pushv" /\ dpc' # "pushv"
      BY <1>1 DEF Top, Goto
    <2>3. Pushed' = Pushed
      BY <2>1, <2>2 DEF Pushed
    <2>4. ~opt.stream => (~opened => vQueue = << >>)
      BY DEF ShownInv
    <2> QED
      BY <2>1, <2>2, <2>3, <2>4, ShownKept
  <1>2. CASE Open
    <2>1. UNCHANGED <<opt, vQueue, bExit, lost, last_frame, mpc>> /\ dpc = "open" /\ dpc' = "check"
      BY <1>2 DEF Open, flags, queues, mvars, history
    <2>2. CASE opened
      <3>1. UNCHANGED <<opened, vpos, given>>
        BY <1>2, <2>2 DEF Open, source
      <3> QED
        BY <2>1, <2>2, <3>1, ShownKept DEF Pushed
    <2>3. CASE ~opened
      <3>1. OpenSource
        BY <1>2, <2>3 DEF Open
      <3>2. ~opt.stream => vQueue = << >>
        BY <2>3 DEF ShownInv
      <3> QED
        BY <2>1, <3>1, <3>2, ShownOpened
    <2> QED
      BY <2>2, <2>3
  <1>3. CASE OpenFails
    <2>1. vQueue' = << >> /\ lost'
      BY <1>3 DEF OpenFails, Clear
    <2> QED
      BY <2>1, ShownCleared
  <1>4. CASE Check
    <2>1. UNCHANGED <<opt, vQueue, vpos, given, bExit, lost, last_frame, mpc, opened>>
      BY <1>4 DEF Check, Goto, flags, queues, source, mvars, history
    <2>2. dpc' # "reopen" /\ dpc # "pushv" /\ dpc' # "pushv"
      BY <1>4 DEF Check, Goto
    <2>3. Pushed' = Pushed
      BY <2>1, <2>2 DEF Pushed
    <2>4. ~opt.stream => (~opened => vQueue = << >>)
      BY DEF ShownInv
    <2> QED
      BY <2>1, <2>2, <2>3, <2>4, ShownKept
  <1>5. CASE Stopped
    <2>1. UNCHANGED <<opt, vQueue, vpos, given, bExit, lost, last_frame, mpc, opened>>
      BY <1>5 DEF Stopped, Goto, flags, queues, source, mvars, history
    <2>2. dpc' # "reopen" /\ dpc # "pushv" /\ dpc' # "pushv"
      BY <1>5 DEF Stopped, Goto
    <2>3. Pushed' = Pushed
      BY <2>1, <2>2 DEF Pushed
    <2>4. ~opt.stream => (~opened => vQueue = << >>)
      BY DEF ShownInv
    <2> QED
      BY <2>1, <2>2, <2>3, <2>4, ShownKept
  <1>6. CASE Close
    <2>1. vQueue' = << >> /\ lost'
      BY <1>6 DEF Close, Clear
    <2> QED
      BY <2>1, ShownCleared
  <1>7. CASE Cache
    <2>1. UNCHANGED <<opt, vQueue, vpos, given, bExit, lost, last_frame, mpc, opened>>
      BY <1>7 DEF Cache, flags, queues, source, mvars, history
    <2>2. dpc' # "reopen" /\ dpc # "pushv" /\ dpc' # "pushv"
      BY <1>7 DEF Cache
    <2>3. Pushed' = Pushed
      BY <2>1, <2>2 DEF Pushed
    <2>4. ~opt.stream => (~opened => vQueue = << >>)
      BY DEF ShownInv
    <2> QED
      BY <2>1, <2>2, <2>3, <2>4, ShownKept
  <1>8. CASE ReadVideo
    <2>1. CASE UNCHANGED <<vQueue, lost>>
      <3>1. UNCHANGED <<opt, opened, bExit, last_frame, mpc, given>>
        BY <1>8 DEF ReadVideo, Late, flags, queues, mvars, history
      <3>2. Pushed' = Pushed /\ dpc' # "reopen" /\ dpc \in Caching
        <4>1. vpos \in Nat
          BY Constants DEF TypeOK
        <4> QED
          BY <1>8, <4>1 DEF ReadVideo, Pushed, Caching
      <3>3. opened
        BY <3>2 DEF SourceInv
      <3> QED
        BY <2>1, <3>1, <3>2, <3>3, ShownKept
    <2>2. CASE Clear /\ lost' = TRUE
      BY <2>2, ShownCleared DEF Clear
    <2> QED
      BY <1>8, <2>1, <2>2, LateFacts DEF ReadVideo
  <1>9. CASE PushVideo
    BY <1>9, ShownPushed
  <1>10. CASE Half
    <2>1. UNCHANGED <<opt, vQueue, vpos, given, bExit, lost, last_frame, mpc, opened>>
      BY <1>10 DEF Half, Goto, flags, queues, source, mvars, history
    <2>2. dpc' # "reopen" /\ dpc # "pushv" /\ dpc' # "pushv"
      BY <1>10 DEF Half, Goto
    <2>3. Pushed' = Pushed
      BY <2>1, <2>2 DEF Pushed
    <2>4. ~opt.stream => (~opened => vQueue = << >>)
      BY DEF ShownInv
    <2> QED
      BY <2>1, <2>2, <2>3, <2>4, ShownKept
  <1>11. CASE ReadAudio
    <2>1. CASE UNCHANGED <<vQueue, lost>>
      <3>1. UNCHANGED <<opt, opened, bExit, last_frame, mpc, given>>
        BY <1>11 DEF ReadAudio, Late, flags, queues, mvars, history
      <3>2. Pushed' = Pushed /\ dpc' # "reopen" /\ dpc \in Caching
        BY <1>11 DEF ReadAudio, source, Pushed, Caching
      <3>3. opened
        BY <3>2 DEF SourceInv
      <3> QED
        BY <2>1, <3>1, <3>2, <3>3, ShownKept
    <2>2. CASE Clear /\ lost' = TRUE
      BY <2>2, ShownCleared DEF Clear
    <2> QED
      BY <1>11, <2>1, <2>2, LateFacts DEF ReadAudio
  <1>12. CASE PushAudio
    <2>1. UNCHANGED <<opt, vQueue, vpos, given, bExit, lost, last_frame, mpc, opened>>
      BY <1>12 DEF PushAudio, flags, mvars, history
    <2>2. dpc' # "reopen" /\ dpc # "pushv" /\ dpc' # "pushv"
      BY <1>12 DEF PushAudio
    <2>3. Pushed' = Pushed
      BY <2>1, <2>2 DEF Pushed
    <2>4. ~opt.stream => (~opened => vQueue = << >>)
      BY DEF ShownInv
    <2> QED
      BY <2>1, <2>2, <2>3, <2>4, ShownKept
  <1>13. CASE NoAudio
    <2>1. CASE UNCHANGED <<vQueue, lost>>
      <3>1. UNCHANGED <<opt, opened, bExit, last_frame, mpc, given>>
        BY <1>13 DEF NoAudio, Late, queues, source, mvars, history
      <3>2. Pushed' = Pushed /\ dpc' # "reopen" /\ dpc \in Caching
        BY <1>13 DEF NoAudio, source, Pushed, Caching
      <3>3. opened
        BY <3>2 DEF SourceInv
      <3> QED
        BY <2>1, <3>1, <3>2, <3>3, ShownKept
    <2>2. CASE Clear /\ lost' = TRUE
      BY <2>2, ShownCleared DEF Clear
    <2> QED
      BY <1>13, <2>1, <2>2, LateFacts DEF NoAudio
  <1>14. CASE NoVideo
    <2>1. CASE UNCHANGED <<vQueue, lost>>
      <3>1. UNCHANGED <<opt, opened, bExit, last_frame, mpc, given>>
        BY <1>14 DEF NoVideo, Late, queues, source, mvars, history
      <3>2. Pushed' = Pushed /\ dpc' # "reopen" /\ dpc \in Caching
        BY <1>14 DEF NoVideo, source, Pushed, Caching
      <3>3. opened
        BY <3>2 DEF SourceInv
      <3> QED
        BY <2>1, <3>1, <3>2, <3>3, ShownKept
    <2>2. CASE Clear /\ lost' = TRUE
      BY <2>2, ShownCleared DEF Clear
    <2> QED
      BY <1>14, <2>1, <2>2, LateFacts DEF NoVideo
  <1>15. CASE ReadFails
    <2>1. UNCHANGED <<opt, vQueue, vpos, given, bExit, lost, last_frame, mpc, opened>>
      BY <1>15 DEF ReadFails, queues, source, mvars, history
    <2>2. dpc' # "reopen" /\ dpc # "pushv" /\ dpc' # "pushv"
      BY <1>15 DEF ReadFails
    <2>3. Pushed' = Pushed
      BY <2>1, <2>2 DEF Pushed
    <2>4. ~opt.stream => (~opened => vQueue = << >>)
      BY DEF ShownInv
    <2> QED
      BY <2>1, <2>2, <2>3, <2>4, ShownKept
  <1>16. CASE After
    <2>1. UNCHANGED <<opt, vQueue, vpos, given, bExit, lost, last_frame, mpc, opened>>
      BY <1>16 DEF After, Goto, flags, queues, source, mvars, history
    <2>2. dpc' # "reopen" /\ dpc # "pushv" /\ dpc' # "pushv"
      BY <1>16 DEF After, Goto
    <2>3. Pushed' = Pushed
      BY <2>1, <2>2 DEF Pushed
    <2>4. ~opt.stream => (~opened => vQueue = << >>)
      BY DEF ShownInv
    <2> QED
      BY <2>1, <2>2, <2>3, <2>4, ShownKept
  <1>17. CASE Eof
    <2>1. UNCHANGED <<opt, vQueue, vpos, given, bExit, lost, last_frame, mpc, opened>>
      BY <1>17 DEF Eof, Goto, flags, queues, source, mvars, history
    <2>2. (dpc' = "reopen" => opt.stream) /\ dpc # "pushv" /\ dpc' # "pushv"
      BY <1>17 DEF Eof, Goto
    <2>3. Pushed' = Pushed
      BY <2>1, <2>2 DEF Pushed
    <2>4. ~opt.stream => (~opened => vQueue = << >>)
      BY DEF ShownInv
    <2> QED
      BY <2>1, <2>2, <2>3, <2>4, ShownKept
  <1>18. CASE Drain
    <2>1. UNCHANGED <<opt, vQueue, vpos, given, bExit, lost, last_frame, mpc, opened>>
      BY <1>18 DEF Drain, Goto, flags, queues, source, mvars, history
    <2>2. dpc' = "reopen" /\ (bExit \/ vQueue = << >>) /\ dpc # "pushv" /\ dpc' # "pushv"
      BY <1>18 DEF Drain, Goto
    <2>3. Pushed' = Pushed
      BY <2>1, <2>2 DEF Pushed
    <2>4. ~opt.stream => (~opened => vQueue = << >>)
      BY DEF ShownInv
    <2> QED
      BY <2>1, <2>2, <2>3, <2>4, ShownKept
  <1>19. CASE Reopen
    <2>1. UNCHANGED <<opt, lost, last_frame, mpc>> /\ dpc = "reopen" /\ dpc' = "top" /\ OpenSource
      BY <1>19 DEF Reopen, mvars
    <2>2. vQueue' = << >> /\ ~bExit
      BY <1>19 DEF Reopen, Clear
    <2>3. ~opt.stream => vQueue = << >>
      BY <2>1, <2>2 DEF ShownInv
    <2> QED
      BY <2>1, <2>2, <2>3, ShownOpened
  <1>20. CASE ReopenFails
    <2>1. UNCHANGED <<opt, vQueue, vpos, given, bExit, lost, last_frame, mpc>>
      BY <1>20 DEF ReopenFails, flags, queues, mvars, history
    <2>2. dpc' = "top" /\ dpc = "reopen" /\ ~bExit /\ dpc # "pushv" /\ dpc' # "pushv"
      BY <1>20 DEF ReopenFails
    <2>3. Pushed' = Pushed
      BY <2>1, <2>2 DEF Pushed
    <2>4. ~opt.stream => (vQueue = << >>)
      BY <2>2 DEF ShownInv
    <2> QED
      BY <2>1, <2>2, <2>3, <2>4, ShownKept
  <1>21. CASE ReopenExit
    <2>1. UNCHANGED <<opt, vQueue, vpos, given, bExit, lost, last_frame, mpc, opened>>
      BY <1>21 DEF ReopenExit, Goto, flags, queues, source, mvars, history
    <2>2. dpc' # "reopen" /\ dpc # "pushv" /\ dpc' # "pushv"
      BY <1>21 DEF ReopenExit, Goto
    <2>3. Pushed' = Pushed
      BY <2>1, <2>2 DEF Pushed
    <2>4. ~opt.stream => (~opened => vQueue = << >>)
      BY DEF ShownInv
    <2> QED
      BY <2>1, <2>2, <2>3, <2>4, ShownKept
  <1>22. CASE START
    <2>1. UNCHANGED <<opt, opened, vQueue, dpc, bExit, vpos, lost, last_frame, given>>
      BY <1>22 DEF START, queues, source, history
    <2>2. mpc = "idle"
      BY <1>22 DEF START
    <2> QED
      BY <2>1, <2>2 DEF ShownInv, Before, Pushed
  <1>23. CASE StartRun
    <2>1. UNCHANGED <<opt, vQueue, vpos, given, bExit, lost, opened>>
      BY <1>23 DEF StartRun, queues, source, history
    <2>2. /\ dpc' = dpc \/ (dpc = "none" /\ dpc' = "top")
          /\ last_frame' = << >> /\ mpc = "init"
      BY <1>23 DEF StartRun
    <2>3. ~opt.stream => /\ ~opened => vQueue = << >>
                         /\ dpc = "reopen" /\ ~bExit => vQueue = << >>
      BY DEF ShownInv
    <2>4. Pushed' = Pushed
      BY <2>1, <2>2 DEF Pushed
    <2> QED
      BY <2>1, <2>2, <2>3, <2>4, ShownKept
  <1>24. CASE STOP
    <2>1. UNCHANGED <<opt, opened, vQueue, dpc, bExit, vpos, lost, last_frame, given>>
      BY <1>24 DEF STOP, queues, source, history
    <2>2. mpc = "idle"
      BY <1>24 DEF STOP
    <2> QED
      BY <2>1, <2>2 DEF ShownInv, Before, Pushed
  <1>25. CASE StopClear
    <2>1. vQueue' = << >> /\ last_frame' = << >>
      BY <1>25 DEF StopClear, Clear
    <2> QED
      BY <2>1, ShownCleared
  <1>26. CASE EXIT
    <2>1. vQueue' = << >> /\ mpc' = "gone"
      BY <1>26 DEF EXIT, Clear
    <2> QED
      BY <2>1, ShownCleared
  <1>27. CASE ReadFrame
    <2>1. UNCHANGED <<opt, opened, vQueue, dpc, bExit, vpos, lost, last_frame, given>>
      BY <1>27 DEF ReadFrame, flags, queues, source, history
    <2>2. mpc = "idle"
      BY <1>27 DEF ReadFrame
    <2> QED
      BY <2>1, <2>2 DEF ShownInv, Before, Pushed
  <1>28. CASE Cut
    <2>1. mpc = "cut" /\ UNCHANGED opt
      BY <1>28 DEF Cut
    <2>2. opt.stream
      BY <2>1, FloorFacts DEF DiscardInv
    <2> QED
      BY <2>1, <2>2 DEF ShownInv
  <1>29. CASE CutVideo
    <2>1. mpc = "cut" /\ UNCHANGED opt
      BY <1>29 DEF CutVideo
    <2>2. opt.stream
      BY <2>1, FloorFacts DEF DiscardInv
    <2> QED
      BY <2>1, <2>2 DEF ShownInv
  <1>30. CASE Discard
    <2>1. discard > 0 /\ UNCHANGED opt
      BY <1>30 DEF Discard
    <2>2. opt.stream
      BY <2>1, FloorFacts DEF DiscardInv
    <2> QED
      BY <2>1, <2>2 DEF ShownInv
  <1>31. CASE PopFrame
    <2>1. CASE vQueue # << >>
      BY <1>31, <2>1, ShownPopped
    <2>2. CASE vQueue = << >>
      <3>1. UNCHANGED <<opt, opened, vQueue, dpc, bExit, vpos, lost, last_frame, given>>
        BY <1>31, <2>2 DEF PopFrame, flags, source
      <3>2. mpc = "pop"
        BY <1>31 DEF PopFrame
      <3> QED
        BY <3>1, <3>2 DEF ShownInv, Before, Pushed
    <2> QED
      BY <2>1, <2>2
  <1>32. CASE ReadSound
    <2>1. UNCHANGED <<opt, opened, vQueue, dpc, bExit, vpos, lost, last_frame, mpc, given>>
      BY <1>32 DEF ReadSound, flags, source, mvars, history
    <2> QED
      BY <2>1 DEF ShownInv, Before, Pushed
  <1>33. CASE UNCHANGED vars
    BY <1>33 DEF vars, flags, queues, source, mvars, history, ShownInv, Before, Pushed
  <1> QED
    BY <1>1, <1>2, <1>3, <1>4, <1>5, <1>6, <1>7, <1>8, <1>9, <1>10, <1>11, <1>12, <1>13, <1>14,
       <1>15, <1>16, <1>17, <1>18, <1>19, <1>20, <1>21, <1>22, <1>23, <1>24, <1>25, <1>26,
       <1>27, <1>28, <1>29, <1>30, <1>31, <1>32, <1>33 DEF Next, RUN, MainLoop, MainStep

-----------------------------------------------------------------------------
(* The theorems.                                                            *)

\* A decoder that was not started yet satisfies the invariant.
LEMMA InitInvariant ==
    ASSUME Init
    PROVE  DecoderInv
  <1>1. /\ opt \in Options /\ vQueue = << >> /\ aQueue = << >> /\ last_frame = << >>
        /\ dpc = "none" /\ mpc = "idle"
        /\ opens = 0 /\ vpos = 0 /\ apos = 0 /\ discard = 0 /\ commands = 0 /\ late = 0 /\ given = 0
    BY DEF Init
  <1>2. /\ bStopped = FALSE /\ bExit = FALSE /\ bEOF = FALSE /\ opened = FALSE /\ has_data = FALSE
        /\ reset = FALSE /\ lost = FALSE /\ revoked = FALSE
    BY DEF Init
  <1>3. vQueue \in Seq(Frames) /\ aQueue \in Seq(Frames) /\ Len(vQueue) = 0 /\ Len(aQueue) = 0
    BY <1>1, EmptyFacts
  <1>4. /\ opens \in 0 .. NumOpens - 1 /\ vpos \in 0 .. NumFrames /\ apos \in 0 .. NumFrames
        /\ given \in 0 .. NumFrames /\ discard \in 0 .. frame_num + NumFrames
        /\ commands \in 0 .. opt.max_commands /\ late \in 0 .. MaxLate
    BY <1>1, Constants
  <1>5. TypeOK
    BY <1>1, <1>2, <1>3, <1>4 DEF TypeOK
  <1>6. SourceInv
    BY <1>1 DEF SourceInv, Caching, Ending
  <1>7. LenInv
    BY <1>1, <1>3, Constants DEF LenInv
  <1>8. Queued = {}
    BY <1>1, RangeEmpty DEF Queued
  <1>9. OpeningInv
    <2>1. AllOf(0) /\ AllOf(opens)
      BY <1>8 DEF AllOf
    <2> QED
      BY <1>8, <2>1 DEF OpeningInv
  <1>10. DiscardInv
    BY <1>1 DEF DiscardInv, NoUnderflow
  <1>11. ShownInv
    BY <1>1 DEF ShownInv
  <1> QED
    BY <1>5, <1>6, <1>7, <1>9, <1>10, <1>11 DEF DecoderInv

\* Every step of RUN and of the main loop keeps the invariant.
LEMMA NextInvariant ==
    ASSUME DecoderInv, [Next]_vars
    PROVE  DecoderInv'
  <1>1. TypeOK /\ SourceInv /\ LenInv /\ OpeningInv /\ DiscardInv /\ ShownInv
    BY DEF DecoderInv
  <1>2. TypeOK' /\ SourceInv' /\ LenInv' /\ OpeningInv' /\ ShownInv'
    BY <1>1, TypeStep, SourceStep, LenStep, OpeningStep, ShownStep
  <1>3. CASE Next
    BY <1>1, <1>2, <1>3, DiscardStep DEF DecoderInv
  <1>4. CASE UNCHANGED vars
    <2>1. DiscardInv'
      BY <1>1, <1>4 DEF vars, queues, mvars, history, DiscardInv, NoUnderflow, floor_size
    <2> QED
      BY <1>2, <2>1 DEF DecoderInv
  <1> QED
    BY <1>3, <1>4

\* The invariant holds in every state.
THEOREM DecoderInvariant == Spec => []DecoderInv
  <1>1. Init => DecoderInv
    BY InitInvariant
  <1>2. DecoderInv /\ [Next]_vars => DecoderInv'
    BY NextInvariant
  <1> QED
    BY <1>1, <1>2, PTL DEF Spec

\* The queues hold frames of one opening of the source, unless a START took back the
\* end of the source, and are never popped when empty, unless RUN cleared them while
\* read_thread_stream_video_frame was at work.
THEOREM QueuesCorrect == Spec => []QueueInv
  <1>1. ASSUME DecoderInv
        PROVE  OneOpening
    <2>1. vQueue \in Seq(Frames) /\ aQueue \in Seq(Frames)
      BY <1>1 DEF DecoderInv, TypeOK
    <2>2. Range(vQueue \o aQueue) \subseteq Queued
      BY <2>1, RangeCat DEF Queued
    <2>3. ~revoked => \E k \in Nat : \A f \in Queued : f.of = k
      BY <1>1 DEF DecoderInv, OpeningInv, AllOf
    <2> QED
      BY <2>2, <2>3 DEF OneOpening
  <1>2. DecoderInv => QueueInv
    BY <1>1 DEF DecoderInv, DiscardInv, QueueInv
  <1> QED
    BY <1>2, DecoderInvariant, PTL

\* A file is shown frame by frame, round after round: nothing but a late read, a stop
\* or a failure to open makes it skip a frame.
THEOREM FileInOrder == Spec => NextShown
  <1>1. DecoderInv /\ [Next]_vars =>
            [ ~opt.stream /\ ~lost /\ last_frame # << >> /\ last_frame' \notin {<< >>, last_frame}
              => \/ last_frame'[1].no = last_frame[1].no + 1
                 \/ last_frame'[1].no = 1 /\ last_frame[1].no = given ]_last_frame
    <2> SUFFICES ASSUME DecoderInv, [Next]_vars, ~opt.stream, ~lost, last_frame # << >>,
                        last_frame' \notin {<< >>, last_frame}
                 PROVE  \/ last_frame'[1].no = last_frame[1].no + 1
                        \/ last_frame'[1].no = 1 /\ last_frame[1].no = given
      OBVIOUS
    <2>1. TypeOK /\ SourceInv /\ ShownInv
      BY DEF DecoderInv
    <2>2. PopFrame
      <3>1. CASE Top \/ Check \/ Stopped \/ Half \/ After \/ Eof \/ Drain \/ ReopenExit
        BY <3>1 DEF Top, Goto, mvars, Check, Stopped, Half, After, Eof, Drain, ReopenExit
      <3>2. CASE Open \/ OpenFails \/ Close \/ Cache \/ ReadFails \/ Reopen \/ ReopenFails
        BY <3>2 DEF Open, mvars, OpenFails, Close, Cache, ReadFails, Reopen, ReopenFails
      <3>3. CASE ReadVideo \/ PushVideo \/ ReadAudio \/ PushAudio \/ NoAudio \/ NoVideo
        BY <3>3 DEF ReadVideo, mvars, PushVideo, ReadAudio, PushAudio, NoAudio, NoVideo
      <3>4. CASE START \/ STOP \/ EXIT \/ ReadFrame \/ Cut \/ CutVideo \/ Discard \/ ReadSound
        BY <3>4 DEF START, STOP, EXIT, ReadFrame, Cut, CutVideo, Discard, ReadSound, mvars
      <3>5. CASE StartRun \/ StopClear \/ UNCHANGED vars
        BY <3>5 DEF StartRun, StopClear, vars, mvars
      <3> QED
        BY <3>1, <3>2, <3>3, <3>4, <3>5 DEF Next, RUN, MainLoop, MainStep
    <2>3. mpc = "pop" /\ vQueue # << >> /\ last_frame' = <<Head(vQueue)>>
      BY <2>1, <2>2, PopFrameFacts
    <2>4. Before \in Nat /\ Head(vQueue).no = Before + 1
      BY <2>1, <2>3, FirstQueued
    <2>5. last_frame[1].no = IF Before > 0 THEN Before ELSE given
      BY <2>1, <2>3 DEF ShownInv
    <2> HIDE DEF Before
    <2> QED
      BY <2>3, <2>4, <2>5
  <1> QED
    BY <1>1, DecoderInvariant, PTL DEF Spec, NextShown
=============================================================================
