-------------------------- MODULE RawFeedProofs ----------------------------
(***************************************************************************)
(* What holds of the raw packet readers for every sequence of packets, every *)
(* frame rate and sample rate and every size of the buffers.                 *)
(***************************************************************************)
EXTENDS RawFeed, SequenceTheorems, FiniteSetTheorems, TLAPS

-----------------------------------------------------------------------------
(* Arithmetic of the rounding in cache_video_data.                           *)

\* Integer division by a positive number rounds down.
LEMMA DivFloor ==
    ASSUME NEW a \in Nat, NEW b \in Nat \ {0}
    PROVE  /\ a \div b \in Nat
           /\ (a \div b) * b <= a
           /\ a < (a \div b) * b + b
  <1>1. a \div b \in Int /\ a % b \in 0 .. b - 1 /\ a = b * (a \div b) + (a % b)
    BY SMT
  <1> DEFINE q == a \div b
  <1>2. q * b = b * q
    BY <1>1
  <1>3. q * b <= a /\ a < q * b + b
    BY <1>1, <1>2
  <1>4. q >= 0
    <2>1. SUFFICES ASSUME q <= -1 PROVE FALSE
      BY <1>1
    <2>2. q * b <= (-1) * b
      BY <1>1, <2>1
    <2> QED
      BY <1>1, <1>3, <2>2
  <1> QED
    BY <1>1, <1>3, <1>4

\* Multiplying keeps the order.
LEMMA MulMono ==
    ASSUME NEW x \in Int, NEW y \in Int, NEW d \in Nat, x <= y
    PROVE  x * d <= y * d
  <1>1. (y - x) * d >= 0
    OBVIOUS
  <1>2. (y - x) * d = y * d - x * d
    OBVIOUS
  <1> QED
    BY <1>1, <1>2

\* From i bytes for k frames, which is not more than a byte ahead, the bytes up
\* to the next whole sample are more than none and lead a byte ahead at most.
LEMMA Rounded ==
    ASSUME NEW i \in Nat, NEW k \in Nat, NEW n \in Nat, NEW d \in Nat \ {0},
           n > 2 * d, i * d <= k * n + d
    PROVE  LET bytes == ((k + 1) * n) \div d - i
               w == bytes + (bytes % 2)
           IN  /\ w \in Int /\ w > 0
               /\ (i + w) * d <= (k + 1) * n + d
               /\ (i + w) * d > (k + 1) * n - d
  <1> DEFINE a == (k + 1) * n
             q == a \div d
             bytes == q - i
             w == bytes + (bytes % 2)
  <1>1. a \in Nat /\ a = k * n + n
    OBVIOUS
  <1>2. q \in Nat /\ q * d <= a /\ a < q * d + d
    BY <1>1, DivFloor
  <1> HIDE DEF a, q
  <1>3. bytes \in Int /\ (w = bytes \/ w = bytes + 1)
    BY <1>2
  <1>4. bytes > 0
    <2>1. SUFFICES ASSUME q <= i PROVE FALSE
      BY <1>2
    <2>2. q * d <= i * d
      BY <1>2, <2>1, MulMono
    <2>3. q * d > k * n + n - d
      BY <1>1, <1>2
    <2>4. k * n \in Nat /\ q * d \in Nat /\ i * d \in Nat
      BY <1>2
    <2> QED
      BY <2>2, <2>3, <2>4
  <1>5. i + w = q \/ i + w = q + 1
    BY <1>2, <1>3
  <1>6. (q + 1) * d = q * d + d
    BY <1>2
  <1>7. q * d \in Nat
    BY <1>2
  <1>8. (i + w) * d <= a + d /\ (i + w) * d > a - d
    <2>1. CASE i + w = q
      BY <1>1, <1>2, <1>7, <2>1
    <2>2. CASE i + w = q + 1
      BY <1>1, <1>2, <1>6, <1>7, <2>2
    <2> QED
      BY <1>5, <2>1, <2>2
  <1> QED
    BY <1>3, <1>4, <1>8 DEF a, q

\* What was asked for less at most delta is handed on: still not ahead, and not
\* more than delta and a byte behind.
LEMMA HandedOn ==
    ASSUME NEW i \in Nat, NEW w \in Nat, NEW b \in 0..w, NEW delta \in Nat,
           NEW d \in Nat \ {0}, NEW due \in Int,
           (i + w) * d <= due + d, (i + w) * d > due - d
    PROVE  /\ (i + b) * d <= due + d
           /\ b + delta >= w => (i + b) * d > due - (1 + delta) * d
  <1>1. (i + b) * d <= (i + w) * d
    BY MulMono
  <1>2. (i + b) * d \in Int /\ (i + w) * d \in Int
    OBVIOUS
  <1>3. ASSUME b + delta >= w
        PROVE  (i + b) * d > due - (1 + delta) * d
    <2>1. (i + w) * d <= (i + b + delta) * d
      BY <1>3, MulMono
    <2>2. (i + b + delta) * d = (i + b) * d + delta * d
      OBVIOUS
    <2>3. (1 + delta) * d = d + delta * d
      OBVIOUS
    <2>4. delta * d \in Int
      OBVIOUS
    <2> QED
      BY <1>2, <2>1, <2>2, <2>3, <2>4
  <1> QED
    BY <1>1, <1>2, <1>3

\* Bytes that do not yet serve the request are less than a frame and a byte.
LEMMA LessThanFrame ==
    ASSUME NEW i \in Nat, NEW w \in Nat, NEW k \in Nat, NEW n \in Nat,
           NEW d \in Nat \ {0}, NEW delta \in Nat, NEW b \in Nat,
           (i + w) * d <= (k + 1) * n + d, i * d > k * n - (1 + delta) * d,
           b + delta < w
    PROVE  (b - 1) * d < n
  <1>1. (b + delta + 1) * d <= w * d
    BY MulMono
  <1>2. (b + delta + 1) * d = (b - 1) * d + (2 + delta) * d
    OBVIOUS
  <1>3. (2 + delta) * d = (1 + delta) * d + d
    OBVIOUS
  <1>4. (i + w) * d = i * d + w * d
    OBVIOUS
  <1>5. (k + 1) * n = k * n + n
    OBVIOUS
  <1>6. /\ (b - 1) * d \in Int /\ w * d \in Int /\ i * d \in Int
        /\ k * n \in Int /\ (1 + delta) * d \in Int
    OBVIOUS
  <1> QED
    BY <1>1, <1>2, <1>3, <1>4, <1>5, <1>6

-----------------------------------------------------------------------------
(* The inductive invariant, in parts.                                        *)

num == audio_per_frame_num
den == audio_per_frame_den

\* Only a raw mainaudio asks for frames of audio
ModeInv == pc \in {"want", "take"} => opt.main = "audio"

\* The frame asked for is never empty, and with it this call has handed on
\* what is due, a byte more or less
WantedInv ==
    opt.main = "audio" /\ pc \in {"read", "take"} =>
        /\ wanted > 0
        /\ (recv_audio_bytes_i + wanted) * den <= (recv_frames + 1) * num + den
        /\ (recv_audio_bytes_i + wanted) * den > (recv_frames + 1) * num - den

\* This call is never more than a byte ahead
Ahead == recv_audio_bytes_i * den <= recv_frames * num + den

\* Reading goes on while, and only while, the frame asked for is not there
StopInv ==
    opt.main = "audio" =>
        /\ pc = "read" => audio_size + AUDIO_DELTA < wanted
        /\ pc = "take" => audio_size + AUDIO_DELTA >= wanted \/ pos = Len(source)

RateInv == ModeInv /\ WantedInv /\ Ahead /\ StopInv /\ Pace /\ SwitchLoss

\* What is buffered is of the current product, which is the last one named
OwnInv ==
    /\ pos < Len(source) => Current(pos, product_id)
    /\ \A i \in 1..Len(rawAudio) : Current(rawAudio[i], product_id)

-----------------------------------------------------------------------------
(* The next packet, the buffer after a switch and the audio of a packet.     *)

\* The packet that is read next is one of the source.
LEMMA NextPacket ==
    ASSUME TypeOK, pos < sent, RawFeedAssumption
    PROVE  next \in Packet /\ pos + 1 \in 1..Len(source)
  BY DEF TypeOK, next, RawFeedAssumption

\* The audio of packet q is len bytes.
LEMMA AudioBytes ==
    ASSUME NEW q \in Nat, NEW len \in Nat
    PROVE  /\ [i \in 1..len |-> q] \in Seq(Nat)
           /\ Len([i \in 1..len |-> q]) = len
  OBVIOUS

\* A buffer cut after its first n bytes: the frame and what is left (memmove).
LEMMA CutSeq ==
    ASSUME NEW s \in Seq(Nat), NEW n \in 0..Len(s)
    PROVE  /\ SubSeq(s, 1, n) \in Seq(Nat)
           /\ Len(SubSeq(s, 1, n)) = n
           /\ \A i \in 1..n : SubSeq(s, 1, n)[i] = s[i]
           /\ SubSeq(s, n + 1, Len(s)) \in Seq(Nat)
           /\ Len(SubSeq(s, n + 1, Len(s))) = Len(s) - n
           /\ \A i \in 1..Len(s) - n : SubSeq(s, n + 1, Len(s))[i] = s[i + n]
  <1>1. Len(s) \in Nat /\ n \in Nat /\ n <= Len(s)
    OBVIOUS
  <1>2. /\ SubSeq(s, 1, n) \in Seq(Nat) /\ Len(SubSeq(s, 1, n)) = n
        /\ \A i \in 1..n : SubSeq(s, 1, n)[i] = s[i]
    BY <1>1
  <1>3. Len(SubSeq(s, n + 1, Len(s))) = Len(s) - n
    BY <1>1
  <1>4. SubSeq(s, n + 1, Len(s)) \in Seq(Nat)
    BY <1>1
  <1>5. \A i \in 1..Len(s) - n : SubSeq(s, n + 1, Len(s))[i] = s[i + n]
    BY <1>1
  <1> QED
    BY <1>2, <1>3, <1>4, <1>5

\* After a switch the buffer is as it was or empty, and then noted as discarded.
LEMMA SwitchType ==
    ASSUME TypeOK, pos < sent, RawFeedAssumption, Switch, next.type \in AudioTypes
    PROVE  /\ product_id' \in Nat
           /\ drops' \in Seq(Seq(Nat))
           /\ Kept \in Seq(Nat)
           /\ Kept = << >> \/ Kept = rawAudio
           /\ Len(Kept) \in 0..Len(rawAudio)
           /\ Kept # << >> => product_id' = product_id
           /\ drops' = drops \/ drops' = Append(drops, rawAudio)
  <1>1. next \in Packet
    BY NextPacket
  <1>2. product_id' \in Nat
    BY <1>1 DEF Switch, NextProduct, TypeOK, Packet, AudioTypes
  <1>3. drops' \in Seq(Seq(Nat)) /\ (drops' = drops \/ drops' = Append(drops, rawAudio))
    BY DEF Switch, TypeOK
  <1>4. product_id' # product_id => drops' # drops
    BY DEF Switch, TypeOK
  <1>5. Kept = << >> \/ Kept = rawAudio
    BY DEF Kept
  <1>6. Kept \in Seq(Nat) /\ Len(Kept) \in 0..Len(rawAudio)
    <2>1. CASE Kept = << >>
      BY <2>1 DEF TypeOK
    <2>2. CASE Kept = rawAudio
      BY <2>2 DEF TypeOK
    <2> QED
      BY <1>5, <2>1, <2>2
  <1>7. Kept # << >> => product_id' = product_id
    BY <1>4 DEF Kept
  <1> QED
    BY <1>2, <1>3, <1>5, <1>6, <1>7

\* Every step of the readers and of their neighbours keeps the types.
LEMMA TypeStep ==
    ASSUME TypeOK, RateInv, [Next]_vars, RawFeedAssumption
    PROVE  TypeOK'
  <1> USE DEF inputs, audioVars, paceVars, pollVars, endVars
  <1>1. CASE Call
    BY <1>1 DEF Call, TypeOK
  <1>2. CASE CacheMore
    <2>1. (audio_size * audio_per_frame_den) \div audio_per_frame_num \in Nat
      <3>1. audio_size * audio_per_frame_den \in Nat
        BY DEF audio_size, TypeOK, RawFeedAssumption
      <3>2. audio_per_frame_num \in Nat \ {0}
        <4>1. (AUDIO_DELTA + 2) * audio_per_frame_den >= 0
          BY DEF RawFeedAssumption
        <4> QED
          BY <4>1 DEF RawFeedAssumption
      <3> QED
        BY <3>1, <3>2, DivFloor
    <2>2. avail_frames' \in Nat
      BY <1>2, <2>1 DEF CacheMore, TypeOK
    <2> QED
      BY <1>2, <2>2 DEF CacheMore, TypeOK
  <1>3. CASE Want
    <2>1. NextWanted \in Int
      <3>1. (recv_frames + 1) * audio_per_frame_num \in Nat
        BY DEF TypeOK, RawFeedAssumption
      <3>2. ((recv_frames + 1) * audio_per_frame_num) \div audio_per_frame_den \in Nat
        BY <3>1, DivFloor DEF RawFeedAssumption
      <3> QED
        BY <3>2 DEF NextWanted, TypeOK
    <2> QED
      BY <1>3, <2>1 DEF Want, TypeOK
  <1>4. CASE Take
    <2> DEFINE n == IF wanted > audio_size THEN audio_size ELSE wanted
               frame == [video |-> 0, audio |-> SubSeq(rawAudio, 1, n),
                         product_id |-> product_id]
    <2>1. n \in 0..Len(rawAudio)
      BY <1>4 DEF Take, TypeOK, RateInv, ModeInv, WantedInv, audio_size
    <2>2. /\ SubSeq(rawAudio, 1, n) \in Seq(Nat)
          /\ Leftover(n) \in Seq(Nat)
      <3> HIDE DEF n
      <3> QED
        BY <2>1, CutSeq DEF TypeOK, Leftover, audio_size
    <2>3. frame \in Frame
      BY <2>2 DEF Frame, TypeOK
    <2>4. out' \in Seq(Frame) /\ popped \in 0..Len(out')
      BY <1>4, <2>3 DEF Take, TypeOK
    <2>5. avail_frames' \in Nat
      BY <1>4 DEF Take, TypeOK
    <2>6. recv_audio_bytes_i' \in Nat /\ recv_frames' \in Nat
      BY <1>4, <2>1 DEF Take, Received, TypeOK
    <2>7. pc' \in {"call", "loop", "want"} /\ bEOF' \in BOOLEAN /\ rawAudio' \in Seq(Nat)
      BY <1>4, <2>2 DEF Take
    <2> QED
      BY <1>4, <2>4, <2>5, <2>6, <2>7 DEF Take, TypeOK
  <1>5. CASE ReadAudio
    <2>1. pos < sent /\ Switch /\ next.type \in AudioTypes
      BY <1>5 DEF ReadAudio, Whole
    <2>2. next \in Packet
      BY <2>1, NextPacket
    <2>3. [i \in 1..next.len |-> pos + 1] \in Seq(Nat)
      <3>1. next.len \in Nat /\ pos + 1 \in Nat
        BY <2>2 DEF Packet, TypeOK
      <3> QED
        BY <3>1, AudioBytes
    <2>4. Kept \in Seq(Nat) /\ product_id' \in Nat /\ drops' \in Seq(Seq(Nat))
      BY <2>1, SwitchType
    <2>5. rawAudio' \in Seq(Nat)
      BY <1>5, <2>3, <2>4 DEF ReadAudio
    <2>6. capacity' \in Nat
      BY <1>5 DEF ReadAudio, TypeOK, RawFeedAssumption
    <2> QED
      BY <1>5, <2>1, <2>4, <2>5, <2>6 DEF ReadAudio, TypeOK, Came
  <1>6. CASE ReadBadLength
    <2>1. Kept \in Seq(Nat) /\ product_id' \in Nat /\ drops' \in Seq(Seq(Nat))
      BY <1>6, SwitchType DEF ReadBadLength
    <2> QED
      BY <1>6, <2>1 DEF ReadBadLength, TypeOK, Came, Fail
  <1>7. CASE ReadBad
    BY <1>7 DEF ReadBad, TypeOK, Came, Fail
  <1>8. CASE DiscardVideo
    BY <1>8 DEF DiscardVideo, TypeOK, Came, Whole
  <1>9. CASE ReadVideo
    <2>1. [video |-> pos', audio |-> rawAudio, product_id |-> product_id] \in Frame
      BY <1>9 DEF ReadVideo, TypeOK, Frame
    <2>2. out' \in Seq(Frame) /\ popped \in 0..Len(out')
      BY <1>9, <2>1 DEF ReadVideo, TypeOK
    <2>3. rawAudio' \in Seq(Nat)
      BY <1>9 DEF ReadVideo
    <2> QED
      BY <1>9, <2>2, <2>3 DEF ReadVideo, TypeOK, Came, Whole
  <1>10. CASE ReadEOF
    BY <1>10 DEF ReadEOF, TypeOK, EndOfFile
  <1>11. CASE ReadCut
    <2>1. /\ product_id' \in Nat /\ drops' \in Seq(Seq(Nat))
          /\ rawAudio' \in Seq(Nat) /\ capacity' \in Nat
      <3>1. CASE UNCHANGED audioVars
        BY <3>1 DEF TypeOK
      <3>2. CASE /\ next.type \in AudioTypes /\ Switch /\ rawAudio' = Kept
                 /\ capacity' = capacity + (IF next.len + Len(Kept) > capacity THEN Chunk ELSE 0)
        BY <1>11, <3>2, SwitchType DEF ReadCut, Cut, TypeOK, RawFeedAssumption
      <3> QED
        BY <1>11, <3>1, <3>2 DEF ReadCut
    <2>2. pc' \in {"call", "take"} /\ bEOF' \in BOOLEAN
      BY <1>11 DEF ReadCut, EndOfFile, TypeOK
    <2> QED
      BY <1>11, <2>1, <2>2 DEF ReadCut, TypeOK, Cut
  <1>12. CASE ReadError
    BY <1>12 DEF ReadError, TypeOK, Fail
  <1>13. CASE Poll
    BY <1>13 DEF Poll, TypeOK, Fail
  <1>14. CASE Send
    BY <1>14 DEF Send, TypeOK
  <1>15. CASE Pop
    BY <1>15 DEF Pop, TypeOK, queueSize
  <1>16. CASE UNCHANGED vars
    BY <1>16 DEF vars, TypeOK
  <1> QED
    BY <1>1, <1>2, <1>3, <1>4, <1>5, <1>6, <1>7, <1>8, <1>9, <1>10, <1>11, <1>12,
       <1>13, <1>14, <1>15, <1>16 DEF Next, Reader

-----------------------------------------------------------------------------
(* The pace of the audio and what a switch costs.                            *)

\* A frame of audio is more than two bytes.
LEMMA FrameSize ==
    ASSUME RawFeedAssumption
    PROVE  /\ num \in Nat /\ den \in Nat \ {0} /\ num > 2 * den
           /\ AUDIO_DELTA \in Nat /\ (1 + AUDIO_DELTA) * den > 0
  <1>1. (AUDIO_DELTA + 2) * den = AUDIO_DELTA * den + 2 * den
    BY DEF RawFeedAssumption, den
  <1>2. AUDIO_DELTA * den >= 0 /\ AUDIO_DELTA * den \in Int
    BY DEF RawFeedAssumption, den
  <1>3. (1 + AUDIO_DELTA) * den = den + AUDIO_DELTA * den
    BY DEF RawFeedAssumption, den
  <1> QED
    BY <1>1, <1>2, <1>3 DEF RawFeedAssumption, num, den

\* A switch while a packet is read discards less than a frame of audio.
LEMMA SwitchCost ==
    ASSUME TypeOK, RateInv, RawFeedAssumption, pc = "read", pos < sent,
           next.type \in AudioTypes, Switch, UNCHANGED opt
    PROVE  SwitchLoss'
  <1>1. SUFFICES ASSUME opt.main = "audio"
                 PROVE  \A k \in 1..Len(drops') : (Len(drops'[k]) - 1) * den < num
    BY DEF SwitchLoss, num, den
  <1>2. \A k \in 1..Len(drops) : (Len(drops[k]) - 1) * den < num
    BY <1>1 DEF RateInv, SwitchLoss, num, den
  <1>3. drops \in Seq(Seq(Nat)) /\ rawAudio \in Seq(Nat)
    BY DEF TypeOK
  <1>4. (Len(rawAudio) - 1) * den < num
    <2>1. /\ wanted \in Nat
          /\ (recv_audio_bytes_i + wanted) * den <= (recv_frames + 1) * num + den
      BY <1>1 DEF RateInv, WantedInv, TypeOK
    <2>2. Len(rawAudio) + AUDIO_DELTA < wanted
      BY <1>1 DEF RateInv, StopInv, audio_size
    <2>3. recv_audio_bytes_i * den > recv_frames * num - (1 + AUDIO_DELTA) * den
      BY <1>1 DEF RateInv, Pace, TypeOK, num, den
    <2>4. recv_audio_bytes_i \in Nat /\ recv_frames \in Nat /\ Len(rawAudio) \in Nat
      BY DEF TypeOK
    <2> QED
      BY <2>1, <2>2, <2>3, <2>4, FrameSize, LessThanFrame
  <1>5. CASE drops' = drops
    BY <1>2, <1>5
  <1>6. CASE drops' = Append(drops, rawAudio)
    <2>1. TAKE k \in 1..Len(drops')
    <2>2. CASE k \in 1..Len(drops)
      <3>1. drops'[k] = drops[k]
        BY <1>3, <1>6, <2>2
      <3> QED
        BY <1>2, <2>2, <3>1
    <2>3. CASE k = Len(drops) + 1
      <3>1. drops'[k] = rawAudio
        BY <1>3, <1>6, <2>3
      <3> QED
        BY <1>4, <3>1
    <2> QED
      BY <1>3, <1>6, <2>1, <2>2, <2>3
  <1> QED
    BY <1>5, <1>6, SwitchType

\* Every step keeps the pace and the bound on what a switch costs.
LEMMA RateStep ==
    ASSUME TypeOK, RateInv, [Next]_vars, RawFeedAssumption
    PROVE  RateInv'
  <1> USE DEF inputs, audioVars, paceVars, pollVars, endVars
  <1>0. /\ opt.main \in {"video", "audio"}
        /\ recv_audio_bytes_i \in Nat /\ recv_frames \in Nat
        /\ pos \in Nat /\ pos <= sent /\ sent \in Nat /\ sent <= Len(source)
        /\ Len(source) \in Nat
    BY DEF TypeOK, RawFeedAssumption, Option
  <1>1. CASE Call
    <2>1. 0 * den = 0 /\ 0 * num = 0
      BY FrameSize
    <2>2. Ahead' /\ Pace'
      BY <1>1, <2>1, FrameSize DEF Call, Ahead, Pace, num, den
    <2> QED
      BY <1>1, <2>2 DEF Call, RateInv, ModeInv, WantedInv, StopInv, SwitchLoss
  <1>2. CASE CacheMore
    <2>1. ModeInv' /\ WantedInv' /\ StopInv'
      BY <1>0, <1>2 DEF CacheMore, ModeInv, WantedInv, StopInv
    <2> QED
      BY <1>2, <2>1 DEF CacheMore, RateInv, Ahead, Pace, SwitchLoss
  <1>3. CASE Want
    <2>1. /\ NextWanted \in Int /\ NextWanted > 0
          /\ (recv_audio_bytes_i + NextWanted) * den <= (recv_frames + 1) * num + den
          /\ (recv_audio_bytes_i + NextWanted) * den > (recv_frames + 1) * num - den
      BY <1>0, FrameSize, Rounded DEF RateInv, Ahead, NextWanted, num, den
    <2>2. WantedInv'
      BY <1>3, <2>1 DEF Want, WantedInv
    <2>3. StopInv' /\ ModeInv'
      BY <1>3, <2>1 DEF Want, StopInv, audio_size, RateInv, ModeInv, TypeOK, RawFeedAssumption
    <2> QED
      BY <1>3, <2>2, <2>3 DEF Want, RateInv, Ahead, Pace, SwitchLoss
  <1>4. CASE Take
    <2> DEFINE n == IF wanted > audio_size THEN audio_size ELSE wanted
    <2>1. opt.main = "audio" /\ wanted \in Nat /\ wanted > 0
      BY <1>4 DEF Take, RateInv, ModeInv, WantedInv, TypeOK
    <2>2. n \in 0..wanted
      BY <2>1 DEF audio_size, TypeOK
    <2>3. /\ (recv_audio_bytes_i + wanted) * den <= (recv_frames + 1) * num + den
          /\ (recv_audio_bytes_i + wanted) * den > (recv_frames + 1) * num - den
      BY <1>4, <2>1 DEF Take, RateInv, WantedInv
    <2>4. (recv_frames + 1) * num \in Int
      BY <1>0, FrameSize
    <2>5. /\ (recv_audio_bytes_i + n) * den <= (recv_frames + 1) * num + den
          /\ n + AUDIO_DELTA >= wanted =>
                (recv_audio_bytes_i + n) * den
                    > (recv_frames + 1) * num - (1 + AUDIO_DELTA) * den
      <3> HIDE DEF n
      <3> QED
        BY <1>0, <2>1, <2>2, <2>3, <2>4, FrameSize, HandedOn
    <2>6. pos < Len(source) => n + AUDIO_DELTA >= wanted
      BY <1>4, <2>1 DEF Take, RateInv, StopInv, audio_size, TypeOK, RawFeedAssumption
    <2>7. recv_audio_bytes_i' = recv_audio_bytes_i + n /\ recv_frames' = recv_frames + 1
      BY <1>4 DEF Take, Received
    <2>8. Ahead' /\ Pace'
      <3> HIDE DEF n
      <3>1. Ahead'
        BY <2>5, <2>7 DEF Ahead, den, num
      <3>2. Pace'
        BY <1>4, <2>5, <2>6, <2>7 DEF Take, Pace, den, num
      <3> QED
        BY <3>1, <3>2
    <2>9. ModeInv' /\ WantedInv' /\ StopInv'
      BY <1>4, <2>1 DEF Take, ModeInv, WantedInv, StopInv
    <2> QED
      BY <1>4, <2>8, <2>9 DEF Take, RateInv, SwitchLoss
  <1>5. CASE ReadAudio
    <2>1. SwitchLoss'
      BY <1>5, SwitchCost DEF ReadAudio, Whole
    <2>2. pc = "read" /\ pc' \in {"read", "take"} /\ pos' = pos + 1
      BY <1>5 DEF ReadAudio
    <2>3. ModeInv' /\ WantedInv'
      BY <1>5, <2>2 DEF ReadAudio, RateInv, ModeInv, WantedInv
    <2>4. StopInv'
      <3>1. Len(rawAudio') \in Nat
        BY TypeStep DEF TypeOK
      <3>2. /\ opt' = opt /\ wanted' = wanted /\ wanted \in Int /\ AUDIO_DELTA \in Nat
            /\ pc' = IF opt.main = "audio" /\ Len(rawAudio') + AUDIO_DELTA >= wanted
                     THEN "take" ELSE "read"
        BY <1>5 DEF ReadAudio, TypeOK, RawFeedAssumption
      <3> QED
        BY <3>1, <3>2 DEF StopInv, audio_size
    <2>5. Ahead' /\ Pace'
      BY <1>0, <1>5 DEF ReadAudio, RateInv, Ahead, Pace
    <2> QED
      BY <2>1, <2>3, <2>4, <2>5 DEF RateInv
  <1>6. CASE ReadBadLength
    <2>1. SwitchLoss'
      BY <1>6, SwitchCost DEF ReadBadLength
    <2>2. Ahead' /\ Pace'
      BY <1>0, <1>6 DEF ReadBadLength, RateInv, Ahead, Pace
    <2>3. ModeInv' /\ WantedInv' /\ StopInv'
      BY <1>6 DEF ReadBadLength, Fail, ModeInv, WantedInv, StopInv
    <2> QED
      BY <2>1, <2>2, <2>3 DEF RateInv
  <1>7. CASE ReadBad
    <2>1. Ahead' /\ Pace'
      BY <1>0, <1>7 DEF ReadBad, RateInv, Ahead, Pace
    <2> QED
      BY <1>7, <2>1 DEF ReadBad, Fail, RateInv, ModeInv, WantedInv, StopInv, SwitchLoss
  <1>8. CASE DiscardVideo
    <2>1. Ahead' /\ Pace'
      BY <1>0, <1>8 DEF DiscardVideo, RateInv, Ahead, Pace
    <2>2. ModeInv' /\ WantedInv' /\ SwitchLoss'
      BY <1>8 DEF DiscardVideo, RateInv, ModeInv, WantedInv, SwitchLoss
    <2>3. StopInv'
      BY <1>8 DEF DiscardVideo, RateInv, StopInv, audio_size
    <2> QED
      BY <2>1, <2>2, <2>3 DEF RateInv
  <1>9. CASE ReadVideo
    <2>1. Ahead' /\ Pace'
      BY <1>0, <1>9 DEF ReadVideo, RateInv, Ahead, Pace
    <2> QED
      BY <1>9, <2>1 DEF ReadVideo, RateInv, ModeInv, WantedInv, StopInv, SwitchLoss
  <1>10. CASE ReadEOF
    <2>1. ModeInv' /\ WantedInv' /\ StopInv'
      BY <1>0, <1>10 DEF ReadEOF, EndOfFile, RateInv, ModeInv, WantedInv, StopInv
    <2> QED
      BY <1>10, <2>1 DEF ReadEOF, RateInv, Ahead, Pace, SwitchLoss
  <1>11. CASE ReadCut
    <2>1. SwitchLoss'
      <3>1. CASE UNCHANGED audioVars
        BY <1>11, <3>1 DEF ReadCut, RateInv, SwitchLoss
      <3>2. CASE next.type \in AudioTypes /\ Switch
        BY <1>11, <3>2, SwitchCost DEF ReadCut, Cut
      <3> QED
        BY <1>11, <3>1, <3>2 DEF ReadCut
    <2>2. pos' = Len(source')
      BY <1>11 DEF ReadCut, Cut
    <2>3. ModeInv' /\ WantedInv' /\ StopInv'
      BY <1>0, <1>11, <2>2 DEF ReadCut, EndOfFile, RateInv, ModeInv, WantedInv, StopInv
    <2>4. Ahead' /\ Pace'
      BY <1>0, <1>11 DEF ReadCut, RateInv, Ahead, Pace
    <2> QED
      BY <2>1, <2>3, <2>4 DEF RateInv
  <1>12. CASE ReadError
    BY <1>12 DEF ReadError, Fail, RateInv, ModeInv, WantedInv, StopInv, Ahead, Pace, SwitchLoss
  <1>13. CASE Poll
    <2>1. pc' = pc \/ pc' = "done"
      BY <1>13 DEF Poll, Fail
    <2>2. ModeInv' /\ WantedInv' /\ StopInv'
      BY <1>13, <2>1 DEF Poll, RateInv, ModeInv, WantedInv, StopInv, audio_size
    <2> QED
      BY <1>13, <2>2 DEF Poll, RateInv, Ahead, Pace, SwitchLoss
  <1>14. CASE Send
    BY <1>14 DEF Send, RateInv, ModeInv, WantedInv, StopInv, Ahead, Pace, SwitchLoss, audio_size
  <1>15. CASE Pop
    BY <1>15 DEF Pop, RateInv, ModeInv, WantedInv, StopInv, Ahead, Pace, SwitchLoss, audio_size
  <1>16. CASE UNCHANGED vars
    BY <1>16 DEF vars, RateInv, ModeInv, WantedInv, StopInv, Ahead, Pace, SwitchLoss, audio_size
  <1> QED
    BY <1>1, <1>2, <1>3, <1>4, <1>5, <1>6, <1>7, <1>8, <1>9, <1>10, <1>11, <1>12,
       <1>13, <1>14, <1>15, <1>16 DEF Next, Reader

-----------------------------------------------------------------------------
(* The bounds of the buffer.                                                 *)

\* Every step keeps the audio within the buffer.
LEMMA BufferStep ==
    ASSUME TypeOK, RateInv, BufferFits, [Next]_vars, RawFeedAssumption
    PROVE  BufferFits'
  <1> USE DEF inputs, audioVars, paceVars, pollVars, endVars
  <1>0. Len(rawAudio) <= capacity /\ Len(rawAudio) \in Nat /\ capacity \in Nat
    BY DEF BufferFits, audio_size, TypeOK
  <1>1. CASE Take
    <2> DEFINE n == IF wanted > audio_size THEN audio_size ELSE wanted
    <2>1. n \in 0..Len(rawAudio)
      BY <1>1 DEF Take, TypeOK, RateInv, ModeInv, WantedInv, audio_size
    <2>2. Len(Leftover(n)) <= Len(rawAudio)
      <3> HIDE DEF n
      <3>1. Len(Leftover(n)) = Len(rawAudio) - n
        BY <2>1, CutSeq DEF Leftover, audio_size, TypeOK
      <3> QED
        BY <1>0, <2>1, <3>1
    <2> QED
      BY <1>0, <1>1, <2>2 DEF Take, BufferFits, audio_size
  <1>2. CASE ReadAudio
    <2>1. pos < sent /\ Switch /\ next.type \in AudioTypes /\ next.len \in 1..Chunk
      BY <1>2 DEF ReadAudio, Whole, LengthOK
    <2>2. Kept \in Seq(Nat) /\ Len(Kept) <= capacity /\ Len(Kept) \in Nat
      BY <1>0, <2>1, SwitchType
    <2>3. Chunk \in Nat /\ pos + 1 \in Nat /\ next.len \in Nat
      BY <2>1 DEF RawFeedAssumption, TypeOK
    <2>4. /\ [i \in 1..next.len |-> pos + 1] \in Seq(Nat)
          /\ Len([i \in 1..next.len |-> pos + 1]) = next.len
      BY <2>3, AudioBytes
    <2>5. Len(rawAudio') = Len(Kept) + next.len
      <3> DEFINE bytes == [i \in 1..next.len |-> pos + 1]
      <3>1. rawAudio' = Kept \o bytes
        BY <1>2 DEF ReadAudio
      <3> HIDE DEF bytes
      <3>2. bytes \in Seq(Nat) /\ Len(bytes) = next.len
        BY <2>4 DEF bytes
      <3> QED
        BY <2>2, <3>1, <3>2
    <2>6. capacity' = capacity + (IF next.len + Len(Kept) > capacity THEN Chunk ELSE 0)
      BY <1>2 DEF ReadAudio
    <2> QED
      BY <1>0, <2>1, <2>2, <2>3, <2>5, <2>6 DEF BufferFits, audio_size
  <1>3. CASE ReadBadLength
    <2>1. Len(Kept) <= capacity
      BY <1>0, <1>3, SwitchType DEF ReadBadLength
    <2> QED
      BY <1>3, <2>1 DEF ReadBadLength, BufferFits, audio_size
  <1>4. CASE ReadVideo
    BY <1>0, <1>4 DEF ReadVideo, BufferFits, audio_size
  <1>5. CASE ReadCut
    <2>1. CASE UNCHANGED audioVars
      BY <1>0, <2>1 DEF BufferFits, audio_size
    <2>2. CASE /\ next.type \in AudioTypes /\ Switch /\ rawAudio' = Kept
               /\ capacity' = capacity + (IF next.len + Len(Kept) > capacity THEN Chunk ELSE 0)
      <3>1. Len(Kept) <= capacity /\ Len(Kept) \in Nat
        BY <1>0, <1>5, <2>2, SwitchType DEF ReadCut, Cut
      <3>2. capacity' >= capacity
        BY <1>0, <2>2 DEF RawFeedAssumption
      <3>3. capacity' \in Nat
        BY TypeStep DEF TypeOK
      <3> QED
        BY <1>0, <2>2, <3>1, <3>2, <3>3 DEF BufferFits, audio_size
    <2> QED
      BY <1>5, <2>1, <2>2 DEF ReadCut
  <1>6. CASE UNCHANGED <<rawAudio, capacity>>
    BY <1>0, <1>6 DEF BufferFits, audio_size
  <1> QED
    BY <1>1, <1>2, <1>3, <1>4, <1>5, <1>6 DEF Next, Reader, Call, CacheMore, Want,
       ReadBad, DiscardVideo, ReadEOF, ReadError, Poll, Send, Pop, vars

-----------------------------------------------------------------------------
(* The product of the audio.                                                 *)

\* The next packet either names the current product or leaves it.
LEMMA CurrentNext ==
    ASSUME NEW s, NEW f, NEW n \in Nat, NEW p, CurrentIn(s, f, n, p)
    PROVE  /\ Names(s, f, n + 1) => CurrentIn(s, f, n + 1, Named(s, n + 1))
           /\ ~Names(s, f, n + 1) => CurrentIn(s, f, n + 1, p)
  <1>1. ASSUME Names(s, f, n + 1)
        PROVE  CurrentIn(s, f, n + 1, Named(s, n + 1))
    <2>1. n + 1 \in 1..(n + 1) /\ ((n + 1) + 1)..(n + 1) = {}
      OBVIOUS
    <2> QED
      BY <1>1, <2>1 DEF CurrentIn
  <1>2. ASSUME ~Names(s, f, n + 1)
        PROVE  CurrentIn(s, f, n + 1, p)
    <2>1. CASE p = 0 /\ \A i \in 1..n : ~Names(s, f, i)
      <3>1. \A i \in 1..(n + 1) : i \in 1..n \/ i = n + 1
        OBVIOUS
      <3> QED
        BY <1>2, <2>1, <3>1 DEF CurrentIn
    <2>2. CASE \E i \in 1..n : /\ Names(s, f, i) /\ Named(s, i) = p
                               /\ \A j \in (i + 1)..n : ~Names(s, f, j)
      <3>1. PICK i \in 1..n : /\ Names(s, f, i) /\ Named(s, i) = p
                              /\ \A j \in (i + 1)..n : ~Names(s, f, j)
        BY <2>2
      <3>2. \A j \in (i + 1)..(n + 1) : j \in (i + 1)..n \/ j = n + 1
        OBVIOUS
      <3>3. i \in 1..(n + 1)
        OBVIOUS
      <3> QED
        BY <1>2, <3>1, <3>2, <3>3 DEF CurrentIn
    <2> QED
      BY <2>1, <2>2 DEF CurrentIn
  <1> QED
    BY <1>1, <1>2

\* Frames that were handed on rightly tagged stay so.
LEMMA FramesKept ==
    ASSUME TagMatches, UNCHANGED <<opt, source, out>>
    PROVE  TagMatches'
  BY DEF TagMatches, Current, file

\* A buffer that is not touched stays of the current product.
LEMMA BufferKept ==
    ASSUME OwnInv, UNCHANGED <<opt, source, rawAudio, product_id>>
    PROVE  /\ \A i \in 1..Len(rawAudio') : Current(rawAudio[i], product_id)'
           /\ pos' = pos => OwnInv'
  BY DEF OwnInv, Current, file

\* A switch makes the product of the packet the current one and leaves nothing
\* of another product in the buffer.
LEMMA SwitchOwn ==
    ASSUME TypeOK, OwnInv, RawFeedAssumption, pos < sent,
           next.type \in AudioTypes, Switch
    PROVE  /\ CurrentIn(source, file, pos + 1, product_id')
           /\ \A i \in 1..Len(Kept) : CurrentIn(source, file, Kept[i], product_id')
  <1>1. pos \in Nat /\ CurrentIn(source, file, pos, product_id)
    BY DEF TypeOK, OwnInv, Current, RawFeedAssumption
  <1>2. CurrentIn(source, file, pos + 1, product_id')
    <2>1. CASE Names(source, file, pos + 1)
      <3>1. product_id' = Named(source, pos + 1)
        BY <2>1 DEF Switch, NextProduct, Names, Named, next, AudioTypes
      <3> QED
        BY <1>1, <2>1, <3>1, CurrentNext
    <2>2. CASE ~Names(source, file, pos + 1)
      <3>1. product_id' = product_id
        BY <2>2 DEF Switch, NextProduct, Names, next, AudioTypes
      <3> QED
        BY <1>1, <2>2, <3>1, CurrentNext
    <2> QED
      BY <2>1, <2>2
  <1>3. ASSUME NEW i \in 1..Len(Kept)
        PROVE  CurrentIn(source, file, Kept[i], product_id')
    <2>1. Kept # << >>
      BY <1>3
    <2>2. Kept = rawAudio /\ product_id' = product_id
      BY <2>1, SwitchType
    <2>3. CurrentIn(source, file, rawAudio[i], product_id)
      BY <1>3, <2>2 DEF OwnInv, Current
    <2> QED
      BY <2>2, <2>3
  <1> QED
    BY <1>2, <1>3

\* Every step keeps the buffer of one product and tags its frames with it.
LEMMA TagStep ==
    ASSUME TypeOK, RateInv, OwnInv, TagMatches, [Next]_vars, RawFeedAssumption
    PROVE  OwnInv' /\ TagMatches'
  <1> USE DEF inputs, audioVars, paceVars, pollVars, endVars
  <1>0. /\ pos \in Nat /\ sent <= Len(source) /\ sent \in Nat /\ Len(source) \in Nat
        /\ rawAudio \in Seq(Nat) /\ out \in Seq(Frame)
        /\ \A i \in 1..Len(rawAudio) : CurrentIn(source, file, rawAudio[i], product_id)
        /\ pos < Len(source) => CurrentIn(source, file, pos, product_id)
    BY DEF TypeOK, RawFeedAssumption, OwnInv, Current
  <1>1. CASE Take
    <2> DEFINE n == IF wanted > audio_size THEN audio_size ELSE wanted
               frame == [video |-> 0, audio |-> SubSeq(rawAudio, 1, n),
                         product_id |-> product_id]
    <2>1. n \in 0..Len(rawAudio)
      BY <1>1 DEF Take, TypeOK, RateInv, ModeInv, WantedInv, audio_size
    <2>2. /\ opt' = opt /\ source' = source /\ pos' = pos /\ product_id' = product_id
          /\ rawAudio' = SubSeq(rawAudio, n + 1, Len(rawAudio))
          /\ out' = out \/ out' = Append(out, frame)
      BY <1>1 DEF Take, Leftover, audio_size
    <2>3. \A i \in 1..Len(rawAudio') : rawAudio'[i] = rawAudio[i + n] /\ i + n \in 1..Len(rawAudio)
      <3> HIDE DEF n
      <3> QED
        BY <1>0, <2>1, <2>2, CutSeq
    <2>4. \A i \in 1..n : SubSeq(rawAudio, 1, n)[i] = rawAudio[i] /\ i \in 1..Len(rawAudio)
      <3> HIDE DEF n
      <3> QED
        BY <1>0, <2>1, CutSeq
    <2>5. Len(SubSeq(rawAudio, 1, n)) = n
      <3> HIDE DEF n
      <3> QED
        BY <1>0, <2>1, CutSeq
    <2>6. OwnInv'
      BY <1>0, <2>2, <2>3 DEF OwnInv, Current, file
    <2>7. TagMatches'
      <3>1. CASE out' = out
        BY <2>2, <3>1, FramesKept
      <3>2. CASE out' = Append(out, frame)
        <4>1. \A i \in 1..Len(frame.audio) :
                  CurrentIn(source, file, frame.audio[i], frame.product_id)
          BY <1>0, <2>4, <2>5
        <4> HIDE DEF frame
        <4>2. ASSUME NEW k \in 1..Len(out')
              PROVE  \A i \in 1..Len(out'[k].audio) :
                         CurrentIn(source, file, out'[k].audio[i], out'[k].product_id)
          <5>1. CASE k = Len(out) + 1
            BY <1>0, <3>2, <4>1, <5>1
          <5>2. CASE k \in 1..Len(out)
            <6>1. out'[k] = out[k]
              BY <1>0, <3>2, <5>2
            <6> QED
              BY <5>2, <6>1 DEF TagMatches, Current
          <5> QED
            BY <1>0, <3>2, <5>1, <5>2
        <4> QED
          BY <2>2, <4>2 DEF TagMatches, Current, file
      <3> QED
        BY <2>2, <3>1, <3>2
    <2> QED
      BY <2>6, <2>7
  <1>2. CASE ReadAudio
    <2> DEFINE bytes == [i \in 1..next.len |-> pos + 1]
    <2>1. pos < sent /\ Switch /\ next.type \in AudioTypes
      BY <1>2 DEF ReadAudio, Whole
    <2>2. /\ CurrentIn(source, file, pos + 1, product_id')
          /\ \A i \in 1..Len(Kept) : CurrentIn(source, file, Kept[i], product_id')
      BY <2>1, SwitchOwn
    <2>3. Kept \in Seq(Nat)
      BY <2>1, SwitchType
    <2>4. bytes \in Seq(Nat) /\ Len(bytes) = next.len /\ next.len \in Nat
      <3>1. next.len \in Nat /\ pos + 1 \in Nat
        <4>1. next \in Packet
          BY <2>1, NextPacket
        <4> QED
          BY <1>0, <4>1 DEF Packet
      <3> QED
        BY <3>1, AudioBytes
    <2>5. \A i \in 1..Len(bytes) : bytes[i] = pos + 1
      BY <2>4
    <2>6. rawAudio' = Kept \o bytes
      BY <1>2 DEF ReadAudio
    <2> HIDE DEF bytes
    <2>7. \A i \in 1..Len(rawAudio') :
              \/ i \in 1..Len(Kept) /\ rawAudio'[i] = Kept[i]
              \/ rawAudio'[i] = pos + 1
      BY <2>3, <2>4, <2>5, <2>6
    <2>8. \A i \in 1..Len(rawAudio') : CurrentIn(source, file, rawAudio'[i], product_id')
      BY <2>2, <2>7
    <2>9. opt' = opt /\ source' = source /\ pos' = pos + 1 /\ out' = out
      BY <1>2 DEF ReadAudio
    <2>10. OwnInv'
      BY <2>2, <2>8, <2>9 DEF OwnInv, Current, file
    <2> QED
      BY <2>9, <2>10, FramesKept
  <1>3. CASE ReadBadLength
    <2>1. /\ CurrentIn(source, file, pos + 1, product_id')
          /\ \A i \in 1..Len(Kept) : CurrentIn(source, file, Kept[i], product_id')
      BY <1>3, SwitchOwn DEF ReadBadLength
    <2>2. /\ opt' = opt /\ source' = source /\ pos' = pos + 1 /\ out' = out
          /\ rawAudio' = Kept
      BY <1>3 DEF ReadBadLength
    <2>3. OwnInv'
      BY <2>1, <2>2 DEF OwnInv, Current, file
    <2> QED
      BY <2>2, <2>3, FramesKept
  <1>4. CASE ReadBad \/ DiscardVideo
    <2>1. /\ opt' = opt /\ source' = source /\ pos' = pos + 1 /\ out' = out
          /\ rawAudio' = rawAudio /\ product_id' = product_id
          /\ pos < sent /\ next.type \in {"VIDEO", "BAD"}
      BY <1>4 DEF ReadBad, DiscardVideo, Whole
    <2>2. ~Names(source, file, pos + 1)
      BY <2>1 DEF Names, next
    <2>3. CurrentIn(source, file, pos + 1, product_id)
      BY <1>0, <2>1, <2>2, CurrentNext
    <2>4. OwnInv'
      BY <1>0, <2>1, <2>3 DEF OwnInv, Current, file
    <2> QED
      BY <2>1, <2>4, FramesKept
  <1>5. CASE ReadVideo
    <2> DEFINE frame == [video |-> pos', audio |-> rawAudio, product_id |-> product_id]
    <2>1. /\ opt' = opt /\ source' = source /\ pos' = pos + 1
          /\ rawAudio' = << >> /\ product_id' = product_id
          /\ out' = Append(out, frame)
          /\ pos < sent /\ next.type = "VIDEO"
      BY <1>5 DEF ReadVideo, Whole
    <2>2. ~Names(source, file, pos + 1)
      BY <2>1 DEF Names, next
    <2>3. CurrentIn(source, file, pos + 1, product_id)
      BY <1>0, <2>1, <2>2, CurrentNext
    <2>4. OwnInv'
      BY <2>1, <2>3 DEF OwnInv, Current, file
    <2>5. \A i \in 1..Len(frame.audio) :
              CurrentIn(source, file, frame.audio[i], frame.product_id)
      BY <1>0
    <2> HIDE DEF frame
    <2>6. ASSUME NEW k \in 1..Len(out')
          PROVE  \A i \in 1..Len(out'[k].audio) :
                     CurrentIn(source, file, out'[k].audio[i], out'[k].product_id)
      <3>1. CASE k = Len(out) + 1
        BY <1>0, <2>1, <2>5, <3>1
      <3>2. CASE k \in 1..Len(out)
        <4>1. out'[k] = out[k]
          BY <1>0, <2>1, <3>2
        <4> QED
          BY <3>2, <4>1 DEF TagMatches, Current
      <3> QED
        BY <1>0, <2>1, <3>1, <3>2
    <2>7. TagMatches'
      BY <2>1, <2>6 DEF TagMatches, Current, file
    <2> QED
      BY <2>4, <2>7
  <1>6. CASE ReadCut
    <2>1. opt' = opt /\ source' = source /\ out' = out /\ pos' = Len(source') /\ pos < sent
      BY <1>6 DEF ReadCut, Cut
    <2>2. \A i \in 1..Len(rawAudio') : CurrentIn(source, file, rawAudio'[i], product_id')
      <3>1. CASE UNCHANGED audioVars
        BY <1>0, <3>1
      <3>2. CASE next.type \in AudioTypes /\ Switch /\ rawAudio' = Kept
        BY <2>1, <3>2, SwitchOwn
      <3> QED
        BY <1>6, <3>1, <3>2 DEF ReadCut
    <2>3. OwnInv'
      BY <1>0, <2>1, <2>2 DEF OwnInv, Current, file
    <2> QED
      BY <2>1, <2>3, FramesKept
  <1>7. CASE UNCHANGED <<opt, source, pos, rawAudio, product_id, out>>
    BY <1>7, FramesKept, BufferKept
  <1> QED
    BY <1>1, <1>2, <1>3, <1>4, <1>5, <1>6, <1>7 DEF Next, Reader, Call, CacheMore,
       Want, ReadEOF, ReadError, Poll, Send, Pop, vars

-----------------------------------------------------------------------------
(* Giving up.                                                                *)

\* A read counts only polls since the last packet; a reader that gave up is done
PollInv ==
    /\ timeout <= idle
    /\ error = "timeout" => pc = "done" /\ idle > max_polls

\* Every step keeps the count of the polls.
LEMMA PollStep ==
    ASSUME TypeOK, PollInv, [Next]_vars, RawFeedAssumption
    PROVE  PollInv'
  <1> USE DEF inputs, audioVars, paceVars, pollVars, endVars
  <1>0. timeout \in Nat /\ idle \in Nat /\ max_polls \in Nat
    BY DEF TypeOK, RawFeedAssumption
  <1>1. CASE Poll
    <2>1. error # "timeout"
      BY <1>1 DEF Poll, PollInv
    <2> QED
      BY <1>0, <1>1, <2>1 DEF Poll, Fail, PollInv
  <1>2. CASE Call \/ CacheMore \/ Want
    BY <1>0, <1>2 DEF Call, CacheMore, Want, PollInv
  <1>3. CASE ReadAudio \/ ReadBadLength \/ ReadBad \/ DiscardVideo \/ ReadVideo
    <2>1. pc = "read" /\ timeout' = 0 /\ idle' = 0 /\ error' \in {error, "packet"}
      BY <1>3 DEF ReadAudio, ReadBadLength, ReadBad, DiscardVideo, ReadVideo, Came, Fail
    <2> QED
      BY <2>1 DEF PollInv
  <1>4. CASE Take \/ ReadEOF \/ ReadCut \/ ReadError
    <2>1. /\ pc \in {"read", "take"} /\ timeout' = timeout /\ idle' = idle
          /\ error' \in {error, "read"}
      BY <1>4 DEF Take, ReadEOF, ReadCut, ReadError, Fail
    <2> QED
      BY <2>1 DEF PollInv
  <1>5. CASE Send \/ Pop \/ UNCHANGED vars
    BY <1>5 DEF Send, Pop, vars, PollInv
  <1> QED
    BY <1>1, <1>2, <1>3, <1>4, <1>5 DEF Next, Reader

-----------------------------------------------------------------------------
(* Counting bytes.                                                          *)

\* The bytes of a packet in a buffer are counted by a number.
LEMMA OccursFacts ==
    ASSUME NEW s \in Seq(Nat), NEW q
    PROVE  /\ IsFiniteSet({i \in 1..Len(s) : s[i] = q})
           /\ Occurs(s, q) \in Nat
           /\ (\A i \in 1..Len(s) : s[i] # q) => Occurs(s, q) = 0
  <1> DEFINE A == {i \in 1..Len(s) : s[i] = q}
  <1>1. IsFiniteSet(1..Len(s))
    BY FS_Interval
  <1>2. A \in SUBSET (1..Len(s))
    OBVIOUS
  <1>3. IsFiniteSet(A)
    BY <1>1, <1>2, FS_Subset
  <1>4. Cardinality(A) \in Nat
    BY <1>3, FS_CardinalityType
  <1>5. (\A i \in 1..Len(s) : s[i] # q) => A = {}
    OBVIOUS
  <1>6. Cardinality({}) = 0
    BY FS_EmptySet
  <1> QED
    BY <1>3, <1>4, <1>5, <1>6 DEF Occurs

\* A finite set moved by n has as many elements.
LEMMA ShiftedSet ==
    ASSUME NEW B \in SUBSET Nat, IsFiniteSet(B), NEW n \in Nat
    PROVE  /\ IsFiniteSet({i + n : i \in B})
           /\ Cardinality({i + n : i \in B}) = Cardinality(B)
  <1> DEFINE C == {i + n : i \in B}
             f == [i \in B |-> i + n]
  <1>1. f \in [B -> C]
    OBVIOUS
  <1>2. \A c \in C : \E i \in B : f[i] = c
    OBVIOUS
  <1>3. \A i, j \in B : f[i] = f[j] => i = j
    <2> TAKE i, j \in B
    <2>1. i \in Nat /\ j \in Nat /\ f[i] = i + n /\ f[j] = j + n
      OBVIOUS
    <2> QED
      BY <2>1
  <1> HIDE DEF f, C
  <1>4. f \in Surjection(B, C)
    BY <1>1, <1>2 DEF Surjection
  <1>5. f \in Injection(B, C)
    BY <1>1, <1>3 DEF Injection, IsInjective
  <1>6. IsFiniteSet(C) /\ Cardinality(C) = Cardinality(B)
    BY <1>4, <1>5, FS_Surjection
  <1> QED
    BY <1>6 DEF C

\* Two sets without a common element are counted together by their sum.
LEMMA DisjointUnion ==
    ASSUME NEW A, IsFiniteSet(A), NEW B, IsFiniteSet(B), A \cap B = {}
    PROVE  /\ IsFiniteSet(A \cup B)
           /\ Cardinality(A \cup B) = Cardinality(A) + Cardinality(B)
           /\ Cardinality(A) \in Nat /\ Cardinality(B) \in Nat
  <1>1. Cardinality({}) = 0
    BY FS_EmptySet
  <1>2. Cardinality(A) \in Nat /\ Cardinality(B) \in Nat
    BY FS_CardinalityType
  <1>3. /\ IsFiniteSet(A \cup B)
        /\ Cardinality(A \cup B) = Cardinality(A) + Cardinality(B) - Cardinality(A \cap B)
    BY FS_Union
  <1>4. Cardinality(A \cap B) = 0
    BY <1>1
  <1> QED
    BY <1>2, <1>3, <1>4

\* What is put behind a buffer (memcpy) adds its bytes.
LEMMA OccursCat ==
    ASSUME NEW s \in Seq(Nat), NEW t \in Seq(Nat), NEW q
    PROVE  Occurs(s \o t, q) = Occurs(s, q) + Occurs(t, q)
  <1> DEFINE A == {i \in 1..Len(s) : s[i] = q}
             B == {i \in 1..Len(t) : t[i] = q}
             C == {i + Len(s) : i \in B}
             D == {i \in 1..Len(s \o t) : (s \o t)[i] = q}
  <1>1. /\ Len(s) \in Nat /\ Len(t) \in Nat /\ Len(s \o t) = Len(s) + Len(t)
        /\ \A i \in 1..Len(s) : (s \o t)[i] = s[i]
        /\ \A i \in 1..Len(t) : (s \o t)[i + Len(s)] = t[i]
    OBVIOUS
  <1>2. IsFiniteSet(A) /\ IsFiniteSet(B)
    BY OccursFacts
  <1>3. B \in SUBSET Nat
    OBVIOUS
  <1>4. IsFiniteSet(C) /\ Cardinality(C) = Cardinality(B)
    <2> HIDE DEF B
    <2> QED
      BY <1>1, <1>2, <1>3, ShiftedSet
  <1>5. D = A \cup C
    <2>1. ASSUME NEW i \in D
          PROVE  i \in A \cup C
      <3>1. CASE i <= Len(s)
        BY <1>1, <2>1, <3>1
      <3>2. CASE i > Len(s)
        <4>1. i - Len(s) \in 1..Len(t) /\ (i - Len(s)) + Len(s) = i
          BY <1>1, <2>1, <3>2
        <4>2. t[i - Len(s)] = q
          BY <1>1, <2>1, <4>1
        <4> QED
          BY <4>1, <4>2
      <3> QED
        BY <1>1, <3>1, <3>2
    <2>2. ASSUME NEW i \in A
          PROVE  i \in D
      BY <1>1
    <2>3. ASSUME NEW i \in B
          PROVE  i + Len(s) \in D
      BY <1>1
    <2> QED
      BY <2>1, <2>2, <2>3
  <1>6. A \cap C = {}
    BY <1>1
  <1> HIDE DEF A, B, C, D
  <1>7. Cardinality(D) = Cardinality(A) + Cardinality(C)
    BY <1>2, <1>4, <1>5, <1>6, DisjointUnion
  <1> QED
    BY <1>4, <1>7 DEF Occurs, A, B, D

\* All bytes of a packet's audio are its own.
LEMMA OccursBytes ==
    ASSUME NEW p \in Nat, NEW len \in Nat, NEW q
    PROVE  Occurs([i \in 1..len |-> p], q) = IF q = p THEN len ELSE 0
  <1> DEFINE b == [i \in 1..len |-> p]
  <1>1. b \in Seq(Nat) /\ Len(b) = len /\ \A i \in 1..len : b[i] = p
    OBVIOUS
  <1> HIDE DEF b
  <1>2. CASE q = p
    <2>1. {i \in 1..Len(b) : b[i] = q} = 1..len
      BY <1>1, <1>2
    <2>2. Cardinality(1..len) = len
      BY FS_Interval
    <2> QED
      BY <1>2, <2>1, <2>2 DEF Occurs, b
  <1>3. CASE q # p
    <2>1. Occurs(b, q) = 0
      BY <1>1, <1>3, OccursFacts
    <2> QED
      BY <1>3, <2>1 DEF b
  <1> QED
    BY <1>2, <1>3

-----------------------------------------------------------------------------

\* The bytes of packet q in a sequence of pieces, each with its place
Spread(pieces, q) ==
    UNION {{k} \X {i \in 1..Len(pieces[k]) : pieces[k][i] = q} : k \in 1..Len(pieces)}

\* A place is a piece and a position in it.
LEMMA SpreadPlaces ==
    ASSUME NEW pieces \in Seq(Seq(Nat)), NEW q, NEW x
    PROVE  x \in Spread(pieces, q) <=>
               \E k \in 1..Len(pieces) : \E i \in 1..Len(pieces[k]) :
                   pieces[k][i] = q /\ x = <<k, i>>
  BY DEF Spread

\* Finitely many pieces have finitely many bytes.
LEMMA SpreadFinite ==
    ASSUME NEW pieces \in Seq(Seq(Nat)), NEW q
    PROVE  IsFiniteSet(Spread(pieces, q)) /\ Total(pieces, q) \in Nat
  <1> DEFINE A(k) == {i \in 1..Len(pieces[k]) : pieces[k][i] = q}
             I == 1..Len(pieces)
             T == {{k} \X A(k) : k \in I}
             f == [k \in I |-> {k} \X A(k)]
  <1>1. f \in [I -> T] /\ \A t \in T : \E k \in I : f[k] = t
    OBVIOUS
  <1>2. IsFiniteSet(I)
    <2>1. Len(pieces) \in Int /\ 1 \in Int
      OBVIOUS
    <2> QED
      BY <2>1, FS_Interval
  <1>3. f \in Surjection(I, T)
    BY <1>1, Zenon DEF Surjection
  <1>4. IsFiniteSet(T)
    <2> HIDE DEF T, f, I
    <2> QED
      BY <1>2, <1>3, FS_Surjection
  <1>5. ASSUME NEW k \in I
        PROVE  IsFiniteSet({k} \X A(k))
    <2>1. pieces[k] \in Seq(Nat)
      OBVIOUS
    <2>2. IsFiniteSet(A(k))
      BY <2>1, OccursFacts
    <2>3. IsFiniteSet({k})
      BY FS_Singleton
    <2> HIDE DEF A
    <2> QED
      BY <2>2, <2>3, FS_Product
  <1>6. \A t \in T : IsFiniteSet(t)
    BY <1>5, Zenon
  <1>7. IsFiniteSet(UNION T)
    <2> HIDE DEF T
    <2> QED
      BY <1>4, <1>6, FS_UNION
  <1>8. IsFiniteSet(Spread(pieces, q))
    BY <1>7, Zenon DEF Spread
  <1>9. Cardinality(Spread(pieces, q)) \in Nat
    BY <1>8, FS_CardinalityType
  <1> QED
    BY <1>8, <1>9, Zenon DEF Total, Spread

\* A piece that is handed on or discarded adds its bytes.
LEMMA TotalAppend ==
    ASSUME NEW pieces \in Seq(Seq(Nat)), NEW s \in Seq(Nat), NEW q
    PROVE  Total(Append(pieces, s), q) = Total(pieces, q) + Occurs(s, q)
  <1> DEFINE n == Len(pieces) + 1
             A == {i \in 1..Len(s) : s[i] = q}
             B == {n} \X A
             new == Append(pieces, s)
  <1>1. /\ new \in Seq(Seq(Nat)) /\ Len(new) = n /\ new[n] = s
        /\ n \in Nat /\ 1..n = 1..Len(pieces) \cup {n} /\ n \notin 1..Len(pieces)
        /\ \A k \in 1..Len(pieces) : new[k] = pieces[k]
    OBVIOUS
  <1>2. IsFiniteSet(A)
    BY OccursFacts
  <1>3. IsFiniteSet(B) /\ Cardinality(B) = Cardinality(A)
    <2> HIDE DEF A
    <2>1. IsFiniteSet({n}) /\ Cardinality({n}) = 1
      BY FS_Singleton
    <2>2. Cardinality(A) \in Nat
      BY <1>2, FS_CardinalityType
    <2>3. IsFiniteSet(B) /\ Cardinality(B) = 1 * Cardinality(A)
      BY <1>2, <2>1, FS_Product
    <2> QED
      BY <2>2, <2>3
  <1> HIDE DEF n, new
  <1>4. Spread(new, q) = Spread(pieces, q) \cup B
    <2>1. ASSUME NEW x
          PROVE  x \in Spread(new, q) <=> x \in Spread(pieces, q) \cup B
      <3>1. x \in Spread(new, q) <=>
                \E k \in 1..n : \E i \in 1..Len(new[k]) : new[k][i] = q /\ x = <<k, i>>
        BY <1>1 DEF Spread
      <3>2. x \in Spread(pieces, q) <=>
                \E k \in 1..Len(pieces) : \E i \in 1..Len(pieces[k]) :
                    pieces[k][i] = q /\ x = <<k, i>>
        BY DEF Spread
      <3>3. x \in B <=> \E i \in 1..Len(s) : s[i] = q /\ x = <<n, i>>
        OBVIOUS
      <3>4. (\E k \in 1..n : \E i \in 1..Len(new[k]) : new[k][i] = q /\ x = <<k, i>>)
              <=> \/ \E k \in 1..Len(pieces) : \E i \in 1..Len(pieces[k]) :
                         pieces[k][i] = q /\ x = <<k, i>>
                  \/ \E i \in 1..Len(s) : s[i] = q /\ x = <<n, i>>
        BY <1>1
      <3> QED
        BY <3>1, <3>2, <3>3, <3>4
    <2> QED
      BY <2>1
  <1>5. Spread(pieces, q) \cap B = {}
    BY <1>1, SpreadPlaces
  <1> HIDE DEF A, B
  <1>6. Cardinality(Spread(new, q)) = Cardinality(Spread(pieces, q)) + Cardinality(B)
    BY <1>3, <1>4, <1>5, DisjointUnion, SpreadFinite
  <1>7. Occurs(s, q) = Cardinality(A)
    BY DEF Occurs, A
  <1> QED
    BY <1>3, <1>6, <1>7 DEF Total, Spread, new

\* What is in no piece is not counted.
LEMMA TotalNone ==
    ASSUME NEW pieces \in Seq(Seq(Nat)), NEW q,
           \A k \in 1..Len(pieces) : \A i \in 1..Len(pieces[k]) : pieces[k][i] # q
    PROVE  Total(pieces, q) = 0
  <1>1. ASSUME NEW x \in Spread(pieces, q)
        PROVE  FALSE
    <2>1. \E k \in 1..Len(pieces) : \E i \in 1..Len(pieces[k]) : pieces[k][i] = q /\ x = <<k, i>>
      BY DEF Spread
    <2> QED
      BY <2>1, Zenon
  <1>2. Spread(pieces, q) = {}
    BY <1>1
  <1>3. Cardinality({}) = 0
    BY FS_EmptySet
  <1> QED
    BY <1>2, <1>3 DEF Total, Spread

\* The frames handed on are pieces of audio; one more frame is one more piece.
LEMMA HeardAppend ==
    ASSUME NEW o \in Seq(Frame), NEW f \in Frame, NEW q
    PROVE  LET heard(u) == [k \in 1..Len(u) |-> u[k].audio]
           IN  /\ heard(o) \in Seq(Seq(Nat))
               /\ Total(heard(Append(o, f)), q) = Total(heard(o), q) + Occurs(f.audio, q)
  <1> DEFINE heard(u) == [k \in 1..Len(u) |-> u[k].audio]
             new == Append(o, f)
  <1>1. /\ new \in Seq(Frame) /\ Len(new) = Len(o) + 1 /\ Len(o) \in Nat
        /\ new[Len(o) + 1] = f /\ \A k \in 1..Len(o) : new[k] = o[k]
    OBVIOUS
  <1>2. f.audio \in Seq(Nat)
    BY DEF Frame
  <1>3. \A u \in Seq(Frame) : \A k \in 1..Len(u) : u[k].audio \in Seq(Nat)
    <2>1. \A u \in Seq(Frame) : \A k \in 1..Len(u) : u[k] \in Frame
      OBVIOUS
    <2>2. \A g \in Frame : g.audio \in Seq(Nat)
      BY DEF Frame
    <2> QED
      BY <2>1, <2>2, Zenon
  <1>4. ASSUME NEW u \in Seq(Frame)
        PROVE  heard(u) \in Seq(Seq(Nat)) /\ Len(heard(u)) = Len(u)
    BY <1>3
  <1>5. heard(new) = Append(heard(o), f.audio)
    <2> DEFINE a == heard(new)
               b == Append(heard(o), f.audio)
               c == heard(o)
    <2>1. a \in Seq(Seq(Nat)) /\ Len(a) = Len(o) + 1
      BY <1>1, <1>4
    <2>2. c \in Seq(Seq(Nat)) /\ Len(c) = Len(o) /\ \A k \in 1..Len(o) : c[k] = o[k].audio
      BY <1>4
    <2>3. \A k \in 1..Len(o) + 1 : a[k] = new[k].audio
      BY <1>1
    <2> HIDE DEF a, c, new
    <2>4. b \in Seq(Seq(Nat)) /\ Len(b) = Len(o) + 1 /\ b[Len(o) + 1] = f.audio
          /\ \A k \in 1..Len(o) : b[k] = c[k]
      BY <1>2, <2>2 DEF c
    <2>5. \A k \in 1..Len(a) : a[k] = b[k]
      <3> TAKE k \in 1..Len(a)
      <3>1. k \in 1..Len(o) \/ k = Len(o) + 1
        BY <1>1, <2>1
      <3> QED
        BY <1>1, <2>2, <2>3, <2>4, <3>1
    <2> HIDE DEF b
    <2>6. a = b
      BY <2>1, <2>4, <2>5, SeqEqual
    <2> QED
      BY <2>6 DEF a, b
  <1>6. heard(o) \in Seq(Seq(Nat))
    BY <1>4
  <1> HIDE DEF heard, new
  <1>7. Total(heard(new), q) = Total(heard(o), q) + Occurs(f.audio, q)
    BY <1>2, <1>5, <1>6, TotalAppend
  <1> QED
    BY <1>6, <1>7 DEF heard, new

-----------------------------------------------------------------------------
(* The invariant on the packets, in parts.                                   *)

\* The end: only a file is cut or ends; a raw mainaudio that takes less than it
\* asked for has read all of it; after the end nothing is read.
EndInv ==
    /\ cut => file
    /\ pc = "take" => audio_size + AUDIO_DELTA >= wanted \/ file
    /\ bEOF => /\ pc \in {"call", "done"} /\ file /\ pos = Len(source)
               /\ opt.main = "audio" => rawAudio = << >>

\* The pictures that were read
Pictures == {i \in 1..pos : source[i].type = "VIDEO" /\ ~(cut /\ i = Len(source))}

\* A raw mainvideo has handed on all pictures, and has buffered the audio of the
\* next one, wherever that will be.
PictureInv ==
    opt.main = "video" =>
        /\ Len(out) = Cardinality(Pictures)
        /\ pc # "done" /\ ~bEOF =>
              \A q \in 1..Len(source) :
                  Occurs(rawAudio, q) = IF q \in FrameAudio(pos + 1) THEN source[q].len ELSE 0

\* The bytes of s are of the first n packets.
Within(s, n) == \A i \in 1..Len(s) : s[i] <= n

\* No byte is of a packet that was not read.
SeenInv ==
    /\ Within(rawAudio, pos)
    /\ \A k \in 1..Len(out) : Within(out[k].audio, pos)
    /\ \A k \in 1..Len(drops) : Within(drops[k], pos)

\* All bytes of s were sent before those of t, or with them.
Precedes(s, t) == \A i \in 1..Len(s), j \in 1..Len(t) : s[i] <= t[j]

\* The bytes are in the order of their packets, in the buffer and over the frames.
OrderInv ==
    /\ Sorted(rawAudio)
    /\ \A k \in 1..Len(out) : Sorted(out[k].audio) /\ Precedes(out[k].audio, rawAudio)
    /\ \A k \in 1..Len(out) - 1 : Precedes(out[k].audio, out[k + 1].audio)

\* The bytes of packet q that are somewhere
Found(q) == Delivered(q) + Dropped(q) + Occurs(rawAudio, q)

\* Packet q is audio that was read whole.
IsAudio(q) ==
    source[q].type \in AudioTypes /\ source[q].len \in 1..Chunk /\ ~(cut /\ q = Len(source))

\* Every byte that was read is somewhere.
FoundInv == \A q \in 1..pos : IsAudio(q) => Found(q) = source[q].len

\* Where the packets went, in all.
FeedInv == EndInv /\ PictureInv /\ FrameComplete /\ SeenInv /\ OrderInv /\ FoundInv

-----------------------------------------------------------------------------
(* The end of the source.                                                    *)

\* A frame asked for is longer than what it may lack.
LEMMA MoreThanDelta ==
    ASSUME NEW i \in Nat, NEW w \in Int, NEW k \in Nat, NEW n \in Nat,
           NEW d \in Nat \ {0}, NEW delta \in Nat,
           n > (delta + 2) * d, i * d <= k * n + d, (i + w) * d > (k + 1) * n - d
    PROVE  w > delta
  <1>1. SUFFICES ASSUME w <= delta PROVE FALSE
    OBVIOUS
  <1>2. w * d <= delta * d
    BY <1>1, MulMono
  <1>3. (i + w) * d = i * d + w * d
    OBVIOUS
  <1>4. (k + 1) * n = k * n + n
    OBVIOUS
  <1>5. (delta + 2) * d = delta * d + 2 * d
    OBVIOUS
  <1>6. /\ i * d \in Int /\ w * d \in Int /\ k * n \in Int /\ delta * d \in Int
    OBVIOUS
  <1> QED
    BY <1>2, <1>3, <1>4, <1>5, <1>6

\* Every step keeps the end where it is.
LEMMA EndStep ==
    ASSUME TypeOK, RateInv, EndInv, [Next]_vars, RawFeedAssumption
    PROVE  EndInv'
  <1> USE DEF inputs, audioVars, paceVars, pollVars, endVars
  <1>0. /\ audio_size \in Nat /\ wanted \in Int /\ AUDIO_DELTA \in Nat
        /\ opt.main \in {"video", "audio"}
    BY DEF TypeOK, RawFeedAssumption, audio_size, Option
  <1>1. CASE Call \/ CacheMore
    BY <1>1 DEF Call, CacheMore, EndInv, file
  <1>2. CASE Want
    BY <1>0, <1>2 DEF Want, EndInv, file, audio_size
  <1>3. CASE Take
    <2>1. opt.main = "audio" /\ wanted > AUDIO_DELTA
      <3>1. opt.main = "audio" /\ pc = "take"
        BY <1>3 DEF Take, RateInv, ModeInv
      <3>2. /\ recv_audio_bytes_i \in Nat /\ recv_frames \in Nat
            /\ recv_audio_bytes_i * den <= recv_frames * num + den
            /\ (recv_audio_bytes_i + wanted) * den > (recv_frames + 1) * num - den
        BY <3>1 DEF RateInv, WantedInv, Ahead, TypeOK
      <3>3. num > (AUDIO_DELTA + 2) * den
        BY DEF RawFeedAssumption, num, den
      <3> QED
        BY <1>0, <3>1, <3>2, <3>3, FrameSize, MoreThanDelta
    <2>2. ASSUME bEOF'
          PROVE  /\ pc' \in {"call", "done"} /\ file /\ pos = Len(source)
                 /\ rawAudio' = << >>
      <3>1. audio_size = 0 /\ pc' = "call" /\ rawAudio' = Leftover(0)
        <4>1. pc' = "call" /\ wanted > 0
          BY <1>0, <1>3, <2>1, <2>2 DEF Take
        <4>2. (IF wanted > audio_size THEN audio_size ELSE wanted) = 0
          BY <1>3, <2>2 DEF Take
        <4>3. audio_size = 0
          BY <1>0, <4>1, <4>2
        <4>4. rawAudio' = Leftover(0)
          BY <1>3, <4>2 DEF Take
        <4> QED
          BY <4>1, <4>3, <4>4
      <3>2. ~(audio_size + AUDIO_DELTA >= wanted)
        BY <1>0, <2>1, <3>1
      <3>3. file /\ pos = Len(source)
        BY <1>3, <2>1, <3>2 DEF Take, EndInv, RateInv, StopInv
      <3>4. Leftover(0) = << >>
        <4>1. rawAudio = << >>
          BY <3>1 DEF audio_size, TypeOK
        <4> QED
          BY <4>1 DEF Leftover, audio_size
      <3> QED
        BY <3>1, <3>3, <3>4
    <2>3. UNCHANGED <<opt, source, cut, pos>> /\ pc' # "take"
      BY <1>3 DEF Take
    <2> QED
      BY <2>2, <2>3 DEF EndInv, file
  <1>4. CASE ReadAudio
    <2>1. Len(rawAudio') \in Nat
      BY TypeStep DEF TypeOK
    <2>2. /\ UNCHANGED <<opt, cut, wanted, bEOF>> /\ pc = "read"
          /\ pc' = "take" => Len(rawAudio') + AUDIO_DELTA >= wanted
      BY <1>4 DEF ReadAudio
    <2> QED
      BY <2>1, <2>2 DEF EndInv, file, audio_size
  <1>5. CASE ReadBadLength \/ ReadBad \/ DiscardVideo \/ ReadVideo \/ ReadError \/ Poll
    <2>1. UNCHANGED <<opt, cut, bEOF>> /\ pc = "read" /\ pc' # "take"
      BY <1>5 DEF ReadBadLength, ReadBad, DiscardVideo, ReadVideo, ReadError, Poll, Fail
    <2> QED
      BY <2>1 DEF EndInv, file
  <1>6. CASE ReadEOF
    BY <1>0, <1>6 DEF ReadEOF, EndOfFile, EndInv, file
  <1>7. CASE ReadCut
    <2>1. UNCHANGED <<opt, source, cut>> /\ cut /\ pos' = Len(source) /\ pc = "read" /\ EndOfFile
      BY <1>7 DEF ReadCut, Cut
    <2> QED
      BY <1>0, <2>1 DEF EndOfFile, EndInv, file
  <1>8. CASE Send \/ Pop \/ UNCHANGED vars
    BY <1>8 DEF Send, Pop, vars, EndInv, file, audio_size
  <1> QED
    BY <1>1, <1>2, <1>3, <1>4, <1>5, <1>6, <1>7, <1>8 DEF Next, Reader

-----------------------------------------------------------------------------
(* The product after a packet, and the audio of the next picture.            *)

\* There is one product after n packets.
LEMMA CurrentUnique ==
    ASSUME NEW s, NEW f, NEW n \in Nat, NEW p, NEW r,
           CurrentIn(s, f, n, p), CurrentIn(s, f, n, r)
    PROVE  p = r
  <1> DEFINE last(i, x) == /\ Names(s, f, i) /\ Named(s, i) = x
                           /\ \A j \in (i + 1)..n : ~Names(s, f, j)
  <1>1. CASE \E i \in 1..n : Names(s, f, i)
    <2>1. PICK i \in 1..n : last(i, p)
      BY <1>1 DEF CurrentIn
    <2>2. PICK j \in 1..n : last(j, r)
      BY <1>1 DEF CurrentIn
    <2>3. ~(j \in (i + 1)..n) /\ ~(i \in (j + 1)..n)
      BY <2>1, <2>2
    <2>4. i = j
      BY <2>3
    <2> QED
      BY <2>1, <2>2, <2>4
  <1>2. CASE \A i \in 1..n : ~Names(s, f, i)
    BY <1>2 DEF CurrentIn
  <1> QED
    BY <1>1, <1>2

\* Two packets have the same product if the product after one is that after the
\* other.
LEMMA SameCurrent ==
    ASSUME Len(source) \in Nat, NEW i \in 0..Len(source), NEW j \in 0..Len(source), NEW p,
           Current(j, p)
    PROVE  SameProduct(i, j) <=> Current(i, p)
  <1>1. p \in Products
    <2>1. CASE p = 0
      BY <2>1 DEF Products
    <2>2. CASE \E k \in 1..j : Names(source, file, k) /\ Named(source, k) = p
      <3>1. PICK k \in 1..j : Named(source, k) = p
        BY <2>2
      <3>2. k \in 1..Len(source)
        OBVIOUS
      <3> QED
        BY <3>1, <3>2 DEF Named, Products
    <2> QED
      BY <2>1, <2>2 DEF Current, CurrentIn
  <1>2. ASSUME SameProduct(i, j)
        PROVE  Current(i, p)
    <2>1. PICK r \in Products : Current(i, r) /\ Current(j, r)
      BY <1>2 DEF SameProduct
    <2>2. j \in Nat
      OBVIOUS
    <2>3. r = p
      BY <2>1, <2>2, CurrentUnique DEF Current
    <2> QED
      BY <2>1, <2>3
  <1>3. ASSUME Current(i, p)
        PROVE  SameProduct(i, j)
    BY <1>1, <1>3 DEF SameProduct
  <1> QED
    BY <1>2, <1>3

\* A picture takes all the audio before it.
LEMMA NoAudioAfter ==
    ASSUME NEW n \in Nat, source[n + 1].type = "VIDEO"
    PROVE  FrameAudio(n + 2) = {}
  <1>1. \A q \in 1..(n + 2) - 1 : n + 1 \in q..(n + 2) - 1
    OBVIOUS
  <1> QED
    BY <1>1 DEF FrameAudio

\* A packet of audio is for the next picture, with the audio before it if that is
\* of the same product.
LEMMA AudioAfter ==
    ASSUME Len(source) \in Nat, NEW n \in Nat, n < Len(source), NEW p, NEW r,
           Current(n, p), Current(n + 1, r), source[n + 1].type \in AudioTypes
    PROVE  FrameAudio(n + 2) =
               IF p = r THEN FrameAudio(n + 1) \cup {n + 1} ELSE {n + 1}
  <1>0. n \in 0..Len(source) /\ n + 1 \in 0..Len(source) /\ (n + 2) - 1 = n + 1 /\ (n + 1) - 1 = n
    OBVIOUS
  <1>1. n + 1 \in FrameAudio(n + 2)
    <2>1. \A i \in (n + 1)..(n + 1) : i = n + 1
      OBVIOUS
    <2>2. SameProduct(n + 1, n + 1)
      BY <1>0, SameCurrent
    <2>3. source[n + 1].type # "VIDEO"
      BY DEF AudioTypes
    <2> QED
      BY <1>0, <2>1, <2>2, <2>3 DEF FrameAudio
  <1>2. ASSUME NEW q \in FrameAudio(n + 2), q # n + 1
        PROVE  q \in FrameAudio(n + 1) /\ p = r
    <2>1. /\ q \in 1..n /\ source[q].type \in AudioTypes
          /\ \A i \in q..(n + 1) : source[i].type # "VIDEO" /\ SameProduct(q, i)
      BY <1>0, <1>2 DEF FrameAudio
    <2>2. n \in q..(n + 1) /\ n + 1 \in q..(n + 1) /\ \A i \in q..n : i \in q..(n + 1)
      BY <2>1
    <2>3. q \in FrameAudio(n + 1)
      BY <1>0, <2>1, <2>2 DEF FrameAudio
    <2>4. q \in 0..Len(source) /\ q \in Nat
      BY <2>1
    <2>5. Current(q, p) /\ Current(q, r)
      BY <1>0, <2>1, <2>2, <2>4, SameCurrent
    <2>6. p = r
      BY <2>4, <2>5, CurrentUnique DEF Current
    <2> QED
      BY <2>3, <2>6
  <1>3. ASSUME NEW q \in FrameAudio(n + 1), p = r
        PROVE  q \in FrameAudio(n + 2)
    <2>1. /\ q \in 1..n /\ source[q].type \in AudioTypes
          /\ \A i \in q..n : source[i].type # "VIDEO" /\ SameProduct(q, i)
      BY <1>0 DEF FrameAudio
    <2>2. n \in q..n /\ \A i \in q..(n + 1) : i \in q..n \/ i = n + 1
      BY <2>1
    <2>3. q \in 0..Len(source)
      BY <2>1
    <2>4. Current(q, p)
      BY <1>0, <2>1, <2>2, <2>3, SameCurrent
    <2>5. SameProduct(q, n + 1)
      BY <1>0, <1>3, <2>3, <2>4, SameCurrent
    <2>6. source[n + 1].type # "VIDEO"
      BY DEF AudioTypes
    <2>7. q \in 1..(n + 1)
      BY <2>1
    <2> QED
      BY <1>0, <2>1, <2>2, <2>5, <2>6, <2>7 DEF FrameAudio
  <1> QED
    BY <1>1, <1>2, <1>3

-----------------------------------------------------------------------------
(* The pictures and their audio.                                             *)

\* The pictures read are finitely many; the next packet adds one if it is a whole
\* picture, and they are then all pictures so far.
LEMMA PicturesNext ==
    ASSUME TypeOK, RawFeedAssumption, pos < Len(source), pos' = pos + 1,
           UNCHANGED <<source, cut>>
    PROVE  LET whole == source[pos + 1].type = "VIDEO" /\ ~(cut /\ pos + 1 = Len(source))
           IN  /\ Cardinality(Pictures) \in Nat
               /\ ~whole => Cardinality(Pictures') = Cardinality(Pictures)
               /\ whole => Cardinality({i \in 1..(pos + 1) : source[i].type = "VIDEO"})
                               = Cardinality(Pictures) + 1
               /\ whole => Cardinality(Pictures') = Cardinality(Pictures) + 1
  <1> DEFINE whole == source[pos + 1].type = "VIDEO" /\ ~(cut /\ pos + 1 = Len(source))
  <1>1. pos \in Nat /\ Len(source) \in Nat
    BY DEF TypeOK, RawFeedAssumption
  <1>2. Pictures \in SUBSET (1..pos)
    BY DEF Pictures
  <1>3. IsFiniteSet(1..pos)
    BY <1>1, FS_Interval
  <1>4. IsFiniteSet(Pictures) /\ Cardinality(Pictures) \in Nat
    BY <1>2, <1>3, FS_Subset, FS_CardinalityType
  <1>5. /\ pos + 1 \notin Pictures
        /\ 1..(pos + 1) = 1..pos \cup {pos + 1} /\ \A i \in 1..pos : i # Len(source)
    BY <1>1 DEF Pictures
  <1>6. Cardinality(Pictures \cup {pos + 1}) = Cardinality(Pictures) + 1
    BY <1>4, <1>5, FS_AddElement
  <1>7. ASSUME ~whole
        PROVE  Pictures' = Pictures
    BY <1>5, <1>7 DEF Pictures
  <1>8. ASSUME whole
        PROVE  /\ Pictures' = Pictures \cup {pos + 1}
               /\ {i \in 1..(pos + 1) : source[i].type = "VIDEO"} = Pictures \cup {pos + 1}
    BY <1>5, <1>8 DEF Pictures
  <1> QED
    BY <1>4, <1>6, <1>7, <1>8

\* What the audio of a picture is does not change.
LEMMA SameAudio ==
    ASSUME UNCHANGED <<source, opt>>
    PROVE  /\ FrameAudio(pos + 1)' = FrameAudio(pos' + 1)
           /\ \A v : FrameAudio(v)' = FrameAudio(v)
           /\ out' = out /\ FrameComplete => FrameComplete'
  <1>1. \A n, p : Current(n, p)' = Current(n, p)
    BY DEF Current, file
  <1>2. Products' = Products
    BY DEF Products
  <1>3. \A i, j : SameProduct(i, j)' = SameProduct(i, j)
    BY <1>1, <1>2 DEF SameProduct
  <1>4. \A v : FrameAudio(v)' = FrameAudio(v)
    BY <1>3 DEF FrameAudio
  <1>5. FrameAudio(pos + 1)' = FrameAudio(pos' + 1)
    BY <1>3 DEF FrameAudio
  <1>6. ASSUME out' = out, FrameComplete
        PROVE  FrameComplete'
    BY <1>4, <1>6 DEF FrameComplete
  <1> QED
    BY <1>4, <1>5, <1>6

\* The audio of a packet is added to that of the next picture.
LEMMA AudioBuffered ==
    ASSUME TypeOK, OwnInv, PictureInv, ReadAudio, RawFeedAssumption,
           opt.main = "video", pc # "done", ~bEOF, NEW q \in 1..Len(source)
    PROVE  Occurs(rawAudio', q) = IF q \in FrameAudio(pos + 2) THEN source[q].len ELSE 0
  <1> DEFINE bytes == [i \in 1..next.len |-> pos + 1]
  <1>1. /\ pos < sent /\ Switch /\ next.type \in AudioTypes /\ rawAudio' = Kept \o bytes
    BY DEF ReadAudio, Whole
  <1>2. /\ pos \in Nat /\ Len(source) \in Nat /\ pos < Len(source) /\ rawAudio \in Seq(Nat)
        /\ drops \in Seq(Seq(Nat))
    BY <1>1 DEF TypeOK, RawFeedAssumption
  <1>3. next.len \in Nat /\ pos + 1 \in Nat
    <2>1. next \in Packet
      BY <1>1, NextPacket
    <2> QED
      BY <1>2, <2>1 DEF Packet
  <1>4. bytes \in Seq(Nat) /\ Occurs(bytes, q) = IF q = pos + 1 THEN next.len ELSE 0
    BY <1>3, AudioBytes, OccursBytes
  <1>5. Kept \in Seq(Nat)
    BY <1>1, SwitchType
  <1> HIDE DEF bytes
  <1>6. Occurs(rawAudio', q) = Occurs(Kept, q) + Occurs(bytes, q)
    BY <1>1, <1>4, <1>5, OccursCat
  <1>7. Current(pos, product_id) /\ Current(pos + 1, product_id')
    BY <1>1, <1>2, SwitchOwn DEF OwnInv, Current
  <1>8. FrameAudio(pos + 2) =
            IF product_id = product_id' THEN FrameAudio(pos + 1) \cup {pos + 1} ELSE {pos + 1}
    BY <1>1, <1>2, <1>7, AudioAfter DEF next
  <1>9. pos + 1 \notin FrameAudio(pos + 1)
    BY <1>2 DEF FrameAudio
  <1>10. Occurs(rawAudio, q) = IF q \in FrameAudio(pos + 1) THEN source[q].len ELSE 0
    BY DEF PictureInv
  <1>11. Occurs(<< >>, q) = 0
    <2>1. << >> \in Seq(Nat) /\ \A i \in 1..Len(<< >>) : << >>[i] # q
      OBVIOUS
    <2> QED
      BY <2>1, OccursFacts
  <1>12. source[q].len \in Nat
    <2>1. source \in Seq(Packet)
      BY DEF TypeOK, RawFeedAssumption
    <2>2. source[q] \in Packet
      BY <2>1
    <2> QED
      BY <2>2 DEF Packet
  <1>13. CASE product_id' = product_id
    <2>1. Kept = rawAudio
      BY <1>1, <1>13 DEF Switch, Kept
    <2> QED
      BY <1>4, <1>6, <1>8, <1>9, <1>10, <1>12, <1>13, <2>1 DEF next
  <1>14. CASE product_id' # product_id
    <2>1. drops' # drops
      BY <1>1, <1>2, <1>14 DEF Switch
    <2>2. Kept = << >>
      BY <2>1 DEF Kept
    <2> QED
      BY <1>4, <1>6, <1>8, <1>11, <1>12, <1>14, <2>2 DEF next
  <1> QED
    BY <1>13, <1>14

\* Every step of a raw mainvideo keeps the pictures in turn and the audio with its
\* picture.
LEMMA PictureStep ==
    ASSUME TypeOK, RateInv, EndInv, OwnInv, PictureInv, FrameComplete, [Next]_vars,
           RawFeedAssumption
    PROVE  PictureInv' /\ FrameComplete'
  <1> USE DEF inputs, audioVars, paceVars, pollVars, endVars
  <1>0. UNCHANGED <<opt, source, cut>>
    BY DEF Next, Reader, Call, CacheMore, Want, Take, ReadAudio, ReadBadLength, ReadBad,
           DiscardVideo, ReadVideo, ReadEOF, ReadCut, ReadError, Poll, Send, Pop, vars
  <1>1. CASE opt.main # "video"
    BY <1>0, <1>1 DEF PictureInv, FrameComplete
  <1>2. CASE opt.main = "video"
    <2>0. /\ pos \in Nat /\ Len(source) \in Nat /\ out \in Seq(Frame) /\ rawAudio \in Seq(Nat)
          /\ sent \in Nat /\ sent <= Len(source)
          /\ Len(out) = Cardinality(Pictures)
      BY <1>2 DEF TypeOK, RawFeedAssumption, PictureInv
    <2>1. CASE ReadAudio
      <3>1. /\ pos < Len(source) /\ pos' = pos + 1 /\ out' = out /\ bEOF' = bEOF
            /\ source[pos + 1].type # "VIDEO" /\ pc = "read" /\ ~bEOF
        BY <2>0, <2>1, SMTT(30) DEF ReadAudio, Whole, next, AudioTypes, EndInv
      <3>2. Cardinality(Pictures') = Cardinality(Pictures)
        BY <1>0, <3>1, PicturesNext
      <3>3. \A q \in 1..Len(source) :
                Occurs(rawAudio', q) = IF q \in FrameAudio(pos + 2) THEN source[q].len ELSE 0
        BY <1>2, <2>1, <3>1, AudioBuffered
      <3>4. FrameAudio(pos + 1)' = FrameAudio(pos + 2)
        <4>1. pos' + 1 = pos + 2
          BY <2>0, <3>1
        <4> QED
          BY <1>0, <4>1, SameAudio
      <3>5. PictureInv'
        BY <1>0, <2>0, <3>1, <3>2, <3>3, <3>4 DEF PictureInv, Occurs
      <3> QED
        BY <1>0, <3>1, <3>5, SameAudio
    <2>2. CASE ReadVideo
      <3> DEFINE f == [video |-> pos + 1, audio |-> rawAudio, product_id |-> product_id]
      <3>1. /\ pos < Len(source) /\ pos' = pos + 1 /\ out' = Append(out, f) /\ rawAudio' = << >>
            /\ source[pos + 1].type = "VIDEO" /\ ~(cut /\ pos + 1 = Len(source)) /\ ~bEOF
            /\ pc = "read"
        BY <2>0, <2>2 DEF ReadVideo, Whole, next, EndInv
      <3>2. /\ Cardinality(Pictures') = Len(out) + 1
            /\ Cardinality({i \in 1..(pos + 1) : source[i].type = "VIDEO"}) = Len(out) + 1
        BY <1>0, <2>0, <3>1, PicturesNext
      <3>3. f \in Frame
        BY <2>0 DEF Frame, TypeOK
      <3>4. /\ Len(out') = Len(out) + 1 /\ out'[Len(out) + 1] = f
            /\ \A k \in 1..Len(out) : out'[k] = out[k]
        BY <2>0, <3>1, <3>3
      <3>5. FrameAudio(pos + 1)' = {}
        <4>1. pos' + 1 = pos + 2
          BY <2>0, <3>1
        <4>2. FrameAudio(pos + 2) = {}
          BY <2>0, <3>1, NoAudioAfter
        <4> QED
          BY <1>0, <4>1, <4>2, SameAudio
      <3>6. \A q \in 1..Len(source) : Occurs(rawAudio', q) = 0
        <4>1. << >> \in Seq(Nat) /\ \A q : \A i \in 1..Len(<< >>) : << >>[i] # q
          OBVIOUS
        <4> QED
          BY <3>1, <4>1, OccursFacts
      <3>7. PictureInv'
        BY <1>0, <3>2, <3>4, <3>5, <3>6 DEF PictureInv, Occurs
      <3>8. \A q \in 1..Len(source) :
                Occurs(f.audio, q) = IF q \in FrameAudio(f.video) THEN source[q].len ELSE 0
        BY <1>2, <3>1 DEF PictureInv
      <3>9. f.video = pos + 1
        OBVIOUS
      <3> HIDE DEF f
      <3>10. ASSUME NEW k \in 1..Len(out')
             PROVE  /\ k = Cardinality({i \in 1..out'[k].video : source[i].type = "VIDEO"})
                    /\ source[out'[k].video].type = "VIDEO"
                    /\ \A q \in 1..Len(source) :
                           Occurs(out'[k].audio, q) =
                               IF q \in FrameAudio(out'[k].video) THEN source[q].len ELSE 0
        <4>1. CASE k = Len(out) + 1
          BY <3>1, <3>2, <3>4, <3>8, <3>9, <4>1
        <4>2. CASE k \in 1..Len(out)
          BY <1>2, <3>4, <4>2 DEF FrameComplete
        <4> QED
          BY <2>0, <3>4, <4>1, <4>2
      <3>11. FrameComplete'
        BY <1>0, <3>10, SameAudio, ZenonT(60) DEF FrameComplete
      <3> QED
        BY <3>7, <3>11
    <2>3. CASE ReadBadLength \/ ReadBad \/ ReadCut
      <3>1. /\ pos < Len(source) /\ pos' = pos + 1 /\ out' = out
            /\ pc' = "done" \/ bEOF'
            /\ source[pos + 1].type # "VIDEO" \/ (cut /\ pos + 1 = Len(source))
        BY <1>2, <2>0, <2>3 DEF ReadBadLength, ReadBad, ReadCut, Cut, Fail, EndOfFile, next, AudioTypes
      <3>2. Cardinality(Pictures') = Cardinality(Pictures)
        BY <1>0, <3>1, PicturesNext
      <3>3. PictureInv'
        BY <2>0, <3>1, <3>2 DEF PictureInv
      <3> QED
        BY <1>0, <3>1, <3>3, SameAudio
    <2>4. CASE /\ UNCHANGED <<pos, out, rawAudio>>
               /\ pc' # "done" /\ ~bEOF' => pc # "done" /\ ~bEOF
      <3>1. Pictures' = Pictures
        BY <1>0, <2>4 DEF Pictures
      <3>2. FrameAudio(pos + 1)' = FrameAudio(pos + 1)
        BY <1>0, <2>4, SameAudio
      <3>3. PictureInv'
        BY <1>0, <1>2, <2>4, <3>1, <3>2 DEF PictureInv, Occurs
      <3> QED
        BY <1>0, <2>4, <3>3, SameAudio
    <2>5. ~Take /\ ~DiscardVideo /\ ~Want
      BY <1>2 DEF Take, Want, DiscardVideo, RateInv, ModeInv
    <2>6. Call \/ CacheMore \/ ReadEOF \/ ReadError \/ Poll \/ Send \/ Pop \/ UNCHANGED vars =>
              /\ UNCHANGED <<pos, out, rawAudio>>
              /\ pc' # "done" /\ ~bEOF' => pc # "done" /\ ~bEOF
      BY <1>2 DEF Call, CacheMore, ReadEOF, EndOfFile, ReadError, Poll, Fail, Send, Pop, vars
    <2> QED
      BY <2>1, <2>2, <2>3, <2>4, <2>5, <2>6 DEF Next, Reader
  <1> QED
    BY <1>1, <1>2

-----------------------------------------------------------------------------
(* Where the bytes go.                                                       *)

\* A step hands on the first bytes of the buffer as the audio of frame f.
Hands(f) ==
    /\ f \in Frame /\ rawAudio' \in Seq(Nat)
    /\ out' = Append(out, f) /\ rawAudio = f.audio \o rawAudio'
    /\ drops' = drops
    /\ pos' = pos \/ (pos' = pos + 1 /\ ~IsAudio(pos + 1))

\* A step reads a packet whose bytes are new, behind those of the buffer that are
\* kept.
Adds(kept, new) ==
    /\ kept \in Seq(Nat) /\ new \in Seq(Nat)
    /\ \A i \in 1..Len(new) : new[i] = pos + 1
    /\ IsAudio(pos + 1) => Occurs(new, pos + 1) = source[pos + 1].len
    /\ rawAudio' = kept \o new /\ pos' = pos + 1 /\ out' = out
    /\ \/ kept = rawAudio /\ drops' = drops
       \/ kept = << >> /\ drops' = Append(drops, rawAudio)

\* A step leaves the bytes where they are.
Rests ==
    /\ UNCHANGED <<rawAudio, out, drops>>
    /\ pos' = pos \/ (pos' = pos + 1 /\ ~IsAudio(pos + 1))

\* A buffer is what is cut off its front and the rest.
LEMMA CutJoin ==
    ASSUME NEW s \in Seq(Nat), NEW n \in 0..Len(s)
    PROVE  s = SubSeq(s, 1, n) \o SubSeq(s, n + 1, Len(s))
  <1> DEFINE a == SubSeq(s, 1, n)
             b == SubSeq(s, n + 1, Len(s))
  <1>1. /\ a \in Seq(Nat) /\ b \in Seq(Nat) /\ Len(a) = n /\ Len(b) = Len(s) - n
        /\ \A i \in 1..n : a[i] = s[i]
        /\ \A i \in 1..Len(s) - n : b[i] = s[i + n]
    BY CutSeq, Zenon
  <1>0. Len(s) \in Nat /\ n \in Nat /\ n <= Len(s)
    OBVIOUS
  <1> HIDE DEF a, b
  <1>2. /\ a \o b \in Seq(Nat) /\ Len(a \o b) = Len(s)
        /\ \A i \in 1..Len(a) : (a \o b)[i] = a[i]
        /\ \A i \in Len(a) + 1..Len(s) : (a \o b)[i] = b[i - Len(a)]
    BY <1>0, <1>1
  <1>3. ASSUME NEW i \in 1..Len(s)
        PROVE  (a \o b)[i] = s[i]
    <2>1. CASE i <= n
      <3>1. i \in 1..n
        BY <1>0, <2>1
      <3> QED
        BY <1>1, <1>2, <3>1
    <2>2. CASE i > n
      <3>1. i - n \in 1..Len(s) - n /\ (i - n) + n = i /\ i \in n + 1..Len(s)
        BY <1>0, <2>2
      <3>2. (a \o b)[i] = b[i - n]
        BY <1>1, <1>2, <3>1
      <3> QED
        BY <1>1, <3>1, <3>2
    <2>3. i <= n \/ i > n
      BY <1>0
    <2> QED
      BY <2>1, <2>2, <2>3, Zenon
  <1> DEFINE c == a \o b
  <1>4. c \in Seq(Nat) /\ Len(c) = Len(s) /\ \A i \in 1..Len(s) : c[i] = s[i]
    BY <1>2, <1>3, Zenon
  <1> HIDE DEF c
  <1>5. s = c
    BY <1>4, SeqEqual
  <1> QED
    BY <1>5, Zenon DEF a, b, c

\* A switch keeps the buffer, or discards all of it.
LEMMA SwitchKept ==
    ASSUME TypeOK, Switch
    PROVE  \/ Kept = rawAudio /\ drops' = drops
           \/ Kept = << >> /\ drops' = Append(drops, rawAudio)
  BY DEF Switch, Kept, TypeOK

\* Every step hands bytes on, adds some or leaves them.
LEMMA Moves ==
    ASSUME TypeOK, RateInv, [Next]_vars, RawFeedAssumption
    PROVE  \/ \E f : Hands(f)
           \/ \E kept, new : Adds(kept, new)
           \/ Rests
  <1> USE DEF inputs, audioVars, paceVars, pollVars, endVars
  <1>0. /\ pos \in Nat /\ Len(source) \in Nat /\ out \in Seq(Frame) /\ rawAudio \in Seq(Nat)
        /\ product_id \in Nat
    BY DEF TypeOK, RawFeedAssumption
  <1>1. CASE Take
    <2> DEFINE n == IF wanted > audio_size THEN audio_size ELSE wanted
               f == [video |-> 0, audio |-> SubSeq(rawAudio, 1, n), product_id |-> product_id]
    <2>1. n \in 0..Len(rawAudio)
      BY <1>1 DEF Take, TypeOK, RateInv, ModeInv, WantedInv, audio_size
    <2>2. /\ rawAudio' = SubSeq(rawAudio, n + 1, Len(rawAudio))
          /\ out' = IF n = 0 THEN out ELSE Append(out, f)
          /\ drops' = drops /\ pos' = pos
      BY <1>1 DEF Take, Leftover, audio_size
    <2> HIDE DEF n
    <2>3. /\ SubSeq(rawAudio, 1, n) \in Seq(Nat) /\ rawAudio' \in Seq(Nat)
          /\ rawAudio = SubSeq(rawAudio, 1, n) \o rawAudio'
      BY <1>0, <2>1, <2>2, CutSeq, CutJoin
    <2>4. CASE n = 0
      <3>1. rawAudio' = rawAudio
        BY <1>0, <2>2, <2>4
      <3> QED
        BY <2>2, <2>4, <3>1 DEF Rests
    <2>5. CASE n # 0
      <3>1. f \in Frame /\ f.audio = SubSeq(rawAudio, 1, n)
        BY <1>0, <2>3 DEF Frame
      <3> HIDE DEF f
      <3>2. Hands(f)
        BY <2>2, <2>3, <2>5, <3>1 DEF Hands
      <3> QED
        BY <3>2
    <2> QED
      BY <2>4, <2>5
  <1>2. CASE ReadVideo
    <2> DEFINE f == [video |-> pos + 1, audio |-> rawAudio, product_id |-> product_id]
    <2>1. /\ out' = Append(out, f) /\ rawAudio' = << >> /\ drops' = drops /\ pos' = pos + 1
          /\ source[pos + 1].type = "VIDEO"
      BY <1>2 DEF ReadVideo, next
    <2>2. ~IsAudio(pos + 1)
      BY <2>1 DEF IsAudio, AudioTypes
    <2>3. f \in Frame /\ f.audio = rawAudio
      BY <1>0 DEF Frame
    <2>4. << >> \in Seq(Nat) /\ rawAudio \o << >> = rawAudio
      BY <1>0
    <2> HIDE DEF f
    <2>5. Hands(f)
      BY <2>1, <2>2, <2>3, <2>4 DEF Hands
    <2> QED
      BY <2>5
  <1>3. CASE ReadAudio
    <2> DEFINE new == [i \in 1..next.len |-> pos + 1]
    <2>1. /\ pos < sent /\ Switch /\ next.type \in AudioTypes /\ rawAudio' = Kept \o new
          /\ pos' = pos + 1 /\ out' = out
      BY <1>3 DEF ReadAudio, Whole
    <2>2. next.len \in Nat /\ pos + 1 \in Nat
      <3>1. next \in Packet
        BY <2>1, NextPacket
      <3> QED
        BY <1>0, <3>1 DEF Packet
    <2>3. new \in Seq(Nat) /\ Len(new) = next.len /\ \A i \in 1..Len(new) : new[i] = pos + 1
      BY <2>2, AudioBytes
    <2>4. Occurs(new, pos + 1) = source[pos + 1].len
      BY <2>2, OccursBytes DEF next
    <2>5. Kept \in Seq(Nat)
      BY <2>1, SwitchType
    <2> HIDE DEF new
    <2>6. Adds(Kept, new)
      BY <2>1, <2>3, <2>4, <2>5, SwitchKept DEF Adds
    <2> QED
      BY <2>6
  <1>4. CASE /\ pos < sent /\ next.type \in AudioTypes /\ Switch /\ rawAudio' = Kept
             /\ pos' = pos + 1 /\ out' = out /\ ~IsAudio(pos + 1)
    <2>1. Kept \in Seq(Nat)
      BY <1>4, SwitchType
    <2>2. << >> \in Seq(Nat) /\ Kept = Kept \o << >> /\ \A i \in 1..Len(<< >>) : << >>[i] = pos + 1
      BY <2>1
    <2>3. Adds(Kept, << >>)
      BY <1>4, <2>1, <2>2, SwitchKept DEF Adds
    <2> QED
      BY <2>3
  <1>5. CASE ReadBadLength
    <2>1. /\ pos < sent /\ next.type \in AudioTypes /\ Switch /\ rawAudio' = Kept
          /\ pos' = pos + 1 /\ out' = out
      BY <1>5 DEF ReadBadLength
    <2>2. ~IsAudio(pos + 1)
      BY <1>5 DEF ReadBadLength, LengthOK, next, IsAudio
    <2> QED
      BY <1>4, <2>1, <2>2
  <1>6. CASE ReadCut
    <2>1. pos < sent /\ pos' = pos + 1 /\ out' = out
      BY <1>6 DEF ReadCut, Cut
    <2>2. ~IsAudio(pos + 1)
      BY <1>6 DEF ReadCut, Cut, IsAudio
    <2>3. CASE UNCHANGED audioVars
      BY <2>1, <2>2, <2>3 DEF Rests
    <2>4. CASE next.type \in AudioTypes /\ Switch /\ rawAudio' = Kept
      BY <1>4, <2>1, <2>2, <2>4
    <2> QED
      BY <1>6, <2>3, <2>4 DEF ReadCut
  <1>7. CASE ReadBad \/ DiscardVideo
    <2>1. /\ pos' = pos + 1 /\ UNCHANGED <<rawAudio, out, drops>>
          /\ source[pos + 1].type \in {"BAD", "VIDEO"}
      BY <1>7 DEF ReadBad, DiscardVideo, next
    <2>2. ~IsAudio(pos + 1)
      BY <2>1 DEF IsAudio, AudioTypes
    <2> QED
      BY <2>1, <2>2 DEF Rests
  <1>8. CASE UNCHANGED <<pos, rawAudio, out, drops>>
    BY <1>8 DEF Rests
  <1> QED
    BY <1>1, <1>2, <1>3, <1>5, <1>6, <1>7, <1>8 DEF Next, Reader, Call, CacheMore,
       Want, ReadEOF, ReadError, Poll, Send, Pop, vars

\* The bytes of two sequences put together.
LEMMA JoinFacts ==
    ASSUME NEW s \in Seq(Nat), NEW t \in Seq(Nat)
    PROVE  /\ s \o t \in Seq(Nat) /\ Len(s \o t) = Len(s) + Len(t)
           /\ Len(s) \in Nat /\ Len(t) \in Nat
           /\ \A i \in 1..Len(s) : i \in 1..Len(s \o t) /\ (s \o t)[i] = s[i]
           /\ \A i \in 1..Len(t) : i + Len(s) \in 1..Len(s \o t) /\ (s \o t)[i + Len(s)] = t[i]
           /\ \A i \in 1..Len(s \o t) :
                  \/ i \in 1..Len(s) /\ (s \o t)[i] = s[i]
                  \/ i - Len(s) \in 1..Len(t) /\ (s \o t)[i] = t[i - Len(s)]
  OBVIOUS

\* Two sequences put together are in order if each is and one precedes the other.
LEMMA SortedJoin ==
    ASSUME NEW s \in Seq(Nat), NEW t \in Seq(Nat)
    PROVE  Sorted(s \o t) <=> Sorted(s) /\ Sorted(t) /\ Precedes(s, t)
  <1> DEFINE u == s \o t
  <1>1. /\ Len(s) \in Nat /\ Len(t) \in Nat /\ Len(u) = Len(s) + Len(t)
        /\ \A i \in 1..Len(s) : i \in 1..Len(u) /\ u[i] = s[i]
        /\ \A i \in 1..Len(t) : i + Len(s) \in 1..Len(u) /\ u[i + Len(s)] = t[i]
        /\ \A i \in 1..Len(u) : \/ i \in 1..Len(s) /\ u[i] = s[i]
                                \/ i - Len(s) \in 1..Len(t) /\ u[i] = t[i - Len(s)]
    BY JoinFacts, Zenon
  <1> HIDE DEF u
  <1>2. ASSUME Sorted(u)
        PROVE  Sorted(s) /\ Sorted(t) /\ Precedes(s, t)
    <2>1. Sorted(s)
      BY <1>1, <1>2 DEF Sorted
    <2>2. ASSUME NEW i \in 1..Len(t), NEW j \in 1..Len(t), i < j
          PROVE  t[i] <= t[j]
      <3>1. i + Len(s) < j + Len(s)
        BY <1>1, <2>2
      <3>2. u[i + Len(s)] <= u[j + Len(s)]
        BY <1>1, <1>2, <3>1, Zenon DEF Sorted
      <3> QED
        BY <1>1, <3>2, Zenon
    <2>3. ASSUME NEW i \in 1..Len(s), NEW j \in 1..Len(t)
          PROVE  s[i] <= t[j]
      <3>1. i < j + Len(s)
        BY <1>1
      <3>2. u[i] <= u[j + Len(s)]
        BY <1>1, <1>2, <3>1, Zenon DEF Sorted
      <3> QED
        BY <1>1, <3>2, Zenon
    <2> QED
      BY <2>1, <2>2, <2>3 DEF Sorted, Precedes
  <1>3. ASSUME Sorted(s), Sorted(t), Precedes(s, t), NEW i \in 1..Len(u), NEW j \in 1..Len(u), i < j
        PROVE  u[i] <= u[j]
    <2>1. CASE i \in 1..Len(s) /\ u[i] = s[i] /\ j \in 1..Len(s) /\ u[j] = s[j]
      BY <1>3, <2>1 DEF Sorted
    <2>2. CASE /\ i \in 1..Len(s) /\ u[i] = s[i]
               /\ j - Len(s) \in 1..Len(t) /\ u[j] = t[j - Len(s)]
      BY <1>3, <2>2 DEF Precedes
    <2>3. CASE /\ i - Len(s) \in 1..Len(t) /\ u[i] = t[i - Len(s)]
               /\ j - Len(s) \in 1..Len(t) /\ u[j] = t[j - Len(s)]
      <3>1. i - Len(s) < j - Len(s)
        BY <1>1, <1>3
      <3> QED
        BY <1>3, <2>3, <3>1 DEF Sorted
    <2>4. CASE i - Len(s) \in 1..Len(t) /\ j \in 1..Len(s)
      BY <1>1, <1>3, <2>4
    <2> QED
      BY <1>1, <2>1, <2>2, <2>3, <2>4
  <1>4. Sorted(s) /\ Sorted(t) /\ Precedes(s, t) => Sorted(u)
    BY <1>3 DEF Sorted
  <1>5. Sorted(u) <=> Sorted(s) /\ Sorted(t) /\ Precedes(s, t)
    BY <1>2, <1>4
  <1> QED
    BY <1>5 DEF u

\* What precedes two sequences precedes both.
LEMMA PrecedesJoin ==
    ASSUME NEW r \in Seq(Nat), NEW s \in Seq(Nat), NEW t \in Seq(Nat)
    PROVE  Precedes(r, s \o t) <=> Precedes(r, s) /\ Precedes(r, t)
  <1> DEFINE u == s \o t
  <1>1. /\ \A i \in 1..Len(s) : i \in 1..Len(u) /\ u[i] = s[i]
        /\ \A i \in 1..Len(t) : i + Len(s) \in 1..Len(u) /\ u[i + Len(s)] = t[i]
        /\ \A i \in 1..Len(u) : \/ i \in 1..Len(s) /\ u[i] = s[i]
                                \/ i - Len(s) \in 1..Len(t) /\ u[i] = t[i - Len(s)]
    BY JoinFacts, Zenon
  <1> HIDE DEF u
  <1>2. ASSUME Precedes(r, u)
        PROVE  Precedes(r, s) /\ Precedes(r, t)
    BY <1>1, <1>2 DEF Precedes
  <1>3. ASSUME Precedes(r, s), Precedes(r, t)
        PROVE  Precedes(r, u)
    BY <1>1, <1>3 DEF Precedes
  <1>4. Precedes(r, u) <=> Precedes(r, s) /\ Precedes(r, t)
    BY <1>2, <1>3
  <1> QED
    BY <1>4 DEF u

\* The bytes of the first n packets are of the first m of them.
LEMMA WithinMore ==
    ASSUME NEW s \in Seq(Nat), NEW n \in Nat, NEW m \in Nat, n <= m, Within(s, n)
    PROVE  Within(s, m)
  <1>1. \A i \in 1..Len(s) : s[i] \in Nat
    OBVIOUS
  <1> QED
    BY <1>1 DEF Within

\* Two sequences put together are of the packets both are of.
LEMMA WithinJoin ==
    ASSUME NEW s \in Seq(Nat), NEW t \in Seq(Nat), NEW n
    PROVE  Within(s \o t, n) <=> Within(s, n) /\ Within(t, n)
  <1> DEFINE u == s \o t
  <1>1. /\ \A i \in 1..Len(s) : i \in 1..Len(u) /\ u[i] = s[i]
        /\ \A i \in 1..Len(t) : i + Len(s) \in 1..Len(u) /\ u[i + Len(s)] = t[i]
        /\ \A i \in 1..Len(u) : \/ i \in 1..Len(s) /\ u[i] = s[i]
                                \/ i - Len(s) \in 1..Len(t) /\ u[i] = t[i - Len(s)]
    BY JoinFacts, Zenon
  <1> HIDE DEF u
  <1>2. ASSUME Within(u, n)
        PROVE  Within(s, n) /\ Within(t, n)
    BY <1>1, <1>2, Zenon DEF Within
  <1>3. ASSUME Within(s, n), Within(t, n)
        PROVE  Within(u, n)
    BY <1>1, <1>3, Zenon DEF Within
  <1>4. Within(u, n) <=> Within(s, n) /\ Within(t, n)
    BY <1>2, <1>3
  <1> QED
    BY <1>4 DEF u

\* A frame put behind others.
LEMMA FrameAdded ==
    ASSUME NEW o \in Seq(Frame), NEW f \in Frame
    PROVE  /\ Len(o) \in Nat /\ Len(Append(o, f)) = Len(o) + 1
           /\ Append(o, f)[Len(o) + 1] = f
           /\ \A k \in 1..Len(o) : Append(o, f)[k] = o[k]
           /\ \A k \in 1..Len(Append(o, f)) : k \in 1..Len(o) \/ k = Len(o) + 1
  OBVIOUS

\* A frame has audio.
LEMMA FrameSound ==
    ASSUME NEW f \in Frame
    PROVE  f.audio \in Seq(Nat)
  BY DEF Frame

\* So has every frame that was handed on.
LEMMA FramesSound ==
    ASSUME NEW o \in Seq(Frame), NEW k \in 1..Len(o)
    PROVE  o[k].audio \in Seq(Nat)
  <1>1. o[k] \in Frame
    OBVIOUS
  <1> QED
    BY <1>1, FrameSound

\* No step makes bytes of a packet that was not read.
LEMMA SeenStep ==
    ASSUME TypeOK, RateInv, SeenInv, [Next]_vars, RawFeedAssumption
    PROVE  SeenInv'
  <1>0. pos \in Nat /\ out \in Seq(Frame) /\ rawAudio \in Seq(Nat) /\ drops \in Seq(Seq(Nat))
    BY DEF TypeOK
  <1>1. /\ Within(rawAudio, pos)
        /\ \A k \in 1..Len(out) : Within(out[k].audio, pos)
        /\ \A k \in 1..Len(drops) : Within(drops[k], pos)
    BY DEF SeenInv
  <1>2. ASSUME pos' \in Nat, pos <= pos'
        PROVE  /\ Within(rawAudio, pos')
               /\ \A k \in 1..Len(out) : Within(out[k].audio, pos')
               /\ \A k \in 1..Len(drops) : Within(drops[k], pos')
    <2>1. Within(rawAudio, pos')
      BY <1>0, <1>1, <1>2, WithinMore
    <2>2. ASSUME NEW k \in 1..Len(out)
          PROVE  Within(out[k].audio, pos')
      <3>1. out[k].audio \in Seq(Nat)
        BY <1>0, FramesSound
      <3> QED
        BY <1>0, <1>1, <1>2, <3>1, WithinMore
    <2>3. ASSUME NEW k \in 1..Len(drops)
          PROVE  Within(drops[k], pos')
      <3>1. drops[k] \in Seq(Nat)
        BY <1>0
      <3> QED
        BY <1>0, <1>1, <1>2, <3>1, WithinMore
    <2> QED
      BY <2>1, <2>2, <2>3
  <1>3. ASSUME NEW f, Hands(f)
        PROVE  SeenInv'
    <2>1. /\ f \in Frame /\ rawAudio' \in Seq(Nat) /\ out' = Append(out, f)
          /\ rawAudio = f.audio \o rawAudio' /\ drops' = drops /\ pos' \in Nat /\ pos <= pos'
      BY <1>0, <1>3 DEF Hands
    <2>2. Within(f.audio, pos') /\ Within(rawAudio', pos')
      BY <1>2, <2>1, FrameSound, WithinJoin
    <2>3. \A k \in 1..Len(out') : Within(out'[k].audio, pos')
      BY <1>0, <1>2, <2>1, <2>2, FrameAdded
    <2> QED
      BY <1>2, <2>1, <2>2, <2>3 DEF SeenInv
  <1>4. ASSUME NEW kept, NEW new, Adds(kept, new)
        PROVE  SeenInv'
    <2>1. /\ kept \in Seq(Nat) /\ new \in Seq(Nat) /\ \A i \in 1..Len(new) : new[i] = pos + 1
          /\ rawAudio' = kept \o new /\ pos' = pos + 1 /\ out' = out
          /\ kept = rawAudio \/ kept = << >>
          /\ drops' = drops \/ drops' = Append(drops, rawAudio)
      BY <1>4 DEF Adds
    <2>2. pos' \in Nat /\ pos <= pos'
      BY <1>0, <2>1
    <2>3. Within(new, pos')
      BY <1>0, <2>1 DEF Within
    <2>4. Within(kept, pos')
      <3>1. CASE kept = rawAudio
        BY <1>2, <2>2, <3>1
      <3>2. CASE kept = << >>
        BY <3>2 DEF Within
      <3> QED
        BY <2>1, <3>1, <3>2
    <2>5. Within(rawAudio', pos')
      BY <2>1, <2>3, <2>4, WithinJoin
    <2>6. ASSUME NEW k \in 1..Len(drops')
          PROVE  Within(drops'[k], pos')
      <3>1. (k \in 1..Len(drops) /\ drops'[k] = drops[k]) \/ drops'[k] = rawAudio
        <4>1. CASE drops' = drops
          BY <4>1
        <4>2. CASE drops' = Append(drops, rawAudio)
          BY <1>0, <4>2
        <4> QED
          BY <2>1, <4>1, <4>2
      <3> QED
        BY <1>2, <2>2, <3>1
    <2> QED
      BY <1>2, <2>1, <2>2, <2>5, <2>6 DEF SeenInv
  <1>5. CASE Rests
    <2>1. UNCHANGED <<rawAudio, out, drops>> /\ pos' \in Nat /\ pos <= pos'
      BY <1>0, <1>5 DEF Rests
    <2> QED
      BY <1>2, <2>1 DEF SeenInv
  <1> QED
    BY <1>3, <1>4, <1>5, Moves

\* The bytes of earlier packets precede those of a later one.
LEMMA WithinPrecedes ==
    ASSUME NEW s \in Seq(Nat), NEW n \in Nat, Within(s, n),
           NEW t, \A i \in 1..Len(t) : t[i] = n + 1
    PROVE  Precedes(s, t)
  <1>1. \A i \in 1..Len(s) : s[i] \in Nat /\ s[i] <= n
    BY DEF Within
  <1> QED
    BY <1>1 DEF Precedes

\* Every step keeps the bytes in order.
LEMMA OrderStep ==
    ASSUME TypeOK, RateInv, SeenInv, OrderInv, [Next]_vars, RawFeedAssumption
    PROVE  OrderInv'
  <1>0. pos \in Nat /\ out \in Seq(Frame) /\ rawAudio \in Seq(Nat) /\ Len(out) \in Nat
    BY DEF TypeOK
  <1>1. /\ Sorted(rawAudio)
        /\ \A k \in 1..Len(out) : Sorted(out[k].audio) /\ Precedes(out[k].audio, rawAudio)
        /\ \A k \in 1..Len(out) - 1 : Precedes(out[k].audio, out[k + 1].audio)
    BY DEF OrderInv
  <1>2. ASSUME NEW f, Hands(f)
        PROVE  OrderInv'
    <2>1. /\ f \in Frame /\ f.audio \in Seq(Nat) /\ rawAudio' \in Seq(Nat)
          /\ out' = Append(out, f) /\ rawAudio = f.audio \o rawAudio'
      BY <1>2, FrameSound DEF Hands
    <2>2. Sorted(f.audio) /\ Sorted(rawAudio') /\ Precedes(f.audio, rawAudio')
      BY <1>1, <2>1, SortedJoin
    <2>3. ASSUME NEW k \in 1..Len(out)
          PROVE  Precedes(out[k].audio, f.audio) /\ Precedes(out[k].audio, rawAudio')
      <3>1. out[k].audio \in Seq(Nat)
        BY <1>0, FramesSound
      <3>2. Precedes(out[k].audio, f.audio \o rawAudio')
        BY <1>1, <2>1
      <3> QED
        BY <2>1, <3>1, <3>2, PrecedesJoin
    <2>4. /\ Len(out') = Len(out) + 1 /\ out'[Len(out) + 1] = f
          /\ \A k \in 1..Len(out) : out'[k] = out[k]
          /\ \A k \in 1..Len(out') : k \in 1..Len(out) \/ k = Len(out) + 1
      BY <1>0, <2>1, FrameAdded
    <2>5. \A k \in 1..Len(out') : Sorted(out'[k].audio) /\ Precedes(out'[k].audio, rawAudio')
      BY <1>1, <2>2, <2>3, <2>4
    <2>6. ASSUME NEW k \in 1..Len(out') - 1
          PROVE  Precedes(out'[k].audio, out'[k + 1].audio)
      <3>1. k \in 1..Len(out) /\ out'[k] = out[k]
        BY <1>0, <2>4
      <3>2. CASE k = Len(out)
        BY <2>3, <2>4, <3>1, <3>2
      <3>3. CASE k # Len(out)
        <4>1. k \in 1..Len(out) - 1 /\ k + 1 \in 1..Len(out)
          BY <1>0, <3>1, <3>3
        <4> QED
          BY <1>1, <2>4, <3>1, <4>1
      <3> QED
        BY <3>2, <3>3
    <2> QED
      BY <2>2, <2>5, <2>6 DEF OrderInv
  <1>3. ASSUME NEW kept, NEW new, Adds(kept, new)
        PROVE  OrderInv'
    <2>1. /\ kept \in Seq(Nat) /\ new \in Seq(Nat) /\ \A i \in 1..Len(new) : new[i] = pos + 1
          /\ rawAudio' = kept \o new /\ out' = out
          /\ kept = rawAudio \/ kept = << >>
      BY <1>3 DEF Adds
    <2>2. Sorted(new)
      BY <1>0, <2>1 DEF Sorted
    <2>3. Sorted(kept) /\ Within(kept, pos) /\ \A s : Precedes(s, rawAudio) => Precedes(s, kept)
      <3>1. CASE kept = rawAudio
        BY <1>1, <3>1 DEF SeenInv
      <3>2. CASE kept = << >>
        BY <3>2 DEF Sorted, Within, Precedes
      <3> QED
        BY <2>1, <3>1, <3>2
    <2>4. Sorted(rawAudio')
      BY <1>0, <2>1, <2>2, <2>3, SortedJoin, WithinPrecedes
    <2>5. ASSUME NEW k \in 1..Len(out)
          PROVE  Precedes(out[k].audio, rawAudio')
      <3>1. out[k].audio \in Seq(Nat) /\ Within(out[k].audio, pos)
        BY <1>0, FramesSound DEF SeenInv
      <3>2. Precedes(out[k].audio, kept)
        BY <1>1, <2>3
      <3>3. Precedes(out[k].audio, new)
        BY <1>0, <2>1, <3>1, WithinPrecedes
      <3> QED
        BY <2>1, <3>1, <3>2, <3>3, PrecedesJoin
    <2> QED
      BY <1>1, <2>1, <2>4, <2>5 DEF OrderInv
  <1>4. CASE Rests
    BY <1>1, <1>4 DEF Rests, OrderInv
  <1> QED
    BY <1>2, <1>3, <1>4, Moves

\* The bytes of packet q in the frames and among those discarded are finitely many.
LEMMA FoundType ==
    ASSUME TypeOK, NEW q
    PROVE  /\ Delivered(q) \in Nat /\ Dropped(q) \in Nat /\ Occurs(rawAudio, q) \in Nat
  <1>1. out \in Seq(Frame) /\ rawAudio \in Seq(Nat) /\ drops \in Seq(Seq(Nat))
    BY DEF TypeOK
  <1>2. [k \in 1..Len(out) |-> out[k].audio] \in Seq(Seq(Nat))
    <2>1. \A k \in 1..Len(out) : out[k].audio \in Seq(Nat)
      BY <1>1, FramesSound
    <2>2. Len(out) \in Nat
      BY <1>1
    <2> QED
      BY <2>1, <2>2
  <1>3. Delivered(q) \in Nat
    BY <1>2, SpreadFinite DEF Delivered
  <1>4. Dropped(q) \in Nat
    BY <1>1, SpreadFinite DEF Dropped
  <1> QED
    BY <1>1, <1>3, <1>4, OccursFacts

\* Nothing of a packet is found before it is read.
LEMMA NotYetFound ==
    ASSUME TypeOK, SeenInv
    PROVE  Delivered(pos + 1) = 0 /\ Dropped(pos + 1) = 0 /\ Occurs(rawAudio, pos + 1) = 0
  <1> DEFINE heard == [k \in 1..Len(out) |-> out[k].audio]
  <1>1. /\ out \in Seq(Frame) /\ rawAudio \in Seq(Nat) /\ drops \in Seq(Seq(Nat)) /\ pos \in Nat
    BY DEF TypeOK
  <1>2. ASSUME NEW s \in Seq(Nat), Within(s, pos)
        PROVE  \A i \in 1..Len(s) : s[i] # pos + 1
    <2>1. \A i \in 1..Len(s) : s[i] \in Nat /\ s[i] <= pos
      BY <1>2 DEF Within
    <2> QED
      BY <1>1, <2>1
  <1>3. \A k \in 1..Len(out) : out[k].audio \in Seq(Nat) /\ Within(out[k].audio, pos)
    BY <1>1, FramesSound DEF SeenInv
  <1>4. /\ heard \in Seq(Seq(Nat)) /\ Len(heard) = Len(out)
        /\ \A k \in 1..Len(heard) : heard[k] = out[k].audio
    <2>1. Len(out) \in Nat
      BY <1>1
    <2> QED
      BY <1>3, <2>1
  <1> HIDE DEF heard
  <1>5. Total(heard, pos + 1) = 0
    <2>1. \A k \in 1..Len(heard) : heard[k] \in Seq(Nat) /\ Within(heard[k], pos)
      BY <1>3, <1>4
    <2>2. \A k \in 1..Len(heard) : \A i \in 1..Len(heard[k]) : heard[k][i] # pos + 1
      BY <1>2, <2>1
    <2> QED
      BY <1>4, <2>2, TotalNone
  <1>6. Total(drops, pos + 1) = 0
    <2>1. \A k \in 1..Len(drops) : drops[k] \in Seq(Nat) /\ Within(drops[k], pos)
      BY <1>1 DEF SeenInv
    <2>2. \A k \in 1..Len(drops) : \A i \in 1..Len(drops[k]) : drops[k][i] # pos + 1
      BY <1>2, <2>1
    <2> QED
      BY <1>1, <2>2, TotalNone
  <1>7. Occurs(rawAudio, pos + 1) = 0
    BY <1>1, <1>2, OccursFacts DEF SeenInv
  <1> QED
    BY <1>5, <1>6, <1>7 DEF Delivered, Dropped, heard

\* Every step keeps the bytes of the packets that were read, and adds all those of
\* the packet it reads.
LEMMA FoundStep ==
    ASSUME TypeOK, RateInv, SeenInv, FoundInv, [Next]_vars, RawFeedAssumption
    PROVE  FoundInv'
  <1> USE DEF inputs
  <1>0. UNCHANGED <<opt, source, cut>>
    BY DEF Next, Reader, Call, CacheMore, Want, Take, ReadAudio, ReadBadLength, ReadBad,
           DiscardVideo, ReadVideo, ReadEOF, ReadCut, ReadError, Poll, Send, Pop, vars
  <1>1. \A q : IsAudio(q)' = IsAudio(q)
    BY <1>0 DEF IsAudio
  <1>2. /\ pos \in Nat /\ out \in Seq(Frame) /\ rawAudio \in Seq(Nat) /\ drops \in Seq(Seq(Nat))
    BY DEF TypeOK
  <1>3. \A q : Delivered(q) \in Nat /\ Dropped(q) \in Nat /\ Occurs(rawAudio, q) \in Nat
    BY FoundType
  <1>4. ASSUME pos' = pos \/ (pos' = pos + 1 /\ ~IsAudio(pos + 1)), \A q \in 1..pos : Found(q)' = Found(q)
        PROVE  FoundInv'
    <2>1. ASSUME NEW q \in 1..pos', IsAudio(q)
          PROVE  q \in 1..pos
      BY <1>2, <1>4, <2>1
    <2> QED
      BY <1>0, <1>1, <1>4, <2>1 DEF FoundInv
  <1>5. ASSUME NEW f, Hands(f)
        PROVE  FoundInv'
    <2>1. /\ f \in Frame /\ f.audio \in Seq(Nat) /\ rawAudio' \in Seq(Nat)
          /\ out' = Append(out, f) /\ rawAudio = f.audio \o rawAudio' /\ drops' = drops
      BY <1>5, FrameSound DEF Hands
    <2>2. ASSUME NEW q \in 1..pos
          PROVE  Found(q)' = Found(q)
      <3>1. Occurs(rawAudio, q) = Occurs(f.audio, q) + Occurs(rawAudio', q)
        BY <2>1, OccursCat
      <3>2. Delivered(q)' = Delivered(q) + Occurs(f.audio, q)
        BY <1>2, <2>1, HeardAppend DEF Delivered
      <3>3. Dropped(q)' = Dropped(q)
        BY <2>1 DEF Dropped
      <3>4. Occurs(f.audio, q) \in Nat /\ Occurs(rawAudio', q) \in Nat
        BY <2>1, OccursFacts
      <3>5. Found(q)' = Delivered(q)' + Dropped(q)' + Occurs(rawAudio', q)
        BY DEF Found
      <3>6. Found(q) = Delivered(q) + Dropped(q) + Occurs(rawAudio, q)
        BY DEF Found
      <3> HIDE DEF Found
      <3> QED
        BY <1>3, <3>1, <3>2, <3>3, <3>4, <3>5, <3>6
    <2>3. pos' = pos \/ (pos' = pos + 1 /\ ~IsAudio(pos + 1))
      BY <1>5 DEF Hands
    <2> QED
      BY <1>4, <2>2, <2>3
  <1>6. ASSUME NEW kept, NEW new, Adds(kept, new)
        PROVE  FoundInv'
    <2>1. /\ kept \in Seq(Nat) /\ new \in Seq(Nat) /\ \A i \in 1..Len(new) : new[i] = pos + 1
          /\ rawAudio' = kept \o new /\ out' = out /\ pos' = pos + 1
          /\ IsAudio(pos + 1) => Occurs(new, pos + 1) = source[pos + 1].len
          /\ \/ kept = rawAudio /\ drops' = drops
             \/ kept = << >> /\ drops' = Append(drops, rawAudio)
      BY <1>6 DEF Adds
    <2>2. ASSUME NEW q
          PROVE  Found(q)' = Found(q) + Occurs(new, q) /\ Occurs(new, q) \in Nat
      <3>1. Occurs(rawAudio', q) = Occurs(kept, q) + Occurs(new, q)
        BY <2>1, OccursCat
      <3>2. Dropped(q)' + Occurs(kept, q) = Dropped(q) + Occurs(rawAudio, q)
        <4>1. CASE kept = rawAudio /\ drops' = drops
          BY <4>1 DEF Dropped
        <4>2. CASE kept = << >> /\ drops' = Append(drops, rawAudio)
          <5>1. Occurs(<< >>, q) = 0
            <6>1. << >> \in Seq(Nat) /\ \A i \in 1..Len(<< >>) : << >>[i] # q
              OBVIOUS
            <6> QED
              BY <6>1, OccursFacts
          <5>2. Dropped(q)' = Dropped(q) + Occurs(rawAudio, q)
            BY <1>2, <4>2, TotalAppend DEF Dropped
          <5> QED
            BY <1>3, <4>2, <5>1, <5>2
        <4> QED
          BY <2>1, <4>1, <4>2
      <3>3. Delivered(q)' = Delivered(q)
        BY <2>1 DEF Delivered
      <3>4. Occurs(kept, q) \in Nat /\ Occurs(new, q) \in Nat
        BY <2>1, OccursFacts
      <3>5. Dropped(q)' \in Nat
        <4>1. drops' \in Seq(Seq(Nat))
          BY TypeStep DEF TypeOK
        <4> QED
          BY <4>1, SpreadFinite, Zenon DEF Dropped
      <3>6. Found(q)' = Delivered(q)' + Dropped(q)' + Occurs(rawAudio', q)
        BY DEF Found
      <3>7. Found(q) = Delivered(q) + Dropped(q) + Occurs(rawAudio, q)
        BY DEF Found
      <3> HIDE DEF Found
      <3> QED
        BY <1>3, <3>1, <3>2, <3>3, <3>4, <3>5, <3>6, <3>7
    <2>3. ASSUME NEW q \in 1..pos, IsAudio(q)
          PROVE  Found(q)' = source[q].len
      <3>1. Occurs(new, q) = 0
        <4>1. \A i \in 1..Len(new) : new[i] # q
          BY <1>2, <2>1
        <4> QED
          BY <2>1, <4>1, OccursFacts
      <3>2. Found(q) = source[q].len /\ Found(q) \in Nat
        BY <1>3, <2>3 DEF FoundInv, Found
      <3> QED
        BY <2>2, <3>1, <3>2
    <2>4. ASSUME NEW q, q = pos + 1, IsAudio(q)
          PROVE  Found(q)' = source[q].len
      <3>1. Found(q) = 0
        BY <2>4, NotYetFound DEF Found
      <3>2. Occurs(new, q) = source[q].len
        BY <2>1, <2>4
      <3> QED
        BY <2>2, <3>1, <3>2
    <2>5. \A q \in 1..pos' : q \in 1..pos \/ q = pos + 1
      BY <1>2, <2>1
    <2> QED
      BY <1>0, <1>1, <2>3, <2>4, <2>5 DEF FoundInv
  <1>7. CASE Rests
    <2>1. UNCHANGED <<rawAudio, out, drops>> /\ (pos' = pos \/ (pos' = pos + 1 /\ ~IsAudio(pos + 1)))
      BY <1>7 DEF Rests
    <2>2. \A q : Found(q)' = Found(q)
      BY <2>1 DEF Found, Delivered, Dropped
    <2> QED
      BY <1>4, <2>1, <2>2
  <1> QED
    BY <1>5, <1>6, <1>7, Moves

-----------------------------------------------------------------------------
(* The theorems.                                                             *)

RawInv == TypeOK /\ RateInv /\ BufferFits /\ OwnInv /\ TagMatches /\ PollInv /\ FeedInv

\* At the start nothing was read.
LEMMA FeedInit ==
    ASSUME Init, RawFeedAssumption
    PROVE  FeedInv
  <1>1. /\ pos = 0 /\ rawAudio = << >> /\ out = << >> /\ drops = << >> /\ bEOF = FALSE
        /\ pc = "call" /\ cut \in IF file /\ source # << >> THEN BOOLEAN ELSE {FALSE}
    BY DEF Init
  <1>2. EndInv
    BY <1>1 DEF EndInv
  <1>3. PictureInv
    <2>1. Pictures = {} /\ FrameAudio(pos + 1) = {} /\ Len(out) = 0
      BY <1>1 DEF Pictures, FrameAudio
    <2>2. \A q : Occurs(<< >>, q) = 0
      <3>1. << >> \in Seq(Nat) /\ \A q : \A i \in 1..Len(<< >>) : << >>[i] # q
        OBVIOUS
      <3> QED
        BY <3>1, OccursFacts
    <2> QED
      BY <1>1, <2>1, <2>2, FS_EmptySet DEF PictureInv
  <1>4. FrameComplete
    BY <1>1 DEF FrameComplete
  <1>5. SeenInv /\ OrderInv
    BY <1>1 DEF SeenInv, OrderInv, Within, Sorted, Precedes
  <1>6. FoundInv
    BY <1>1 DEF FoundInv
  <1> QED
    BY <1>2, <1>3, <1>4, <1>5, <1>6 DEF FeedInv

\* With the invariant on where the bytes are, no byte is lost, doubled or out of
\* order.
LEMMA IntactFound ==
    ASSUME TypeOK, OrderInv, FoundInv
    PROVE  AudioIntact
  <1>1. out \in Seq(Frame) /\ rawAudio \in Seq(Nat) /\ Len(out) \in Nat
    BY DEF TypeOK
  <1>2. /\ Sorted(rawAudio)
        /\ \A k \in 1..Len(out) : Sorted(out[k].audio) /\ Precedes(out[k].audio, rawAudio)
        /\ \A k \in 1..Len(out) - 1 : Precedes(out[k].audio, out[k + 1].audio)
    BY DEF OrderInv
  <1>3. \A q \in 1..pos : IsAudio(q) => Delivered(q) + Dropped(q) + Occurs(rawAudio, q) = source[q].len
    BY DEF FoundInv, Found
  <1>4. ASSUME NEW k \in 1..Len(out)
        PROVE  /\ Sorted(out[k].audio)
               /\ k < Len(out) => Sorted(out[k].audio \o out[k + 1].audio)
               /\ Sorted(out[k].audio \o rawAudio)
    <2>1. out[k].audio \in Seq(Nat)
      BY <1>1, FramesSound
    <2>2. Sorted(out[k].audio \o rawAudio)
      BY <1>1, <1>2, <2>1, SortedJoin
    <2>3. ASSUME k < Len(out)
          PROVE  Sorted(out[k].audio \o out[k + 1].audio)
      <3>1. k \in 1..Len(out) - 1 /\ k + 1 \in 1..Len(out)
        BY <1>1, <2>3
      <3>2. out[k + 1].audio \in Seq(Nat)
        BY <1>1, <3>1, FramesSound
      <3> QED
        BY <1>2, <2>1, <3>1, <3>2, SortedJoin
    <2> QED
      BY <1>2, <2>2, <2>3
  <1> QED
    BY <1>2, <1>3, <1>4 DEF AudioIntact, IsAudio

\* With the invariants on the end and on the pictures, the end that is declared is
\* that of the file.
LEMMA EndFound ==
    ASSUME TypeOK, EndInv, PictureInv, RawFeedAssumption
    PROVE  EofComplete
  <1>1. SUFFICES ASSUME bEOF
                 PROVE  /\ file /\ pos = Len(source)
                        /\ IF opt.main = "audio" THEN rawAudio = << >>
                           ELSE Len(out) = Cardinality({i \in 1..pos :
                                    source[i].type = "VIDEO" /\ ~(cut /\ i = pos)})
    BY DEF EofComplete
  <1>2. file /\ pos = Len(source) /\ (opt.main = "audio" => rawAudio = << >>)
    BY <1>1 DEF EndInv
  <1>3. opt.main # "audio" => opt.main = "video"
    BY DEF TypeOK, RawFeedAssumption, Option
  <1>4. Pictures = {i \in 1..pos : source[i].type = "VIDEO" /\ ~(cut /\ i = pos)}
    BY <1>2 DEF Pictures
  <1> QED
    BY <1>2, <1>3, <1>4 DEF PictureInv

\* The initial state satisfies every part of the invariant.
LEMMA RawInit ==
    ASSUME Init, RawFeedAssumption
    PROVE  RawInv
  <1>1. TypeOK
    <2>1. cut \in BOOLEAN /\ Chunk \in Nat
      BY DEF Init, RawFeedAssumption
    <2>2. Len(source) \in Nat
      BY DEF Init, RawFeedAssumption
    <2>3. sent \in Nat /\ sent <= Len(source)
      BY <2>2 DEF Init
    <2>4. rawAudio \in Seq(Nat) /\ out \in Seq(Frame) /\ drops \in Seq(Seq(Nat))
      BY DEF Init
    <2>5. popped \in 0..Len(out)
      BY DEF Init
    <2>6. /\ opt \in Options /\ source \in Sources /\ pos = 0
          /\ capacity = Chunk /\ product_id = 0 /\ pc = "call"
          /\ timeout = 0 /\ idle = 0 /\ wanted = 0 /\ avail_frames = 0
          /\ recv_frames = 0 /\ recv_audio_bytes_i = 0 /\ error = "none"
      BY DEF Init
    <2>7. bEOF \in BOOLEAN
      BY DEF Init
    <2> QED
      BY <2>1, <2>3, <2>4, <2>5, <2>6, <2>7 DEF TypeOK
  <1>2. 0 * den = 0 /\ 0 * num = 0
    BY FrameSize
  <1>3. Ahead /\ Pace
    BY <1>2, FrameSize DEF Init, Ahead, Pace, num, den
  <1>4. ModeInv /\ WantedInv /\ StopInv /\ SwitchLoss
    BY DEF Init, ModeInv, WantedInv, StopInv, SwitchLoss
  <1>5. BufferFits
    BY DEF Init, BufferFits, audio_size, RawFeedAssumption
  <1>6. OwnInv /\ TagMatches
    BY DEF Init, OwnInv, Current, CurrentIn, TagMatches
  <1>7. PollInv
    BY DEF Init, PollInv
  <1> QED
    BY <1>1, <1>3, <1>4, <1>5, <1>6, <1>7, FeedInit DEF RawInv, RateInv

\* The strengthened invariant holds in every state the readers can reach.
THEOREM RawInvariant == Spec => []RawInv
  <1>1. Init => RawInv
    BY RawInit, RawFeedAssumption
  <1>2. RawInv /\ [Next]_vars => RawInv'
    <2>1. SUFFICES ASSUME RawInv, [Next]_vars
                   PROVE  RawInv'
      OBVIOUS
    <2>2. TypeOK' /\ RateInv' /\ BufferFits'
      BY <2>1, TypeStep, RateStep, BufferStep, RawFeedAssumption DEF RawInv
    <2>3. OwnInv' /\ TagMatches' /\ PollInv'
      BY <2>1, TagStep, PollStep, RawFeedAssumption DEF RawInv
    <2>4. EndInv' /\ PictureInv' /\ FrameComplete'
      BY <2>1, EndStep, PictureStep, RawFeedAssumption DEF RawInv, FeedInv
    <2>5. SeenInv' /\ OrderInv' /\ FoundInv'
      BY <2>1, SeenStep, OrderStep, FoundStep, RawFeedAssumption DEF RawInv, FeedInv
    <2> QED
      BY <2>2, <2>3, <2>4, <2>5 DEF RawInv, FeedInv
  <1> QED
    BY <1>1, <1>2, PTL DEF Spec

\* The state of the raw readers is always well formed; in particular a frame of
\* audio is cut from the buffer with a length the buffer has.
THEOREM RawTypeCorrect == Spec => []TypeOK
  <1>1. RawInv => TypeOK
    BY DEF RawInv
  <1> QED
    BY <1>1, RawInvariant, PTL

\* Whatever the packets and the size of the buffer, the audio of a packet is
\* copied within rawAudio: growing once, by the most a packet may carry, is
\* enough.
THEOREM RawBufferSafe == Spec => []BufferFits
  <1>1. RawInv => BufferFits
    BY DEF RawInv
  <1> QED
    BY <1>1, RawInvariant, PTL

\* However often the products alternate, over a file or over shared memory, no
\* audio reaches the main loop under the product id of another product.
THEOREM RawTagsCorrect == Spec => []TagMatches
  <1>1. RawInv => TagMatches
    BY DEF RawInv
  <1> QED
    BY <1>1, RawInvariant, PTL

\* For every sample rate and frame rate, the audio of a call of
\* cache_video_data is never more than a byte ahead of its frames and never more
\* than AUDIO_DELTA and a byte behind.
THEOREM RawPace == Spec => []Pace
  <1>1. RawInv => Pace
    BY DEF RawInv, RateInv
  <1> QED
    BY <1>1, RawInvariant, PTL

\* A switch of product never costs a raw mainaudio more than a frame of audio.
THEOREM RawSwitchLoss == Spec => []SwitchLoss
  <1>1. RawInv => SwitchLoss
    BY DEF RawInv, RateInv
  <1> QED
    BY <1>1, RawInvariant, PTL

\* For any sequence of packets, any rates and any size of a chunk, the audio stays
\* within the buffer, within the pace of its frames, and within what a switch of
\* product may discard.
THEOREM RawAudioBounds == Spec => []AudioBounds
  <1>1. BufferFits /\ Pace /\ SwitchLoss => AudioBounds
    BY DEF AudioBounds
  <1> QED
    BY <1>1, RawBufferSafe, RawPace, RawSwitchLoss, PTL

\* However the packets and the pauses alternate, a read of shared memory gives up
\* only after max_polls polls without a packet between them.
THEOREM RawPatient == Spec => []PatientRead
  <1>1. RawInv => PatientRead
    BY DEF RawInv, PollInv, PatientRead
  <1> QED
    BY <1>1, RawInvariant, PTL

\* Whatever the packets, a raw mainvideo hands on its pictures in turn, and with
\* each exactly the audio that came since the one before it or since the last
\* switch of product.
THEOREM RawFramesComplete == Spec => []FrameComplete
  <1>1. RawInv => FrameComplete
    BY DEF RawInv, FeedInv
  <1> QED
    BY <1>1, RawInvariant, PTL

\* Whatever the packets, the rates and the order of reads and switches, every byte
\* of audio that was read is exactly once in the frames, in the buffer or among
\* those discarded, in the order in which it was sent.
THEOREM RawAudioIntact == Spec => []AudioIntact
  <1>1. RawInv => AudioIntact
    BY IntactFound DEF RawInv, FeedInv
  <1> QED
    BY <1>1, RawInvariant, PTL

\* The reader never stops early: the end it declares is that of the file, with
\* everything handed on, and it gives up on shared memory only after max_polls
\* polls without a packet.
THEOREM RawEndIsReal == Spec => []EndIsReal
  <1>1. RawInv => EofComplete
    BY EndFound, RawFeedAssumption DEF RawInv, FeedInv
  <1>2. EofComplete /\ PatientRead => EndIsReal
    BY DEF EndIsReal
  <1> QED
    BY <1>1, <1>2, RawInvariant, RawPatient, PTL
=============================================================================
