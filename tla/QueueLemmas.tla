---------------------------- MODULE QueueLemmas -----------------------------
(***************************************************************************)
(* What SafeQueue's operations (safequeue.h) do to a queue that is a         *)
(* sequence: a push at the end, a pop at the front, a floor that keeps the   *)
(* latest frames.                                                           *)
(***************************************************************************)
EXTENDS Integers, Sequences, SequenceTheorems, TLAPS

\* A queue that was cleared has no elements, and only such a queue has none.
LEMMA EmptyFacts ==
    ASSUME NEW S
    PROVE  << >> \in Seq(S) /\ Len(<< >>) = 0 /\ \A q \in Seq(S) : Len(q) = 0 => q = << >>
  OBVIOUS

\* A buffer that was filled with one element, as by PopMove.
LEMMA OneFacts ==
    ASSUME NEW S, NEW e \in S
    PROVE  <<e>> \in Seq(S) /\ Len(<<e>>) = 1 /\ <<e>>[1] = e
  OBVIOUS

\* A push (PushMove) adds the element at the end and leaves the others.
LEMMA PushFacts ==
    ASSUME NEW S, NEW q \in Seq(S), NEW e \in S
    PROVE  /\ Append(q, e) \in Seq(S)
           /\ Len(Append(q, e)) = Len(q) + 1
           /\ DOMAIN Append(q, e) = 1 .. Len(q) + 1
           /\ DOMAIN q = 1 .. Len(q)
           /\ \A i \in 1 .. Len(q) : Append(q, e)[i] = q[i]
           /\ Append(q, e)[Len(q) + 1] = e
  OBVIOUS

\* A pop (PopMove) takes the first element and moves the others up by one.
LEMMA PopFacts ==
    ASSUME NEW S, NEW q \in Seq(S), q # << >>
    PROVE  /\ Head(q) \in S /\ Head(q) = q[1]
           /\ Len(q) \in Nat \ {0}
           /\ Tail(q) \in Seq(S)
           /\ Len(Tail(q)) = Len(q) - 1
           /\ DOMAIN q = 1 .. Len(q)
           /\ DOMAIN Tail(q) = 1 .. Len(q) - 1
           /\ \A i \in 1 .. Len(q) - 1 : Tail(q)[i] = q[i + 1]
  OBVIOUS

\* Dropping the first n elements (Floors, Discard) leaves the others in order.
LEMMA DropFacts ==
    ASSUME NEW S, NEW q \in Seq(S), NEW n \in 0 .. Len(q)
    PROVE  /\ SubSeq(q, n + 1, Len(q)) \in Seq(S)
           /\ Len(SubSeq(q, n + 1, Len(q))) = Len(q) - n
           /\ DOMAIN SubSeq(q, n + 1, Len(q)) = 1 .. Len(q) - n
           /\ DOMAIN q = 1 .. Len(q)
           /\ \A i \in 1 .. Len(q) - n : SubSeq(q, n + 1, Len(q))[i] = q[n + i]
  OBVIOUS

\* What a concatenation holds: the first sequence, then the second.
LEMMA CatFacts ==
    ASSUME NEW S, NEW s \in Seq(S), NEW t \in Seq(S)
    PROVE  /\ s \o t \in Seq(S)
           /\ Len(s) \in Nat /\ Len(t) \in Nat
           /\ Len(s \o t) = Len(s) + Len(t)
           /\ DOMAIN (s \o t) = 1 .. Len(s) + Len(t)
           /\ \A i \in 1 .. Len(s) : (s \o t)[i] = s[i]
           /\ \A i \in 1 .. Len(t) : (s \o t)[Len(s) + i] = t[i]
  OBVIOUS

\* The frame in the producer's hands (a third part of what is in transit) is pushed:
\* what is in transit stays the same.
LEMMA PushThrough ==
    ASSUME NEW S, NEW s \in Seq(S), NEW q \in Seq(S), NEW e \in S
    PROVE  (s \o Append(q, e)) \o << >> = (s \o q) \o <<e>>
  <1>1. Append(q, e) = q \o <<e>>
    OBVIOUS
  <1>2. s \o (q \o <<e>>) = (s \o q) \o <<e>>
    BY ConcatAssociative
  <1>3. (s \o q) \o <<e>> \in Seq(S)
    BY CatFacts
  <1> QED
    BY <1>1, <1>2, <1>3, ConcatEmptySeq

\* The consumer takes the first element of the queue: what is in transit stays the same.
LEMMA PopThrough ==
    ASSUME NEW S, NEW s \in Seq(S), NEW q \in Seq(S), q # << >>
    PROVE  Append(s, Head(q)) \o Tail(q) = s \o q
  <1>1. Head(q) \in S /\ Tail(q) \in Seq(S) /\ q = <<Head(q)>> \o Tail(q)
    OBVIOUS
  <1>2. Append(s, Head(q)) = s \o <<Head(q)>>
    BY <1>1
  <1>3. s \o (<<Head(q)>> \o Tail(q)) = (s \o <<Head(q)>>) \o Tail(q)
    BY <1>1, ConcatAssociative
  <1> QED
    BY <1>1, <1>2, <1>3

\* An element is pushed at the end of the last queue of a way.
LEMMA PushEnd ==
    ASSUME NEW S, NEW s \in Seq(S), NEW q \in Seq(S), NEW e \in S
    PROVE  s \o Append(q, e) = Append(s \o q, e)
  <1>1. s \o q \in Seq(S)
    BY CatFacts
  <1>2. Append(q, e) = q \o <<e>> /\ Append(s \o q, e) = (s \o q) \o <<e>>
    BY <1>1
  <1> QED
    BY <1>2, OneFacts, ConcatAssociative

\* A thread takes the first element of its queue into its empty buffer.
LEMMA TakeThrough ==
    ASSUME NEW S, NEW s \in Seq(S), NEW q \in Seq(S), q # << >>
    PROVE  (s \o <<Head(q)>>) \o Tail(q) = (s \o << >>) \o q
  <1>1. Head(q) \in S /\ Tail(q) \in Seq(S) /\ q = <<Head(q)>> \o Tail(q)
    OBVIOUS
  <1>2. s \o (<<Head(q)>> \o Tail(q)) = (s \o <<Head(q)>>) \o Tail(q)
    BY <1>1, OneFacts, ConcatAssociative
  <1> QED
    BY <1>1, <1>2, ConcatEmptySeq

\* A thread writes its buffer into a pipe, or into the file behind an empty one.
LEMMA WriteThrough ==
    ASSUME NEW S, NEW s \in Seq(S), NEW p \in Seq(S), NEW b \in Seq(S)
    PROVE  /\ (s \o (p \o b)) \o << >> = (s \o p) \o b
           /\ ((s \o b) \o << >>) \o << >> = (s \o << >>) \o b
  <1>1. s \o (p \o b) = (s \o p) \o b
    BY ConcatAssociative
  <1>2. (s \o p) \o b \in Seq(S) /\ s \o b \in Seq(S)
    BY CatFacts
  <1> QED
    BY <1>1, <1>2, ConcatEmptySeq

\* A count of equal parts grows by one part.
LEMMA Products ==
    ASSUME NEW n \in Nat, NEW k \in Nat
    PROVE  /\ n * k \in Nat
           /\ (n + 1) * k = n * k + k
           /\ 0 * k = 0 /\ 1 * k = k
  OBVIOUS
=============================================================================
