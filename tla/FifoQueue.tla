----------------------------- MODULE FifoQueue -----------------------------
(***************************************************************************)
(* What a queue between processes promises: messages are received whole, in *)
(* the order they were sent, each at most once and none is passed over.     *)
(***************************************************************************)
EXTENDS Naturals, Sequences

VARIABLES sent, received

Init == sent = << >> /\ received = << >>

\* Messages are numbered in the order in which they enter the queue
Send ==
    /\ sent' = Append(sent, Len(sent) + 1)
    /\ UNCHANGED received

Receive ==
    /\ Len(received) < Len(sent)
    /\ received' = Append(received, sent[Len(received) + 1])
    /\ UNCHANGED sent

Next == Send \/ Receive

Spec == Init /\ [][Next]_<<sent, received>>
=============================================================================
