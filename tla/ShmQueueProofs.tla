--------------------------- MODULE ShmQueueProofs ---------------------------
(***************************************************************************)
(* Proofs about ShmQueue, for every size of the ring, every reserve and     *)
(* every set of message lengths.  The positions are right with writers of   *)
(* any speed, and between two puts no old message shows in the ring; the    *)
(* whole contents of the ring, and with them the refinement of FifoQueue,   *)
(* need a writer that is faster than the conflict time and a reserve that   *)
(* is enough for two messages.                                              *)
(***************************************************************************)
EXTENDS ShmQueue, SequenceTheorems, TLAPS

\* SQ_ADD_POS stays within the ring.
LEMMA AddPosType == \A p \in Nodes, v \in Nat : AddPos(p, v) \in Nodes
  BY ShmQueueAssumption DEF AddPos, Nodes

\* SQ_ADD_POS of at most one turn: either no wrap or one.
LEMMA AddPosCases ==
    \A p \in Nodes, v \in 0 .. (ele_count + 1) :
        AddPos(p, v) = IF p + v <= ele_count THEN p + v ELSE p + v - (ele_count + 1)
  <1>1. \A x \in Nat, n \in Nat : n > 0 /\ x < n => x % n = x
    OBVIOUS
  <1>2. \A x \in Nat, n \in Nat : n > 0 /\ x >= n /\ x < n + n => x % n = x - n
    OBVIOUS
  <1>3. SUFFICES ASSUME NEW p \in Nodes, NEW v \in 0 .. (ele_count + 1)
                 PROVE  AddPos(p, v) = IF p + v <= ele_count THEN p + v
                                                             ELSE p + v - (ele_count + 1)
    OBVIOUS
  <1>4. p + v \in Nat /\ ele_count + 1 \in Nat /\ ele_count + 1 > 0
    BY ShmQueueAssumption DEF Nodes
  <1>5. p + v < (ele_count + 1) + (ele_count + 1)
    BY ShmQueueAssumption DEF Nodes
  <1>6. CASE p + v <= ele_count
    BY <1>1, <1>4, <1>6, ShmQueueAssumption DEF AddPos, Nodes
  <1>7. CASE p + v > ele_count
    BY <1>2, <1>4, <1>5, <1>7, ShmQueueAssumption DEF AddPos, Nodes
  <1> QED
    BY <1>4, <1>6, <1>7, ShmQueueAssumption DEF Nodes

\* SQ_USED_NODES2 is a number.
LEMMA UsedNodesInt == \A h, t \in Nodes : UsedNodes(h, t) \in Int
  BY ShmQueueAssumption DEF UsedNodes, EmptyNodes, Nodes

\* SQ_USED_NODES2 is the distance from the head to the tail.
LEMMA UsedNodesCases ==
    \A h, t \in Nodes :
        UsedNodes(h, t) = IF h <= t THEN t - h ELSE t - h + (ele_count + 1)
  <1>1. \A x \in Nat, n \in Nat : n > 0 /\ x < n => x % n = x
    OBVIOUS
  <1>2. \A x \in Nat, n \in Nat : n > 0 /\ x >= n /\ x < n + n => x % n = x - n
    OBVIOUS
  <1>3. SUFFICES ASSUME NEW h \in Nodes, NEW t \in Nodes
                 PROVE  UsedNodes(h, t) = IF h <= t THEN t - h
                                                    ELSE t - h + (ele_count + 1)
    OBVIOUS
  <1>4. h + ele_count - t \in Nat /\ ele_count + 1 \in Nat /\ ele_count + 1 > 0
    BY ShmQueueAssumption DEF Nodes
  <1>5. CASE h <= t
    BY <1>1, <1>4, <1>5, ShmQueueAssumption DEF EmptyNodes, UsedNodes, Nodes
  <1>6. CASE h > t
    <2>1. h + ele_count - t >= ele_count + 1
      BY <1>6, ShmQueueAssumption DEF Nodes
    <2>2. h + ele_count - t < (ele_count + 1) + (ele_count + 1)
      BY ShmQueueAssumption DEF Nodes
    <2>3. (h + ele_count - t) % (ele_count + 1) = h + ele_count - t - (ele_count + 1)
      BY <1>2, <1>4, <2>1, <2>2, ShmQueueAssumption DEF Nodes
    <2> QED
      BY <2>3, <1>6, ShmQueueAssumption DEF UsedNodes, EmptyNodes, Nodes
  <1> QED
    BY <1>5, <1>6 DEF Nodes

-----------------------------------------------------------------------------
\* Every variable keeps its type, whatever the number of writers and readers:
\* no position ever leaves the ring.
THEOREM TypeCorrect == Spec => []TypeOK
  <1>1. Init => TypeOK
    BY ShmQueueAssumption DEF Init, TypeOK, ShmTypeOK, PutTypeOK, GetTypeOK, HistoryTypeOK, Nodes
  <1>2. TypeOK /\ [Next]_vars => TypeOK'
    <2> SUFFICES ASSUME TypeOK, [Next]_vars PROVE TypeOK'
      OBVIOUS
    <2> USE ShmQueueAssumption DEF TypeOK
    <2>1. ASSUME NEW w \in Writers, sq_put(w) PROVE TypeOK'
      <3> USE <2>1
      <3>0. GetTypeOK'
        BY DEF sq_put, PutStep, PutBegin, PutReadTail, PutFull, PutCheck, PutWrap, PutClaim,
               PutClaimLost, PutMark, PutFill, PutPublish, rvars, GetTypeOK
      <3>1. CASE \E nr \in Lens : PutBegin(w, nr)
        <4>1. PICK nr \in Lens : PutBegin(w, nr)
          BY <3>1
        <4>2. PutTypeOK'
          BY <4>1 DEF PutBegin, PutTypeOK
        <4>3. ShmTypeOK' /\ HistoryTypeOK'
          BY <4>1 DEF PutBegin, shm, ShmTypeOK, HistoryTypeOK
        <4> QED
          BY <3>0, <4>2, <4>3
      <3>2. CASE PutReadTail(w)
        <4>1. PutTypeOK'
          BY <3>2 DEF PutReadTail, PutTypeOK, ShmTypeOK
        <4>2. ShmTypeOK' /\ HistoryTypeOK'
          BY <3>2 DEF PutReadTail, shm, ShmTypeOK, HistoryTypeOK
        <4> QED
          BY <3>0, <4>1, <4>2
      <3>3. CASE PutFull(w)
        <4>1. PutTypeOK'
          BY <3>3 DEF PutFull, PutTypeOK
        <4>2. ShmTypeOK' /\ HistoryTypeOK'
          BY <3>3 DEF PutFull, shm, ShmTypeOK, HistoryTypeOK
        <4> QED
          BY <3>0, <4>1, <4>2
      <3>4. CASE PutCheck(w)
        <4>1. AddPos(tail_pos, nr_nodes[w]) \in Nodes
          BY AddPosType DEF ShmTypeOK, PutTypeOK, GetTypeOK
        <4>2. PutTypeOK'
          BY <3>4, <4>1 DEF PutCheck, PutTypeOK
        <4>3. ShmTypeOK' /\ HistoryTypeOK'
          BY <3>4 DEF PutCheck, shm, ShmTypeOK, HistoryTypeOK
        <4> QED
          BY <3>0, <4>2, <4>3
      <3>5. CASE PutWrap(w)
        <4>1. 0 \in Nodes
          BY DEF Nodes
        <4>2. ~(head_pos - 1 < nr_nodes[w]) => nr_nodes[w] \in Nodes
          BY DEF ShmTypeOK, PutTypeOK, Nodes
        <4>3. PutTypeOK'
          BY <3>5, <4>1, <4>2 DEF PutWrap, PutTypeOK
        <4>4. ShmTypeOK' /\ HistoryTypeOK'
          BY <3>5 DEF PutWrap, shm, ShmTypeOK, HistoryTypeOK
        <4> QED
          BY <3>0, <4>3, <4>4
      <3>6. CASE PutClaim(w)
        <4>1. PutTypeOK'
          BY <3>6 DEF PutClaim, PutTypeOK, HistoryTypeOK
        <4>2. ShmTypeOK'
          BY <3>6 DEF PutClaim, ShmTypeOK, PutTypeOK
        <4>3. HistoryTypeOK'
          BY <3>6 DEF PutClaim, HistoryTypeOK
        <4> QED
          BY <3>0, <4>1, <4>2, <4>3
      <3>7. CASE PutClaimLost(w)
        <4>1. PutTypeOK'
          BY <3>7 DEF PutClaimLost, PutTypeOK
        <4>2. ShmTypeOK' /\ HistoryTypeOK'
          BY <3>7 DEF PutClaimLost, shm, ShmTypeOK, HistoryTypeOK
        <4> QED
          BY <3>0, <4>1, <4>2
      <3>8. CASE PutMark(w)
        <4>1. AddPos(old_tail[w], 1) \in Nodes
          BY AddPosType DEF ShmTypeOK, PutTypeOK, GetTypeOK
        <4>2. PutTypeOK'
          BY <3>8, <4>1 DEF PutMark, PutTypeOK
        <4>3. ShmTypeOK'
          BY <3>8, <4>1 DEF PutMark, ShmTypeOK, PutTypeOK
        <4>4. HistoryTypeOK'
          BY <3>8 DEF PutMark, HistoryTypeOK
        <4> QED
          BY <3>0, <4>2, <4>3, <4>4
      <3>9. CASE PutFill(w)
        <4>1. PutTypeOK'
          BY <3>9 DEF PutFill, PutTypeOK
        <4>2. ShmTypeOK'
          BY <3>9 DEF PutFill, ShmTypeOK, PutTypeOK
        <4>3. HistoryTypeOK'
          BY <3>9 DEF PutFill, HistoryTypeOK
        <4> QED
          BY <3>0, <4>1, <4>2, <4>3
      <3>10. CASE PutPublish(w)
        <4>1. PutTypeOK'
          BY <3>10 DEF PutPublish, PutTypeOK
        <4>2. ShmTypeOK'
          BY <3>10 DEF PutPublish, ShmTypeOK, PutTypeOK
        <4>3. HistoryTypeOK'
          BY <3>10 DEF PutPublish, HistoryTypeOK
        <4> QED
          BY <3>0, <4>1, <4>2, <4>3
      <3> QED
        BY <3>1, <3>2, <3>3, <3>4, <3>5, <3>6, <3>7, <3>8, <3>9, <3>10 DEF sq_put, PutStep
    <2>2. ASSUME NEW r \in Readers, sq_get(r) PROVE TypeOK'
      <3> USE <2>2
      <3>0. PutTypeOK'
        BY DEF sq_get, GetBegin, GetTail, GetCasEmpty, GetToken, GetConflict, GetRecheck,
               SkipNode, GetLen, GetTooLong, GetCopy, GetCas, GetClear, wvars, PutTypeOK
      <3>1. CASE GetBegin(r)
        <4>1. GetTypeOK'
          BY <3>1 DEF GetBegin, GetTypeOK, ShmTypeOK
        <4>2. ShmTypeOK' /\ HistoryTypeOK'
          BY <3>1 DEF GetBegin, shm, ShmTypeOK, HistoryTypeOK
        <4> QED
          BY <3>0, <4>1, <4>2
      <3>2. CASE GetTail(r)
        <4>1. GetTypeOK'
          BY <3>2 DEF GetTail, GetTypeOK
        <4>2. ShmTypeOK' /\ HistoryTypeOK'
          BY <3>2 DEF GetTail, shm, ShmTypeOK, HistoryTypeOK
        <4> QED
          BY <3>0, <4>1, <4>2
      <3>3. CASE GetCasEmpty(r)
        <4>1. GetTypeOK'
          BY <3>3 DEF GetCasEmpty, GetTypeOK
        <4>2. ShmTypeOK'
          BY <3>3 DEF GetCasEmpty, ShmTypeOK, GetTypeOK
        <4>3. HistoryTypeOK'
          BY <3>3 DEF GetCasEmpty, HistoryTypeOK
        <4> QED
          BY <3>0, <4>1, <4>2, <4>3
      <3>4. CASE GetToken(r)
        <4>1. GetTypeOK'
          BY <3>4 DEF GetToken, GetTypeOK
        <4>2. ShmTypeOK' /\ HistoryTypeOK'
          BY <3>4 DEF GetToken, shm, ShmTypeOK, HistoryTypeOK
        <4> QED
          BY <3>0, <4>1, <4>2
      <3>5. CASE GetConflict(r)
        <4>a. head_pos \in Nodes
          BY DEF ShmTypeOK
        <4>1. GetTypeOK'
          <5>1. CASE old_head[r] # head_pos
            <6>1. /\ rw_conflict_time' = [rw_conflict_time EXCEPT ![r] = FALSE]
                  /\ old_head' = [old_head EXCEPT ![r] = head_pos]
                  /\ head' = [head EXCEPT ![r] = head_pos]
                  /\ rpc' = [rpc EXCEPT ![r] = "tail"]
                  /\ UNCHANGED <<new_head, rlen, buf>>
              BY <3>5, <5>1 DEF GetConflict
            <6>2. /\ old_head' \in [Readers -> Nodes]
                  /\ head' \in [Readers -> Nodes]
              BY <4>a, <6>1 DEF GetTypeOK
            <6> QED
              BY <6>1, <6>2 DEF GetTypeOK
          <5>2. CASE old_head[r] = head_pos
            BY <3>5, <5>2 DEF GetConflict, GetTypeOK
          <5> QED
            BY <5>1, <5>2
        <4>2. ShmTypeOK' /\ HistoryTypeOK'
          BY <3>5 DEF GetConflict, shm, ShmTypeOK, HistoryTypeOK
        <4> QED
          BY <3>0, <4>1, <4>2
      <3>6. CASE GetRecheck(r)
        <4>1. AddPos(head[r], 1) \in Nodes
          BY AddPosType DEF ShmTypeOK, PutTypeOK, GetTypeOK
        <4>2. GetTypeOK'
          <5>1. CASE SkipNode(r) /\ UNCHANGED rlen
            BY <4>1, <5>1 DEF SkipNode, GetTypeOK
          <5>2. CASE /\ rpc' = [rpc EXCEPT ![r] = "len"]
                     /\ UNCHANGED <<old_head, new_head, head, buf, rw_conflict_time, rlen>>
            BY <5>2 DEF GetTypeOK
          <5> QED
            BY <3>6, <5>1, <5>2 DEF GetRecheck
        <4>3. ShmTypeOK' /\ HistoryTypeOK'
          BY <3>6 DEF GetRecheck, SkipNode, shm, ShmTypeOK, HistoryTypeOK
        <4> QED
          BY <3>0, <4>2, <4>3
      <3>7. CASE GetLen(r)
        <4>1. AddPos(head[r], 1) \in Nodes
          BY AddPosType DEF ShmTypeOK, PutTypeOK, GetTypeOK
        <4>a. datalen[head[r]] \in Nat
          BY DEF ShmTypeOK, GetTypeOK
        <4>b. rlen' \in [Readers -> Nat]
          <5>1. rlen' = [rlen EXCEPT ![r] = datalen[head[r]]]
            BY <3>7 DEF GetLen
          <5> QED
            BY <4>a, <5>1 DEF GetTypeOK
        <4>c. UNCHANGED <<old_head, new_head, buf>>
          BY <3>7 DEF GetLen, SkipNode
        <4>d. \/ SkipNode(r)
              \/ /\ rpc' = [rpc EXCEPT ![r] = "copy"]
                 /\ UNCHANGED <<head, rw_conflict_time>>
          BY <3>7 DEF GetLen
        <4>e. /\ rpc' \in [Readers -> {"idle", "tail", "casempty", "token", "conflict",
                                      "recheck", "len", "copy", "cas", "clear"}]
              /\ head' \in [Readers -> Nodes]
              /\ rw_conflict_time' \in [Readers -> BOOLEAN]
          <5>1. CASE SkipNode(r)
            BY <5>1, <4>1 DEF SkipNode, GetTypeOK
          <5>2. CASE /\ rpc' = [rpc EXCEPT ![r] = "copy"]
                     /\ UNCHANGED <<head, rw_conflict_time>>
            BY <5>2 DEF GetTypeOK
          <5> QED
            BY <4>d, <5>1, <5>2
        <4>2. GetTypeOK'
          BY <4>b, <4>c, <4>e DEF GetTypeOK
        <4>3. ShmTypeOK' /\ HistoryTypeOK'
          BY <3>7 DEF GetLen, SkipNode, shm, ShmTypeOK, HistoryTypeOK
        <4> QED
          BY <3>0, <4>2, <4>3
      <3>8. CASE GetTooLong(r)
        <4>1. GetTypeOK'
          BY <3>8 DEF GetTooLong, GetTypeOK
        <4>2. ShmTypeOK' /\ HistoryTypeOK'
          BY <3>8 DEF GetTooLong, shm, ShmTypeOK, HistoryTypeOK
        <4> QED
          BY <3>0, <4>1, <4>2
      <3>9. CASE GetCopy(r)
        <4>1. AddPos(head[r], rlen[r]) \in Nodes
          BY AddPosType DEF ShmTypeOK, PutTypeOK, GetTypeOK
        <4>2. Contents(head[r], rlen[r]) \in Nat \cup {Torn}
          BY DEF Contents, ShmTypeOK, GetTypeOK
        <4>3. GetTypeOK'
          BY <3>9, <4>1, <4>2 DEF GetCopy, GetTypeOK
        <4>4. ShmTypeOK' /\ HistoryTypeOK'
          BY <3>9 DEF GetCopy, shm, ShmTypeOK, HistoryTypeOK
        <4> QED
          BY <3>0, <4>3, <4>4
      <3>10. CASE GetCas(r)
        <4>1. GetTypeOK'
          <5>a. head_pos \in Nodes
            BY DEF ShmTypeOK
          <5>1. CASE head_pos = old_head[r]
            BY <3>10, <5>1 DEF GetCas, GetTypeOK
          <5>2. CASE head_pos # old_head[r]
            <6>1. /\ old_head' = [old_head EXCEPT ![r] = head_pos]
                  /\ head' = [head EXCEPT ![r] = head_pos]
                  /\ rpc' = [rpc EXCEPT ![r] = "tail"]
                  /\ UNCHANGED <<new_head, rlen, buf, rw_conflict_time>>
              BY <3>10, <5>2 DEF GetCas
            <6>2. old_head' \in [Readers -> Nodes] /\ head' \in [Readers -> Nodes]
              BY <5>a, <6>1 DEF GetTypeOK
            <6> QED
              BY <6>1, <6>2 DEF GetTypeOK
          <5> QED
            BY <5>1, <5>2
        <4>2. ShmTypeOK'
          BY <3>10 DEF GetCas, ShmTypeOK, GetTypeOK
        <4>3. HistoryTypeOK'
          <5>1. buf[r] \in Nat \cup {Torn}
            BY DEF GetTypeOK
          <5>2. /\ claimed' = claimed
                /\ got' = got \/ got' = Append(got, buf[r])
            BY <3>10 DEF GetCas
          <5>3. got \in Seq(Nat \cup {Torn}) /\ claimed' \in Seq(Nat)
            BY <5>2 DEF HistoryTypeOK
          <5>4. Append(got, buf[r]) \in Seq(Nat \cup {Torn})
            BY <5>1, <5>3, AppendProperties
          <5>5. got' \in Seq(Nat \cup {Torn})
            BY <5>2, <5>3, <5>4
          <5> QED
            BY <5>3, <5>5 DEF HistoryTypeOK
        <4> QED
          BY <3>0, <4>1, <4>2, <4>3
      <3>11. CASE GetClear(r)
        <4>1. AddPos(old_head[r], 1) \in Nodes
          BY AddPosType DEF ShmTypeOK, PutTypeOK, GetTypeOK
        <4>2. GetTypeOK'
          BY <3>11, <4>1 DEF GetClear, GetTypeOK
        <4>3. ShmTypeOK'
          BY <3>11, <4>1 DEF GetClear, ShmTypeOK, GetTypeOK
        <4>4. HistoryTypeOK'
          BY <3>11 DEF GetClear, HistoryTypeOK
        <4> QED
          BY <3>0, <4>2, <4>3, <4>4
      <3> QED
        BY <3>1, <3>2, <3>3, <3>4, <3>5, <3>6, <3>7, <3>8, <3>9, <3>10, <3>11 DEF sq_get
    <2>3. CASE UNCHANGED vars
      BY <2>3 DEF vars, shm, wvars, rvars, ShmTypeOK, PutTypeOK, GetTypeOK, HistoryTypeOK
    <2> QED
      BY <2>1, <2>2, <2>3 DEF Next
  <1> QED
    BY <1>1, <1>2, PTL DEF Spec

-----------------------------------------------------------------------------
(* One writer and one reader, the way decorateVideo uses the ring.          *)

\* The claim of sq_put only makes the window larger: what sq_get knows about
\* its positions survives the CAS on tail_pos.
LEMMA ClaimKeepsReader ==
    ASSUME NEW w \in Writers, NEW r \in Readers,
           TypeOK, ClaimInv(w), GetInv(r), PutClaim(w)
    PROVE  GetInv(r)'
  <1> DEFINE new == new_tail[w]
  <1>1. /\ head_pos \in Nodes /\ tail_pos \in Nodes /\ new \in Nodes
        /\ head[r] \in Nodes /\ new_head[r] \in Nodes /\ rlen[r] \in Nat
        /\ nr_nodes[w] \in Nat
    BY DEF TypeOK, ShmTypeOK, PutTypeOK, GetTypeOK
  <1>2. /\ tail_pos' = new /\ head_pos' = head_pos
        /\ rpc' = rpc /\ head' = head /\ old_head' = old_head /\ new_head' = new_head
        /\ rlen' = rlen
    BY DEF PutClaim, rvars
  <1>3. \/ tail_pos < new /\ head_pos <= tail_pos
        \/ tail_pos < new /\ new < head_pos
        \/ head_pos <= tail_pos /\ new < head_pos
    BY <1>1, ShmQueueAssumption DEF ClaimInv, PutClaim, Nodes
  <1>4. ASSUME NEW p \in Nodes, InWindow(p)
        PROVE  /\ InWindow(p)'
               /\ p # tail_pos => p # new
    BY <1>1, <1>2, <1>3, <1>4 DEF InWindow, Nodes
  <1>5. ASSUME NEW p \in Nodes, InWindow(p), p # tail_pos
        PROVE  UsedNodes(p, tail_pos) <= UsedNodes(p, new)
    <2> DEFINE U(a, b) == IF a <= b THEN b - a ELSE b - a + (ele_count + 1)
    <2>1. UsedNodes(p, tail_pos) = U(p, tail_pos) /\ UsedNodes(p, new) = U(p, new)
      BY <1>1, UsedNodesCases
    <2>2. U(p, tail_pos) <= U(p, new)
      BY <1>1, <1>3, <1>5, ShmQueueAssumption DEF InWindow, Nodes
    <2> QED
      BY <2>1, <2>2
  <1>6. UsedNodes(head[r], tail_pos) \in Int /\ UsedNodes(head[r], new) \in Int
    BY <1>1, UsedNodesInt
  <1>7. rpc[r] = "copy" => rlen[r] <= UsedNodes(head[r], new)
    BY <1>1, <1>5, <1>6 DEF GetInv
  <1> QED
    BY <1>1, <1>2, <1>4, <1>7 DEF GetInv

\* A step of sq_get that moves head_pos moves it within the window, and what
\* sq_put knows about its claim survives.
LEMMA HeadKeepsWriter ==
    ASSUME NEW w \in Writers, TypeOK, TypeOK', ClaimInv(w), InWindow(head_pos'),
           UNCHANGED <<tail_pos, wvars>>
    PROVE  ClaimInv(w)'
  <1>1. /\ head_pos \in Nodes /\ tail_pos \in Nodes /\ head_pos' \in Nodes
        /\ new_tail[w] \in Nodes /\ nr_nodes[w] \in Nat
    BY DEF TypeOK, ShmTypeOK, PutTypeOK
  <1> QED
    BY <1>1, ShmQueueAssumption DEF ClaimInv, InWindow, wvars, Nodes

\* The inductive step of WindowInv.
LEMMA WindowNext ==
    ASSUME NEW w1, NEW r1, Writers = {w1}, Readers = {r1},
           TypeOK, TypeOK', WindowInv, [Next]_vars
    PROVE  WindowInv'
  <1>0. ClaimInv(w1) /\ GetInv(r1) /\ w1 \in Writers /\ r1 \in Readers
    BY DEF WindowInv
  <1>1. SUFFICES ClaimInv(w1)' /\ GetInv(r1)'
    BY DEF WindowInv
  <1> USE <1>0
  <1>2. CASE sq_put(w1)
    <2>1. CASE \E nr \in Lens : PutBegin(w1, nr)
      <3>1. PICK nr \in Lens : PutBegin(w1, nr)
        BY <2>1
      <3>2. ClaimInv(w1)'
        BY <3>1, ShmQueueAssumption DEF PutBegin, ClaimInv, shm, TypeOK, PutTypeOK
      <3> QED
        BY <3>1, <3>2 DEF PutBegin, GetInv, InWindow, shm, rvars
    <2>2. CASE PutReadTail(w1)
      <3>1. ClaimInv(w1)'
        BY <2>2 DEF PutReadTail, ClaimInv, shm, TypeOK, PutTypeOK
      <3> QED
        BY <2>2, <3>1 DEF PutReadTail, GetInv, InWindow, shm, rvars
    <2>3. CASE PutFull(w1)
      BY <2>3 DEF PutFull, ClaimInv, GetInv, InWindow, shm, rvars, TypeOK, PutTypeOK
    <2>4. CASE PutCheck(w1)
      <3>1. /\ head_pos \in Nodes /\ tail_pos \in Nodes /\ nr_nodes[w1] \in Nat
            /\ old_tail[w1] = tail_pos /\ nr_nodes[w1] > 0
        BY <2>4 DEF PutCheck, ClaimInv, TypeOK, ShmTypeOK, PutTypeOK
      <3>2. ele_count - UsedNodes(head_pos, tail_pos) >= nr_nodes[w1]
        <4>1. EmptyNodes(head_pos, tail_pos) >= nr_nodes[w1] + RESERVE_BLOCK_COUNT
          <5>1. EmptyNodes(head_pos, tail_pos) \in Int
            BY <3>1, ShmQueueAssumption DEF EmptyNodes, Nodes
          <5> QED
            BY <2>4, <3>1, <5>1, ShmQueueAssumption DEF PutCheck, NotEnough
        <4>2. EmptyNodes(head_pos, tail_pos) \in Int
          BY <3>1, ShmQueueAssumption DEF EmptyNodes, Nodes
        <4> QED
          BY <3>1, <4>1, <4>2, ShmQueueAssumption DEF UsedNodes
      <3>3. \/ head_pos <= tail_pos /\ ele_count - (tail_pos - head_pos) >= nr_nodes[w1]
            \/ head_pos > tail_pos /\ tail_pos + nr_nodes[w1] < head_pos
        BY <3>1, <3>2, UsedNodesCases, ShmQueueAssumption DEF Nodes
      <3>4. AddPos(tail_pos, nr_nodes[w1]) =
                IF tail_pos + nr_nodes[w1] <= ele_count THEN tail_pos + nr_nodes[w1]
                ELSE tail_pos + nr_nodes[w1] - (ele_count + 1)
        <4>1. nr_nodes[w1] \in 0 .. (ele_count + 1)
          BY <3>1, <3>3, ShmQueueAssumption DEF Nodes
        <4> QED
          BY <3>1, <4>1, AddPosCases
      <3>5. /\ new_tail'[w1] = AddPos(tail_pos, nr_nodes[w1])
            /\ idx'[w1] = tail_pos
            /\ wpc'[w1] = IF new_tail'[w1] < tail_pos THEN "wrap" ELSE "cas"
            /\ old_tail' = old_tail /\ nr_nodes' = nr_nodes
            /\ head_pos' = head_pos /\ tail_pos' = tail_pos
        BY <2>4, <3>1 DEF PutCheck, shm, TypeOK, PutTypeOK
      <3>6. ClaimInv(w1)'
        BY <3>1, <3>3, <3>4, <3>5, ShmQueueAssumption DEF ClaimInv, Nodes
      <3> QED
        BY <2>4, <3>6 DEF PutCheck, GetInv, InWindow, shm, rvars
    <2>5. CASE PutWrap(w1)
      <3>1. ClaimInv(w1)'
        <4>1. /\ head_pos \in Nat /\ tail_pos \in Nat /\ nr_nodes[w1] \in Nat
              /\ wpc[w1] = "wrap" /\ UNCHANGED <<head_pos, tail_pos, nr_nodes, old_tail>>
          BY <2>5 DEF PutWrap, shm, TypeOK, ShmTypeOK, PutTypeOK, Nodes
        <4>2. CASE head_pos - 1 < nr_nodes[w1]
          <5>1. wpc'[w1] = "idle"
            BY <2>5, <4>2 DEF PutWrap, TypeOK, PutTypeOK
          <5> QED
            BY <5>1 DEF ClaimInv
        <4>3. CASE ~(head_pos - 1 < nr_nodes[w1])
          <5>1. wpc'[w1] = "cas" /\ idx'[w1] = 0 /\ new_tail'[w1] = nr_nodes[w1]
            BY <2>5, <4>3 DEF PutWrap, TypeOK, PutTypeOK
          <5> QED
            BY <4>1, <4>3, <5>1 DEF ClaimInv
        <4> QED
          BY <4>2, <4>3
      <3> QED
        BY <2>5, <3>1 DEF PutWrap, GetInv, InWindow, shm, rvars
    <2>6. CASE PutClaim(w1)
      <3>1. ClaimInv(w1)'
        BY <2>6 DEF PutClaim, ClaimInv, TypeOK, PutTypeOK
      <3> QED
        BY <2>6, <3>1, ClaimKeepsReader
    <2>7. CASE PutClaimLost(w1)
      BY <2>7 DEF PutClaimLost, ClaimInv
    <2>8. CASE PutMark(w1)
      <3>1. ClaimInv(w1)'
        BY <2>8 DEF PutMark, ClaimInv, TypeOK, PutTypeOK
      <3> QED
        BY <2>8, <3>1 DEF PutMark, GetInv, InWindow, rvars
    <2>9. CASE PutFill(w1)
      <3>1. ClaimInv(w1)'
        BY <2>9 DEF PutFill, ClaimInv, TypeOK, PutTypeOK
      <3> QED
        BY <2>9, <3>1 DEF PutFill, GetInv, InWindow, rvars
    <2>10. CASE PutPublish(w1)
      <3>1. ClaimInv(w1)'
        BY <2>10 DEF PutPublish, ClaimInv, TypeOK, PutTypeOK
      <3> QED
        BY <2>10, <3>1 DEF PutPublish, GetInv, InWindow, rvars
    <2> QED
      BY <1>2, <2>1, <2>2, <2>3, <2>4, <2>5, <2>6, <2>7, <2>8, <2>9, <2>10
         DEF sq_put, PutStep
  <1>3. CASE sq_get(r1)
    <2>0. /\ head_pos \in Nodes /\ tail_pos \in Nodes /\ head[r1] \in Nodes
          /\ new_head[r1] \in Nodes /\ rlen[r1] \in Nat
      BY DEF TypeOK, ShmTypeOK, GetTypeOK
    <2>1. InWindow(head_pos) /\ InWindow(tail_pos)
      BY <2>0, ShmQueueAssumption DEF InWindow, Nodes
    <2>2. ASSUME InWindow(head[r1]), head[r1] # tail_pos
          PROVE  InWindow(AddPos(head[r1], 1))
      <3>1. AddPos(head[r1], 1) = IF head[r1] + 1 <= ele_count THEN head[r1] + 1 ELSE 0
        BY <2>0, AddPosCases, ShmQueueAssumption DEF Nodes
      <3> QED
        BY <2>0, <2>2, <3>1, ShmQueueAssumption DEF InWindow, Nodes
    <2>3. ASSUME InWindow(head[r1]), rlen[r1] <= UsedNodes(head[r1], tail_pos)
          PROVE  InWindow(AddPos(head[r1], rlen[r1]))
      <3>1. UsedNodes(head[r1], tail_pos) =
                IF head[r1] <= tail_pos THEN tail_pos - head[r1]
                                        ELSE tail_pos - head[r1] + (ele_count + 1)
        BY <2>0, UsedNodesCases
      <3>2. rlen[r1] \in 0 .. (ele_count + 1)
        BY <2>0, <2>3, <3>1, ShmQueueAssumption DEF Nodes
      <3>3. AddPos(head[r1], rlen[r1]) =
                IF head[r1] + rlen[r1] <= ele_count THEN head[r1] + rlen[r1]
                ELSE head[r1] + rlen[r1] - (ele_count + 1)
        BY <2>0, <3>2, AddPosCases
      <3> QED
        BY <2>0, <2>3, <3>1, <3>3, ShmQueueAssumption DEF InWindow, Nodes
    <2>4. ASSUME UNCHANGED <<head_pos, tail_pos, wvars>> PROVE ClaimInv(w1)'
      BY <2>1, <2>4, HeadKeepsWriter
    <2> USE DEF TypeOK, GetTypeOK
    <2>5. CASE GetBegin(r1)
      <3>1. GetInv(r1)'
        BY <2>1, <2>5 DEF GetBegin, GetInv, InWindow, shm
      <3> QED
        BY <2>4, <2>5, <3>1 DEF GetBegin, shm
    <2>6. CASE GetTail(r1)
      <3>1. GetInv(r1)'
        BY <2>6 DEF GetTail, GetInv, InWindow, shm
      <3> QED
        BY <2>4, <2>6, <3>1 DEF GetTail, shm
    <2>7. CASE GetCasEmpty(r1)
      <3>1. GetInv(r1)'
        BY <2>7 DEF GetCasEmpty, GetInv
      <3>2. InWindow(head_pos')
        BY <2>1, <2>7 DEF GetCasEmpty, GetInv
      <3> QED
        BY <2>7, <3>1, <3>2, HeadKeepsWriter DEF GetCasEmpty
    <2>8. CASE GetToken(r1)
      <3>1. GetInv(r1)'
        BY <2>8 DEF GetToken, GetInv, InWindow, shm
      <3> QED
        BY <2>4, <2>8, <3>1 DEF GetToken, shm
    <2>9. CASE GetConflict(r1)
      <3>1. GetInv(r1)'
        BY <2>1, <2>9 DEF GetConflict, GetInv, InWindow, shm
      <3> QED
        BY <2>4, <2>9, <3>1 DEF GetConflict, shm
    <2>10. CASE GetRecheck(r1)
      <3>1. GetInv(r1)'
        BY <2>2, <2>10 DEF GetRecheck, SkipNode, GetInv, InWindow, shm
      <3> QED
        BY <2>4, <2>10, <3>1 DEF GetRecheck, SkipNode, shm
    <2>11. CASE GetLen(r1)
      <3>1. UsedNodes(head[r1], tail_pos) \in Int /\ datalen[head[r1]] \in Nat
        BY <2>0, UsedNodesInt DEF ShmTypeOK
      <3>2. GetInv(r1)'
        BY <2>2, <2>11, <3>1 DEF GetLen, SkipNode, GetInv, InWindow, shm
      <3> QED
        BY <2>4, <2>11, <3>2 DEF GetLen, SkipNode, shm
    <2>12. CASE GetTooLong(r1)
      <3>1. GetInv(r1)'
        BY <2>12 DEF GetTooLong, GetInv, InWindow, shm
      <3> QED
        BY <2>4, <2>12, <3>1 DEF GetTooLong, shm
    <2>13. CASE GetCopy(r1)
      <3>1. GetInv(r1)'
        BY <2>3, <2>13 DEF GetCopy, GetInv, InWindow, shm
      <3> QED
        BY <2>4, <2>13, <3>1 DEF GetCopy, shm
    <2>14. CASE GetCas(r1)
      <3>1. GetInv(r1)'
        BY <2>14 DEF GetCas, GetInv
      <3>2. InWindow(head_pos')
        BY <2>1, <2>14 DEF GetCas, GetInv
      <3> QED
        BY <2>14, <3>1, <3>2, HeadKeepsWriter DEF GetCas
    <2>15. CASE GetClear(r1)
      <3>1. GetInv(r1)'
        BY <2>15 DEF GetClear, GetInv
      <3> QED
        BY <2>4, <2>15, <3>1 DEF GetClear
    <2> QED
      BY <1>3, <2>5, <2>6, <2>7, <2>8, <2>9, <2>10, <2>11, <2>12, <2>13, <2>14, <2>15
         DEF sq_get
  <1>4. CASE UNCHANGED vars
    BY <1>4 DEF vars, shm, wvars, rvars, ClaimInv, GetInv, InWindow
  <1> QED
    BY <1>2, <1>3, <1>4 DEF Next

\* With one writer and one reader, what sq_put computed before its CAS stays
\* free and what sq_get computed before its CAS stays in use, for every size
\* of the ring, every reserve, every message length and any slowness.
THEOREM WindowInvCorrect ==
    ASSUME NEW w1, NEW r1, Writers = {w1}, Readers = {r1}
    PROVE  Spec => []WindowInv
  <1>1. Init => WindowInv
    BY DEF Init, WindowInv, ClaimInv, GetInv
  <1>2. TypeOK /\ TypeOK' /\ WindowInv /\ [Next]_vars => WindowInv'
    BY WindowNext
  <1> QED
    BY <1>1, <1>2, TypeCorrect, PTL DEF Spec

\* A step under WindowInv moves the two positions within the window.
LEMMA WindowStepCorrect ==
    ASSUME NEW w1, NEW r1, Writers = {w1}, Readers = {r1},
           TypeOK, TypeOK', WindowInv, [Next]_vars
    PROVE  WindowStep
  <1>0. /\ head_pos \in Nodes /\ tail_pos \in Nodes
        /\ head_pos' \in Nodes /\ tail_pos' \in Nodes
    BY DEF TypeOK, ShmTypeOK
  <1>1. ClaimInv(w1) /\ GetInv(r1) /\ w1 \in Writers /\ r1 \in Readers
    BY DEF WindowInv
  <1>2. CASE sq_put(w1)
    <2>1. head_pos' = head_pos /\ (tail_pos' # tail_pos => PutClaim(w1))
      BY <1>2 DEF sq_put, PutStep, PutBegin, PutReadTail, PutFull, PutCheck, PutWrap,
                  PutClaim, PutClaimLost, PutMark, PutFill, PutPublish, shm
    <2>2. CASE PutClaim(w1)
      <3>1. /\ new_tail[w1] \in Nodes /\ nr_nodes[w1] \in Nat /\ idx[w1] \in Nodes
            /\ tail_pos' = new_tail[w1] /\ wpc[w1] = "cas" /\ nr_nodes[w1] > 0
        BY <1>1, <2>2 DEF PutClaim, ClaimInv, TypeOK, PutTypeOK
      <3>2. /\ tail_pos' # head_pos
            /\ Span(tail_pos, tail_pos') \cap Span(head_pos, tail_pos) = {}
        BY <1>0, <1>1, <3>1, ShmQueueAssumption DEF ClaimInv, Span, Nodes
      <3>3. Block(idx[w1], nr_nodes[w1]) \subseteq Span(tail_pos, tail_pos')
        BY <1>0, <1>1, <3>1, ShmQueueAssumption DEF ClaimInv, Span, Block, Nodes
      <3> QED
        BY <2>1, <3>2, <3>3 DEF WindowStep
    <2> QED
      BY <2>1, <2>2 DEF WindowStep
  <1>3. CASE sq_get(r1)
    <2>1. tail_pos' = tail_pos
      BY <1>3 DEF sq_get, GetBegin, GetTail, GetCasEmpty, GetToken, GetConflict, GetRecheck,
                  SkipNode, GetLen, GetTooLong, GetCopy, GetCas, GetClear, shm
    <2>2. head_pos' # head_pos => InWindow(head_pos')
      BY <1>1, <1>3 DEF sq_get, GetBegin, GetTail, GetCasEmpty, GetToken, GetConflict,
             GetRecheck, SkipNode, GetLen, GetTooLong, GetCopy, GetCas, GetClear, shm, GetInv
    <2>3. ASSUME NEW h \in Nodes, InWindow(h)
          PROVE  Span(head_pos, h) \subseteq Span(head_pos, tail_pos)
      <3>1. CASE head_pos <= tail_pos
        BY <1>0, <2>3, <3>1, ShmQueueAssumption DEF InWindow, Span, Nodes
      <3>2. CASE head_pos > tail_pos
        BY <1>0, <2>3, <3>2, ShmQueueAssumption DEF InWindow, Span, Nodes
      <3> QED
        BY <1>0, <3>1, <3>2 DEF Nodes
    <2> QED
      BY <1>0, <2>1, <2>2, <2>3 DEF WindowStep
  <1>4. CASE UNCHANGED vars
    BY <1>4 DEF vars, shm, WindowStep
  <1> QED
    BY <1>2, <1>3, <1>4 DEF Next

\* With one writer and one reader neither end of the ring runs over the other:
\* nodes are only taken while free and only given back while in use.
THEOREM WindowCorrect ==
    ASSUME NEW w1, NEW r1, Writers = {w1}, Readers = {r1}
    PROVE  Spec => WindowSafe
  <1>1. TypeOK /\ TypeOK' /\ WindowInv /\ [Next]_vars => [WindowStep]_<<head_pos, tail_pos>>
    BY WindowStepCorrect
  <1> QED
    BY <1>1, TypeCorrect, WindowInvCorrect, PTL DEF Spec, WindowSafe

-----------------------------------------------------------------------------
(* The contents of the ring, for one writer and one reader.                  *)

\* Where a message was put: its first node and the number of its nodes
Place == [at : Nodes, nr : Nat]

\* The position behind message m of the layout P
End(P, m) == P[m].at + P[m].nr

\* The nodes skipped for message m, and all that it took
Gap(P, m) == IF P[m].at = End(P, m - 1) THEN {} ELSE End(P, m - 1) .. ele_count
Area(P, m) == Span(End(P, m - 1), End(P, m))

\* The messages that were put and not yet got
Pending == Len(got) + 1 .. Len(claimed)

\* Message m was put behind the one before it, or at node 0 if it would not have
\* fitted below the end of the ring.
Placed(P, m) ==
    /\ P[m].nr \in Lens /\ End(P, m - 1) \in Nodes /\ End(P, m) \in Nodes
    /\ \/ P[m].at = End(P, m - 1)
       \/ /\ P[m].at = 0
          /\ End(P, m - 1) + P[m].nr > ele_count
          /\ P[m].nr < End(P, m - 1)

\* The layout of the messages in the nodes in use, from head_pos to tail_pos.
LayoutInv(P) ==
    /\ P \in [Nat -> Place]
    /\ Len(got) <= Len(claimed)
    /\ End(P, Len(got)) = head_pos /\ End(P, Len(claimed)) = tail_pos
    /\ \A m \in Pending : Placed(P, m) /\ Area(P, m) \subseteq Span(head_pos, tail_pos)
    /\ \A m, n \in Pending : m # n => Area(P, m) \cap Area(P, n) = {}

\* The nodes skipped for message m are marked; its bytes are in its nodes.
Marked(P, m) == \A k \in Gap(P, m) : start_token[k] = "SKIPPED"
Body(P, m) ==
    /\ datalen[P[m].at] = P[m].nr
    /\ \A k \in Block(P[m].at, P[m].nr) :
           data[k] = m /\ (k # P[m].at => start_token[k] = "PAYLOAD")
Full(P, m) == start_token[P[m].at] = "HAS_DATA" /\ Body(P, m) /\ Marked(P, m)

\* Every message in the ring is complete, but for the one being written.
FullInv(P, w) == \A m \in Pending : Full(P, m) \/ (m = Len(claimed) /\ Busy(w))

\* How far the message being written is.
BusyInv(P, w) ==
    LET c == Len(claimed) IN
    Busy(w) =>
        /\ c \in Pending /\ msg[w] = c /\ idx[w] = P[c].at /\ nr_nodes[w] = P[c].nr
        /\ start_token[P[c].at] = "NO_DATA"
        /\ wpc[w] = "mark" =>
               /\ old_tail[w] \in Gap(P, c)
               /\ \A k \in Gap(P, c) :
                      start_token[k] = IF k < old_tail[w] THEN "SKIPPED" ELSE "NO_DATA"
        /\ wpc[w] # "mark" => Marked(P, c)
        /\ wpc[w] = "publish" => Body(P, c)

\* What the reader has found: it walks over the nodes skipped for the next message
\* to the message.
WalkInv(P, r) ==
    LET m == Len(got) + 1 IN
    rpc[r] \notin {"idle", "clear"} =>
        /\ rpc[r] # "casempty"
        /\ old_head[r] = head_pos
        /\ IF m \in Pending THEN head[r] \in Gap(P, m) \cup {P[m].at} ELSE head[r] = head_pos
        /\ rpc[r] # "tail" => m \in Pending
        /\ rpc[r] = "recheck" => head[r] \in Gap(P, m) /\ start_token[head[r]] = "SKIPPED"
        /\ rpc[r] \in {"len", "copy", "cas"} =>
               head[r] = P[m].at /\ start_token[head[r]] = "HAS_DATA"
        /\ rpc[r] \in {"copy", "cas"} => rlen[r] = P[m].nr
        /\ rpc[r] = "cas" => new_head[r] = End(P, m) /\ buf[r] = m

\* The tokens still to be reset are those of one message and the nodes skipped
\* for it, right below head_pos.
ClearInv(r) ==
    rpc[r] = "clear" =>
        /\ new_head[r] = head_pos
        /\ \/ old_head[r] = head_pos
           \/ old_head[r] < head_pos /\ \E n \in Lens : head_pos - n <= old_head[r]
           \/ old_head[r] > head_pos /\ head_pos \in Lens /\ old_head[r] + head_pos > ele_count

\* The nodes whose tokens are still to be reset
Unreset(r) == IF rpc[r] = "clear" THEN Span(old_head[r], new_head[r]) ELSE {}

\* The token of a free node is reset, or still to be reset; those of nodes in use
\* are not.
FreeInv(r) ==
    /\ Unreset(r) \cap Span(head_pos, tail_pos) = {}
    /\ \A n \in Nodes \ Span(head_pos, tail_pos) :
           n \in Unreset(r) \/ start_token[n] = "NO_DATA"

\* The nodes a writer is about to take have their tokens reset.
ReserveInv(w, r) ==
    /\ wpc[w] # "idle" => nr_nodes[w] \in Lens
    /\ wpc[w] = "wrap" => head_pos > RESERVE_BLOCK_COUNT
    /\ wpc[w] = "cas" =>
           /\ Unreset(r) \cap Span(tail_pos, new_tail[w]) = {}
           /\ idx[w] = tail_pos \/ tail_pos + nr_nodes[w] > ele_count

\* Messages are put, and got, in the order of their numbers.
CountInv ==
    /\ \A i \in 1 .. Len(claimed) : claimed[i] = i
    /\ \A i \in 1 .. Len(got) : got[i] = i

RingInv(P, w, r) ==
    /\ LayoutInv(P) /\ FullInv(P, w) /\ BusyInv(P, w) /\ WalkInv(P, r)
    /\ ClearInv(r) /\ FreeInv(r) /\ ReserveInv(w, r)

-----------------------------------------------------------------------------
(* The nodes between two positions.                                          *)

\* A position at the end of the nodes in use is not among them, one at their
\* beginning is.
LEMMA SpanEnds ==
    ASSUME NEW h \in Nodes, NEW t \in Nodes
    PROVE  /\ Span(h, t) \subseteq Nodes
           /\ t \notin Span(h, t)
           /\ h # t => h \in Span(h, t)
           /\ Span(h, h) = {}
  BY ShmQueueAssumption DEF Span, Nodes

\* The nodes from h to t and then to u are those from h to u.
LEMMA SpanGrow ==
    ASSUME NEW h \in Nodes, NEW t \in Nodes, NEW u \in Nodes,
           (t < u /\ (h <= t \/ u < h)) \/ (u < h /\ h <= t)
    PROVE  /\ Span(h, u) = Span(h, t) \cup Span(t, u)
           /\ Span(h, t) \cap Span(t, u) = {}
           /\ u # h
  <1>1. CASE t < u /\ h <= t
    BY <1>1, ShmQueueAssumption DEF Span, Nodes
  <1>2. CASE t < u /\ u < h
    BY <1>2, ShmQueueAssumption DEF Span, Nodes
  <1>3. CASE u < h /\ h <= t
    BY <1>3, ShmQueueAssumption DEF Span, Nodes
  <1> QED
    BY <1>1, <1>2, <1>3

\* The nodes from h to t without their first ones, up to g.
LEMMA SpanShrink ==
    ASSUME NEW h \in Nodes, NEW t \in Nodes, NEW g \in Nodes,
           IF h <= t THEN h <= g /\ g <= t ELSE h <= g \/ g <= t
    PROVE  /\ Span(g, t) = Span(h, t) \ Span(h, g)
           /\ Span(h, g) \subseteq Span(h, t)
  <1>1. CASE h <= t
    BY <1>1, ShmQueueAssumption DEF Span, Nodes
  <1>2. CASE h > t /\ h <= g
    BY <1>2, ShmQueueAssumption DEF Span, Nodes
  <1>3. CASE h > t /\ g <= t
    BY <1>3, ShmQueueAssumption DEF Span, Nodes
  <1> QED
    BY <1>1, <1>2, <1>3 DEF Nodes

\* A place is a node and a number of nodes.
LEMMA PlaceFacts ==
    ASSUME NEW P \in [Nat -> Place], NEW m \in Nat
    PROVE  P[m].at \in Nodes /\ P[m].nr \in Nat /\ End(P, m) \in Nat
  <1>1. P[m] \in Place
    OBVIOUS
  <1>2. P[m].at \in Nodes /\ P[m].nr \in Nat
    BY <1>1 DEF Place
  <1> QED
    BY <1>2, ShmQueueAssumption DEF End, Nodes

\* What a message took is its own nodes and those skipped for it, and all of
\* them are below the end of the ring.
LEMMA AreaParts ==
    ASSUME NEW P \in [Nat -> Place], NEW m \in Nat \ {0}, Placed(P, m)
    PROVE  /\ P[m].at \in Nodes /\ P[m].nr \in Nat /\ P[m].nr > 0
           /\ P[m].at + P[m].nr <= ele_count /\ End(P, m) # End(P, m - 1)
           /\ Area(P, m) = Gap(P, m) \cup Block(P[m].at, P[m].nr)
           /\ Gap(P, m) \cap Block(P[m].at, P[m].nr) = {}
           /\ P[m].at \in Block(P[m].at, P[m].nr)
           /\ Area(P, m) \subseteq Nodes
  <1> DEFINE a == P[m].at
             n == P[m].nr
             e == End(P, m - 1)
  <1>1. a \in Nodes /\ n \in Nat /\ e \in Nodes /\ n > 0
    BY PlaceFacts, ShmQueueAssumption DEF Placed
  <1>2. End(P, m) = a + n /\ a + n \in Nodes
    BY DEF Placed, End
  <1>3. a = e \/ (a = 0 /\ n < e)
    BY DEF Placed
  <1>4. /\ Area(P, m) = Span(e, a + n) /\ Gap(P, m) = IF a = e THEN {} ELSE e .. ele_count
    BY <1>2 DEF Area, Gap
  <1> HIDE DEF a, n, e
  <1>5. /\ Span(e, a + n) = (IF a = e THEN {} ELSE e .. ele_count) \cup Block(a, n)
        /\ (IF a = e THEN {} ELSE e .. ele_count) \cap Block(a, n) = {}
        /\ a \in Block(a, n) /\ a + n # e /\ a + n <= ele_count
    <2>1. CASE a = e
      BY <1>1, <1>2, <2>1, ShmQueueAssumption DEF Span, Block, Nodes
    <2>2. CASE a = 0 /\ n < e
      BY <1>1, <1>2, <2>2, ShmQueueAssumption DEF Span, Block, Nodes
    <2> QED
      BY <1>3, <2>1, <2>2
  <1>6. Span(e, a + n) \subseteq Nodes
    BY <1>1, <1>2, SpanEnds
  <1> QED
    BY <1>1, <1>2, <1>4, <1>5, <1>6 DEF a, n, e

\* An empty ring has no messages, and a ring with messages is not empty.
LEMMA PendingUsed ==
    ASSUME NEW P, TypeOK, LayoutInv(P)
    PROVE  /\ head_pos = tail_pos <=> Len(got) = Len(claimed)
           /\ Len(got) \in Nat /\ Len(claimed) \in Nat
           /\ Len(got) + 1 \in Pending <=> Len(got) # Len(claimed)
           /\ \A m \in Pending : m \in Nat \ {0}
  <1>1. Len(got) \in Nat /\ Len(claimed) \in Nat
    BY DEF TypeOK, HistoryTypeOK
  <1>2. Len(got) + 1 \in Pending <=> Len(got) # Len(claimed)
    BY <1>1 DEF LayoutInv, Pending
  <1>3. \A m \in Pending : m \in Nat \ {0}
    BY <1>1 DEF Pending
  <1>4. ASSUME Len(got) # Len(claimed)
        PROVE  head_pos # tail_pos
    <2> DEFINE m == Len(got) + 1
    <2>1. m \in Pending /\ m \in Nat \ {0} /\ Placed(P, m) /\ P \in [Nat -> Place]
      BY <1>2, <1>3, <1>4 DEF LayoutInv
    <2>2. P[m].at \in Area(P, m)
      BY <2>1, AreaParts
    <2>3. P[m].at \in Span(head_pos, tail_pos)
      BY <2>1, <2>2 DEF LayoutInv
    <2>4. head_pos \in Nodes
      BY DEF TypeOK, ShmTypeOK
    <2> QED
      BY <2>3, <2>4, SpanEnds
  <1>5. Len(got) = Len(claimed) => head_pos = tail_pos
    BY DEF LayoutInv
  <1> QED
    BY <1>1, <1>2, <1>3, <1>4, <1>5

-----------------------------------------------------------------------------
(* sq_put.                                                                   *)

\* The reserve is enough for any two messages: with the reserve of the code, 10,
\* for those of up to 5 nodes.
Fits == \A m, n \in Lens : m + n <= RESERVE_BLOCK_COUNT + 1

\* Steps that change neither the ring nor the histories leave the layout and the
\* messages as they are.
LEMMA ShmKept ==
    ASSUME UNCHANGED <<shm, claimed, got>>, NEW P
    PROVE  /\ LayoutInv(P)' = LayoutInv(P) /\ Pending' = Pending
           /\ \A m : Full(P, m)' = Full(P, m)
           /\ \A m : Body(P, m)' = Body(P, m) /\ Marked(P, m)' = Marked(P, m)
  <1>0. /\ head_pos' = head_pos /\ tail_pos' = tail_pos /\ start_token' = start_token
        /\ datalen' = datalen /\ data' = data /\ claimed' = claimed /\ got' = got
    BY DEF shm
  <1>1. Pending' = Pending
    BY <1>0 DEF Pending
  <1>2. LayoutInv(P)' = LayoutInv(P)
    BY <1>0, <1>1 DEF LayoutInv
  <1>3. \A m : Body(P, m)' = Body(P, m) /\ Marked(P, m)' = Marked(P, m)
    BY <1>0 DEF Body, Marked
  <1>4. \A m : Full(P, m)' = Full(P, m)
    BY <1>0, <1>3 DEF Full
  <1> QED
    BY <1>1, <1>2, <1>3, <1>4

\* A writer that has no nodes yet disturbs nothing, as long as those it is about to
\* take stay reset.
LEMMA PutQuiet ==
    ASSUME NEW P, NEW w, NEW r, RingInv(P, w, r), UNCHANGED <<shm, rvars, claimed, got>>,
           ~Busy(w), ~Busy(w)', ReserveInv(w, r)'
    PROVE  RingInv(P, w, r)'
  <1>0. /\ head_pos' = head_pos /\ tail_pos' = tail_pos /\ start_token' = start_token
        /\ rpc' = rpc /\ old_head' = old_head /\ new_head' = new_head /\ head' = head
        /\ rlen' = rlen /\ buf' = buf /\ got' = got
    BY DEF shm, rvars
  <1>1. LayoutInv(P)' /\ Pending' = Pending
    BY ShmKept DEF RingInv
  <1>2. FullInv(P, w)'
    BY <1>1, ShmKept DEF RingInv, FullInv
  <1>3. BusyInv(P, w)'
    BY DEF BusyInv
  <1>4. WalkInv(P, r)'
    BY <1>0, <1>1 DEF RingInv, WalkInv
  <1>5. ClearInv(r)' /\ FreeInv(r)'
    BY <1>0 DEF RingInv, ClearInv, FreeInv, Unreset
  <1> QED
    BY <1>1, <1>2, <1>3, <1>4, <1>5 DEF RingInv

\* The nodes a writer finds empty beyond the reserve are reset, although the reader
\* may still be at the tokens of the message it got last.
LEMMA ReserveEnough ==
    ASSUME NEW h \in Nodes, NEW t \in Nodes, NEW o \in Nodes, NEW nr \in Lens, Fits,
           EmptyNodes(h, t) >= nr + RESERVE_BLOCK_COUNT,
           \/ o = h
           \/ o < h /\ \E n \in Lens : h - n <= o
           \/ o > h /\ h \in Lens /\ o + h > ele_count
    PROVE  /\ t + nr <= ele_count => Span(o, h) \cap Span(t, t + nr) = {}
           /\ t + nr > ele_count => h <= t /\ h > RESERVE_BLOCK_COUNT
  <1>0. /\ ele_count \in Nat \ {0} /\ RESERVE_BLOCK_COUNT \in Nat /\ h \in Int /\ t \in Int /\ o \in Int
        /\ \A n \in Lens : n \in Nat /\ n > 0 /\ n + nr <= RESERVE_BLOCK_COUNT + 1
                           /\ n + n <= RESERVE_BLOCK_COUNT + 1
    BY ShmQueueAssumption DEF Fits, Nodes
  <1>1. EmptyNodes(h, t) = IF h <= t THEN h + ele_count - t ELSE h - t - 1
    <2>1. UsedNodes(h, t) = ele_count - EmptyNodes(h, t)
      BY DEF UsedNodes
    <2>2. UsedNodes(h, t) = IF h <= t THEN t - h ELSE t - h + (ele_count + 1)
      BY UsedNodesCases
    <2>3. EmptyNodes(h, t) \in Int
      BY <1>0 DEF EmptyNodes
    <2> QED
      BY <1>0, <2>1, <2>2, <2>3
  <1>2. nr \in Nat /\ nr > 0
    BY <1>0
  <1>3. ASSUME t + nr <= ele_count
        PROVE  Span(o, h) \cap Span(t, t + nr) = {}
    <2>1. CASE o = h
      BY <2>1, SpanEnds
    <2>2. CASE o < h /\ \E n \in Lens : h - n <= o
      <3>1. PICK n \in Lens : h - n <= o
        BY <2>2
      <3> QED
        BY <1>0, <1>1, <1>2, <1>3, <2>2, <3>1 DEF Span, Nodes
    <2>3. CASE o > h /\ h \in Lens /\ o + h > ele_count
      BY <1>0, <1>1, <1>2, <1>3, <2>3 DEF Span, Nodes
    <2> QED
      BY <2>1, <2>2, <2>3
  <1>4. ASSUME t + nr > ele_count
        PROVE  h <= t /\ h > RESERVE_BLOCK_COUNT
    BY <1>0, <1>1, <1>2, <1>4 DEF Nodes
  <1> QED
    BY <1>3, <1>4

\* The same for a block at node 0.
LEMMA ReserveWrapped ==
    ASSUME NEW h \in Nodes, NEW t \in Nodes, NEW o \in Nodes, NEW nr \in Lens, Fits,
           h <= t, h > RESERVE_BLOCK_COUNT, nr < h,
           \/ o = h
           \/ o < h /\ \E n \in Lens : h - n <= o
           \/ o > h /\ h \in Lens /\ o + h > ele_count
    PROVE  Span(o, h) \cap Span(t, nr) = {}
  <1>0. /\ ele_count \in Nat \ {0} /\ RESERVE_BLOCK_COUNT \in Nat /\ h \in Int /\ t \in Int /\ o \in Int
        /\ \A n \in Lens : n \in Nat /\ n > 0 /\ n + nr <= RESERVE_BLOCK_COUNT + 1
                           /\ n + n <= RESERVE_BLOCK_COUNT + 1
    BY ShmQueueAssumption DEF Fits, Nodes
  <1>1. nr \in Nat /\ nr > 0
    BY <1>0
  <1>2. CASE o = h
    BY <1>2, SpanEnds
  <1>3. CASE o < h /\ \E n \in Lens : h - n <= o
    <2>1. PICK n \in Lens : h - n <= o
      BY <1>3
    <2> QED
      BY <1>0, <1>1, <1>3, <2>1 DEF Span, Nodes
  <1>4. CASE o > h /\ h \in Lens /\ o + h > ele_count
    BY <1>0, <1>1, <1>4 DEF Span, Nodes
  <1> QED
    BY <1>2, <1>3, <1>4

\* The steps of sq_put before its CAS.
LEMMA PutChecks ==
    ASSUME NEW P, NEW w, NEW r, Writers = {w}, Readers = {r}, TypeOK, TypeOK', WindowInv,
           RingInv(P, w, r), Fits,
           \/ \E nr \in Lens : PutBegin(w, nr)
           \/ PutReadTail(w) \/ PutFull(w) \/ PutCheck(w) \/ PutWrap(w) \/ PutClaimLost(w)
    PROVE  RingInv(P, w, r)'
  <1>0. /\ head_pos \in Nodes /\ tail_pos \in Nodes /\ old_head[r] \in Nodes
        /\ nr_nodes[w] \in Nat /\ new_tail[w] \in Nodes /\ w \in Writers /\ r \in Readers
        /\ wpc \in [Writers -> {"idle", "tail", "check", "wrap", "cas", "mark", "fill", "publish"}]
        /\ nr_nodes \in [Writers -> Nat] /\ new_tail \in [Writers -> Nodes]
        /\ idx \in [Writers -> Nodes]
    BY DEF TypeOK, ShmTypeOK, PutTypeOK, GetTypeOK
  <1>2. UNCHANGED <<shm, rvars, claimed, got>> /\ ~Busy(w)
    BY DEF PutBegin, PutReadTail, PutFull, PutCheck, PutWrap, PutClaimLost, Busy
  <1>3. /\ head_pos' = head_pos /\ tail_pos' = tail_pos
        /\ rpc' = rpc /\ old_head' = old_head /\ new_head' = new_head
    BY <1>2 DEF shm, rvars
  <1>4. Unreset(r)' = Unreset(r)
    BY <1>3 DEF Unreset
  <1>5. ClearInv(r) /\ ReserveInv(w, r) /\ ClaimInv(w)
    BY DEF RingInv, WindowInv
  <1>6. CASE \E nr \in Lens : PutBegin(w, nr)
    <2>1. PICK nr \in Lens : PutBegin(w, nr)
      BY <1>6
    <2>2. wpc'[w] = "tail" /\ nr_nodes'[w] = nr
      BY <1>0, <2>1 DEF PutBegin
    <2>3. ReserveInv(w, r)' /\ ~Busy(w)'
      BY <2>2 DEF ReserveInv, Busy
    <2> QED
      BY <1>2, <2>3, PutQuiet
  <1>7. CASE PutReadTail(w) \/ PutFull(w) \/ PutClaimLost(w)
    <2>1. /\ wpc'[w] \in {"check", "idle", "tail"} /\ nr_nodes'[w] = nr_nodes[w]
          /\ wpc[w] # "idle"
      BY <1>0, <1>7 DEF PutReadTail, PutFull, PutClaimLost
    <2>2. ReserveInv(w, r)' /\ ~Busy(w)'
      BY <1>5, <2>1 DEF ReserveInv, Busy
    <2> QED
      BY <1>2, <2>2, PutQuiet
  <1>8. CASE PutCheck(w)
    <2> DEFINE nr == nr_nodes[w]
    <2>1. /\ wpc[w] = "check" /\ ~NotEnough(w) /\ nr_nodes'[w] = nr
          /\ new_tail'[w] = AddPos(tail_pos, nr) /\ idx'[w] = old_tail[w]
          /\ wpc'[w] = IF new_tail'[w] < old_tail[w] THEN "wrap" ELSE "cas"
      BY <1>0, <1>8 DEF PutCheck
    <2>2. nr \in Lens /\ old_tail[w] = tail_pos
      BY <1>5, <2>1 DEF ReserveInv, ClaimInv
    <2>3. EmptyNodes(head_pos, tail_pos) >= nr + RESERVE_BLOCK_COUNT
      <3>1. EmptyNodes(head_pos, tail_pos) \in Int
        BY <1>0, ShmQueueAssumption DEF EmptyNodes, Nodes
      <3> QED
        BY <1>0, <2>1, <3>1, ShmQueueAssumption DEF NotEnough
    <2>4. nr <= ele_count /\ nr > 0 /\ nr \in Nat
      <3>1. UsedNodes(head_pos, tail_pos) = ele_count - EmptyNodes(head_pos, tail_pos)
        BY DEF UsedNodes
      <3>2. UsedNodes(head_pos, tail_pos) >= 0
        <4>1. UsedNodes(head_pos, tail_pos) = IF head_pos <= tail_pos THEN tail_pos - head_pos
                                              ELSE tail_pos - head_pos + (ele_count + 1)
          BY <1>0, UsedNodesCases
        <4> QED
          BY <1>0, <4>1, ShmQueueAssumption DEF Nodes
      <3>3. EmptyNodes(head_pos, tail_pos) \in Int
        BY <1>0, ShmQueueAssumption DEF EmptyNodes, Nodes
      <3> QED
        <4>1. nr \in Nat /\ nr > 0 /\ ele_count \in Nat /\ RESERVE_BLOCK_COUNT \in Nat
          BY <1>0, <2>2, ShmQueueAssumption
        <4> HIDE DEF nr
        <4> QED
          BY <2>3, <3>1, <3>2, <3>3, <4>1
    <2>5. new_tail'[w] = IF tail_pos + nr <= ele_count THEN tail_pos + nr
                                                       ELSE tail_pos + nr - (ele_count + 1)
      BY <1>0, <2>1, <2>4, AddPosCases, ShmQueueAssumption
    <2>6. \A o \in Nodes :
              (\/ o = head_pos
               \/ o < head_pos /\ \E n \in Lens : head_pos - n <= o
               \/ o > head_pos /\ head_pos \in Lens /\ o + head_pos > ele_count) =>
              /\ tail_pos + nr <= ele_count =>
                     Span(o, head_pos) \cap Span(tail_pos, tail_pos + nr) = {}
              /\ tail_pos + nr > ele_count =>
                     head_pos <= tail_pos /\ head_pos > RESERVE_BLOCK_COUNT
      BY <1>0, <2>2, <2>3, ReserveEnough
    <2>7. wpc'[w] = "wrap" => head_pos > RESERVE_BLOCK_COUNT
      BY <1>0, <2>1, <2>2, <2>4, <2>5, <2>6, ShmQueueAssumption DEF Nodes
    <2>8. ASSUME wpc'[w] = "cas"
          PROVE  Unreset(r) \cap Span(tail_pos, new_tail'[w]) = {}
      <3>1. tail_pos + nr <= ele_count /\ new_tail'[w] = tail_pos + nr
        BY <1>0, <2>1, <2>2, <2>4, <2>5, <2>8, ShmQueueAssumption DEF Nodes
      <3>2. CASE rpc[r] = "clear"
        <4>1. /\ Unreset(r) = Span(old_head[r], head_pos)
              /\ \/ old_head[r] = head_pos
                 \/ old_head[r] < head_pos /\ \E n \in Lens : head_pos - n <= old_head[r]
                 \/ old_head[r] > head_pos /\ head_pos \in Lens /\ old_head[r] + head_pos > ele_count
          BY <1>5, <3>2 DEF Unreset, ClearInv
        <4> QED
          BY <1>0, <2>6, <3>1, <4>1
      <3>3. CASE rpc[r] # "clear"
        BY <3>3 DEF Unreset
      <3> QED
        BY <3>2, <3>3
    <2>9. ReserveInv(w, r)'
      BY <1>3, <1>4, <2>1, <2>2, <2>7, <2>8 DEF ReserveInv
    <2>10. ~Busy(w)'
      BY <2>1 DEF Busy
    <2> QED
      BY <1>2, <2>9, <2>10, PutQuiet
  <1>9. CASE PutWrap(w)
    <2> DEFINE nr == nr_nodes[w]
    <2>1. /\ wpc[w] = "wrap" /\ nr_nodes'[w] = nr
          /\ \/ wpc'[w] = "idle"
             \/ wpc'[w] = "cas" /\ new_tail'[w] = nr /\ ~(head_pos - 1 < nr)
      BY <1>0, <1>9 DEF PutWrap
    <2>2. /\ nr \in Lens /\ head_pos > RESERVE_BLOCK_COUNT /\ head_pos <= tail_pos
          /\ tail_pos + nr > ele_count
      BY <1>5, <2>1 DEF ReserveInv, ClaimInv
    <2>3. ASSUME wpc'[w] = "cas"
          PROVE  Unreset(r) \cap Span(tail_pos, new_tail'[w]) = {}
      <3>1. new_tail'[w] = nr /\ nr < head_pos
        BY <1>0, <2>1, <2>3, ShmQueueAssumption DEF Nodes
      <3>2. CASE rpc[r] = "clear"
        <4>1. /\ Unreset(r) = Span(old_head[r], head_pos)
              /\ \/ old_head[r] = head_pos
                 \/ old_head[r] < head_pos /\ \E n \in Lens : head_pos - n <= old_head[r]
                 \/ old_head[r] > head_pos /\ head_pos \in Lens /\ old_head[r] + head_pos > ele_count
          BY <1>5, <3>2 DEF Unreset, ClearInv
        <4> QED
          BY <1>0, <2>2, <3>1, <4>1, ReserveWrapped
      <3>3. CASE rpc[r] # "clear"
        BY <3>3 DEF Unreset
      <3> QED
        BY <3>2, <3>3
    <2>4. ReserveInv(w, r)'
      BY <1>3, <1>4, <2>1, <2>2, <2>3 DEF ReserveInv
    <2>5. ~Busy(w)'
      BY <2>1 DEF Busy
    <2> QED
      BY <1>2, <2>4, <2>5, PutQuiet
  <1> QED
    BY <1>6, <1>7, <1>8, <1>9

\* The CAS on tail_pos: the nodes it takes are reset, and in none of the messages
\* that are in the ring.
LEMMA PutClaimStep ==
    ASSUME NEW P, NEW w, NEW r, Writers = {w}, Readers = {r}, TypeOK, TypeOK', WindowInv,
           RingInv(P, w, r), PutClaim(w)
    PROVE  \E Q : RingInv(Q, w, r)'
  <1>0. /\ head_pos \in Nodes /\ tail_pos \in Nodes /\ old_head[r] \in Nodes
        /\ nr_nodes[w] \in Nat /\ new_tail[w] \in Nodes /\ idx[w] \in Nodes
        /\ w \in Writers /\ r \in Readers /\ claimed \in Seq(Nat) /\ Len(claimed) \in Nat
        /\ Len(got) \in Nat /\ msg \in [Writers -> Nat]
        /\ wpc \in [Writers -> {"idle", "tail", "check", "wrap", "cas", "mark", "fill", "publish"}]
    <2>1. claimed \in Seq(Nat) /\ got \in Seq(Nat \cup {Torn})
      BY DEF TypeOK, HistoryTypeOK
    <2>2. Len(claimed) \in Nat /\ Len(got) \in Nat
      BY <2>1
    <2>3. /\ head_pos \in Nodes /\ tail_pos \in Nodes /\ old_head[r] \in Nodes
          /\ nr_nodes[w] \in Nat /\ new_tail[w] \in Nodes /\ idx[w] \in Nodes
          /\ msg \in [Writers -> Nat]
          /\ wpc \in [Writers -> {"idle", "tail", "check", "wrap", "cas", "mark", "fill", "publish"}]
      BY DEF TypeOK, ShmTypeOK, PutTypeOK, GetTypeOK
    <2> QED
      BY <2>1, <2>2, <2>3
  <1>1. /\ wpc[w] = "cas" /\ tail_pos' = new_tail[w] /\ old_tail[w] = tail_pos
        /\ claimed' = Append(claimed, Len(claimed) + 1) /\ msg'[w] = Len(claimed) + 1
        /\ wpc'[w] = IF idx[w] = 0 /\ old_tail[w] # 0 THEN "mark" ELSE "fill"
        /\ head_pos' = head_pos /\ start_token' = start_token /\ datalen' = datalen
        /\ data' = data /\ nr_nodes' = nr_nodes /\ old_tail' = old_tail /\ idx' = idx
        /\ rpc' = rpc /\ old_head' = old_head /\ new_head' = new_head /\ head' = head
        /\ rlen' = rlen /\ buf' = buf /\ got' = got
    BY <1>0 DEF PutClaim, rvars
  <1>2. /\ LayoutInv(P) /\ FullInv(P, w) /\ WalkInv(P, r) /\ ClearInv(r) /\ FreeInv(r)
        /\ ReserveInv(w, r) /\ ClaimInv(w)
    BY DEF RingInv, WindowInv
  <1>3. PICK c : c = Len(claimed)
    OBVIOUS
  <1>4. PICK n : n = nr_nodes[w]
    OBVIOUS
  <1>5. PICK a : a = idx[w]
    OBVIOUS
  <1>6. PICK u : u = new_tail[w]
    OBVIOUS
  <1>7. /\ c \in Nat /\ n \in Nat /\ n \in Lens /\ n > 0 /\ a \in Nodes /\ u \in Nodes
        /\ u = a + n /\ Len(claimed') = c + 1 /\ Len(claimed) = c
        /\ \/ a = tail_pos /\ (head_pos <= tail_pos \/ u < head_pos)
           \/ a = 0 /\ tail_pos + n > ele_count /\ head_pos <= tail_pos /\ u < head_pos
    <2>1. n > 0 /\ n \in Lens
      BY <1>1, <1>2, <1>4 DEF ReserveInv, ClaimInv
    <2>2. Len(claimed') = c + 1
      BY <1>0, <1>1, <1>3
    <2>3. /\ u = a + n
          /\ \/ a = tail_pos /\ (head_pos <= tail_pos \/ u < head_pos)
             \/ a = 0 /\ tail_pos + n > ele_count /\ head_pos <= tail_pos /\ u < head_pos
      BY <1>0, <1>1, <1>2, <1>4, <1>5, <1>6 DEF ReserveInv, ClaimInv, Nodes
    <2> QED
      BY <1>0, <1>3, <1>4, <1>5, <1>6, <2>1, <2>2, <2>3
  <1>8. PICK Q : Q = [P EXCEPT ![c + 1] = [at |-> a, nr |-> n]]
    OBVIOUS
  <1>9. /\ Q \in [Nat -> Place] /\ P \in [Nat -> Place]
        /\ Q[c + 1].at = a /\ Q[c + 1].nr = n
        /\ \A m \in 0 .. c : Q[m] = P[m]
    <2>1. P \in [Nat -> Place]
      BY <1>2 DEF LayoutInv
    <2>2. [at |-> a, nr |-> n] \in Place
      BY <1>7 DEF Place
    <2> QED
      BY <1>7, <1>8, <2>1, <2>2
  <1>10. /\ \A m \in 0 .. c : End(Q, m) = End(P, m)
         /\ End(Q, c + 1) = u /\ End(Q, c) = tail_pos
    BY <1>2, <1>7, <1>9 DEF End, LayoutInv
  <1>11. \A m \in 1 .. c : Gap(Q, m) = Gap(P, m) /\ Area(Q, m) = Area(P, m)
    <2>1. \A m \in 1 .. c : m \in 0 .. c /\ m - 1 \in 0 .. c
      BY <1>7
    <2> QED
      BY <1>9, <1>10, <2>1 DEF Gap, Area
  <1>12. /\ Area(Q, c + 1) = Span(tail_pos, u)
         /\ Gap(Q, c + 1) = IF a = tail_pos THEN {} ELSE tail_pos .. ele_count
    <2>1. (c + 1) - 1 = c
      BY <1>7
    <2> QED
      BY <1>9, <1>10, <2>1 DEF Gap, Area
  <1>13. /\ Span(head_pos, u) = Span(head_pos, tail_pos) \cup Span(tail_pos, u)
         /\ Span(head_pos, tail_pos) \cap Span(tail_pos, u) = {}
    <2>1. (tail_pos < u /\ (head_pos <= tail_pos \/ u < head_pos)) \/ (u < head_pos /\ head_pos <= tail_pos)
      BY <1>0, <1>7 DEF Nodes
    <2> QED
      BY <1>0, <1>7, <2>1, SpanGrow
  <1>14. /\ Pending' = Pending \cup {c + 1} /\ Pending \subseteq 1 .. c
         /\ Len(got') = Len(got) /\ c + 1 \notin Pending /\ Len(got) <= c
    <2>1. Len(got) <= c
      BY <1>2, <1>7 DEF LayoutInv
    <2> QED
      BY <1>0, <1>1, <1>7, <2>1 DEF Pending
  <1>15. ASSUME NEW m \in Pending
         PROVE  Placed(Q, m) /\ Area(Q, m) \subseteq Span(head_pos', tail_pos')
    <2>1. m \in 1 .. c /\ m \in 0 .. c /\ m - 1 \in 0 .. c
      BY <1>7, <1>14
    <2>2. Placed(P, m) /\ Area(P, m) \subseteq Span(head_pos, tail_pos)
      BY <1>2 DEF LayoutInv
    <2>3. Area(Q, m) \subseteq Span(head_pos', tail_pos')
      BY <1>1, <1>6, <1>11, <1>13, <2>1, <2>2
    <2> QED
      BY <1>9, <1>10, <2>1, <2>2, <2>3 DEF Placed
  <1>16. Placed(Q, c + 1) /\ Area(Q, c + 1) \subseteq Span(head_pos', tail_pos')
    <2>1. (c + 1) - 1 = c
      BY <1>7
    <2>2. Area(Q, c + 1) \subseteq Span(head_pos', tail_pos')
      BY <1>1, <1>6, <1>12, <1>13
    <2>3. a = tail_pos \/ (a = 0 /\ tail_pos + n > ele_count /\ n < tail_pos)
      BY <1>0, <1>7 DEF Nodes
    <2> QED
      BY <1>0, <1>7, <1>9, <1>10, <2>1, <2>2, <2>3 DEF Placed
  <1>17. ASSUME NEW m \in Pending', NEW k \in Pending', m # k
         PROVE  Area(Q, m) \cap Area(Q, k) = {}
    <2>1. \A i \in Pending : Area(Q, i) = Area(P, i) /\ Area(Q, i) \subseteq Span(head_pos, tail_pos)
      BY <1>2, <1>11, <1>14 DEF LayoutInv
    <2>2. \A i, j \in Pending : i # j => Area(P, i) \cap Area(P, j) = {}
      BY <1>2 DEF LayoutInv
    <2>3. \A i \in Pending : Area(Q, i) \cap Area(Q, c + 1) = {}
      BY <1>12, <1>13, <2>1
    <2> QED
      BY <1>14, <1>17, <2>1, <2>2, <2>3
  <1>18. LayoutInv(Q)'
    <2>1. End(Q, Len(got')) = head_pos'
      BY <1>0, <1>1, <1>2, <1>7, <1>10, <1>14 DEF LayoutInv
    <2>2. End(Q, Len(claimed')) = tail_pos'
      BY <1>1, <1>6, <1>7, <1>10
    <2>3. Len(got') <= Len(claimed')
      BY <1>0, <1>7, <1>14
    <2>4. \A m \in Pending' : Placed(Q, m) /\ Area(Q, m) \subseteq Span(head_pos', tail_pos')
      BY <1>14, <1>15, <1>16
    <2> QED
      BY <1>9, <1>17, <2>1, <2>2, <2>3, <2>4 DEF LayoutInv
  <1>19. ~Busy(w) /\ Busy(w)'
    BY <1>1 DEF Busy
  <1>20. FullInv(Q, w)'
    <2>1. ASSUME NEW m \in Pending
          PROVE  Full(Q, m)'
      <3>1. Full(P, m)
        BY <1>2, <1>19 DEF FullInv
      <3>2. Q[m] = P[m] /\ Gap(Q, m) = Gap(P, m)
        BY <1>7, <1>9, <1>11, <1>14
      <3> QED
        BY <1>1, <3>1, <3>2 DEF Full, Body, Marked
    <2> QED
      BY <1>7, <1>14, <1>19, <2>1 DEF FullInv
  <1>21. \A k \in Span(tail_pos, u) : start_token[k] = "NO_DATA"
    <2>1. Unreset(r) \cap Span(tail_pos, u) = {}
      BY <1>1, <1>2, <1>6 DEF ReserveInv
    <2>2. Span(tail_pos, u) \subseteq Nodes
      BY <1>0, <1>7, SpanEnds
    <2> QED
      BY <1>2, <1>13, <2>1, <2>2 DEF FreeInv
  <1>22. BusyInv(Q, w)'
    <2>1. /\ Span(tail_pos, u) = Gap(Q, c + 1) \cup Block(a, n) /\ a \in Block(a, n)
      <3>1. c + 1 \in Nat \ {0}
        BY <1>7
      <3> QED
        BY <1>9, <1>12, <1>16, <3>1, AreaParts
    <2>2. start_token'[a] = "NO_DATA"
      BY <1>1, <1>21, <2>1
    <2>3. ASSUME wpc'[w] = "mark"
          PROVE  /\ old_tail'[w] \in Gap(Q, c + 1)
                 /\ \A k \in Gap(Q, c + 1) : start_token'[k] = "NO_DATA" /\ ~(k < old_tail'[w])
      <3>1. a = 0 /\ tail_pos # 0
        BY <1>1, <1>5, <2>3
      <3>2. Gap(Q, c + 1) = tail_pos .. ele_count
        BY <1>12, <3>1
      <3>3. \A k \in Gap(Q, c + 1) : start_token'[k] = "NO_DATA"
        BY <1>1, <1>21, <2>1
      <3> QED
        BY <1>0, <1>1, <3>2, <3>3, ShmQueueAssumption DEF Nodes
    <2>4. ASSUME wpc'[w] # "mark"
          PROVE  Gap(Q, c + 1) = {}
      BY <1>0, <1>1, <1>5, <1>7, <1>12, <2>4
    <2>5. /\ wpc'[w] # "publish" /\ c + 1 \in Pending' /\ msg'[w] = c + 1
          /\ idx'[w] = a /\ nr_nodes'[w] = n
      BY <1>1, <1>4, <1>5, <1>7, <1>14
    <2> QED
      BY <1>7, <1>9, <2>2, <2>3, <2>4, <2>5 DEF BusyInv, Marked
  <1>23. WalkInv(Q, r)'
    <2>1. CASE Len(got) + 1 \in Pending
      <3>1. Q[Len(got) + 1] = P[Len(got) + 1] /\ Gap(Q, Len(got) + 1) = Gap(P, Len(got) + 1)
            /\ End(Q, Len(got) + 1) = End(P, Len(got) + 1) /\ Len(got) + 1 \in Pending'
        BY <1>7, <1>9, <1>10, <1>11, <1>14, <2>1
      <3> QED
        BY <1>1, <1>2, <2>1, <3>1 DEF WalkInv
    <2>2. CASE Len(got) + 1 \notin Pending
      <3>1. Len(got) = c /\ head_pos = tail_pos
        BY <1>0, <1>2, <1>7, <1>14, <2>2 DEF LayoutInv, Pending
      <3>2. head_pos \in Gap(Q, c + 1) \cup {a}
        BY <1>0, <1>12, <3>1, ShmQueueAssumption DEF Nodes
      <3>3. c + 1 \in Pending' /\ Q[c + 1].at = a
        BY <1>9, <1>14
      <3> QED
        BY <1>1, <1>2, <2>2, <3>1, <3>2, <3>3 DEF WalkInv
    <2> QED
      BY <2>1, <2>2
  <1>24. ClearInv(r)'
    BY <1>1, <1>2 DEF ClearInv
  <1>25. FreeInv(r)'
    <2>1. Unreset(r)' = Unreset(r)
      BY <1>1 DEF Unreset
    <2>2. Span(head_pos', tail_pos') = Span(head_pos, u)
      BY <1>1, <1>6
    <2>3. Unreset(r) \cap Span(head_pos, tail_pos) = {} /\ Unreset(r) \cap Span(tail_pos, u) = {}
      BY <1>1, <1>2, <1>6 DEF FreeInv, ReserveInv
    <2>4. Unreset(r) \cap Span(head_pos, u) = {}
      BY <1>13, <2>3
    <2> QED
      BY <1>1, <1>2, <1>13, <2>1, <2>2, <2>4 DEF FreeInv
  <1>26. ReserveInv(w, r)'
    BY <1>1, <1>4, <1>7 DEF ReserveInv
  <1> QED
    BY <1>18, <1>20, <1>22, <1>23, <1>24, <1>25, <1>26 DEF RingInv

-----------------------------------------------------------------------------
(* sq_put with its nodes: marking, filling, publishing.                      *)

\* What the writer does to its own nodes is seen in no other message.
LEMMA BusyKept ==
    ASSUME NEW P, NEW w, NEW r, NEW c, TypeOK, RingInv(P, w, r), Busy(w), c = Len(claimed),
           UNCHANGED <<head_pos, tail_pos, rvars, claimed, got>>,
           \A k \in Nodes \ Area(P, c) :
               start_token'[k] = start_token[k] /\ data'[k] = data[k] /\ datalen'[k] = datalen[k],
           \A k \in Gap(P, c) : start_token[k] = "SKIPPED" => start_token'[k] = "SKIPPED"
    PROVE  /\ LayoutInv(P)' /\ Pending' = Pending
           /\ \A m \in Pending \ {c} : Full(P, m)'
           /\ WalkInv(P, r)' /\ ClearInv(r)' /\ FreeInv(r)'
  <1>0. /\ head_pos' = head_pos /\ tail_pos' = tail_pos /\ claimed' = claimed /\ got' = got
        /\ rpc' = rpc /\ old_head' = old_head /\ new_head' = new_head /\ head' = head
        /\ rlen' = rlen /\ buf' = buf
    BY DEF rvars
  <1>1. LayoutInv(P) /\ FullInv(P, w) /\ BusyInv(P, w) /\ WalkInv(P, r) /\ ClearInv(r) /\ FreeInv(r)
    BY DEF RingInv
  <1>2. Pending' = Pending
    BY <1>0 DEF Pending
  <1>3. LayoutInv(P)'
    BY <1>0, <1>1, <1>2 DEF LayoutInv
  <1>4. /\ P \in [Nat -> Place] /\ c \in Pending /\ \A m \in Pending : m \in Nat \ {0} /\ Placed(P, m)
        /\ start_token[P[c].at] = "NO_DATA"
    BY <1>1, PendingUsed DEF LayoutInv, BusyInv
  <1>5. ASSUME NEW m \in Pending, m # c
        PROVE  \A k \in Area(P, m) : /\ start_token'[k] = start_token[k] /\ data'[k] = data[k]
                                     /\ datalen'[k] = datalen[k]
    <2>1. Area(P, m) \cap Area(P, c) = {}
      BY <1>1, <1>4, <1>5 DEF LayoutInv
    <2>2. Area(P, m) \subseteq Nodes
      BY <1>4, AreaParts
    <2> QED
      BY <2>1, <2>2
  <1>6. ASSUME NEW m \in Pending
        PROVE  /\ Area(P, m) = Gap(P, m) \cup Block(P[m].at, P[m].nr)
               /\ P[m].at \in Block(P[m].at, P[m].nr) /\ Gap(P, m) \cap Block(P[m].at, P[m].nr) = {}
    BY <1>4, AreaParts
  <1>7. ASSUME NEW m \in Pending, m # c
        PROVE  Full(P, m)'
    <2>1. Full(P, m)
      BY <1>1, <1>7 DEF FullInv
    <2>2. start_token'[P[m].at] = "HAS_DATA" /\ datalen'[P[m].at] = P[m].nr
      BY <1>5, <1>6, <1>7, <2>1 DEF Full, Body
    <2>3. \A k \in Block(P[m].at, P[m].nr) :
              data'[k] = m /\ (k # P[m].at => start_token'[k] = "PAYLOAD")
      BY <1>5, <1>6, <1>7, <2>1 DEF Full, Body
    <2>4. \A k \in Gap(P, m) : start_token'[k] = "SKIPPED"
      BY <1>5, <1>6, <1>7, <2>1 DEF Full, Marked
    <2> QED
      BY <2>2, <2>3, <2>4 DEF Full, Body, Marked
  <1>8. WalkInv(P, r)'
    <2>1. PICK m : m = Len(got) + 1
      OBVIOUS
    <2>2. ASSUME rpc[r] = "recheck"
          PROVE  start_token'[head[r]] = "SKIPPED"
      <3>1. m \in Pending /\ head[r] \in Gap(P, m) /\ start_token[head[r]] = "SKIPPED"
        BY <1>1, <2>1, <2>2 DEF WalkInv
      <3> QED
        BY <1>5, <1>6, <3>1
    <2>3. ASSUME rpc[r] \in {"len", "copy", "cas"}
          PROVE  start_token'[head[r]] = "HAS_DATA"
      <3>1. m \in Pending /\ head[r] = P[m].at /\ start_token[head[r]] = "HAS_DATA"
        BY <1>1, <2>1, <2>3 DEF WalkInv
      <3> QED
        BY <1>4, <1>5, <1>6, <3>1
    <2> QED
      BY <1>0, <1>1, <1>2, <2>2, <2>3 DEF WalkInv
  <1>9. ClearInv(r)'
    BY <1>0, <1>1 DEF ClearInv
  <1>10. FreeInv(r)'
    <2>1. Unreset(r)' = Unreset(r)
      BY <1>0 DEF Unreset
    <2>2. Area(P, c) \subseteq Span(head_pos, tail_pos)
      BY <1>1, <1>4 DEF LayoutInv
    <2> QED
      BY <1>0, <1>1, <2>1, <2>2 DEF FreeInv
  <1> QED
    BY <1>2, <1>3, <1>7, <1>8, <1>9, <1>10

\* The steps of sq_put behind its CAS.
LEMMA PutBusyStep ==
    ASSUME NEW P, NEW w, NEW r, Writers = {w}, Readers = {r}, TypeOK, RingInv(P, w, r),
           PutMark(w) \/ PutFill(w) \/ PutPublish(w)
    PROVE  RingInv(P, w, r)'
  <1>1. PICK c : c = Len(claimed)
    OBVIOUS
  <1>2. PICK a : a = P[c].at
    OBVIOUS
  <1>3. PICK n : n = P[c].nr
    OBVIOUS
  <1>4. /\ start_token \in [Nodes -> {"NO_DATA", "SKIPPED", "HAS_DATA", "PAYLOAD"}]
        /\ datalen \in [Nodes -> Nat] /\ data \in [Nodes -> Nat] /\ w \in Writers
        /\ old_tail \in [Writers -> Nodes] /\ old_tail[w] \in Nodes
        /\ wpc \in [Writers -> {"idle", "tail", "check", "wrap", "cas", "mark", "fill", "publish"}]
    BY DEF TypeOK, ShmTypeOK, PutTypeOK
  <1>5. /\ UNCHANGED <<head_pos, tail_pos, rvars, claimed, got>> /\ Busy(w)
        /\ nr_nodes' = nr_nodes /\ idx' = idx /\ msg' = msg
    BY DEF PutMark, PutFill, PutPublish, Busy
  <1>6. /\ LayoutInv(P) /\ FullInv(P, w) /\ BusyInv(P, w) /\ ReserveInv(w, r)
    BY DEF RingInv
  <1>7. /\ c \in Pending /\ msg[w] = c /\ idx[w] = a /\ nr_nodes[w] = n
        /\ start_token[a] = "NO_DATA"
        /\ wpc[w] # "mark" => Marked(P, c)
    BY <1>1, <1>2, <1>3, <1>5, <1>6 DEF BusyInv
  <1>8. P \in [Nat -> Place] /\ c \in Nat \ {0} /\ Placed(P, c)
    BY <1>6, <1>7, PendingUsed DEF LayoutInv
  <1>9. /\ a \in Nodes /\ n \in Nat /\ n > 0 /\ a + n <= ele_count
        /\ Area(P, c) = Gap(P, c) \cup Block(a, n)
        /\ Gap(P, c) \cap Block(a, n) = {} /\ a \in Block(a, n) /\ Area(P, c) \subseteq Nodes
    BY <1>2, <1>3, <1>8, AreaParts
  <1>10. /\ LayoutInv(P)' /\ Pending' = Pending /\ \A m \in Pending \ {c} : Full(P, m)'
         /\ WalkInv(P, r)' /\ ClearInv(r)' /\ FreeInv(r)'
    <2>1. \A k \in Nodes \ Area(P, c) :
              start_token'[k] = start_token[k] /\ data'[k] = data[k] /\ datalen'[k] = datalen[k]
      <3>1. CASE PutMark(w)
        <4>1. wpc[w] = "mark" /\ start_token' = [start_token EXCEPT ![old_tail[w]] = "SKIPPED"]
              /\ datalen' = datalen /\ data' = data
          BY <3>1 DEF PutMark
        <4>2. old_tail[w] \in Gap(P, c)
          BY <1>1, <1>5, <1>6, <4>1 DEF BusyInv
        <4> QED
          BY <1>4, <1>9, <4>1, <4>2
      <3>2. CASE PutFill(w)
        <4>1. /\ datalen' = [datalen EXCEPT ![a] = n]
              /\ data' = [k \in Nodes |-> IF k \in Block(a, n) THEN c ELSE data[k]]
              /\ start_token' = [k \in Nodes |-> IF k \in Block(a, n) \ {a}
                                                 THEN "PAYLOAD" ELSE start_token[k]]
          BY <1>7, <3>2 DEF PutFill
        <4> QED
          BY <1>4, <1>9, <4>1
      <3>3. CASE PutPublish(w)
        <4>1. start_token' = [start_token EXCEPT ![a] = "HAS_DATA"]
              /\ datalen' = datalen /\ data' = data
          BY <1>7, <3>3 DEF PutPublish
        <4> QED
          BY <1>4, <1>9, <4>1
      <3> QED
        BY <3>1, <3>2, <3>3
    <2>2. \A k \in Gap(P, c) : start_token[k] = "SKIPPED" => start_token'[k] = "SKIPPED"
      <3>1. \A k \in Gap(P, c) : k \in Nodes /\ k \notin Block(a, n) /\ k # a
        BY <1>9
      <3>2. CASE PutMark(w)
        BY <1>4, <3>1, <3>2 DEF PutMark
      <3>3. CASE PutFill(w)
        BY <1>4, <1>7, <3>1, <3>3 DEF PutFill
      <3>4. CASE PutPublish(w)
        BY <1>4, <1>7, <3>1, <3>4 DEF PutPublish
      <3> QED
        BY <3>2, <3>3, <3>4
    <2> QED
      BY <1>1, <1>5, <2>1, <2>2, BusyKept
  <1>11. SUFFICES BusyInv(P, w)' /\ ReserveInv(w, r)' /\ (Full(P, c)' \/ Busy(w)')
    <2>1. (Full(P, c)' \/ Busy(w)') => FullInv(P, w)'
      BY <1>1, <1>5, <1>10 DEF FullInv
    <2> QED
      BY <1>10, <2>1 DEF RingInv
  <1>12. ReserveInv(w, r)'
    <2>1. wpc'[w] \in {"mark", "fill", "publish", "idle"} /\ wpc[w] # "idle"
      BY <1>4 DEF PutMark, PutFill, PutPublish
    <2> QED
      BY <1>5, <1>6, <2>1 DEF ReserveInv
  <1>13. Len(claimed') = c
    BY <1>1, <1>5
  <1>14. CASE PutMark(w)
    <2>1. PICK o : o = old_tail[w]
      OBVIOUS
    <2>2. /\ wpc[w] = "mark" /\ start_token' = [start_token EXCEPT ![o] = "SKIPPED"]
          /\ old_tail'[w] = AddPos(o, 1)
          /\ wpc'[w] = IF old_tail'[w] # 0 THEN "mark" ELSE "fill"
      BY <1>4, <1>14, <2>1 DEF PutMark
    <2>3. /\ o \in Gap(P, c)
          /\ \A k \in Gap(P, c) : start_token[k] = IF k < o THEN "SKIPPED" ELSE "NO_DATA"
      BY <1>1, <1>5, <1>6, <2>1, <2>2 DEF BusyInv
    <2>4. Gap(P, c) = End(P, c - 1) .. ele_count /\ End(P, c - 1) \in Nat
      BY <1>8, <2>3 DEF Gap, Placed, Nodes
    <2>5. old_tail'[w] = IF o + 1 <= ele_count THEN o + 1 ELSE 0
      <3>1. o \in Nodes /\ 1 \in 0 .. (ele_count + 1)
        BY <1>9, <2>3, ShmQueueAssumption
      <3>2. AddPos(o, 1) = IF o + 1 <= ele_count THEN o + 1 ELSE o + 1 - (ele_count + 1)
        BY <3>1, AddPosCases
      <3> QED
        BY <2>2, <3>1, <3>2, ShmQueueAssumption DEF Nodes
    <2>6. start_token'[a] = "NO_DATA"
      BY <1>4, <1>7, <1>9, <2>2, <2>3
    <2>7. \A k \in Gap(P, c) : start_token'[k] = IF k < o + 1 THEN "SKIPPED" ELSE "NO_DATA"
      <3>1. \A k \in Gap(P, c) : k \in Nodes /\ start_token'[k] = IF k = o THEN "SKIPPED" ELSE start_token[k]
        BY <1>4, <1>9, <2>2
      <3> QED
        BY <2>3, <2>4, <3>1, ShmQueueAssumption
    <2>8. CASE o < ele_count
      <3>1. wpc'[w] = "mark" /\ old_tail'[w] = o + 1 /\ o + 1 \in Gap(P, c)
        BY <2>2, <2>3, <2>4, <2>5, <2>8, ShmQueueAssumption
      <3>2. BusyInv(P, w)'
        BY <1>2, <1>3, <1>5, <1>7, <1>10, <1>13, <2>6, <2>7, <3>1 DEF BusyInv
      <3> QED
        BY <1>12, <3>1, <3>2 DEF Busy
    <2>9. CASE o = ele_count
      <3>1. wpc'[w] = "fill" /\ \A k \in Gap(P, c) : start_token'[k] = "SKIPPED"
        BY <2>2, <2>4, <2>5, <2>7, <2>9, ShmQueueAssumption
      <3>2. BusyInv(P, w)'
        BY <1>2, <1>3, <1>5, <1>7, <1>10, <1>13, <2>6, <3>1 DEF BusyInv, Marked
      <3> QED
        BY <1>12, <3>1, <3>2 DEF Busy
    <2> QED
      BY <2>3, <2>4, <2>8, <2>9, ShmQueueAssumption
  <1>15. ASSUME wpc[w] # "mark", \A k \in Gap(P, c) : start_token'[k] = start_token[k]
         PROVE  Marked(P, c)'
    BY <1>7, <1>15 DEF Marked
  <1>16. CASE PutFill(w)
    <2>1. /\ datalen' = [datalen EXCEPT ![a] = n]
          /\ data' = [k \in Nodes |-> IF k \in Block(a, n) THEN c ELSE data[k]]
          /\ start_token' = [k \in Nodes |-> IF k \in Block(a, n) \ {a}
                                             THEN "PAYLOAD" ELSE start_token[k]]
          /\ wpc'[w] = "publish" /\ wpc[w] = "fill"
      BY <1>4, <1>7, <1>16 DEF PutFill
    <2>2. Body(P, c)'
      <3>1. datalen'[a] = n
        BY <1>4, <1>9, <2>1
      <3>2. \A k \in Block(a, n) : data'[k] = c /\ (k # a => start_token'[k] = "PAYLOAD")
        BY <1>9, <2>1
      <3> QED
        BY <1>2, <1>3, <3>1, <3>2 DEF Body
    <2>3. start_token'[a] = "NO_DATA" /\ \A k \in Gap(P, c) : start_token'[k] = start_token[k]
      BY <1>7, <1>9, <2>1
    <2>4. Marked(P, c)'
      BY <1>15, <2>1, <2>3
    <2>5. BusyInv(P, w)'
      BY <1>2, <1>3, <1>5, <1>7, <1>10, <1>13, <2>1, <2>2, <2>3, <2>4 DEF BusyInv
    <2> QED
      BY <1>12, <2>1, <2>5 DEF Busy
  <1>17. CASE PutPublish(w)
    <2>1. /\ start_token' = [start_token EXCEPT ![a] = "HAS_DATA"]
          /\ datalen' = datalen /\ data' = data /\ wpc[w] = "publish" /\ wpc'[w] = "idle"
      BY <1>4, <1>7, <1>17 DEF PutPublish
    <2>2. Body(P, c)
      BY <1>1, <1>5, <1>6, <2>1 DEF BusyInv
    <2>3. /\ start_token'[a] = "HAS_DATA" /\ \A k \in Gap(P, c) : start_token'[k] = start_token[k]
          /\ \A k \in Block(a, n) : k # a => start_token'[k] = start_token[k]
      BY <1>4, <1>9, <2>1
    <2>4. Body(P, c)'
      BY <1>2, <1>3, <2>1, <2>2, <2>3 DEF Body
    <2>5. Full(P, c)'
      BY <1>2, <1>15, <2>1, <2>3, <2>4 DEF Full
    <2>6. BusyInv(P, w)'
      BY <2>1 DEF BusyInv, Busy
    <2> QED
      BY <1>12, <2>5, <2>6
  <1> QED
    BY <1>14, <1>16, <1>17

-----------------------------------------------------------------------------
(* sq_get.                                                                   *)

\* Between its checks the reader changes only what it has found itself.
LEMMA GetQuiet ==
    ASSUME NEW P, NEW w, NEW r, RingInv(P, w, r), UNCHANGED <<shm, wvars, claimed, got>>,
           rpc[r] # "clear", rpc'[r] # "clear", WalkInv(P, r)'
    PROVE  RingInv(P, w, r)'
  <1>0. /\ head_pos' = head_pos /\ tail_pos' = tail_pos /\ start_token' = start_token
        /\ wpc' = wpc /\ nr_nodes' = nr_nodes /\ old_tail' = old_tail /\ new_tail' = new_tail
        /\ idx' = idx /\ msg' = msg /\ claimed' = claimed
    BY DEF shm, wvars
  <1>1. LayoutInv(P)' /\ Pending' = Pending
    BY ShmKept DEF RingInv
  <1>2. Busy(w)' = Busy(w)
    BY <1>0 DEF Busy
  <1>3. FullInv(P, w)'
    BY <1>0, <1>1, <1>2, ShmKept DEF RingInv, FullInv
  <1>4. BusyInv(P, w)'
    BY <1>0, <1>1, <1>2, ShmKept DEF RingInv, BusyInv
  <1>5. Unreset(r) = {} /\ Unreset(r)' = {}
    BY DEF Unreset
  <1>6. ClearInv(r)' /\ FreeInv(r)' /\ ReserveInv(w, r)'
    BY <1>0, <1>5 DEF RingInv, ClearInv, FreeInv, ReserveInv
  <1> QED
    BY <1>1, <1>3, <1>4, <1>6 DEF RingInv

\* The tokens tell a reader what it is at: a node skipped for a message is never
\* taken for the message, and a published message is complete.
LEMMA Tokens ==
    ASSUME NEW P, NEW w, NEW r, NEW m, TypeOK, RingInv(P, w, r), m \in Pending
    PROVE  /\ \A k \in Gap(P, m) : start_token[k] \in {"SKIPPED", "NO_DATA"}
           /\ start_token[P[m].at] \in {"HAS_DATA", "NO_DATA"}
           /\ start_token[P[m].at] = "HAS_DATA" =>
                  Full(P, m) /\ ~(Busy(w) /\ m = Len(claimed))
  <1>1. FullInv(P, w) /\ BusyInv(P, w)
    BY DEF RingInv
  <1>2. CASE Busy(w) /\ m = Len(claimed)
    BY <1>1, <1>2 DEF BusyInv, Marked
  <1>3. CASE ~(Busy(w) /\ m = Len(claimed))
    BY <1>1, <1>3 DEF FullInv, Full, Marked
  <1> QED
    BY <1>2, <1>3

\* The nodes of a message are not more than those in use from its first one on.
LEMMA UsedEnough ==
    ASSUME NEW h \in Nodes, NEW t \in Nodes, NEW a \in Nodes, NEW n \in Nat, n > 0,
           a + n <= ele_count, Block(a, n) \subseteq Span(h, t)
    PROVE  UsedNodes(a, t) >= n
  <1>1. UsedNodes(a, t) = IF a <= t THEN t - a ELSE t - a + (ele_count + 1)
    BY UsedNodesCases
  <1>2. ~(a <= t /\ t <= a + n - 1)
    BY SpanEnds, ShmQueueAssumption DEF Block, Nodes
  <1> QED
    BY <1>1, <1>2, ShmQueueAssumption DEF Nodes

\* The steps of sq_get before its CAS.
LEMMA GetChecks ==
    ASSUME NEW P, NEW w, NEW r, Writers = {w}, Readers = {r}, TypeOK, TypeOK', RingInv(P, w, r),
           ~ConflictExpires,
           \/ GetBegin(r) \/ GetTail(r) \/ GetCasEmpty(r) \/ GetToken(r) \/ GetConflict(r)
           \/ GetRecheck(r) \/ GetLen(r) \/ GetTooLong(r) \/ GetCopy(r)
    PROVE  RingInv(P, w, r)'
  <1>0. /\ head_pos \in Nodes /\ tail_pos \in Nodes /\ head[r] \in Nodes /\ r \in Readers
        /\ rpc \in [Readers -> {"idle", "tail", "casempty", "token", "conflict", "recheck", "len",
                                "copy", "cas", "clear"}]
        /\ old_head \in [Readers -> Nodes] /\ new_head \in [Readers -> Nodes]
        /\ head \in [Readers -> Nodes] /\ rlen \in [Readers -> Nat]
        /\ buf \in [Readers -> Nat \cup {Torn}]
    BY DEF TypeOK, ShmTypeOK, GetTypeOK
  <1>1. LayoutInv(P) /\ WalkInv(P, r)
    BY DEF RingInv
  <1>2. rpc[r] # "casempty"
    BY <1>1 DEF WalkInv
  <1>3. PICK m : m = Len(got) + 1
    OBVIOUS
  <1>4. PICK e : e = End(P, m - 1)
    OBVIOUS
  <1>5. PICK a : a = P[m].at
    OBVIOUS
  <1>6. PICK n : n = P[m].nr
    OBVIOUS
  <1>7. e = head_pos
    <2>1. m - 1 = Len(got)
      BY <1>1, <1>3, PendingUsed
    <2> QED
      BY <1>1, <1>4, <2>1 DEF LayoutInv
  <1>8. ASSUME m \in Pending
        PROVE  /\ m \in Nat \ {0} /\ P \in [Nat -> Place] /\ Placed(P, m)
               /\ a \in Nodes /\ n \in Nat /\ n > 0 /\ a + n <= ele_count
               /\ Area(P, m) = Gap(P, m) \cup Block(a, n) /\ a \in Block(a, n)
               /\ Gap(P, m) \cap Block(a, n) = {}
               /\ Gap(P, m) = IF a = e THEN {} ELSE e .. ele_count
               /\ (a = e \/ a = 0) /\ End(P, m) = a + n
               /\ Area(P, m) \subseteq Span(head_pos, tail_pos)
    <2>1. m \in Nat \ {0} /\ P \in [Nat -> Place] /\ Placed(P, m)
          /\ Area(P, m) \subseteq Span(head_pos, tail_pos)
      BY <1>1, <1>8, PendingUsed DEF LayoutInv
    <2>2. /\ a \in Nodes /\ n \in Nat /\ n > 0 /\ a + n <= ele_count
          /\ Area(P, m) = Gap(P, m) \cup Block(a, n) /\ a \in Block(a, n)
          /\ Gap(P, m) \cap Block(a, n) = {}
      BY <1>5, <1>6, <2>1, AreaParts
    <2>3. Gap(P, m) = IF a = e THEN {} ELSE e .. ele_count
      BY <1>4, <1>5 DEF Gap
    <2>4. (a = e \/ a = 0) /\ End(P, m) = a + n
      BY <1>4, <1>5, <1>6, <2>1 DEF Placed, End
    <2> QED
      BY <2>1, <2>2, <2>3, <2>4
  <1>9. /\ UNCHANGED <<shm, wvars, claimed, got>> /\ rpc[r] # "clear" /\ rpc'[r] # "clear"
    <2>1. UNCHANGED <<shm, wvars, claimed, got>>
      BY <1>2 DEF GetBegin, GetTail, GetCasEmpty, GetToken, GetConflict, GetRecheck, GetLen,
                  GetTooLong, GetCopy, SkipNode
    <2>2. rpc[r] # "clear"
      BY DEF GetBegin, GetTail, GetCasEmpty, GetToken, GetConflict, GetRecheck, GetLen,
             GetTooLong, GetCopy
    <2>3. rpc'[r] # "clear"
      <3>1. CASE GetBegin(r) \/ GetTail(r) \/ GetCasEmpty(r) \/ GetToken(r) \/ GetConflict(r)
        BY <1>0, <1>2, <3>1 DEF GetBegin, GetTail, GetCasEmpty, GetToken, GetConflict
      <3>2. CASE GetRecheck(r) \/ GetLen(r) \/ GetTooLong(r) \/ GetCopy(r)
        BY <1>0, <3>2 DEF GetRecheck, GetLen, GetTooLong, GetCopy, SkipNode
      <3> QED
        BY <3>1, <3>2
    <2> QED
      BY <2>1, <2>2, <2>3
  <1>10. SUFFICES WalkInv(P, r)'
    BY <1>9, GetQuiet
  <1>11. /\ head_pos' = head_pos /\ tail_pos' = tail_pos /\ start_token' = start_token
         /\ datalen' = datalen /\ data' = data /\ got' = got /\ claimed' = claimed
         /\ Pending' = Pending /\ Len(got') + 1 = m
    BY <1>3, <1>9 DEF shm, Pending
  <1>12. rpc[r] # "idle" =>
             /\ old_head[r] = head_pos
             /\ IF m \in Pending THEN head[r] \in Gap(P, m) \cup {a} ELSE head[r] = head_pos
             /\ rpc[r] # "tail" => m \in Pending
    BY <1>1, <1>3, <1>5, <1>9 DEF WalkInv
  <1>13. ASSUME rpc'[r] = "idle"
         PROVE  WalkInv(P, r)'
    BY <1>13 DEF WalkInv
  <1>14. ASSUME rpc'[r] \in {"tail", "token", "conflict"}, old_head'[r] = head_pos,
                IF m \in Pending THEN head'[r] \in Gap(P, m) \cup {a} ELSE head'[r] = head_pos,
                rpc'[r] # "tail" => m \in Pending
         PROVE  WalkInv(P, r)'
    BY <1>5, <1>11, <1>14 DEF WalkInv
  <1>15. CASE GetBegin(r)
    <2>1. rpc'[r] = "tail" /\ old_head'[r] = head_pos /\ head'[r] = head_pos
      BY <1>0, <1>15 DEF GetBegin
    <2>2. m \in Pending => head_pos \in Gap(P, m) \cup {a}
      BY <1>0, <1>7, <1>8, ShmQueueAssumption DEF Nodes
    <2> QED
      BY <1>14, <2>1, <2>2
  <1>16. CASE GetTail(r)
    <2>1. /\ rpc[r] = "tail" /\ old_head'[r] = old_head[r] /\ head'[r] = head[r]
          /\ rpc'[r] = IF tail_pos # head[r] THEN "token"
                       ELSE IF head[r] # old_head[r] THEN "casempty" ELSE "idle"
      BY <1>0, <1>16 DEF GetTail
    <2>2. CASE m \in Pending
      <3>1. head[r] \in Span(head_pos, tail_pos)
        BY <1>8, <1>12, <2>1, <2>2
      <3>2. tail_pos # head[r]
        BY <1>0, <3>1, SpanEnds
      <3> QED
        BY <1>12, <1>14, <2>1, <2>2, <3>2
    <2>3. CASE m \notin Pending
      <3>1. head[r] = head_pos /\ head_pos = tail_pos /\ old_head[r] = head_pos
        BY <1>1, <1>3, <1>12, <2>1, <2>3, PendingUsed
      <3> QED
        BY <1>13, <2>1, <3>1
    <2> QED
      BY <2>2, <2>3
  <1>17. CASE GetToken(r)
    <2>1. /\ rpc[r] = "token" /\ old_head'[r] = old_head[r] /\ head'[r] = head[r]
          /\ \/ rpc'[r] = "len" /\ start_token[head[r]] = "HAS_DATA"
             \/ rpc'[r] = "recheck" /\ start_token[head[r]] = "SKIPPED"
             \/ rpc'[r] = "conflict"
      BY <1>0, <1>17 DEF GetToken
    <2>2. m \in Pending /\ head[r] \in Gap(P, m) \cup {a} /\ old_head[r] = head_pos
      BY <1>12, <2>1
    <2>3. /\ \A k \in Gap(P, m) : start_token[k] # "HAS_DATA"
          /\ start_token[a] # "SKIPPED"
      BY <1>5, <2>2, Tokens
    <2>4. CASE rpc'[r] = "len" /\ start_token[head[r]] = "HAS_DATA"
      BY <1>5, <1>11, <2>1, <2>2, <2>3, <2>4 DEF WalkInv
    <2>5. CASE rpc'[r] = "recheck" /\ start_token[head[r]] = "SKIPPED"
      BY <1>5, <1>11, <2>1, <2>2, <2>3, <2>5 DEF WalkInv
    <2>6. CASE rpc'[r] = "conflict"
      BY <1>14, <2>1, <2>2, <2>6
    <2> QED
      BY <2>1, <2>4, <2>5, <2>6
  <1>18. CASE GetConflict(r)
    <2>1. rpc[r] = "conflict"
      BY <1>18 DEF GetConflict
    <2>2. old_head[r] = head_pos
      BY <1>12, <2>1
    <2>3. rpc'[r] = "idle"
      BY <1>0, <1>18, <2>2 DEF GetConflict
    <2> QED
      BY <1>13, <2>3
  <1>19. CASE GetRecheck(r)
    <2>1. rpc[r] = "recheck"
      BY <1>19 DEF GetRecheck
    <2>2. /\ m \in Pending /\ old_head[r] = head_pos /\ head[r] \in Gap(P, m)
          /\ start_token[head[r]] = "SKIPPED"
      BY <1>1, <1>3, <2>1 DEF WalkInv
    <2>3. rpc'[r] = "tail" /\ old_head'[r] = old_head[r] /\ head'[r] = AddPos(head[r], 1)
      BY <1>0, <1>19, <2>2 DEF GetRecheck, SkipNode
    <2>4. Gap(P, m) = e .. ele_count /\ a = 0
      BY <1>8, <2>2
    <2>5. AddPos(head[r], 1) = IF head[r] + 1 <= ele_count THEN head[r] + 1
                                                           ELSE head[r] + 1 - (ele_count + 1)
      BY <1>0, AddPosCases, ShmQueueAssumption
    <2>6. head'[r] \in Gap(P, m) \cup {a}
      BY <1>0, <1>7, <2>2, <2>3, <2>4, <2>5, ShmQueueAssumption DEF Nodes
    <2> QED
      BY <1>14, <2>2, <2>3, <2>6
  <1>20. ASSUME rpc[r] \in {"len", "copy"}
         PROVE  /\ m \in Pending /\ old_head[r] = head_pos /\ head[r] = a
                /\ start_token[a] = "HAS_DATA" /\ Full(P, m)
                /\ rpc[r] = "copy" => rlen[r] = n
    <2>1. /\ m \in Pending /\ old_head[r] = head_pos /\ head[r] = a
          /\ start_token[a] = "HAS_DATA" /\ (rpc[r] = "copy" => rlen[r] = n)
      BY <1>1, <1>3, <1>5, <1>6, <1>20 DEF WalkInv
    <2> QED
      BY <1>5, <2>1, Tokens
  <1>21. CASE GetLen(r)
    <2>1. rpc[r] = "len"
      BY <1>21 DEF GetLen
    <2>2. datalen[a] = n
      BY <1>5, <1>6, <1>20, <2>1 DEF Full, Body
    <2>3. UsedNodes(a, tail_pos) >= n
      <3>1. Block(a, n) \subseteq Span(head_pos, tail_pos)
        BY <1>8, <1>20, <2>1
      <3> QED
        BY <1>0, <1>8, <1>20, <2>1, <3>1, UsedEnough
    <2>4. ~(UsedNodes(a, tail_pos) < n)
      <3>1. UsedNodes(a, tail_pos) \in Int /\ n \in Int
        BY <1>0, <1>8, <1>20, <2>1, UsedNodesInt
      <3> QED
        BY <2>3, <3>1
    <2>5. /\ rpc'[r] = "copy" /\ old_head'[r] = old_head[r] /\ head'[r] = head[r] /\ rlen'[r] = n
      BY <1>0, <1>20, <1>21, <2>1, <2>2, <2>4 DEF GetLen
    <2> QED
      BY <1>5, <1>6, <1>11, <1>20, <2>1, <2>5 DEF WalkInv
  <1>22. CASE GetTooLong(r)
    BY <1>0, <1>13, <1>22 DEF GetTooLong
  <1>23. CASE GetCopy(r)
    <2>1. rpc[r] = "copy"
      BY <1>23 DEF GetCopy
    <2>2. Contents(a, n) = m
      <3>1. \A k \in Block(a, n) : data[k] = m /\ (k # a => start_token[k] = "PAYLOAD")
        BY <1>5, <1>6, <1>20, <2>1 DEF Full, Body
      <3>2. Block(a, n) \subseteq Nodes /\ a \in Block(a, n)
        BY <1>8, <1>20, <2>1, ShmQueueAssumption DEF Block, Nodes
      <3>3. start_token[a] = "HAS_DATA" /\ datalen[a] = n
        BY <1>5, <1>6, <1>20, <2>1 DEF Full, Body
      <3> QED
        BY <3>1, <3>2, <3>3 DEF Contents
    <2>3. AddPos(a, n) = a + n
      <3>1. a \in Nodes /\ n \in 0 .. (ele_count + 1) /\ a + n <= ele_count
        BY <1>8, <1>20, <2>1, ShmQueueAssumption DEF Nodes
      <3> QED
        BY <3>1, AddPosCases
    <2>4. /\ rpc'[r] = "cas" /\ old_head'[r] = old_head[r] /\ head'[r] = head[r]
          /\ rlen'[r] = rlen[r] /\ new_head'[r] = a + n /\ buf'[r] = m
      BY <1>0, <1>20, <1>23, <2>1, <2>2, <2>3 DEF GetCopy
    <2> QED
      BY <1>5, <1>6, <1>8, <1>11, <1>20, <2>1, <2>4 DEF WalkInv
  <1>24. ~GetCasEmpty(r)
    BY <1>2 DEF GetCasEmpty
  <1> QED
    BY <1>15, <1>16, <1>17, <1>18, <1>19, <1>21, <1>22, <1>23, <1>24

\* The CAS on head_pos: the next message leaves the ring, its tokens are to be
\* reset, and the claim of a writer stays clear of them.
LEMMA GetCasStep ==
    ASSUME NEW P, NEW w, NEW r, Writers = {w}, Readers = {r}, TypeOK, TypeOK', WindowInv,
           RingInv(P, w, r), GetCas(r)
    PROVE  RingInv(P, w, r)' /\ got' = Append(got, Len(got) + 1) /\ Len(got) < Len(claimed)
  <1>1. LayoutInv(P) /\ FullInv(P, w) /\ BusyInv(P, w) /\ WalkInv(P, r) /\ FreeInv(r)
        /\ ReserveInv(w, r) /\ ClaimInv(w) /\ GetInv(r)
    BY DEF RingInv, WindowInv
  <1>2. PICK m : m = Len(got) + 1
    OBVIOUS
  <1>3. PICK h : h = head_pos
    OBVIOUS
  <1>4. PICK g : g = End(P, m)
    OBVIOUS
  <1>5. rpc[r] = "cas"
    BY DEF GetCas
  <1>6. /\ old_head[r] = h /\ m \in Pending /\ start_token[P[m].at] = "HAS_DATA"
        /\ new_head[r] = g /\ buf[r] = m
    BY <1>1, <1>2, <1>3, <1>4, <1>5 DEF WalkInv
  <1>7. /\ head_pos' = g /\ got' = Append(got, m) /\ rpc'[r] = "clear"
        /\ old_head' = old_head /\ new_head' = new_head
        /\ tail_pos' = tail_pos /\ start_token' = start_token /\ datalen' = datalen
        /\ data' = data /\ wvars' = wvars /\ claimed' = claimed
    <2>1. rpc \in [Readers -> {"idle", "tail", "casempty", "token", "conflict", "recheck", "len",
                               "copy", "cas", "clear"}] /\ r \in Readers
      BY DEF TypeOK, GetTypeOK
    <2> QED
      BY <1>3, <1>6, <2>1 DEF GetCas
  <1>8. /\ wpc' = wpc /\ nr_nodes' = nr_nodes /\ old_tail' = old_tail /\ new_tail' = new_tail
        /\ idx' = idx /\ msg' = msg
    BY <1>7 DEF wvars
  <1>9. /\ h \in Nodes /\ tail_pos \in Nodes /\ g \in Nodes /\ new_tail[w] \in Nodes
        /\ nr_nodes[w] \in Nat /\ Len(got) \in Nat /\ Len(claimed) \in Nat
    <2>1. head_pos \in Nodes /\ tail_pos \in Nodes /\ new_head[r] \in Nodes /\ new_tail[w] \in Nodes
          /\ nr_nodes[w] \in Nat
      BY DEF TypeOK, ShmTypeOK, PutTypeOK, GetTypeOK
    <2> QED
      BY <1>1, <1>3, <1>6, <2>1, PendingUsed
  <1>10. /\ Len(got') = m /\ Pending' = Pending \ {m} /\ m \in Nat \ {0} /\ m - 1 = Len(got)
         /\ m <= Len(claimed)
    <2>1. got \in Seq(Nat \cup {Torn})
      BY DEF TypeOK, HistoryTypeOK
    <2>2. Len(got') = Len(got) + 1
      BY <1>7, <2>1
    <2>3. m <= Len(claimed)
      BY <1>6, <1>9 DEF Pending
    <2> QED
      BY <1>2, <1>7, <1>9, <2>2, <2>3 DEF Pending
  <1>11. P \in [Nat -> Place] /\ Placed(P, m) /\ Area(P, m) = Span(h, g) /\ End(P, m - 1) = h
    BY <1>1, <1>3, <1>4, <1>6, <1>10 DEF LayoutInv, Area
  <1>12. /\ Span(g, tail_pos) = Span(h, tail_pos) \ Span(h, g)
         /\ Span(h, g) \subseteq Span(h, tail_pos)
    <2>1. IF h <= tail_pos THEN h <= g /\ g <= tail_pos ELSE h <= g \/ g <= tail_pos
      BY <1>1, <1>3, <1>5, <1>6 DEF GetInv, InWindow
    <2> QED
      BY <1>9, <2>1, SpanShrink
  <1>13. LayoutInv(P)'
    <2>1. \A i \in Pending' : Placed(P, i) /\ Area(P, i) \subseteq Span(g, tail_pos)
      <3> SUFFICES ASSUME NEW i \in Pending'
                   PROVE  Placed(P, i) /\ Area(P, i) \subseteq Span(g, tail_pos)
        OBVIOUS
      <3>1. i \in Pending /\ i # m
        BY <1>10
      <3>2. Placed(P, i) /\ Area(P, i) \subseteq Span(h, tail_pos) /\ Area(P, i) \cap Area(P, m) = {}
        BY <1>1, <1>3, <1>6, <3>1 DEF LayoutInv
      <3> QED
        BY <1>11, <1>12, <3>2
    <2>2. \A i, j \in Pending' : i # j => Area(P, i) \cap Area(P, j) = {}
      BY <1>1, <1>10 DEF LayoutInv
    <2>3. /\ End(P, Len(got')) = head_pos' /\ End(P, Len(claimed')) = tail_pos'
          /\ Len(got') <= Len(claimed')
      BY <1>1, <1>4, <1>7, <1>10 DEF LayoutInv
    <2> QED
      BY <1>7, <1>11, <2>1, <2>2, <2>3 DEF LayoutInv
  <1>14. Busy(w)' = Busy(w)
    BY <1>8 DEF Busy
  <1>15. FullInv(P, w)'
    <2>1. \A i : Full(P, i)' = Full(P, i)
      BY <1>7 DEF Full, Body, Marked
    <2> QED
      BY <1>1, <1>7, <1>10, <1>14, <2>1 DEF FullInv
  <1>16. BusyInv(P, w)'
    <2>1. Busy(w) => Len(claimed) # m
      BY <1>6, Tokens
    <2>2. \A i : Body(P, i)' = Body(P, i) /\ Marked(P, i)' = Marked(P, i)
      BY <1>7 DEF Body, Marked
    <2> QED
      BY <1>1, <1>7, <1>8, <1>10, <1>14, <2>1, <2>2 DEF BusyInv
  <1>17. WalkInv(P, r)'
    BY <1>7 DEF WalkInv
  <1>18. ClearInv(r)'
    <2>1. g = P[m].at + P[m].nr /\ P[m].nr \in Nat /\ P[m].nr > 0 /\ P[m].nr \in Lens
      BY <1>4, <1>10, <1>11, AreaParts DEF End, Placed
    <2>2. CASE P[m].at = h
      BY <1>6, <1>7, <1>9, <2>1, <2>2 DEF ClearInv, Nodes
    <2>3. CASE P[m].at = 0 /\ h + P[m].nr > ele_count /\ P[m].nr < h
      BY <1>6, <1>7, <1>9, <2>1, <2>3 DEF ClearInv, Nodes
    <2> QED
      BY <1>11, <2>2, <2>3 DEF Placed
  <1>19. Unreset(r) = {} /\ Unreset(r)' = Span(h, g)
    BY <1>5, <1>6, <1>7 DEF Unreset
  <1>20. FreeInv(r)'
    <2>1. Unreset(r)' \cap Span(head_pos', tail_pos') = {}
      BY <1>7, <1>12, <1>19
    <2>2. \A k \in Nodes \ Span(head_pos', tail_pos') : k \in Unreset(r)' \/ start_token'[k] = "NO_DATA"
      BY <1>1, <1>3, <1>7, <1>12, <1>19 DEF FreeInv
    <2> QED
      BY <2>1, <2>2 DEF FreeInv
  <1>21. ReserveInv(w, r)'
    <2>1. ASSUME wpc[w] = "wrap"
          PROVE  head_pos' > RESERVE_BLOCK_COUNT
      <3>1. h <= tail_pos /\ h > RESERVE_BLOCK_COUNT
        BY <1>1, <1>3, <2>1 DEF ReserveInv, ClaimInv
      <3>2. g >= h
        BY <1>1, <1>3, <1>5, <1>6, <1>9, <3>1 DEF GetInv, InWindow, Nodes
      <3> QED
        BY <1>7, <1>9, <3>1, <3>2, ShmQueueAssumption DEF Nodes
    <2>2. ASSUME wpc[w] = "cas"
          PROVE  Unreset(r)' \cap Span(tail_pos, new_tail[w]) = {}
      <3>1. nr_nodes[w] > 0
        BY <1>1, <2>2 DEF ClaimInv
      <3>2. \/ tail_pos < new_tail[w] /\ (h <= tail_pos \/ new_tail[w] < h)
            \/ new_tail[w] < h /\ h <= tail_pos
        BY <1>1, <1>3, <1>9, <2>2, <3>1 DEF ClaimInv, Nodes
      <3>3. Span(h, tail_pos) \cap Span(tail_pos, new_tail[w]) = {}
        BY <1>9, <3>2, SpanGrow
      <3> QED
        BY <1>12, <1>19, <3>3
    <2> QED
      BY <1>1, <1>7, <1>8, <2>1, <2>2 DEF ReserveInv
  <1> QED
    BY <1>2, <1>7, <1>9, <1>10, <1>13, <1>15, <1>16, <1>17, <1>18, <1>20, <1>21 DEF RingInv

\* The token of a node given back is reset: no message is there.
LEMMA GetClearStep ==
    ASSUME NEW P, NEW w, NEW r, Writers = {w}, Readers = {r}, TypeOK, TypeOK',
           RingInv(P, w, r), GetClear(r)
    PROVE  RingInv(P, w, r)'
  <1>0. /\ head_pos \in Nodes /\ tail_pos \in Nodes /\ old_head[r] \in Nodes /\ r \in Readers
        /\ rpc \in [Readers -> {"idle", "tail", "casempty", "token", "conflict", "recheck", "len",
                                "copy", "cas", "clear"}]
        /\ old_head \in [Readers -> Nodes]
        /\ start_token \in [Nodes -> {"NO_DATA", "SKIPPED", "HAS_DATA", "PAYLOAD"}]
    BY DEF TypeOK, ShmTypeOK, GetTypeOK
  <1>1. /\ LayoutInv(P) /\ FullInv(P, w) /\ BusyInv(P, w) /\ ClearInv(r) /\ FreeInv(r)
        /\ ReserveInv(w, r)
    BY DEF RingInv
  <1>2. /\ head_pos' = head_pos /\ tail_pos' = tail_pos /\ datalen' = datalen /\ data' = data
        /\ new_head' = new_head /\ claimed' = claimed /\ got' = got /\ Pending' = Pending
        /\ wpc' = wpc /\ nr_nodes' = nr_nodes /\ old_tail' = old_tail /\ new_tail' = new_tail
        /\ idx' = idx /\ msg' = msg /\ rpc[r] = "clear"
    BY DEF GetClear, wvars, Pending
  <1>3. LayoutInv(P)' /\ Busy(w)' = Busy(w)
    BY <1>1, <1>2 DEF LayoutInv, Busy
  <1>4. PICK o : o = old_head[r]
    OBVIOUS
  <1>5. /\ new_head[r] = head_pos /\ Unreset(r) = Span(o, head_pos)
        /\ \/ o = head_pos
           \/ o < head_pos /\ \E n \in Lens : head_pos - n <= o
           \/ o > head_pos /\ head_pos \in Lens /\ o + head_pos > ele_count
    BY <1>1, <1>2, <1>4 DEF ClearInv, Unreset
  <1>6. ASSUME \A k \in Span(head_pos, tail_pos) : start_token'[k] = start_token[k]
        PROVE  FullInv(P, w)' /\ BusyInv(P, w)'
    <2>1. ASSUME NEW m \in Pending
          PROVE  /\ Full(P, m) => Full(P, m)'
                 /\ Body(P, m) => Body(P, m)'
                 /\ Marked(P, m) => Marked(P, m)'
                 /\ start_token'[P[m].at] = start_token[P[m].at]
                 /\ \A k \in Gap(P, m) : start_token'[k] = start_token[k]
      <3>1. m \in Nat \ {0} /\ P \in [Nat -> Place] /\ Placed(P, m)
            /\ Area(P, m) \subseteq Span(head_pos, tail_pos)
        BY <1>1, PendingUsed DEF LayoutInv
      <3>2. Area(P, m) = Gap(P, m) \cup Block(P[m].at, P[m].nr) /\ P[m].at \in Block(P[m].at, P[m].nr)
        BY <3>1, AreaParts
      <3>3. /\ start_token'[P[m].at] = start_token[P[m].at]
            /\ \A k \in Gap(P, m) : start_token'[k] = start_token[k]
            /\ \A k \in Block(P[m].at, P[m].nr) : start_token'[k] = start_token[k]
        BY <1>6, <3>1, <3>2
      <3>4. Body(P, m) => Body(P, m)'
        BY <1>2, <3>3 DEF Body
      <3>5. Marked(P, m) => Marked(P, m)'
        BY <3>3 DEF Marked
      <3> QED
        BY <3>3, <3>4, <3>5 DEF Full
    <2>2. FullInv(P, w)'
      BY <1>1, <1>2, <1>3, <2>1 DEF FullInv
    <2>3. PICK c : c = Len(claimed)
      OBVIOUS
    <2>4. BusyInv(P, w)'
      <3>1. SUFFICES ASSUME Busy(w) PROVE BusyInv(P, w)'
        BY <1>3 DEF BusyInv
      <3>2. c \in Pending
        BY <1>1, <2>3, <3>1 DEF BusyInv
      <3>3. /\ Body(P, c) => Body(P, c)'
            /\ Marked(P, c) => Marked(P, c)'
            /\ start_token'[P[c].at] = start_token[P[c].at]
            /\ \A k \in Gap(P, c) : start_token'[k] = start_token[k]
        BY <2>1, <3>2
      <3>4. Len(claimed') = c
        BY <1>2, <2>3
      <3> QED
        BY <1>1, <1>2, <2>3, <3>1, <3>2, <3>3, <3>4 DEF BusyInv
    <2> QED
      BY <2>2, <2>4
  <1>7. CASE o # head_pos
    <2>1. /\ start_token' = [start_token EXCEPT ![o] = "NO_DATA"]
          /\ old_head'[r] = AddPos(o, 1) /\ rpc' = rpc
      BY <1>0, <1>4, <1>5, <1>7 DEF GetClear
    <2>2. old_head'[r] = IF o + 1 <= ele_count THEN o + 1 ELSE 0
      <3>1. AddPos(o, 1) = IF o + 1 <= ele_count THEN o + 1 ELSE o + 1 - (ele_count + 1)
        BY <1>0, <1>4, AddPosCases, ShmQueueAssumption
      <3> QED
        BY <1>0, <1>4, <2>1, <3>1, ShmQueueAssumption DEF Nodes
    <2>3. PICK q : q = old_head'[r]
      OBVIOUS
    <2>4. q = (IF o + 1 <= ele_count THEN o + 1 ELSE 0) /\ o \in Nodes
      BY <1>0, <1>4, <2>2, <2>3
    <2>5. o \in Span(o, head_pos)
      BY <1>0, <1>7, <2>4, SpanEnds
    <2>6. Span(q, head_pos) = Span(o, head_pos) \ {o}
      <3>1. CASE o < head_pos
        BY <1>0, <2>4, <3>1, ShmQueueAssumption DEF Span, Nodes
      <3>2. CASE o > head_pos
        BY <1>0, <2>4, <3>2, ShmQueueAssumption DEF Span, Nodes
      <3> QED
        BY <1>0, <1>7, <2>4, <3>1, <3>2, ShmQueueAssumption DEF Nodes
    <2>7. Unreset(r)' = Unreset(r) \ {o}
      BY <1>2, <1>5, <2>1, <2>3, <2>6 DEF Unreset
    <2>8. \A k \in Span(head_pos, tail_pos) : k # o /\ start_token'[k] = start_token[k]
      <3>1. Span(head_pos, tail_pos) \subseteq Nodes
        BY <1>0, SpanEnds
      <3>2. o \notin Span(head_pos, tail_pos)
        BY <1>1, <1>5, <2>5 DEF FreeInv
      <3> QED
        BY <1>0, <2>1, <3>1, <3>2
    <2>9. FullInv(P, w)' /\ BusyInv(P, w)'
      BY <1>6, <2>8
    <2>10. WalkInv(P, r)'
      BY <1>2, <2>1 DEF WalkInv
    <2>11. ClearInv(r)'
      <3>1. \/ q = head_pos
            \/ q < head_pos /\ \E n \in Lens : head_pos - n <= q
            \/ q > head_pos /\ head_pos \in Lens /\ q + head_pos > ele_count
        <4>1. CASE o < head_pos /\ \E n \in Lens : head_pos - n <= o
          <5>1. PICK n \in Lens : head_pos - n <= o
            BY <4>1
          <5>2. n \in Nat
            BY ShmQueueAssumption
          <5>3. q = o + 1 /\ q <= head_pos /\ head_pos - n <= q
            BY <1>0, <2>4, <4>1, <5>1, <5>2, ShmQueueAssumption DEF Nodes
          <5> QED
            BY <1>0, <2>4, <5>3, ShmQueueAssumption DEF Nodes
        <4>2. CASE o > head_pos /\ head_pos \in Lens /\ o + head_pos > ele_count
          <5>1. CASE o + 1 <= ele_count
            BY <1>0, <2>4, <4>2, <5>1, ShmQueueAssumption DEF Nodes
          <5>2. CASE ~(o + 1 <= ele_count)
            <6>1. q = 0 /\ head_pos - head_pos <= q
              BY <1>0, <2>4, <5>2, ShmQueueAssumption DEF Nodes
            <6> QED
              BY <1>0, <4>2, <6>1, ShmQueueAssumption DEF Nodes
          <5> QED
            BY <5>1, <5>2
        <4> QED
          BY <1>5, <1>7, <4>1, <4>2
      <3> QED
        BY <1>2, <1>5, <2>1, <2>3, <3>1 DEF ClearInv
    <2>12. FreeInv(r)'
      <3>1. \A k \in Nodes \ Span(head_pos, tail_pos) : k \in Unreset(r)' \/ start_token'[k] = "NO_DATA"
        BY <1>0, <1>1, <2>1, <2>7 DEF FreeInv
      <3> QED
        BY <1>1, <1>2, <2>7, <3>1 DEF FreeInv
    <2>13. ReserveInv(w, r)'
      BY <1>1, <1>2, <2>7 DEF ReserveInv
    <2> QED
      BY <1>3, <2>9, <2>10, <2>11, <2>12, <2>13 DEF RingInv
  <1>8. CASE o = head_pos
    <2>1. rpc'[r] = "idle" /\ start_token' = start_token
      BY <1>0, <1>4, <1>5, <1>8 DEF GetClear
    <2>2. Unreset(r) = {} /\ Unreset(r)' = {}
      BY <1>0, <1>5, <1>8, <2>1, SpanEnds DEF Unreset
    <2>3. WalkInv(P, r)' /\ ClearInv(r)'
      BY <2>1 DEF WalkInv, ClearInv
    <2>4. FreeInv(r)' /\ ReserveInv(w, r)'
      BY <1>1, <1>2, <2>1, <2>2 DEF FreeInv, ReserveInv
    <2>5. FullInv(P, w)' /\ BusyInv(P, w)'
      BY <1>6, <2>1
    <2> QED
      BY <1>3, <2>3, <2>4, <2>5 DEF RingInv
  <1> QED
    BY <1>7, <1>8

-----------------------------------------------------------------------------
(* The ring as a queue.                                                      *)

\* The inductive invariant: some layout describes the ring.
QueueInv(w, r) == CountInv /\ \E P : RingInv(P, w, r)

LEMMA QueueInit ==
    ASSUME NEW w, NEW r, Writers = {w}, Readers = {r}, Init
    PROVE  QueueInv(w, r)
  <1>0. /\ head_pos = 0 /\ tail_pos = 0 /\ Len(claimed) = 0 /\ Len(got) = 0
        /\ wpc[w] = "idle" /\ rpc[r] = "idle" /\ start_token = [n \in Nodes |-> "NO_DATA"]
        /\ 0 \in Nodes
    BY ShmQueueAssumption DEF Init, Nodes
  <1>1. PICK P : P = [m \in Nat |-> [at |-> 0, nr |-> 0]]
    OBVIOUS
  <1>2. P \in [Nat -> Place] /\ End(P, 0) = 0 /\ Pending = {}
    BY <1>0, <1>1 DEF Place, End, Pending
  <1>3. LayoutInv(P) /\ FullInv(P, w)
    BY <1>0, <1>2 DEF LayoutInv, FullInv
  <1>4. BusyInv(P, w) /\ WalkInv(P, r) /\ ClearInv(r) /\ ReserveInv(w, r)
    BY <1>0 DEF BusyInv, Busy, WalkInv, ClearInv, ReserveInv
  <1>5. FreeInv(r)
    BY <1>0 DEF FreeInv, Unreset
  <1>6. CountInv
    BY <1>0 DEF CountInv
  <1> QED
    BY <1>3, <1>4, <1>5, <1>6 DEF RingInv, QueueInv

\* Every step keeps the invariant, and puts or gets what a queue would.
LEMMA QueueStep ==
    ASSUME NEW w, NEW r, Writers = {w}, Readers = {r}, Fits, ~ConflictExpires,
           TypeOK, TypeOK', WindowInv, QueueInv(w, r), [Next]_vars
    PROVE  QueueInv(w, r)' /\ [FQ!Next]_<<claimed, got>>
  <1>1. PICK P : RingInv(P, w, r)
    BY DEF QueueInv
  <1>2. /\ CountInv /\ claimed \in Seq(Nat) /\ got \in Seq(Nat \cup {Torn})
    BY DEF QueueInv, TypeOK, HistoryTypeOK
  <1>3. ASSUME NEW s, NEW S, s \in Seq(S), Len(s) + 1 \in S, \A i \in 1 .. Len(s) : s[i] = i
        PROVE  \A i \in 1 .. Len(Append(s, Len(s) + 1)) : Append(s, Len(s) + 1)[i] = i
    BY <1>3
  <1>4. ASSUME UNCHANGED <<claimed, got>>
        PROVE  CountInv' /\ [FQ!Next]_<<claimed, got>>
    BY <1>2, <1>4 DEF CountInv
  <1>5. CASE \/ \E nr \in Lens : PutBegin(w, nr)
             \/ PutReadTail(w) \/ PutFull(w) \/ PutCheck(w) \/ PutWrap(w) \/ PutClaimLost(w)
    <2>1. RingInv(P, w, r)'
      BY <1>1, <1>5, PutChecks
    <2>2. UNCHANGED <<claimed, got>>
      BY <1>5 DEF PutBegin, PutReadTail, PutFull, PutCheck, PutWrap, PutClaimLost
    <2> QED
      BY <1>4, <2>1, <2>2 DEF QueueInv
  <1>6. CASE PutClaim(w)
    <2>1. \E Q : RingInv(Q, w, r)'
      BY <1>1, <1>6, PutClaimStep
    <2>2. claimed' = Append(claimed, Len(claimed) + 1) /\ got' = got
      BY <1>6 DEF PutClaim
    <2>3. CountInv'
      <3>1. Len(claimed) + 1 \in Nat
        BY <1>2
      <3>2. \A i \in 1 .. Len(claimed') : claimed'[i] = i
        BY <1>2, <1>3, <2>2, <3>1 DEF CountInv
      <3> QED
        BY <1>2, <2>2, <3>2 DEF CountInv
    <2>4. FQ!Next
      BY <2>2 DEF FQ!Next, FQ!Send
    <2> QED
      BY <2>1, <2>3, <2>4 DEF QueueInv
  <1>7. CASE PutMark(w) \/ PutFill(w) \/ PutPublish(w)
    <2>1. RingInv(P, w, r)'
      BY <1>1, <1>7, PutBusyStep
    <2>2. UNCHANGED <<claimed, got>>
      BY <1>7 DEF PutMark, PutFill, PutPublish
    <2> QED
      BY <1>4, <2>1, <2>2 DEF QueueInv
  <1>8. CASE \/ GetBegin(r) \/ GetTail(r) \/ GetCasEmpty(r) \/ GetToken(r) \/ GetConflict(r)
             \/ GetRecheck(r) \/ GetLen(r) \/ GetTooLong(r) \/ GetCopy(r)
    <2>1. RingInv(P, w, r)'
      BY <1>1, <1>8, GetChecks
    <2>2. UNCHANGED <<claimed, got>>
      BY <1>8 DEF GetBegin, GetTail, GetCasEmpty, GetToken, GetConflict, GetRecheck, GetLen,
                  GetTooLong, GetCopy, SkipNode
    <2> QED
      BY <1>4, <2>1, <2>2 DEF QueueInv
  <1>9. CASE GetCas(r)
    <2>1. RingInv(P, w, r)' /\ got' = Append(got, Len(got) + 1) /\ Len(got) < Len(claimed)
      BY <1>1, <1>9, GetCasStep
    <2>2. claimed' = claimed
      BY <1>9 DEF GetCas
    <2>3. CountInv'
      <3>1. Len(got) + 1 \in Nat \cup {Torn}
        BY <1>2
      <3>2. \A i \in 1 .. Len(got') : got'[i] = i
        BY <1>2, <1>3, <2>1, <3>1 DEF CountInv
      <3> QED
        BY <1>2, <2>2, <3>2 DEF CountInv
    <2>4. FQ!Next
      <3>1. Len(got) \in Nat /\ Len(claimed) \in Nat
        BY <1>2
      <3>2. Len(got) + 1 \in 1 .. Len(claimed)
        BY <2>1, <3>1
      <3>3. claimed[Len(got) + 1] = Len(got) + 1
        BY <1>2, <3>2 DEF CountInv
      <3> QED
        BY <2>1, <2>2, <3>3 DEF FQ!Next, FQ!Receive
    <2> QED
      BY <2>1, <2>3, <2>4 DEF QueueInv
  <1>10. CASE GetClear(r)
    <2>1. RingInv(P, w, r)'
      BY <1>1, <1>10, GetClearStep
    <2>2. UNCHANGED <<claimed, got>>
      BY <1>10 DEF GetClear
    <2> QED
      BY <1>4, <2>1, <2>2 DEF QueueInv
  <1>11. CASE UNCHANGED vars
    <2>1. /\ UNCHANGED <<shm, rvars, claimed, got>> /\ wvars' = wvars
      BY <1>11 DEF vars
    <2>2. RingInv(P, w, r)'
      <3>1. /\ head_pos' = head_pos /\ tail_pos' = tail_pos /\ start_token' = start_token
            /\ datalen' = datalen /\ data' = data /\ claimed' = claimed /\ got' = got
            /\ wpc' = wpc /\ nr_nodes' = nr_nodes /\ old_tail' = old_tail /\ new_tail' = new_tail
            /\ idx' = idx /\ msg' = msg /\ rpc' = rpc /\ old_head' = old_head
            /\ new_head' = new_head /\ head' = head /\ rlen' = rlen /\ buf' = buf
        BY <2>1 DEF shm, wvars, rvars
      <3>2. Pending' = Pending /\ Busy(w)' = Busy(w) /\ Unreset(r)' = Unreset(r)
        BY <3>1 DEF Pending, Busy, Unreset
      <3>3. LayoutInv(P)' /\ FullInv(P, w)'
        BY <1>1, <2>1, <3>1, <3>2, ShmKept DEF RingInv, FullInv
      <3>4. BusyInv(P, w)'
        BY <1>1, <2>1, <3>1, <3>2, ShmKept DEF RingInv, BusyInv
      <3>5. WalkInv(P, r)' /\ ClearInv(r)' /\ FreeInv(r)' /\ ReserveInv(w, r)'
        BY <1>1, <3>1, <3>2 DEF RingInv, WalkInv, ClearInv, FreeInv, ReserveInv
      <3> QED
        BY <3>3, <3>4, <3>5 DEF RingInv
    <2> QED
      BY <1>4, <2>1, <2>2 DEF QueueInv
  <1> QED
    BY <1>5, <1>6, <1>7, <1>8, <1>9, <1>10, <1>11 DEF Next, sq_put, sq_get, PutStep

\* The contents of the ring are right at every moment: for one writer that is never
\* slower than the conflict time, one reader, and messages for which the reserve is
\* enough, some layout of whole messages describes the nodes in use.
THEOREM QueueInvCorrect ==
    ASSUME NEW w, NEW r, Writers = {w}, Readers = {r}, Fits, ~ConflictExpires
    PROVE  Spec => []QueueInv(w, r)
  <1>1. Init => QueueInv(w, r)
    BY QueueInit
  <1>2. TypeOK /\ TypeOK' /\ WindowInv /\ QueueInv(w, r) /\ [Next]_vars => QueueInv(w, r)'
    BY QueueStep
  <1>3. Spec => []WindowInv
    BY WindowInvCorrect
  <1> QED
    BY <1>1, <1>2, <1>3, TypeCorrect, PTL DEF Spec

\* The ring implements a FIFO queue: sq_get returns the messages of sq_put whole, in
\* the order of their CAS, none twice and none passed over, for every size of the
\* ring and every set of lengths that the reserve covers.
THEOREM RingIsFifo ==
    ASSUME NEW w, NEW r, Writers = {w}, Readers = {r}, Fits, ~ConflictExpires
    PROVE  Spec => Fifo
  <1>1. Init => FQ!Init
    BY DEF Init, FQ!Init
  <1>2. TypeOK /\ TypeOK' /\ WindowInv /\ QueueInv(w, r) /\ [Next]_vars => [FQ!Next]_<<claimed, got>>
    BY QueueStep
  <1>3. Spec => []WindowInv
    BY WindowInvCorrect
  <1>4. Spec => []QueueInv(w, r)
    BY QueueInvCorrect
  <1> QED
    BY <1>1, <1>2, <1>3, <1>4, TypeCorrect, PTL DEF Spec, Fifo, FQ!Spec

\* When head_pos meets tail_pos, sq_get has returned every message that was put.
THEOREM EmptyRingCorrect ==
    ASSUME NEW w, NEW r, Writers = {w}, Readers = {r}, Fits, ~ConflictExpires
    PROVE  Spec => []EmptyMeansDelivered
  <1>1. TypeOK /\ QueueInv(w, r) => EmptyMeansDelivered
    <2>1. SUFFICES ASSUME TypeOK, NEW P, RingInv(P, w, r) PROVE EmptyMeansDelivered
      BY DEF QueueInv
    <2> QED
      BY <2>1, PendingUsed DEF RingInv, EmptyMeansDelivered
  <1>2. Spec => []QueueInv(w, r)
    BY QueueInvCorrect
  <1> QED
    BY <1>1, <1>2, TypeCorrect, PTL

\* The loop of sq_get that resets tokens behind its CAS never meets a node that
\* sq_put has taken again: the reserve does what shm_queue.h says.
THEOREM ReserveCorrect ==
    ASSUME NEW w, NEW r, Writers = {w}, Readers = {r}, Fits, ~ConflictExpires
    PROVE  Spec => []NoWriteAfterRead
  <1>1. QueueInv(w, r) => NoWriteAfterRead
    <2>1. SUFFICES ASSUME NEW P, RingInv(P, w, r) PROVE NoWriteAfterRead
      BY DEF QueueInv
    <2> QED
      BY <2>1 DEF RingInv, FreeInv, Unreset, NoWriteAfterRead
  <1>2. Spec => []QueueInv(w, r)
    BY QueueInvCorrect
  <1> QED
    BY <1>1, <1>2, PTL

-----------------------------------------------------------------------------
(* What a slow writer leaves behind, for one writer and one reader.          *)

\* All that sq_get has returned is older than message m.
Older(m) == \A i \in DOMAIN got : got[i] # Torn => got[i] < m

\* Behind the message that starts at node n there are no more nodes of its owner.
Closed(O, n) ==
    /\ n + datalen[n] \in Nodes /\ datalen[n] <= UsedNodes(n, tail_pos)
    /\ \A k \in Span(n + datalen[n], tail_pos) : O[k] # O[n]

\* O gives each node in use the message that it was last taken for: later ones to
\* later nodes.
OwnerInv(O) ==
    /\ O \in [Nodes -> Nat]
    /\ \A n \in Nodes : O[n] <= Len(claimed) /\ data[n] <= Len(claimed)
    /\ \A n \in Span(head_pos, tail_pos) : \A k \in Span(n, tail_pos) : O[n] <= O[k]
    /\ Older(Len(claimed) + 1)

\* A token HAS_DATA is that of the owner, whole and newer than what was returned, or
\* is left over in a node that is being written.
ShownInv(O, w) ==
    \A n \in Span(head_pos, tail_pos) : start_token[n] = "HAS_DATA" =>
        \/ Busy(w) /\ O[n] = Len(claimed)
        \/ data[n] = O[n] /\ Closed(O, n) /\ Older(O[n])

\* The nodes of the message being written.
WrittenInv(O, w) ==
    LET c == Len(claimed)
        B == Block(idx[w], nr_nodes[w]) IN
    Busy(w) =>
        /\ c > 0 /\ msg[w] = c /\ nr_nodes[w] > 0 /\ idx[w] + nr_nodes[w] = tail_pos
        /\ \A k \in B \cap Span(head_pos, tail_pos) : O[k] = c
        /\ \A k \in Span(head_pos, tail_pos) : O[k] = c /\ start_token[k] = "HAS_DATA" =>
               k \in B \/ (wpc[w] = "mark" /\ k >= old_tail[w])
        /\ wpc[w] = "mark" =>
               /\ idx[w] = 0 /\ nr_nodes[w] <= old_tail[w]
               /\ \A k \in Span(head_pos, tail_pos) : k >= old_tail[w] => O[k] = c
        /\ wpc[w] # "publish" => Older(c) /\ \A k \in Nodes : data[k] < c
        /\ wpc[w] = "publish" =>
               /\ datalen[idx[w]] = nr_nodes[w]
               /\ \A k \in Nodes : data[k] = c <=> k \in B
               /\ \A k \in B \ {idx[w]} : start_token[k] # "HAS_DATA"
               /\ idx[w] \in Span(head_pos, tail_pos) => Older(c)

\* What the reader has copied is older than what stays in the ring.
CopiedInv(O, w, r) ==
    /\ rpc[r] \in {"len", "copy"} =>
           \/ start_token[head[r]] \in {"HAS_DATA", "PAYLOAD"}
           \/ /\ data[head[r]] < O[head[r]]
              /\ ~(Busy(w) /\ head[r] \in Block(idx[w], nr_nodes[w]))
    /\ rpc[r] = "cas" /\ buf[r] # Torn =>
           /\ buf[r] <= Len(claimed)
           /\ wpc[w] \in {"mark", "fill"} => buf[r] < Len(claimed)
           /\ \A k \in Span(new_head[r], tail_pos) : buf[r] < O[k]

\* No message is empty.
SizedInv(r) ==
    /\ \A n \in Nodes : start_token[n] = "HAS_DATA" => datalen[n] > 0
    /\ rpc[r] \in {"len", "copy"} => datalen[head[r]] > 0

OldInv(O, w, r) ==
    OwnerInv(O) /\ ShownInv(O, w) /\ WrittenInv(O, w) /\ CopiedInv(O, w, r) /\ SizedInv(r)

\* A message of v nodes at a node in use, of at most as many nodes as are in use from
\* there on, ends within the nodes in use or at the tail.
LEMMA WithinSpan ==
    ASSUME NEW h \in Nodes, NEW t \in Nodes, NEW n \in Span(h, t), NEW v \in Nat,
           v <= UsedNodes(n, t), n + v \in Nodes
    PROVE  /\ IF h <= t THEN h <= n + v /\ n + v <= t ELSE h <= n + v \/ n + v <= t
           /\ Span(n + v, t) \subseteq Span(n, t)
  <1>0. n \in Nodes
    BY SpanEnds
  <1>1. UsedNodes(n, t) = IF n <= t THEN t - n ELSE t - n + (ele_count + 1)
    BY <1>0, UsedNodesCases
  <1>2. CASE h <= t
    BY <1>0, <1>1, <1>2, ShmQueueAssumption DEF Span, Nodes
  <1>3. CASE h > t /\ n >= h
    <2>1. n + v >= h /\ n > t
      BY <1>0, <1>3, ShmQueueAssumption DEF Nodes
    <2>2. Span(n + v, t) \subseteq Span(n, t)
      BY <1>0, <1>1, <2>1, ShmQueueAssumption DEF Span, Nodes
    <2> QED
      BY <1>0, <1>3, <2>1, <2>2, ShmQueueAssumption DEF Nodes
  <1>4. CASE h > t /\ n < h
    <2>1. n < t
      BY <1>0, <1>4, ShmQueueAssumption DEF Span, Nodes
    <2>2. n + v <= t
      BY <1>0, <1>1, <2>1, ShmQueueAssumption DEF Nodes
    <2>3. Span(n + v, t) \subseteq Span(n, t)
      BY <1>0, <2>1, <2>2, ShmQueueAssumption DEF Span, Nodes
    <2> QED
      BY <1>0, <1>4, <2>2, <2>3 DEF Nodes
  <1> QED
    BY <1>0, <1>2, <1>3, <1>4 DEF Nodes

\* A claim that moves the tail from t to u adds the nodes taken to those from any
\* position p in use, or the tail, on.
LEMMA WindowGrow ==
    ASSUME NEW h \in Nodes, NEW t \in Nodes, NEW u \in Nodes, NEW p \in Nodes,
           (t < u /\ (h <= t \/ u < h)) \/ (u < h /\ h <= t),
           IF h <= t THEN h <= p /\ p <= t ELSE h <= p \/ p <= t
    PROVE  /\ Span(p, u) = Span(p, t) \cup Span(t, u)
           /\ Span(p, t) \cap Span(t, u) = {}
           /\ UsedNodes(p, t) <= UsedNodes(p, u)
  <1>1. (t < u /\ (p <= t \/ u < p)) \/ (u < p /\ p <= t)
    BY DEF Nodes
  <1>2. UsedNodes(p, t) = IF p <= t THEN t - p ELSE t - p + (ele_count + 1)
    BY UsedNodesCases
  <1>3. UsedNodes(p, u) = IF p <= u THEN u - p ELSE u - p + (ele_count + 1)
    BY UsedNodesCases
  <1>4. UsedNodes(p, t) <= UsedNodes(p, u)
    BY <1>1, <1>2, <1>3, ShmQueueAssumption DEF Nodes
  <1> QED
    BY <1>1, <1>4, SpanGrow

\* A node in use is at a position of the window.
LEMMA InUse ==
    ASSUME NEW h \in Nodes, NEW t \in Nodes, NEW p \in Nodes
    PROVE  p \in Span(h, t) <=>
               p # t /\ IF h <= t THEN h <= p /\ p <= t ELSE h <= p \/ p <= t
  BY ShmQueueAssumption DEF Span, Nodes

\* A block that ends within the ring ends at the sum.
LEMMA AddPosPlain ==
    ASSUME NEW n \in Nodes, NEW v \in Nat, n + v \in Nodes
    PROVE  AddPos(n, v) = n + v
  <1>1. v \in 0 .. (ele_count + 1) /\ n + v <= ele_count
    BY ShmQueueAssumption DEF Nodes
  <1> QED
    BY <1>1, AddPosCases

\* The first and the last node of a block.
LEMMA BlockEnds ==
    ASSUME NEW n \in Nodes, NEW v \in Nat, v > 0
    PROVE  n \in Block(n, v) /\ n + v - 1 \in Block(n, v)
  BY ShmQueueAssumption DEF Block, Nodes

\* The nodes being written are nodes of the ring, right below tail_pos.
LEMMA WrittenBlock ==
    ASSUME NEW O, NEW w \in Writers, TypeOK, WrittenInv(O, w), Busy(w)
    PROVE  /\ idx[w] \in Nodes /\ Block(idx[w], nr_nodes[w]) \subseteq Nodes
           /\ idx[w] \in Block(idx[w], nr_nodes[w])
           /\ idx[w] + nr_nodes[w] = tail_pos /\ tail_pos \in Nodes /\ nr_nodes[w] \in Nat
           /\ nr_nodes[w] > 0 /\ Len(claimed) \in Nat
  <1>1. idx[w] \in Nodes /\ nr_nodes[w] \in Nat /\ tail_pos \in Nodes /\ Len(claimed) \in Nat
    BY DEF TypeOK, ShmTypeOK, PutTypeOK, HistoryTypeOK
  <1>2. nr_nodes[w] > 0 /\ idx[w] + nr_nodes[w] = tail_pos
    BY DEF WrittenInv
  <1> QED
    BY <1>1, <1>2, ShmQueueAssumption DEF Block, Nodes

\* A writer that has no nodes, before and after the step, changes nothing of it.
LEMMA OldPutQuiet ==
    ASSUME NEW O, NEW w, NEW r, OldInv(O, w, r), UNCHANGED <<shm, rvars, claimed, got>>,
           ~Busy(w), ~Busy(w)'
    PROVE  OldInv(O, w, r)'
  <1>0. /\ head_pos' = head_pos /\ tail_pos' = tail_pos /\ start_token' = start_token
        /\ datalen' = datalen /\ data' = data /\ claimed' = claimed /\ got' = got
        /\ rpc' = rpc /\ new_head' = new_head /\ head' = head /\ buf' = buf
    BY DEF shm, rvars
  <1>1. OwnerInv(O)' /\ SizedInv(r)'
    BY <1>0 DEF OldInv, OwnerInv, SizedInv, Older
  <1>2. ShownInv(O, w)'
    BY <1>0 DEF OldInv, ShownInv, Closed, Older
  <1>3. WrittenInv(O, w)'
    BY DEF WrittenInv
  <1>4. wpc[w]' \notin {"mark", "fill"}
    BY DEF Busy
  <1>5. CopiedInv(O, w, r)'
    BY <1>0, <1>4 DEF OldInv, CopiedInv
  <1> QED
    BY <1>1, <1>2, <1>3, <1>5 DEF OldInv

\* A step of sq_get that leaves the ring alone only has to keep what it has found.
LEMMA OldGetQuiet ==
    ASSUME NEW O, NEW w, NEW r, OldInv(O, w, r), UNCHANGED <<shm, wvars, claimed, got>>,
           CopiedInv(O, w, r)', rpc[r]' \in {"len", "copy"} => datalen[head[r]'] > 0
    PROVE  OldInv(O, w, r)'
  <1>0. /\ head_pos' = head_pos /\ tail_pos' = tail_pos /\ start_token' = start_token
        /\ datalen' = datalen /\ data' = data /\ claimed' = claimed /\ got' = got
        /\ wpc' = wpc /\ nr_nodes' = nr_nodes /\ old_tail' = old_tail /\ idx' = idx
        /\ msg' = msg
    BY DEF shm, wvars
  <1>1. OwnerInv(O)' /\ SizedInv(r)'
    BY <1>0 DEF OldInv, OwnerInv, SizedInv, Older
  <1>2. Busy(w)' = Busy(w)
    BY <1>0 DEF Busy
  <1>3. ShownInv(O, w)'
    BY <1>0, <1>2 DEF OldInv, ShownInv, Closed, Older
  <1>4. WrittenInv(O, w)'
    BY <1>0, <1>2 DEF OldInv, WrittenInv, Older
  <1> QED
    BY <1>1, <1>3, <1>4 DEF OldInv

\* When the reader moves head_pos or resets a token, there is less to be shown: nodes
\* leave the ring, tokens HAS_DATA disappear.
LEMMA OldLess ==
    ASSUME NEW O, NEW w \in Writers, NEW r, TypeOK, OldInv(O, w, r),
           UNCHANGED <<tail_pos, datalen, data, wvars, claimed, got>>,
           Span(head_pos', tail_pos) \subseteq Span(head_pos, tail_pos),
           \A n \in Nodes : start_token'[n] = "HAS_DATA" => start_token[n] = "HAS_DATA",
           rpc[r]' \notin {"len", "copy", "cas"}
    PROVE  OldInv(O, w, r)'
  <1>0. /\ tail_pos' = tail_pos /\ datalen' = datalen /\ data' = data /\ claimed' = claimed
        /\ got' = got /\ wpc' = wpc /\ nr_nodes' = nr_nodes /\ old_tail' = old_tail
        /\ idx' = idx /\ msg' = msg
    BY DEF wvars
  <1>a. Span(head_pos, tail_pos) \subseteq Nodes
    BY SpanEnds DEF TypeOK, ShmTypeOK
  <1>b. Busy(w) => idx[w] \in Nodes /\ Block(idx[w], nr_nodes[w]) \subseteq Nodes
    BY WrittenBlock DEF OldInv
  <1>1. OwnerInv(O)'
    BY <1>0, <1>a DEF OldInv, OwnerInv, Older
  <1>2. SizedInv(r)' /\ CopiedInv(O, w, r)'
    BY <1>0 DEF OldInv, SizedInv, CopiedInv
  <1>3. Busy(w)' = Busy(w)
    BY <1>0 DEF Busy
  <1>4. ShownInv(O, w)'
    BY <1>0, <1>a, <1>3 DEF OldInv, ShownInv, Closed, Older
  <1>5. WrittenInv(O, w)'
    BY <1>0, <1>a, <1>b, <1>3 DEF OldInv, WrittenInv, Older
  <1> QED
    BY <1>1, <1>2, <1>4, <1>5 DEF OldInv

\* The steps of sq_get before its memcpy.
LEMMA OldGetChecks ==
    ASSUME NEW O, NEW w \in Writers, NEW r \in Readers, TypeOK, OldInv(O, w, r),
           \/ GetBegin(r) \/ GetTail(r) \/ GetToken(r) \/ GetConflict(r)
           \/ GetRecheck(r) \/ GetLen(r) \/ GetTooLong(r)
    PROVE  OldInv(O, w, r)'
  <1>0. UNCHANGED <<shm, wvars, claimed, got>>
    BY DEF GetBegin, GetTail, GetToken, GetConflict, GetRecheck, GetLen, GetTooLong, SkipNode
  <1>1. /\ start_token' = start_token /\ data' = data /\ wpc' = wpc /\ nr_nodes' = nr_nodes
        /\ idx' = idx
    BY <1>0 DEF shm, wvars
  <1>2. head[r] \in Nodes
    BY DEF TypeOK, GetTypeOK
  <1>3. \/ rpc'[r] \notin {"len", "copy", "cas"}
        \/ rpc'[r] = "len" /\ head'[r] = head[r] /\ start_token[head[r]] = "HAS_DATA"
        \/ rpc'[r] = "copy" /\ head'[r] = head[r] /\ rpc[r] = "len"
    BY DEF GetBegin, GetTail, GetToken, GetConflict, GetRecheck, GetLen, GetTooLong, SkipNode,
           TypeOK, GetTypeOK
  <1>4. Busy(w)' = Busy(w)
    BY <1>1 DEF Busy
  <1>5. CopiedInv(O, w, r)'
    BY <1>1, <1>3, <1>4 DEF OldInv, CopiedInv
  <1>6. rpc'[r] \in {"len", "copy"} => datalen[head'[r]] > 0
    BY <1>2, <1>3 DEF OldInv, SizedInv
  <1> QED
    BY <1>0, <1>5, <1>6, OldGetQuiet

\* What the memcpy finds is older than what stays in the ring behind it.
LEMMA OldGetCopy ==
    ASSUME NEW O, NEW w \in Writers, NEW r \in Readers, TypeOK, GetInv(r), OldInv(O, w, r),
           GetCopy(r)
    PROVE  OldInv(O, w, r)'
  <1> DEFINE n == head[r]
             v == rlen[r]
             c == Len(claimed)
  <1>0. /\ UNCHANGED <<shm, wvars, claimed, got>> /\ rpc[r] = "copy" /\ rpc'[r] = "cas"
        /\ buf'[r] = Contents(n, v) /\ new_head'[r] = AddPos(n, v)
    BY DEF GetCopy, TypeOK, GetTypeOK
  <1>1. /\ n \in Nodes /\ v \in Nat /\ c \in Nat /\ head_pos \in Nodes /\ tail_pos \in Nodes
        /\ data[n] \in Nat /\ datalen[n] \in Nat /\ O \in [Nodes -> Nat]
    <2>1. n \in Nodes /\ v \in Nat /\ c \in Nat
      BY DEF TypeOK, GetTypeOK, HistoryTypeOK
    <2>2. /\ head_pos \in Nodes /\ tail_pos \in Nodes /\ data[n] \in Nat /\ datalen[n] \in Nat
      BY <2>1 DEF TypeOK, ShmTypeOK
    <2> QED
      BY <2>1, <2>2 DEF OldInv, OwnerInv
  <1>2. n \in Span(head_pos, tail_pos) /\ v <= UsedNodes(n, tail_pos)
    BY <1>0, <1>1, InUse DEF GetInv, InWindow
  <1>3. /\ tail_pos' = tail_pos /\ wpc' = wpc /\ claimed' = claimed
    BY <1>0 DEF shm, wvars
  <1>4. SUFFICES ASSUME buf'[r] # Torn
                 PROVE  /\ buf'[r] <= c
                        /\ wpc[w] \in {"mark", "fill"} => buf'[r] < c
                        /\ \A k \in Span(AddPos(n, v), tail_pos) : buf'[r] < O[k]
    <2>1. CopiedInv(O, w, r)'
      BY <1>0, <1>3, <1>4 DEF CopiedInv
    <2>2. rpc'[r] \notin {"len", "copy"}
      BY <1>0
    <2> QED
      BY <1>0, <2>1, <2>2, OldGetQuiet
  <1>5. buf'[r] = data[n] /\ datalen[n] = v
    BY <1>0, <1>4 DEF Contents
  <1>6. v > 0
    BY <1>0, <1>5 DEF OldInv, SizedInv
  <1>7. n \in Block(n, v) /\ n + v - 1 \in Block(n, v)
    BY <1>1, <1>6, BlockEnds
  <1>8. n + v - 1 \in Nodes /\ start_token[n] # "PAYLOAD"
    BY <1>0, <1>4, <1>7 DEF Contents
  <1>9. data[n] <= c /\ (wpc[w] \in {"mark", "fill"} => data[n] < c)
    BY <1>1 DEF OldInv, OwnerInv, WrittenInv, Busy
  <1>10. AddPos(n, v) \in Nodes /\ Span(AddPos(n, v), tail_pos) \subseteq Span(n, tail_pos)
    <2>1. AddPos(n, v) = IF n + v <= ele_count THEN n + v ELSE n + v - (ele_count + 1)
      BY <1>1, <1>8, AddPosCases, ShmQueueAssumption DEF Nodes
    <2>2. CASE n + v <= ele_count
      <3>1. n + v \in Nodes
        BY <1>1, <2>2, ShmQueueAssumption DEF Nodes
      <3> QED
        BY <1>1, <1>2, <2>1, <2>2, <3>1, WithinSpan
    <2>3. CASE n + v > ele_count
      <3>1. n + v = ele_count + 1
        BY <1>1, <1>8, <2>3, ShmQueueAssumption DEF Nodes
      <3>2. AddPos(n, v) = 0
        BY <1>1, <2>1, <2>3, <3>1, ShmQueueAssumption DEF Nodes
      <3>3. UsedNodes(n, tail_pos) = IF n <= tail_pos THEN tail_pos - n
                                     ELSE tail_pos - n + (ele_count + 1)
        BY <1>1, UsedNodesCases
      <3>4. n > tail_pos
        BY <1>1, <1>2, <3>1, <3>3, ShmQueueAssumption DEF Nodes
      <3> QED
        BY <1>1, <3>2, <3>4, ShmQueueAssumption DEF Span, Nodes
    <2> QED
      BY <1>1, <2>2, <2>3, ShmQueueAssumption DEF Nodes
  <1>11. \A k \in Span(n, tail_pos) : k \in Nodes /\ O[n] <= O[k]
    BY <1>1, <1>2, SpanEnds DEF OldInv, OwnerInv
  <1>12. CASE data[n] < O[n]
    BY <1>1, <1>5, <1>9, <1>10, <1>11, <1>12
  <1>13. CASE start_token[n] = "HAS_DATA" /\ ~(data[n] < O[n])
    <2>1. CASE Busy(w) /\ O[n] = c
      <3>1. wpc[w] = "publish"
        BY <1>1, <1>9, <1>13, <2>1 DEF Busy
      <3>2. n \in Block(idx[w], nr_nodes[w])
        BY <1>2, <1>13, <2>1, <3>1 DEF OldInv, WrittenInv
      <3>3. n = idx[w] /\ v = nr_nodes[w]
        BY <1>5, <1>13, <2>1, <3>1, <3>2 DEF OldInv, WrittenInv
      <3>4. n + v = tail_pos
        BY <2>1, <3>3 DEF OldInv, WrittenInv
      <3>5. AddPos(n, v) = tail_pos
        BY <1>1, <3>4, AddPosPlain
      <3> QED
        BY <1>1, <1>5, <1>9, <3>5, SpanEnds
    <2>2. CASE data[n] = O[n] /\ Closed(O, n)
      <3>1. n + v \in Nodes /\ \A k \in Span(n + v, tail_pos) : O[k] # O[n]
        BY <1>5, <2>2 DEF Closed
      <3>2. AddPos(n, v) = n + v
        BY <1>1, <3>1, AddPosPlain
      <3> QED
        BY <1>1, <1>5, <1>9, <1>10, <1>11, <2>2, <3>1, <3>2
    <2> QED
      BY <1>2, <1>13, <2>1, <2>2 DEF OldInv, ShownInv
  <1> QED
    BY <1>0, <1>8, <1>12, <1>13 DEF OldInv, CopiedInv

\* sq_get returns a message: older ones are gone with it.
LEMMA OldGetCas ==
    ASSUME NEW O, NEW w \in Writers, NEW r \in Readers, TypeOK, TypeOK', GetInv(r),
           OldInv(O, w, r), GetCas(r)
    PROVE  OldInv(O, w, r)'
  <1> DEFINE c == Len(claimed)
             b == buf[r]
             U == Span(head_pos, tail_pos)
             V == Span(head_pos', tail_pos)
  <1>0. /\ rpc[r] = "cas" /\ head_pos = old_head[r]
        /\ head_pos' = new_head[r] /\ got' = Append(got, b) /\ rpc'[r] = "clear"
        /\ UNCHANGED <<tail_pos, start_token, datalen, data, wvars, claimed>>
    BY DEF GetCas, GetInv, TypeOK, GetTypeOK
  <1>1. /\ tail_pos' = tail_pos /\ start_token' = start_token /\ datalen' = datalen
        /\ data' = data /\ claimed' = claimed /\ wpc' = wpc /\ nr_nodes' = nr_nodes
        /\ old_tail' = old_tail /\ idx' = idx /\ msg' = msg
    BY <1>0 DEF wvars
  <1>2. /\ head_pos \in Nodes /\ tail_pos \in Nodes /\ head_pos' \in Nodes /\ c \in Nat
        /\ b \in Nat \cup {Torn} /\ got \in Seq(Nat \cup {Torn}) /\ O \in [Nodes -> Nat]
    <2>1. head_pos \in Nodes /\ tail_pos \in Nodes /\ head_pos' \in Nodes
      BY DEF TypeOK, ShmTypeOK
    <2>2. c \in Nat /\ b \in Nat \cup {Torn} /\ got \in Seq(Nat \cup {Torn})
      BY DEF TypeOK, GetTypeOK, HistoryTypeOK
    <2> QED
      BY <2>1, <2>2 DEF OldInv, OwnerInv
  <1>3. V \subseteq U /\ U \subseteq Nodes
    BY <1>0, <1>2, SpanEnds, SpanShrink DEF GetInv, InWindow
  <1>4. ASSUME NEW m \in Nat, Older(m), b # Torn => b < m
        PROVE  \A i \in DOMAIN got' : got'[i] # Torn => got'[i] < m
    <2>1. DOMAIN got = 1 .. Len(got) /\ DOMAIN got' = 1 .. (Len(got) + 1) /\ Len(got) \in Nat
      BY <1>0, <1>2
    <2>2. \A i \in 1 .. Len(got) : got'[i] = got[i]
      BY <1>0, <1>2
    <2>3. got'[Len(got) + 1] = b
      BY <1>0, <1>2
    <2>4. SUFFICES ASSUME NEW i \in 1 .. (Len(got) + 1), got'[i] # Torn PROVE got'[i] < m
      BY <2>1
    <2>5. CASE i = Len(got) + 1
      BY <1>4, <2>3, <2>4, <2>5
    <2>6. CASE i \in 1 .. Len(got)
      BY <1>4, <2>1, <2>2, <2>4, <2>6 DEF Older
    <2> QED
      BY <2>1, <2>5, <2>6
  <1>5. b # Torn => /\ b <= c /\ b \in Nat
                    /\ wpc[w] \in {"mark", "fill"} => b < c
                    /\ \A k \in V : b < O[k]
    BY <1>0, <1>2 DEF OldInv, CopiedInv
  <1>6. OwnerInv(O)'
    <2>1. Older(c + 1)'
      <3>1. Older(c + 1) /\ c + 1 \in Nat
        BY <1>2 DEF OldInv, OwnerInv
      <3>2. b # Torn => b < c + 1
        BY <1>2, <1>5
      <3> QED
        BY <1>1, <1>4, <3>1, <3>2 DEF Older
    <2> QED
      BY <1>1, <1>3, <2>1 DEF OldInv, OwnerInv
  <1>7. Busy(w)' = Busy(w)
    BY <1>1 DEF Busy
  <1>8. ShownInv(O, w)'
    <2>1. SUFFICES ASSUME NEW n \in V, start_token[n] = "HAS_DATA",
                          ~(Busy(w) /\ O[n] = c)
                   PROVE  data[n] = O[n] /\ Closed(O, n)' /\ Older(O[n])'
      BY <1>1, <1>7 DEF ShownInv
    <2>2. data[n] = O[n] /\ Closed(O, n) /\ Older(O[n])
      BY <1>3, <2>1 DEF OldInv, ShownInv
    <2>3. Closed(O, n)'
      BY <1>1, <2>2 DEF Closed
    <2>4. O[n] \in Nat /\ (b # Torn => b < O[n])
      BY <1>2, <1>3, <1>5, <2>1
    <2>5. Older(O[n])'
      BY <1>4, <2>2, <2>4 DEF Older
    <2> QED
      BY <2>2, <2>3, <2>5
  <1>9. WrittenInv(O, w)'
    <2>1. SUFFICES ASSUME Busy(w) PROVE WrittenInv(O, w)'
      BY <1>7 DEF WrittenInv
    <2>2. WrittenInv(O, w)
      BY DEF OldInv
    <2>3. idx[w] \in Block(idx[w], nr_nodes[w])
      BY <2>1, <2>2, WrittenBlock
    <2>4. wpc[w] # "publish" => Older(c)'
      <3>1. wpc[w] # "publish" => Older(c) /\ (b # Torn => b < c)
        BY <1>5, <2>1, <2>2 DEF WrittenInv, Busy
      <3> QED
        BY <1>1, <1>2, <1>4, <3>1 DEF Older
    <2>5. wpc[w] = "publish" /\ idx[w] \in V => Older(c)'
      <3>1. SUFFICES ASSUME wpc[w] = "publish", idx[w] \in V PROVE Older(c)'
        OBVIOUS
      <3>2. Older(c) /\ O[idx[w]] = c
        BY <1>3, <2>1, <2>2, <2>3, <3>1 DEF WrittenInv
      <3>3. b # Torn => b < c
        BY <1>5, <3>1, <3>2
      <3> QED
        BY <1>1, <1>2, <1>4, <3>2, <3>3 DEF Older
    <2> QED
      BY <1>1, <1>3, <2>1, <2>2, <2>4, <2>5 DEF WrittenInv
  <1>10. SizedInv(r)' /\ CopiedInv(O, w, r)'
    BY <1>0, <1>1 DEF OldInv, SizedInv, CopiedInv
  <1> QED
    BY <1>6, <1>8, <1>9, <1>10 DEF OldInv

\* sq_get gives back nodes without a message, or resets a token.
LEMMA OldGetClear ==
    ASSUME NEW O, NEW w \in Writers, NEW r \in Readers, TypeOK, TypeOK', GetInv(r),
           OldInv(O, w, r), GetCasEmpty(r) \/ GetClear(r)
    PROVE  OldInv(O, w, r)'
  <1>0. /\ head_pos \in Nodes /\ tail_pos \in Nodes /\ head_pos' \in Nodes
        /\ head[r] \in Nodes /\ old_head[r] \in Nodes
    BY DEF TypeOK, ShmTypeOK, GetTypeOK
  <1>1. /\ UNCHANGED <<tail_pos, datalen, data, wvars, claimed, got>>
        /\ rpc'[r] \notin {"len", "copy", "cas"}
    BY DEF GetCasEmpty, GetClear, TypeOK, GetTypeOK
  <1>2. Span(head_pos', tail_pos) \subseteq Span(head_pos, tail_pos)
    <2>1. CASE head_pos' = head_pos
      BY <2>1
    <2>2. CASE head_pos' # head_pos
      <3>1. head_pos' = head[r] /\ rpc[r] = "casempty"
        BY <2>2 DEF GetCasEmpty, GetClear
      <3>2. InWindow(head[r])
        BY <3>1 DEF GetInv
      <3> QED
        BY <1>0, <3>1, <3>2, SpanShrink DEF InWindow
    <2> QED
      BY <2>1, <2>2
  <1>3. \A n \in Nodes : start_token'[n] = "HAS_DATA" => start_token[n] = "HAS_DATA"
    BY DEF GetCasEmpty, GetClear, TypeOK, ShmTypeOK
  <1> QED
    BY <1>1, <1>2, <1>3, OldLess

\* A node skipped at the end of the ring is marked: whoever has found an old message
\* there reads one that is older than the writer's.
LEMMA OldPutMark ==
    ASSUME NEW O, NEW w \in Writers, NEW r \in Readers, TypeOK, GetInv(r), OldInv(O, w, r),
           PutMark(w)
    PROVE  OldInv(O, w, r)'
  <1> DEFINE c == Len(claimed)
             B == Block(idx[w], nr_nodes[w])
             U == Span(head_pos, tail_pos)
             o == old_tail[w]
  <1>0. /\ wpc[w] = "mark" /\ o \in Nodes /\ nr_nodes[w] \in Nat
        /\ start_token' = [start_token EXCEPT ![o] = "SKIPPED"]
        /\ old_tail'[w] = AddPos(o, 1)
        /\ wpc'[w] = IF AddPos(o, 1) # 0 THEN "mark" ELSE "fill"
        /\ UNCHANGED <<head_pos, tail_pos, datalen, data, nr_nodes, idx, msg, rvars, claimed, got>>
    BY DEF PutMark, TypeOK, PutTypeOK
  <1>1. rpc' = rpc /\ head' = head /\ new_head' = new_head /\ buf' = buf
    BY <1>0 DEF rvars
  <1>2. /\ head_pos \in Nodes /\ tail_pos \in Nodes /\ c \in Nat /\ head[r] \in Nodes
        /\ start_token \in [Nodes -> {"NO_DATA", "SKIPPED", "HAS_DATA", "PAYLOAD"}]
    BY DEF TypeOK, ShmTypeOK, GetTypeOK, HistoryTypeOK
  <1>3. U \subseteq Nodes
    BY <1>2, SpanEnds
  <1>4. Busy(w) /\ Busy(w)' /\ wpc'[w] # "publish"
    BY <1>0 DEF Busy
  <1>5. /\ idx[w] \in Nodes /\ B \subseteq Nodes /\ idx[w] = 0 /\ nr_nodes[w] <= o
        /\ \A k \in Nodes : data[k] < c
        /\ \A k \in U : k >= o => O[k] = c
    BY <1>0, <1>4, WrittenBlock DEF OldInv, WrittenInv
  <1>6. \A n \in Nodes : start_token'[n] = IF n = o THEN "SKIPPED" ELSE start_token[n]
    BY <1>0, <1>2
  <1>7. OwnerInv(O)' /\ SizedInv(r)'
    BY <1>0, <1>1, <1>6 DEF OldInv, OwnerInv, SizedInv, Older
  <1>8. ShownInv(O, w)'
    BY <1>0, <1>3, <1>4, <1>6 DEF OldInv, ShownInv, Closed, Older
  <1>9. /\ AddPos(o, 1) # 0 => AddPos(o, 1) = o + 1
        /\ AddPos(o, 1) = 0 => o = ele_count
    BY <1>0, AddPosCases, ShmQueueAssumption DEF Nodes
  <1>10. WrittenInv(O, w)'
    <2>1. \A k \in U : O[k] = c /\ start_token'[k] = "HAS_DATA" =>
              k \in B \/ (wpc'[w] = "mark" /\ k >= old_tail'[w])
      <3>1. SUFFICES ASSUME NEW k \in U, O[k] = c, start_token'[k] = "HAS_DATA", k \notin B
                     PROVE  wpc'[w] = "mark" /\ k >= AddPos(o, 1)
        BY <1>0
      <3>2. k # o /\ start_token[k] = "HAS_DATA" /\ k \in Nodes
        BY <1>3, <1>6, <3>1
      <3>3. k >= o
        BY <1>4, <3>1, <3>2 DEF OldInv, WrittenInv
      <3> QED
        BY <1>0, <1>9, <3>2, <3>3, ShmQueueAssumption DEF Nodes
    <2>2. wpc'[w] = "mark" =>
              /\ nr_nodes[w] <= old_tail'[w]
              /\ \A k \in U : k >= old_tail'[w] => O[k] = c
      <3>1. SUFFICES ASSUME wpc'[w] = "mark"
                     PROVE  nr_nodes[w] <= o + 1 /\ \A k \in U : k >= o + 1 => O[k] = c
        BY <1>0, <1>9
      <3> QED
        BY <1>0, <1>3, <1>5, ShmQueueAssumption DEF Nodes
    <2>3. WrittenInv(O, w) /\ Older(c) /\ Older(c)'
      BY <1>0, <1>4 DEF OldInv, WrittenInv, Older
    <2>4. wpc'[w] # "mark" \/ idx'[w] = 0
      BY <1>0, <1>5
    <2>5. /\ c > 0 /\ msg[w] = c /\ nr_nodes[w] > 0 /\ idx[w] + nr_nodes[w] = tail_pos
          /\ \A k \in B \cap U : O[k] = c
      BY <1>4, <2>3 DEF WrittenInv
    <2> QED
      BY <1>0, <1>4, <1>5, <2>1, <2>2, <2>3, <2>4, <2>5 DEF WrittenInv
  <1>11. CopiedInv(O, w, r)'
    <2>1. rpc[r] \in {"len", "copy"} =>
              \/ start_token'[head[r]] \in {"HAS_DATA", "PAYLOAD"}
              \/ data[head[r]] < O[head[r]] /\ head[r] \notin B
      <3>1. SUFFICES ASSUME rpc[r] \in {"len", "copy"}
                     PROVE  \/ start_token'[head[r]] \in {"HAS_DATA", "PAYLOAD"}
                            \/ data[head[r]] < O[head[r]] /\ head[r] \notin B
        OBVIOUS
      <3>2. CASE head[r] = o
        <4>1. head[r] \in U
          BY <1>2, <3>1, InUse DEF GetInv, InWindow
        <4>2. O[o] = c /\ data[o] < c
          BY <1>0, <1>2, <1>5, <3>2, <4>1 DEF Nodes
        <4>3. o \notin B
          BY <1>0, <1>5, ShmQueueAssumption DEF Block, Nodes
        <4> QED
          BY <3>2, <4>2, <4>3
      <3>3. CASE head[r] # o
        BY <1>2, <1>4, <1>6, <3>1, <3>3 DEF OldInv, CopiedInv
      <3> QED
        BY <3>2, <3>3
    <2> QED
      BY <1>0, <1>1, <1>4, <2>1 DEF OldInv, CopiedInv
  <1> QED
    BY <1>7, <1>8, <1>10, <1>11 DEF OldInv

\* The memcpy of sq_put: what was left over in its nodes is overwritten.
LEMMA OldPutFill ==
    ASSUME NEW O, NEW w \in Writers, NEW r \in Readers, TypeOK, OldInv(O, w, r), PutFill(w)
    PROVE  OldInv(O, w, r)'
  <1> DEFINE c == Len(claimed)
             i == idx[w]
             B == Block(i, nr_nodes[w])
             U == Span(head_pos, tail_pos)
  <1>0. /\ wpc[w] = "fill" /\ wpc'[w] = "publish"
        /\ UNCHANGED <<head_pos, tail_pos, nr_nodes, old_tail, idx, msg, rvars, claimed, got>>
    BY DEF PutFill, TypeOK, PutTypeOK
  <1>1. rpc' = rpc /\ head' = head /\ new_head' = new_head /\ buf' = buf
    BY <1>0 DEF rvars
  <1>2. /\ head_pos \in Nodes /\ tail_pos \in Nodes /\ c \in Nat /\ head[r] \in Nodes
        /\ datalen \in [Nodes -> Nat] /\ data \in [Nodes -> Nat]
    BY DEF TypeOK, ShmTypeOK, GetTypeOK, HistoryTypeOK
  <1>3. U \subseteq Nodes
    BY <1>2, SpanEnds
  <1>4. Busy(w) /\ Busy(w)'
    BY <1>0 DEF Busy
  <1>5. /\ i \in Nodes /\ B \subseteq Nodes /\ i \in B /\ msg[w] = c
        /\ nr_nodes[w] \in Nat /\ nr_nodes[w] > 0
        /\ \A k \in Nodes : data[k] < c
        /\ \A k \in B \cap U : O[k] = c
    BY <1>0, <1>4, WrittenBlock DEF OldInv, WrittenInv
  <1>6. \A n \in Nodes :
            /\ datalen'[n] = IF n = i THEN nr_nodes[w] ELSE datalen[n]
            /\ data'[n] = IF n \in B THEN c ELSE data[n]
            /\ start_token'[n] = IF n \in B \ {i} THEN "PAYLOAD" ELSE start_token[n]
    BY <1>2, <1>5 DEF PutFill
  <1>7. OwnerInv(O)'
    <2>1. \A n \in Nodes : data'[n] <= c
      <3>1. SUFFICES ASSUME NEW n \in Nodes PROVE data'[n] <= c
        OBVIOUS
      <3>2. data[n] \in Nat /\ data[n] < c
        BY <1>2, <1>5
      <3> QED
        BY <1>2, <1>6, <3>2
    <2> QED
      BY <1>0, <2>1 DEF OldInv, OwnerInv, Older
  <1>8. ShownInv(O, w)'
    <2>1. SUFFICES ASSUME NEW n \in U, start_token'[n] = "HAS_DATA", O[n] # c
                   PROVE  data'[n] = O[n] /\ Closed(O, n)' /\ Older(O[n])'
      BY <1>0, <1>4 DEF ShownInv
    <2>2. n \in Nodes /\ n \notin B /\ n # i
      BY <1>3, <1>5, <2>1
    <2>3. data[n] = O[n] /\ Closed(O, n) /\ Older(O[n])
      BY <1>6, <2>1, <2>2 DEF OldInv, ShownInv
    <2>4. data'[n] = data[n] /\ datalen'[n] = datalen[n]
      BY <1>6, <2>2
    <2> QED
      BY <1>0, <2>3, <2>4 DEF Closed, Older
  <1>9. WrittenInv(O, w)'
    <2>1. \A k \in Nodes : data'[k] = c <=> k \in B
      <3>1. SUFFICES ASSUME NEW k \in Nodes PROVE data'[k] = c <=> k \in B
        OBVIOUS
      <3>2. data[k] \in Nat /\ data[k] < c
        BY <1>2, <1>5
      <3> QED
        BY <1>2, <1>6, <3>2
    <2>2. \A k \in B \ {i} : start_token'[k] # "HAS_DATA"
      BY <1>5, <1>6
    <2>3. \A k \in U : O[k] = c /\ start_token'[k] = "HAS_DATA" => k \in B
      BY <1>0, <1>3, <1>4, <1>6 DEF OldInv, WrittenInv
    <2>4. datalen'[i] = nr_nodes[w]
      BY <1>5, <1>6
    <2>5. /\ c > 0 /\ i + nr_nodes[w] = tail_pos /\ Older(c)'
      BY <1>0, <1>4 DEF OldInv, WrittenInv, Older
    <2> QED
      BY <1>0, <1>5, <2>1, <2>2, <2>3, <2>4, <2>5 DEF WrittenInv
  <1>10. CopiedInv(O, w, r)'
    <2>1. rpc[r] \in {"len", "copy"} =>
              \/ start_token'[head[r]] \in {"HAS_DATA", "PAYLOAD"}
              \/ data'[head[r]] < O[head[r]] /\ head[r] \notin B
      BY <1>2, <1>4, <1>6 DEF OldInv, CopiedInv
    <2> QED
      BY <1>0, <1>1, <2>1 DEF OldInv, CopiedInv
  <1>11. SizedInv(r)'
    BY <1>1, <1>2, <1>5, <1>6 DEF OldInv, SizedInv
  <1> QED
    BY <1>7, <1>8, <1>9, <1>10, <1>11 DEF OldInv

\* The token is set last: it shows a whole message, the newest.
LEMMA OldPutPublish ==
    ASSUME NEW O, NEW w \in Writers, NEW r \in Readers, TypeOK, OldInv(O, w, r), PutPublish(w)
    PROVE  OldInv(O, w, r)'
  <1> DEFINE c == Len(claimed)
             i == idx[w]
             B == Block(i, nr_nodes[w])
             U == Span(head_pos, tail_pos)
  <1>0. /\ wpc[w] = "publish" /\ wpc'[w] = "idle"
        /\ start_token' = [start_token EXCEPT ![i] = "HAS_DATA"]
        /\ UNCHANGED <<head_pos, tail_pos, datalen, data, nr_nodes, idx, rvars, claimed, got>>
    BY DEF PutPublish, TypeOK, PutTypeOK
  <1>1. rpc' = rpc /\ head' = head /\ new_head' = new_head /\ buf' = buf
    BY <1>0 DEF rvars
  <1>2. /\ head_pos \in Nodes /\ tail_pos \in Nodes /\ c \in Nat /\ head[r] \in Nodes
        /\ start_token \in [Nodes -> {"NO_DATA", "SKIPPED", "HAS_DATA", "PAYLOAD"}]
    BY DEF TypeOK, ShmTypeOK, GetTypeOK, HistoryTypeOK
  <1>3. U \subseteq Nodes
    BY <1>2, SpanEnds
  <1>4. Busy(w) /\ ~Busy(w)' /\ wpc'[w] \notin {"mark", "fill"}
    BY <1>0 DEF Busy
  <1>5. /\ i \in Nodes /\ B \subseteq Nodes /\ i \in B /\ i + nr_nodes[w] = tail_pos
        /\ nr_nodes[w] \in Nat /\ nr_nodes[w] > 0 /\ datalen[i] = nr_nodes[w]
        /\ \A k \in Nodes : data[k] = c <=> k \in B
        /\ \A k \in B \ {i} : start_token[k] # "HAS_DATA"
        /\ \A k \in B \cap U : O[k] = c
        /\ \A k \in U : O[k] = c /\ start_token[k] = "HAS_DATA" => k \in B
        /\ i \in U => Older(c)
    BY <1>0, <1>4, WrittenBlock DEF OldInv, WrittenInv
  <1>6. \A n \in Nodes : start_token'[n] = IF n = i THEN "HAS_DATA" ELSE start_token[n]
    BY <1>0, <1>2, <1>5
  <1>7. OwnerInv(O)' /\ SizedInv(r)' /\ WrittenInv(O, w)'
    BY <1>0, <1>1, <1>4, <1>5, <1>6 DEF OldInv, OwnerInv, SizedInv, WrittenInv, Older
  <1>8. ShownInv(O, w)'
    <2>1. SUFFICES ASSUME NEW n \in U, start_token'[n] = "HAS_DATA"
                   PROVE  data[n] = O[n] /\ Closed(O, n) /\ Older(O[n])
      BY <1>0 DEF ShownInv, Closed, Older
    <2>2. CASE n = i
      <3>1. data[n] = c /\ O[n] = c /\ Older(c)
        BY <1>5, <2>1, <2>2
      <3>2. UsedNodes(n, tail_pos) = tail_pos - n
        <4>1. n \in Nodes /\ n <= tail_pos
          BY <1>2, <1>5, <2>2, ShmQueueAssumption DEF Nodes
        <4> QED
          BY <1>2, <4>1, UsedNodesCases
      <3>3. n + datalen[n] = tail_pos /\ datalen[n] <= UsedNodes(n, tail_pos)
        BY <1>2, <1>5, <2>2, <3>2, ShmQueueAssumption DEF Nodes
      <3> QED
        BY <1>2, <3>1, <3>3, SpanEnds DEF Closed
    <2>3. CASE n # i
      <3>1. start_token[n] = "HAS_DATA" /\ O[n] # c
        BY <1>3, <1>5, <1>6, <2>1, <2>3
      <3> QED
        BY <2>1, <3>1 DEF OldInv, ShownInv
    <2> QED
      BY <2>2, <2>3
  <1>9. CopiedInv(O, w, r)'
    BY <1>0, <1>1, <1>2, <1>4, <1>6 DEF OldInv, CopiedInv
  <1> QED
    BY <1>7, <1>8, <1>9 DEF OldInv

\* The claim of sq_put, between two positions.
LEMMA ClaimShape ==
    ASSUME NEW w \in Writers, TypeOK, ClaimInv(w), PutClaim(w)
    PROVE  /\ head_pos \in Nodes /\ tail_pos \in Nodes /\ new_tail[w] \in Nodes
           /\ nr_nodes[w] \in Nat /\ nr_nodes[w] > 0
           /\ \/ /\ tail_pos < new_tail[w]
                 /\ head_pos <= tail_pos \/ new_tail[w] < head_pos
              \/ new_tail[w] < head_pos /\ head_pos <= tail_pos
           /\ idx[w] + nr_nodes[w] = new_tail[w]
           /\ \/ idx[w] = tail_pos /\ tail_pos < new_tail[w]
              \/ idx[w] = 0 /\ new_tail[w] < tail_pos
  <1>1. /\ head_pos \in Nodes /\ tail_pos \in Nodes /\ new_tail[w] \in Nodes
        /\ nr_nodes[w] \in Nat
    BY DEF TypeOK, ShmTypeOK, PutTypeOK
  <1>2. wpc[w] = "cas" /\ nr_nodes[w] > 0
    BY DEF PutClaim, ClaimInv
  <1> QED
    BY <1>1, <1>2, ShmQueueAssumption DEF ClaimInv, Nodes

\* The CAS of sq_put gives the nodes it takes a new owner, the newest message.
LEMMA OldPutClaim ==
    ASSUME NEW O, NEW w \in Writers, NEW r \in Readers, TypeOK, ClaimInv(w), GetInv(r),
           OldInv(O, w, r), PutClaim(w)
    PROVE  \E Q : OldInv(Q, w, r)'
  <1> DEFINE c == Len(claimed)
             u == new_tail[w]
             B == Block(idx[w], nr_nodes[w])
             U == Span(head_pos, tail_pos)
             T == Span(tail_pos, u)
             V == Span(head_pos, u)
  <1>0. /\ wpc[w] = "cas" /\ tail_pos = old_tail[w] /\ tail_pos' = u
        /\ claimed' = Append(claimed, c + 1) /\ msg'[w] = c + 1
        /\ wpc'[w] = IF idx[w] = 0 /\ tail_pos # 0 THEN "mark" ELSE "fill"
        /\ UNCHANGED <<head_pos, start_token, datalen, data, nr_nodes, old_tail, idx, rvars, got>>
    BY DEF PutClaim, TypeOK, PutTypeOK
  <1>1. rpc' = rpc /\ head' = head /\ new_head' = new_head /\ buf' = buf
    BY <1>0 DEF rvars
  <1>2. /\ head_pos \in Nodes /\ tail_pos \in Nodes /\ u \in Nodes
        /\ nr_nodes[w] \in Nat /\ nr_nodes[w] > 0
        /\ (tail_pos < u /\ (head_pos <= tail_pos \/ u < head_pos))
               \/ (u < head_pos /\ head_pos <= tail_pos)
        /\ idx[w] + nr_nodes[w] = u
        /\ (idx[w] = tail_pos /\ tail_pos < u) \/ (idx[w] = 0 /\ u < tail_pos)
    BY ClaimShape
  <1>3. /\ c \in Nat /\ claimed \in Seq(Nat) /\ O \in [Nodes -> Nat]
        /\ datalen \in [Nodes -> Nat] /\ data \in [Nodes -> Nat]
        /\ head[r] \in Nodes /\ new_head[r] \in Nodes /\ buf[r] \in Nat \cup {Torn}
    <2>1. c \in Nat /\ claimed \in Seq(Nat)
      BY DEF TypeOK, HistoryTypeOK
    <2>2. datalen \in [Nodes -> Nat] /\ data \in [Nodes -> Nat]
      BY DEF TypeOK, ShmTypeOK
    <2>3. head[r] \in Nodes /\ new_head[r] \in Nodes /\ buf[r] \in Nat \cup {Torn}
      BY DEF TypeOK, GetTypeOK
    <2> QED
      BY <2>1, <2>2, <2>3 DEF OldInv, OwnerInv
  <1>4. Len(claimed') = c + 1
    BY <1>0, <1>3
  <1>5. PICK Q : Q = [n \in Nodes |-> IF n \in T THEN c + 1 ELSE O[n]]
    OBVIOUS
  <1>6. Q \in [Nodes -> Nat] /\ \A n \in Nodes : Q[n] = IF n \in T THEN c + 1 ELSE O[n]
    BY <1>3, <1>5
  <1>7. /\ V = U \cup T /\ U \cap T = {} /\ U \subseteq Nodes /\ T \subseteq Nodes
    BY <1>2, SpanGrow, SpanEnds
  <1>8. \A n \in Nodes : O[n] <= c /\ O[n] \in Nat /\ data[n] <= c /\ data[n] \in Nat
    BY <1>3 DEF OldInv, OwnerInv
  <1>9. ASSUME NEW p \in Nodes,
               IF head_pos <= tail_pos THEN head_pos <= p /\ p <= tail_pos
                                       ELSE head_pos <= p \/ p <= tail_pos
        PROVE  /\ Span(p, u) = Span(p, tail_pos) \cup T /\ Span(p, tail_pos) \cap T = {}
               /\ UsedNodes(p, tail_pos) <= UsedNodes(p, u)
               /\ Span(p, tail_pos) \subseteq Nodes
    BY <1>2, <1>9, WindowGrow, SpanEnds
  <1>10. ~Busy(w) /\ Busy(w)' /\ wpc'[w] # "publish" /\ wpc'[w] \in {"mark", "fill"}
    BY <1>0 DEF Busy
  <1>11. B \subseteq T
    BY <1>2, ShmQueueAssumption DEF Span, Block, Nodes
  <1>12. Older(c)' /\ Older(c + 1)'
    <2>1. Older(c + 1)
      BY DEF OldInv, OwnerInv
    <2>2. \A i \in DOMAIN got : got[i] \in Nat \cup {Torn}
      BY DEF TypeOK, HistoryTypeOK
    <2>3. \A i \in DOMAIN got : got[i] # Torn => got[i] < c + 1 + 1
      BY <1>3, <2>1, <2>2 DEF Older
    <2> QED
      BY <1>0, <1>4, <2>1, <2>3 DEF Older
  <1>13. OwnerInv(Q)'
    <2>1. \A n \in Nodes : Q[n] <= c + 1 /\ data[n] <= c + 1
      <3>1. SUFFICES ASSUME NEW n \in Nodes PROVE Q[n] <= c + 1 /\ data[n] <= c + 1
        OBVIOUS
      <3>2. O[n] <= c /\ O[n] \in Nat /\ data[n] <= c /\ data[n] \in Nat
        BY <1>8
      <3>3. c \in Nat /\ (Q[n] = c + 1 \/ Q[n] = O[n])
        BY <1>3, <1>6
      <3> QED
        BY <3>2, <3>3
    <2>2. ASSUME NEW n \in V, NEW k \in Span(n, u) PROVE Q[n] <= Q[k]
      <3>1. CASE n \in U
        <4>1. k \in Span(n, tail_pos) \/ k \in T
          BY <1>2, <1>7, <1>9, <2>2, <3>1, InUse
        <4>2. CASE k \in T
          BY <1>3, <1>6, <1>7, <1>8, <3>1, <4>2
        <4>3. CASE k \in Span(n, tail_pos)
          <5>1. k \notin T /\ n \notin T /\ k \in Nodes /\ n \in Nodes
            BY <1>2, <1>7, <1>9, <3>1, <4>3, InUse
          <5>2. O[n] <= O[k]
            BY <3>1, <4>3 DEF OldInv, OwnerInv
          <5> QED
            BY <1>6, <5>1, <5>2
        <4> QED
          BY <4>1, <4>2, <4>3
      <3>2. CASE n \in T
        <4>1. k \in T /\ k \in Nodes /\ n \in Nodes
          <5>1. IF tail_pos <= u THEN tail_pos <= n /\ n <= u ELSE tail_pos <= n \/ n <= u
            BY <1>2, <1>7, <3>2, InUse
          <5> QED
            BY <1>2, <1>7, <2>2, <3>2, <5>1, SpanShrink
        <4> QED
          BY <1>3, <1>6, <3>2, <4>1
      <3> QED
        BY <1>7, <3>1, <3>2
    <2> QED
      BY <1>0, <1>4, <1>6, <1>12, <2>1, <2>2 DEF OwnerInv
  <1>14. ShownInv(Q, w)'
    <2>1. SUFFICES ASSUME NEW n \in V, start_token[n] = "HAS_DATA", Q[n] # c + 1
                   PROVE  data[n] = Q[n] /\ Closed(Q, n)' /\ Older(Q[n])'
      BY <1>0, <1>4, <1>10 DEF ShownInv
    <2>2. n \in U /\ n \in Nodes /\ Q[n] = O[n]
      BY <1>6, <1>7, <2>1
    <2>3. data[n] = O[n] /\ Closed(O, n) /\ Older(O[n])
      BY <1>10, <2>1, <2>2 DEF OldInv, ShownInv
    <2> DEFINE e == n + datalen[n]
    <2>4. /\ datalen[n] \in Nat /\ e \in Nodes /\ datalen[n] <= UsedNodes(n, tail_pos)
          /\ \A k \in Span(e, tail_pos) : O[k] # O[n]
      BY <1>3, <2>2, <2>3 DEF Closed
    <2>5. IF head_pos <= tail_pos THEN head_pos <= e /\ e <= tail_pos
                                  ELSE head_pos <= e \/ e <= tail_pos
      BY <1>2, <2>2, <2>4, WithinSpan
    <2>6. \A k \in Span(e, u) : Q[k] # Q[n]
      <3>1. SUFFICES ASSUME NEW k \in Span(e, u) PROVE Q[k] # O[n]
        BY <2>2
      <3>2. CASE k \in T
        <4>1. Q[k] = c + 1 /\ O[n] <= c /\ O[n] \in Nat
          BY <1>6, <1>7, <1>8, <2>2, <3>2
        <4> QED
          BY <1>3, <4>1
      <3>3. CASE k \in Span(e, tail_pos)
        <4>1. k \notin T /\ k \in Nodes
          BY <1>9, <2>4, <2>5, <3>3
        <4> QED
          BY <1>6, <2>4, <3>3, <4>1
      <3> QED
        BY <1>9, <2>4, <2>5, <3>1, <3>2, <3>3
    <2>7. datalen[n] <= UsedNodes(n, u)
      <3>1. UsedNodes(n, tail_pos) <= UsedNodes(n, u)
        BY <1>2, <1>9, <2>2, InUse
      <3>2. UsedNodes(n, tail_pos) \in Int /\ UsedNodes(n, u) \in Int
        BY <1>2, <2>2, UsedNodesInt
      <3> QED
        BY <2>4, <3>1, <3>2
    <2>8. Closed(Q, n)'
      BY <1>0, <2>4, <2>6, <2>7 DEF Closed
    <2> QED
      BY <1>0, <2>2, <2>3, <2>8 DEF Older
  <1>15. WrittenInv(Q, w)'
    <2>1. \A k \in B \cap V : Q[k] = c + 1
      BY <1>6, <1>7, <1>11
    <2>2. \A k \in V : Q[k] = c + 1 => k \in T
      BY <1>3, <1>6, <1>7, <1>8
    <2>3. CASE idx[w] = 0 /\ tail_pos # 0
      <3>1. wpc'[w] = "mark" /\ u < tail_pos /\ nr_nodes[w] = u
        BY <1>0, <1>2, <2>3, ShmQueueAssumption DEF Nodes
      <3>2. T = (tail_pos .. ele_count) \cup B
        BY <1>2, <2>3, <3>1, ShmQueueAssumption DEF Span, Block, Nodes
      <3>3. \A k \in V : Q[k] = c + 1 => k \in B \/ k >= tail_pos
        BY <2>2, <3>2
      <3>4. \A k \in V : k >= tail_pos => Q[k] = c + 1
        BY <1>2, <1>6, <1>7, <3>2, ShmQueueAssumption DEF Nodes
      <3>5. nr_nodes[w] <= tail_pos
        BY <1>2, <3>1 DEF Nodes
      <3>6. \A k \in Nodes : data[k] < c + 1
        BY <1>3, <1>8
      <3>7. /\ head_pos' = head_pos /\ tail_pos' = u /\ start_token' = start_token
            /\ data' = data /\ nr_nodes' = nr_nodes /\ idx' = idx /\ old_tail'[w] = tail_pos
            /\ msg'[w] = c + 1 /\ c + 1 > 0 /\ nr_nodes[w] > 0 /\ idx[w] + nr_nodes[w] = u
        BY <1>0, <1>2, <1>3
      <3> QED
        BY <1>4, <1>12, <2>1, <2>3, <3>1, <3>3, <3>4, <3>5, <3>6, <3>7 DEF WrittenInv
    <2>4. CASE ~(idx[w] = 0 /\ tail_pos # 0)
      <3>1. wpc'[w] = "fill" /\ idx[w] = tail_pos /\ tail_pos < u
        BY <1>0, <1>2, <2>4, ShmQueueAssumption DEF Nodes
      <3>2. T = B
        BY <1>2, <3>1, ShmQueueAssumption DEF Span, Block, Nodes
      <3>3. \A k \in Nodes : data[k] < c + 1
        BY <1>3, <1>8
      <3>4. /\ head_pos' = head_pos /\ tail_pos' = u /\ start_token' = start_token
            /\ data' = data /\ nr_nodes' = nr_nodes /\ idx' = idx /\ old_tail'[w] = tail_pos
            /\ msg'[w] = c + 1 /\ c + 1 > 0 /\ nr_nodes[w] > 0 /\ idx[w] + nr_nodes[w] = u
        BY <1>0, <1>2, <1>3
      <3>5. \A k \in V : Q[k] = c + 1 => k \in B
        BY <2>2, <3>2
      <3> QED
        BY <1>4, <1>12, <2>1, <3>1, <3>3, <3>4, <3>5 DEF WrittenInv
    <2> QED
      BY <2>3, <2>4
  <1>16. CopiedInv(Q, w, r)'
    <2>1. rpc[r] \in {"len", "copy"} =>
              \/ start_token[head[r]] \in {"HAS_DATA", "PAYLOAD"}
              \/ data[head[r]] < Q[head[r]] /\ head[r] \notin B
      <3>1. SUFFICES ASSUME rpc[r] \in {"len", "copy"},
                            start_token[head[r]] \notin {"HAS_DATA", "PAYLOAD"}
                     PROVE  data[head[r]] < Q[head[r]] /\ head[r] \notin B
        OBVIOUS
      <3>2. head[r] \in U
        BY <1>2, <1>3, <3>1, InUse DEF GetInv, InWindow
      <3>3. head[r] \notin T /\ head[r] \notin B /\ Q[head[r]] = O[head[r]]
        BY <1>3, <1>6, <1>7, <1>11, <3>2
      <3> QED
        BY <3>1, <3>3 DEF OldInv, CopiedInv
    <2>2. rpc[r] = "cas" /\ buf[r] # Torn =>
              /\ buf[r] <= c + 1 /\ buf[r] < c + 1
              /\ \A k \in Span(new_head[r], u) : buf[r] < Q[k]
      <3>1. SUFFICES ASSUME rpc[r] = "cas", buf[r] # Torn
                     PROVE  /\ buf[r] <= c + 1 /\ buf[r] < c + 1
                            /\ \A k \in Span(new_head[r], u) : buf[r] < Q[k]
        OBVIOUS
      <3>2. /\ buf[r] \in Nat /\ buf[r] <= c
            /\ \A k \in Span(new_head[r], tail_pos) : buf[r] < O[k]
        BY <1>3, <3>1 DEF OldInv, CopiedInv
      <3>3. /\ Span(new_head[r], u) = Span(new_head[r], tail_pos) \cup T
            /\ Span(new_head[r], tail_pos) \cap T = {}
            /\ Span(new_head[r], tail_pos) \subseteq Nodes
        BY <1>3, <1>9, <3>1 DEF GetInv, InWindow
      <3>4. \A k \in T : Q[k] = c + 1
        BY <1>6, <1>7
      <3>5. \A k \in Span(new_head[r], tail_pos) : Q[k] = O[k]
        BY <1>6, <3>3
      <3> QED
        BY <1>3, <3>2, <3>3, <3>4, <3>5
    <2> QED
      BY <1>0, <1>1, <1>4, <1>10, <2>1, <2>2 DEF CopiedInv
  <1>17. SizedInv(r)'
    BY <1>0, <1>1 DEF OldInv, SizedInv
  <1> QED
    BY <1>13, <1>14, <1>15, <1>16, <1>17 DEF OldInv

\* The inductive step.
LEMMA OldNext ==
    ASSUME NEW w, NEW r, Writers = {w}, Readers = {r}, TypeOK, TypeOK', WindowInv,
           NEW O, OldInv(O, w, r), [Next]_vars
    PROVE  \E Q : OldInv(Q, w, r)'
  <1>0. w \in Writers /\ r \in Readers /\ ClaimInv(w) /\ GetInv(r)
    BY DEF WindowInv
  <1>1. CASE \/ \E nr \in Lens : PutBegin(w, nr)
             \/ PutReadTail(w) \/ PutFull(w) \/ PutCheck(w) \/ PutWrap(w) \/ PutClaimLost(w)
    <2>1. UNCHANGED <<shm, rvars, claimed, got>>
      BY <1>1 DEF PutBegin, PutReadTail, PutFull, PutCheck, PutWrap, PutClaimLost
    <2>2. ~Busy(w) /\ ~Busy(w)'
      BY <1>0, <1>1 DEF PutBegin, PutReadTail, PutFull, PutCheck, PutWrap, PutClaimLost, Busy,
                        TypeOK, PutTypeOK
    <2> QED
      BY <2>1, <2>2, OldPutQuiet
  <1>2. CASE PutClaim(w)
    BY <1>0, <1>2, OldPutClaim
  <1>3. CASE PutMark(w)
    BY <1>0, <1>3, OldPutMark
  <1>4. CASE PutFill(w)
    BY <1>0, <1>4, OldPutFill
  <1>5. CASE PutPublish(w)
    BY <1>0, <1>5, OldPutPublish
  <1>6. CASE \/ GetBegin(r) \/ GetTail(r) \/ GetToken(r) \/ GetConflict(r)
             \/ GetRecheck(r) \/ GetLen(r) \/ GetTooLong(r)
    BY <1>0, <1>6, OldGetChecks
  <1>7. CASE GetCopy(r)
    BY <1>0, <1>7, OldGetCopy
  <1>8. CASE GetCas(r)
    BY <1>0, <1>8, OldGetCas
  <1>9. CASE GetCasEmpty(r) \/ GetClear(r)
    BY <1>0, <1>9, OldGetClear
  <1>10. CASE UNCHANGED vars
    <2>1. UNCHANGED <<shm, wvars, claimed, got>> /\ rvars' = rvars
      BY <1>10 DEF vars
    <2>2. /\ start_token' = start_token /\ data' = data /\ wpc' = wpc /\ nr_nodes' = nr_nodes
          /\ idx' = idx /\ claimed' = claimed /\ tail_pos' = tail_pos
          /\ rpc' = rpc /\ head' = head /\ new_head' = new_head /\ buf' = buf
      BY <2>1 DEF shm, wvars, rvars
    <2>3. CopiedInv(O, w, r)'
      BY <2>2 DEF OldInv, CopiedInv, Busy
    <2>4. rpc'[r] \in {"len", "copy"} => datalen[head'[r]] > 0
      BY <2>2 DEF OldInv, SizedInv
    <2> QED
      BY <2>1, <2>3, <2>4, OldGetQuiet
  <1> QED
    BY <1>1, <1>2, <1>3, <1>4, <1>5, <1>6, <1>7, <1>8, <1>9, <1>10
       DEF Next, sq_put, sq_get, PutStep

\* With one writer and one reader, however slow the writer is and whatever the reader
\* has skipped or read torn meanwhile, between two calls of sq_put no node in use shows
\* a message that sq_get has returned before, or an older one: for every size of the
\* ring, every reserve and every set of lengths.
THEOREM FreshCorrect ==
    ASSUME NEW w, NEW r, Writers = {w}, Readers = {r}
    PROVE  Spec => []FreshWhenQuiet
  <1> DEFINE SomeOld == \E O : OldInv(O, w, r)
  <1>1. Init => SomeOld
    <2>1. SUFFICES ASSUME Init PROVE SomeOld
      OBVIOUS
    <2>2. PICK O : O = [n \in Nodes |-> 0]
      OBVIOUS
    <2>3. /\ head_pos = 0 /\ tail_pos = 0 /\ Len(claimed) = 0 /\ got = << >>
          /\ wpc[w] = "idle" /\ rpc[r] = "idle" /\ 0 \in Nodes
          /\ \A n \in Nodes : start_token[n] = "NO_DATA" /\ data[n] = 0
      BY <2>1, ShmQueueAssumption DEF Init, Nodes
    <2>4. O \in [Nodes -> Nat] /\ (\A n \in Nodes : O[n] = 0) /\ Span(0, 0) = {}
      BY <2>2, <2>3, SpanEnds
    <2>5. OwnerInv(O)
      BY <2>3, <2>4 DEF OwnerInv, Older
    <2>6. ShownInv(O, w) /\ WrittenInv(O, w) /\ CopiedInv(O, w, r) /\ SizedInv(r)
      BY <2>3, <2>4 DEF ShownInv, WrittenInv, CopiedInv, SizedInv, Busy
    <2> QED
      BY <2>5, <2>6 DEF OldInv
  <1>2. TypeOK /\ TypeOK' /\ WindowInv /\ SomeOld /\ [Next]_vars => SomeOld'
    BY OldNext
  <1>3. SomeOld => FreshWhenQuiet
    <2>1. SUFFICES ASSUME NEW O, OldInv(O, w, r), ~Busy(w),
                          NEW n \in Span(head_pos, tail_pos), NEW i \in DOMAIN got,
                          start_token[n] = "HAS_DATA", got[i] # Torn
                   PROVE  got[i] < data[n]
      BY DEF FreshWhenQuiet
    <2> QED
      BY <2>1 DEF OldInv, ShownInv, Older
  <1>4. Spec => []WindowInv
    BY WindowInvCorrect
  <1> QED
    BY <1>1, <1>2, <1>3, <1>4, TypeCorrect, PTL DEF Spec
=============================================================================
