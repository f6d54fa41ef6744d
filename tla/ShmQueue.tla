------------------------------ MODULE ShmQueue ------------------------------
(***************************************************************************)
(* The shared memory ring of 3rd/shmqueue/shm_queue.c: sq_put and sq_get,   *)
(* one action per access to the shared words (head_pos, tail_pos and the    *)
(* header of a node), so that every interleaving of writer and reader       *)
(* processes is a behaviour.                                                *)
(*                                                                         *)
(* A message is its number in the order of the successful CAS on tail_pos,  *)
(* its length is the number of nodes it needs.  Time is abstracted: a       *)
(* reader that waits on a node being written either still waits or, when    *)
(* ConflictExpires, has waited for SQ_MAX_CONFLICT_TIME_MS.                 *)
(***************************************************************************)
EXTENDS Integers, Sequences, FiniteSets

CONSTANTS
    Writers,             \* processes that call sq_put
    Readers,             \* processes that call sq_get, each on its own handle
    ele_count,           \* the ring has ele_count + 1 nodes
    RESERVE_BLOCK_COUNT, \* shm_queue.h:48
    Lens,                \* the needed nodes of the messages that are put
    BufNodes,            \* the longest message that fits a reader's buffer
    ConflictExpires,     \* can a writer be slower than the conflict time?
    MaxPuts,             \* bound: number of messages that are put
    Torn                 \* what sq_get returns when nodes of two messages mix

ASSUME ShmQueueAssumption ==
    /\ ele_count \in Nat \ {0}
    /\ RESERVE_BLOCK_COUNT \in Nat
    /\ Lens \subseteq Nat \ {0}
    /\ BufNodes \in Nat
    /\ ConflictExpires \in BOOLEAN
    /\ MaxPuts \in Nat

VARIABLES
    head_pos, tail_pos,        \* struct sq_head_t
    start_token, datalen,      \* struct sq_node_head_t, one per node
    data,                      \* the message whose bytes are in the node
    wpc, nr_nodes, old_tail, new_tail, idx, msg,               \* sq_put
    rpc, old_head, new_head, head, rlen, buf, rw_conflict_time, \* sq_get
    claimed, got               \* history: messages put, and got, in CAS order

shm  == <<head_pos, tail_pos, start_token, datalen, data>>
wvars == <<wpc, nr_nodes, old_tail, new_tail, idx, msg>>
rvars == <<rpc, old_head, new_head, head, rlen, buf, rw_conflict_time>>
vars == <<shm, wvars, rvars, claimed, got>>

Nodes == 0 .. ele_count

\* Mutant: the ring is taken to have one node more than it has
AddPosOneMore(pos, val) == (pos + val) % (ele_count + 2)

\* SQ_ADD_POS, SQ_ADD_HEAD and SQ_ADD_TAIL
AddPos(pos, val) == (pos + val) % (ele_count + 1)

\* SQ_EMPTY_NODES2 and SQ_USED_NODES2, with the position of the head
EmptyNodes(h, t) == (h + ele_count - t) % (ele_count + 1)
UsedNodes(h, t) == ele_count - EmptyNodes(h, t)

\* The nodes from position p up to, and without, position q
Span(p, q) == IF p <= q THEN p .. (q - 1) ELSE (p .. ele_count) \cup (0 .. (q - 1))

Init ==
    /\ head_pos = 0
    /\ tail_pos = 0
    /\ start_token = [n \in Nodes |-> "NO_DATA"]
    /\ datalen = [n \in Nodes |-> 0]
    /\ data = [n \in Nodes |-> 0]
    /\ wpc = [w \in Writers |-> "idle"]
    /\ nr_nodes = [w \in Writers |-> 0]
    /\ old_tail = [w \in Writers |-> 0]
    /\ new_tail = [w \in Writers |-> 0]
    /\ idx = [w \in Writers |-> 0]
    /\ msg = [w \in Writers |-> 0]
    /\ rpc = [r \in Readers |-> "idle"]
    /\ old_head = [r \in Readers |-> 0]
    /\ new_head = [r \in Readers |-> 0]
    /\ head = [r \in Readers |-> 0]
    /\ rlen = [r \in Readers |-> 0]
    /\ buf = [r \in Readers |-> 0]
    /\ rw_conflict_time = [r \in Readers |-> FALSE]
    /\ claimed = << >>
    /\ got = << >>

-----------------------------------------------------------------------------
(* sq_put.  sq_put_wait repeats the call while it returns -2, which is what *)
(* a writer that begins again does.                                         *)

PutBegin(w, nr) ==
    /\ wpc[w] = "idle"
    /\ Len(claimed) < MaxPuts
    /\ nr_nodes' = [nr_nodes EXCEPT ![w] = nr]
    /\ wpc' = [wpc EXCEPT ![w] = "tail"]
    /\ UNCHANGED <<shm, old_tail, new_tail, idx, msg, rvars, claimed, got>>

PutReadTail(w) ==
    /\ wpc[w] = "tail"
    /\ old_tail' = [old_tail EXCEPT ![w] = tail_pos]
    /\ wpc' = [wpc EXCEPT ![w] = "check"]
    /\ UNCHANGED <<shm, nr_nodes, new_tail, idx, msg, rvars, claimed, got>>

\* Mutant: no reserved blocks
NotEnoughUnreserved(w) == EmptyNodes(head_pos, tail_pos) < nr_nodes[w]

\* The test for enough empty nodes
NotEnough(w) == EmptyNodes(head_pos, tail_pos) < nr_nodes[w] + RESERVE_BLOCK_COUNT

\* Returns -2
PutFull(w) ==
    /\ wpc[w] = "check"
    /\ NotEnough(w)
    /\ wpc' = [wpc EXCEPT ![w] = "idle"]
    /\ UNCHANGED <<shm, nr_nodes, old_tail, new_tail, idx, msg, rvars, claimed, got>>

PutCheck(w) ==
    /\ wpc[w] = "check"
    /\ ~NotEnough(w)
    /\ idx' = [idx EXCEPT ![w] = old_tail[w]]
    /\ new_tail' = [new_tail EXCEPT ![w] = AddPos(tail_pos, nr_nodes[w])]
    /\ wpc' = [wpc EXCEPT ![w] = IF new_tail'[w] < old_tail[w] THEN "wrap" ELSE "cas"]
    /\ UNCHANGED <<shm, nr_nodes, old_tail, msg, rvars, claimed, got>>

\* Mutant: the block at node 0 may reach up to head_pos
PutWrapToHead(w) ==
    /\ wpc[w] = "wrap"
    /\ IF head_pos < nr_nodes[w]
       THEN /\ wpc' = [wpc EXCEPT ![w] = "idle"]
            /\ UNCHANGED <<idx, new_tail>>
       ELSE /\ wpc' = [wpc EXCEPT ![w] = "cas"]
            /\ idx' = [idx EXCEPT ![w] = 0]
            /\ new_tail' = [new_tail EXCEPT ![w] = nr_nodes[w]]
    /\ UNCHANGED <<shm, nr_nodes, old_tail, msg, rvars, claimed, got>>

\* Wrapped back: the block starts at node 0 if it fits below head_pos
PutWrap(w) ==
    /\ wpc[w] = "wrap"
    /\ IF head_pos - 1 < nr_nodes[w]
       THEN /\ wpc' = [wpc EXCEPT ![w] = "idle"]
            /\ UNCHANGED <<idx, new_tail>>
       ELSE /\ wpc' = [wpc EXCEPT ![w] = "cas"]
            /\ idx' = [idx EXCEPT ![w] = 0]
            /\ new_tail' = [new_tail EXCEPT ![w] = nr_nodes[w]]
    /\ UNCHANGED <<shm, nr_nodes, old_tail, msg, rvars, claimed, got>>

\* Mutant: tail_pos is stored without comparing it to old_tail
PutClaimStore(w) ==
    /\ wpc[w] = "cas"
    /\ tail_pos' = new_tail[w]
    /\ claimed' = Append(claimed, Len(claimed) + 1)
    /\ msg' = [msg EXCEPT ![w] = Len(claimed) + 1]
    /\ wpc' = [wpc EXCEPT ![w] = IF idx[w] = 0 /\ old_tail[w] # 0 THEN "mark" ELSE "fill"]
    /\ UNCHANGED <<head_pos, start_token, datalen, data, nr_nodes, old_tail, new_tail,
                   idx, rvars, got>>

\* CAS32(&tail_pos, old_tail, new_tail)
PutClaim(w) ==
    /\ wpc[w] = "cas"
    /\ tail_pos = old_tail[w]
    /\ tail_pos' = new_tail[w]
    /\ claimed' = Append(claimed, Len(claimed) + 1)
    /\ msg' = [msg EXCEPT ![w] = Len(claimed) + 1]
    /\ wpc' = [wpc EXCEPT ![w] = IF idx[w] = 0 /\ old_tail[w] # 0 THEN "mark" ELSE "fill"]
    /\ UNCHANGED <<head_pos, start_token, datalen, data, nr_nodes, old_tail, new_tail,
                   idx, rvars, got>>

PutClaimLost(w) ==
    /\ wpc[w] = "cas"
    /\ tail_pos # old_tail[w]
    /\ wpc' = [wpc EXCEPT ![w] = "tail"]
    /\ UNCHANGED <<shm, nr_nodes, old_tail, new_tail, idx, msg, rvars, claimed, got>>

\* Mutant: the nodes skipped at the end of the ring are not marked
PutMarkNothing(w) ==
    /\ wpc[w] = "mark"
    /\ wpc' = [wpc EXCEPT ![w] = "fill"]
    /\ UNCHANGED <<shm, nr_nodes, old_tail, new_tail, idx, msg, rvars, claimed, got>>

\* One of the nodes skipped at the end of the ring is marked
PutMark(w) ==
    /\ wpc[w] = "mark"
    /\ start_token' = [start_token EXCEPT ![old_tail[w]] = "SKIPPED"]
    /\ old_tail' = [old_tail EXCEPT ![w] = AddPos(old_tail[w], 1)]
    /\ wpc' = [wpc EXCEPT ![w] = IF old_tail'[w] # 0 THEN "mark" ELSE "fill"]
    /\ UNCHANGED <<head_pos, tail_pos, datalen, data, nr_nodes, new_tail, idx, msg, rvars,
                   claimed, got>>

Block(i, nr) == i .. (i + nr - 1)

\* datalen, enqueue_time and the memcpy: the bytes of a message of several
\* nodes also cover the header of each node but the first
PutFill(w) ==
    /\ wpc[w] = "fill"
    /\ datalen' = [datalen EXCEPT ![idx[w]] = nr_nodes[w]]
    /\ data' = [n \in Nodes |-> IF n \in Block(idx[w], nr_nodes[w]) THEN msg[w] ELSE data[n]]
    /\ start_token' = [n \in Nodes |-> IF n \in Block(idx[w], nr_nodes[w]) \ {idx[w]}
                                       THEN "PAYLOAD" ELSE start_token[n]]
    /\ wpc' = [wpc EXCEPT ![w] = "publish"]
    /\ UNCHANGED <<head_pos, tail_pos, nr_nodes, old_tail, new_tail, idx, msg, rvars,
                   claimed, got>>

PutPublish(w) ==
    /\ wpc[w] = "publish"
    /\ start_token' = [start_token EXCEPT ![idx[w]] = "HAS_DATA"]
    /\ wpc' = [wpc EXCEPT ![w] = "idle"]
    /\ UNCHANGED <<head_pos, tail_pos, datalen, data, nr_nodes, old_tail, new_tail, idx, msg,
                   rvars, claimed, got>>

-----------------------------------------------------------------------------
(* sq_get.                                                                  *)

GetBegin(r) ==
    /\ rpc[r] = "idle"
    /\ old_head' = [old_head EXCEPT ![r] = head_pos]
    /\ head' = [head EXCEPT ![r] = head_pos]
    /\ rpc' = [rpc EXCEPT ![r] = "tail"]
    /\ UNCHANGED <<shm, wvars, new_head, rlen, buf, rw_conflict_time, claimed, got>>

\* The end of the queue is reached, or the node at head is looked at
GetTail(r) ==
    /\ rpc[r] = "tail"
    /\ IF tail_pos # head[r]
       THEN /\ rpc' = [rpc EXCEPT ![r] = "token"]
            /\ UNCHANGED rw_conflict_time
       ELSE IF head[r] # old_head[r]
       THEN /\ rpc' = [rpc EXCEPT ![r] = "casempty"]
            /\ UNCHANGED rw_conflict_time
       ELSE /\ rpc' = [rpc EXCEPT ![r] = "idle"]
            /\ rw_conflict_time' = [rw_conflict_time EXCEPT ![r] = FALSE]
    /\ UNCHANGED <<shm, wvars, old_head, new_head, head, rlen, buf, claimed, got>>

\* Empty after skipping: the skipped nodes are given back, no data is returned
GetCasEmpty(r) ==
    /\ rpc[r] = "casempty"
    /\ IF head_pos = old_head[r]
       THEN /\ head_pos' = head[r]
            /\ new_head' = [new_head EXCEPT ![r] = head[r]]
            /\ rpc' = [rpc EXCEPT ![r] = "clear"]
            /\ UNCHANGED rw_conflict_time
       ELSE /\ rpc' = [rpc EXCEPT ![r] = "idle"]
            /\ rw_conflict_time' = [rw_conflict_time EXCEPT ![r] = FALSE]
            /\ UNCHANGED <<head_pos, new_head>>
    /\ UNCHANGED <<tail_pos, start_token, datalen, data, wvars, old_head, head, rlen, buf,
                   claimed, got>>

GetToken(r) ==
    /\ rpc[r] = "token"
    /\ LET token == start_token[head[r]] IN
       \/ /\ token = "HAS_DATA"
          /\ rpc' = [rpc EXCEPT ![r] = "len"]
          /\ UNCHANGED rw_conflict_time
       \/ /\ token = "SKIPPED"
          /\ rpc' = [rpc EXCEPT ![r] = "recheck"]
          /\ UNCHANGED rw_conflict_time
       \/ /\ token \notin {"HAS_DATA", "SKIPPED"}
          /\ rw_conflict_time' = [rw_conflict_time EXCEPT ![r] = TRUE]
          /\ rpc' = [rpc EXCEPT ![r] = "conflict"]
       \/ /\ token \notin {"HAS_DATA", "SKIPPED"}
          /\ ConflictExpires /\ rw_conflict_time[r]
          /\ rpc' = [rpc EXCEPT ![r] = "recheck"]
          /\ UNCHANGED rw_conflict_time
    /\ UNCHANGED <<shm, wvars, old_head, new_head, head, rlen, buf, claimed, got>>

\* Within the conflict time: read by others, start over; otherwise return 0
GetConflict(r) ==
    /\ rpc[r] = "conflict"
    /\ IF old_head[r] # head_pos
       THEN /\ rw_conflict_time' = [rw_conflict_time EXCEPT ![r] = FALSE]
            /\ old_head' = [old_head EXCEPT ![r] = head_pos]
            /\ head' = [head EXCEPT ![r] = head_pos]
            /\ rpc' = [rpc EXCEPT ![r] = "tail"]
       ELSE /\ rpc' = [rpc EXCEPT ![r] = "idle"]
            /\ UNCHANGED <<rw_conflict_time, old_head, head>>
    /\ UNCHANGED <<shm, wvars, new_head, rlen, buf, claimed, got>>

\* Skip the node at head as skipped or corrupted
SkipNode(r) ==
    /\ rw_conflict_time' = [rw_conflict_time EXCEPT ![r] = FALSE]
    /\ head' = [head EXCEPT ![r] = AddPos(head[r], 1)]
    /\ rpc' = [rpc EXCEPT ![r] = "tail"]
    /\ UNCHANGED <<shm, wvars, old_head, new_head, buf, claimed, got>>

GetRecheck(r) ==
    /\ rpc[r] = "recheck"
    /\ \/ /\ start_token[head[r]] = "HAS_DATA"
          /\ rpc' = [rpc EXCEPT ![r] = "len"]
          /\ UNCHANGED <<shm, wvars, old_head, new_head, head, buf, rw_conflict_time, claimed, got>>
       \/ /\ start_token[head[r]] # "HAS_DATA"
          /\ SkipNode(r)
    /\ UNCHANGED rlen

\* Mutant: a message that reaches up to the tail is taken for corrupt
GetLenStrict(r) ==
    /\ rpc[r] = "len"
    /\ rlen' = [rlen EXCEPT ![r] = datalen[head[r]]]
    /\ \/ /\ UsedNodes(head[r], tail_pos) <= datalen[head[r]]
          /\ SkipNode(r)
       \/ /\ UsedNodes(head[r], tail_pos) > datalen[head[r]]
          /\ rpc' = [rpc EXCEPT ![r] = "copy"]
          /\ UNCHANGED <<shm, wvars, old_head, new_head, head, buf, rw_conflict_time, claimed, got>>

GetLen(r) ==
    /\ rpc[r] = "len"
    /\ rlen' = [rlen EXCEPT ![r] = datalen[head[r]]]
    /\ \/ /\ UsedNodes(head[r], tail_pos) < datalen[head[r]]
          /\ SkipNode(r)
       \/ /\ UsedNodes(head[r], tail_pos) >= datalen[head[r]]
          /\ rpc' = [rpc EXCEPT ![r] = "copy"]
          /\ UNCHANGED <<shm, wvars, old_head, new_head, head, buf, rw_conflict_time, claimed, got>>

\* datalen > buf_sz: returns -2, the message stays in the queue
GetTooLong(r) ==
    /\ rpc[r] = "copy"
    /\ rlen[r] > BufNodes
    /\ rpc' = [rpc EXCEPT ![r] = "idle"]
    /\ rw_conflict_time' = [rw_conflict_time EXCEPT ![r] = FALSE]
    /\ UNCHANGED <<shm, wvars, old_head, new_head, head, rlen, buf, claimed, got>>

\* What the memcpy from the node at i finds: one whole message, or a mix, or a
\* part of one when its length was read before the node was filled again
Contents(i, nr) ==
    IF /\ \A n \in Block(i, nr) : n \in Nodes /\ data[n] = data[i]
       /\ \A n \in Block(i, nr) : (start_token[n] = "PAYLOAD") <=> (n # i)
       /\ datalen[i] = nr
    THEN data[i]
    ELSE Torn

GetCopy(r) ==
    /\ rpc[r] = "copy"
    /\ rlen[r] <= BufNodes
    /\ buf' = [buf EXCEPT ![r] = Contents(head[r], rlen[r])]
    /\ new_head' = [new_head EXCEPT ![r] = AddPos(head[r], rlen[r])]
    /\ rpc' = [rpc EXCEPT ![r] = "cas"]
    /\ UNCHANGED <<shm, wvars, old_head, head, rlen, rw_conflict_time, claimed, got>>

\* CAS32(&head_pos, old_head, new_head), or start over
GetCas(r) ==
    /\ rpc[r] = "cas"
    /\ IF head_pos = old_head[r]
       THEN /\ head_pos' = new_head[r]
            /\ got' = Append(got, buf[r])
            /\ rpc' = [rpc EXCEPT ![r] = "clear"]
            /\ UNCHANGED <<old_head, head>>
       ELSE /\ old_head' = [old_head EXCEPT ![r] = head_pos]
            /\ head' = [head EXCEPT ![r] = head_pos]
            /\ rpc' = [rpc EXCEPT ![r] = "tail"]
            /\ UNCHANGED <<head_pos, got>>
    /\ UNCHANGED <<tail_pos, start_token, datalen, data, wvars, new_head, rlen, buf,
                   rw_conflict_time, claimed>>

\* Mutant: the tokens of the nodes given back are not reset
GetClearNothing(r) ==
    /\ rpc[r] = "clear"
    /\ rpc' = [rpc EXCEPT ![r] = "idle"]
    /\ rw_conflict_time' = [rw_conflict_time EXCEPT ![r] = FALSE]
    /\ UNCHANGED <<shm, wvars, old_head, new_head, head, rlen, buf, claimed, got>>

\* One token of the nodes given back is reset; after the last one, return
GetClear(r) ==
    /\ rpc[r] = "clear"
    /\ IF old_head[r] # new_head[r]
       THEN /\ start_token' = [start_token EXCEPT ![old_head[r]] = "NO_DATA"]
            /\ old_head' = [old_head EXCEPT ![r] = AddPos(old_head[r], 1)]
            /\ UNCHANGED <<rpc, rw_conflict_time>>
       ELSE /\ rpc' = [rpc EXCEPT ![r] = "idle"]
            /\ rw_conflict_time' = [rw_conflict_time EXCEPT ![r] = FALSE]
            /\ UNCHANGED <<start_token, old_head>>
    /\ UNCHANGED <<head_pos, tail_pos, datalen, data, wvars, new_head, head, rlen, buf,
                   claimed, got>>

-----------------------------------------------------------------------------
PutStep(w) ==
    \/ PutReadTail(w) \/ PutFull(w) \/ PutCheck(w) \/ PutWrap(w)
    \/ PutClaim(w) \/ PutClaimLost(w) \/ PutMark(w) \/ PutFill(w) \/ PutPublish(w)

sq_put(w) == (\E nr \in Lens : PutBegin(w, nr)) \/ PutStep(w)

sq_get(r) ==
    \/ GetBegin(r) \/ GetTail(r) \/ GetCasEmpty(r) \/ GetToken(r) \/ GetConflict(r)
    \/ GetRecheck(r) \/ GetLen(r) \/ GetTooLong(r) \/ GetCopy(r) \/ GetCas(r) \/ GetClear(r)

Next ==
    \/ \E w \in Writers : sq_put(w)
    \/ \E r \in Readers : sq_get(r)

Spec == Init /\ [][Next]_vars

\* A call of sq_put that was begun runs to its end, and readers keep polling:
\* both are loops of running processes that wait for nobody
FairSpec ==
    /\ Spec
    /\ \A w \in Writers : WF_vars(PutStep(w))
    /\ \A r \in Readers : WF_vars(sq_get(r))

-----------------------------------------------------------------------------
(* Properties.                                                              *)

ShmTypeOK ==
    /\ head_pos \in Nodes /\ tail_pos \in Nodes
    /\ start_token \in [Nodes -> {"NO_DATA", "SKIPPED", "HAS_DATA", "PAYLOAD"}]
    /\ datalen \in [Nodes -> Nat]
    /\ data \in [Nodes -> Nat]

PutTypeOK ==
    /\ wpc \in [Writers -> {"idle", "tail", "check", "wrap", "cas", "mark", "fill", "publish"}]
    /\ nr_nodes \in [Writers -> Nat]
    /\ old_tail \in [Writers -> Nodes]
    /\ new_tail \in [Writers -> Nodes]
    /\ idx \in [Writers -> Nodes]
    /\ msg \in [Writers -> Nat]

GetTypeOK ==
    /\ rpc \in [Readers -> {"idle", "tail", "casempty", "token", "conflict", "recheck", "len",
                            "copy", "cas", "clear"}]
    /\ old_head \in [Readers -> Nodes]
    /\ new_head \in [Readers -> Nodes]
    /\ head \in [Readers -> Nodes]
    /\ rlen \in [Readers -> Nat]
    /\ buf \in [Readers -> Nat \cup {Torn}]
    /\ rw_conflict_time \in [Readers -> BOOLEAN]

HistoryTypeOK == claimed \in Seq(Nat) /\ got \in Seq(Nat \cup {Torn})

\* The type of every variable; no position ever leaves the ring.
TypeOK == ShmTypeOK /\ PutTypeOK /\ GetTypeOK /\ HistoryTypeOK

\* What a step may do to the two positions: head_pos only gives back nodes
\* that were in use, tail_pos only takes nodes that were free, never so many
\* that the full ring looks empty, and the message's block is among them.
WindowStep ==
    /\ head_pos' # head_pos =>
           Span(head_pos, head_pos') \subseteq Span(head_pos, tail_pos)
    /\ tail_pos' # tail_pos =>
           /\ tail_pos' # head_pos
           /\ Span(tail_pos, tail_pos') \cap Span(head_pos, tail_pos) = {}
           /\ \A w \in Writers : PutClaim(w) =>
                  Block(idx[w], nr_nodes[w]) \subseteq Span(tail_pos, tail_pos')

\* Neither end of the ring ever runs over the other (sq_put's checks against
\* a head_pos that may be stale by the time of the CAS, sq_get's checks
\* against a stale tail_pos).
WindowSafe == [][WindowStep]_<<head_pos, tail_pos>>

\* The position p is in use or is the tail, where the next message goes
InWindow(p) ==
    IF head_pos <= tail_pos THEN head_pos <= p /\ p <= tail_pos
                            ELSE head_pos <= p \/ p <= tail_pos

\* What sq_put knows between its checks and its CAS: the claim it computed
\* stays free although readers move head_pos meanwhile.
ClaimInv(w) ==
    /\ wpc[w] # "idle" => nr_nodes[w] > 0
    /\ wpc[w] \in {"check", "wrap", "cas"} => old_tail[w] = tail_pos
    /\ wpc[w] = "wrap" => head_pos <= tail_pos /\ tail_pos + nr_nodes[w] > ele_count
    /\ wpc[w] = "cas" =>
           \/ /\ idx[w] = tail_pos
              /\ new_tail[w] = tail_pos + nr_nodes[w]
              /\ head_pos <= tail_pos \/ new_tail[w] < head_pos
           \/ /\ idx[w] = 0
              /\ new_tail[w] = nr_nodes[w]
              /\ head_pos <= tail_pos /\ new_tail[w] < head_pos

\* What sq_get knows between its reads and its CAS: the positions it
\* computed stay within the nodes in use although writers move tail_pos.
GetInv(r) ==
    /\ rpc[r] \notin {"idle", "clear"} => old_head[r] = head_pos /\ InWindow(head[r])
    /\ rpc[r] \in {"token", "conflict", "recheck", "len", "copy", "cas"} => head[r] # tail_pos
    /\ rpc[r] = "copy" => rlen[r] <= UsedNodes(head[r], tail_pos)
    /\ rpc[r] = "cas" => InWindow(new_head[r])

\* The inductive invariant behind WindowSafe, for one writer and one reader.
WindowInv == (\A w \in Writers : ClaimInv(w)) /\ (\A r \in Readers : GetInv(r))

FQ == INSTANCE FifoQueue WITH sent <- claimed, received <- got

\* The ring implements a FIFO queue: sq_get returns the messages of sq_put
\* whole, in the order of their CAS, none twice and none passed over.
Fifo == FQ!Spec

\* An empty ring holds nothing undelivered: no message was skipped by a
\* reader that took its node for corrupt.
EmptyMeansDelivered == head_pos = tail_pos => Len(got) = Len(claimed)

\* Every message that got its nodes is eventually returned by a reader.
EventuallyDelivered ==
    \A n \in 1 .. MaxPuts : Len(claimed) >= n ~> Len(got) >= n

\* The writer has its nodes and has not published the message yet
Busy(w) == wpc[w] \in {"mark", "fill", "publish"}

\* Whatever a slow writer has left behind, between two calls of sq_put the token
\* HAS_DATA of a node in use is that of a message newer than all that sq_get has
\* returned: old messages come again only to a reader that looks at nodes which
\* are just being written.
FreshWhenQuiet ==
    (\A w \in Writers : ~Busy(w)) =>
        \A n \in Span(head_pos, tail_pos), i \in DOMAIN got :
            start_token[n] = "HAS_DATA" /\ got[i] # Torn => got[i] < data[n]

\* A reader never has tokens left to reset in nodes that are in use again
\* (shm_queue.h:44, the reserved blocks "avoid write-after-read conflict").
NoWriteAfterRead ==
    \A r \in Readers : rpc[r] = "clear" =>
        Span(old_head[r], new_head[r]) \cap Span(head_pos, tail_pos) = {}
=============================================================================
