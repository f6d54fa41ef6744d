-------------------------- MODULE MaterialsProofs ---------------------------
(***************************************************************************)
(* What holds of the materials, their decoders and what is drawn of them,   *)
(* for any materials, any command lines and any number of opening threads.  *)
(***************************************************************************)
EXTENDS Materials, QueueLemmas, FiniteSetTheorems, WellFoundedInduction

-----------------------------------------------------------------------------
(* The inductive invariant.                                                 *)

IsAdd(c) == c.op = "ADD" /\ ~Invalid(c)

AddOnce(q) ==
    \A i, j \in DOMAIN q : IsAdd(q[i]) /\ IsAdd(q[j]) /\ q[i].m = q[j].m => i = j

\* No batch is longer than the number of lines sent.
CountInv ==
    /\ Len(cmdQueue) + Len(cmds) + Len(new_mlist) <= sent
    /\ \A t \in DOMAIN openers :
          /\ Len(openers[t].ms) <= MaxLines
          /\ openers[t].k <= Len(openers[t].ms) + 1

\* No queue, batch or list names a material twice.
QueueInv ==
    /\ mpc # "cmds" => cmds = << >>
    /\ AddOnce(cmdQueue) /\ AddOnce(cmds) /\ Adds(cmds) \cap Adds(cmdQueue) = {}
    /\ IsInjective(new_mlist) /\ IsInjective(mlist)
    /\ \A t \in DOMAIN openers : IsInjective(openers[t].ms)

\* A thread has materials that are not listed yet.
Active(t) == openers[t].pc \in {"open", "put"} \/ pmlist = t

\* The threads do not share a material, and the mailbox is filled by one that ended.
HeldInv ==
    /\ \A t, u \in DOMAIN openers : t # u => Held(t) \cap Held(u) = {}
    /\ pmlist # 0 => openers[pmlist].pc = "done"

\* The five places where a material can be are disjoint, and hold those added.
PlaceInv ==
    \A m \in Names :
        /\ m \in Added <=> \/ m \in Waiting \/ m \in ToSet(new_mlist) \/ m \in ToSet(mlist)
                           \/ m \in gone \/ m \in InFlight
        /\ m \in Waiting => /\ m \notin ToSet(new_mlist) /\ m \notin ToSet(mlist)
                            /\ m \notin gone /\ m \notin InFlight
        /\ m \in ToSet(new_mlist) => m \notin ToSet(mlist) /\ m \notin gone /\ m \notin InFlight
        /\ m \in ToSet(mlist) => m \notin gone /\ m \notin InFlight
        /\ m \in gone => m \notin InFlight

\* The decoders that a thread has opened are as it left them, and right for the
\* current product unless it was switched meanwhile.
OpenInv ==
    \A t \in DOMAIN openers : Active(t) =>
        LET o == openers[t]
        IN  /\ \A i \in DOMAIN o.ms :
                  /\ i < o.k => decoder[o.ms[i]] = OpenedDecoder(o.ms[i], o.product)
                  /\ i >= o.k => decoder[o.ms[i]] = "none"
                  /\ o.ms[i] \notin raced => o.product = product_id
            /\ o.pc # "open" => o.k > Len(o.ms)

\* The background was drawn from materials of all products that do not change.
DrawInv ==
    /\ mpc # "top" => drawn = {}
    /\ static_idx = Len(background)
    /\ \A m \in ToSet(background) : Info[m].product = 0 /\ Info[m].type \in {"audio", "image"}

MaterialsInv ==
    /\ TypeOK /\ CountInv /\ QueueInv /\ HeldInv /\ PlaceInv /\ OpenInv
    /\ DecodersOwned /\ SwitchedDecoders /\ LayersInOrder /\ DrawInv /\ DrawsWhatIsListed


-----------------------------------------------------------------------------
(* Sequences without repetitions.                                           *)

\* What an append adds to the elements of a list.
LEMMA AppendElements ==
    ASSUME NEW S, NEW q \in Seq(S), NEW e \in S
    PROVE  /\ ToSet(Append(q, e)) = ToSet(q) \cup {e}
           /\ IsInjective(q) /\ e \notin ToSet(q) => IsInjective(Append(q, e))
  <1> DEFINE a == Append(q, e)
  <1>1. /\ Len(q) \in Nat /\ DOMAIN a = 1 .. Len(q) + 1 /\ DOMAIN q = 1 .. Len(q)
        /\ \A i \in 1 .. Len(q) : a[i] = q[i]
        /\ a[Len(q) + 1] = e
    BY PushFacts
  <1> HIDE DEF a
  <1>2. ToSet(a) = ToSet(q) \cup {e}
    BY <1>1 DEF ToSet
  <1>3. ASSUME IsInjective(q), e \notin ToSet(q)
        PROVE  IsInjective(a)
    <2> SUFFICES ASSUME NEW i \in DOMAIN a, NEW j \in DOMAIN a, a[i] = a[j]
                 PROVE  i = j
      BY DEF IsInjective
    <2>1. \A k \in 1 .. Len(q) : a[k] # e
      BY <1>1, <1>3 DEF ToSet
    <2>2. CASE i \in 1 .. Len(q) /\ j \in 1 .. Len(q)
      BY <1>1, <1>3, <2>2 DEF IsInjective
    <2>3. CASE i = Len(q) + 1 \/ j = Len(q) + 1
      BY <1>1, <2>1, <2>3
    <2> QED
      BY <1>1, <2>2, <2>3
  <1> QED
    BY <1>2, <1>3 DEF a

\* What a concatenation holds.
LEMMA CatElements ==
    ASSUME NEW S, NEW s \in Seq(S), NEW u \in Seq(S)
    PROVE  /\ ToSet(s \o u) = ToSet(s) \cup ToSet(u)
           /\ IsInjective(s) /\ IsInjective(u) /\ ToSet(s) \cap ToSet(u) = {} =>
                 IsInjective(s \o u)
  <1> DEFINE c == s \o u
             n == Len(s)
             k == Len(u)
  <1>1. /\ n \in Nat /\ k \in Nat /\ DOMAIN c = 1 .. n + k /\ DOMAIN s = 1 .. n /\ DOMAIN u = 1 .. k
        /\ \A i \in 1 .. n : c[i] = s[i]
        /\ \A i \in 1 .. k : c[n + i] = u[i]
    BY CatFacts
  <1> HIDE DEF c, n, k
  <1>2. \A i \in DOMAIN c : i \in 1 .. n \/ (i - n \in 1 .. k /\ c[i] = u[i - n])
    <2> SUFFICES ASSUME NEW i \in DOMAIN c, i \notin 1 .. n
                 PROVE  i - n \in 1 .. k /\ c[i] = u[i - n]
      OBVIOUS
    <2>1. i - n \in 1 .. k /\ n + (i - n) = i
      BY <1>1
    <2> QED
      BY <1>1, <2>1
  <1>3. ToSet(c) = ToSet(s) \cup ToSet(u)
    <2>1. ASSUME NEW x \in ToSet(c)
          PROVE  x \in ToSet(s) \cup ToSet(u)
      BY <1>1, <1>2 DEF ToSet
    <2>2. ASSUME NEW x \in ToSet(s)
          PROVE  x \in ToSet(c)
      BY <1>1 DEF ToSet
    <2>3. ASSUME NEW x \in ToSet(u)
          PROVE  x \in ToSet(c)
      <3>1. PICK i \in 1 .. k : x = u[i]
        BY <1>1 DEF ToSet
      <3>2. n + i \in DOMAIN c /\ c[n + i] = x
        BY <1>1, <3>1
      <3> QED
        BY <3>2 DEF ToSet
    <2> QED
      BY <2>1, <2>2, <2>3
  <1>4. ASSUME IsInjective(s), IsInjective(u), ToSet(s) \cap ToSet(u) = {}
        PROVE  IsInjective(c)
    <2> SUFFICES ASSUME NEW i \in DOMAIN c, NEW j \in DOMAIN c, c[i] = c[j]
                 PROVE  i = j
      BY DEF IsInjective
    <2>1. \A a \in 1 .. n, b \in 1 .. k : s[a] # u[b]
      BY <1>1, <1>4 DEF ToSet
    <2>2. CASE i \in 1 .. n /\ j \in 1 .. n
      BY <1>1, <1>4, <2>2 DEF IsInjective
    <2>3. CASE i \notin 1 .. n /\ j \notin 1 .. n
      <3>1. i - n = j - n
        BY <1>1, <1>2, <1>4, <2>3 DEF IsInjective
      <3> QED
        BY <1>1, <3>1
    <2>4. CASE i \in 1 .. n /\ j \notin 1 .. n
      BY <1>1, <1>2, <2>1, <2>4
    <2>5. CASE i \notin 1 .. n /\ j \in 1 .. n
      BY <1>1, <1>2, <2>1, <2>5
    <2> QED
      BY <2>2, <2>3, <2>4, <2>5
  <1> QED
    BY <1>3, <1>4 DEF c

\* An empty list has no elements.
LEMMA EmptyElements == ToSet(<< >>) = {} /\ IsInjective(<< >>)
  BY DEF ToSet, IsInjective

\* The elements of a list.
LEMMA Elements ==
    ASSUME NEW S, NEW q \in Seq(S)
    PROVE  /\ Len(q) \in Nat /\ DOMAIN q = 1 .. Len(q)
           /\ \A i \in DOMAIN q : q[i] \in S /\ q[i] \in ToSet(q)
           /\ ToSet(q) \subseteq S
           /\ \A x \in ToSet(q) : \E i \in DOMAIN q : x = q[i]
  BY DEF ToSet

\* erase of one position: the others keep their order.
LEMMA RemoveFacts ==
    ASSUME NEW S, NEW q \in Seq(S), NEW i \in 1 .. Len(q)
    PROVE  LET r == RemoveAt(q, i)
           IN  /\ r \in Seq(S) /\ Len(r) = Len(q) - 1 /\ DOMAIN r = 1 .. Len(q) - 1
               /\ \A j \in 1 .. i - 1 : r[j] = q[j]
               /\ \A j \in i .. Len(q) - 1 : r[j] = q[j + 1]
  <1> DEFINE a == SubSeq(q, 1, i - 1)
             b == SubSeq(q, i + 1, Len(q))
             n == Len(q)
  <1>1. /\ n \in Nat /\ i \in Nat /\ i >= 1 /\ i <= n
        /\ \A j \in 1 .. n : q[j] \in S
    OBVIOUS
  <1>2. a \in Seq(S) /\ Len(a) = i - 1 /\ \A j \in 1 .. i - 1 : a[j] = q[j]
    OBVIOUS
  <1>3. b \in Seq(S) /\ Len(b) = n - i /\ \A j \in 1 .. n - i : b[j] = q[i + j]
    BY DropFacts
  <1>4. RemoveAt(q, i) = a \o b
    BY DEF RemoveAt
  <1> HIDE DEF a, b
  <1>5. /\ a \o b \in Seq(S) /\ Len(a \o b) = Len(a) + Len(b)
        /\ DOMAIN (a \o b) = 1 .. Len(a) + Len(b)
        /\ \A j \in 1 .. Len(a) : (a \o b)[j] = a[j]
        /\ \A j \in 1 .. Len(b) : (a \o b)[Len(a) + j] = b[j]
    <2>1. a \in Seq(S) /\ b \in Seq(S)
      BY <1>2, <1>3
    <2> QED
      BY <2>1, CatFacts
  <1> DEFINE r == a \o b
  <1> HIDE DEF n, r
  <1>6. Len(a) + Len(b) = n - 1 /\ Len(a) = i - 1 /\ Len(b) = n - i
    BY <1>1, <1>2, <1>3
  <1>7. r \in Seq(S) /\ Len(r) = n - 1 /\ DOMAIN r = 1 .. n - 1
    BY <1>5, <1>6 DEF r
  <1>8. \A j \in 1 .. i - 1 : r[j] = q[j]
    BY <1>2, <1>5, <1>6 DEF r
  <1>9. ASSUME NEW j \in i .. n - 1
        PROVE  r[j] = q[j + 1]
    <2>1. j - (i - 1) \in 1 .. n - i /\ (i - 1) + (j - (i - 1)) = j /\ i + (j - (i - 1)) = j + 1
      BY <1>1
    <2>2. r[(i - 1) + (j - (i - 1))] = b[j - (i - 1)]
      BY <1>5, <1>6, <2>1 DEF r
    <2>3. b[j - (i - 1)] = q[i + (j - (i - 1))]
      BY <1>3, <2>1
    <2> QED
      BY <2>1, <2>2, <2>3
  <1> QED
    BY <1>4, <1>7, <1>8, <1>9 DEF n, r

\* erase takes away the element, when it is listed once, and keeps an ordered list in order.
LEMMA RemoveElements ==
    ASSUME NEW S, NEW q \in Seq(S), NEW i \in 1 .. Len(q), IsInjective(q)
    PROVE  /\ RemoveAt(q, i) \in Seq(S)
           /\ ToSet(RemoveAt(q, i)) = ToSet(q) \ {q[i]}
           /\ IsInjective(RemoveAt(q, i))
  <1> DEFINE r == RemoveAt(q, i)
             n == Len(q)
  <1>1. /\ r \in Seq(S) /\ DOMAIN r = 1 .. n - 1
        /\ \A j \in 1 .. i - 1 : r[j] = q[j]
        /\ \A j \in i .. n - 1 : r[j] = q[j + 1]
    BY RemoveFacts
  <1>2. n \in Nat /\ DOMAIN q = 1 .. n /\ i \in Nat /\ i >= 1 /\ i <= n
    OBVIOUS
  <1> HIDE DEF r, n
  <1>3. \A j \in 1 .. n - 1 : \/ j \in 1 .. i - 1 /\ r[j] = q[j]
                              \/ j \in i .. n - 1 /\ j + 1 \in i + 1 .. n /\ r[j] = q[j + 1]
    BY <1>1, <1>2
  <1>4. ToSet(r) = ToSet(q) \ {q[i]}
    <2>1. ASSUME NEW x \in ToSet(r)
          PROVE  x \in ToSet(q) \ {q[i]}
      <3>1. PICK j \in 1 .. n - 1 : x = r[j]
        BY <1>1 DEF ToSet
      <3>2. PICK a \in 1 .. n : x = q[a] /\ a # i
        BY <1>2, <1>3, <3>1
      <3> QED
        BY <1>2, <3>2 DEF ToSet, IsInjective
    <2>2. ASSUME NEW x \in ToSet(q), x # q[i]
          PROVE  x \in ToSet(r)
      <3>1. PICK a \in 1 .. n : x = q[a] /\ a # i
        BY <1>2, <2>2 DEF ToSet
      <3>2. CASE a < i
        <4>1. a \in DOMAIN r /\ r[a] = x
          BY <1>1, <1>2, <3>1, <3>2
        <4> QED
          BY <4>1 DEF ToSet
      <3>3. CASE a > i
        <4>1. a - 1 \in i .. n - 1 /\ (a - 1) + 1 = a
          BY <1>2, <3>1, <3>3
        <4>2. a - 1 \in DOMAIN r /\ r[a - 1] = x
          BY <1>1, <1>2, <3>1, <4>1
        <4> QED
          BY <4>2 DEF ToSet
      <3> QED
        BY <1>2, <3>1, <3>2, <3>3
    <2> QED
      BY <2>1, <2>2
  <1>5. IsInjective(r)
    <2> SUFFICES ASSUME NEW a \in DOMAIN r, NEW b \in DOMAIN r, r[a] = r[b]
                 PROVE  a = b
      BY DEF IsInjective
    <2>1. a \in 1 .. n - 1 /\ b \in 1 .. n - 1
      BY <1>1
    <2>2. \A x, y \in 1 .. n : q[x] = q[y] => x = y
      BY <1>2 DEF IsInjective
    <2>3. CASE a \in 1 .. i - 1 /\ b \in 1 .. i - 1
      BY <1>1, <1>2, <2>2, <2>3
    <2>4. CASE a \in i .. n - 1 /\ b \in i .. n - 1
      <3>1. a + 1 \in 1 .. n /\ b + 1 \in 1 .. n /\ q[a + 1] = q[b + 1]
        BY <1>1, <1>2, <2>4
      <3> QED
        BY <2>1, <2>2, <3>1
    <2>5. CASE a \in 1 .. i - 1 /\ b \in i .. n - 1
      <3>1. a \in 1 .. n /\ b + 1 \in 1 .. n /\ q[a] = q[b + 1]
        BY <1>1, <1>2, <2>5
      <3> QED
        BY <1>2, <2>2, <2>5, <3>1
    <2>6. CASE a \in i .. n - 1 /\ b \in 1 .. i - 1
      <3>1. a + 1 \in 1 .. n /\ b \in 1 .. n /\ q[a + 1] = q[b]
        BY <1>1, <1>2, <2>6
      <3> QED
        BY <1>2, <2>2, <2>6, <3>1
    <2> QED
      BY <1>2, <2>1, <2>3, <2>4, <2>5, <2>6
  <1> QED
    BY <1>1, <1>4, <1>5 DEF r

\* The lists are ordered by layer.
InOrder(q) == \A i, j \in DOMAIN q : i < j => Info[q[i]].layer <= Info[q[j]].layer

\* erase keeps the list in order.
LEMMA RemoveInOrder ==
    ASSUME NEW q \in Seq(Names), NEW i \in 1 .. Len(q), InOrder(q)
    PROVE  InOrder(RemoveAt(q, i))
  <1> DEFINE r == RemoveAt(q, i)
             n == Len(q)
             pos(j) == IF j < i THEN j ELSE j + 1
  <1>1. /\ DOMAIN r = 1 .. n - 1
        /\ \A j \in 1 .. i - 1 : r[j] = q[j]
        /\ \A j \in i .. n - 1 : r[j] = q[j + 1]
    BY RemoveFacts
  <1>2. n \in Nat /\ DOMAIN q = 1 .. n /\ i \in Nat /\ i >= 1 /\ i <= n
    OBVIOUS
  <1> HIDE DEF r, n
  <1>3. \A j \in 1 .. n - 1 : pos(j) \in 1 .. n /\ r[j] = q[pos(j)]
    BY <1>1, <1>2
  <1>4. \A j, k \in 1 .. n - 1 : j < k => pos(j) < pos(k)
    BY <1>2
  <1> HIDE DEF pos
  <1> SUFFICES ASSUME NEW j \in DOMAIN r, NEW k \in DOMAIN r, j < k
               PROVE  Info[r[j]].layer <= Info[r[k]].layer
    BY DEF InOrder, r
  <1>5. /\ pos(j) \in DOMAIN q /\ pos(k) \in DOMAIN q /\ pos(j) < pos(k)
        /\ r[j] = q[pos(j)] /\ r[k] = q[pos(k)]
    BY <1>1, <1>2, <1>3, <1>4
  <1> QED
    BY <1>5 DEF InOrder

\* std::sort rearranges the list, and orders it by layer.
LEMMA SortsFacts ==
    ASSUME NEW q \in Seq(Names), IsInjective(q), NEW s \in Sorts(q)
    PROVE  /\ s \in Seq(Names) /\ ToSet(s) = ToSet(q)
           /\ IsInjective(s) /\ InOrder(s) /\ Len(s) = Len(q)
  <1>1. PICK p \in Orders(q) : s = [i \in DOMAIN q |-> q[p[i]]]
    BY DEF Sorts
  <1>2. ToSet(s) = ToSet(q) /\ InOrder(s)
    BY DEF Sorts, InOrder
  <1>3. Len(q) \in Nat /\ DOMAIN q = 1 .. Len(q) /\ ToSet(q) \subseteq Names
    BY Elements
  <1>4. DOMAIN s = 1 .. Len(q)
    BY <1>1, <1>3
  <1>5. \A i \in DOMAIN s : s[i] \in ToSet(q)
    BY <1>2 DEF ToSet
  <1>6. s \in [1 .. Len(q) -> ToSet(q)]
    BY <1>1, <1>3, <1>4, <1>5
  <1>7. s \in Seq(Names)
    BY <1>3, <1>6
  <1>8. Len(s) = Len(q)
    BY <1>3, <1>4, <1>7
  <1>9. IsInjective(s)
    <2> DEFINE D == 1 .. Len(q)
               T == ToSet(q)
    <2>1. IsFiniteSet(D)
      BY <1>3, FS_Interval
    <2>2. s \in Surjection(D, T)
      <3>1. \A x \in T : \E i \in D : s[i] = x
        BY <1>2, <1>4 DEF ToSet
      <3> QED
        BY <1>6, <3>1 DEF Surjection
    <2>3. q \in [D -> T]
      BY <1>3 DEF ToSet
    <2>4. q \in Surjection(D, T)
      <3>1. \A x \in T : \E i \in D : q[i] = x
        BY <1>3 DEF ToSet
      <3> QED
        BY <2>3, <3>1 DEF Surjection
    <2>5. q \in Injection(D, T)
      BY <2>3 DEF Injection
    <2> HIDE DEF D, T
    <2>6. Cardinality(T) = Cardinality(D)
      BY <2>1, <2>4, <2>5, FS_Surjection
    <2>7. s \in Injection(D, T)
      BY <2>1, <2>2, <2>6, FS_Surjection
    <2> QED
      BY <2>7 DEF Injection
  <1> QED
    BY <1>2, <1>7, <1>8, <1>9

-----------------------------------------------------------------------------
(* The least number of a set, and what is found with it.                    *)

Below == {ss \in Nat \X Nat : ss[1] < ss[2]}

\* A set of numbers has a least one.
LEMMA Least ==
    ASSUME NEW T \in SUBSET Nat, T # {}
    PROVE  \E x \in T : \A y \in T : x <= y
  <1>1. OpToRel(<, Nat) = Below
    BY Zenon DEF OpToRel, Below
  <1>2. IsWellFoundedOn(Below, Nat)
    BY <1>1, NatLessThanWellFounded, Zenon
  <1>3. T \subseteq Nat
    OBVIOUS
  <1>4. PICK x \in T : \A y \in T : ~ (<<y, x>> \in Below)
    BY <1>2, <1>3, WFMin
  <1>5. \A y \in T : ~ (y < x)
    <2> SUFFICES ASSUME NEW y \in T, y < x
                 PROVE  FALSE
      OBVIOUS
    <2>1. <<y, x>> \in Below
      BY DEF Below
    <2> QED
      BY <1>4, <2>1
  <1> QED
    BY <1>3, <1>5

\* The search of DEL finds a position of the list, or none.
LEMMA SelectFacts ==
    ASSUME NEW n \in Nat, NEW I \in SUBSET (1 .. n)
    PROVE  (IF I # {} THEN Min(I) ELSE 0) \in 0 .. n
  <1>1. I \subseteq Nat
    OBVIOUS
  <1>2. CASE I # {}
    <2>1. \E x \in I : \A y \in I : x <= y
      BY <1>1, <1>2, Least
    <2>2. Min(I) \in I
      BY <2>1 DEF Min
    <2>3. 1 .. n \subseteq 0 .. n
      OBVIOUS
    <2>4. Min(I) \in 0 .. n
      BY <2>2, <2>3
    <2> QED
      BY <1>2, <2>4
  <1>3. CASE I = {}
    BY <1>3
  <1> QED
    BY <1>2, <1>3

\* The product of the command line is -1 or the product of a material.
LEMMA FirstProductFacts == FirstProduct \in Int
  <1> DEFINE P == {Info[m].product : m \in Initial} \ {0}
  <1>1. P \subseteq Nat
    BY MaterialsAssumption
  <1>2. CASE P = {}
    BY <1>2 DEF FirstProduct
  <1>3. CASE P # {}
    <2>1. \E p \in P : \A r \in P : p <= r
      BY <1>1, <1>3, Least
    <2>2. FirstProduct = CHOOSE p \in P : \A r \in P : p <= r
      BY <1>3 DEF FirstProduct
    <2>3. FirstProduct \in P
      BY <2>1, <2>2
    <2> QED
      BY <1>1, <2>3
  <1> QED
    BY <1>2, <1>3

\* The materials below static_idx are for all products, and do not change.
LEMMA StaticFacts ==
    ASSUME NEW q \in Seq(Names)
    PROVE  /\ StaticIdx(q) \in 0 .. Len(q)
           /\ \A i \in 1 .. StaticIdx(q) :
                 Info[q[i]].product = 0 /\ Info[q[i]].type \in {"audio", "image"}
  <1> DEFINE Stops(i) == Info[q[i]].product > 0 \/ Info[q[i]].type \in {"main", "video"}
             Good(k) == (\A i \in 1 .. k : ~Stops(i)) /\ (k < Len(q) => Stops(k + 1))
             n == Len(q)
             I == {i \in 1 .. n : Stops(i)}
  <1>1. n \in Nat /\ I \subseteq Nat
    OBVIOUS
  <1>2. \E k \in 0 .. n : Good(k)
    <2>1. CASE I = {}
      <3>1. Good(n)
        BY <1>1, <2>1
      <3> QED
        BY <1>1, <3>1
    <2>2. CASE I # {}
      <3>1. PICK x \in I : \A y \in I : x <= y
        BY <1>1, <2>2, Least
      <3>2. x \in 1 .. n /\ Stops(x)
        BY <3>1
      <3>3. x - 1 \in 0 .. n /\ (x - 1) + 1 = x
        BY <1>1, <3>2
      <3>4. \A i \in 1 .. x - 1 : ~Stops(i)
        <4> SUFFICES ASSUME NEW i \in 1 .. x - 1, Stops(i)
                     PROVE  FALSE
          OBVIOUS
        <4>1. i \in I
          BY <1>1, <3>2
        <4> QED
          BY <3>1, <3>2, <4>1
      <3>5. Good(x - 1)
        BY <3>2, <3>3, <3>4
      <3> QED
        BY <3>3, <3>5
    <2> QED
      BY <2>1, <2>2
  <1>3. StaticIdx(q) = CHOOSE k \in 0 .. n : Good(k)
    BY DEF StaticIdx
  <1>4. StaticIdx(q) \in 0 .. n /\ Good(StaticIdx(q))
    BY <1>2, <1>3
  <1>5. ASSUME NEW i \in 1 .. StaticIdx(q)
        PROVE  Info[q[i]].product = 0 /\ Info[q[i]].type \in {"audio", "image"}
    <2>1. ~Stops(i)
      BY <1>4
    <2>2. i \in 1 .. n
      BY <1>1, <1>4
    <2>3. /\ Info[q[i]].product \in Nat
          /\ Info[q[i]].type \in {"main", "video", "audio", "image"}
      BY <2>2, MaterialsAssumption
    <2> QED
      BY <2>1, <2>3
  <1> QED
    BY <1>4, <1>5

\* The command line as a list.
LEMMA InitialFacts ==
    /\ SetToSeq(Initial) \in Seq(Names) /\ ToSet(SetToSeq(Initial)) = Initial
    /\ IsInjective(SetToSeq(Initial)) /\ Len(SetToSeq(Initial)) = Cardinality(Initial)
  <1> DEFINE n == Cardinality(Initial)
             s == SetToSeq(Initial)
  <1>1. n \in Nat /\ ExistsBijection(1 .. n, Initial)
    BY MaterialsAssumption, FS_CardinalityType
  <1>2. PICK f \in Bijection(1 .. n, Initial) : TRUE
    BY <1>1 DEF ExistsBijection
  <1>3. f \in [1 .. n -> Initial] /\ IsInjective(f)
    BY <1>2 DEF Bijection, Injection
  <1>4. s \in [1 .. n -> Initial] /\ IsInjective(s)
    BY <1>3 DEF SetToSeq
  <1> HIDE DEF n, s
  <1>5. s \in Injection(1 .. n, Initial)
    BY <1>4 DEF Injection
  <1>6. IsFiniteSet(1 .. n) /\ Cardinality(1 .. n) = Cardinality(Initial)
    BY <1>1, FS_Interval DEF n
  <1>7. s \in Surjection(1 .. n, Initial)
    BY <1>5, <1>6, MaterialsAssumption, FS_Injection
  <1>8. ToSet(s) = Initial
    BY <1>4, <1>7 DEF Surjection, ToSet
  <1>9. s \in Seq(Names) /\ Len(s) = n
    BY <1>1, <1>4, MaterialsAssumption
  <1> QED
    BY <1>4, <1>8, <1>9 DEF n, s

-----------------------------------------------------------------------------
(* Commands.                                                                *)

\* A command is not an ADD unless its line was one, and names a material if it is.
LEMMA CommandFacts ==
    ASSUME NEW l \in Lines
    PROVE  /\ Parse(l) \in Commands
           /\ IsAdd(Parse(l)) => l.op = "ADD" /\ Parse(l) = l /\ ~Invalid(l) /\ l.m \in Names
           /\ IsAdd(l) => IsAdd(Parse(l))
  <1>1. Parse(l) \in Commands
    BY DEF Commands
  <1>2. CASE l.op = "MOD"
    BY <1>1, <1>2 DEF Parse, IsAdd
  <1>3. CASE l.op # "MOD"
    <2>1. Parse(l) = l
      BY <1>3 DEF Parse
    <2> QED
      BY <1>1, <2>1, MaterialsAssumption DEF IsAdd
  <1> QED
    BY <1>2, <1>3

\* What a command may hold.
LEMMA CommandTypes ==
    ASSUME NEW c \in Commands
    PROVE  /\ c.op \in {"ADD", "DEL", "SWPROD"}
           /\ c.product \in Int
           /\ IsAdd(c) => c.m \in Names
           /\ c.op = "ADD" => c.m \in Names
  <1>1. PICK l \in Lines : c = Parse(l)
    BY DEF Commands
  <1>2. CASE l.op = "MOD"
    <2>1. c = [op |-> "DEL", product |-> l.product, id |-> l.id]
      BY <1>1, <1>2 DEF Parse
    <2> QED
      BY <2>1, MaterialsAssumption DEF IsAdd
  <1>3. CASE l.op # "MOD"
    <2>1. c = l
      BY <1>1, <1>3 DEF Parse
    <2> QED
      BY <1>3, <2>1, MaterialsAssumption DEF IsAdd
  <1> QED
    BY <1>2, <1>3

\* The materials that the commands of a queue add, by the position of the command.
LEMMA AddsFacts ==
    ASSUME NEW q
    PROVE  /\ \A i \in DOMAIN q : IsAdd(q[i]) => q[i].m \in Adds(q)
           /\ \A x \in Adds(q) : \E i \in DOMAIN q : IsAdd(q[i]) /\ q[i].m = x
  BY DEF Adds, IsAdd

\* An empty queue adds nothing.
LEMMA AddsEmpty == Adds(<< >>) = {} /\ AddOnce(<< >>)
  BY DEF Adds, AddOnce

\* A queued command adds its material to those that wait.
LEMMA AddsPush ==
    ASSUME NEW q \in Seq(Commands), NEW c \in Commands
    PROVE  /\ IsAdd(c) => Adds(Append(q, c)) = Adds(q) \cup {c.m}
           /\ ~IsAdd(c) => Adds(Append(q, c)) = Adds(q)
           /\ AddOnce(q) /\ (IsAdd(c) => c.m \notin Adds(q)) => AddOnce(Append(q, c))
  <1> DEFINE a == Append(q, c)
             n == Len(q)
  <1>1. /\ n \in Nat /\ DOMAIN a = 1 .. n + 1 /\ DOMAIN q = 1 .. n
        /\ \A i \in 1 .. n : a[i] = q[i]
        /\ a[n + 1] = c
    BY PushFacts
  <1> HIDE DEF a, n
  <1>2. \A i \in DOMAIN a : i \in DOMAIN q \/ i = n + 1
    BY <1>1
  <1>3. \A i \in DOMAIN q : i \in DOMAIN a /\ a[i] = q[i] /\ i # n + 1
    BY <1>1
  <1>4. n + 1 \in DOMAIN a
    BY <1>1
  <1>5. ASSUME NEW x \in Adds(a)
        PROVE  x \in Adds(q) \/ (IsAdd(c) /\ x = c.m)
    <2>1. PICK i \in DOMAIN a : IsAdd(a[i]) /\ a[i].m = x
      BY AddsFacts
    <2> QED
      BY <1>1, <1>2, <2>1, AddsFacts
  <1>6. ASSUME NEW x \in Adds(q)
        PROVE  x \in Adds(a)
    BY <1>3, AddsFacts
  <1>7. IsAdd(c) => c.m \in Adds(a)
    BY <1>1, <1>4, AddsFacts
  <1>8. ASSUME AddOnce(q), IsAdd(c) => c.m \notin Adds(q)
        PROVE  AddOnce(a)
    <2> SUFFICES ASSUME NEW i \in DOMAIN a, NEW j \in DOMAIN a,
                        IsAdd(a[i]), IsAdd(a[j]), a[i].m = a[j].m
                 PROVE  i = j
      BY DEF AddOnce
    <2>1. \A x \in DOMAIN q : IsAdd(q[x]) /\ IsAdd(c) => q[x].m # c.m
      BY <1>8, AddsFacts
    <2>2. CASE i \in DOMAIN q /\ j \in DOMAIN q
      BY <1>3, <1>8, <2>2 DEF AddOnce
    <2>3. CASE i \notin DOMAIN q \/ j \notin DOMAIN q
      BY <1>1, <1>2, <1>3, <2>1, <2>3
    <2> QED
      BY <2>2, <2>3
  <1> QED
    BY <1>5, <1>6, <1>7, <1>8 DEF a

\* The main loop takes the first command of its batch.
LEMMA AddsPop ==
    ASSUME NEW q \in Seq(Commands), q # << >>, AddOnce(q)
    PROVE  /\ Head(q) \in Commands /\ Tail(q) \in Seq(Commands) /\ Len(Tail(q)) = Len(q) - 1
           /\ IsAdd(Head(q)) => Head(q).m \in Adds(q) /\ Adds(Tail(q)) = Adds(q) \ {Head(q).m}
           /\ ~IsAdd(Head(q)) => Adds(Tail(q)) = Adds(q)
           /\ AddOnce(Tail(q))
  <1> DEFINE a == Tail(q)
             n == Len(q)
             h == Head(q)
  <1>1. /\ h \in Commands /\ h = q[1] /\ n \in Nat \ {0} /\ a \in Seq(Commands) /\ Len(a) = n - 1
        /\ DOMAIN q = 1 .. n /\ DOMAIN a = 1 .. n - 1
        /\ \A i \in 1 .. n - 1 : a[i] = q[i + 1]
    BY PopFacts
  <1> HIDE DEF a, n, h
  <1>2. \A i \in DOMAIN a : i + 1 \in DOMAIN q /\ a[i] = q[i + 1] /\ i + 1 # 1
    BY <1>1
  <1>3. \A i \in DOMAIN q : i = 1 \/ (i - 1 \in DOMAIN a /\ a[i - 1] = q[i])
    <2> SUFFICES ASSUME NEW i \in DOMAIN q, i # 1
                 PROVE  i - 1 \in DOMAIN a /\ a[i - 1] = q[i]
      OBVIOUS
    <2>1. i - 1 \in 1 .. n - 1 /\ (i - 1) + 1 = i
      BY <1>1
    <2> QED
      BY <1>1, <2>1
  <1>4. 1 \in DOMAIN q
    BY <1>1
  <1>5. \A i, j \in DOMAIN q : IsAdd(q[i]) /\ IsAdd(q[j]) /\ q[i].m = q[j].m => i = j
    BY DEF AddOnce
  <1>6. ASSUME NEW x \in Adds(a)
        PROVE  x \in Adds(q) /\ (IsAdd(h) => x # h.m)
    <2>1. PICK i \in DOMAIN a : IsAdd(a[i]) /\ a[i].m = x
      BY AddsFacts
    <2>2. i + 1 \in DOMAIN q /\ IsAdd(q[i + 1]) /\ q[i + 1].m = x /\ i + 1 # 1
      BY <1>2, <2>1
    <2>3. x \in Adds(q)
      BY <2>2, AddsFacts
    <2> QED
      BY <1>1, <1>4, <1>5, <2>2, <2>3
  <1>7. ASSUME NEW x \in Adds(q), IsAdd(h) => x # h.m
        PROVE  x \in Adds(a)
    <2>1. PICK i \in DOMAIN q : IsAdd(q[i]) /\ q[i].m = x
      BY AddsFacts
    <2>2. i # 1
      BY <1>1, <1>7, <2>1
    <2> QED
      BY <1>3, <2>1, <2>2, AddsFacts
  <1>8. IsAdd(h) => h.m \in Adds(q)
    BY <1>1, <1>4, AddsFacts
  <1>9. AddOnce(a)
    <2> SUFFICES ASSUME NEW i \in DOMAIN a, NEW j \in DOMAIN a,
                        IsAdd(a[i]), IsAdd(a[j]), a[i].m = a[j].m
                 PROVE  i = j
      BY DEF AddOnce
    <2>1. i + 1 = j + 1
      BY <1>2, <1>5
    <2> QED
      BY <1>1, <2>1
  <1> QED
    BY <1>1, <1>6, <1>7, <1>8, <1>9 DEF a, n, h

-----------------------------------------------------------------------------
(* Threads.                                                                 *)

\* One thread of the list of threads goes on, the others stay.
LEMMA Update ==
    ASSUME NEW S, NEW q \in Seq(S), NEW t \in DOMAIN q, NEW e \in S,
           NEW r, r = [q EXCEPT ![t] = e]
    PROVE  /\ r \in Seq(S) /\ Len(r) = Len(q) /\ DOMAIN r = DOMAIN q
           /\ r[t] = e
           /\ \A u \in DOMAIN q : u # t => r[u] = q[u]
  OBVIOUS

\* What a thread keeps.
LEMMA OpenerFacts ==
    ASSUME TypeOK, NEW t \in DOMAIN openers
    PROVE  /\ openers \in Seq(Opener) /\ openers[t] \in Opener
           /\ openers[t].ms \in Seq(Names) /\ openers[t].product \in Int
           /\ openers[t].pc \in {"open", "put", "done"}
           /\ openers[t].k \in 1 .. MaxLines + 1 /\ openers[t].old = 0
           /\ Len(openers[t].ms) \in Nat /\ DOMAIN openers[t].ms = 1 .. Len(openers[t].ms)
           /\ t \in Nat \ {0} /\ t <= Len(openers) /\ DOMAIN openers = 1 .. Len(openers)
  <1>1. openers \in Seq(Opener)
    BY DEF TypeOK
  <1>2. openers[t] \in Opener /\ DOMAIN openers = 1 .. Len(openers) /\ Len(openers) \in Nat
    BY <1>1
  <1>3. /\ openers[t].ms \in Seq(Names) /\ openers[t].product \in Int
        /\ openers[t].pc \in {"open", "put", "done"}
        /\ openers[t].k \in 1 .. MaxLines + 1 /\ openers[t].old = 0
    BY <1>2 DEF Opener
  <1> QED
    BY <1>1, <1>2, <1>3

\* A thread that opens goes to the next material, closes its batch or has all of it
\* open; a thread that is done with that tries the mailbox.
OpenerStep(t, pc, k) ==
    /\ openers' \in Seq(Opener) /\ Len(openers') = Len(openers)
    /\ DOMAIN openers' = DOMAIN openers
    /\ openers'[t].ms = openers[t].ms /\ openers'[t].product = openers[t].product
    /\ openers'[t].pc = pc /\ openers'[t].k = k
    /\ \A u \in DOMAIN openers : u # t => openers'[u] = openers[u]

\* OpenNext moves the thread to the next material of its batch.
LEMMA OpenNextFacts ==
    ASSUME TypeOK, CountInv, NEW t \in DOMAIN openers, OpenNext(t)
    PROVE  OpenerStep(t, "open", openers[t].k + 1) /\ openers[t].pc = "open"
  <1> DEFINE e == [openers[t] EXCEPT !.k = openers[t].k + 1]
  <1>1. openers' = [openers EXCEPT ![t] = e] /\ openers[t].pc = "open"
    BY DEF OpenNext
  <1>2. openers[t].k + 1 \in 1 .. MaxLines + 1
    <2>1. openers[t].k <= Len(openers[t].ms) /\ Len(openers[t].ms) <= MaxLines
      BY DEF OpenNext, CountInv
    <2> QED
      BY <2>1, OpenerFacts, MaterialsAssumption, SMTT(30)
  <1>3. e \in Opener
    BY <1>2, OpenerFacts DEF Opener
  <1>4. /\ e.ms = openers[t].ms /\ e.product = openers[t].product
        /\ e.pc = openers[t].pc /\ e.k = openers[t].k + 1
    BY OpenerFacts DEF Opener
  <1> HIDE DEF e
  <1>5. openers \in Seq(Opener)
    BY DEF TypeOK
  <1>6. /\ openers' \in Seq(Opener) /\ Len(openers') = Len(openers)
        /\ DOMAIN openers' = DOMAIN openers /\ openers'[t] = e
        /\ \A u \in DOMAIN openers : u # t => openers'[u] = openers[u]
    BY <1>1, <1>3, <1>5, Update
  <1> QED
    BY <1>1, <1>4, <1>6 DEF OpenerStep

\* OpenFail, OpenDone and Put change where the thread is.
LEMMA OpenerGoto ==
    ASSUME TypeOK, NEW t \in DOMAIN openers, NEW p \in {"open", "put", "done"},
           openers' = [openers EXCEPT ![t].pc = p]
    PROVE  OpenerStep(t, p, openers[t].k)
  <1> DEFINE e == [openers[t] EXCEPT !.pc = p]
  <1>1. openers' = [openers EXCEPT ![t] = e]
    OBVIOUS
  <1>2. e \in Opener
    BY OpenerFacts DEF Opener
  <1>3. /\ e.ms = openers[t].ms /\ e.product = openers[t].product
        /\ e.pc = p /\ e.k = openers[t].k
    BY OpenerFacts DEF Opener
  <1> HIDE DEF e
  <1>4. openers \in Seq(Opener)
    BY DEF TypeOK
  <1>5. /\ openers' \in Seq(Opener) /\ Len(openers') = Len(openers)
        /\ DOMAIN openers' = DOMAIN openers /\ openers'[t] = e
        /\ \A u \in DOMAIN openers : u # t => openers'[u] = openers[u]
    BY <1>1, <1>2, <1>4, Update
  <1> QED
    BY <1>3, <1>5 DEF OpenerStep

\* A failed exchange of the mailbox leaves the thread where it is.
LEMMA OpenerRetry ==
    ASSUME TypeOK, NEW t \in DOMAIN openers, openers' = [openers EXCEPT ![t].old = 0]
    PROVE  openers' = openers
  <1>1. openers[t] = [openers[t] EXCEPT !.old = 0]
    BY OpenerFacts DEF Opener
  <1>2. openers \in Seq(Opener)
    BY DEF TypeOK
  <1>3. openers = [openers EXCEPT ![t] = openers[t]]
    BY <1>2
  <1> QED
    BY <1>1, <1>3

\* What the thread of Put, the threads of OpenFail and of OpenDone do.
LEMMA OpenerMoves ==
    ASSUME TypeOK, NEW t \in DOMAIN openers
    PROVE  /\ OpenFail(t) => OpenerStep(t, "done", openers[t].k) /\ openers[t].pc = "open"
           /\ OpenDone(t) => OpenerStep(t, "put", openers[t].k) /\ openers[t].pc = "open"
           /\ Put(t) => \/ /\ OpenerStep(t, "done", openers[t].k) /\ openers[t].pc = "put"
                           /\ pmlist = 0 /\ pmlist' = t
                        \/ openers' = openers /\ pmlist' = pmlist
  <1>1. ASSUME OpenFail(t)
        PROVE  OpenerStep(t, "done", openers[t].k) /\ openers[t].pc = "open"
    <2>1. openers' = [openers EXCEPT ![t].pc = "done"] /\ openers[t].pc = "open"
      BY <1>1 DEF OpenFail
    <2> QED
      BY <2>1, OpenerGoto
  <1>2. ASSUME OpenDone(t)
        PROVE  OpenerStep(t, "put", openers[t].k) /\ openers[t].pc = "open"
    <2>1. openers' = [openers EXCEPT ![t].pc = "put"] /\ openers[t].pc = "open"
      BY <1>2 DEF OpenDone
    <2> QED
      BY <2>1, OpenerGoto
  <1>3. ASSUME Put(t)
        PROVE  \/ /\ OpenerStep(t, "done", openers[t].k) /\ openers[t].pc = "put"
                  /\ pmlist = 0 /\ pmlist' = t
               \/ openers' = openers /\ pmlist' = pmlist
    <2>1. openers[t].old = 0
      BY OpenerFacts
    <2>2. CASE pmlist = 0
      <3>1. openers' = [openers EXCEPT ![t].pc = "done"] /\ openers[t].pc = "put" /\ pmlist' = t
        BY <1>3, <2>1, <2>2 DEF Put
      <3> QED
        BY <2>2, <3>1, OpenerGoto
    <2>3. CASE pmlist # 0
      <3>1. openers' = [openers EXCEPT ![t].old = 0] /\ pmlist' = pmlist
        BY <1>3, <2>1, <2>3 DEF Put
      <3> QED
        BY <3>1, OpenerRetry
    <2> QED
      BY <2>2, <2>3
  <1> QED
    BY <1>1, <1>2, <1>3

\* The materials that are being opened.
LEMMA HeldFacts ==
    ASSUME TypeOK
    PROVE  /\ \A t \in DOMAIN openers : Held(t) \subseteq Names
           /\ \A t \in DOMAIN openers : Active(t) => Held(t) = ToSet(openers[t].ms)
           /\ \A t \in DOMAIN openers : ~Active(t) => Held(t) = {}
           /\ InFlight \subseteq Names
           /\ \A x : x \in InFlight <=> \E t \in DOMAIN openers : x \in Held(t)
  <1>1. \A t \in DOMAIN openers : ToSet(openers[t].ms) \subseteq Names
    BY OpenerFacts, Elements
  <1>2. /\ \A t \in DOMAIN openers : Active(t) => Held(t) = ToSet(openers[t].ms)
        /\ \A t \in DOMAIN openers : ~Active(t) => Held(t) = {}
    BY DEF Active, Held
  <1>3. \A t \in DOMAIN openers : Held(t) \subseteq Names
    BY <1>1, <1>2
  <1>4. \A x : x \in InFlight <=> \E t \in DOMAIN openers : x \in Held(t)
    BY DEF InFlight
  <1> QED
    BY <1>2, <1>3, <1>4

-----------------------------------------------------------------------------
(* What the actions do to the variables.                                    *)

\* The values a decoder may have.
Decoders == {"none", "playing", "stopped", "exited"}

\* A switch visits the listed materials only.
LEMMA SwitchFacts ==
    ASSUME TypeOK, NEW p \in Int, Switch(p)
    PROVE  /\ product_id' = p /\ decoder' \in [Names -> Decoders]
           /\ raced' = raced \cup Unseen /\ raced' \subseteq Names
           /\ \A m \in Names : m \notin ToSet(mlist) => decoder'[m] = decoder[m]
           /\ \A m \in ToSet(mlist) :
                 /\ decoder'[m] \in {"playing", "stopped", decoder[m]}
                 /\ HasDecoder(m) /\ Info[m].product # 0 =>
                       /\ Info[m].product = product_id => decoder'[m] = "stopped"
                       /\ Info[m].product = p /\ p # product_id => decoder'[m] = "playing"
                 /\ Info[m].product \in {0} \/ Info[m].product \notin {product_id, p} =>
                       decoder'[m] = decoder[m]
  <1>1. decoder \in [Names -> Decoders] /\ raced \subseteq Names
    BY DEF TypeOK, Decoders
  <1>2. ToSet(mlist) \subseteq Names
    BY Elements DEF TypeOK
  <1>3. \A m \in Names : decoder'[m] =
          IF m \notin ToSet(mlist) \/ ~HasDecoder(m) \/ Info[m].product = 0 THEN decoder[m]
          ELSE IF Info[m].product = product_id THEN "stopped"
          ELSE IF Info[m].product = p THEN "playing"
          ELSE decoder[m]
    BY DEF Switch
  <1>4. DOMAIN decoder' = Names /\ product_id' = p /\ raced' = raced \cup Unseen
    BY DEF Switch
  <1>5. \A m \in Names : decoder'[m] \in {"playing", "stopped", decoder[m]}
    BY <1>3
  <1>6. decoder' \in [Names -> Decoders]
    <2>1. decoder' = [m \in Names |-> decoder'[m]]
      BY DEF Switch
    <2>2. \A m \in Names : decoder'[m] \in Decoders
      BY <1>1, <1>5 DEF Decoders
    <2> QED
      BY <2>1, <2>2
  <1>7. Unseen \subseteq Names
    BY <1>2, HeldFacts DEF Unseen
  <1> QED
    BY <1>1, <1>2, <1>3, <1>4, <1>5, <1>6, <1>7

\* A command or the main material switches to another product, or does not.
MaySwitch ==
    \/ \E p \in Int : p # product_id /\ Switch(p)
    \/ UNCHANGED <<product_id, decoder, raced>>

\* The first command of the batch is done.
TakesCommand == cmds # << >> /\ cmds' = Tail(cmds)

\* What the two actions that switch do.
LEMMA SwitchActions ==
    ASSUME TypeOK
    PROVE  /\ SWPROD => /\ MaySwitch /\ TakesCommand /\ Head(cmds).op = "SWPROD"
                        /\ UNCHANGED <<cmdQueue, mpc, new_mlist, mlist, drawn, fixed, openers,
                                       pmlist, sent, lines, gone, told>>
                        /\ mpc = "cmds"
           /\ MainFrame => /\ MaySwitch /\ mpc = "frame" /\ mpc' = "draw"
                           /\ UNCHANGED <<cmdQueue, cmds, new_mlist, mlist, drawn, fixed, openers,
                                          pmlist, sent, lines, gone, told>>
  <1>1. ASSUME SWPROD
        PROVE  /\ MaySwitch /\ TakesCommand /\ Head(cmds).op = "SWPROD"
               /\ UNCHANGED <<cmdQueue, mpc, new_mlist, mlist, drawn, fixed, openers,
                              pmlist, sent, lines, gone, told>>
               /\ mpc = "cmds"
    <2>1. TakesCommand /\ Head(cmds).op = "SWPROD" /\ mpc = "cmds"
      BY <1>1 DEF SWPROD, Command, TakesCommand
    <2>2. Head(cmds).product \in Int
      <3>1. Head(cmds) \in Commands
        BY <2>1, PopFacts DEF TakesCommand, TypeOK
      <3> QED
        BY <3>1, CommandTypes
    <2>3. MaySwitch
      BY <1>1, <2>2 DEF SWPROD, MaySwitch
    <2> QED
      BY <1>1, <2>1, <2>3 DEF SWPROD
  <1>2. ASSUME MainFrame
        PROVE  /\ MaySwitch /\ mpc = "frame" /\ mpc' = "draw"
               /\ UNCHANGED <<cmdQueue, cmds, new_mlist, mlist, drawn, fixed, openers,
                              pmlist, sent, lines, gone, told>>
    <2>1. MainProducts \cup {0} \subseteq Int
      BY MaterialsAssumption
    <2>2. MaySwitch
      BY <1>2, <2>1 DEF MainFrame, MaySwitch
    <2> QED
      BY <1>2, <2>2 DEF MainFrame
  <1> QED
    BY <1>1, <1>2

\* Whether it switches or not, the types are kept.
LEMMA MaySwitchTypes ==
    ASSUME TypeOK, MaySwitch
    PROVE  /\ product_id' \in Int /\ decoder' \in [Names -> Decoders]
           /\ raced' \subseteq Names /\ raced \subseteq raced'
  <1>1. ASSUME NEW p \in Int, Switch(p)
        PROVE  /\ product_id' \in Int /\ decoder' \in [Names -> Decoders]
               /\ raced' \subseteq Names /\ raced \subseteq raced'
    BY <1>1, SwitchFacts
  <1>2. ASSUME UNCHANGED <<product_id, decoder, raced>>
        PROVE  /\ product_id' \in Int /\ decoder' \in [Names -> Decoders]
               /\ raced' \subseteq Names /\ raced \subseteq raced'
    BY <1>2 DEF TypeOK, Decoders
  <1> QED
    BY <1>1, <1>2 DEF MaySwitch

\* DEL takes a material out of the list, and closes it, or finds none to delete.
Deletes(i) ==
    /\ i \in 1 .. Len(mlist)
    /\ decoder' = close_material(decoder, {mlist[i]})
    /\ gone' = gone \cup {mlist[i]}
    /\ mlist' = RemoveAt(mlist, i)

\* DEL takes a command, and one material at most.
LEMMA DelFacts ==
    ASSUME TypeOK, DEL
    PROVE  /\ TakesCommand /\ Head(cmds).op = "DEL" /\ mpc = "cmds"
           /\ (\E i \in 1 .. Len(mlist) : Deletes(i)) \/ UNCHANGED <<mlist, decoder, gone>>
           /\ UNCHANGED <<cmdQueue, mpc, new_mlist, product_id, drawn, fixed, openers, pmlist, sent,
                          lines, told, raced>>
  <1>1. TakesCommand /\ Head(cmds).op = "DEL" /\ mpc = "cmds"
    BY DEF DEL, Command, TakesCommand
  <1>2. UNCHANGED <<cmdQueue, mpc, new_mlist, product_id, drawn, fixed, openers, pmlist, sent,
                    lines, told, raced>>
    BY DEF DEL
  <1> DEFINE c == Head(cmds)
             i == SelectInSeq(mlist, LAMBDA m : Matches(c, m))
  <1>3. mlist \in Seq(Names) /\ Len(mlist) \in Nat
    BY DEF TypeOK
  <1>4. i \in 0 .. Len(mlist)
    <2> DEFINE I == {j \in 1 .. Len(mlist) : Matches(c, mlist[j])}
    <2>1. i = IF I # {} THEN Min(I) ELSE 0
      BY DEF SelectInSeq
    <2>2. I \in SUBSET (1 .. Len(mlist))
      OBVIOUS
    <2> HIDE DEF I, i
    <2> QED
      BY <1>3, <2>1, <2>2, SelectFacts
  <1>5. IF i > 0 /\ Info[mlist[i]].type # "main"
        THEN /\ decoder' = close_material(decoder, {mlist[i]})
             /\ gone' = gone \cup {mlist[i]}
             /\ mlist' = RemoveAt(mlist, i)
        ELSE UNCHANGED <<mlist, decoder, gone>>
    BY DEF DEL
  <1> HIDE DEF i
  <1>6. CASE i > 0 /\ Info[mlist[i]].type # "main"
    <2>1. i \in 1 .. Len(mlist)
      BY <1>3, <1>4, <1>6
    <2>2. Deletes(i)
      BY <1>5, <1>6, <2>1 DEF Deletes
    <2> QED
      BY <1>1, <1>2, <2>1, <2>2
  <1>7. CASE ~(i > 0 /\ Info[mlist[i]].type # "main")
    BY <1>1, <1>2, <1>5, <1>7
  <1> QED
    BY <1>6, <1>7

\* close_material ends the decoders of the given materials and of no other.
LEMMA CloseFacts ==
    ASSUME NEW d \in [Names -> Decoders], NEW S
    PROVE  /\ close_material(d, S) \in [Names -> Decoders]
           /\ \A m \in Names : m \notin S => close_material(d, S)[m] = d[m]
           /\ \A m \in Names : m \in S => close_material(d, S)[m] \in {"none", "exited"}
           /\ \A m \in Names : d[m] = "none" => close_material(d, S)[m] = "none"
           /\ \A m \in Names : close_material(d, S)[m] \in {"playing", "stopped"} =>
                 m \notin S /\ close_material(d, S)[m] = d[m]
           /\ \A m \in Names : close_material(d, S)[m] = "exited" => m \in S \/ d[m] = "exited"
  <1> DEFINE c == close_material(d, S)
  <1>1. c = [m \in Names |-> IF m \in S /\ d[m] \in {"playing", "stopped"} THEN "exited" ELSE d[m]]
    BY DEF close_material
  <1> HIDE DEF c
  <1>2. \A m \in Names :
           c[m] = IF m \in S /\ d[m] \in {"playing", "stopped"} THEN "exited" ELSE d[m]
    BY <1>1
  <1>3. \A m \in Names : d[m] \in {"none", "playing", "stopped", "exited"}
    BY DEF Decoders
  <1>4. \A m \in Names : c[m] \in Decoders
    BY <1>2, <1>3 DEF Decoders
  <1>5. c \in [Names -> Decoders]
    BY <1>1, <1>4
  <1> QED
    BY <1>2, <1>3, <1>5 DEF c

\* What the opening of a material leaves its decoder in.
LEMMA OpenedFacts ==
    ASSUME NEW m, NEW p
    PROVE  OpenedDecoder(m, p) \in {"none", "playing", "stopped"}
  BY DEF OpenedDecoder

\* check_open_materials appends the batch of the mailbox to the list and sorts it.
LEMMA CheckFacts ==
    ASSUME TypeOK, QueueInv, HeldInv, PlaceInv, check_open_materials
    PROVE  /\ mlist' \in Seq(Names) /\ IsInjective(mlist') /\ pmlist' = 0
           /\ mpc = "check" /\ mpc' = "frame"
           /\ pmlist = 0 => mlist' = mlist
           /\ pmlist # 0 => /\ pmlist \in DOMAIN openers /\ InOrder(mlist')
                            /\ ToSet(mlist') = ToSet(mlist) \cup Held(pmlist)
                            /\ Held(pmlist) = ToSet(openers[pmlist].ms)
  <1>1. mpc = "check" /\ mpc' = "frame"
    BY DEF check_open_materials
  <1>2. mlist \in Seq(Names) /\ IsInjective(mlist)
    BY DEF TypeOK, QueueInv
  <1>3. CASE pmlist = 0
    BY <1>1, <1>2, <1>3 DEF check_open_materials
  <1>4. CASE pmlist # 0
    <2>1. pmlist \in DOMAIN openers
      <3>1. pmlist \in 0 .. Len(openers) /\ openers \in Seq(Opener)
        BY DEF TypeOK
      <3> QED
        BY <1>4, <3>1
    <2> DEFINE ms == openers[pmlist].ms
    <2>2. ms \in Seq(Names) /\ IsInjective(ms)
      BY <2>1, OpenerFacts DEF QueueInv
    <2>3. Held(pmlist) = ToSet(ms)
      BY <2>1, HeldFacts DEF Active
    <2>4. mlist' \in Sorts(mlist \o ms) /\ pmlist' = 0
      BY <1>4 DEF check_open_materials
    <2> HIDE DEF ms
    <2>5. ToSet(mlist) \cap ToSet(ms) = {}
      <3>1. ToSet(ms) \subseteq InFlight
        BY <2>1, <2>3, HeldFacts
      <3>2. ToSet(mlist) \subseteq Names
        BY <1>2, Elements
      <3> QED
        BY <3>1, <3>2 DEF PlaceInv
    <2>6. /\ mlist \o ms \in Seq(Names) /\ IsInjective(mlist \o ms)
          /\ ToSet(mlist \o ms) = ToSet(mlist) \cup ToSet(ms)
      BY <1>2, <2>2, <2>5, CatFacts, CatElements
    <2> DEFINE q == mlist \o ms
    <2> HIDE DEF q
    <2>7. q \in Seq(Names) /\ IsInjective(q) /\ mlist' \in Sorts(q)
      BY <2>4, <2>6 DEF q
    <2>8. mlist' \in Seq(Names) /\ ToSet(mlist') = ToSet(q) /\ IsInjective(mlist') /\ InOrder(mlist')
      BY <2>7, SortsFacts
    <2> QED
      BY <1>1, <1>4, <2>1, <2>3, <2>4, <2>6, <2>8 DEF q, ms
  <1> QED
    BY <1>3, <1>4

\* Every step keeps the types of the variables.
LEMMA TypeStep ==
    ASSUME TypeOK, CountInv, QueueInv, HeldInv, PlaceInv, [Next]_vars
    PROVE  TypeOK'
  <1>1. ASSUME NEW l \in Lines, StreamCmd(l)
        PROVE  TypeOK'
    <2>1. cmdQueue \in Seq(Commands) /\ sent \in 0 .. MaxLines /\ lines \subseteq Lines
      BY DEF TypeOK
    <2>2. /\ sent < MaxLines /\ sent' = sent + 1 /\ lines' = lines \cup {l}
          /\ cmdQueue' = Append(cmdQueue, Parse(l))
      BY <1>1 DEF StreamCmd
    <2>3. cmdQueue' \in Seq(Commands)
      BY <2>1, <2>2, CommandFacts, PushFacts
    <2>4. sent' \in 0 .. MaxLines /\ lines' \subseteq Lines
      BY <2>1, <2>2, MaterialsAssumption
    <2>5. UNCHANGED <<mpc, cmds, new_mlist, mlist, product_id, drawn, static_idx, background,
       openers, pmlist, decoder, gone, told, raced>>
      BY <1>1 DEF StreamCmd, mainvars, fixed, history
    <2> QED
      BY <2>3, <2>4, <2>5 DEF TypeOK, Decoders
  <1>2. CASE get_stream_cmds
    <2>1. cmds' = cmdQueue /\ cmdQueue' = << >> /\ mpc' = "cmds" /\ drawn' = {}
      BY <1>2 DEF get_stream_cmds
    <2>2. << >> \in Seq(Commands)
      BY EmptyFacts
    <2>3. UNCHANGED <<new_mlist, mlist, product_id, static_idx, background, openers, pmlist,
       decoder, sent, lines, gone, told, raced>>
      BY <1>2 DEF get_stream_cmds, mainvars, fixed, history
    <2> QED
      BY <2>1, <2>2, <2>3 DEF TypeOK, Decoders
  <1>3. CASE Skip
    <2>1. TakesCommand
      BY <1>3 DEF Skip, TakesCommand
    <2>2. cmds \in Seq(Commands)
      BY DEF TypeOK
    <2>3. cmds' \in Seq(Commands) /\ Head(cmds) \in Commands
      BY <2>1, <2>2, PopFacts DEF TakesCommand
    <2>4. UNCHANGED <<cmdQueue, mpc, new_mlist, mlist, product_id, drawn, static_idx,
       background, openers, pmlist, decoder, sent, lines, gone, told, raced>>
      BY <1>3 DEF Skip, fixed, history
    <2> QED
      BY <2>3, <2>4 DEF TypeOK, Decoders
  <1>4. CASE ADD
    <2>1. TakesCommand
      BY <1>4 DEF ADD, Command, TakesCommand
    <2>2. cmds \in Seq(Commands)
      BY DEF TypeOK
    <2>3. cmds' \in Seq(Commands) /\ Head(cmds) \in Commands
      BY <2>1, <2>2, PopFacts DEF TakesCommand
    <2>4. new_mlist \in Seq(Names) /\ new_mlist' = Append(new_mlist, Head(cmds).m)
      BY <1>4 DEF ADD, TypeOK
    <2>5. Head(cmds).m \in Names
      BY <1>4, <2>3, CommandTypes DEF ADD, Command
    <2>6. new_mlist' \in Seq(Names)
      BY <2>4, <2>5, PushFacts
    <2>7. UNCHANGED <<cmdQueue, mpc, mlist, product_id, drawn, static_idx, background, openers,
       pmlist, decoder, sent, lines, gone, told, raced>>
      BY <1>4 DEF ADD, fixed, history
    <2> QED
      BY <2>3, <2>6, <2>7 DEF TypeOK, Decoders
  <1>5. CASE DEL
    <2>1. TakesCommand
      BY <1>5, DelFacts DEF TakesCommand
    <2>2. cmds \in Seq(Commands)
      BY DEF TypeOK
    <2>3. cmds' \in Seq(Commands) /\ Head(cmds) \in Commands
      BY <2>1, <2>2, PopFacts DEF TakesCommand
    <2>4. /\ mlist \in Seq(Names) /\ decoder \in [Names -> Decoders] /\ gone \subseteq Names
          /\ IsInjective(mlist)
      BY DEF TypeOK, Decoders, QueueInv
    <2>5. ASSUME NEW i \in 1 .. Len(mlist), Deletes(i)
          PROVE  mlist' \in Seq(Names) /\ decoder' \in [Names -> Decoders] /\ gone' \subseteq Names
      <3>1. mlist' \in Seq(Names)
        BY <2>4, <2>5, RemoveElements DEF Deletes
      <3>2. decoder' \in [Names -> Decoders]
        BY <2>4, <2>5, CloseFacts DEF Deletes
      <3>3. mlist[i] \in Names
        BY <2>4, Elements
      <3> QED
        BY <2>4, <2>5, <3>1, <3>2, <3>3 DEF Deletes
    <2>6. mlist' \in Seq(Names) /\ decoder' \in [Names -> Decoders] /\ gone' \subseteq Names
      BY <1>5, <2>4, <2>5, DelFacts
    <2>7. UNCHANGED <<cmdQueue, mpc, new_mlist, product_id, drawn, static_idx, background,
       openers, pmlist, sent, lines, told, raced>>
      BY <1>5, DelFacts DEF fixed
    <2> QED
      BY <2>3, <2>6, <2>7 DEF TypeOK, Decoders
  <1>6. CASE SWPROD
    <2>1. TakesCommand
      BY <1>6, SwitchActions DEF TakesCommand
    <2>2. cmds \in Seq(Commands)
      BY DEF TypeOK
    <2>3. cmds' \in Seq(Commands) /\ Head(cmds) \in Commands
      BY <2>1, <2>2, PopFacts DEF TakesCommand
    <2>4. /\ product_id' \in Int /\ decoder' \in [Names -> Decoders] /\ raced' \subseteq Names
      BY <1>6, SwitchActions, MaySwitchTypes
    <2>5. UNCHANGED <<cmdQueue, mpc, new_mlist, mlist, drawn, static_idx, background, openers,
       pmlist, sent, lines, gone, told>>
      BY <1>6, SwitchActions DEF fixed
    <2> QED
      BY <2>3, <2>4, <2>5 DEF TypeOK, Decoders
  <1>7. CASE submit_open_materials
    <2>1. /\ openers \in Seq(Opener) /\ new_mlist \in Seq(Names) /\ product_id \in Int
          /\ pmlist \in 0 .. Len(openers)
      BY DEF TypeOK
    <2> DEFINE e == [ms |-> new_mlist, product |-> product_id, pc |-> "open", k |-> 1, old |-> 0]
    <2>2. e \in Opener
      BY <2>1, MaterialsAssumption DEF Opener
    <2>3. /\ openers' = openers \/ openers' = Append(openers, e)
          /\ new_mlist' = << >> /\ mpc' = "check"
      BY <1>7 DEF submit_open_materials
    <2> HIDE DEF e
    <2>4. openers' \in Seq(Opener) /\ Len(openers') \in {Len(openers), Len(openers) + 1}
      BY <2>1, <2>2, <2>3, PushFacts
    <2>5. << >> \in Seq(Names)
      BY EmptyFacts
    <2>6. UNCHANGED pmlist
      BY <1>7 DEF submit_open_materials
    <2>7. pmlist' \in 0 .. Len(openers')
      BY <2>1, <2>4, <2>6
    <2>8. UNCHANGED <<cmdQueue, cmds, mlist, product_id, drawn, static_idx, background, pmlist,
       decoder, sent, lines, gone, told, raced>>
      BY <1>7 DEF submit_open_materials, mainvars, fixed, history
    <2> QED
      BY <2>3, <2>4, <2>5, <2>7, <2>8 DEF TypeOK, Decoders
  <1>8. CASE check_open_materials
    <2>1. /\ mlist \in Seq(Names) /\ pmlist \in 0 .. Len(openers)
          /\ openers \in Seq(Opener) /\ UNCHANGED openers
      BY <1>8 DEF TypeOK, check_open_materials
    <2>2. mlist' \in Seq(Names) /\ pmlist' \in 0 .. Len(openers)
      BY <1>8, <2>1, CheckFacts
    <2>3. mpc' = "frame"
      BY <1>8 DEF check_open_materials
    <2>4. UNCHANGED <<cmdQueue, cmds, new_mlist, product_id, drawn, static_idx, background,
       openers, decoder, sent, lines, gone, told, raced>>
      BY <1>8 DEF check_open_materials, mainvars, fixed, history
    <2> QED
      BY <2>1, <2>2, <2>3, <2>4 DEF TypeOK, Decoders
  <1>9. CASE NoMainFrame
    <2>1. mpc' = "top"
      BY <1>9 DEF NoMainFrame
    <2>2. UNCHANGED <<cmdQueue, cmds, new_mlist, mlist, product_id, drawn, static_idx,
       background, openers, pmlist, decoder, sent, lines, gone, told, raced>>
      BY <1>9 DEF NoMainFrame, mainvars, fixed, history
    <2> QED
      BY <2>1, <2>2 DEF TypeOK, Decoders
  <1>10. CASE MainFrame
    <2>1. mpc' = "draw"
      BY <1>10, SwitchActions
    <2>2. product_id' \in Int /\ decoder' \in [Names -> Decoders] /\ raced' \subseteq Names
      BY <1>10, SwitchActions, MaySwitchTypes
    <2>3. UNCHANGED <<cmdQueue, cmds, new_mlist, mlist, drawn, static_idx, background, openers,
       pmlist, sent, lines, gone, told>>
      BY <1>10, SwitchActions DEF fixed
    <2> QED
      BY <2>1, <2>2, <2>3 DEF TypeOK, Decoders
  <1>11. CASE Draw
    <2>1. mpc' = "top"
      BY <1>11 DEF Draw
    <2>2. mlist \in Seq(Names) /\ background \in Seq(Names) /\ static_idx \in Nat
      BY DEF TypeOK
    <2>3. ToSet(background) \subseteq Names
      BY <2>2, Elements
    <2>4. {mlist[i] : i \in static_idx + 1 .. Len(mlist)} \subseteq Names
      BY <2>2
    <2>5. drawn' \subseteq Names
      BY <1>11, <2>3, <2>4 DEF Draw
    <2>6. UNCHANGED <<cmdQueue, cmds, new_mlist, mlist, product_id, static_idx, background,
       openers, pmlist, decoder, sent, lines, gone, told, raced>>
      BY <1>11 DEF Draw, mainvars, fixed, history
    <2> QED
      BY <2>1, <2>5, <2>6 DEF TypeOK, Decoders
  <1>12. ASSUME NEW t \in DOMAIN openers, OpenNext(t)
        PROVE  TypeOK'
    <2>1. openers' \in Seq(Opener) /\ Len(openers') = Len(openers)
      BY <1>12, OpenNextFacts DEF OpenerStep
    <2>2. pmlist \in 0 .. Len(openers) /\ UNCHANGED pmlist
      BY <1>12 DEF TypeOK, OpenNext
    <2>3. openers[t].ms \in Seq(Names) /\ ToSet(openers[t].ms) \subseteq Names
      BY OpenerFacts, Elements
    <2>4. decoder \in [Names -> Decoders]
      BY DEF TypeOK, Decoders
    <2>5. \E d \in Decoders, x \in Names : decoder' = [decoder EXCEPT ![x] = d]
      <3>1. openers[t].k \in DOMAIN openers[t].ms
        BY <1>12, OpenerFacts DEF OpenNext
      <3>2. openers[t].ms[openers[t].k] \in Names
        BY <2>3, <3>1
      <3> QED
        BY <1>12, <3>2, OpenedFacts DEF OpenNext, Decoders
    <2>6. decoder' \in [Names -> Decoders]
      BY <2>4, <2>5
    <2>7. UNCHANGED <<cmdQueue, mpc, cmds, new_mlist, mlist, product_id, drawn, static_idx,
       background, pmlist, sent, lines, gone, told, raced>>
      BY <1>12 DEF OpenNext, mainvars, fixed, history
    <2> QED
      BY <2>1, <2>2, <2>6, <2>7 DEF TypeOK, Decoders
  <1>13. ASSUME NEW t \in DOMAIN openers, OpenFail(t)
        PROVE  TypeOK'
    <2>1. openers' \in Seq(Opener) /\ Len(openers') = Len(openers)
      BY <1>13, OpenerMoves DEF OpenerStep
    <2>2. pmlist \in 0 .. Len(openers) /\ UNCHANGED pmlist
      BY <1>13 DEF TypeOK, OpenFail
    <2>3. openers[t].ms \in Seq(Names) /\ ToSet(openers[t].ms) \subseteq Names
      BY OpenerFacts, Elements
    <2>4. decoder \in [Names -> Decoders] /\ gone \subseteq Names
      BY DEF TypeOK, Decoders
    <2>5. decoder' = close_material(decoder, ToSet(openers[t].ms))
      BY <1>13 DEF OpenFail
    <2>6. decoder' \in [Names -> Decoders]
      BY <2>4, <2>5, CloseFacts
    <2>7. gone' \subseteq Names
      BY <1>13, <2>3, <2>4 DEF OpenFail
    <2>8. UNCHANGED <<cmdQueue, mpc, cmds, new_mlist, mlist, product_id, drawn, static_idx,
       background, pmlist, sent, lines, told, raced>>
      BY <1>13 DEF OpenFail, mainvars, fixed, history
    <2> QED
      BY <2>1, <2>2, <2>6, <2>7, <2>8 DEF TypeOK, Decoders
  <1>14. ASSUME NEW t \in DOMAIN openers, OpenDone(t)
        PROVE  TypeOK'
    <2>1. openers' \in Seq(Opener) /\ Len(openers') = Len(openers)
      BY <1>14, OpenerMoves DEF OpenerStep
    <2>2. pmlist \in 0 .. Len(openers) /\ UNCHANGED pmlist
      BY <1>14 DEF TypeOK, OpenDone
    <2>3. openers[t].ms \in Seq(Names) /\ ToSet(openers[t].ms) \subseteq Names
      BY OpenerFacts, Elements
    <2>4. told' \subseteq Names
      BY <1>14, <2>3 DEF OpenDone, TypeOK
    <2>5. UNCHANGED <<cmdQueue, mpc, cmds, new_mlist, mlist, product_id, drawn, static_idx,
       background, pmlist, decoder, sent, lines, gone, raced>>
      BY <1>14 DEF OpenDone, mainvars, fixed, history
    <2> QED
      BY <2>1, <2>2, <2>4, <2>5 DEF TypeOK, Decoders
  <1>15. ASSUME NEW t \in DOMAIN openers, Put(t)
        PROVE  TypeOK'
    <2>1. openers \in Seq(Opener) /\ pmlist \in 0 .. Len(openers)
      BY DEF TypeOK
    <2>2. t \in 0 .. Len(openers)
      BY OpenerFacts, <2>1
    <2>3. openers' \in Seq(Opener) /\ Len(openers') = Len(openers) /\ pmlist' \in 0 .. Len(openers)
      BY <1>15, <2>1, <2>2, OpenerMoves DEF OpenerStep
    <2>4. UNCHANGED <<cmdQueue, mpc, cmds, new_mlist, mlist, product_id, drawn, static_idx,
       background, decoder, sent, lines, gone, told, raced>>
      BY <1>15 DEF Put, mainvars, fixed, history
    <2> QED
      BY <2>3, <2>4 DEF TypeOK, Decoders
  <1>16. CASE UNCHANGED vars
    BY <1>16 DEF vars, mainvars, fixed, history, TypeOK
  <1> QED
    BY <1>1, <1>2, <1>3, <1>4, <1>5, <1>6, <1>7, <1>8, <1>9, <1>10, <1>11, <1>12, <1>13, <1>14,
       <1>15, <1>16 DEF Next, MainLoop, open_materials_thread_run

\* submit_open_materials starts a thread for what was added, if anything was.
LEMMA SubmitFacts ==
    ASSUME TypeOK, submit_open_materials
    PROVE  /\ mpc = "cmds" /\ mpc' = "check" /\ cmds = << >> /\ new_mlist' = << >>
           /\ UNCHANGED <<cmdQueue, cmds, mlist, product_id, drawn, fixed, pmlist, decoder, history>>
           /\ Len(openers) \in Nat /\ DOMAIN openers = 1 .. Len(openers)
           /\ \A t \in DOMAIN openers : t \in DOMAIN openers' /\ openers'[t] = openers[t]
           /\ \/ new_mlist = << >> /\ openers' = openers
              \/ /\ DOMAIN openers' = 1 .. Len(openers) + 1
                 /\ openers'[Len(openers) + 1] = [ms |-> new_mlist, product |-> product_id,
                                                  pc |-> "open", k |-> 1, old |-> 0]
           /\ \A t \in DOMAIN openers' :
                 \/ t \in DOMAIN openers /\ openers'[t] = openers[t]
                 \/ /\ t = Len(openers) + 1
                    /\ openers'[t].ms = new_mlist /\ openers'[t].product = product_id
                    /\ openers'[t].pc = "open" /\ openers'[t].k = 1
  <1> DEFINE e == [ms |-> new_mlist, product |-> product_id, pc |-> "open", k |-> 1, old |-> 0]
  <1>1. /\ mpc = "cmds" /\ mpc' = "check" /\ cmds = << >> /\ new_mlist' = << >>
        /\ UNCHANGED <<cmdQueue, cmds, mlist, product_id, drawn, fixed, pmlist, decoder, history>>
    BY DEF submit_open_materials
  <1>2. openers' = IF new_mlist = << >> THEN openers ELSE Append(openers, e)
    BY DEF submit_open_materials
  <1>3. openers \in Seq(Opener) /\ new_mlist \in Seq(Names) /\ product_id \in Int
    BY DEF TypeOK
  <1>4. Len(openers) \in Nat /\ DOMAIN openers = 1 .. Len(openers)
    BY <1>3
  <1>5. e \in Opener
    BY <1>3, MaterialsAssumption DEF Opener
  <1>6. e.ms = new_mlist /\ e.product = product_id /\ e.pc = "open" /\ e.k = 1
    OBVIOUS
  <1>7. CASE new_mlist = << >>
    BY <1>1, <1>2, <1>4, <1>7
  <1>8. CASE new_mlist # << >>
    <2> HIDE DEF e
    <2>1. /\ DOMAIN openers' = 1 .. Len(openers) + 1
          /\ \A i \in 1 .. Len(openers) : openers'[i] = openers[i]
          /\ openers'[Len(openers) + 1] = e
      BY <1>2, <1>3, <1>5, <1>8, PushFacts
    <2>2. \A t \in DOMAIN openers' : t \in DOMAIN openers \/ t = Len(openers) + 1
      BY <1>4, <2>1
    <2>3. \A t \in DOMAIN openers : t \in DOMAIN openers' /\ openers'[t] = openers[t]
      BY <1>4, <2>1
    <2>4. \A t \in DOMAIN openers' :
              \/ t \in DOMAIN openers /\ openers'[t] = openers[t]
              \/ /\ t = Len(openers) + 1
                 /\ openers'[t].ms = new_mlist /\ openers'[t].product = product_id
                 /\ openers'[t].pc = "open" /\ openers'[t].k = 1
      BY <1>6, <2>1, <2>2, <2>3
    <2> QED
      BY <1>1, <1>4, <2>1, <2>3, <2>4 DEF e
  <1> QED
    BY <1>7, <1>8

\* A line that adds a material names one that nothing knows of yet.
LEMMA StreamFacts ==
    ASSUME TypeOK, PlaceInv, NEW l \in Lines, StreamCmd(l)
    PROVE  /\ IsAdd(Parse(l)) => /\ Parse(l).m \in Names /\ Parse(l).m \notin Waiting
                                 /\ Parse(l).m \notin Added
                                 /\ Added' = Added \cup {Parse(l).m}
           /\ ~IsAdd(Parse(l)) => Added' = Added
  <1>1. lines' = lines \cup {l} /\ lines \subseteq Lines
    BY DEF StreamCmd, TypeOK
  <1>2. Added = Initial \cup {x.m : x \in {y \in lines : IsAdd(y)}}
    BY DEF Added, IsAdd
  <1>3. Added' = Initial \cup {x.m : x \in {y \in lines' : IsAdd(y)}}
    BY DEF Added, IsAdd, Invalid
  <1>4. ASSUME IsAdd(Parse(l))
        PROVE  /\ Parse(l).m \in Names /\ Parse(l).m \notin Waiting
               /\ Parse(l).m \notin Added /\ Added' = Added \cup {Parse(l).m}
    <2>1. Parse(l) = l /\ l.op = "ADD" /\ l.m \in Names /\ IsAdd(l)
      BY <1>4, CommandFacts DEF IsAdd
    <2>2. l \notin lines /\ l.m \notin Initial
      BY <2>1, MaterialsAssumption DEF StreamCmd
    <2>3. l.m \notin Added
      <3> SUFFICES ASSUME l.m \in Added
                   PROVE  FALSE
        OBVIOUS
      <3>1. PICK y \in lines : IsAdd(y) /\ y.m = l.m
        BY <1>2, <2>2
      <3>2. y.op = "ADD"
        BY <3>1 DEF IsAdd
      <3> QED
        BY <1>1, <2>1, <2>2, <3>1, <3>2, MaterialsAssumption
    <2>4. Added' = Added \cup {l.m}
      BY <1>1, <1>2, <1>3, <2>1
    <2> QED
      BY <2>1, <2>3, <2>4 DEF PlaceInv
  <1>5. ASSUME ~IsAdd(Parse(l))
        PROVE  Added' = Added
    <2>1. ~IsAdd(l)
      BY <1>5, CommandFacts
    <2> QED
      BY <1>1, <1>2, <1>3, <2>1
  <1> QED
    BY <1>4, <1>5

\* ADD moves a material from the commands to the batch.
LEMMA AddFacts ==
    ASSUME TypeOK, QueueInv, PlaceInv, ADD
    PROVE  /\ TakesCommand /\ IsAdd(Head(cmds)) /\ Head(cmds).m \in Names
           /\ Head(cmds).m \in Adds(cmds) /\ Head(cmds).m \notin ToSet(new_mlist)
           /\ Adds(cmds') = Adds(cmds) \ {Head(cmds).m}
           /\ new_mlist' = Append(new_mlist, Head(cmds).m)
  <1>1. TakesCommand /\ IsAdd(Head(cmds)) /\ new_mlist' = Append(new_mlist, Head(cmds).m)
    BY DEF ADD, Command, TakesCommand, IsAdd
  <1>2. cmds \in Seq(Commands) /\ cmds # << >> /\ AddOnce(cmds)
    BY <1>1 DEF TakesCommand, TypeOK, QueueInv
  <1>3. /\ Head(cmds) \in Commands /\ Head(cmds).m \in Adds(cmds)
        /\ Adds(Tail(cmds)) = Adds(cmds) \ {Head(cmds).m}
    BY <1>1, <1>2, AddsPop
  <1>4. Head(cmds).m \in Names
    BY <1>1, <1>3, CommandTypes
  <1>5. Head(cmds).m \notin ToSet(new_mlist)
    BY <1>3, <1>4 DEF PlaceInv, Waiting
  <1> QED
    BY <1>1, <1>3, <1>4, <1>5 DEF TakesCommand

\* No batch grows beyond the lines sent.
LEMMA CountStep ==
    ASSUME TypeOK, CountInv, [Next]_vars
    PROVE  CountInv'
  <1>1. ASSUME NEW l \in Lines, StreamCmd(l)
        PROVE  CountInv'
    <2>1. cmdQueue' = Append(cmdQueue, Parse(l)) /\ sent' = sent + 1 /\ UNCHANGED <<cmds, new_mlist, openers>>
      BY <1>1 DEF StreamCmd, mainvars
    <2>2. /\ Len(cmdQueue) \in Nat /\ Len(cmds) \in Nat /\ Len(new_mlist) \in Nat
          /\ sent \in 0 .. MaxLines /\ MaxLines \in Nat
      BY MaterialsAssumption DEF TypeOK
    <2>3. Len(cmdQueue) + Len(cmds) + Len(new_mlist) <= sent
      BY DEF CountInv
    <2>4. Len(cmdQueue') = Len(cmdQueue) + 1
      BY <2>1, CommandFacts, PushFacts DEF TypeOK
    <2> QED
      BY <2>1, <2>2, <2>3, <2>4 DEF CountInv
  <1>2. CASE get_stream_cmds
    <2>1. cmds' = cmdQueue /\ cmdQueue' = << >> /\ UNCHANGED <<new_mlist, sent, openers>>
      BY <1>2 DEF get_stream_cmds, history
    <2>2. /\ Len(cmdQueue) \in Nat /\ Len(cmds) \in Nat /\ Len(new_mlist) \in Nat
          /\ sent \in 0 .. MaxLines /\ MaxLines \in Nat
      BY MaterialsAssumption DEF TypeOK
    <2>3. Len(cmdQueue) + Len(cmds) + Len(new_mlist) <= sent
      BY DEF CountInv
    <2>4. Len(cmdQueue') = 0
      BY <2>1, EmptyFacts
    <2> QED
      BY <2>1, <2>2, <2>3, <2>4 DEF CountInv
  <1>3. CASE Skip
    <2>1. TakesCommand /\ UNCHANGED <<cmdQueue, new_mlist, sent, openers>>
      BY <1>3 DEF Skip, TakesCommand, history
    <2>2. /\ Len(cmdQueue) \in Nat /\ Len(cmds) \in Nat /\ Len(new_mlist) \in Nat
          /\ sent \in 0 .. MaxLines /\ MaxLines \in Nat
      BY MaterialsAssumption DEF TypeOK
    <2>3. Len(cmdQueue) + Len(cmds) + Len(new_mlist) <= sent
      BY DEF CountInv
    <2>4. Len(cmds') = Len(cmds) - 1
      BY <2>1, PopFacts DEF TakesCommand, TypeOK
    <2> QED
      BY <2>1, <2>2, <2>3, <2>4 DEF CountInv
  <1>4. CASE ADD
    <2>1. TakesCommand /\ UNCHANGED <<cmdQueue, sent, openers>>
      BY <1>4 DEF ADD, Command, TakesCommand, history
    <2>2. /\ Len(cmdQueue) \in Nat /\ Len(cmds) \in Nat /\ Len(new_mlist) \in Nat
          /\ sent \in 0 .. MaxLines /\ MaxLines \in Nat
      BY MaterialsAssumption DEF TypeOK
    <2>3. Len(cmdQueue) + Len(cmds) + Len(new_mlist) <= sent
      BY DEF CountInv
    <2>4. Len(cmds') = Len(cmds) - 1
      BY <2>1, PopFacts DEF TakesCommand, TypeOK
    <2>5. Len(new_mlist') = Len(new_mlist) + 1
      <3>1. Head(cmds) \in Commands
        BY <2>1, PopFacts DEF TakesCommand, TypeOK
      <3>2. Head(cmds).m \in Names /\ new_mlist \in Seq(Names)
        BY <1>4, <3>1, CommandTypes DEF ADD, Command, TypeOK
      <3> QED
        BY <1>4, <3>2, PushFacts DEF ADD
    <2> QED
      BY <2>1, <2>2, <2>3, <2>4, <2>5 DEF CountInv
  <1>5. CASE DEL
    <2>1. TakesCommand /\ UNCHANGED <<cmdQueue, new_mlist, sent, openers>>
      BY <1>5, DelFacts DEF TakesCommand, history
    <2>2. /\ Len(cmdQueue) \in Nat /\ Len(cmds) \in Nat /\ Len(new_mlist) \in Nat
          /\ sent \in 0 .. MaxLines /\ MaxLines \in Nat
      BY MaterialsAssumption DEF TypeOK
    <2>3. Len(cmdQueue) + Len(cmds) + Len(new_mlist) <= sent
      BY DEF CountInv
    <2>4. Len(cmds') = Len(cmds) - 1
      BY <2>1, PopFacts DEF TakesCommand, TypeOK
    <2> QED
      BY <2>1, <2>2, <2>3, <2>4 DEF CountInv
  <1>6. CASE SWPROD
    <2>1. TakesCommand /\ UNCHANGED <<cmdQueue, new_mlist, sent, openers>>
      BY <1>6, SwitchActions DEF TakesCommand, history
    <2>2. /\ Len(cmdQueue) \in Nat /\ Len(cmds) \in Nat /\ Len(new_mlist) \in Nat
          /\ sent \in 0 .. MaxLines /\ MaxLines \in Nat
      BY MaterialsAssumption DEF TypeOK
    <2>3. Len(cmdQueue) + Len(cmds) + Len(new_mlist) <= sent
      BY DEF CountInv
    <2>4. Len(cmds') = Len(cmds) - 1
      BY <2>1, PopFacts DEF TakesCommand, TypeOK
    <2> QED
      BY <2>1, <2>2, <2>3, <2>4 DEF CountInv
  <1>7. CASE submit_open_materials
    <2>1. new_mlist' = << >> /\ UNCHANGED <<cmdQueue, cmds, sent>>
      BY <1>7 DEF submit_open_materials, history
    <2>2. /\ Len(cmdQueue) \in Nat /\ Len(cmds) \in Nat /\ Len(new_mlist) \in Nat
          /\ sent \in 0 .. MaxLines /\ MaxLines \in Nat
      BY MaterialsAssumption DEF TypeOK
    <2>3. Len(cmdQueue) + Len(cmds) + Len(new_mlist) <= sent
      BY DEF CountInv
    <2>4. Len(new_mlist') = 0
      BY <2>1, EmptyFacts
    <2>5. Len(new_mlist) <= MaxLines
      BY <2>2, <2>3
    <2>6. ASSUME NEW t \in DOMAIN openers'
          PROVE  Len(openers'[t].ms) <= MaxLines /\ openers'[t].k <= Len(openers'[t].ms) + 1
      <3>1. CASE t \in DOMAIN openers /\ openers'[t] = openers[t]
        BY <3>1 DEF CountInv
      <3>2. CASE openers'[t].ms = new_mlist /\ openers'[t].k = 1
        BY <2>2, <2>5, <3>2
      <3> QED
        BY <1>7, <3>1, <3>2, SubmitFacts
    <2> QED
      BY <2>1, <2>2, <2>3, <2>4, <2>6 DEF CountInv
  <1>8. CASE check_open_materials
    <2>1. UNCHANGED <<cmdQueue, cmds, new_mlist, sent, openers>>
      BY <1>8 DEF check_open_materials, mainvars, fixed, history
    <2> QED
      BY <2>1 DEF CountInv
  <1>9. CASE NoMainFrame
    <2>1. UNCHANGED <<cmdQueue, cmds, new_mlist, sent, openers>>
      BY <1>9 DEF NoMainFrame, mainvars, fixed, history
    <2> QED
      BY <2>1 DEF CountInv
  <1>10. CASE MainFrame
    <2>1. UNCHANGED <<cmdQueue, cmds, new_mlist, sent, openers>>
      BY <1>10, SwitchActions DEF fixed
    <2> QED
      BY <2>1 DEF CountInv
  <1>11. CASE Draw
    <2>1. UNCHANGED <<cmdQueue, cmds, new_mlist, sent, openers>>
      BY <1>11 DEF Draw, mainvars, fixed, history
    <2> QED
      BY <2>1 DEF CountInv
  <1>12. ASSUME NEW t \in DOMAIN openers, OpenNext(t)
        PROVE  CountInv'
    <2>1. UNCHANGED <<cmdQueue, cmds, new_mlist, sent>>
      BY <1>12 DEF OpenNext, mainvars, fixed, history
    <2>2. OpenerStep(t, "open", openers[t].k + 1)
      BY <1>12, OpenNextFacts
    <2>3. openers[t].k + 1 <= Len(openers[t].ms) + 1
      BY <1>12, OpenerFacts DEF OpenNext
    <2> QED
      BY <2>1, <2>2, <2>3 DEF CountInv, OpenerStep
  <1>13. ASSUME NEW t \in DOMAIN openers, OpenFail(t)
        PROVE  CountInv'
    <2>1. UNCHANGED <<cmdQueue, cmds, new_mlist, sent>>
      BY <1>13 DEF OpenFail, mainvars, fixed, history
    <2>2. OpenerStep(t, "done", openers[t].k)
      BY <1>13, OpenerMoves
    <2> QED
      BY <2>1, <2>2 DEF CountInv, OpenerStep
  <1>14. ASSUME NEW t \in DOMAIN openers, OpenDone(t)
        PROVE  CountInv'
    <2>1. UNCHANGED <<cmdQueue, cmds, new_mlist, sent>>
      BY <1>14 DEF OpenDone, mainvars, fixed, history
    <2>2. OpenerStep(t, "put", openers[t].k)
      BY <1>14, OpenerMoves
    <2> QED
      BY <2>1, <2>2 DEF CountInv, OpenerStep
  <1>15. ASSUME NEW t \in DOMAIN openers, Put(t)
        PROVE  CountInv'
    <2>1. UNCHANGED <<cmdQueue, cmds, new_mlist, sent>>
      BY <1>15 DEF Put, mainvars, fixed, history
    <2>2. CASE openers' = openers
      BY <2>1, <2>2 DEF CountInv
    <2>3. CASE OpenerStep(t, "done", openers[t].k)
      BY <2>1, <2>3 DEF CountInv, OpenerStep
    <2> QED
      BY <1>15, <2>2, <2>3, OpenerMoves
  <1>16. CASE UNCHANGED vars
    BY <1>16 DEF vars, mainvars, fixed, history, CountInv
  <1> QED
    BY <1>1, <1>2, <1>3, <1>4, <1>5, <1>6, <1>7, <1>8, <1>9, <1>10, <1>11, <1>12, <1>13, <1>14,
       <1>15, <1>16 DEF Next, MainLoop, open_materials_thread_run

\* No step names a material twice in a queue, a batch or the list.
LEMMA QueueStep ==
    ASSUME TypeOK, CountInv, QueueInv, HeldInv, PlaceInv, [Next]_vars
    PROVE  QueueInv'
  <1>1. ASSUME NEW l \in Lines, StreamCmd(l)
        PROVE  QueueInv'
    <2>1. cmdQueue' = Append(cmdQueue, Parse(l)) /\ UNCHANGED <<mpc, cmds, new_mlist, mlist, openers>>
      BY <1>1 DEF StreamCmd, mainvars
    <2>2. cmdQueue \in Seq(Commands) /\ Parse(l) \in Commands
      BY CommandFacts DEF TypeOK
    <2>3. IsAdd(Parse(l)) => Parse(l).m \notin Waiting
      BY <1>1, StreamFacts
    <2>4. AddOnce(cmdQueue')
      BY <2>1, <2>2, <2>3, AddsPush DEF QueueInv, Waiting
    <2>5. Adds(cmds) \cap Adds(cmdQueue') = {}
      <3>1. CASE IsAdd(Parse(l))
        BY <2>1, <2>2, <2>3, <3>1, AddsPush DEF QueueInv, Waiting
      <3>2. CASE ~IsAdd(Parse(l))
        BY <2>1, <2>2, <3>2, AddsPush DEF QueueInv
      <3> QED
        BY <3>1, <3>2
    <2> QED
      BY <2>1, <2>4, <2>5 DEF QueueInv
  <1>2. CASE get_stream_cmds
    <2>1. /\ cmds' = cmdQueue /\ cmdQueue' = << >> /\ mpc' = "cmds"
          /\ UNCHANGED <<new_mlist, mlist, openers>>
      BY <1>2 DEF get_stream_cmds
    <2> QED
      BY <2>1, AddsEmpty DEF QueueInv
  <1>3. CASE Skip
    <2>1. TakesCommand /\ mpc = "cmds" /\ UNCHANGED <<cmdQueue, mpc, new_mlist, mlist, openers>>
      BY <1>3 DEF Skip, TakesCommand
    <2>2. /\ cmds \in Seq(Commands) /\ AddOnce(cmds) /\ cmds # << >>
          /\ Adds(cmds) \cap Adds(cmdQueue) = {}
      BY <2>1 DEF TypeOK, QueueInv, TakesCommand
    <2>3. AddOnce(cmds') /\ Adds(cmds') \subseteq Adds(cmds)
      BY <2>1, <2>2, AddsPop DEF TakesCommand
    <2> QED
      BY <2>1, <2>2, <2>3 DEF QueueInv
  <1>4. CASE ADD
    <2>1. TakesCommand /\ mpc = "cmds" /\ UNCHANGED <<cmdQueue, mpc, mlist, openers>>
      BY <1>4 DEF ADD, Command, TakesCommand
    <2>2. /\ cmds \in Seq(Commands) /\ AddOnce(cmds) /\ cmds # << >>
          /\ Adds(cmds) \cap Adds(cmdQueue) = {}
      BY <2>1 DEF TypeOK, QueueInv, TakesCommand
    <2>3. AddOnce(cmds') /\ Adds(cmds') \subseteq Adds(cmds)
      BY <2>1, <2>2, AddsPop DEF TakesCommand
    <2>4. IsInjective(new_mlist')
      <3>1. new_mlist \in Seq(Names) /\ IsInjective(new_mlist)
        BY DEF TypeOK, QueueInv
      <3>2. /\ Head(cmds).m \in Names /\ Head(cmds).m \notin ToSet(new_mlist)
            /\ new_mlist' = Append(new_mlist, Head(cmds).m)
        BY <1>4, AddFacts
      <3> QED
        BY <3>1, <3>2, AppendElements
    <2> QED
      BY <2>1, <2>2, <2>3, <2>4 DEF QueueInv
  <1>5. CASE DEL
    <2>1. TakesCommand /\ mpc = "cmds" /\ UNCHANGED <<cmdQueue, mpc, new_mlist, openers>>
      BY <1>5, DelFacts DEF TakesCommand
    <2>2. /\ cmds \in Seq(Commands) /\ AddOnce(cmds) /\ cmds # << >>
          /\ Adds(cmds) \cap Adds(cmdQueue) = {}
      BY <2>1 DEF TypeOK, QueueInv, TakesCommand
    <2>3. AddOnce(cmds') /\ Adds(cmds') \subseteq Adds(cmds)
      BY <2>1, <2>2, AddsPop DEF TakesCommand
    <2>4. IsInjective(mlist')
      <3>1. mlist \in Seq(Names) /\ IsInjective(mlist)
        BY DEF TypeOK, QueueInv
      <3>2. ASSUME NEW i \in 1 .. Len(mlist), Deletes(i)
            PROVE  IsInjective(mlist')
        BY <3>1, <3>2, RemoveElements DEF Deletes
      <3> QED
        BY <1>5, <3>1, <3>2, DelFacts
    <2> QED
      BY <2>1, <2>2, <2>3, <2>4 DEF QueueInv
  <1>6. CASE SWPROD
    <2>1. TakesCommand /\ mpc = "cmds" /\ UNCHANGED <<cmdQueue, mpc, new_mlist, mlist, openers>>
      BY <1>6, SwitchActions DEF TakesCommand
    <2>2. /\ cmds \in Seq(Commands) /\ AddOnce(cmds) /\ cmds # << >>
          /\ Adds(cmds) \cap Adds(cmdQueue) = {}
      BY <2>1 DEF TypeOK, QueueInv, TakesCommand
    <2>3. AddOnce(cmds') /\ Adds(cmds') \subseteq Adds(cmds)
      BY <2>1, <2>2, AddsPop DEF TakesCommand
    <2> QED
      BY <2>1, <2>2, <2>3 DEF QueueInv
  <1>7. CASE submit_open_materials
    <2>1. /\ new_mlist' = << >> /\ cmds = << >> /\ UNCHANGED <<cmdQueue, cmds, mlist>>
      BY <1>7 DEF submit_open_materials
    <2>2. ASSUME NEW t \in DOMAIN openers'
          PROVE  IsInjective(openers'[t].ms)
      <3>1. CASE t \in DOMAIN openers /\ openers'[t] = openers[t]
        BY <3>1 DEF QueueInv
      <3>2. CASE openers'[t].ms = new_mlist
        BY <3>2 DEF QueueInv
      <3> QED
        BY <1>7, <3>1, <3>2, SubmitFacts
    <2> QED
      BY <2>1, <2>2, EmptyElements DEF QueueInv
  <1>8. CASE check_open_materials
    <2>1. mpc # "cmds" /\ UNCHANGED <<cmds, cmdQueue, new_mlist, openers>>
      BY <1>8 DEF check_open_materials
    <2>2. IsInjective(mlist')
      BY <1>8, CheckFacts
    <2> QED
      BY <2>1, <2>2 DEF QueueInv
  <1>9. CASE NoMainFrame
    <2>1. mpc = "frame" /\ UNCHANGED <<cmds, cmdQueue, new_mlist, mlist, openers>>
      BY <1>9 DEF NoMainFrame
    <2> QED
      BY <2>1 DEF QueueInv
  <1>10. CASE MainFrame
    <2>1. mpc = "frame" /\ UNCHANGED <<cmds, cmdQueue, new_mlist, mlist, openers>>
      BY <1>10, SwitchActions
    <2> QED
      BY <2>1 DEF QueueInv
  <1>11. CASE Draw
    <2>1. mpc = "draw" /\ UNCHANGED <<cmds, cmdQueue, new_mlist, mlist, openers>>
      BY <1>11 DEF Draw
    <2> QED
      BY <2>1 DEF QueueInv
  <1>12. ASSUME NEW t \in DOMAIN openers, OpenNext(t)
        PROVE  QueueInv'
    <2>1. UNCHANGED <<mpc, cmds, cmdQueue, new_mlist, mlist>>
      BY <1>12 DEF OpenNext, mainvars, fixed, history
    <2>2. OpenerStep(t, "open", openers[t].k + 1)
      BY <1>12, OpenNextFacts
    <2> QED
      BY <2>1, <2>2 DEF QueueInv, OpenerStep
  <1>13. ASSUME NEW t \in DOMAIN openers, OpenFail(t)
        PROVE  QueueInv'
    <2>1. UNCHANGED <<mpc, cmds, cmdQueue, new_mlist, mlist>>
      BY <1>13 DEF OpenFail, mainvars, fixed, history
    <2>2. OpenerStep(t, "done", openers[t].k)
      BY <1>13, OpenerMoves
    <2> QED
      BY <2>1, <2>2 DEF QueueInv, OpenerStep
  <1>14. ASSUME NEW t \in DOMAIN openers, OpenDone(t)
        PROVE  QueueInv'
    <2>1. UNCHANGED <<mpc, cmds, cmdQueue, new_mlist, mlist>>
      BY <1>14 DEF OpenDone, mainvars, fixed, history
    <2>2. OpenerStep(t, "put", openers[t].k)
      BY <1>14, OpenerMoves
    <2> QED
      BY <2>1, <2>2 DEF QueueInv, OpenerStep
  <1>15. ASSUME NEW t \in DOMAIN openers, Put(t)
        PROVE  QueueInv'
    <2>1. UNCHANGED <<mpc, cmds, cmdQueue, new_mlist, mlist>>
      BY <1>15 DEF Put, mainvars, fixed, history
    <2>2. CASE openers' = openers
      BY <2>1, <2>2 DEF QueueInv
    <2>3. CASE OpenerStep(t, "done", openers[t].k)
      BY <2>1, <2>3 DEF QueueInv, OpenerStep
    <2> QED
      BY <1>15, <2>2, <2>3, OpenerMoves
  <1>16. CASE UNCHANGED vars
    BY <1>16 DEF vars, mainvars, QueueInv
  <1> QED
    BY <1>1, <1>2, <1>3, <1>4, <1>5, <1>6, <1>7, <1>8, <1>9, <1>10, <1>11, <1>12, <1>13, <1>14,
       <1>15, <1>16 DEF Next, MainLoop, open_materials_thread_run

-----------------------------------------------------------------------------
(* What the actions do to the places of the materials.                      *)

\* What is being opened stays as it is.
HeldStays ==
    /\ DOMAIN openers' = DOMAIN openers
    /\ \A u \in DOMAIN openers : Held(u)' = Held(u)
    /\ InFlight' = InFlight

\* A step of the threads that takes none of the materials away.
LEMMA StaysFacts ==
    ASSUME DOMAIN openers' = DOMAIN openers, \A u \in DOMAIN openers : Held(u)' = Held(u)
    PROVE  HeldStays
  BY DEF HeldStays, InFlight

\* A thread that opens the next material, or has opened all, keeps them.
LEMMA StepHeld ==
    ASSUME TypeOK, NEW t \in DOMAIN openers, NEW p, NEW k, OpenerStep(t, p, k),
           UNCHANGED pmlist, openers[t].pc = "open", p \in {"open", "put"}
    PROVE  HeldStays
  <1>1. \A u \in DOMAIN openers : openers'[u].ms = openers[u].ms
    BY DEF OpenerStep
  <1>2. \A u \in DOMAIN openers : openers'[u].pc \in {"open", "put"} <=> openers[u].pc \in {"open", "put"}
    BY DEF OpenerStep
  <1>3. \A u \in DOMAIN openers : Held(u)' = Held(u)
    BY <1>1, <1>2 DEF Held
  <1> QED
    BY <1>3, StaysFacts DEF OpenerStep

\* A thread that fills the mailbox keeps its materials there.
LEMMA PutHeld ==
    ASSUME TypeOK, NEW t \in DOMAIN openers, Put(t)
    PROVE  HeldStays
  <1>1. CASE openers' = openers /\ pmlist' = pmlist
    BY <1>1, StaysFacts DEF Held
  <1>2. CASE /\ OpenerStep(t, "done", openers[t].k) /\ openers[t].pc = "put"
             /\ pmlist = 0 /\ pmlist' = t
    <2>1. \A u \in DOMAIN openers : u # 0
      BY OpenerFacts
    <2>2. \A u \in DOMAIN openers : u # t => openers'[u] = openers[u]
      BY <1>2 DEF OpenerStep
    <2>3. openers'[t].ms = openers[t].ms
      BY <1>2 DEF OpenerStep
    <2>4. \A u \in DOMAIN openers : u # t => Held(u)' = Held(u)
      BY <1>2, <2>1, <2>2 DEF Held
    <2>5. Held(t)' = Held(t)
      BY <1>2, <2>3 DEF Held
    <2> QED
      BY <1>2, <2>4, <2>5, StaysFacts DEF OpenerStep
  <1> QED
    BY <1>1, <1>2, OpenerMoves

\* A thread that fails holds nothing any more.
LEMMA FailHeld ==
    ASSUME TypeOK, HeldInv, NEW t \in DOMAIN openers, OpenFail(t)
    PROVE  /\ DOMAIN openers' = DOMAIN openers
           /\ \A u \in DOMAIN openers : u # t => Held(u)' = Held(u)
           /\ Held(t)' = {} /\ Held(t) = ToSet(openers[t].ms)
           /\ InFlight' = InFlight \ Held(t)
           /\ pmlist # t /\ UNCHANGED pmlist
  <1>1. OpenerStep(t, "done", openers[t].k) /\ openers[t].pc = "open" /\ UNCHANGED pmlist
    BY OpenerMoves DEF OpenFail
  <1>2. pmlist # t
    BY <1>1, OpenerFacts DEF HeldInv
  <1>3. \A u \in DOMAIN openers : u # t => Held(u)' = Held(u)
    BY <1>1 DEF Held, OpenerStep
  <1>4. Held(t)' = {}
    BY <1>1, <1>2 DEF Held, OpenerStep
  <1>5. Held(t) = ToSet(openers[t].ms)
    BY <1>1 DEF Held
  <1>6. \A u \in DOMAIN openers : u # t => Held(u) \cap Held(t) = {}
    BY DEF HeldInv
  <1>7. DOMAIN openers' = DOMAIN openers
    BY <1>1 DEF OpenerStep
  <1>8. InFlight' = InFlight \ Held(t)
    BY <1>3, <1>4, <1>6, <1>7 DEF InFlight
  <1> QED
    BY <1>1, <1>2, <1>3, <1>4, <1>5, <1>7, <1>8

\* The thread of a batch holds it from its start.
LEMMA SubmitHeld ==
    ASSUME TypeOK, submit_open_materials
    PROVE  /\ \A u \in DOMAIN openers : u \in DOMAIN openers' /\ Held(u)' = Held(u)
           /\ \A u \in DOMAIN openers' : u \in DOMAIN openers \/ Held(u)' = ToSet(new_mlist)
           /\ \A u, v \in DOMAIN openers' : u \in DOMAIN openers \/ v \in DOMAIN openers \/ u = v
           /\ InFlight' = InFlight \cup ToSet(new_mlist)
  <1>1. UNCHANGED pmlist /\ pmlist \in 0 .. Len(openers) /\ Len(openers) \in Nat
    BY SubmitFacts DEF TypeOK
  <1>2. \A u \in DOMAIN openers : u \in DOMAIN openers' /\ openers'[u] = openers[u]
    BY SubmitFacts
  <1>3. \A u \in DOMAIN openers' :
           \/ u \in DOMAIN openers
           \/ u = Len(openers) + 1 /\ openers'[u].ms = new_mlist /\ openers'[u].pc = "open"
    BY SubmitFacts
  <1>4. \A u \in DOMAIN openers : Held(u)' = Held(u)
    BY <1>1, <1>2 DEF Held
  <1>5. \A u \in DOMAIN openers' : u \in DOMAIN openers \/ Held(u)' = ToSet(new_mlist)
    BY <1>3 DEF Held
  <1>6. \A u, v \in DOMAIN openers' : u \in DOMAIN openers \/ v \in DOMAIN openers \/ u = v
    BY <1>3
  <1>7. \/ new_mlist = << >> /\ openers' = openers
        \/ \E n \in DOMAIN openers' : n \notin DOMAIN openers
    BY <1>1, SubmitFacts
  <1>8. InFlight' = InFlight \cup ToSet(new_mlist)
    <2>1. CASE new_mlist = << >> /\ openers' = openers
      BY <1>4, <2>1, EmptyElements DEF InFlight
    <2>2. CASE \E n \in DOMAIN openers' : n \notin DOMAIN openers
      BY <1>2, <1>4, <1>5, <2>2 DEF InFlight
    <2> QED
      BY <1>7, <2>1, <2>2
  <1> QED
    BY <1>2, <1>4, <1>5, <1>6, <1>8

\* The mailbox is emptied: its thread holds nothing any more.
LEMMA CheckHeld ==
    ASSUME TypeOK, HeldInv, check_open_materials, pmlist \in DOMAIN openers, pmlist' = 0
    PROVE  /\ UNCHANGED openers
           /\ \A u \in DOMAIN openers : u # pmlist => Held(u)' = Held(u)
           /\ Held(pmlist) \cap InFlight' = {}
           /\ InFlight' = InFlight \ Held(pmlist)
           /\ \A u \in DOMAIN openers : Held(u)' \subseteq Held(u)
  <1>1. UNCHANGED openers
    BY DEF check_open_materials
  <1>2. \A u \in DOMAIN openers : u # 0
    BY OpenerFacts
  <1>3. openers[pmlist].pc = "done"
    BY <1>2 DEF HeldInv
  <1> DEFINE h == pmlist
  <1>4. h \in DOMAIN openers /\ openers[h].pc = "done" /\ pmlist = h
    BY <1>3
  <1> HIDE DEF h
  <1>5. \A u \in DOMAIN openers : u # h => Held(u)' = Held(u)
    BY <1>1, <1>2, <1>4 DEF Held
  <1>6. \A u \in DOMAIN openers : u = h => Held(u)' = {}
    BY <1>1, <1>2, <1>4 DEF Held
  <1>7. \A u \in DOMAIN openers : u # h => Held(u) \cap Held(h) = {}
    BY <1>4 DEF HeldInv
  <1>8. InFlight' = InFlight \ Held(h)
    BY <1>1, <1>4, <1>5, <1>6, <1>7 DEF InFlight
  <1>9. \A u \in DOMAIN openers : Held(u)' \subseteq Held(u)
    BY <1>5, <1>6
  <1> QED
    BY <1>1, <1>4, <1>5, <1>8, <1>9

\* A command that is not an ADD leaves the materials that wait.
LEMMA PopWaiting ==
    ASSUME TypeOK, QueueInv, TakesCommand, ~IsAdd(Head(cmds)), UNCHANGED cmdQueue
    PROVE  Waiting' = Waiting
  <1>1. cmds \in Seq(Commands) /\ cmds # << >> /\ AddOnce(cmds) /\ cmds' = Tail(cmds)
    BY DEF TypeOK, QueueInv, TakesCommand
  <1>2. Adds(cmds') = Adds(cmds)
    BY <1>1, AddsPop
  <1> QED
    BY <1>2 DEF Waiting

\* The threads never share a material.
LEMMA HeldStep ==
    ASSUME TypeOK, CountInv, QueueInv, HeldInv, PlaceInv, [Next]_vars
    PROVE  HeldInv'
  <1>1. ASSUME NEW l \in Lines, StreamCmd(l)
        PROVE  HeldInv'
    <2>1. UNCHANGED <<openers, pmlist>>
      BY <1>1 DEF StreamCmd, mainvars, fixed, history
    <2> QED
      BY <2>1 DEF HeldInv, Held
  <1>2. CASE get_stream_cmds
    <2>1. UNCHANGED <<openers, pmlist>>
      BY <1>2 DEF get_stream_cmds, mainvars, fixed, history
    <2> QED
      BY <2>1 DEF HeldInv, Held
  <1>3. CASE Skip
    <2>1. UNCHANGED <<openers, pmlist>>
      BY <1>3 DEF Skip, fixed, history
    <2> QED
      BY <2>1 DEF HeldInv, Held
  <1>4. CASE ADD
    <2>1. UNCHANGED <<openers, pmlist>>
      BY <1>4 DEF ADD, fixed, history
    <2> QED
      BY <2>1 DEF HeldInv, Held
  <1>5. CASE DEL
    <2>1. UNCHANGED <<openers, pmlist>>
      BY <1>5, DelFacts DEF fixed
    <2> QED
      BY <2>1 DEF HeldInv, Held
  <1>6. CASE SWPROD
    <2>1. UNCHANGED <<openers, pmlist>>
      BY <1>6, SwitchActions DEF fixed
    <2> QED
      BY <2>1 DEF HeldInv, Held
  <1>7. CASE submit_open_materials
    <2>1. UNCHANGED pmlist /\ pmlist \in 0 .. Len(openers) /\ openers \in Seq(Opener)
      BY <1>7 DEF submit_open_materials, TypeOK
    <2>2. \A u \in DOMAIN openers : u \in DOMAIN openers' /\ openers'[u] = openers[u]
      BY <1>7, SubmitFacts
    <2>3. pmlist # 0 => pmlist \in DOMAIN openers
      BY <2>1
    <2>4. pmlist' # 0 => openers'[pmlist'].pc = "done"
      BY <2>1, <2>2, <2>3 DEF HeldInv
    <2>5. \A u \in DOMAIN openers : Held(u) \cap ToSet(new_mlist) = {}
      <3>1. new_mlist \in Seq(Names)
        BY DEF TypeOK
      <3>2. ToSet(new_mlist) \subseteq Names
        BY <3>1, Elements
      <3>3. \A u \in DOMAIN openers : Held(u) \subseteq InFlight
        BY HeldFacts
      <3> QED
        BY <3>2, <3>3 DEF PlaceInv
    <2>6. /\ \A u \in DOMAIN openers : Held(u)' = Held(u)
          /\ \A u \in DOMAIN openers' : u \in DOMAIN openers \/ Held(u)' = ToSet(new_mlist)
          /\ \A u, v \in DOMAIN openers' : u \in DOMAIN openers \/ v \in DOMAIN openers \/ u = v
      BY <1>7, SubmitHeld
    <2>7. ASSUME NEW u \in DOMAIN openers', NEW v \in DOMAIN openers', u # v
          PROVE  Held(u)' \cap Held(v)' = {}
      <3>1. CASE u \in DOMAIN openers /\ v \in DOMAIN openers
        BY <2>6, <2>7, <3>1 DEF HeldInv
      <3>2. CASE u \in DOMAIN openers /\ v \notin DOMAIN openers
        BY <2>5, <2>6, <3>2
      <3>3. CASE u \notin DOMAIN openers /\ v \in DOMAIN openers
        BY <2>5, <2>6, <3>3
      <3> QED
        BY <2>6, <2>7, <3>1, <3>2, <3>3
    <2> QED
      BY <2>4, <2>7 DEF HeldInv
  <1>8. CASE check_open_materials
    <2>1. UNCHANGED openers /\ pmlist' = 0
      BY <1>8, CheckFacts DEF check_open_materials
    <2>2. CASE pmlist = 0
      BY <2>1, <2>2 DEF HeldInv, Held
    <2>3. CASE pmlist # 0
      <3>1. pmlist \in DOMAIN openers
        BY <1>8, <2>3, CheckFacts
      <3>2. \A u \in DOMAIN openers : Held(u)' \subseteq Held(u)
        BY <1>8, <2>1, <3>1, CheckHeld
      <3> QED
        BY <2>1, <3>2 DEF HeldInv
    <2> QED
      BY <2>2, <2>3
  <1>9. CASE NoMainFrame
    <2>1. UNCHANGED <<openers, pmlist>>
      BY <1>9 DEF NoMainFrame, mainvars, fixed, history
    <2> QED
      BY <2>1 DEF HeldInv, Held
  <1>10. CASE MainFrame
    <2>1. UNCHANGED <<openers, pmlist>>
      BY <1>10, SwitchActions DEF fixed
    <2> QED
      BY <2>1 DEF HeldInv, Held
  <1>11. CASE Draw
    <2>1. UNCHANGED <<openers, pmlist>>
      BY <1>11 DEF Draw, mainvars, fixed, history
    <2> QED
      BY <2>1 DEF HeldInv, Held
  <1>12. ASSUME NEW t \in DOMAIN openers, OpenNext(t)
        PROVE  HeldInv'
    <2>1. OpenerStep(t, "open", openers[t].k + 1) /\ openers[t].pc = "open" /\ UNCHANGED pmlist
      BY <1>12, OpenNextFacts DEF OpenNext
    <2>2. HeldStays
      BY <2>1, StepHeld
    <2>3. pmlist # 0 => pmlist \in DOMAIN openers
      BY DEF TypeOK
    <2>4. pmlist' # 0 => openers'[pmlist'].pc = "done"
      BY <2>1, <2>3 DEF HeldInv, OpenerStep
    <2> QED
      BY <2>2, <2>4 DEF HeldInv, HeldStays
  <1>13. ASSUME NEW t \in DOMAIN openers, OpenFail(t)
        PROVE  HeldInv'
    <2>1. /\ DOMAIN openers' = DOMAIN openers /\ UNCHANGED pmlist /\ pmlist # t
          /\ \A u \in DOMAIN openers : u # t => Held(u)' = Held(u)
          /\ Held(t)' = {}
      BY <1>13, FailHeld
    <2>2. pmlist # 0 => pmlist \in DOMAIN openers
      BY DEF TypeOK
    <2>3. OpenerStep(t, "done", openers[t].k)
      BY <1>13, OpenerMoves
    <2>4. pmlist' # 0 => openers'[pmlist'].pc = "done"
      BY <2>1, <2>2, <2>3 DEF HeldInv, OpenerStep
    <2>5. ASSUME NEW u \in DOMAIN openers', NEW v \in DOMAIN openers', u # v
          PROVE  Held(u)' \cap Held(v)' = {}
      <3>1. CASE u = t
        BY <2>1, <3>1
      <3>2. CASE v = t
        BY <2>1, <3>2
      <3>3. CASE u # t /\ v # t
        BY <2>1, <2>5, <3>3 DEF HeldInv
      <3> QED
        BY <3>1, <3>2, <3>3
    <2> QED
      BY <2>4, <2>5 DEF HeldInv
  <1>14. ASSUME NEW t \in DOMAIN openers, OpenDone(t)
        PROVE  HeldInv'
    <2>1. OpenerStep(t, "put", openers[t].k) /\ openers[t].pc = "open" /\ UNCHANGED pmlist
      BY <1>14, OpenerMoves DEF OpenDone
    <2>2. HeldStays
      BY <2>1, StepHeld
    <2>3. pmlist # 0 => pmlist \in DOMAIN openers
      BY DEF TypeOK
    <2>4. pmlist' # 0 => openers'[pmlist'].pc = "done"
      BY <2>1, <2>3 DEF HeldInv, OpenerStep
    <2> QED
      BY <2>2, <2>4 DEF HeldInv, HeldStays
  <1>15. ASSUME NEW t \in DOMAIN openers, Put(t)
        PROVE  HeldInv'
    <2>1. HeldStays
      BY <1>15, PutHeld
    <2>2. pmlist' # 0 => openers'[pmlist'].pc = "done"
      BY <1>15, OpenerMoves DEF HeldInv, OpenerStep
    <2> QED
      BY <2>1, <2>2 DEF HeldInv, HeldStays
  <1>16. CASE UNCHANGED vars
    BY <1>16 DEF vars, HeldInv, Held
  <1> QED
    BY <1>1, <1>2, <1>3, <1>4, <1>5, <1>6, <1>7, <1>8, <1>9, <1>10, <1>11, <1>12, <1>13, <1>14,
       <1>15, <1>16 DEF Next, MainLoop, open_materials_thread_run

\* Every step leaves a material where it is, or moves it from one place to the
\* next.
LEMMA PlaceStep ==
    ASSUME TypeOK, CountInv, QueueInv, HeldInv, PlaceInv, [Next]_vars
    PROVE  PlaceInv'
  <1>1. ASSUME NEW l \in Lines, StreamCmd(l)
        PROVE  PlaceInv'
    <2>1. cmdQueue' = Append(cmdQueue, Parse(l)) /\ UNCHANGED cmds
      BY <1>1 DEF StreamCmd, mainvars
    <2>2. cmdQueue \in Seq(Commands) /\ Parse(l) \in Commands
      BY CommandFacts DEF TypeOK
    <2>3. \/ /\ Parse(l).m \in Names /\ Parse(l).m \notin Added
             /\ Added' = Added \cup {Parse(l).m} /\ Waiting' = Waiting \cup {Parse(l).m}
          \/ Added' = Added /\ Waiting' = Waiting
      <3>1. CASE IsAdd(Parse(l))
        <4>1. Adds(cmdQueue') = Adds(cmdQueue) \cup {Parse(l).m}
          BY <2>1, <2>2, <3>1, AddsPush
        <4>2. Waiting' = Waiting \cup {Parse(l).m}
          BY <2>1, <4>1 DEF Waiting
        <4> QED
          BY <1>1, <3>1, <4>2, StreamFacts
      <3>2. CASE ~IsAdd(Parse(l))
        <4>1. Adds(cmdQueue') = Adds(cmdQueue)
          BY <2>1, <2>2, <3>2, AddsPush
        <4>2. Waiting' = Waiting
          BY <2>1, <4>1 DEF Waiting
        <4> QED
          BY <1>1, <3>2, <4>2, StreamFacts
      <3> QED
        BY <3>1, <3>2
    <2>4. UNCHANGED <<cmds, new_mlist, mlist, gone, openers, pmlist>>
      BY <1>1 DEF StreamCmd, mainvars, fixed, history
    <2>5. InFlight' = InFlight
      BY <2>4 DEF Added, Waiting, InFlight, Held
    <2> QED
      BY <2>3, <2>4, <2>5 DEF PlaceInv
  <1>2. CASE get_stream_cmds
    <2>1. cmds' = cmdQueue /\ cmdQueue' = << >> /\ cmds = << >>
      BY <1>2 DEF get_stream_cmds, QueueInv
    <2>2. Waiting' = Waiting
      BY <2>1, AddsEmpty DEF Waiting
    <2>3. UNCHANGED <<lines, new_mlist, mlist, gone, openers, pmlist>>
      BY <1>2 DEF get_stream_cmds, mainvars, fixed, history
    <2>4. Added' = Added /\ InFlight' = InFlight
      BY <2>3 DEF Added, Waiting, InFlight, Held
    <2> QED
      BY <2>2, <2>3, <2>4 DEF PlaceInv
  <1>3. CASE Skip
    <2>1. TakesCommand /\ ~IsAdd(Head(cmds)) /\ UNCHANGED cmdQueue
      BY <1>3 DEF Skip, TakesCommand, IsAdd
    <2>2. Waiting' = Waiting
      BY <2>1, PopWaiting
    <2>3. UNCHANGED <<lines, cmdQueue, new_mlist, mlist, gone, openers, pmlist>>
      BY <1>3 DEF Skip, fixed, history
    <2>4. Added' = Added /\ InFlight' = InFlight
      BY <2>3 DEF Added, Waiting, InFlight, Held
    <2> QED
      BY <2>2, <2>3, <2>4 DEF PlaceInv
  <1>4. CASE ADD
    <2>1. /\ Head(cmds).m \in Names /\ Head(cmds).m \in Adds(cmds)
          /\ Adds(cmds') = Adds(cmds) \ {Head(cmds).m}
          /\ new_mlist' = Append(new_mlist, Head(cmds).m) /\ UNCHANGED cmdQueue
      BY <1>4, AddFacts DEF ADD
    <2>2. Head(cmds).m \in Waiting /\ Waiting' = Waiting \ {Head(cmds).m}
      BY <2>1 DEF Waiting, QueueInv
    <2>3. ToSet(new_mlist') = ToSet(new_mlist) \cup {Head(cmds).m}
      BY <2>1, AppendElements DEF TypeOK
    <2>4. UNCHANGED <<lines, cmdQueue, mlist, gone, openers, pmlist>>
      BY <1>4 DEF ADD, fixed, history
    <2>5. Added' = Added /\ InFlight' = InFlight
      BY <2>4 DEF Added, Waiting, InFlight, Held
    <2> QED
      BY <2>1, <2>2, <2>3, <2>4, <2>5 DEF PlaceInv
  <1>5. CASE DEL
    <2>1. TakesCommand /\ ~IsAdd(Head(cmds)) /\ UNCHANGED cmdQueue
      BY <1>5, DelFacts DEF IsAdd
    <2>2. Waiting' = Waiting
      BY <2>1, PopWaiting
    <2>3. \/ \E x \in ToSet(mlist) : ToSet(mlist') = ToSet(mlist) \ {x} /\ gone' = gone \cup {x}
          \/ ToSet(mlist') = ToSet(mlist) /\ gone' = gone
      <3>1. mlist \in Seq(Names) /\ IsInjective(mlist)
        BY DEF TypeOK, QueueInv
      <3>2. ASSUME NEW i \in 1 .. Len(mlist), Deletes(i)
            PROVE  \E x \in ToSet(mlist) : ToSet(mlist') = ToSet(mlist) \ {x} /\ gone' = gone \cup {x}
        <4>1. mlist[i] \in ToSet(mlist)
          BY <3>1, Elements
        <4>2. ToSet(mlist') = ToSet(mlist) \ {mlist[i]} /\ gone' = gone \cup {mlist[i]}
          BY <3>1, <3>2, RemoveElements DEF Deletes
        <4> QED
          BY <4>1, <4>2
      <3> QED
        BY <1>5, <3>2, DelFacts
    <2>4. UNCHANGED <<lines, cmdQueue, new_mlist, openers, pmlist>>
      BY <1>5, DelFacts DEF fixed
    <2>5. Added' = Added /\ InFlight' = InFlight
      BY <2>4 DEF Added, Waiting, InFlight, Held
    <2> QED
      BY <2>2, <2>3, <2>4, <2>5 DEF PlaceInv
  <1>6. CASE SWPROD
    <2>1. TakesCommand /\ ~IsAdd(Head(cmds)) /\ UNCHANGED cmdQueue
      BY <1>6, SwitchActions DEF IsAdd
    <2>2. Waiting' = Waiting
      BY <2>1, PopWaiting
    <2>3. UNCHANGED <<lines, cmdQueue, new_mlist, mlist, gone, openers, pmlist>>
      BY <1>6, SwitchActions DEF fixed
    <2>4. Added' = Added /\ InFlight' = InFlight
      BY <2>3 DEF Added, Waiting, InFlight, Held
    <2> QED
      BY <2>2, <2>3, <2>4 DEF PlaceInv
  <1>7. CASE submit_open_materials
    <2>1. InFlight' = InFlight \cup ToSet(new_mlist)
      BY <1>7, SubmitHeld
    <2>2. ToSet(new_mlist') = {}
      BY <1>7, SubmitFacts, EmptyElements
    <2>3. UNCHANGED <<lines, cmdQueue, cmds, mlist, gone, pmlist>>
      BY <1>7 DEF submit_open_materials, mainvars, fixed, history
    <2>4. Added' = Added /\ Waiting' = Waiting
      BY <2>3 DEF Added, Waiting, InFlight, Held
    <2> QED
      BY <2>1, <2>2, <2>3, <2>4 DEF PlaceInv
  <1>8. CASE check_open_materials
    <2>1. \/ ToSet(mlist') = ToSet(mlist) /\ InFlight' = InFlight
          \/ /\ ToSet(mlist') = ToSet(mlist) \cup Held(pmlist) /\ InFlight' = InFlight \ Held(pmlist)
             /\ Held(pmlist) \subseteq InFlight
      <3>1. pmlist' = 0 /\ UNCHANGED openers
        BY <1>8, CheckFacts DEF check_open_materials
      <3>2. CASE pmlist = 0
        BY <1>8, <3>1, <3>2, CheckFacts DEF InFlight, Held
      <3>3. CASE pmlist # 0
        <4>1. pmlist \in DOMAIN openers /\ ToSet(mlist') = ToSet(mlist) \cup Held(pmlist)
          BY <1>8, <3>3, CheckFacts
        <4> QED
          BY <1>8, <3>1, <4>1, CheckHeld, HeldFacts
      <3> QED
        BY <3>2, <3>3
    <2>2. UNCHANGED <<lines, cmdQueue, cmds, new_mlist, gone, openers>>
      BY <1>8 DEF check_open_materials, mainvars, fixed, history
    <2>3. Added' = Added /\ Waiting' = Waiting
      BY <2>2 DEF Added, Waiting, InFlight, Held
    <2> QED
      BY <2>1, <2>2, <2>3 DEF PlaceInv
  <1>9. CASE NoMainFrame
    <2>1. UNCHANGED <<lines, cmdQueue, cmds, new_mlist, mlist, gone, openers, pmlist>>
      BY <1>9 DEF NoMainFrame, mainvars, fixed, history
    <2>2. Added' = Added /\ Waiting' = Waiting /\ InFlight' = InFlight
      BY <2>1 DEF Added, Waiting, InFlight, Held
    <2> QED
      BY <2>1, <2>2 DEF PlaceInv
  <1>10. CASE MainFrame
    <2>1. UNCHANGED <<lines, cmdQueue, cmds, new_mlist, mlist, gone, openers, pmlist>>
      BY <1>10, SwitchActions DEF fixed
    <2>2. Added' = Added /\ Waiting' = Waiting /\ InFlight' = InFlight
      BY <2>1 DEF Added, Waiting, InFlight, Held
    <2> QED
      BY <2>1, <2>2 DEF PlaceInv
  <1>11. CASE Draw
    <2>1. UNCHANGED <<lines, cmdQueue, cmds, new_mlist, mlist, gone, openers, pmlist>>
      BY <1>11 DEF Draw, mainvars, fixed, history
    <2>2. Added' = Added /\ Waiting' = Waiting /\ InFlight' = InFlight
      BY <2>1 DEF Added, Waiting, InFlight, Held
    <2> QED
      BY <2>1, <2>2 DEF PlaceInv
  <1>12. ASSUME NEW t \in DOMAIN openers, OpenNext(t)
        PROVE  PlaceInv'
    <2>1. HeldStays
      BY <1>12, OpenNextFacts, StepHeld DEF OpenNext
    <2>2. InFlight' = InFlight
      BY <2>1 DEF HeldStays
    <2>3. UNCHANGED <<lines, cmdQueue, cmds, new_mlist, mlist, gone, pmlist>>
      BY <1>12 DEF OpenNext, mainvars, fixed, history
    <2>4. Added' = Added /\ Waiting' = Waiting
      BY <2>3 DEF Added, Waiting, InFlight, Held
    <2> QED
      BY <2>2, <2>3, <2>4 DEF PlaceInv
  <1>13. ASSUME NEW t \in DOMAIN openers, OpenFail(t)
        PROVE  PlaceInv'
    <2>1. InFlight' = InFlight \ Held(t) /\ Held(t) = ToSet(openers[t].ms)
      BY <1>13, FailHeld
    <2>2. Held(t) \subseteq InFlight
      BY HeldFacts
    <2>3. gone' = gone \cup Held(t)
      BY <1>13, <2>1 DEF OpenFail
    <2>4. UNCHANGED <<lines, cmdQueue, cmds, new_mlist, mlist, pmlist>>
      BY <1>13 DEF OpenFail, mainvars, fixed, history
    <2>5. Added' = Added /\ Waiting' = Waiting
      BY <2>4 DEF Added, Waiting, InFlight, Held
    <2> QED
      BY <2>1, <2>2, <2>3, <2>4, <2>5 DEF PlaceInv
  <1>14. ASSUME NEW t \in DOMAIN openers, OpenDone(t)
        PROVE  PlaceInv'
    <2>1. HeldStays
      BY <1>14, OpenerMoves, StepHeld DEF OpenDone
    <2>2. InFlight' = InFlight
      BY <2>1 DEF HeldStays
    <2>3. UNCHANGED <<lines, cmdQueue, cmds, new_mlist, mlist, gone, pmlist>>
      BY <1>14 DEF OpenDone, mainvars, fixed, history
    <2>4. Added' = Added /\ Waiting' = Waiting
      BY <2>3 DEF Added, Waiting, InFlight, Held
    <2> QED
      BY <2>2, <2>3, <2>4 DEF PlaceInv
  <1>15. ASSUME NEW t \in DOMAIN openers, Put(t)
        PROVE  PlaceInv'
    <2>1. HeldStays
      BY <1>15, PutHeld
    <2>2. InFlight' = InFlight
      BY <2>1 DEF HeldStays
    <2>3. UNCHANGED <<lines, cmdQueue, cmds, new_mlist, mlist, gone>>
      BY <1>15 DEF Put, mainvars, fixed, history
    <2>4. Added' = Added /\ Waiting' = Waiting
      BY <2>3 DEF Added, Waiting, InFlight, Held
    <2> QED
      BY <2>2, <2>3, <2>4 DEF PlaceInv
  <1>16. CASE UNCHANGED vars
    BY <1>16 DEF vars, mainvars, history, PlaceInv, Added, Waiting, InFlight, Held
  <1> QED
    BY <1>1, <1>2, <1>3, <1>4, <1>5, <1>6, <1>7, <1>8, <1>9, <1>10, <1>11, <1>12, <1>13, <1>14,
       <1>15, <1>16 DEF Next, MainLoop, open_materials_thread_run

-----------------------------------------------------------------------------
(* What the actions do to the decoders.                                     *)

\* A material that no thread has opened yet has no decoder.
LEMMA NotOpened ==
    ASSUME TypeOK, PlaceInv, DecodersOwned
    PROVE  \A m \in ToSet(new_mlist) : m \in Names /\ decoder[m] = "none"
  <1>1. ToSet(new_mlist) \subseteq Names
    BY Elements DEF TypeOK
  <1>2. \A m \in Names : decoder[m] \in {"none", "playing", "stopped", "exited"}
    BY DEF TypeOK
  <1>3. \A m \in ToSet(new_mlist) : m \notin ToSet(mlist) /\ m \notin gone /\ m \notin InFlight
    BY <1>1 DEF PlaceInv
  <1> QED
    BY <1>1, <1>2, <1>3 DEF DecodersOwned

\* The materials of the threads are not listed.
LEMMA NotListed ==
    ASSUME TypeOK, PlaceInv, NEW t \in DOMAIN openers, Active(t), NEW i \in DOMAIN openers[t].ms
    PROVE  /\ openers[t].ms[i] \in Names /\ openers[t].ms[i] \in Held(t)
           /\ openers[t].ms[i] \in InFlight /\ openers[t].ms[i] \notin ToSet(mlist)
           /\ i \in Nat /\ openers[t].k \in Nat
  <1>1. openers[t].ms \in Seq(Names)
    BY OpenerFacts
  <1>2. openers[t].ms[i] \in Names /\ openers[t].ms[i] \in ToSet(openers[t].ms)
    BY <1>1, Elements
  <1>3. openers[t].ms[i] \in Held(t) /\ openers[t].ms[i] \in InFlight
    BY <1>2, HeldFacts
  <1>4. i \in Nat /\ openers[t].k \in Nat
    BY OpenerFacts
  <1> QED
    BY <1>2, <1>3, <1>4 DEF PlaceInv

\* OpenNext opens one material of its batch.
LEMMA OpenNextDecoder ==
    ASSUME TypeOK, CountInv, NEW t \in DOMAIN openers, OpenNext(t)
    PROVE  /\ openers[t].k \in DOMAIN openers[t].ms /\ Active(t)
           /\ LET m == openers[t].ms[openers[t].k]
              IN  /\ m \in Names
                  /\ decoder'[m] = OpenedDecoder(m, openers[t].product)
                  /\ \A x \in Names : x # m => decoder'[x] = decoder[x]
  <1> DEFINE m == openers[t].ms[openers[t].k]
  <1>1. decoder' = [decoder EXCEPT ![m] = OpenedDecoder(m, openers[t].product)]
    BY DEF OpenNext
  <1>2. openers[t].pc = "open" /\ openers[t].k <= Len(openers[t].ms)
    BY DEF OpenNext
  <1>3. openers[t].k \in DOMAIN openers[t].ms
    BY <1>2, OpenerFacts
  <1>4. openers[t].ms \in Seq(Names)
    BY OpenerFacts
  <1>5. m \in Names
    BY <1>3, <1>4
  <1>6. decoder \in [Names -> Decoders]
    BY DEF TypeOK, Decoders
  <1> HIDE DEF m
  <1>7. /\ decoder'[m] = OpenedDecoder(m, openers[t].product)
        /\ \A x \in Names : x # m => decoder'[x] = decoder[x]
    BY <1>1, <1>5, <1>6
  <1> QED
    BY <1>2, <1>3, <1>5, <1>7 DEF m, Active

\* A decoder that runs belongs to a material that is listed or being opened, and
\* one that was told to exit to a material that is gone.
LEMMA OwnedStep ==
    ASSUME TypeOK, CountInv, QueueInv, HeldInv, PlaceInv, DecodersOwned, [Next]_vars
    PROVE  DecodersOwned'
  <1>1. ASSUME NEW l \in Lines, StreamCmd(l)
        PROVE  DecodersOwned'
    <2>1. UNCHANGED <<openers, pmlist, mlist, decoder, gone>>
      BY <1>1 DEF StreamCmd, mainvars, fixed, history
    <2> QED
      BY <2>1 DEF DecodersOwned, InFlight, Held
  <1>2. CASE get_stream_cmds
    <2>1. UNCHANGED <<openers, pmlist, mlist, decoder, gone>>
      BY <1>2 DEF get_stream_cmds, mainvars, fixed, history
    <2> QED
      BY <2>1 DEF DecodersOwned, InFlight, Held
  <1>3. CASE Skip
    <2>1. UNCHANGED <<openers, pmlist, mlist, decoder, gone>>
      BY <1>3 DEF Skip, fixed, history
    <2> QED
      BY <2>1 DEF DecodersOwned, InFlight, Held
  <1>4. CASE ADD
    <2>1. UNCHANGED <<openers, pmlist, mlist, decoder, gone>>
      BY <1>4 DEF ADD, fixed, history
    <2> QED
      BY <2>1 DEF DecodersOwned, InFlight, Held
  <1>5. CASE DEL
    <2>1. /\ UNCHANGED <<openers, pmlist>>
          /\ (\E i \in 1 .. Len(mlist) : Deletes(i)) \/ UNCHANGED <<mlist, decoder, gone>>
      BY <1>5, DelFacts
    <2>2. InFlight' = InFlight
      BY <2>1 DEF InFlight, Held
    <2>3. CASE UNCHANGED <<mlist, decoder, gone>>
      BY <2>2, <2>3 DEF DecodersOwned
    <2>4. ASSUME NEW i \in 1 .. Len(mlist), Deletes(i)
          PROVE  DecodersOwned'
      <3>1. mlist \in Seq(Names) /\ IsInjective(mlist)
        BY DEF TypeOK, QueueInv
      <3>2. ToSet(mlist') = ToSet(mlist) \ {mlist[i]} /\ gone' = gone \cup {mlist[i]}
        BY <2>4, <3>1, RemoveElements DEF Deletes
      <3>3. decoder \in [Names -> Decoders] /\ decoder' = close_material(decoder, {mlist[i]})
        BY <2>4 DEF TypeOK, Decoders, Deletes
      <3>4. /\ \A m \in Names : decoder'[m] \in {"playing", "stopped"} =>
                                   m # mlist[i] /\ decoder'[m] = decoder[m]
            /\ \A m \in Names : decoder'[m] = "exited" => m = mlist[i] \/ decoder[m] = "exited"
        BY <3>3, CloseFacts
      <3> QED
        BY <2>2, <3>2, <3>4 DEF DecodersOwned
    <2> QED
      BY <2>1, <2>3, <2>4
  <1>6. CASE SWPROD
    <2>1. MaySwitch /\ UNCHANGED <<openers, pmlist, mlist, gone>>
      BY <1>6, SwitchActions
    <2>2. InFlight' = InFlight
      BY <2>1 DEF InFlight, Held
    <2>3. CASE UNCHANGED <<product_id, decoder, raced>>
      BY <2>1, <2>2, <2>3 DEF DecodersOwned
    <2>4. ASSUME NEW p \in Int, Switch(p)
          PROVE  DecodersOwned'
      <3>1. /\ \A m \in Names : m \notin ToSet(mlist) => decoder'[m] = decoder[m]
            /\ \A m \in ToSet(mlist) : decoder'[m] \in {"playing", "stopped", decoder[m]}
        BY <2>4, SwitchFacts
      <3> QED
        BY <2>1, <2>2, <3>1 DEF DecodersOwned
    <2> QED
      BY <2>1, <2>3, <2>4 DEF MaySwitch
  <1>7. CASE submit_open_materials
    <2>1. UNCHANGED <<mlist, decoder, gone>> /\ InFlight' = InFlight \cup ToSet(new_mlist)
      BY <1>7, SubmitFacts, SubmitHeld DEF history
    <2> QED
      BY <2>1 DEF DecodersOwned
  <1>8. CASE check_open_materials
    <2>1. pmlist' = 0 /\ UNCHANGED <<openers, decoder, gone>>
      BY <1>8, CheckFacts DEF check_open_materials, history
    <2>2. CASE pmlist = 0
      <3>1. UNCHANGED <<mlist, pmlist>>
        BY <1>8, <2>1, <2>2, CheckFacts
      <3> QED
        BY <2>1, <3>1 DEF DecodersOwned, InFlight, Held
    <2>3. CASE pmlist # 0
      <3>1. pmlist \in DOMAIN openers /\ ToSet(mlist') = ToSet(mlist) \cup Held(pmlist)
        BY <1>8, <2>3, CheckFacts
      <3>2. InFlight' = InFlight \ Held(pmlist)
        BY <1>8, <2>1, <3>1, CheckHeld
      <3> QED
        BY <2>1, <3>1, <3>2 DEF DecodersOwned
    <2> QED
      BY <2>2, <2>3
  <1>9. CASE NoMainFrame
    <2>1. UNCHANGED <<openers, pmlist, mlist, decoder, gone>>
      BY <1>9 DEF NoMainFrame, mainvars, fixed, history
    <2> QED
      BY <2>1 DEF DecodersOwned, InFlight, Held
  <1>10. CASE MainFrame
    <2>1. MaySwitch /\ UNCHANGED <<openers, pmlist, mlist, gone>>
      BY <1>10, SwitchActions
    <2>2. InFlight' = InFlight
      BY <2>1 DEF InFlight, Held
    <2>3. CASE UNCHANGED <<product_id, decoder, raced>>
      BY <2>1, <2>2, <2>3 DEF DecodersOwned
    <2>4. ASSUME NEW p \in Int, Switch(p)
          PROVE  DecodersOwned'
      <3>1. /\ \A m \in Names : m \notin ToSet(mlist) => decoder'[m] = decoder[m]
            /\ \A m \in ToSet(mlist) : decoder'[m] \in {"playing", "stopped", decoder[m]}
        BY <2>4, SwitchFacts
      <3> QED
        BY <2>1, <2>2, <3>1 DEF DecodersOwned
    <2> QED
      BY <2>1, <2>3, <2>4 DEF MaySwitch
  <1>11. CASE Draw
    <2>1. UNCHANGED <<openers, pmlist, mlist, decoder, gone>>
      BY <1>11 DEF Draw, mainvars, fixed, history
    <2> QED
      BY <2>1 DEF DecodersOwned, InFlight, Held
  <1>12. ASSUME NEW t \in DOMAIN openers, OpenNext(t)
        PROVE  DecodersOwned'
    <2>1. HeldStays
      BY <1>12, OpenNextFacts, StepHeld DEF OpenNext
    <2>2. UNCHANGED <<mlist, gone>>
      BY <1>12 DEF OpenNext, mainvars, history
    <2> DEFINE x == openers[t].ms[openers[t].k]
    <2>3. /\ decoder'[x] = OpenedDecoder(x, openers[t].product) /\ x \in InFlight
          /\ \A m \in Names : m # x => decoder'[m] = decoder[m]
      BY <1>12, OpenNextDecoder, NotListed
    <2> HIDE DEF x
    <2>4. decoder'[x] \in {"none", "playing", "stopped"}
      BY <2>3, OpenedFacts
    <2> QED
      BY <2>1, <2>2, <2>3, <2>4 DEF DecodersOwned, HeldStays
  <1>13. ASSUME NEW t \in DOMAIN openers, OpenFail(t)
        PROVE  DecodersOwned'
    <2>1. InFlight' = InFlight \ Held(t) /\ Held(t) = ToSet(openers[t].ms)
      BY <1>13, FailHeld
    <2>2. UNCHANGED mlist /\ gone' = gone \cup Held(t) /\ decoder' = close_material(decoder, Held(t))
      BY <1>13, <2>1 DEF OpenFail, mainvars
    <2>3. decoder \in [Names -> Decoders]
      BY DEF TypeOK, Decoders
    <2>4. /\ \A m \in Names : decoder'[m] \in {"playing", "stopped"} =>
                                 m \notin Held(t) /\ decoder'[m] = decoder[m]
          /\ \A m \in Names : decoder'[m] = "exited" => m \in Held(t) \/ decoder[m] = "exited"
      BY <2>2, <2>3, CloseFacts
    <2> QED
      BY <2>1, <2>2, <2>4 DEF DecodersOwned
  <1>14. ASSUME NEW t \in DOMAIN openers, OpenDone(t)
        PROVE  DecodersOwned'
    <2>1. HeldStays
      BY <1>14, OpenerMoves, StepHeld DEF OpenDone
    <2>2. UNCHANGED <<mlist, decoder, gone>>
      BY <1>14 DEF OpenDone, mainvars, history
    <2> QED
      BY <2>1, <2>2 DEF DecodersOwned, HeldStays
  <1>15. ASSUME NEW t \in DOMAIN openers, Put(t)
        PROVE  DecodersOwned'
    <2>1. HeldStays
      BY <1>15, PutHeld
    <2>2. UNCHANGED <<mlist, decoder, gone>>
      BY <1>15 DEF Put, mainvars, history
    <2> QED
      BY <2>1, <2>2 DEF DecodersOwned, HeldStays
  <1>16. CASE UNCHANGED vars
    BY <1>16 DEF vars, mainvars, history, DecodersOwned, InFlight, Held
  <1> QED
    BY <1>1, <1>2, <1>3, <1>4, <1>5, <1>6, <1>7, <1>8, <1>9, <1>10, <1>11, <1>12, <1>13, <1>14,
       <1>15, <1>16 DEF Next, MainLoop, open_materials_thread_run

\* What a thread has opened stays as it left it, until the material is listed.
LEMMA OpenStep ==
    ASSUME TypeOK, CountInv, QueueInv, HeldInv, PlaceInv, OpenInv, DecodersOwned, [Next]_vars
    PROVE  OpenInv'
  <1>1. ASSUME NEW l \in Lines, StreamCmd(l)
        PROVE  OpenInv'
    <2>1. UNCHANGED <<openers, pmlist, decoder, raced, product_id>>
      BY <1>1 DEF StreamCmd, mainvars, fixed, history
    <2> QED
      BY <2>1 DEF OpenInv, Active
  <1>2. CASE get_stream_cmds
    <2>1. UNCHANGED <<openers, pmlist, decoder, raced, product_id>>
      BY <1>2 DEF get_stream_cmds, mainvars, fixed, history
    <2> QED
      BY <2>1 DEF OpenInv, Active
  <1>3. CASE Skip
    <2>1. UNCHANGED <<openers, pmlist, decoder, raced, product_id>>
      BY <1>3 DEF Skip, fixed, history
    <2> QED
      BY <2>1 DEF OpenInv, Active
  <1>4. CASE ADD
    <2>1. UNCHANGED <<openers, pmlist, decoder, raced, product_id>>
      BY <1>4 DEF ADD, fixed, history
    <2> QED
      BY <2>1 DEF OpenInv, Active
  <1>5. CASE DEL
    <2>1. /\ UNCHANGED <<openers, pmlist, product_id, raced>>
          /\ (\E i \in 1 .. Len(mlist) : Deletes(i)) \/ UNCHANGED <<mlist, decoder, gone>>
      BY <1>5, DelFacts
    <2>2. CASE UNCHANGED <<mlist, decoder, gone>>
      BY <2>1, <2>2 DEF OpenInv, Active
    <2>3. ASSUME NEW j \in 1 .. Len(mlist), Deletes(j)
          PROVE  OpenInv'
      <3>1. decoder \in [Names -> Decoders] /\ decoder' = close_material(decoder, {mlist[j]})
        BY <2>3 DEF TypeOK, Decoders, Deletes
      <3>2. mlist[j] \in ToSet(mlist)
        BY <2>3, Elements DEF TypeOK
      <3>3. \A m \in Names : m \notin ToSet(mlist) => decoder'[m] = decoder[m]
        BY <3>1, <3>2, CloseFacts
      <3> SUFFICES ASSUME NEW t \in DOMAIN openers, Active(t)
                   PROVE  /\ \A i \in DOMAIN openers[t].ms :
                                decoder'[openers[t].ms[i]] = decoder[openers[t].ms[i]]
        BY <2>1 DEF OpenInv, Active
      <3> QED
        BY <3>3, NotListed
    <2> QED
      BY <2>1, <2>2, <2>3
  <1>6. CASE SWPROD
    <2>1. MaySwitch /\ UNCHANGED <<openers, pmlist, mlist>>
      BY <1>6, SwitchActions
    <2>2. CASE UNCHANGED <<product_id, decoder, raced>>
      BY <2>1, <2>2 DEF OpenInv, Active
    <2>3. ASSUME NEW p \in Int, Switch(p)
          PROVE  OpenInv'
      <3>1. /\ \A m \in Names : m \notin ToSet(mlist) => decoder'[m] = decoder[m]
            /\ raced' = raced \cup Unseen
        BY <2>3, SwitchFacts
      <3>2. InFlight \subseteq raced'
        BY <3>1 DEF Unseen
      <3> SUFFICES ASSUME NEW t \in DOMAIN openers, Active(t)
                   PROVE  /\ \A i \in DOMAIN openers[t].ms :
                                /\ decoder'[openers[t].ms[i]] = decoder[openers[t].ms[i]]
                                /\ openers[t].ms[i] \in raced'
        BY <2>1 DEF OpenInv, Active
      <3> QED
        BY <3>1, <3>2, NotListed
    <2> QED
      BY <2>1, <2>2, <2>3 DEF MaySwitch
  <1>7. CASE submit_open_materials
    <2>1. UNCHANGED <<pmlist, product_id, decoder, raced>>
      BY <1>7, SubmitFacts DEF history
    <2> SUFFICES ASSUME NEW t \in DOMAIN openers', Active(t)'
                 PROVE  LET o == openers'[t]
                        IN  /\ \A i \in DOMAIN o.ms :
                                  /\ i < o.k => decoder[o.ms[i]] = OpenedDecoder(o.ms[i], o.product)
                                  /\ i >= o.k => decoder[o.ms[i]] = "none"
                                  /\ o.ms[i] \notin raced => o.product = product_id
                            /\ o.pc # "open" => o.k > Len(o.ms)
      BY <2>1 DEF OpenInv
    <2>2. CASE t \in DOMAIN openers /\ openers'[t] = openers[t]
      BY <2>1, <2>2 DEF OpenInv, Active
    <2>3. CASE /\ openers'[t].ms = new_mlist /\ openers'[t].product = product_id
               /\ openers'[t].pc = "open" /\ openers'[t].k = 1
      <3>1. new_mlist \in Seq(Names)
        BY DEF TypeOK
      <3>2. \A i \in DOMAIN new_mlist : ~(i < 1) /\ new_mlist[i] \in ToSet(new_mlist)
        BY <3>1, Elements
      <3> QED
        BY <2>3, <3>2, NotOpened
    <2> QED
      BY <1>7, <2>2, <2>3, SubmitFacts
  <1>8. CASE check_open_materials
    <2>1. pmlist' = 0 /\ UNCHANGED <<openers, decoder, product_id, raced>>
      BY <1>8, CheckFacts DEF check_open_materials, history
    <2>2. \A t \in DOMAIN openers : Active(t)' => Active(t)
      BY <2>1, OpenerFacts DEF Active
    <2> QED
      BY <2>1, <2>2 DEF OpenInv
  <1>9. CASE NoMainFrame
    <2>1. UNCHANGED <<openers, pmlist, decoder, raced, product_id>>
      BY <1>9 DEF NoMainFrame, mainvars, fixed, history
    <2> QED
      BY <2>1 DEF OpenInv, Active
  <1>10. CASE MainFrame
    <2>1. MaySwitch /\ UNCHANGED <<openers, pmlist, mlist>>
      BY <1>10, SwitchActions
    <2>2. CASE UNCHANGED <<product_id, decoder, raced>>
      BY <2>1, <2>2 DEF OpenInv, Active
    <2>3. ASSUME NEW p \in Int, Switch(p)
          PROVE  OpenInv'
      <3>1. /\ \A m \in Names : m \notin ToSet(mlist) => decoder'[m] = decoder[m]
            /\ raced' = raced \cup Unseen
        BY <2>3, SwitchFacts
      <3>2. InFlight \subseteq raced'
        BY <3>1 DEF Unseen
      <3> SUFFICES ASSUME NEW t \in DOMAIN openers, Active(t)
                   PROVE  /\ \A i \in DOMAIN openers[t].ms :
                                /\ decoder'[openers[t].ms[i]] = decoder[openers[t].ms[i]]
                                /\ openers[t].ms[i] \in raced'
        BY <2>1 DEF OpenInv, Active
      <3> QED
        BY <3>1, <3>2, NotListed
    <2> QED
      BY <2>1, <2>2, <2>3 DEF MaySwitch
  <1>11. CASE Draw
    <2>1. UNCHANGED <<openers, pmlist, decoder, raced, product_id>>
      BY <1>11 DEF Draw, mainvars, fixed, history
    <2> QED
      BY <2>1 DEF OpenInv, Active
  <1>12. ASSUME NEW t \in DOMAIN openers, OpenNext(t)
        PROVE  OpenInv'
    <2>1. OpenerStep(t, "open", openers[t].k + 1) /\ openers[t].pc = "open"
      BY <1>12, OpenNextFacts
    <2>2. UNCHANGED <<pmlist, product_id, raced>>
      BY <1>12 DEF OpenNext, mainvars, history
    <2> DEFINE k == openers[t].k
               x == openers[t].ms[k]
    <2>3. /\ k \in DOMAIN openers[t].ms /\ Active(t)
          /\ x \in Names /\ decoder'[x] = OpenedDecoder(x, openers[t].product)
          /\ \A m \in Names : m # x => decoder'[m] = decoder[m]
      BY <1>12, OpenNextDecoder
    <2>4. x \in Held(t) /\ k \in Nat
      BY <2>3, NotListed
    <2>5. openers'[t].ms = openers[t].ms /\ openers'[t].product = openers[t].product
      BY <2>1 DEF OpenerStep
    <2>6. openers'[t].k = k + 1 /\ openers'[t].pc = "open"
      BY <2>1 DEF OpenerStep
    <2> HIDE DEF k
    <2> SUFFICES ASSUME NEW u \in DOMAIN openers, Active(u)'
                 PROVE  LET o == openers'[u]
                        IN  /\ \A i \in DOMAIN o.ms :
                                  /\ i < o.k => decoder'[o.ms[i]] = OpenedDecoder(o.ms[i], o.product)
                                  /\ i >= o.k => decoder'[o.ms[i]] = "none"
                                  /\ o.ms[i] \notin raced => o.product = product_id
                            /\ o.pc # "open" => o.k > Len(o.ms)
      BY <2>1, <2>2 DEF OpenInv, OpenerStep
    <2>7. CASE u = t
      <3>1. ASSUME NEW i \in DOMAIN openers[t].ms
            PROVE  /\ i < k + 1 => decoder'[openers[t].ms[i]] =
                                      OpenedDecoder(openers[t].ms[i], openers[t].product)
                   /\ i >= k + 1 => decoder'[openers[t].ms[i]] = "none"
                   /\ openers[t].ms[i] \notin raced => openers[t].product = product_id
        <4>1. i \in Nat /\ openers[t].ms[i] \in Names
          BY <2>3, <3>1, NotListed
        <4>2. i = k \/ openers[t].ms[i] # x
          BY <2>3, <3>1 DEF QueueInv, IsInjective
        <4>3. /\ i < k => decoder[openers[t].ms[i]] =
                             OpenedDecoder(openers[t].ms[i], openers[t].product)
              /\ i >= k => decoder[openers[t].ms[i]] = "none"
              /\ openers[t].ms[i] \notin raced => openers[t].product = product_id
          BY <2>3, <3>1 DEF OpenInv, k
        <4>4. CASE i = k
          BY <2>3, <2>4, <4>3, <4>4
        <4>5. CASE i # k
          <5>1. (i < k + 1 => i < k) /\ (i >= k + 1 => i >= k)
            BY <2>4, <4>1, <4>5
          <5>2. decoder'[openers[t].ms[i]] = decoder[openers[t].ms[i]]
            BY <2>3, <4>1, <4>2, <4>5
          <5> QED
            BY <4>3, <5>1, <5>2
        <4> QED
          BY <4>4, <4>5
      <3> QED
        BY <2>5, <2>6, <2>7, <3>1
    <2>8. CASE u # t
      <3>1. openers'[u] = openers[u] /\ Active(u)
        BY <2>1, <2>2, <2>8 DEF OpenerStep, Active
      <3>2. Held(u) \cap Held(t) = {}
        BY <2>8 DEF HeldInv
      <3>3. \A i \in DOMAIN openers[u].ms : decoder'[openers[u].ms[i]] = decoder[openers[u].ms[i]]
        BY <2>3, <2>4, <3>1, <3>2, NotListed
      <3> QED
        BY <3>1, <3>3 DEF OpenInv
    <2> QED
      BY <2>7, <2>8
  <1>13. ASSUME NEW t \in DOMAIN openers, OpenFail(t)
        PROVE  OpenInv'
    <2>1. OpenerStep(t, "done", openers[t].k) /\ openers[t].pc = "open"
      BY <1>13, OpenerMoves
    <2>2. pmlist # t /\ UNCHANGED pmlist /\ Held(t) = ToSet(openers[t].ms)
      BY <1>13, FailHeld
    <2>3. UNCHANGED <<product_id, raced>> /\ decoder' = close_material(decoder, Held(t))
      BY <1>13, <2>2 DEF OpenFail, mainvars, history
    <2>4. decoder \in [Names -> Decoders]
      BY DEF TypeOK, Decoders
    <2>5. \A m \in Names : m \notin Held(t) => decoder'[m] = decoder[m]
      BY <2>3, <2>4, CloseFacts
    <2>6. \A u \in DOMAIN openers : Active(u)' => u # t /\ Active(u) /\ openers'[u] = openers[u]
      BY <2>1, <2>2 DEF Active, OpenerStep
    <2>7. ASSUME NEW u \in DOMAIN openers, u # t, Active(u), NEW i \in DOMAIN openers[u].ms
          PROVE  decoder'[openers[u].ms[i]] = decoder[openers[u].ms[i]]
      <3>1. openers[u].ms[i] \in Names /\ openers[u].ms[i] \in Held(u)
        BY <2>7, NotListed
      <3>2. Held(u) \cap Held(t) = {}
        BY <2>7 DEF HeldInv
      <3> QED
        BY <2>5, <3>1, <3>2
    <2> SUFFICES ASSUME NEW u \in DOMAIN openers, Active(u)'
                 PROVE  LET o == openers'[u]
                        IN  /\ \A i \in DOMAIN o.ms :
                                  /\ i < o.k => decoder'[o.ms[i]] = OpenedDecoder(o.ms[i], o.product)
                                  /\ i >= o.k => decoder'[o.ms[i]] = "none"
                                  /\ o.ms[i] \notin raced => o.product = product_id
                            /\ o.pc # "open" => o.k > Len(o.ms)
      BY <2>1, <2>3 DEF OpenInv, OpenerStep
    <2>8. Active(u) /\ openers'[u] = openers[u] /\ u # t
      BY <2>6
    <2> QED
      BY <2>3, <2>7, <2>8 DEF OpenInv
  <1>14. ASSUME NEW t \in DOMAIN openers, OpenDone(t)
        PROVE  OpenInv'
    <2>1. OpenerStep(t, "put", openers[t].k) /\ openers[t].pc = "open"
      BY <1>14, OpenerMoves
    <2>2. UNCHANGED <<pmlist, product_id, decoder, raced>> /\ openers[t].k > Len(openers[t].ms)
      BY <1>14 DEF OpenDone, mainvars, history
    <2> SUFFICES ASSUME NEW u \in DOMAIN openers, Active(u)'
                 PROVE  LET o == openers'[u]
                        IN  /\ \A i \in DOMAIN o.ms :
                                  /\ i < o.k => decoder'[o.ms[i]] = OpenedDecoder(o.ms[i], o.product)
                                  /\ i >= o.k => decoder'[o.ms[i]] = "none"
                                  /\ o.ms[i] \notin raced => o.product = product_id
                            /\ o.pc # "open" => o.k > Len(o.ms)
      BY <2>1, <2>2 DEF OpenInv, OpenerStep
    <2>3. CASE u = t
      <3>1. Active(u)
        BY <2>1, <2>3 DEF Active
      <3> QED
        BY <2>1, <2>2, <2>3, <3>1 DEF OpenInv, OpenerStep
    <2>4. CASE u # t
      <3>1. openers'[u] = openers[u] /\ Active(u)
        BY <2>1, <2>2, <2>4 DEF OpenerStep, Active
      <3> QED
        BY <2>2, <3>1 DEF OpenInv
    <2> QED
      BY <2>3, <2>4
  <1>15. ASSUME NEW t \in DOMAIN openers, Put(t)
        PROVE  OpenInv'
    <2>1. UNCHANGED <<product_id, decoder, raced>>
      BY <1>15 DEF Put, mainvars, history
    <2>2. CASE openers' = openers /\ pmlist' = pmlist
      BY <2>1, <2>2 DEF OpenInv, Active
    <2>3. CASE /\ OpenerStep(t, "done", openers[t].k) /\ openers[t].pc = "put"
               /\ pmlist = 0 /\ pmlist' = t
      <3> SUFFICES ASSUME NEW u \in DOMAIN openers, Active(u)'
                   PROVE  LET o == openers'[u]
                          IN  /\ \A i \in DOMAIN o.ms :
                                    /\ i < o.k => decoder'[o.ms[i]] = OpenedDecoder(o.ms[i], o.product)
                                    /\ i >= o.k => decoder'[o.ms[i]] = "none"
                                    /\ o.ms[i] \notin raced => o.product = product_id
                              /\ o.pc # "open" => o.k > Len(o.ms)
        BY <2>1, <2>3 DEF OpenInv, OpenerStep
      <3>1. CASE u = t
        <4>1. Active(u) /\ openers[u].pc # "open"
          BY <2>3, <3>1 DEF Active
        <4> QED
          BY <2>1, <2>3, <3>1, <4>1 DEF OpenInv, OpenerStep
      <3>2. CASE u # t
        <4>1. openers'[u] = openers[u] /\ Active(u)
          BY <2>3, <3>2 DEF OpenerStep, Active
        <4> QED
          BY <2>1, <4>1 DEF OpenInv
      <3> QED
        BY <3>1, <3>2
    <2> QED
      BY <1>15, <2>2, <2>3, OpenerMoves
  <1>16. CASE UNCHANGED vars
    BY <1>16 DEF vars, mainvars, history, OpenInv, Active
  <1> QED
    BY <1>1, <1>2, <1>3, <1>4, <1>5, <1>6, <1>7, <1>8, <1>9, <1>10, <1>11, <1>12, <1>13, <1>14,
       <1>15, <1>16 DEF Next, MainLoop, open_materials_thread_run

-----------------------------------------------------------------------------
(* What is drawn.                                                           *)

\* A prefix of a list agrees with it.
LEMMA PrefixFacts ==
    ASSUME NEW S, NEW p \in Seq(S), NEW q \in Seq(S), IsPrefix(p, q)
    PROVE  /\ Len(p) \in 0 .. Len(q)
           /\ \A i \in 1 .. Len(p) : p[i] = q[i]
  <1>1. Len(p) <= Len(q) /\ Len(p) \in Nat /\ Len(q) \in Nat
    BY DEF IsPrefix
  <1>2. SubSeq(p, 1, Len(p)) = SubSeq(q, 1, Len(p))
    BY DEF IsPrefix
  <1>3. \A i \in 1 .. Len(p) : SubSeq(p, 1, Len(p))[i] = p[i]
    BY <1>1
  <1>4. \A i \in 1 .. Len(p) : SubSeq(q, 1, Len(p))[i] = q[i]
    BY <1>1
  <1> QED
    BY <1>1, <1>2, <1>3, <1>4

\* A switch, a deletion and the mailbox leave the listed decoders right for the
\* current product.
LEMMA SwitchedStep ==
    ASSUME TypeOK, CountInv, QueueInv, HeldInv, PlaceInv, OpenInv, SwitchedDecoders, [Next]_vars
    PROVE  SwitchedDecoders'
  <1>1. ASSUME NEW l \in Lines, StreamCmd(l)
        PROVE  SwitchedDecoders'
    <2>1. UNCHANGED <<mlist, decoder, raced, product_id>>
      BY <1>1 DEF StreamCmd, mainvars, fixed, history
    <2> QED
      BY <2>1 DEF SwitchedDecoders
  <1>2. CASE get_stream_cmds
    <2>1. UNCHANGED <<mlist, decoder, raced, product_id>>
      BY <1>2 DEF get_stream_cmds, mainvars, fixed, history
    <2> QED
      BY <2>1 DEF SwitchedDecoders
  <1>3. CASE Skip
    <2>1. UNCHANGED <<mlist, decoder, raced, product_id>>
      BY <1>3 DEF Skip, fixed, history
    <2> QED
      BY <2>1 DEF SwitchedDecoders
  <1>4. CASE ADD
    <2>1. UNCHANGED <<mlist, decoder, raced, product_id>>
      BY <1>4 DEF ADD, fixed, history
    <2> QED
      BY <2>1 DEF SwitchedDecoders
  <1>5. CASE DEL
    <2>1. /\ UNCHANGED <<product_id, raced>>
          /\ (\E i \in 1 .. Len(mlist) : Deletes(i)) \/ UNCHANGED <<mlist, decoder, gone>>
      BY <1>5, DelFacts
    <2>2. CASE UNCHANGED <<mlist, decoder, gone>>
      BY <2>1, <2>2 DEF SwitchedDecoders
    <2>3. ASSUME NEW i \in 1 .. Len(mlist), Deletes(i)
          PROVE  SwitchedDecoders'
      <3>1. mlist \in Seq(Names) /\ IsInjective(mlist)
        BY DEF TypeOK, QueueInv
      <3>2. ToSet(mlist') = ToSet(mlist) \ {mlist[i]} /\ ToSet(mlist) \subseteq Names
        BY <2>3, <3>1, RemoveElements, Elements DEF Deletes
      <3>3. decoder \in [Names -> Decoders] /\ decoder' = close_material(decoder, {mlist[i]})
        BY <2>3 DEF TypeOK, Decoders, Deletes
      <3>4. \A m \in Names : m # mlist[i] => decoder'[m] = decoder[m]
        BY <3>3, CloseFacts
      <3> QED
        BY <2>1, <3>2, <3>4 DEF SwitchedDecoders
    <2> QED
      BY <2>1, <2>2, <2>3
  <1>6. CASE SWPROD
    <2>1. MaySwitch /\ UNCHANGED mlist
      BY <1>6, SwitchActions
    <2>2. CASE UNCHANGED <<product_id, decoder, raced>>
      BY <2>1, <2>2 DEF SwitchedDecoders
    <2>3. ASSUME NEW p \in Int, p # product_id, Switch(p)
          PROVE  SwitchedDecoders'
      <3> SUFFICES ASSUME NEW m \in ToSet(mlist), m \notin raced', HasDecoder(m)
                   PROVE  decoder'[m] = "playing" <=> Info[m].product \in {0, p}
        BY <2>1, <2>3, SwitchFacts DEF SwitchedDecoders, HasDecoder
      <3>1. m \notin raced /\ product_id > 0
        BY <2>3, SwitchFacts DEF Unseen
      <3>2. decoder[m] = "playing" <=> Info[m].product \in {0, product_id}
        BY <3>1 DEF SwitchedDecoders
      <3>3. CASE Info[m].product \in {0} \/ Info[m].product \notin {product_id, p}
        <4>1. decoder'[m] = decoder[m]
          BY <2>3, <3>3, SwitchFacts
        <4> QED
          BY <3>2, <3>3, <4>1
      <3>4. CASE Info[m].product # 0 /\ Info[m].product = product_id
        <4>1. decoder'[m] = "stopped"
          BY <2>3, <3>4, SwitchFacts
        <4> QED
          BY <2>3, <3>4, <4>1
      <3>5. CASE Info[m].product # 0 /\ Info[m].product = p
        <4>1. decoder'[m] = "playing"
          BY <2>3, <3>5, SwitchFacts
        <4> QED
          BY <3>5, <4>1
      <3> QED
        BY <3>3, <3>4, <3>5
    <2> QED
      BY <2>1, <2>2, <2>3 DEF MaySwitch
  <1>7. CASE submit_open_materials
    <2>1. UNCHANGED <<mlist, decoder, raced, product_id>>
      BY <1>7 DEF submit_open_materials, mainvars, fixed, history
    <2> QED
      BY <2>1 DEF SwitchedDecoders
  <1>8. CASE check_open_materials
    <2>1. UNCHANGED <<decoder, product_id, raced>> /\ product_id \in Int
      BY <1>8 DEF check_open_materials, history, TypeOK
    <2>2. CASE pmlist = 0
      <3>1. UNCHANGED mlist
        BY <1>8, <2>2, CheckFacts
      <3> QED
        BY <2>1, <3>1 DEF SwitchedDecoders
    <2>3. CASE pmlist # 0
      <3> DEFINE o == openers[pmlist]
      <3>1. /\ pmlist \in DOMAIN openers /\ ToSet(mlist') = ToSet(mlist) \cup Held(pmlist)
            /\ Held(pmlist) = ToSet(o.ms)
        BY <1>8, <2>3, CheckFacts
      <3>2. Active(pmlist) /\ o.pc # "open"
        BY <2>3 DEF Active, HeldInv
      <3>3. /\ \A i \in DOMAIN o.ms :
                  /\ i < o.k => decoder[o.ms[i]] = OpenedDecoder(o.ms[i], o.product)
                  /\ o.ms[i] \notin raced => o.product = product_id
            /\ o.k > Len(o.ms)
        BY <3>1, <3>2 DEF OpenInv
      <3>4. /\ o.ms \in Seq(Names) /\ o.k \in Nat
        BY <3>1, OpenerFacts
      <3> HIDE DEF o
      <3>5. ASSUME NEW m \in ToSet(o.ms), m \notin raced, HasDecoder(m), product_id > 0
            PROVE  decoder[m] = "playing" <=> Info[m].product \in {0, product_id}
        <4>1. PICK i \in DOMAIN o.ms : m = o.ms[i]
          BY <3>4, Elements
        <4>2. i < o.k /\ m \in Names
          BY <3>3, <3>4, <4>1
        <4>3. decoder[m] = OpenedDecoder(m, product_id)
          BY <3>3, <3>5, <4>1, <4>2
        <4>4. Info[m].product \in Nat
          BY <4>2, MaterialsAssumption
        <4> QED
          BY <2>1, <3>5, <4>3, <4>4 DEF OpenedDecoder
      <3> QED
        BY <2>1, <3>1, <3>5 DEF SwitchedDecoders, HasDecoder
    <2> QED
      BY <2>2, <2>3
  <1>9. CASE NoMainFrame
    <2>1. UNCHANGED <<mlist, decoder, raced, product_id>>
      BY <1>9 DEF NoMainFrame, mainvars, fixed, history
    <2> QED
      BY <2>1 DEF SwitchedDecoders
  <1>10. CASE MainFrame
    <2>1. MaySwitch /\ UNCHANGED mlist
      BY <1>10, SwitchActions
    <2>2. CASE UNCHANGED <<product_id, decoder, raced>>
      BY <2>1, <2>2 DEF SwitchedDecoders
    <2>3. ASSUME NEW p \in Int, p # product_id, Switch(p)
          PROVE  SwitchedDecoders'
      <3> SUFFICES ASSUME NEW m \in ToSet(mlist), m \notin raced', HasDecoder(m)
                   PROVE  decoder'[m] = "playing" <=> Info[m].product \in {0, p}
        BY <2>1, <2>3, SwitchFacts DEF SwitchedDecoders, HasDecoder
      <3>1. m \notin raced /\ product_id > 0
        BY <2>3, SwitchFacts DEF Unseen
      <3>2. decoder[m] = "playing" <=> Info[m].product \in {0, product_id}
        BY <3>1 DEF SwitchedDecoders
      <3>3. CASE Info[m].product \in {0} \/ Info[m].product \notin {product_id, p}
        <4>1. decoder'[m] = decoder[m]
          BY <2>3, <3>3, SwitchFacts
        <4> QED
          BY <3>2, <3>3, <4>1
      <3>4. CASE Info[m].product # 0 /\ Info[m].product = product_id
        <4>1. decoder'[m] = "stopped"
          BY <2>3, <3>4, SwitchFacts
        <4> QED
          BY <2>3, <3>4, <4>1
      <3>5. CASE Info[m].product # 0 /\ Info[m].product = p
        <4>1. decoder'[m] = "playing"
          BY <2>3, <3>5, SwitchFacts
        <4> QED
          BY <3>5, <4>1
      <3> QED
        BY <3>3, <3>4, <3>5
    <2> QED
      BY <2>1, <2>2, <2>3 DEF MaySwitch
  <1>11. CASE Draw
    <2>1. UNCHANGED <<mlist, decoder, raced, product_id>>
      BY <1>11 DEF Draw, mainvars, fixed, history
    <2> QED
      BY <2>1 DEF SwitchedDecoders
  <1>12. ASSUME NEW t \in DOMAIN openers, OpenNext(t)
        PROVE  SwitchedDecoders'
    <2>1. UNCHANGED <<mlist, product_id, raced>>
      BY <1>12 DEF OpenNext, mainvars, history
    <2> DEFINE x == openers[t].ms[openers[t].k]
    <2>2. x \notin ToSet(mlist) /\ \A m \in Names : m # x => decoder'[m] = decoder[m]
      BY <1>12, OpenNextDecoder, NotListed
    <2>3. ToSet(mlist) \subseteq Names
      BY Elements DEF TypeOK
    <2> HIDE DEF x
    <2> QED
      BY <2>1, <2>2, <2>3 DEF SwitchedDecoders
  <1>13. ASSUME NEW t \in DOMAIN openers, OpenFail(t)
        PROVE  SwitchedDecoders'
    <2>1. UNCHANGED <<mlist, product_id, raced>>
      BY <1>13 DEF OpenFail, mainvars, history
    <2>2. Held(t) = ToSet(openers[t].ms)
      BY <1>13, FailHeld
    <2>3. decoder' = close_material(decoder, Held(t)) /\ decoder \in [Names -> Decoders]
      BY <1>13, <2>2 DEF OpenFail, TypeOK, Decoders
    <2>4. \A m \in Names : m \notin Held(t) => decoder'[m] = decoder[m]
      BY <2>3, CloseFacts
    <2>5. \A m \in ToSet(mlist) : m \in Names
      BY Elements DEF TypeOK
    <2>6. \A m \in ToSet(mlist) : m \notin Held(t)
      BY <2>5, HeldFacts DEF PlaceInv
    <2> QED
      BY <2>1, <2>4, <2>5, <2>6 DEF SwitchedDecoders
  <1>14. ASSUME NEW t \in DOMAIN openers, OpenDone(t)
        PROVE  SwitchedDecoders'
    <2>1. UNCHANGED <<mlist, decoder, raced, product_id>>
      BY <1>14 DEF OpenDone, mainvars, fixed, history
    <2> QED
      BY <2>1 DEF SwitchedDecoders
  <1>15. ASSUME NEW t \in DOMAIN openers, Put(t)
        PROVE  SwitchedDecoders'
    <2>1. UNCHANGED <<mlist, decoder, raced, product_id>>
      BY <1>15 DEF Put, mainvars, fixed, history
    <2> QED
      BY <2>1 DEF SwitchedDecoders
  <1>16. CASE UNCHANGED vars
    BY <1>16 DEF vars, mainvars, history, SwitchedDecoders
  <1> QED
    BY <1>1, <1>2, <1>3, <1>4, <1>5, <1>6, <1>7, <1>8, <1>9, <1>10, <1>11, <1>12, <1>13, <1>14,
       <1>15, <1>16 DEF Next, MainLoop, open_materials_thread_run

\* The list stays in the order of the layers.
LEMMA LayersStep ==
    ASSUME TypeOK, CountInv, QueueInv, HeldInv, PlaceInv, LayersInOrder, [Next]_vars
    PROVE  LayersInOrder'
  <1>1. ASSUME NEW l \in Lines, StreamCmd(l)
        PROVE  LayersInOrder'
    <2>1. UNCHANGED <<mlist>>
      BY <1>1 DEF StreamCmd, mainvars, fixed, history
    <2> QED
      BY <2>1 DEF LayersInOrder
  <1>2. CASE get_stream_cmds
    <2>1. UNCHANGED <<mlist>>
      BY <1>2 DEF get_stream_cmds, mainvars, fixed, history
    <2> QED
      BY <2>1 DEF LayersInOrder
  <1>3. CASE Skip
    <2>1. UNCHANGED <<mlist>>
      BY <1>3 DEF Skip, fixed, history
    <2> QED
      BY <2>1 DEF LayersInOrder
  <1>4. CASE ADD
    <2>1. UNCHANGED <<mlist>>
      BY <1>4 DEF ADD, fixed, history
    <2> QED
      BY <2>1 DEF LayersInOrder
  <1>5. CASE DEL
    <2>1. mlist \in Seq(Names) /\ InOrder(mlist)
      BY DEF TypeOK, LayersInOrder, InOrder
    <2>2. (\E i \in 1 .. Len(mlist) : Deletes(i)) \/ UNCHANGED <<mlist, decoder, gone>>
      BY <1>5, DelFacts
    <2>3. InOrder(mlist')
      BY <2>1, <2>2, RemoveInOrder DEF Deletes
    <2> QED
      BY <2>3 DEF LayersInOrder, InOrder
  <1>6. CASE SWPROD
    <2>1. UNCHANGED <<mlist>>
      BY <1>6, SwitchActions DEF fixed
    <2> QED
      BY <2>1 DEF LayersInOrder
  <1>7. CASE submit_open_materials
    <2>1. UNCHANGED <<mlist>>
      BY <1>7 DEF submit_open_materials, mainvars, fixed, history
    <2> QED
      BY <2>1 DEF LayersInOrder
  <1>8. CASE check_open_materials
    <2>1. mlist' = mlist \/ InOrder(mlist')
      BY <1>8, CheckFacts
    <2> QED
      BY <2>1 DEF LayersInOrder, InOrder
  <1>9. CASE NoMainFrame
    <2>1. UNCHANGED <<mlist>>
      BY <1>9 DEF NoMainFrame, mainvars, fixed, history
    <2> QED
      BY <2>1 DEF LayersInOrder
  <1>10. CASE MainFrame
    <2>1. UNCHANGED <<mlist>>
      BY <1>10, SwitchActions DEF fixed
    <2> QED
      BY <2>1 DEF LayersInOrder
  <1>11. CASE Draw
    <2>1. UNCHANGED <<mlist>>
      BY <1>11 DEF Draw, mainvars, fixed, history
    <2> QED
      BY <2>1 DEF LayersInOrder
  <1>12. ASSUME NEW t \in DOMAIN openers, OpenNext(t)
        PROVE  LayersInOrder'
    <2>1. UNCHANGED <<mlist>>
      BY <1>12 DEF OpenNext, mainvars, fixed, history
    <2> QED
      BY <2>1 DEF LayersInOrder
  <1>13. ASSUME NEW t \in DOMAIN openers, OpenFail(t)
        PROVE  LayersInOrder'
    <2>1. UNCHANGED <<mlist>>
      BY <1>13 DEF OpenFail, mainvars, fixed, history
    <2> QED
      BY <2>1 DEF LayersInOrder
  <1>14. ASSUME NEW t \in DOMAIN openers, OpenDone(t)
        PROVE  LayersInOrder'
    <2>1. UNCHANGED <<mlist>>
      BY <1>14 DEF OpenDone, mainvars, fixed, history
    <2> QED
      BY <2>1 DEF LayersInOrder
  <1>15. ASSUME NEW t \in DOMAIN openers, Put(t)
        PROVE  LayersInOrder'
    <2>1. UNCHANGED <<mlist>>
      BY <1>15 DEF Put, mainvars, fixed, history
    <2> QED
      BY <2>1 DEF LayersInOrder
  <1>16. CASE UNCHANGED vars
    BY <1>16 DEF vars, mainvars, LayersInOrder
  <1> QED
    BY <1>1, <1>2, <1>3, <1>4, <1>5, <1>6, <1>7, <1>8, <1>9, <1>10, <1>11, <1>12, <1>13, <1>14,
       <1>15, <1>16 DEF Next, MainLoop, open_materials_thread_run

\* Nothing is drawn between the top of the loop and the end of the frame, and the
\* background never changes.
LEMMA DrawStep ==
    ASSUME TypeOK, DrawInv, [Next]_vars
    PROVE  DrawInv'
  <1>1. ASSUME NEW l \in Lines, StreamCmd(l)
        PROVE  DrawInv'
    <2>1. UNCHANGED <<mpc, drawn, static_idx, background>>
      BY <1>1 DEF StreamCmd, mainvars, fixed, history
    <2> QED
      BY <2>1 DEF DrawInv
  <1>2. CASE get_stream_cmds
    <2>1. UNCHANGED <<static_idx, background>>
      BY <1>2 DEF get_stream_cmds, mainvars, fixed, history
    <2> QED
      BY <1>2, <2>1 DEF get_stream_cmds, DrawInv
  <1>3. CASE Skip
    <2>1. UNCHANGED <<mpc, drawn, static_idx, background>>
      BY <1>3 DEF Skip, fixed, history
    <2> QED
      BY <2>1 DEF DrawInv
  <1>4. CASE ADD
    <2>1. UNCHANGED <<mpc, drawn, static_idx, background>>
      BY <1>4 DEF ADD, fixed, history
    <2> QED
      BY <2>1 DEF DrawInv
  <1>5. CASE DEL
    <2>1. UNCHANGED <<mpc, drawn, static_idx, background>>
      BY <1>5, DelFacts DEF fixed
    <2> QED
      BY <2>1 DEF DrawInv
  <1>6. CASE SWPROD
    <2>1. UNCHANGED <<mpc, drawn, static_idx, background>>
      BY <1>6, SwitchActions DEF fixed
    <2> QED
      BY <2>1 DEF DrawInv
  <1>7. CASE submit_open_materials
    <2>1. UNCHANGED <<drawn, static_idx, background>>
      BY <1>7 DEF submit_open_materials, mainvars, fixed, history
    <2> QED
      BY <1>7, <2>1, SubmitFacts DEF DrawInv
  <1>8. CASE check_open_materials
    <2>1. UNCHANGED <<drawn, static_idx, background>>
      BY <1>8 DEF check_open_materials, mainvars, fixed, history
    <2> QED
      BY <1>8, <2>1 DEF check_open_materials, DrawInv
  <1>9. CASE NoMainFrame
    <2>1. UNCHANGED <<drawn, static_idx, background>>
      BY <1>9 DEF NoMainFrame, mainvars, fixed, history
    <2> QED
      BY <1>9, <2>1 DEF NoMainFrame, DrawInv
  <1>10. CASE MainFrame
    <2>1. UNCHANGED <<drawn, static_idx, background>>
      BY <1>10, SwitchActions DEF fixed
    <2> QED
      BY <1>10, <2>1, SwitchActions DEF DrawInv
  <1>11. CASE Draw
    <2>1. UNCHANGED <<static_idx, background>>
      BY <1>11 DEF Draw, mainvars, fixed, history
    <2> QED
      BY <1>11, <2>1 DEF Draw, DrawInv
  <1>12. ASSUME NEW t \in DOMAIN openers, OpenNext(t)
        PROVE  DrawInv'
    <2>1. UNCHANGED <<mpc, drawn, static_idx, background>>
      BY <1>12 DEF OpenNext, mainvars, fixed, history
    <2> QED
      BY <2>1 DEF DrawInv
  <1>13. ASSUME NEW t \in DOMAIN openers, OpenFail(t)
        PROVE  DrawInv'
    <2>1. UNCHANGED <<mpc, drawn, static_idx, background>>
      BY <1>13 DEF OpenFail, mainvars, fixed, history
    <2> QED
      BY <2>1 DEF DrawInv
  <1>14. ASSUME NEW t \in DOMAIN openers, OpenDone(t)
        PROVE  DrawInv'
    <2>1. UNCHANGED <<mpc, drawn, static_idx, background>>
      BY <1>14 DEF OpenDone, mainvars, fixed, history
    <2> QED
      BY <2>1 DEF DrawInv
  <1>15. ASSUME NEW t \in DOMAIN openers, Put(t)
        PROVE  DrawInv'
    <2>1. UNCHANGED <<mpc, drawn, static_idx, background>>
      BY <1>15 DEF Put, mainvars, fixed, history
    <2> QED
      BY <2>1 DEF DrawInv
  <1>16. CASE UNCHANGED vars
    BY <1>16 DEF vars, mainvars, fixed, DrawInv
  <1> QED
    BY <1>1, <1>2, <1>3, <1>4, <1>5, <1>6, <1>7, <1>8, <1>9, <1>10, <1>11, <1>12, <1>13, <1>14,
       <1>15, <1>16 DEF Next, MainLoop, open_materials_thread_run

\* A frame shows what is listed, and the list does not change before the next one
\* is begun.
LEMMA DrawnStep ==
    ASSUME TypeOK, QueueInv, DrawInv, DrawsWhatIsListed, [Next]_vars
    PROVE  DrawsWhatIsListed'
  <1>1. ASSUME NEW l \in Lines, StreamCmd(l)
        PROVE  DrawsWhatIsListed'
    <2>1. UNCHANGED <<mpc, drawn, background, mlist, product_id>>
      BY <1>1 DEF StreamCmd, mainvars, fixed, history
    <2> QED
      BY <2>1 DEF DrawsWhatIsListed
  <1>2. CASE get_stream_cmds
    <2>1. mpc' # "top"
      BY <1>2 DEF get_stream_cmds
    <2> QED
      BY <2>1 DEF DrawsWhatIsListed
  <1>3. CASE Skip
    <2>1. mpc' # "top"
      BY <1>3 DEF Skip
    <2> QED
      BY <2>1 DEF DrawsWhatIsListed
  <1>4. CASE ADD
    <2>1. mpc' # "top"
      BY <1>4 DEF ADD, Command
    <2> QED
      BY <2>1 DEF DrawsWhatIsListed
  <1>5. CASE DEL
    <2>1. mpc' # "top"
      BY <1>5, DelFacts
    <2> QED
      BY <2>1 DEF DrawsWhatIsListed
  <1>6. CASE SWPROD
    <2>1. mpc' # "top"
      BY <1>6, SwitchActions
    <2> QED
      BY <2>1 DEF DrawsWhatIsListed
  <1>7. CASE submit_open_materials
    <2>1. mpc' # "top"
      BY <1>7 DEF submit_open_materials
    <2> QED
      BY <2>1 DEF DrawsWhatIsListed
  <1>8. CASE check_open_materials
    <2>1. mpc' # "top"
      BY <1>8 DEF check_open_materials
    <2> QED
      BY <2>1 DEF DrawsWhatIsListed
  <1>9. CASE NoMainFrame
    <2>1. UNCHANGED drawn /\ mpc # "top"
      BY <1>9 DEF NoMainFrame
    <2> QED
      BY <2>1 DEF DrawInv, DrawsWhatIsListed
  <1>10. CASE MainFrame
    <2>1. mpc' # "top"
      BY <1>10 DEF MainFrame
    <2> QED
      BY <2>1 DEF DrawsWhatIsListed
  <1>11. CASE Draw
    <2>1. /\ UNCHANGED <<mlist, product_id, background>>
          /\ drawn' = {m \in ToSet(background) : Info[m].type = "image"}
                         \cup {m \in {mlist[i] : i \in static_idx + 1 .. Len(mlist)} : Visible(m)}
      BY <1>11 DEF Draw, fixed
    <2>2. ASSUME IsPrefix(background, mlist)
          PROVE  \A m : m \in drawn' <=> /\ m \in ToSet(mlist) /\ Info[m].type # "audio"
                                         /\ Info[m].product \in {0, product_id}
      <3>1. /\ mlist \in Seq(Names) /\ background \in Seq(Names)
            /\ static_idx = Len(background)
            /\ \A m \in ToSet(background) :
                  Info[m].product = 0 /\ Info[m].type \in {"audio", "image"}
        BY DEF TypeOK, DrawInv
      <3> DEFINE n == static_idx
      <3>2. n \in 0 .. Len(mlist) /\ \A i \in 1 .. n : background[i] = mlist[i]
        BY <2>2, <3>1, PrefixFacts
      <3>3. Len(mlist) \in Nat /\ DOMAIN mlist = 1 .. Len(mlist) /\ DOMAIN background = 1 .. n
        BY <3>1
      <3> HIDE DEF n
      <3> DEFINE Low  == {mlist[i] : i \in 1 .. n}
                 High == {mlist[i] : i \in n + 1 .. Len(mlist)}
      <3>4. ToSet(background) = Low
        BY <3>2, <3>3 DEF ToSet
      <3>5. \A i \in 1 .. Len(mlist) : i \in 1 .. n \/ i \in n + 1 .. Len(mlist)
        BY <3>2, <3>3
      <3>6. \A i : i \in 1 .. n \/ i \in n + 1 .. Len(mlist) => i \in 1 .. Len(mlist)
        BY <3>2, <3>3
      <3>7. ToSet(mlist) = Low \cup High
        BY <3>3, <3>5, <3>6 DEF ToSet
      <3>8. drawn' = {m \in Low : Info[m].type = "image"} \cup {m \in High : Visible(m)}
        BY <2>1, <3>4 DEF n
      <3>9. \A m \in Low : Info[m].product = 0 /\ Info[m].type \in {"audio", "image"}
        BY <3>1, <3>4
      <3> HIDE DEF Low, High
      <3> QED
        BY <3>7, <3>8, <3>9 DEF Visible
    <2> QED
      BY <2>1, <2>2 DEF DrawsWhatIsListed
  <1>12. ASSUME NEW t \in DOMAIN openers, OpenNext(t)
        PROVE  DrawsWhatIsListed'
    <2>1. UNCHANGED <<mpc, drawn, background, mlist, product_id>>
      BY <1>12 DEF OpenNext, mainvars, fixed, history
    <2> QED
      BY <2>1 DEF DrawsWhatIsListed
  <1>13. ASSUME NEW t \in DOMAIN openers, OpenFail(t)
        PROVE  DrawsWhatIsListed'
    <2>1. UNCHANGED <<mpc, drawn, background, mlist, product_id>>
      BY <1>13 DEF OpenFail, mainvars, fixed, history
    <2> QED
      BY <2>1 DEF DrawsWhatIsListed
  <1>14. ASSUME NEW t \in DOMAIN openers, OpenDone(t)
        PROVE  DrawsWhatIsListed'
    <2>1. UNCHANGED <<mpc, drawn, background, mlist, product_id>>
      BY <1>14 DEF OpenDone, mainvars, fixed, history
    <2> QED
      BY <2>1 DEF DrawsWhatIsListed
  <1>15. ASSUME NEW t \in DOMAIN openers, Put(t)
        PROVE  DrawsWhatIsListed'
    <2>1. UNCHANGED <<mpc, drawn, background, mlist, product_id>>
      BY <1>15 DEF Put, mainvars, fixed, history
    <2> QED
      BY <2>1 DEF DrawsWhatIsListed
  <1>16. CASE UNCHANGED vars
    BY <1>16 DEF vars, mainvars, fixed, DrawsWhatIsListed
  <1> QED
    BY <1>1, <1>2, <1>3, <1>4, <1>5, <1>6, <1>7, <1>8, <1>9, <1>10, <1>11, <1>12, <1>13, <1>14,
       <1>15, <1>16 DEF Next, MainLoop, open_materials_thread_run

-----------------------------------------------------------------------------
(* The theorems.                                                            *)

\* The command line satisfies the invariant: its materials are listed, by layer,
\* and open for the first product.
LEMMA InitInvariant ==
    ASSUME Init
    PROVE  MaterialsInv
  <1> DEFINE s == SetToSeq(Initial)
  <1>1. /\ cmdQueue = << >> /\ mpc = "top" /\ cmds = << >> /\ new_mlist = << >>
        /\ openers = << >> /\ pmlist = 0 /\ drawn = {}
        /\ sent = 0 /\ lines = {} /\ gone = {} /\ told = {} /\ raced = {}
        /\ product_id = FirstProduct
    BY DEF Init
  <1>2. mlist \in Sorts(s) /\ static_idx = StaticIdx(mlist)
    BY DEF Init
  <1>3. background = SubSeq(mlist, 1, static_idx)
    BY DEF Init
  <1>4. decoder = [m \in Names |-> IF m \in Initial THEN OpenedDecoder(m, FirstProduct) ELSE "none"]
    BY DEF Init
  <1>5. s \in Seq(Names) /\ ToSet(s) = Initial /\ IsInjective(s) /\ Len(s) = Cardinality(Initial)
    BY InitialFacts
  <1> HIDE DEF s
  <1>6. /\ mlist \in Seq(Names) /\ ToSet(mlist) = Initial /\ IsInjective(mlist) /\ InOrder(mlist)
        /\ Len(mlist) = Cardinality(Initial)
    BY <1>2, <1>5, SortsFacts
  <1>7. /\ static_idx \in 0 .. Len(mlist) /\ Len(mlist) \in Nat
        /\ \A i \in 1 .. static_idx :
              Info[mlist[i]].product = 0 /\ Info[mlist[i]].type \in {"audio", "image"}
    BY <1>2, <1>6, StaticFacts
  <1>8. /\ background \in Seq(Names) /\ Len(background) = static_idx
        /\ DOMAIN background = 1 .. static_idx
        /\ \A i \in 1 .. static_idx : background[i] = mlist[i]
    BY <1>3, <1>6, <1>7
  <1>9. Initial \subseteq Names
    BY MaterialsAssumption
  <1>10. /\ \A m \in Initial : decoder[m] = OpenedDecoder(m, FirstProduct)
         /\ \A m \in Names : m \notin Initial => decoder[m] = "none"
    BY <1>4, <1>9
  <1>11. \A m \in Names : decoder[m] \in {"none", "playing", "stopped"}
    BY <1>10, OpenedFacts
  <1>12. decoder \in [Names -> {"none", "playing", "stopped", "exited"}]
    BY <1>4, <1>11
  <1>13. DOMAIN openers = {} /\ InFlight = {}
    BY <1>1 DEF InFlight
  <1>14. Waiting = {} /\ ToSet(new_mlist) = {} /\ IsInjective(new_mlist) /\ Added = Initial
    BY <1>1, AddsEmpty, EmptyElements DEF Waiting, Added
  <1>15. TypeOK
    <2>1. /\ cmdQueue \in Seq(Commands) /\ cmds \in Seq(Commands) /\ new_mlist \in Seq(Names)
          /\ openers \in Seq(Opener) /\ Len(openers) = 0
      BY <1>1
    <2>2. sent \in 0 .. MaxLines /\ pmlist \in 0 .. Len(openers)
      BY <1>1, <2>1, MaterialsAssumption
    <2>3. static_idx \in 0 .. Cardinality(Initial) /\ product_id \in Int
      BY <1>1, <1>6, <1>7, FirstProductFacts
    <2> QED
      BY <1>1, <1>6, <1>8, <1>12, <2>1, <2>2, <2>3 DEF TypeOK
  <1>16. CountInv
    BY <1>1, <1>13 DEF CountInv
  <1>17. QueueInv
    BY <1>1, <1>6, <1>13, <1>14, AddsEmpty DEF QueueInv
  <1>18. HeldInv /\ OpenInv
    BY <1>1, <1>13 DEF HeldInv, OpenInv
  <1>19. PlaceInv
    BY <1>1, <1>6, <1>13, <1>14 DEF PlaceInv
  <1>20. DecodersOwned
    BY <1>6, <1>10, <1>11 DEF DecodersOwned
  <1>21. SwitchedDecoders
    <2> SUFFICES ASSUME NEW m \in Initial, HasDecoder(m), product_id > 0
                 PROVE  decoder[m] = "playing" <=> Info[m].product \in {0, product_id}
      BY <1>6 DEF SwitchedDecoders
    <2>1. decoder[m] = OpenedDecoder(m, product_id) /\ Info[m].product \in Nat /\ product_id \in Int
      BY <1>1, <1>9, <1>10, <1>15, MaterialsAssumption DEF TypeOK
    <2> QED
      BY <2>1 DEF OpenedDecoder
  <1>22. LayersInOrder
    BY <1>6 DEF LayersInOrder, InOrder
  <1>23. DrawInv
    <2>1. \A m \in ToSet(background) : Info[m].product = 0 /\ Info[m].type \in {"audio", "image"}
      BY <1>7, <1>8 DEF ToSet
    <2> QED
      BY <1>1, <1>8, <2>1 DEF DrawInv
  <1>24. DrawsWhatIsListed
    BY <1>1 DEF DrawsWhatIsListed
  <1> QED
    BY <1>15, <1>16, <1>17, <1>18, <1>19, <1>20, <1>21, <1>22, <1>23, <1>24 DEF MaterialsInv

\* Every step of the commands, the main loop and the threads keeps the invariant.
LEMMA NextInvariant ==
    ASSUME MaterialsInv, [Next]_vars
    PROVE  MaterialsInv'
  <1>1. /\ TypeOK /\ CountInv /\ QueueInv /\ HeldInv /\ PlaceInv /\ OpenInv
        /\ DecodersOwned /\ SwitchedDecoders /\ LayersInOrder /\ DrawInv /\ DrawsWhatIsListed
    BY DEF MaterialsInv
  <1>2. TypeOK' /\ CountInv' /\ QueueInv'
    BY <1>1, TypeStep, CountStep, QueueStep
  <1>3. HeldInv' /\ PlaceInv'
    BY <1>1, HeldStep, PlaceStep
  <1>4. OpenInv' /\ DecodersOwned' /\ SwitchedDecoders'
    BY <1>1, OpenStep, OwnedStep, SwitchedStep
  <1>5. LayersInOrder' /\ DrawInv' /\ DrawsWhatIsListed'
    BY <1>1, LayersStep, DrawStep, DrawnStep
  <1> QED
    BY <1>2, <1>3, <1>4, <1>5 DEF MaterialsInv

\* The invariant holds in every state.
THEOREM MaterialsInvariant == Spec => []MaterialsInv
  <1>1. Init => MaterialsInv
    BY InitInvariant
  <1>2. MaterialsInv /\ [Next]_vars => MaterialsInv'
    BY NextInvariant
  <1> QED
    BY <1>1, <1>2, PTL DEF Spec

\* A material that is in one place has one holder.
LEMMA OneHolder ==
    ASSUME MaterialsInv
    PROVE  HandedOver
  <1>1. TypeOK /\ QueueInv /\ HeldInv /\ PlaceInv
    BY DEF MaterialsInv
  <1>2. IsInjective(mlist)
    BY <1>1 DEF QueueInv
  <1>3. Added \subseteq Names
    <2>1. \A l \in Lines : l.op = "ADD" => l.m \in Names
      BY MaterialsAssumption
    <2>2. lines \subseteq Lines /\ Initial \subseteq Names
      BY <1>1, MaterialsAssumption DEF TypeOK
    <2> QED
      BY <2>1, <2>2 DEF Added
  <1>4. ASSUME NEW m \in Added
        PROVE  \E h \in Holders(m) : Holders(m) = {h}
    <2> DEFINE At == [queue |-> Waiting, new |-> ToSet(new_mlist), listed |-> ToSet(mlist), gone |-> gone]
               P  == {x \in {"queue", "new", "listed", "gone"} : m \in At[x]}
               T  == {x \in DOMAIN openers : m \in Held(x)}
    <2>1. Holders(m) = {<<h, 0>> : h \in P} \cup {<<"opener", t>> : t \in T}
      BY DEF Holders
    <2>2. /\ "queue" \in P <=> m \in Waiting
          /\ "new" \in P <=> m \in ToSet(new_mlist)
          /\ "listed" \in P <=> m \in ToSet(mlist)
          /\ "gone" \in P <=> m \in gone
      OBVIOUS
    <2>3. P \subseteq {"queue", "new", "listed", "gone"}
      OBVIOUS
    <2>4. (\E t \in T : TRUE) <=> m \in InFlight
      BY <1>1, HeldFacts
    <2>5. \A t, u \in T : t = u
      BY <1>1 DEF HeldInv
    <2> HIDE DEF P, T
    <2>6. m \in Names
      BY <1>3
    <2>7. CASE m \in InFlight
      <3>1. PICK t \in T : T = {t}
        BY <2>4, <2>5, <2>7
      <3>2. P = {}
        BY <1>1, <2>2, <2>3, <2>6, <2>7 DEF PlaceInv
      <3> QED
        BY <2>1, <3>1, <3>2, ZenonT(60)
    <2>8. CASE m \notin InFlight
      <3>1. T = {}
        BY <2>4, <2>8
      <3>2. P # {}
        BY <1>1, <2>2, <2>6, <2>8 DEF PlaceInv
      <3>3. /\ "queue" \in P => "new" \notin P /\ "listed" \notin P /\ "gone" \notin P
            /\ "new" \in P => "listed" \notin P /\ "gone" \notin P
            /\ "listed" \in P => "gone" \notin P
        BY <1>1, <2>2, <2>6 DEF PlaceInv
      <3>4. \A x, y \in P : x = y
        BY <2>3, <3>3
      <3>5. PICK x \in P : P = {x}
        BY <3>2, <3>4
      <3>6. Holders(m) = {<<x, 0>>}
        BY <2>1, <3>1, <3>5
      <3> QED
        BY <3>6
    <2> QED
      BY <2>7, <2>8
  <1> QED
    BY <1>2, <1>4 DEF HandedOver

\* Between the command and the list no material is lost or duplicated, however
\* many threads open materials and fill the mailbox, and the list is sorted.
THEOREM ListsSound == Spec => []ListInv
  <1>1. MaterialsInv => ListInv
    BY OneHolder DEF MaterialsInv, ListInv
  <1> QED
    BY <1>1, MaterialsInvariant, PTL

\* No decoder thread outlives its material, whether it is deleted, fails to open or
\* is closed because another one of its batch failed.
THEOREM DecodersHaveOwners == Spec => []DecodersOwned
  <1>1. MaterialsInv => DecodersOwned
    BY DEF MaterialsInv
  <1> QED
    BY <1>1, MaterialsInvariant, PTL

\* After any commands and any products of the main material, the decoders that play
\* are those of the current product, for the materials no switch has missed.
THEOREM SwitchIsComplete == Spec => []SwitchedDecoders
  <1>1. MaterialsInv => SwitchedDecoders
    BY DEF MaterialsInv
  <1> QED
    BY <1>1, MaterialsInvariant, PTL

\* A frame shows the listed materials of the current product, as long as the bottom
\* of the list is what the background was drawn from.
THEOREM DrawnAsListed == Spec => []DrawsWhatIsListed
  <1>1. MaterialsInv => DrawsWhatIsListed
    BY DEF MaterialsInv
  <1> QED
    BY <1>1, MaterialsInvariant, PTL
=============================================================================
