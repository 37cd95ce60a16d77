------------------------- MODULE BlockRequestProofs -------------------------
(***************************************************************************)
(* What the elevator of BlockRequest makes of a list of requests: the      *)
(* facts that the proofs about the buffer cache and about the hard disk    *)
(* driver rest on.                                                         *)
(***************************************************************************)
EXTENDS BlockRequest, SequenceTheorems, WellFoundedInduction, TLAPS

(* A non-empty set of natural numbers has a least element. *)
LEMMA LeastElement ==
  ASSUME NEW T, T \subseteq Nat, T # {}
  PROVE  \E x \in T : \A y \in T : x <= y
<1>1. PICK x \in T : \A y \in T : ~(<<y, x>> \in OpToRel(<, Nat))
  BY NatLessThanWellFounded, WFMin
<1>2. \A y \in T : <<y, x>> \in OpToRel(<, Nat) <=> y < x
  BY DEF OpToRel
<1>3. \A y \in T : x <= y
  <2> TAKE y \in T
  <2>1. ~(y < x)
    BY <1>1, <1>2
  <2>2. x \in Nat /\ y \in Nat
    OBVIOUS
  <2> QED BY <2>1, <2>2
<1> QED BY <1>3

(* Enqueue keeps a device's list a sequence of slots: the new slot is      *)
(* linked in, and never before the current request.                        *)
LEMMA EnqueueProperties ==
  ASSUME NEW S, NEW q \in Seq(S), NEW s \in S, NEW table, NEW req
  PROVE  /\ Enqueue(table, q, s, req) \in Seq(S)
         /\ \E k \in 0 .. Len(q) : /\ Enqueue(table, q, s, req) = LinkAfter(q, k, s)
                                   /\ q # << >> => k # 0
<1>1. Len(q) \in Nat /\ q \in [1 .. Len(q) -> S]
  BY LenProperties
<1>2. ASSUME NEW k \in 0 .. Len(q)
      PROVE  LinkAfter(q, k, s) \in Seq(S)
  <2>1. LinkAfter(q, k, s) \in [1 .. Len(q) + 1 -> S]
    BY <1>1 DEF LinkAfter
  <2> QED BY <1>1, <2>1, SeqDef
<1>3. CASE q = << >>
  <2>1. LinkAfter(q, 0, s) = [i \in 1 .. 1 |-> s]
    BY <1>3 DEF LinkAfter
  <2>2. <<s>> = [i \in 1 .. 1 |-> s]
    OBVIOUS
  <2> QED BY <1>1, <1>2, <1>3, <2>1, <2>2 DEF Enqueue
<1>4. CASE q # << >>
  <2> DEFINE fits == Fits(table, q, req)
             k == ElevatorPosition(table, q, req)
  <2>1. fits \subseteq 1 .. Len(q) - 1
    BY DEF Fits
  <2> HIDE DEF fits
  <2>2. k = IF fits = {} THEN Len(q) ELSE CHOOSE i \in fits : \A j \in fits : i <= j
    BY DEF ElevatorPosition, fits
  <2> HIDE DEF k
  <2>3. k \in 1 .. Len(q)
    <3>1. CASE fits = {}
      <4>1. Len(q) # 0
        BY <1>4, EmptySeq
      <4> QED BY <1>1, <2>2, <3>1, <4>1
    <3>2. CASE fits # {}
      <4>1. fits \subseteq Nat
        BY <1>1, <2>1
      <4>2. \E i \in fits : \A j \in fits : i <= j
        BY <3>2, <4>1, LeastElement
      <4>3. k \in fits
        BY <2>2, <3>2, <4>2
      <4> QED BY <1>1, <2>1, <4>3
    <3> QED BY <3>1, <3>2
  <2>4. Enqueue(table, q, s, req) = LinkAfter(q, k, s)
    BY <1>4 DEF Enqueue, k
  <2> QED BY <1>2, <2>3, <2>4
<1> QED BY <1>3, <1>4

(* Linking in a slot that is not there yet moves the others up at most by  *)
(* one place, the first one not at all, and repeats none.                  *)
LEMMA LinkProperties ==
  ASSUME NEW S, NEW q \in Seq(S), NEW s \in S, NEW k \in 1 .. Len(q),
         \A x \in 1 .. Len(q) : q[x] # s,
         \A x, y \in 1 .. Len(q) : q[x] = q[y] => x = y
  PROVE  LET l == LinkAfter(q, k, s) IN
         /\ Len(l) = Len(q) + 1 /\ l[1] = q[1]
         /\ \A i \in 2 .. Len(l) : l[i] = s \/ \E j \in 2 .. Len(q) : l[i] = q[j]
         /\ \A i, j \in 1 .. Len(l) : l[i] = l[j] => i = j
<1> DEFINE N == Len(q)
           l == LinkAfter(q, k, s)
           pos(x) == IF x <= k THEN x ELSE x - 1
<1>1. N \in Nat /\ l = [i \in 1 .. N + 1 |-> IF i <= k THEN q[i] ELSE IF i = k + 1 THEN s ELSE q[i - 1]]
  BY LenProperties DEF LinkAfter
<1> HIDE DEF l, N
<1>2. Len(l) = N + 1
  BY <1>1
<1>3. k \in 1 .. N
  BY DEF N
<1>4. \A x \in 1 .. N + 1 : x # k + 1 => pos(x) \in 1 .. N /\ l[x] = q[pos(x)]
  BY <1>1, <1>3
<1>5. l[k + 1] = s /\ l[1] = q[1]
  BY <1>1, <1>3
<1>6. ASSUME NEW i \in 2 .. N + 1
      PROVE  l[i] = s \/ \E j \in 2 .. N : l[i] = q[j]
  <2>1. CASE i = k + 1
    BY <1>5, <2>1
  <2>2. CASE i # k + 1
    <3>1. pos(i) \in 2 .. N /\ l[i] = q[pos(i)]
      BY <1>1, <1>3, <1>4, <2>2
    <3> QED BY <3>1
  <2> QED BY <2>1, <2>2
<1>7. ASSUME NEW i \in 1 .. N + 1, NEW j \in 1 .. N + 1, l[i] = l[j]
      PROVE  i = j
  <2>1. \A x, y \in 1 .. N : q[x] # s /\ (q[x] = q[y] => x = y)
    BY DEF N
  <2>2. CASE i = k + 1 \/ j = k + 1
    BY <1>1, <1>4, <1>5, <1>7, <2>1, <2>2
  <2>3. CASE i # k + 1 /\ j # k + 1
    <3>1. pos(i) = pos(j)
      BY <1>4, <1>7, <2>1, <2>3
    <3> QED BY <1>1, <1>3, <2>3, <3>1
  <2> QED BY <2>2, <2>3
<1> QED BY <1>2, <1>5, <1>6, <1>7 DEF N, l
=============================================================================
