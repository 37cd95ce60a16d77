---------------------------- MODULE MemoryProofs ----------------------------
(***************************************************************************)
(* Proofs about Memory: its types, that mem_map counts the references to   *)
(* each page, that what can be written is private, that tasks do not see   *)
(* each other's writes and that fork copies, for any number of tasks and   *)
(* pages.                                                                  *)
(***************************************************************************)
EXTENDS Memory, FiniteSetTheorems, NaturalsInduction, WellFoundedInduction, TLAPS

(* How often f is a value of g. *)
Num(g, S, f) == Cardinality({y \in S : g[y] = f})

One(x, f) == IF x = f THEN 1 ELSE 0

(* Two functions that differ at most at z. *)
SameBut(g, h, S, z) == \A y \in S : y # z => h[y] = g[y]

(* Two tables that differ only for task t, where h has no f. *)
Cleared(g, h, D, t, f) ==
  \A x \in Tasks \X D : IF x[1] = t THEN h[x] # f ELSE h[x] = g[x]

(* How often f is in the tables of t. *)
Row(g, D, t, f) == Cardinality({a \in D : g[<<t, a>>] = f})

(* The references to f by page table entries, directory entries, task      *)
(* structures and local variables.                                         *)
Total(p, d, k, g, f) ==
  Num(p, Pages, f) + Num(d, Tables, f) + (Num(k, Tasks, f) + Num(g, Tasks, f))

CountInv == \A f \in Frames : mem_map[f] = Total(pte, pg_dir, task_page, page, f)

(* What the label of a task says of its memory.  A task that lives has the *)
(* table of its stack: when execve frees the old memory, that page at      *)
(* least is free for the new one.                                          *)
Control ==
  /\ \A t \in Tasks : task_page[t] = NoPage <=> pc[t] = "none"
  /\ \A t \in Tasks : pc[t] \in {"none", "zombie"} =>
       /\ \A d \in Dirs : pg_dir[<<t, d>>] = NoPage
       /\ \A a \in Addrs : pte[<<t, a>>] = NoPage
  /\ \A t \in Tasks : pc[t] \notin {"none", "zombie"} => pg_dir[<<t, 1>>] # NoPage
  /\ \A t \in Tasks : page[t] # NoPage <=> pc[t] \in {"load", "args", "execve"}
  /\ \A t \in Tasks : pc[t] = "load" =>
       /\ addr[t] \in ImageAddrs /\ pte[<<t, addr[t]>>] = NoPage /\ executable[t] \in Exes
       /\ ret[t] \in {"user", "read"} /\ (ret[t] = "read" => addr[t] \in ReadAddrs)
  /\ \A t \in Tasks : pc[t] = "read" => addr[t] \in ReadAddrs
  /\ \A x \in Pages : rw[x] => pte[x] # NoPage

(* The invariant: what can be written is private, and mem_map counts.      *)
Inv == TypeOK /\ Control /\ WritableIsPrivate /\ CountInv

(* Copies to user memory go through writable entries, if no system call    *)
(* copies to pages of the executable.                                      *)
ReadWritable == \A t \in Tasks : pc[t] = "read" /\ pte[<<t, addr[t]>>] # NoPage => rw[<<t, addr[t]>>]

(* No page has two kinds of users, and only read-only entries of page      *)
(* tables can have the same page: this follows from the invariant.         *)
Exclusive ==
  /\ \A x, y \in Pages : rw[x] /\ pte[x] = pte[y] => x = y
  /\ \A x, y \in Tables : pg_dir[x] # NoPage /\ pg_dir[x] = pg_dir[y] => x = y
  /\ \A t, u \in Tasks : task_page[t] # NoPage /\ task_page[t] = task_page[u] => t = u
  /\ \A t, u \in Tasks : page[t] # NoPage /\ page[t] = page[u] => t = u
  /\ \A x \in Pages, y \in Tables : pte[x] # NoPage => pte[x] # pg_dir[y]
  /\ \A x \in Pages, t \in Tasks : pte[x] # NoPage => pte[x] # task_page[t] /\ pte[x] # page[t]
  /\ \A x \in Tables, t \in Tasks :
       pg_dir[x] # NoPage => pg_dir[x] # task_page[t] /\ pg_dir[x] # page[t]
  /\ \A t, u \in Tasks : page[t] # NoPage => page[t] # task_page[u]

-----------------------------------------------------------------------------
(* Counting.                                                               *)

LEMMA AllFinite ==
  /\ IsFiniteSet(Tasks) /\ IsFiniteSet(Dirs) /\ IsFiniteSet(Addrs)
  /\ IsFiniteSet(Pages) /\ IsFiniteSet(Tables)
<1>1. IsFiniteSet(Tasks)
  BY SizesAssumption, FS_Interval DEF Tasks
<1>2. IsFiniteSet({0} \cup {1})
  BY FS_Singleton, FS_AddElement
<1>3. Dirs = {0} \cup {1}
  BY DEF Dirs
<1>4. IsFiniteSet(Dirs)
  BY <1>2, <1>3
<1>5. IsFiniteSet(Addrs)
  BY AddrsAssumption
<1> QED BY <1>1, <1>4, <1>5, FS_Product DEF Pages, Tables

LEMMA NumType ==
  ASSUME NEW S, IsFiniteSet(S), NEW g, NEW f
  PROVE  Num(g, S, f) \in Nat /\ IsFiniteSet({y \in S : g[y] = f})
<1>1. IsFiniteSet({y \in S : g[y] = f})
  BY FS_Subset
<1> QED BY <1>1, FS_CardinalityType DEF Num

LEMMA NumZero ==
  ASSUME NEW S, IsFiniteSet(S), NEW g, NEW f, Num(g, S, f) = 0
  PROVE  \A y \in S : g[y] # f
<1>1. {y \in S : g[y] = f} = {}
  BY NumType, FS_EmptySet DEF Num
<1> QED BY <1>1

LEMMA NumSet ==
  ASSUME NEW S, IsFiniteSet(S), NEW g, NEW h, NEW z \in S, NEW f, SameBut(g, h, S, z)
  PROVE  Num(h, S, f) = Num(g, S, f) + One(h[z], f) - One(g[z], f)
<1> DEFINE G == {y \in S : g[y] = f}
           H == {y \in S : h[y] = f}
<1>1. IsFiniteSet(G) /\ IsFiniteSet(H)
  BY FS_Subset
<1>2. Cardinality(G) \in Nat /\ Cardinality(H) \in Nat
  BY <1>1, FS_CardinalityType
<1>3. CASE h[z] = f /\ g[z] # f
  <2>1. H = G \cup {z} /\ z \notin G
    BY <1>3 DEF SameBut
  <2>2. Cardinality(H) = Cardinality(G) + 1
    BY <1>1, <2>1, FS_AddElement
  <2> QED BY <1>2, <1>3, <2>2 DEF Num, One
<1>4. CASE h[z] # f /\ g[z] = f
  <2>1. G = H \cup {z} /\ z \notin H
    BY <1>4 DEF SameBut
  <2>2. Cardinality(G) = Cardinality(H) + 1
    BY <1>1, <2>1, FS_AddElement
  <2> QED BY <1>2, <1>4, <2>2 DEF Num, One
<1>5. CASE h[z] = f <=> g[z] = f
  <2>1. H = G
    BY <1>5 DEF SameBut
  <2> QED BY <1>2, <1>5, <2>1 DEF Num, One
<1> QED BY <1>3, <1>4, <1>5

LEMMA OneType == \A x, f : One(x, f) \in {0, 1}
BY DEF One

LEMMA NumSame ==
  ASSUME NEW S, NEW g, NEW h, NEW f, \A y \in S : h[y] = g[y]
  PROVE  Num(h, S, f) = Num(g, S, f)
<1>1. {y \in S : h[y] = f} = {y \in S : g[y] = f}
  OBVIOUS
<1> QED BY <1>1 DEF Num

(* One value, or two. *)
LEMMA NumUnique ==
  ASSUME NEW S, IsFiniteSet(S), NEW g, NEW f, NEW y \in S, g[y] = f
  PROVE  /\ Num(g, S, f) >= 1
         /\ Num(g, S, f) = 1 <=> \A z \in S : g[z] = f => z = y
<1> DEFINE G == {z \in S : g[z] = f}
<1>1. IsFiniteSet(G) /\ Num(g, S, f) \in Nat /\ Num(g, S, f) # 0
  BY NumType, NumZero
<1>2. Num(g, S, f) = 1 <=> \E x : G = {x}
  BY <1>1, FS_Singleton DEF Num
<1>3. (\E x : G = {x}) <=> \A z \in S : g[z] = f => z = y
  <2>1. y \in G
    OBVIOUS
  <2>2. (\A z \in S : g[z] = f => z = y) => G = {y}
    BY <2>1
  <2>3. ASSUME NEW x, G = {x} PROVE \A z \in S : g[z] = f => z = y
    BY <2>1, <2>3
  <2> QED BY <2>2, <2>3
<1> QED BY <1>1, <1>2, <1>3

LEMMA NumCleared ==
  ASSUME NEW D, IsFiniteSet(D), NEW g, NEW h, NEW t \in Tasks, NEW f, Cleared(g, h, D, t, f)
  PROVE  /\ Row(g, D, t, f) \in Nat
         /\ Num(g, Tasks \X D, f) = Num(h, Tasks \X D, f) + Row(g, D, t, f)
<1> DEFINE B == {a \in D : g[<<t, a>>] = f}
           A == {x \in Tasks \X D : x[1] = t /\ g[x] = f}
           G == {x \in Tasks \X D : g[x] = f}
           H == {x \in Tasks \X D : h[x] = f}
<1>1. IsFiniteSet(Tasks \X D)
  BY AllFinite, FS_Product
<1>2. IsFiniteSet(A) /\ IsFiniteSet(G) /\ IsFiniteSet(H) /\ IsFiniteSet(B)
  BY <1>1, FS_Subset
<1>3. G = H \cup A /\ H \cap A = {}
  BY DEF Cleared
<1>4. Cardinality(G) = Cardinality(H) + Cardinality(A)
  <2>1. Cardinality(G) = Cardinality(H) + Cardinality(A) - Cardinality({})
    BY <1>2, <1>3, FS_Union
  <2> QED BY <1>2, <2>1, FS_EmptySet, FS_CardinalityType
<1>5. Cardinality(A) = Cardinality(B)
  <2> DEFINE m == [a \in B |-> <<t, a>>]
  <2>1. m \in [B -> A]
    OBVIOUS
  <2>2. \A a, b \in B : m[a] = m[b] => a = b
    OBVIOUS
  <2>3. \A x \in A : \E a \in B : m[a] = x
    <3> TAKE x \in A
    <3>1. x[2] \in B /\ x = <<t, x[2]>>
      OBVIOUS
    <3> QED BY <3>1
  <2> HIDE DEF m, A, B
  <2>4. m \in Injection(B, A) /\ m \in Surjection(B, A)
    BY <2>1, <2>2, <2>3 DEF Injection, Surjection, IsInjective
  <2>5. ExistsBijection(B, A)
    BY <2>4 DEF ExistsBijection, Bijection
  <2> QED BY <1>2, <2>5, FS_Bijection
<1>6. Cardinality(B) \in Nat
  BY <1>2, FS_CardinalityType
<1> QED BY <1>4, <1>5, <1>6 DEF Num, Row

LEMMA RowEmpty ==
  ASSUME NEW D, NEW g, NEW t, NEW f, \A a \in D : g[<<t, a>>] # f
  PROVE  Row(g, D, t, f) = 0
<1>1. {a \in D : g[<<t, a>>] = f} = {}
  OBVIOUS
<1> QED BY <1>1, FS_EmptySet DEF Row

(* Tags keep sets apart. *)
LEMMA TaggedCardinality ==
  ASSUME NEW S, IsFiniteSet(S), NEW k
  PROVE  IsFiniteSet({<<k, x>> : x \in S}) /\ Cardinality({<<k, x>> : x \in S}) = Cardinality(S)
<1> DEFINE T == {<<k, x>> : x \in S}
           m == [x \in S |-> <<k, x>>]
<1>1. m \in [S -> T]
  OBVIOUS
<1>2. \A a, b \in S : m[a] = m[b] => a = b
  OBVIOUS
<1>3. \A y \in T : \E x \in S : m[x] = y
  OBVIOUS
<1> HIDE DEF m, T
<1>4. m \in Injection(S, T) /\ m \in Surjection(S, T)
  BY <1>1, <1>2, <1>3 DEF Injection, Surjection, IsInjective
<1>5. ExistsBijection(S, T)
  BY <1>4 DEF ExistsBijection, Bijection
<1> QED BY <1>5, FS_Bijection DEF T

LEMMA DisjointUnion ==
  ASSUME NEW S, NEW T, IsFiniteSet(S), IsFiniteSet(T), S \cap T = {}
  PROVE  IsFiniteSet(S \cup T) /\ Cardinality(S \cup T) = Cardinality(S) + Cardinality(T)
<1>1. /\ IsFiniteSet(S \cup T)
      /\ Cardinality(S \cup T) = Cardinality(S) + Cardinality(T) - Cardinality({})
  BY FS_Union
<1> QED BY <1>1, FS_EmptySet, FS_CardinalityType

(* Total is the number of References. *)
LEMMA TotalIsCardinality ==
  ASSUME NEW f
  PROVE  Cardinality(References(f)) = Total(pte, pg_dir, task_page, page, f)
<1> DEFINE P == {y \in Pages : pte[y] = f}
           D == {y \in Tables : pg_dir[y] = f}
           K == {u \in Tasks : task_page[u] = f}
           G == {u \in Tasks : page[u] = f}
           TP == {<<"pte", x>> : x \in P}
           TD == {<<"dir", x>> : x \in D}
           TK == {<<"task", t>> : t \in K}
           TG == {<<"page", t>> : t \in G}
<1>1. IsFiniteSet(P) /\ IsFiniteSet(D) /\ IsFiniteSet(K) /\ IsFiniteSet(G)
  BY AllFinite, FS_Subset
<1>2. /\ IsFiniteSet(TP) /\ Cardinality(TP) = Cardinality(P)
      /\ IsFiniteSet(TD) /\ Cardinality(TD) = Cardinality(D)
      /\ IsFiniteSet(TK) /\ Cardinality(TK) = Cardinality(K)
      /\ IsFiniteSet(TG) /\ Cardinality(TG) = Cardinality(G)
  BY <1>1, TaggedCardinality, Zenon
<1>3. TP \cap TD = {} /\ TK \cap TG = {} /\ (TP \cup TD) \cap (TK \cup TG) = {}
  OBVIOUS
<1> HIDE DEF TP, TD, TK, TG
<1>4. /\ IsFiniteSet(TP \cup TD) /\ Cardinality(TP \cup TD) = Cardinality(TP) + Cardinality(TD)
      /\ IsFiniteSet(TK \cup TG) /\ Cardinality(TK \cup TG) = Cardinality(TK) + Cardinality(TG)
  BY <1>2, <1>3, DisjointUnion
<1>5. Cardinality((TP \cup TD) \cup (TK \cup TG))
        = Cardinality(TP \cup TD) + Cardinality(TK \cup TG)
  BY <1>3, <1>4, DisjointUnion
<1>6. References(f) = (TP \cup TD) \cup (TK \cup TG)
  BY DEF References, TP, TD, TK, TG
<1> QED BY <1>2, <1>4, <1>5, <1>6 DEF Total, Num

-----------------------------------------------------------------------------
(* Pages.                                                                  *)

LEMMA GreatestElement ==
  ASSUME NEW n \in Nat, NEW T, T \subseteq 1 .. n, T # {}
  PROVE  \E x \in T : \A y \in T : y <= x
<1> DEFINE U == {n - x : x \in T}
<1>1. U \subseteq Nat /\ U # {}
  <2>1. \A x \in T : n - x \in Nat
    OBVIOUS
  <2> QED BY <2>1
<1>2. PICK z \in U : \A y \in U : ~(<<y, z>> \in OpToRel(<, Nat))
  BY <1>1, NatLessThanWellFounded, WFMin
<1>3. PICK x \in T : z = n - x
  OBVIOUS
<1>4. \A y \in T : y <= x
  <2> TAKE y \in T
  <2>1. n - y \in U /\ n - y \in Nat /\ z \in Nat
    BY <1>1
  <2>2. ~(n - y < z)
    BY <1>2, <2>1 DEF OpToRel
  <2>3. x \in Int /\ y \in Int
    OBVIOUS
  <2> QED BY <1>3, <2>1, <2>2, <2>3
<1> QED BY <1>4

(* get_free_page returns a free page, or NoPage if there is none. *)
LEMMA FreePage ==
  ASSUME NEW map
  PROVE  /\ get_free_page(map) \in Frames \cup {NoPage}
         /\ get_free_page(map) # NoPage =>
              get_free_page(map) \in Frames /\ map[get_free_page(map)] = 0
         /\ get_free_page(map) = NoPage => \A f \in Frames : map[f] # 0
<1> DEFINE free == {f \in Frames : map[f] = 0}
<1>1. CASE free = {}
  BY <1>1 DEF get_free_page
<1>2. CASE free # {}
  <2>1. \E f \in free : \A g \in free : g <= f
    BY <1>2, SizesAssumption, GreatestElement DEF Frames
  <2>2. get_free_page(map) = CHOOSE f \in free : \A g \in free : g <= f
    BY <1>2 DEF get_free_page
  <2>3. get_free_page(map) \in free
    BY <2>1, <2>2
  <2>4. 0 \notin Frames
    BY SizesAssumption DEF Frames
  <2> QED BY <2>3, <2>4 DEF NoPage
<1> QED BY <1>1, <1>2

(* share_page's donor is one of the donors. *)
LEMMA DonorIsDonor ==
  ASSUME NEW t, NEW a, Donors(t, a) # {}
  PROVE  Donor(t, a) \in Donors(t, a)
<1>1. Donors(t, a) \subseteq 1 .. NR_TASKS
  BY DEF Donors, Tasks
<1>2. \E q \in Donors(t, a) : \A r \in Donors(t, a) : r <= q
  BY <1>1, SizesAssumption, GreatestElement
<1> QED BY <1>2 DEF Donor

(* A page that counts 0 has no user. *)
LEMMA Unused ==
  ASSUME CountInv, NEW f \in Frames, mem_map[f] = 0
  PROVE  /\ \A x \in Pages : pte[x] # f
         /\ \A x \in Tables : pg_dir[x] # f
         /\ \A t \in Tasks : task_page[t] # f /\ page[t] # f
<1>1. /\ Num(pte, Pages, f) \in Nat /\ Num(pg_dir, Tables, f) \in Nat
      /\ Num(task_page, Tasks, f) \in Nat /\ Num(page, Tasks, f) \in Nat
  BY AllFinite, NumType
<1>2. Total(pte, pg_dir, task_page, page, f) = 0
  BY DEF CountInv
<1>3. /\ Num(pte, Pages, f) = 0 /\ Num(pg_dir, Tables, f) = 0
      /\ Num(task_page, Tasks, f) = 0 /\ Num(page, Tasks, f) = 0
  BY <1>1, <1>2 DEF Total
<1>4. \A x \in Pages : pte[x] # f
  BY <1>3, AllFinite, NumZero
<1>5. \A x \in Tables : pg_dir[x] # f
  BY <1>3, AllFinite, NumZero
<1>6. \A t \in Tasks : task_page[t] # f
  BY <1>3, AllFinite, NumZero
<1>7. \A t \in Tasks : page[t] # f
  BY <1>3, AllFinite, NumZero
<1> QED BY <1>4, <1>5, <1>6, <1>7

(* A page that counts 1 has one user at most. *)
LEMMA SingleUser ==
  ASSUME CountInv, NEW f \in Frames, mem_map[f] = 1
  PROVE  /\ \A x, y \in Pages : pte[x] = f /\ pte[y] = f => x = y
         /\ \A x, y \in Tables : pg_dir[x] = f /\ pg_dir[y] = f => x = y
         /\ \A t, u \in Tasks : task_page[t] = f /\ task_page[u] = f => t = u
         /\ \A t, u \in Tasks : page[t] = f /\ page[u] = f => t = u
         /\ \A x \in Pages, y \in Tables : ~(pte[x] = f /\ pg_dir[y] = f)
         /\ \A x \in Pages, t \in Tasks : ~(pte[x] = f /\ task_page[t] = f)
         /\ \A x \in Pages, t \in Tasks : ~(pte[x] = f /\ page[t] = f)
         /\ \A x \in Tables, t \in Tasks : ~(pg_dir[x] = f /\ task_page[t] = f)
         /\ \A x \in Tables, t \in Tasks : ~(pg_dir[x] = f /\ page[t] = f)
         /\ \A t, u \in Tasks : ~(task_page[t] = f /\ page[u] = f)
<1> DEFINE p == Num(pte, Pages, f)
           d == Num(pg_dir, Tables, f)
           k == Num(task_page, Tasks, f)
           g == Num(page, Tasks, f)
<1>1. p \in Nat /\ d \in Nat /\ k \in Nat /\ g \in Nat
  BY AllFinite, NumType
<1>2. p + d + (k + g) = 1
  BY DEF CountInv, Total
<1>3. /\ \A x \in Pages : pte[x] = f => p >= 1 /\ (p = 1 => \A z \in Pages : pte[z] = f => z = x)
      /\ \A x \in Tables : pg_dir[x] = f => d >= 1 /\ (d = 1 => \A z \in Tables : pg_dir[z] = f => z = x)
      /\ \A x \in Tasks : task_page[x] = f => k >= 1 /\ (k = 1 => \A z \in Tasks : task_page[z] = f => z = x)
      /\ \A x \in Tasks : page[x] = f => g >= 1 /\ (g = 1 => \A z \in Tasks : page[z] = f => z = x)
  BY AllFinite, NumUnique
<1> HIDE DEF p, d, k, g
<1>4. \/ p = 1 /\ d = 0 /\ k = 0 /\ g = 0
      \/ p = 0 /\ d = 1 /\ k = 0 /\ g = 0
      \/ p = 0 /\ d = 0 /\ k = 1 /\ g = 0
      \/ p = 0 /\ d = 0 /\ k = 0 /\ g = 1
  BY <1>1, <1>2
<1>5. ~(0 >= 1)
  OBVIOUS
<1> QED BY <1>3, <1>4, <1>5, Zenon

LEMMA ExclusiveHolds == Inv => Exclusive
<1> SUFFICES ASSUME Inv PROVE Exclusive
  OBVIOUS
<1>1. CountInv
  BY DEF Inv
<1>2. \A x \in Pages : rw[x] => pte[x] \in Frames /\ mem_map[pte[x]] = 1
  BY DEF Inv, TypeOK, Control, WritableIsPrivate
<1>3. \A x \in Tables : pg_dir[x] # NoPage => pg_dir[x] \in Frames /\ mem_map[pg_dir[x]] = 1
  BY DEF Inv, TypeOK, Control, WritableIsPrivate
<1>4. \A x \in Tasks : task_page[x] # NoPage => task_page[x] \in Frames /\ mem_map[task_page[x]] = 1
  BY DEF Inv, TypeOK, Control, WritableIsPrivate
<1>5. \A x \in Tasks : page[x] # NoPage => page[x] \in Frames /\ mem_map[page[x]] = 1
  BY DEF Inv, TypeOK, Control, WritableIsPrivate
<1>6. \A x, y \in Pages : rw[x] /\ pte[x] = pte[y] => x = y
  BY <1>1, <1>2, SingleUser
<1>7. \A x, y \in Tables : pg_dir[x] # NoPage /\ pg_dir[x] = pg_dir[y] => x = y
  BY <1>1, <1>3, SingleUser
<1>8. \A t, u \in Tasks : task_page[t] # NoPage /\ task_page[t] = task_page[u] => t = u
  BY <1>1, <1>4, SingleUser
<1>9. \A t, u \in Tasks : page[t] # NoPage /\ page[t] = page[u] => t = u
  BY <1>1, <1>5, SingleUser
<1>10. \A x \in Pages, y \in Tables : pte[x] # NoPage => pte[x] # pg_dir[y]
  BY <1>1, <1>3, SingleUser
<1>11. \A x \in Pages, t \in Tasks : pte[x] # NoPage => pte[x] # task_page[t] /\ pte[x] # page[t]
  BY <1>1, <1>4, <1>5, SingleUser
<1>12. \A x \in Tables, t \in Tasks :
         pg_dir[x] # NoPage => pg_dir[x] # task_page[t] /\ pg_dir[x] # page[t]
  BY <1>1, <1>3, SingleUser
<1>13. \A t, u \in Tasks : page[t] # NoPage => page[t] # task_page[u]
  BY <1>1, <1>5, SingleUser
<1> QED BY <1>6, <1>7, <1>8, <1>9, <1>10, <1>11, <1>12, <1>13, Zenon DEF Exclusive

-----------------------------------------------------------------------------
(* The parts of the actions.                                               *)

LEMMA Types ==
  ASSUME TypeOK
  PROVE  /\ mem_map \in [Frames -> Int]
         /\ data \in [Frames -> Contents]
         /\ pg_dir \in [Tables -> Frames \cup {NoPage}]
         /\ pte \in [Pages -> Frames \cup {NoPage}]
         /\ rw \in [Pages -> BOOLEAN]
         /\ dirty \in [Pages -> BOOLEAN]
         /\ task_page \in [Tasks -> Frames \cup {NoPage}]
         /\ page \in [Tasks -> Frames \cup {NoPage}]
BY DEF TypeOK

LEMMA Indices ==
  /\ \A t \in Tasks, a \in Addrs : <<t, a>> \in Pages /\ <<t, Dir(a)>> \in Tables
  /\ \A t \in Tasks : <<t, 0>> \in Tables /\ <<t, 1>> \in Tables /\ <<t, ArgAddr>> \in Pages
  /\ Dir(ArgAddr) = 1
  /\ NoPage \notin Frames
BY SizesAssumption DEF Pages, Tables, Dirs, Dir, Addrs, Frames, NoPage

(* The table that is used is the old one, or a free page. *)
LEMMA TableProperties ==
  ASSUME TypeOK, NEW t \in Tasks, NEW a \in Addrs, NEW map \in [Frames -> Int],
         TableFor(t, a, map) # NoPage
  PROVE  /\ TableFor(t, a, map) \in Frames
         /\ \/ /\ TableFor(t, a, map) = pg_dir[<<t, Dir(a)>>]
               /\ WithTable(t, a, map) = map
            \/ /\ pg_dir[<<t, Dir(a)>>] = NoPage
               /\ map[TableFor(t, a, map)] = 0
               /\ WithTable(t, a, map) = [map EXCEPT ![TableFor(t, a, map)] = 1]
<1>1. pg_dir[<<t, Dir(a)>>] \in Frames \cup {NoPage}
  BY Types, Indices
<1> QED BY <1>1, FreePage DEF TableFor, WithTable, Used

(* Setting the entry of a task's directory to that table adds as many      *)
(* references as are counted.                                              *)
LEMMA TableCounted ==
  ASSUME TypeOK, NEW t \in Tasks, NEW a \in Addrs, NEW map \in [Frames -> Int],
         TableFor(t, a, map) # NoPage, NEW g \in Frames
  PROVE  WithTable(t, a, map)[g] - map[g]
           = Num([pg_dir EXCEPT ![<<t, Dir(a)>>] = TableFor(t, a, map)], Tables, g)
               - Num(pg_dir, Tables, g)
<1> DEFINE d == [pg_dir EXCEPT ![<<t, Dir(a)>>] = TableFor(t, a, map)]
           z == <<t, Dir(a)>>
<1>1. z \in Tables /\ pg_dir \in [Tables -> Frames \cup {NoPage}] /\ NoPage # g
  BY Types, Indices
<1>2. d[z] = TableFor(t, a, map) /\ SameBut(pg_dir, d, Tables, z)
  BY <1>1 DEF SameBut
<1>3. Num(d, Tables, g) \in Nat /\ Num(pg_dir, Tables, g) \in Nat /\ map[g] \in Int
  BY AllFinite, NumType
<1>4. Num(d, Tables, g) = Num(pg_dir, Tables, g) + One(d[z], g) - One(pg_dir[z], g)
  <2> HIDE DEF d, z
  <2> QED BY <1>1, <1>2, AllFinite, NumSet
<1>5. WithTable(t, a, map)[g] - map[g] = One(d[z], g) - One(pg_dir[z], g)
  BY <1>1, <1>2, TableProperties DEF One
<1>6. One(d[z], g) \in Int /\ One(pg_dir[z], g) \in Int
  BY DEF One
<1> QED BY <1>3, <1>4, <1>5, <1>6

(* The tables of other tasks stay as they are, and no page is mapped       *)
(* writable that is not there.                                             *)
TablesGrow(t) ==
  /\ \A u \in Tasks \ {t} : /\ \A d \in Dirs : pg_dir'[<<u, d>>] = pg_dir[<<u, d>>]
                            /\ \A a \in Addrs : pte'[<<u, a>>] = pte[<<u, a>>]
  /\ \A x \in Tables : pg_dir[x] # NoPage => pg_dir'[x] # NoPage
  /\ \A x \in Pages : rw'[x] => pte'[x] # NoPage

(* put_page of a page that only the kernel path has, which is counted. *)
LEMMA PutPageKeeps ==
  ASSUME Inv, NEW t \in Tasks, NEW a \in Addrs, NEW f \in Frames, NEW map \in [Frames -> Int],
         pte[<<t, a>>] = NoPage, put_page(t, a, f, map), task_page' = task_page,
         page' \in [Tasks -> Frames \cup {NoPage}],
         \A u \in Tasks : page'[u] \in {page[u], NoPage},
         map[f] = 1, \A g \in Frames : mem_map[g] = 1 => map[g] = 1,
         \A g \in Frames : map[g] = Total(pte, pg_dir, task_page, page', g) + One(g, f)
  PROVE  /\ mem_map' \in [Frames -> Int] /\ pg_dir' \in [Tables -> Frames \cup {NoPage}]
         /\ pte' \in [Pages -> Frames \cup {NoPage}] /\ rw' \in [Pages -> BOOLEAN]
         /\ dirty' \in [Pages -> BOOLEAN]
         /\ WritableIsPrivate' /\ CountInv'
         /\ TablesGrow(t)
<1> DEFINE table == TableFor(t, a, map)
<1>1. TypeOK /\ WritableIsPrivate /\ <<t, a>> \in Pages /\ <<t, Dir(a)>> \in Tables
      /\ NoPage \notin Frames
  BY Indices DEF Inv
<1>2. /\ mem_map \in [Frames -> Int] /\ pg_dir \in [Tables -> Frames \cup {NoPage}]
      /\ pte \in [Pages -> Frames \cup {NoPage}] /\ rw \in [Pages -> BOOLEAN]
      /\ dirty \in [Pages -> BOOLEAN] /\ task_page \in [Tasks -> Frames \cup {NoPage}]
      /\ page \in [Tasks -> Frames \cup {NoPage}]
  BY <1>1, Types
<1>3. /\ table # NoPage
      /\ pg_dir' = [pg_dir EXCEPT ![<<t, Dir(a)>>] = table]
      /\ mem_map' = WithTable(t, a, map)
      /\ pte' = [pte EXCEPT ![<<t, a>>] = f]
      /\ rw' = [rw EXCEPT ![<<t, a>>] = TRUE]
      /\ dirty' = [dirty EXCEPT ![<<t, a>>] = FALSE]
  BY DEF put_page
<1>4. /\ table \in Frames
      /\ \/ table = pg_dir[<<t, Dir(a)>>] /\ WithTable(t, a, map) = map
         \/ /\ pg_dir[<<t, Dir(a)>>] = NoPage /\ map[table] = 0
            /\ WithTable(t, a, map) = [map EXCEPT ![table] = 1]
  BY <1>1, <1>3, TableProperties
<1> HIDE DEF table
<1>5. /\ mem_map' \in [Frames -> Int] /\ pg_dir' \in [Tables -> Frames \cup {NoPage}]
      /\ pte' \in [Pages -> Frames \cup {NoPage}] /\ rw' \in [Pages -> BOOLEAN]
      /\ dirty' \in [Pages -> BOOLEAN]
  BY <1>1, <1>2, <1>3, <1>4
<1>6. \A g \in Frames : mem_map[g] = 1 => mem_map'[g] = 1
  BY <1>3, <1>4
<1>7. mem_map'[f] = 1
  BY <1>3, <1>4
<1>8. WritableIsPrivate'
  <2>1. \A x \in Pages : rw[x] => pte[x] \in Frames /\ mem_map[pte[x]] = 1
    BY <1>2 DEF Inv, WritableIsPrivate, Control
  <2>2. \A x \in Pages : rw'[x] => mem_map'[pte'[x]] = 1
    BY <2>1, <1>1, <1>2, <1>3, <1>6, <1>7
  <2>3. mem_map'[table] = 1 \/ table = pg_dir[<<t, Dir(a)>>]
    BY <1>3, <1>4
  <2>4. \A x \in Tables : pg_dir[x] # NoPage => pg_dir[x] \in Frames /\ mem_map[pg_dir[x]] = 1
    BY <1>1, <1>2 DEF WritableIsPrivate
  <2>5. \A x \in Tables : pg_dir'[x] # NoPage => mem_map'[pg_dir'[x]] = 1
    BY <2>3, <2>4, <1>1, <1>2, <1>3, <1>6
  <2>6. \A u \in Tasks : task_page[u] # NoPage => mem_map'[task_page[u]] = 1
    BY <1>1, <1>2, <1>6 DEF WritableIsPrivate
  <2>7. \A u \in Tasks : page'[u] # NoPage => mem_map'[page'[u]] = 1
    BY <1>1, <1>2, <1>6 DEF WritableIsPrivate
  <2> QED BY <2>2, <2>5, <2>6, <2>7 DEF WritableIsPrivate
<1>9. ASSUME NEW g \in Frames
      PROVE  mem_map'[g] = Total(pte', pg_dir', task_page', page', g)
  <2>1. SameBut(pte, pte', Pages, <<t, a>>)
    BY <1>1, <1>2, <1>3 DEF SameBut
  <2>2. Num(pte', Pages, g) = Num(pte, Pages, g) + One(pte'[<<t, a>>], g) - One(pte[<<t, a>>], g)
    BY <2>1, <1>1, AllFinite, NumSet
  <2>3. One(pte'[<<t, a>>], g) = One(g, f) /\ One(pte[<<t, a>>], g) = 0
    BY <1>1, <1>2, <1>3 DEF One
  <2>4. mem_map'[g] - map[g] = Num(pg_dir', Tables, g) - Num(pg_dir, Tables, g)
    <3>1. TypeOK /\ TableFor(t, a, map) # NoPage
      BY <1>1, <1>3 DEF table
    <3>2. WithTable(t, a, map)[g] - map[g]
            = Num([pg_dir EXCEPT ![<<t, Dir(a)>>] = TableFor(t, a, map)], Tables, g)
                - Num(pg_dir, Tables, g)
      BY <3>1, TableCounted
    <3>3. /\ pg_dir' = [pg_dir EXCEPT ![<<t, Dir(a)>>] = TableFor(t, a, map)]
          /\ mem_map' = WithTable(t, a, map)
      BY <1>3 DEF table
    <3> QED BY <3>2, <3>3
  <2>5. map[g] = Total(pte, pg_dir, task_page, page', g) + One(g, f)
    OBVIOUS
  <2>6. /\ Num(pte', Pages, g) \in Nat /\ Num(pte, Pages, g) \in Nat
        /\ Num(pg_dir', Tables, g) \in Nat /\ Num(pg_dir, Tables, g) \in Nat
        /\ Num(task_page, Tasks, g) \in Nat /\ Num(page', Tasks, g) \in Nat
        /\ map[g] \in Int /\ mem_map'[g] \in Int /\ One(g, f) \in {0, 1}
    BY <1>5, AllFinite, NumType, OneType
  <2> QED BY <2>2, <2>3, <2>4, <2>5, <2>6 DEF Total
<1>10. TablesGrow(t)
  <2>1. \A u \in Tasks \ {t} : /\ \A d \in Dirs : pg_dir'[<<u, d>>] = pg_dir[<<u, d>>]
                              /\ \A b \in Addrs : pte'[<<u, b>>] = pte[<<u, b>>]
    BY <1>2, <1>3 DEF Pages, Tables
  <2>2. \A x \in Tables : pg_dir[x] # NoPage => pg_dir'[x] # NoPage
    BY <1>2, <1>3
  <2>3. \A x \in Pages : rw'[x] => pte'[x] # NoPage
    BY <1>1, <1>2, <1>3 DEF Inv, Control
  <2> QED BY <2>1, <2>2, <2>3 DEF TablesGrow
<1> QED BY <1>5, <1>8, <1>9, <1>10 DEF CountInv

(* What t frees is not what other tasks have as private. *)
LEMMA OthersSpared ==
  ASSUME Inv, NEW t \in Tasks
  PROVE  /\ \A x \in Pages : rw[x] /\ x[1] # t =>
              /\ Row(pte, Addrs, t, pte[x]) = 0 /\ Row(pg_dir, Dirs, t, pte[x]) = 0
              /\ page[t] # pte[x]
         /\ \A x \in Tables : pg_dir[x] # NoPage /\ x[1] # t =>
              /\ Row(pte, Addrs, t, pg_dir[x]) = 0 /\ Row(pg_dir, Dirs, t, pg_dir[x]) = 0
              /\ page[t] # pg_dir[x]
         /\ \A u \in Tasks : task_page[u] # NoPage =>
              /\ Row(pte, Addrs, t, task_page[u]) = 0 /\ Row(pg_dir, Dirs, t, task_page[u]) = 0
              /\ page[t] # task_page[u]
         /\ \A u \in Tasks : page[u] # NoPage =>
              Row(pte, Addrs, t, page[u]) = 0 /\ Row(pg_dir, Dirs, t, page[u]) = 0
<1>1. Exclusive /\ \A x \in Pages : rw[x] => pte[x] # NoPage
  BY ExclusiveHolds DEF Inv, Control
<1>2. (\A a \in Addrs : <<t, a>> \in Pages) /\ \A d \in Dirs : <<t, d>> \in Tables
  BY Indices DEF Tables
<1>3. ASSUME NEW x \in Pages, rw[x], x[1] # t
      PROVE  /\ Row(pte, Addrs, t, pte[x]) = 0 /\ Row(pg_dir, Dirs, t, pte[x]) = 0
             /\ page[t] # pte[x]
  <2>1. \A a \in Addrs : pte[<<t, a>>] # pte[x]
    BY <1>1, <1>2, <1>3 DEF Exclusive
  <2>2. \A d \in Dirs : pg_dir[<<t, d>>] # pte[x]
    BY <1>1, <1>2, <1>3 DEF Exclusive
  <2>3. page[t] # pte[x]
    BY <1>1, <1>3 DEF Exclusive
  <2> QED BY <2>1, <2>2, <2>3, RowEmpty
<1>4. ASSUME NEW x \in Tables, pg_dir[x] # NoPage, x[1] # t
      PROVE  /\ Row(pte, Addrs, t, pg_dir[x]) = 0 /\ Row(pg_dir, Dirs, t, pg_dir[x]) = 0
             /\ page[t] # pg_dir[x]
  <2>1. \A a \in Addrs : pte[<<t, a>>] # pg_dir[x]
    BY <1>1, <1>2, <1>4 DEF Exclusive
  <2>2. \A d \in Dirs : pg_dir[<<t, d>>] # pg_dir[x]
    BY <1>1, <1>2, <1>4 DEF Exclusive
  <2>3. page[t] # pg_dir[x]
    BY <1>1, <1>4 DEF Exclusive
  <2> QED BY <2>1, <2>2, <2>3, RowEmpty
<1>5. ASSUME NEW u \in Tasks, task_page[u] # NoPage
      PROVE  /\ Row(pte, Addrs, t, task_page[u]) = 0 /\ Row(pg_dir, Dirs, t, task_page[u]) = 0
             /\ page[t] # task_page[u]
  <2>1. \A a \in Addrs : pte[<<t, a>>] # task_page[u]
    BY <1>1, <1>2, <1>5 DEF Exclusive
  <2>2. \A d \in Dirs : pg_dir[<<t, d>>] # task_page[u]
    BY <1>1, <1>2, <1>5 DEF Exclusive
  <2>3. page[t] # task_page[u]
    BY <1>1, <1>5 DEF Exclusive
  <2> QED BY <2>1, <2>2, <2>3, RowEmpty
<1>6. ASSUME NEW u \in Tasks, page[u] # NoPage
      PROVE  Row(pte, Addrs, t, page[u]) = 0 /\ Row(pg_dir, Dirs, t, page[u]) = 0
  <2>1. \A a \in Addrs : pte[<<t, a>>] # page[u]
    BY <1>1, <1>2, <1>6 DEF Exclusive
  <2>2. \A d \in Dirs : pg_dir[<<t, d>>] # page[u]
    BY <1>1, <1>2, <1>6 DEF Exclusive
  <2> QED BY <2>1, <2>2, RowEmpty
<1> QED BY <1>3, <1>4, <1>5, <1>6

(* do_exit, with a map that counts all that is left to free. *)
LEMMA ExitKeeps ==
  ASSUME Inv, NEW t \in Tasks, NEW map \in [Frames -> Int], do_exit(t, map),
         pc[t] \notin {"none", "zombie"}, calls' \in 0 .. MaxCalls,
         \A g \in Frames : map[g] = Total(pte, pg_dir, task_page, page', g),
         \A g \in Frames : mem_map[g] = 1 /\ g # page[t] => map[g] = 1
  PROVE  Inv'
<1>1. TypeOK /\ WritableIsPrivate /\ Control /\ Exclusive /\ NoPage \notin Frames
  BY Indices, ExclusiveHolds DEF Inv
<1>2. /\ mem_map \in [Frames -> Int] /\ pg_dir \in [Tables -> Frames \cup {NoPage}]
      /\ pte \in [Pages -> Frames \cup {NoPage}] /\ rw \in [Pages -> BOOLEAN]
      /\ dirty \in [Pages -> BOOLEAN] /\ task_page \in [Tasks -> Frames \cup {NoPage}]
      /\ page \in [Tasks -> Frames \cup {NoPage}]
  BY <1>1, Types
<1>3. /\ pg_dir' = [x \in Tables |-> IF x[1] = t THEN NoPage ELSE pg_dir[x]]
      /\ pte' = [x \in Pages |-> IF x[1] = t THEN NoPage ELSE pte[x]]
      /\ rw' = [x \in Pages |-> x[1] # t /\ rw[x]]
      /\ dirty' = [x \in Pages |-> x[1] # t /\ dirty[x]]
      /\ page' = [page EXCEPT ![t] = NoPage]
      /\ task_page' = task_page /\ data' = data
      /\ executable' = [executable EXCEPT ![t] = NoExe]
      /\ pc' = [pc EXCEPT ![t] = "zombie"]
      /\ addr' = [addr EXCEPT ![t] = NoAddr]
      /\ ret' = [ret EXCEPT ![t] = "none"]
  BY DEF do_exit, ClearTables
<1>4. \A g \in Frames : mem_map'[g] = map[g] - Row(pte, Addrs, t, g) - Row(pg_dir, Dirs, t, g)
  BY DEF do_exit, Freed, TableRefs, DirRefs, Row
<1>5. \A g \in Frames : /\ Row(pte, Addrs, t, g) \in Nat /\ Row(pg_dir, Dirs, t, g) \in Nat
                        /\ Num(pte, Pages, g) = Num(pte', Pages, g) + Row(pte, Addrs, t, g)
                        /\ Num(pg_dir, Tables, g) = Num(pg_dir', Tables, g) + Row(pg_dir, Dirs, t, g)
  <2> TAKE g \in Frames
  <2>1. Cleared(pte, pte', Addrs, t, g)
    BY <1>1, <1>3 DEF Cleared, Pages
  <2>2. Cleared(pg_dir, pg_dir', Dirs, t, g)
    BY <1>1, <1>3 DEF Cleared, Tables
  <2>3. /\ Row(pte, Addrs, t, g) \in Nat
        /\ Num(pte, Pages, g) = Num(pte', Pages, g) + Row(pte, Addrs, t, g)
    BY <2>1, AllFinite, NumCleared DEF Pages
  <2>4. /\ Row(pg_dir, Dirs, t, g) \in Nat
        /\ Num(pg_dir, Tables, g) = Num(pg_dir', Tables, g) + Row(pg_dir, Dirs, t, g)
    BY <2>2, AllFinite, NumCleared DEF Tables
  <2> QED BY <2>3, <2>4
<1>6. mem_map' \in [Frames -> Int]
  <2>1. mem_map' = [g \in Frames |-> map[g] - Row(pte, Addrs, t, g) - Row(pg_dir, Dirs, t, g)]
    BY DEF do_exit, Freed, TableRefs, DirRefs, Row
  <2> QED BY <2>1, <1>5
<1>7. CountInv'
  <2> SUFFICES ASSUME NEW g \in Frames
               PROVE  mem_map'[g] = Total(pte', pg_dir', task_page', page', g)
    BY DEF CountInv
  <2>1. /\ Num(pte', Pages, g) \in Nat /\ Num(pg_dir', Tables, g) \in Nat
        /\ Num(task_page, Tasks, g) \in Nat /\ Num(page', Tasks, g) \in Nat
        /\ Row(pte, Addrs, t, g) \in Nat /\ Row(pg_dir, Dirs, t, g) \in Nat
    BY <1>5, AllFinite, NumType
  <2>2. map[g] = Num(pte, Pages, g) + Num(pg_dir, Tables, g)
                   + (Num(task_page, Tasks, g) + Num(page', Tasks, g))
    BY DEF Total
  <2>3. /\ mem_map'[g] = map[g] - Row(pte, Addrs, t, g) - Row(pg_dir, Dirs, t, g)
        /\ Num(pte, Pages, g) = Num(pte', Pages, g) + Row(pte, Addrs, t, g)
        /\ Num(pg_dir, Tables, g) = Num(pg_dir', Tables, g) + Row(pg_dir, Dirs, t, g)
    BY <1>4, <1>5
  <2>4. mem_map'[g] = Num(pte', Pages, g) + Num(pg_dir', Tables, g)
                        + (Num(task_page, Tasks, g) + Num(page', Tasks, g))
    BY <2>1, <2>2, <2>3
  <2> QED BY <2>4, <1>3 DEF Total
<1>8. WritableIsPrivate'
  <2>1. \A g \in Frames : /\ mem_map[g] = 1 /\ g # page[t]
                          /\ Row(pte, Addrs, t, g) = 0 /\ Row(pg_dir, Dirs, t, g) = 0
                          => mem_map'[g] = 1
    BY <1>4
  <2>2. \A x \in Pages : rw[x] => pte[x] \in Frames /\ mem_map[pte[x]] = 1
    BY <1>1, <1>2 DEF WritableIsPrivate, Control
  <2>3. \A x \in Pages : rw[x] /\ x[1] # t => mem_map'[pte[x]] = 1
    BY <2>1, <2>2, OthersSpared
  <2>4. \A x \in Pages : rw'[x] => mem_map'[pte'[x]] = 1
    BY <2>3, <1>3
  <2>5. \A x \in Tables : pg_dir[x] # NoPage /\ x[1] # t => mem_map'[pg_dir[x]] = 1
    BY <2>1, <1>1, <1>2, OthersSpared DEF WritableIsPrivate
  <2>6. \A x \in Tables : pg_dir'[x] # NoPage => mem_map'[pg_dir'[x]] = 1
    BY <2>5, <1>3
  <2>7. \A u \in Tasks : task_page[u] # NoPage => mem_map'[task_page[u]] = 1
    BY <2>1, <1>1, <1>2, OthersSpared DEF WritableIsPrivate
  <2>8. \A u \in Tasks : u # t /\ page[u] # NoPage => mem_map'[page[u]] = 1
    BY <2>1, <1>1, <1>2, OthersSpared DEF WritableIsPrivate, Exclusive
  <2>9. \A u \in Tasks : page'[u] # NoPage => mem_map'[page'[u]] = 1
    BY <2>8, <1>2, <1>3
  <2> QED BY <2>4, <2>6, <2>7, <2>9, <1>3 DEF WritableIsPrivate
<1>9. TypeOK'
  <2>1. pg_dir' \in [Tables -> Frames \cup {NoPage}] /\ pte' \in [Pages -> Frames \cup {NoPage}]
    BY <1>2, <1>3
  <2>2. rw' \in [Pages -> BOOLEAN] /\ dirty' \in [Pages -> BOOLEAN]
    BY <1>2, <1>3
  <2>3. page' \in [Tasks -> Frames \cup {NoPage}]
    BY <1>2, <1>3
  <2>4. /\ executable' \in [Tasks -> Exes \cup {NoExe}] /\ pc' \in [Tasks -> Labels]
        /\ addr' \in [Tasks -> Addrs \cup {NoAddr}] /\ ret' \in [Tasks -> {"none", "user", "read"}]
    BY <1>1, <1>3 DEF TypeOK, Labels
  <2> QED BY <2>1, <2>2, <2>3, <2>4, <1>1, <1>3, <1>6 DEF TypeOK
<1>10. Control'
  <2>1. /\ pc \in [Tasks -> Labels] /\ addr \in [Tasks -> Addrs \cup {NoAddr}]
        /\ executable \in [Tasks -> Exes \cup {NoExe}] /\ ret \in [Tasks -> {"none", "user", "read"}]
    BY <1>1 DEF TypeOK
  <2>2. \A u \in Tasks : u # t => pc'[u] = pc[u] /\ page'[u] = page[u] /\ addr'[u] = addr[u]
                                  /\ executable'[u] = executable[u] /\ ret'[u] = ret[u]
    BY <2>1, <1>2, <1>3
  <2>3. pc'[t] = "zombie" /\ page'[t] = NoPage
    BY <2>1, <1>2, <1>3
  <2>4. \A u \in Tasks : /\ \A d \in Dirs : pg_dir'[<<u, d>>] = IF u = t THEN NoPage ELSE pg_dir[<<u, d>>]
                         /\ \A a \in Addrs : pte'[<<u, a>>] = IF u = t THEN NoPage ELSE pte[<<u, a>>]
    BY <1>3 DEF Pages, Tables
  <2>5. 1 \in Dirs /\ ImageAddrs \subseteq Addrs
    BY DEF Dirs, Addrs
  <2>6. \A x \in Pages : rw'[x] => pte'[x] # NoPage
    BY <1>1, <1>2, <1>3 DEF Control
  <2> QED BY <2>2, <2>3, <2>4, <2>5, <2>6, <1>1, <1>3 DEF Control
<1> QED BY <1>7, <1>8, <1>9, <1>10 DEF Inv

(* do_exit of a task that has no page in a variable of the kernel. *)
LEMMA ExitNow ==
  ASSUME Inv, NEW t \in Tasks, do_exit(t, mem_map), pc[t] \in {"user", "read"},
         calls' \in 0 .. MaxCalls
  PROVE  Inv'
<1>1. mem_map \in [Frames -> Int] /\ page \in [Tasks -> Frames \cup {NoPage}] /\ page[t] = NoPage
  BY DEF Inv, TypeOK, Control
<1>2. page' = page
  BY <1>1 DEF do_exit
<1>3. \A g \in Frames : mem_map[g] = Total(pte, pg_dir, task_page, page', g)
  BY <1>2 DEF Inv, CountInv
<1> QED BY <1>1, <1>3, ExitKeeps

(* What the control state allows a task that maps a page to do. *)
LEMMA ControlGrows ==
  ASSUME Inv, NEW t \in Tasks, TablesGrow(t), pc[t] \in {"user", "read"},
         task_page' = task_page, page' = page, executable' = executable, ret' = ret,
         pc' \in [Tasks -> Labels], pc'[t] \in {"user", "read"},
         addr' \in [Tasks -> Addrs \cup {NoAddr}],
         \A u \in Tasks : u # t => pc'[u] = pc[u] /\ addr'[u] = addr[u],
         pc'[t] = "read" => addr'[t] \in ReadAddrs
  PROVE  Control'
<1>1. Control /\ 1 \in Dirs /\ ImageAddrs \subseteq Addrs
  BY DEF Inv, Dirs, Addrs
<1>2. \A u \in Tasks : <<u, 1>> \in Tables
  BY Indices
<1>3. \A u \in Tasks : pc[u] \notin {"none", "zombie"} => pg_dir'[<<u, 1>>] # NoPage
  BY <1>1, <1>2 DEF TablesGrow, Control
<1>4. \A u \in Tasks : pc'[u] \notin {"none", "zombie"} => pc[u] \notin {"none", "zombie"}
  OBVIOUS
<1>5. \A u \in Tasks : pc'[u] \in {"none", "zombie"} =>
        /\ \A d \in Dirs : pg_dir'[<<u, d>>] = NoPage
        /\ \A a \in Addrs : pte'[<<u, a>>] = NoPage
  BY <1>1 DEF TablesGrow, Control
<1>6. \A u \in Tasks : pc'[u] = "load" =>
       /\ addr'[u] \in ImageAddrs /\ pte'[<<u, addr'[u]>>] = NoPage /\ executable'[u] \in Exes
       /\ ret'[u] \in {"user", "read"} /\ (ret'[u] = "read" => addr'[u] \in ReadAddrs)
  BY <1>1 DEF TablesGrow, Control
<1>7. \A u \in Tasks : page'[u] # NoPage <=> pc'[u] \in {"load", "args", "execve"}
  BY <1>1 DEF Control
<1>8. \A u \in Tasks : task_page'[u] = NoPage <=> pc'[u] = "none"
  BY <1>1 DEF Control
<1>9. \A u \in Tasks : pc'[u] = "read" => addr'[u] \in ReadAddrs
  BY <1>1 DEF Control
<1>10. \A x \in Pages : rw'[x] => pte'[x] # NoPage
  BY DEF TablesGrow
<1> QED BY <1>3, <1>4, <1>5, <1>6, <1>7, <1>8, <1>9, <1>10 DEF Control

LEMMA NoPageEmptyKeeps ==
  ASSUME Inv, NEW t \in Tasks, NEW a \in Addrs, NoPageEmpty(t, a)
  PROVE  Inv'
<1> DEFINE f == get_free_page(mem_map)
           map == Used(mem_map, f)
<1>1. /\ TypeOK /\ Control /\ calls' = calls /\ f # NoPage /\ pte[<<t, a>>] = NoPage
      /\ pc[t] \in {"user", "read"}
      /\ \/ put_page(t, a, f, map) /\ data' = [data EXCEPT ![f] = Zero] /\ UNCHANGED taskVars
         \/ do_exit(t, mem_map)
  BY DEF NoPageEmpty, Touches, Inv
<1>2. f \in Frames /\ mem_map[f] = 0 /\ mem_map \in [Frames -> Int]
  BY <1>1, FreePage, Types
<1>3. map \in [Frames -> Int] /\ map[f] = 1 /\ \A g \in Frames : mem_map[g] = 1 => map[g] = 1
  BY <1>2 DEF Used
<1>4. calls' \in 0 .. MaxCalls
  BY <1>1 DEF TypeOK
<1>5. CASE do_exit(t, mem_map)
  BY <1>1, <1>4, <1>5, ExitNow
<1>6. CASE put_page(t, a, f, map) /\ data' = [data EXCEPT ![f] = Zero] /\ UNCHANGED taskVars
  <2>1. /\ task_page' = task_page /\ page' = page /\ executable' = executable /\ pc' = pc
        /\ addr' = addr /\ ret' = ret
    BY <1>6 DEF taskVars
  <2>2. \A g \in Frames : map[g] = Total(pte, pg_dir, task_page, page', g) + One(g, f)
    <3> TAKE g \in Frames
    <3>1. mem_map[g] = Total(pte, pg_dir, task_page, page', g)
      BY <2>1 DEF Inv, CountInv
    <3>2. map[g] = mem_map[g] + One(g, f)
      BY <1>2 DEF Used, One
    <3> QED BY <3>1, <3>2
  <2>3. page' \in [Tasks -> Frames \cup {NoPage}] /\ \A u \in Tasks : page'[u] \in {page[u], NoPage}
    BY <1>1, <2>1, Types
  <2> HIDE DEF f, map
  <2>4. /\ mem_map' \in [Frames -> Int] /\ pg_dir' \in [Tables -> Frames \cup {NoPage}]
        /\ pte' \in [Pages -> Frames \cup {NoPage}] /\ rw' \in [Pages -> BOOLEAN]
        /\ dirty' \in [Pages -> BOOLEAN]
        /\ WritableIsPrivate' /\ CountInv' /\ TablesGrow(t)
    BY <1>1, <1>2, <1>3, <1>6, <2>1, <2>2, <2>3, PutPageKeeps
  <2>5. data' \in [Frames -> Contents]
    BY <1>1, <1>2, <1>6 DEF TypeOK, Contents
  <2>6. TypeOK'
    BY <2>1, <2>4, <2>5, <1>1 DEF TypeOK
  <2>7. Control'
    <3>1. pc \in [Tasks -> Labels] /\ addr \in [Tasks -> Addrs \cup {NoAddr}]
      BY <1>1 DEF TypeOK
    <3>2. pc[t] = "read" => addr[t] \in ReadAddrs
      BY <1>1 DEF Control
    <3> QED BY <2>1, <2>4, <3>1, <3>2, <1>1, ControlGrows
  <2> QED BY <2>4, <2>6, <2>7 DEF Inv
<1> QED BY <1>1, <1>5, <1>6

LEMMA NoPageOomKeeps ==
  ASSUME Inv, NEW t \in Tasks, NEW a \in Addrs, NoPageOom(t, a)
  PROVE  Inv'
<1>1. do_exit(t, mem_map) /\ pc[t] \in {"user", "read"} /\ calls' = calls
  BY DEF NoPageOom, Touches
<1>2. calls' \in 0 .. MaxCalls
  BY <1>1 DEF Inv, TypeOK
<1> QED BY <1>1, <1>2, ExitNow

(* A free page is taken into a variable of the kernel. *)
TakePage(t, f) ==
  /\ mem_map' = Used(mem_map, f) /\ page' = [page EXCEPT ![t] = f]
  /\ UNCHANGED <<pg_dir, pte, rw, dirty, task_page>>

LEMMA TakePageKeeps ==
  ASSUME Inv, NEW t \in Tasks, NEW f \in Frames, mem_map[f] = 0, page[t] = NoPage,
         TakePage(t, f)
  PROVE  /\ mem_map' \in [Frames -> Int] /\ page' \in [Tasks -> Frames \cup {NoPage}]
         /\ WritableIsPrivate' /\ CountInv'
<1>1. TypeOK /\ Control /\ WritableIsPrivate /\ NoPage \notin Frames
  BY Indices DEF Inv
<1>2. /\ mem_map \in [Frames -> Int] /\ pg_dir \in [Tables -> Frames \cup {NoPage}]
      /\ pte \in [Pages -> Frames \cup {NoPage}] /\ rw \in [Pages -> BOOLEAN]
      /\ task_page \in [Tasks -> Frames \cup {NoPage}] /\ page \in [Tasks -> Frames \cup {NoPage}]
  BY <1>1, Types
<1>3. /\ mem_map' = Used(mem_map, f) /\ page' = [page EXCEPT ![t] = f]
      /\ UNCHANGED <<pg_dir, pte, rw, dirty, task_page>>
  BY DEF TakePage
<1>4. mem_map' \in [Frames -> Int] /\ page' \in [Tasks -> Frames \cup {NoPage}]
  BY <1>3, <1>2 DEF Used
<1>5. mem_map'[f] = 1 /\ \A g \in Frames : mem_map[g] = 1 => mem_map'[g] = 1
  BY <1>3, <1>2 DEF Used
<1>6. WritableIsPrivate'
  <2>1. \A x \in Pages : rw[x] => pte[x] \in Frames
    BY <1>1, <1>2 DEF Control
  <2>2. \A x \in Pages : rw[x] => mem_map'[pte[x]] = 1
    BY <2>1, <1>1, <1>5 DEF WritableIsPrivate
  <2>3. \A x \in Tables : pg_dir[x] # NoPage => mem_map'[pg_dir[x]] = 1
    BY <1>1, <1>2, <1>5 DEF WritableIsPrivate
  <2>4. \A u \in Tasks : task_page[u] # NoPage => mem_map'[task_page[u]] = 1
    BY <1>1, <1>2, <1>5 DEF WritableIsPrivate
  <2>5. \A u \in Tasks : page[u] # NoPage => mem_map'[page[u]] = 1
    BY <1>1, <1>2, <1>5 DEF WritableIsPrivate
  <2>6. \A u \in Tasks : page'[u] # NoPage => mem_map'[page'[u]] = 1
    BY <2>5, <1>3, <1>2, <1>5
  <2> QED BY <2>2, <2>3, <2>4, <2>6, <1>3 DEF WritableIsPrivate
<1>7. ASSUME NEW g \in Frames
      PROVE  mem_map'[g] = Total(pte', pg_dir', task_page', page', g)
  <2>1. SameBut(page, page', Tasks, t)
    BY <1>3, <1>2 DEF SameBut
  <2>2. Num(page', Tasks, g) = Num(page, Tasks, g) + One(page'[t], g) - One(page[t], g)
    BY <2>1, AllFinite, NumSet
  <2>3. One(page'[t], g) = One(g, f) /\ One(page[t], g) = 0
    BY <1>3, <1>1, <1>2 DEF One
  <2>4. mem_map'[g] = mem_map[g] + One(g, f)
    BY <1>3, <1>2 DEF Used, One
  <2>5. mem_map[g] = Total(pte, pg_dir, task_page, page, g)
    BY DEF Inv, CountInv
  <2>6. /\ Num(pte, Pages, g) \in Nat /\ Num(pg_dir, Tables, g) \in Nat
        /\ Num(task_page, Tasks, g) \in Nat /\ Num(page, Tasks, g) \in Nat
        /\ Num(page', Tasks, g) \in Nat /\ mem_map[g] \in Int /\ One(g, f) \in {0, 1}
    BY <1>2, AllFinite, NumType, OneType
  <2>7. mem_map'[g] = Total(pte, pg_dir, task_page, page', g)
    BY <2>2, <2>3, <2>4, <2>5, <2>6 DEF Total
  <2> QED BY <2>7, <1>3
<1> QED BY <1>4, <1>6, <1>7 DEF CountInv

LEMMA NoPageLoadKeeps ==
  ASSUME Inv, NEW t \in Tasks, NEW a \in Addrs, NoPageLoad(t, a)
  PROVE  Inv'
<1> DEFINE f == get_free_page(mem_map)
<1>1. /\ TypeOK /\ Control /\ f # NoPage /\ pte[<<t, a>>] = NoPage
      /\ pc[t] \in {"user", "read"} /\ (pc[t] = "read" => addr[t] = a)
      /\ a \in ImageAddrs /\ executable[t] # NoExe
      /\ mem_map' = Used(mem_map, f) /\ data' = [data EXCEPT ![f] = Zero]
      /\ page' = [page EXCEPT ![t] = f] /\ addr' = [addr EXCEPT ![t] = a]
      /\ ret' = [ret EXCEPT ![t] = pc[t]] /\ pc' = [pc EXCEPT ![t] = "load"]
      /\ UNCHANGED <<pg_dir, pte, rw, dirty, task_page, executable, calls>>
  BY DEF NoPageLoad, Touches, Inv, Anonymous, tableVars
<1>2. f \in Frames /\ mem_map[f] = 0 /\ page[t] = NoPage
  BY <1>1, FreePage DEF Control
<1> HIDE DEF f
<1>3. /\ mem_map' \in [Frames -> Int] /\ page' \in [Tasks -> Frames \cup {NoPage}]
      /\ WritableIsPrivate' /\ CountInv'
  <2>1. TakePage(t, f)
    BY <1>1 DEF TakePage
  <2> QED BY <1>2, <2>1, TakePageKeeps
<1>4. /\ data \in [Frames -> Contents] /\ executable \in [Tasks -> Exes \cup {NoExe}]
      /\ pc \in [Tasks -> Labels] /\ addr \in [Tasks -> Addrs \cup {NoAddr}]
      /\ ret \in [Tasks -> {"none", "user", "read"}] /\ page \in [Tasks -> Frames \cup {NoPage}]
  BY <1>1 DEF TypeOK
<1>5. TypeOK'
  <2>1. data' \in [Frames -> Contents]
    BY <1>1, <1>2, <1>4 DEF Contents
  <2>2. pc' \in [Tasks -> Labels] /\ addr' \in [Tasks -> Addrs \cup {NoAddr}]
    BY <1>1, <1>4 DEF Labels
  <2>3. ret' \in [Tasks -> {"none", "user", "read"}]
    BY <1>1, <1>4
  <2> QED BY <2>1, <2>2, <2>3, <1>1, <1>3 DEF TypeOK
<1>6. Control'
  <2>1. \A u \in Tasks : u # t => pc'[u] = pc[u] /\ addr'[u] = addr[u] /\ ret'[u] = ret[u]
                                  /\ page'[u] = page[u]
    BY <1>1, <1>4
  <2>2. /\ pc'[t] = "load" /\ addr'[t] = a /\ ret'[t] = pc[t] /\ page'[t] = f /\ f # NoPage
        /\ executable[t] \in Exes
    BY <1>1, <1>4
  <2>3. pc[t] = "read" => a \in ReadAddrs
    BY <1>1 DEF Control
  <2> QED BY <2>1, <2>2, <2>3, <1>1 DEF Control
<1> QED BY <1>3, <1>5, <1>6 DEF Inv

(* A page leaves the kernel's variable. *)
DropPage(t) == page' = [page EXCEPT ![t] = NoPage]

LEMMA DropPageCounts ==
  ASSUME TypeOK, NEW t \in Tasks, page[t] \in Frames, DropPage(t), NEW g \in Frames
  PROVE  /\ page' \in [Tasks -> Frames \cup {NoPage}]
         /\ Total(pte, pg_dir, task_page, page', g) \in Nat
         /\ Total(pte, pg_dir, task_page, page, g)
              = Total(pte, pg_dir, task_page, page', g) + One(g, page[t])
<1>1. page' = [page EXCEPT ![t] = NoPage] /\ page \in [Tasks -> Frames \cup {NoPage}]
  BY Types DEF DropPage
<1>2. page' \in [Tasks -> Frames \cup {NoPage}] /\ SameBut(page, page', Tasks, t)
  BY <1>1 DEF SameBut
<1>3. Num(page', Tasks, g) = Num(page, Tasks, g) + One(page'[t], g) - One(page[t], g)
  BY <1>2, AllFinite, NumSet
<1>4. One(page'[t], g) = 0 /\ One(page[t], g) = One(g, page[t])
  BY <1>1, Indices DEF One
<1>5. /\ Num(pte, Pages, g) \in Nat /\ Num(pg_dir, Tables, g) \in Nat
      /\ Num(task_page, Tasks, g) \in Nat /\ Num(page, Tasks, g) \in Nat
      /\ Num(page', Tasks, g) \in Nat /\ One(g, page[t]) \in {0, 1}
  BY AllFinite, NumType, OneType
<1> QED BY <1>2, <1>3, <1>4, <1>5 DEF Total

LEMMA LoadedKeeps ==
  ASSUME Inv, NEW t \in Tasks, Loaded(t)
  PROVE  Inv'
<1> DEFINE f == page[t]
           a == addr[t]
           map == [mem_map EXCEPT ![f] = @ - 1]
<1>1. /\ TypeOK /\ Control /\ pc[t] = "load" /\ calls' = calls
      /\ page \in [Tasks -> Frames \cup {NoPage}] /\ mem_map \in [Frames -> Int]
  BY Types DEF Loaded, Inv
<1>2. /\ f \in Frames /\ a \in Addrs /\ a \in ImageAddrs /\ pte[<<t, a>>] = NoPage
      /\ executable[t] \in Exes /\ ret[t] \in {"user", "read"}
      /\ (ret[t] = "read" => a \in ReadAddrs)
  BY <1>1 DEF Control, Addrs
<1>3. mem_map[f] = 1
  BY <1>2, Indices DEF Inv, WritableIsPrivate
<1>4. DropPage(t)
  BY DEF Loaded, do_exit, DropPage
<1>5. /\ page' \in [Tasks -> Frames \cup {NoPage}] /\ page'[t] = NoPage
      /\ \A u \in Tasks : u # t => page'[u] = page[u]
  BY <1>1, <1>4 DEF DropPage
<1>6. \A g \in Frames : mem_map[g] = Total(pte, pg_dir, task_page, page', g) + One(g, f)
  BY <1>1, <1>2, <1>4, DropPageCounts DEF Inv, CountInv
<1>7. CASE do_exit(t, map)
  <2>1. map \in [Frames -> Int] /\ \A g \in Frames : map[g] = mem_map[g] - One(g, f)
    BY <1>1, <1>2 DEF One
  <2>2. \A g \in Frames : map[g] = Total(pte, pg_dir, task_page, page', g)
    <3> TAKE g \in Frames
    <3>1. Total(pte, pg_dir, task_page, page', g) \in Nat /\ One(g, f) \in {0, 1}
      BY <1>1, <1>2, <1>4, DropPageCounts, OneType
    <3>2. map[g] = mem_map[g] - One(g, f) /\ mem_map[g] \in Int
      BY <1>1, <2>1
    <3>3. mem_map[g] = Total(pte, pg_dir, task_page, page', g) + One(g, f)
      BY <1>6
    <3> HIDE DEF map, f
    <3> QED BY <3>1, <3>2, <3>3
  <2>3. \A g \in Frames : mem_map[g] = 1 /\ g # page[t] => map[g] = 1
    BY <1>1
  <2>4. calls' \in 0 .. MaxCalls /\ pc[t] \notin {"none", "zombie"}
    BY <1>1 DEF TypeOK
  <2> HIDE DEF map
  <2> QED BY <1>7, <2>1, <2>2, <2>3, <2>4, ExitKeeps
<1>8. CASE /\ put_page(t, a, f, mem_map)
           /\ data' = [data EXCEPT ![f] = ImageOf(executable[t], a)]
           /\ pc' = [pc EXCEPT ![t] = ret[t]]
           /\ addr' = [addr EXCEPT ![t] = IF ret[t] = "read" THEN @ ELSE NoAddr]
           /\ ret' = [ret EXCEPT ![t] = "none"]
           /\ UNCHANGED <<task_page, executable>>
  <2>1. task_page' = task_page /\ \A u \in Tasks : page'[u] \in {page[u], NoPage}
    BY <1>5, <1>8
  <2>2. /\ mem_map' \in [Frames -> Int] /\ pg_dir' \in [Tables -> Frames \cup {NoPage}]
        /\ pte' \in [Pages -> Frames \cup {NoPage}] /\ rw' \in [Pages -> BOOLEAN]
        /\ dirty' \in [Pages -> BOOLEAN]
        /\ WritableIsPrivate' /\ CountInv' /\ TablesGrow(t)
    <3> HIDE DEF f, a
    <3> QED BY <1>1, <1>2, <1>3, <1>5, <1>6, <1>8, <2>1, PutPageKeeps
  <2>3. /\ data \in [Frames -> Contents] /\ pc \in [Tasks -> Labels]
        /\ addr \in [Tasks -> Addrs \cup {NoAddr}] /\ ret \in [Tasks -> {"none", "user", "read"}]
    BY <1>1 DEF TypeOK
  <2>4. TypeOK'
    <3>1. ImageOf(executable[t], a) \in Contents
      BY <1>2 DEF Contents
    <3>2. data' \in [Frames -> Contents]
      BY <1>2, <1>8, <2>3, <3>1
    <3>3. pc' \in [Tasks -> Labels] /\ addr' \in [Tasks -> Addrs \cup {NoAddr}]
      BY <1>2, <1>8, <2>3 DEF Labels
    <3>4. ret' \in [Tasks -> {"none", "user", "read"}]
      BY <1>8, <2>3
    <3> QED BY <3>2, <3>3, <3>4, <2>2, <1>1, <1>5, <1>8 DEF TypeOK
  <2>5. Control'
    <3>1. \A u \in Tasks : u # t => pc'[u] = pc[u] /\ addr'[u] = addr[u] /\ ret'[u] = ret[u]
      BY <1>8, <2>3
    <3>2. pc'[t] \in {"user", "read"} /\ (pc'[t] = "read" => addr'[t] \in ReadAddrs)
      BY <1>2, <1>8, <2>3
    <3>3. task_page' = task_page /\ executable' = executable
      BY <1>8
    <3>4. 1 \in Dirs /\ ImageAddrs \subseteq Addrs /\ \A u \in Tasks : <<u, 1>> \in Tables
      BY Indices DEF Dirs, Addrs
    <3>5. \A u \in Tasks : pc'[u] \notin {"none", "zombie"} => pg_dir'[<<u, 1>>] # NoPage
      BY <1>1, <2>2, <3>1, <3>4 DEF TablesGrow, Control
    <3>6. \A u \in Tasks : pc'[u] \in {"none", "zombie"} =>
            /\ \A d \in Dirs : pg_dir'[<<u, d>>] = NoPage
            /\ \A b \in Addrs : pte'[<<u, b>>] = NoPage
      BY <1>1, <2>2, <3>1, <3>2 DEF TablesGrow, Control
    <3>7. \A u \in Tasks : pc'[u] = "load" =>
           /\ addr'[u] \in ImageAddrs /\ pte'[<<u, addr'[u]>>] = NoPage /\ executable'[u] \in Exes
           /\ ret'[u] \in {"user", "read"} /\ (ret'[u] = "read" => addr'[u] \in ReadAddrs)
      BY <1>1, <2>2, <3>1, <3>2, <3>3, <3>4 DEF TablesGrow, Control
    <3>8. \A u \in Tasks : page'[u] # NoPage <=> pc'[u] \in {"load", "args", "execve"}
      BY <1>1, <1>5, <3>1, <3>2 DEF Control
    <3>9. \A u \in Tasks : task_page'[u] = NoPage <=> pc'[u] = "none"
      BY <1>1, <3>1, <3>2, <3>3 DEF Control
    <3>10. \A u \in Tasks : pc'[u] = "read" => addr'[u] \in ReadAddrs
      BY <1>1, <3>1, <3>2 DEF Control
    <3>11. \A x \in Pages : rw'[x] => pte'[x] # NoPage
      BY <2>2 DEF TablesGrow
    <3> QED BY <3>5, <3>6, <3>7, <3>8, <3>9, <3>10, <3>11 DEF Control
  <2> QED BY <2>2, <2>4, <2>5 DEF Inv
<1> QED BY <1>7, <1>8 DEF Loaded

LEMMA NoPageShareKeeps ==
  ASSUME Inv, NEW t \in Tasks, NEW a \in Addrs, NoPageShare(t, a)
  PROVE  Inv'
<1> DEFINE q == Donor(t, a)
           f == pte[<<q, a>>]
           map == WithTable(t, a, mem_map)
           table == TableFor(t, a, mem_map)
<1>1. /\ TypeOK /\ Control /\ WritableIsPrivate /\ CountInv /\ Exclusive /\ calls' = calls
      /\ pte[<<t, a>>] = NoPage /\ pc[t] \in {"user", "read"} /\ Donors(t, a) # {}
  BY ExclusiveHolds DEF NoPageShare, Touches, Inv
<1>2. /\ mem_map \in [Frames -> Int] /\ pg_dir \in [Tables -> Frames \cup {NoPage}]
      /\ pte \in [Pages -> Frames \cup {NoPage}] /\ rw \in [Pages -> BOOLEAN]
      /\ dirty \in [Pages -> BOOLEAN] /\ task_page \in [Tasks -> Frames \cup {NoPage}]
      /\ page \in [Tasks -> Frames \cup {NoPage}]
  BY <1>1, Types
<1>3. /\ <<t, a>> \in Pages /\ <<q, a>> \in Pages /\ <<t, Dir(a)>> \in Tables
      /\ NoPage \notin Frames /\ q \in Tasks \ {t} /\ f \in Frames
  <2>1. q \in Tasks \ {t} /\ pte[<<q, a>>] # NoPage
    BY <1>1, DonorIsDonor DEF Donors
  <2>2. <<q, a>> \in Pages /\ <<t, a>> \in Pages /\ <<t, Dir(a)>> \in Tables /\ NoPage \notin Frames
    BY <2>1, Indices
  <2> HIDE DEF q
  <2> QED BY <1>2, <2>1, <2>2
<1>4. calls' \in 0 .. MaxCalls
  BY <1>1 DEF TypeOK
<1>5. CASE do_exit(t, mem_map)
  BY <1>1, <1>4, <1>5, ExitNow
<1>6. CASE /\ table # NoPage
           /\ pg_dir' = [pg_dir EXCEPT ![<<t, Dir(a)>>] = table]
           /\ pte' = [pte EXCEPT ![<<t, a>>] = f]
           /\ rw' = [rw EXCEPT ![<<t, a>>] = FALSE, ![<<q, a>>] = FALSE]
           /\ dirty' = [dirty EXCEPT ![<<t, a>>] = FALSE]
           /\ mem_map' = [map EXCEPT ![f] = @ + 1]
           /\ UNCHANGED <<taskVars, data>>
  <2>1. /\ task_page' = task_page /\ page' = page /\ executable' = executable /\ pc' = pc
        /\ addr' = addr /\ ret' = ret /\ data' = data
    BY <1>6 DEF taskVars
  <2>2. /\ table \in Frames
        /\ \/ table = pg_dir[<<t, Dir(a)>>] /\ map = mem_map
           \/ /\ pg_dir[<<t, Dir(a)>>] = NoPage /\ mem_map[table] = 0
              /\ map = [mem_map EXCEPT ![table] = 1]
    BY <1>1, <1>2, <1>6, TableProperties
  <2>3. mem_map[f] # 0
    BY <1>1, <1>3, Unused
  <2> HIDE DEF q, f, map, table
  <2>4. map \in [Frames -> Int]
    BY <1>2, <2>2
  <2>5. \A g \in Frames : g # f /\ mem_map[g] = 1 => mem_map'[g] = 1
    BY <1>2, <1>6, <2>2, <2>4
  <2>6. TypeOK'
    <3>1. /\ mem_map' \in [Frames -> Int] /\ pg_dir' \in [Tables -> Frames \cup {NoPage}]
          /\ pte' \in [Pages -> Frames \cup {NoPage}] /\ rw' \in [Pages -> BOOLEAN]
          /\ dirty' \in [Pages -> BOOLEAN]
      <4>1. mem_map' \in [Frames -> Int]
        BY <1>3, <1>6, <2>4
      <4>2. pg_dir' \in [Tables -> Frames \cup {NoPage}] /\ pte' \in [Pages -> Frames \cup {NoPage}]
        BY <1>2, <1>3, <1>6, <2>2
      <4>3. rw' \in [Pages -> BOOLEAN] /\ dirty' \in [Pages -> BOOLEAN]
        BY <1>2, <1>3, <1>6
      <4> QED BY <4>1, <4>2, <4>3
    <3> QED BY <3>1, <2>1, <1>1 DEF TypeOK
  <2>7. WritableIsPrivate'
    <3>1. \A x \in Pages : rw'[x] => rw[x] /\ x # <<t, a>> /\ x # <<q, a>>
      BY <1>2, <1>3, <1>6
    <3>2. \A x \in Pages : rw[x] /\ x # <<q, a>> => pte[x] # f
      BY <1>1, <1>3 DEF Exclusive, f
    <3>3. \A x \in Pages : rw[x] => pte[x] \in Frames /\ mem_map[pte[x]] = 1
      BY <1>1, <1>2 DEF WritableIsPrivate, Control
    <3>4. \A x \in Pages : rw'[x] => mem_map'[pte'[x]] = 1
      BY <3>1, <3>2, <3>3, <2>5, <1>2, <1>6
    <3>5. table # f /\ (table # pg_dir[<<t, Dir(a)>>] => mem_map'[table] = 1)
      <4>1. \A x \in Tables : pg_dir[x] # f
        BY <1>1, <1>3 DEF Exclusive, f
      <4>2. table # f
        BY <4>1, <1>3, <2>2, <2>3
      <4> QED BY <4>2, <1>2, <1>6, <2>2
    <3>6. \A x \in Tables : pg_dir[x] # NoPage => pg_dir[x] # f /\ mem_map[pg_dir[x]] = 1
      BY <1>1, <1>3 DEF Exclusive, WritableIsPrivate, f
    <3>7. \A x \in Tables : pg_dir[x] # NoPage => mem_map'[pg_dir[x]] = 1
      BY <3>6, <2>5, <1>2
    <3>8. \A x \in Tables : pg_dir'[x] # NoPage => mem_map'[pg_dir'[x]] = 1
      BY <3>5, <3>7, <1>2, <1>6
    <3>9. \A u \in Tasks : task_page[u] # NoPage => task_page[u] # f /\ mem_map[task_page[u]] = 1
      BY <1>1, <1>3 DEF Exclusive, WritableIsPrivate, f
    <3>10. \A u \in Tasks : page[u] # NoPage => page[u] # f /\ mem_map[page[u]] = 1
      BY <1>1, <1>3 DEF Exclusive, WritableIsPrivate, f
    <3>11. \A u \in Tasks : task_page[u] # NoPage => mem_map'[task_page[u]] = 1
      BY <3>9, <2>5, <1>2
    <3>12. \A u \in Tasks : page[u] # NoPage => mem_map'[page[u]] = 1
      BY <3>10, <2>5, <1>2
    <3> QED BY <3>4, <3>8, <3>11, <3>12, <2>1 DEF WritableIsPrivate
  <2>8. ASSUME NEW g \in Frames
        PROVE  mem_map'[g] = Total(pte', pg_dir', task_page', page', g)
    <3>1. SameBut(pte, pte', Pages, <<t, a>>)
      BY <1>2, <1>3, <1>6 DEF SameBut
    <3>2. Num(pte', Pages, g) = Num(pte, Pages, g) + One(pte'[<<t, a>>], g) - One(pte[<<t, a>>], g)
      BY <3>1, <1>3, AllFinite, NumSet
    <3>3. One(pte'[<<t, a>>], g) = One(g, f) /\ One(pte[<<t, a>>], g) = 0
      BY <1>1, <1>2, <1>3, <1>6 DEF One
    <3>4. map[g] - mem_map[g] = Num(pg_dir', Tables, g) - Num(pg_dir, Tables, g)
      BY <1>1, <1>2, <1>6, TableCounted DEF map, table
    <3>5. mem_map'[g] = map[g] + One(g, f)
      BY <1>6, <2>4 DEF One
    <3>6. mem_map[g] = Total(pte, pg_dir, task_page, page, g)
      BY <1>1 DEF CountInv
    <3>7. /\ Num(pte', Pages, g) \in Nat /\ Num(pte, Pages, g) \in Nat
          /\ Num(pg_dir', Tables, g) \in Nat /\ Num(pg_dir, Tables, g) \in Nat
          /\ Num(task_page, Tasks, g) \in Nat /\ Num(page, Tasks, g) \in Nat
          /\ map[g] \in Int /\ mem_map[g] \in Int /\ One(g, f) \in {0, 1}
      BY <1>2, <2>4, AllFinite, NumType, OneType
    <3>8. mem_map'[g] = Total(pte', pg_dir', task_page, page, g)
      BY <3>2, <3>3, <3>4, <3>5, <3>6, <3>7 DEF Total
    <3> QED BY <3>8, <2>1
  <2>9. TablesGrow(t)
    <3>1. \A u \in Tasks \ {t} : /\ \A d \in Dirs : pg_dir'[<<u, d>>] = pg_dir[<<u, d>>]
                                /\ \A b \in Addrs : pte'[<<u, b>>] = pte[<<u, b>>]
      BY <1>2, <1>6 DEF Pages, Tables
    <3>2. \A x \in Tables : pg_dir[x] # NoPage => pg_dir'[x] # NoPage
      BY <1>2, <1>6
    <3>3. \A x \in Pages : rw'[x] => pte'[x] # NoPage
      BY <1>1, <1>2, <1>3, <1>6 DEF Control
    <3> QED BY <3>1, <3>2, <3>3 DEF TablesGrow
  <2>10. Control'
    <3>1. pc \in [Tasks -> Labels] /\ addr \in [Tasks -> Addrs \cup {NoAddr}]
      BY <1>1 DEF TypeOK
    <3>2. pc[t] = "read" => addr[t] \in ReadAddrs
      BY <1>1 DEF Control
    <3> QED BY <2>1, <2>9, <3>1, <3>2, <1>1, ControlGrows
  <2>11. CountInv'
    BY <2>8 DEF CountInv
  <2> QED BY <2>6, <2>7, <2>10, <2>11 DEF Inv
<1> QED BY <1>5, <1>6 DEF NoPageShare, Protect, Counted

(* un_wp_page makes an entry writable that has, or gets, a page of its own. *)
LEMMA UnWpKeeps ==
  ASSUME Inv, NEW t \in Tasks, NEW a \in Addrs, Protected(t, a), un_wp_page(t, a),
         task_page' = task_page, page' = page
  PROVE  /\ mem_map' \in [Frames -> Int] /\ data' \in [Frames -> Contents]
         /\ pg_dir' \in [Tables -> Frames \cup {NoPage}]
         /\ pte' \in [Pages -> Frames \cup {NoPage}] /\ rw' \in [Pages -> BOOLEAN]
         /\ dirty' \in [Pages -> BOOLEAN]
         /\ WritableIsPrivate' /\ CountInv' /\ TablesGrow(t)
<1> DEFINE old == pte[<<t, a>>]
           new == get_free_page(mem_map)
<1>1. /\ TypeOK /\ Control /\ WritableIsPrivate /\ CountInv /\ NoPage \notin Frames
      /\ <<t, a>> \in Pages
  BY Indices DEF Inv
<1>2. /\ mem_map \in [Frames -> Int] /\ pg_dir \in [Tables -> Frames \cup {NoPage}]
      /\ pte \in [Pages -> Frames \cup {NoPage}] /\ rw \in [Pages -> BOOLEAN]
      /\ dirty \in [Pages -> BOOLEAN] /\ task_page \in [Tasks -> Frames \cup {NoPage}]
      /\ page \in [Tasks -> Frames \cup {NoPage}] /\ data \in [Frames -> Contents]
  BY <1>1, Types
<1>3. old \in Frames
  BY <1>1, <1>2 DEF Protected
<1>4. CASE /\ mem_map[old] = 1 /\ rw' = [rw EXCEPT ![<<t, a>>] = TRUE]
           /\ UNCHANGED <<mem_map, data, pg_dir, pte, dirty>>
  <2>1. rw' \in [Pages -> BOOLEAN]
    BY <1>2, <1>4
  <2>2. \A x \in Pages : rw'[x] => mem_map[pte[x]] = 1 /\ pte[x] # NoPage
    BY <1>1, <1>2, <1>3, <1>4 DEF WritableIsPrivate, Control
  <2>3. WritableIsPrivate'
    BY <2>2, <1>1, <1>4 DEF WritableIsPrivate
  <2>4. CountInv'
    BY <1>1, <1>4 DEF CountInv
  <2>5. TablesGrow(t)
    BY <2>2, <1>4 DEF TablesGrow
  <2> QED BY <2>1, <2>3, <2>4, <2>5, <1>2, <1>4
<1>5. CASE /\ mem_map[old] # 1 /\ new # NoPage
           /\ mem_map' = [mem_map EXCEPT ![new] = 1, ![old] = @ - 1]
           /\ data' = [data EXCEPT ![new] = data[old]]
           /\ pte' = [pte EXCEPT ![<<t, a>>] = new]
           /\ rw' = [rw EXCEPT ![<<t, a>>] = TRUE]
           /\ dirty' = [dirty EXCEPT ![<<t, a>>] = FALSE]
           /\ pg_dir' = pg_dir
  <2>1. new \in Frames /\ mem_map[new] = 0
    BY <1>5, FreePage
  <2>2. mem_map[old] # 0 /\ old # new
    BY <1>1, <1>3, <2>1, Unused
  <2> HIDE DEF old, new
  <2>3. /\ mem_map' \in [Frames -> Int] /\ mem_map'[new] = 1
        /\ \A g \in Frames : mem_map[g] = 1 => mem_map'[g] = 1
    BY <1>2, <1>3, <1>5, <2>1, <2>2
  <2>4. pte' \in [Pages -> Frames \cup {NoPage}] /\ data' \in [Frames -> Contents]
    BY <1>1, <1>2, <1>3, <1>5, <2>1
  <2>5. rw' \in [Pages -> BOOLEAN] /\ dirty' \in [Pages -> BOOLEAN]
    BY <1>1, <1>2, <1>5
  <2>6. WritableIsPrivate'
    <3>1. \A x \in Pages : rw[x] => pte[x] \in Frames /\ mem_map[pte[x]] = 1
      BY <1>1, <1>2 DEF WritableIsPrivate, Control
    <3>2. \A x \in Pages : rw'[x] => mem_map'[pte'[x]] = 1
      BY <3>1, <2>3, <1>1, <1>2, <1>5
    <3>3. \A x \in Tables : pg_dir[x] # NoPage => mem_map'[pg_dir[x]] = 1
      BY <2>3, <1>1, <1>2 DEF WritableIsPrivate
    <3>4. \A u \in Tasks : task_page[u] # NoPage => mem_map'[task_page[u]] = 1
      BY <2>3, <1>1, <1>2 DEF WritableIsPrivate
    <3>5. \A u \in Tasks : page[u] # NoPage => mem_map'[page[u]] = 1
      BY <2>3, <1>1, <1>2 DEF WritableIsPrivate
    <3> QED BY <3>2, <3>3, <3>4, <3>5, <1>5 DEF WritableIsPrivate
  <2>7. ASSUME NEW g \in Frames
        PROVE  mem_map'[g] = Total(pte', pg_dir', task_page', page', g)
    <3>1. SameBut(pte, pte', Pages, <<t, a>>)
      BY <1>1, <1>2, <1>5 DEF SameBut
    <3>2. Num(pte', Pages, g) = Num(pte, Pages, g) + One(pte'[<<t, a>>], g) - One(pte[<<t, a>>], g)
      BY <3>1, <1>1, AllFinite, NumSet
    <3>3. One(pte'[<<t, a>>], g) = One(g, new) /\ One(pte[<<t, a>>], g) = One(g, old)
      BY <1>1, <1>2, <1>5 DEF One, old
    <3>4. mem_map'[g] = mem_map[g] + One(g, new) - One(g, old)
      BY <1>2, <1>3, <1>5, <2>1, <2>2 DEF One
    <3>5. mem_map[g] = Total(pte, pg_dir, task_page, page, g)
      BY <1>1 DEF CountInv
    <3>6. /\ Num(pte', Pages, g) \in Nat /\ Num(pte, Pages, g) \in Nat
          /\ Num(pg_dir, Tables, g) \in Nat /\ One(g, new) \in {0, 1} /\ One(g, old) \in {0, 1}
          /\ Num(task_page, Tasks, g) \in Nat /\ Num(page, Tasks, g) \in Nat
          /\ mem_map[g] \in Int
      BY <1>2, AllFinite, NumType, OneType
    <3>7. mem_map'[g] = Total(pte', pg_dir, task_page, page, g)
      BY <3>2, <3>3, <3>4, <3>5, <3>6 DEF Total
    <3> QED BY <3>7, <1>5
  <2>8. TablesGrow(t)
    <3>1. \A u \in Tasks \ {t} : \A b \in Addrs : pte'[<<u, b>>] = pte[<<u, b>>]
      BY <1>2, <1>5 DEF Pages
    <3>2. \A x \in Pages : rw'[x] => pte'[x] # NoPage
      BY <1>1, <1>2, <1>5, <2>1 DEF Control
    <3> QED BY <3>1, <3>2, <1>5 DEF TablesGrow
  <2> QED BY <1>2, <1>5, <2>3, <2>4, <2>5, <2>6, <2>7, <2>8 DEF CountInv
<1> QED BY <1>4, <1>5 DEF un_wp_page, Alone, Moved, Copied

LEMMA WriteProtectedKeeps ==
  ASSUME Inv, NEW t \in Tasks, NEW a \in Addrs, WriteProtected(t, a)
  PROVE  Inv'
<1>1. TypeOK /\ Control /\ pc[t] = "user" /\ calls' = calls /\ Protected(t, a)
  BY DEF WriteProtected, Inv
<1>2. calls' \in 0 .. MaxCalls
  BY <1>1 DEF TypeOK
<1>3. CASE do_exit(t, mem_map)
  BY <1>1, <1>2, <1>3, ExitNow
<1>4. CASE un_wp_page(t, a) /\ UNCHANGED taskVars
  <2>1. /\ task_page' = task_page /\ page' = page /\ executable' = executable /\ pc' = pc
        /\ addr' = addr /\ ret' = ret
    BY <1>4 DEF taskVars
  <2>2. /\ mem_map' \in [Frames -> Int] /\ data' \in [Frames -> Contents]
        /\ pg_dir' \in [Tables -> Frames \cup {NoPage}]
        /\ pte' \in [Pages -> Frames \cup {NoPage}] /\ rw' \in [Pages -> BOOLEAN]
        /\ dirty' \in [Pages -> BOOLEAN]
        /\ WritableIsPrivate' /\ CountInv' /\ TablesGrow(t)
    BY <1>1, <1>4, <2>1, UnWpKeeps
  <2>3. TypeOK'
    BY <1>1, <2>1, <2>2 DEF TypeOK
  <2>4. Control'
    <3>1. pc \in [Tasks -> Labels] /\ addr \in [Tasks -> Addrs \cup {NoAddr}]
      BY <1>1 DEF TypeOK
    <3> QED BY <1>1, <2>1, <2>2, <3>1, ControlGrows
  <2> QED BY <2>2, <2>3, <2>4 DEF Inv
<1> QED BY <1>3, <1>4 DEF WriteProtected

LEMMA CallReadKeeps ==
  ASSUME Inv, NEW t \in Tasks, NEW a \in ReadAddrs, CallRead(t, a)
  PROVE  Inv'
<1>1. TypeOK /\ Control /\ pc[t] = "user" /\ a \in Addrs
  BY CallsAssumption DEF CallRead, Calls, Inv
<1>2. calls' \in 0 .. MaxCalls
  BY <1>1, CallsAssumption DEF CallRead, Calls, TypeOK
<1>3. CASE do_exit(t, mem_map)
  BY <1>1, <1>2, <1>3, ExitNow
<1>4. CASE /\ \/ UNCHANGED <<mem_map, data, tableVars>>
              \/ Protected(t, a) /\ un_wp_page(t, a)
           /\ pc' = [pc EXCEPT ![t] = "read"]
           /\ addr' = [addr EXCEPT ![t] = a]
           /\ UNCHANGED <<task_page, executable, page, ret>>
  <2>1. task_page' = task_page /\ page' = page /\ executable' = executable /\ ret' = ret
    BY <1>4
  <2>2. /\ mem_map' \in [Frames -> Int] /\ data' \in [Frames -> Contents]
        /\ pg_dir' \in [Tables -> Frames \cup {NoPage}]
        /\ pte' \in [Pages -> Frames \cup {NoPage}] /\ rw' \in [Pages -> BOOLEAN]
        /\ dirty' \in [Pages -> BOOLEAN]
        /\ WritableIsPrivate' /\ CountInv' /\ TablesGrow(t)
    <3>1. CASE Protected(t, a) /\ un_wp_page(t, a)
      BY <1>1, <2>1, <3>1, UnWpKeeps
    <3>2. CASE UNCHANGED <<mem_map, data, tableVars>>
      <4>1. UNCHANGED <<mem_map, data, pg_dir, pte, rw, dirty>>
        BY <3>2 DEF tableVars
      <4>2. WritableIsPrivate'
        BY <4>1, <2>1 DEF Inv, WritableIsPrivate
      <4>3. CountInv'
        BY <4>1, <2>1 DEF Inv, CountInv
      <4>4. TablesGrow(t)
        BY <4>1, <1>1 DEF TablesGrow, Control
      <4> QED BY <4>1, <4>2, <4>3, <4>4, <1>1, Types
    <3> QED BY <1>4, <3>1, <3>2
  <2>3. pc \in [Tasks -> Labels] /\ addr \in [Tasks -> Addrs \cup {NoAddr}]
    BY <1>1 DEF TypeOK
  <2>4. /\ pc' \in [Tasks -> Labels] /\ addr' \in [Tasks -> Addrs \cup {NoAddr}]
        /\ pc'[t] = "read" /\ addr'[t] = a
        /\ \A u \in Tasks : u # t => pc'[u] = pc[u] /\ addr'[u] = addr[u]
    BY <1>1, <1>4, <2>3 DEF Labels
  <2>5. TypeOK'
    BY <1>1, <1>2, <2>1, <2>2, <2>4 DEF TypeOK
  <2>6. Control'
    BY <1>1, <2>1, <2>2, <2>4, ControlGrows
  <2> QED BY <2>2, <2>5, <2>6 DEF Inv
<1> QED BY <1>3, <1>4 DEF CallRead

LEMMA StoreKeeps ==
  ASSUME Inv, NEW t \in Tasks, NEW a \in Addrs, NEW v \in Values, Store(t, a, v),
         pte[<<t, a>>] # NoPage, page' = page, ret' = ret, calls' = calls
  PROVE  /\ data' \in [Frames -> Contents] /\ dirty' \in [Pages -> BOOLEAN]
         /\ UNCHANGED <<mem_map, pg_dir, pte, rw, task_page, executable>>
         /\ WritableIsPrivate' /\ CountInv' /\ TablesGrow(t)
<1>1. /\ data' = [data EXCEPT ![pte[<<t, a>>]] = Written(v)]
      /\ dirty' = [dirty EXCEPT ![<<t, a>>] = TRUE]
      /\ UNCHANGED <<mem_map, pg_dir, pte, rw, task_page, executable>>
  BY DEF Store
<1>2. TypeOK /\ Control /\ <<t, a>> \in Pages
  BY Indices DEF Inv
<1>3. data \in [Frames -> Contents] /\ dirty \in [Pages -> BOOLEAN] /\ Written(v) \in Contents
  BY <1>2, Types DEF Contents
<1>4. data' \in [Frames -> Contents] /\ dirty' \in [Pages -> BOOLEAN]
  BY <1>1, <1>2, <1>3
<1>5. WritableIsPrivate'
  BY <1>1 DEF Inv, WritableIsPrivate
<1>6. CountInv'
  BY <1>1 DEF Inv, CountInv
<1>7. TablesGrow(t)
  BY <1>1, <1>2 DEF TablesGrow, Control
<1> QED BY <1>1, <1>4, <1>5, <1>6, <1>7

LEMMA WriteKeeps ==
  ASSUME Inv, NEW t \in Tasks, NEW a \in Addrs, NEW v \in Values, Write(t, a, v)
  PROVE  Inv'
<1>1. /\ TypeOK /\ Control /\ pc[t] = "user" /\ Store(t, a, v) /\ pte[<<t, a>>] # NoPage
      /\ pc' = pc /\ page' = page /\ addr' = addr /\ ret' = ret /\ calls' = calls
  BY DEF Write, Inv
<1>2. /\ data' \in [Frames -> Contents] /\ dirty' \in [Pages -> BOOLEAN]
      /\ UNCHANGED <<mem_map, pg_dir, pte, rw, task_page, executable>>
      /\ WritableIsPrivate' /\ CountInv' /\ TablesGrow(t)
  BY <1>1, StoreKeeps
<1>3. TypeOK'
  BY <1>1, <1>2 DEF TypeOK
<1>4. Control'
  BY <1>1, <1>2 DEF Control
<1> QED BY <1>2, <1>3, <1>4 DEF Inv

LEMMA ReadCopiesKeeps ==
  ASSUME Inv, NEW t \in Tasks, NEW v \in Values, ReadCopies(t, v)
  PROVE  Inv'
<1>1. /\ TypeOK /\ Control /\ pc[t] = "read" /\ Store(t, addr[t], v)
      /\ pte[<<t, addr[t]>>] # NoPage /\ pc' = [pc EXCEPT ![t] = "user"]
      /\ addr' = [addr EXCEPT ![t] = NoAddr]
      /\ page' = page /\ ret' = ret /\ calls' = calls
  BY DEF ReadCopies, Inv
<1>2. addr[t] \in Addrs
  BY <1>1, CallsAssumption DEF Control
<1>3. /\ data' \in [Frames -> Contents] /\ dirty' \in [Pages -> BOOLEAN]
      /\ UNCHANGED <<mem_map, pg_dir, pte, rw, task_page, executable>>
      /\ WritableIsPrivate' /\ CountInv' /\ TablesGrow(t)
  BY <1>1, <1>2, StoreKeeps
<1>4. pc \in [Tasks -> Labels] /\ addr \in [Tasks -> Addrs \cup {NoAddr}]
  BY <1>1 DEF TypeOK
<1>5. /\ pc' \in [Tasks -> Labels] /\ addr' \in [Tasks -> Addrs \cup {NoAddr}]
      /\ pc'[t] = "user" /\ \A u \in Tasks : u # t => pc'[u] = pc[u] /\ addr'[u] = addr[u]
  BY <1>1, <1>4 DEF Labels
<1>6. TypeOK'
  BY <1>1, <1>3, <1>5 DEF TypeOK
<1>7. Control'
  BY <1>1, <1>3, <1>5, ControlGrows
<1> QED BY <1>3, <1>6, <1>7 DEF Inv

-----------------------------------------------------------------------------
(* System calls.                                                           *)

LEMMA CallsType ==
  ASSUME Inv, NEW t \in Tasks, NEW o, Calls(t, o)
  PROVE  pc[t] = "user" /\ calls' \in 0 .. MaxCalls
<1>1. calls \in 0 .. MaxCalls /\ calls > 0 /\ calls' = calls - 1 /\ pc[t] = "user"
  BY DEF Calls, Inv, TypeOK
<1> QED BY <1>1, CallsAssumption

LEMMA ExitCallKeeps ==
  ASSUME Inv, NEW t \in Tasks, Exit(t)
  PROVE  Inv'
<1>1. pc[t] = "user" /\ calls' \in 0 .. MaxCalls /\ do_exit(t, mem_map)
  BY CallsType DEF Exit
<1> QED BY <1>1, ExitNow

LEMMA ExecveArgsKeeps ==
  ASSUME Inv, NEW t \in Tasks, ExecveArgs(t)
  PROVE  Inv'
<1> DEFINE f == get_free_page(mem_map)
<1>1. /\ TypeOK /\ Control /\ f # NoPage /\ pc[t] = "user" /\ calls' \in 0 .. MaxCalls
      /\ mem_map' = Used(mem_map, f) /\ data' = [data EXCEPT ![f] = Arguments]
      /\ page' = [page EXCEPT ![t] = f] /\ pc' = [pc EXCEPT ![t] = "args"]
      /\ UNCHANGED <<pg_dir, pte, rw, dirty, task_page, executable, addr, ret>>
  BY CallsType DEF ExecveArgs, Inv, tableVars
<1>2. f \in Frames /\ mem_map[f] = 0 /\ page[t] = NoPage
  BY <1>1, FreePage DEF Control
<1> HIDE DEF f
<1>3. /\ mem_map' \in [Frames -> Int] /\ page' \in [Tasks -> Frames \cup {NoPage}]
      /\ WritableIsPrivate' /\ CountInv'
  <2>1. TakePage(t, f)
    BY <1>1 DEF TakePage
  <2> QED BY <1>2, <2>1, TakePageKeeps
<1>4. /\ data \in [Frames -> Contents] /\ pc \in [Tasks -> Labels]
      /\ page \in [Tasks -> Frames \cup {NoPage}]
  BY <1>1 DEF TypeOK
<1>5. TypeOK'
  <2>1. data' \in [Frames -> Contents]
    BY <1>1, <1>2, <1>4 DEF Contents
  <2>2. pc' \in [Tasks -> Labels]
    BY <1>1, <1>4 DEF Labels
  <2> QED BY <2>1, <2>2, <1>1, <1>3 DEF TypeOK
<1>6. Control'
  <2>1. \A u \in Tasks : u # t => pc'[u] = pc[u] /\ page'[u] = page[u]
    BY <1>1, <1>4
  <2>2. pc'[t] = "args" /\ page'[t] = f /\ f # NoPage
    BY <1>1, <1>4
  <2> QED BY <2>1, <2>2, <1>1 DEF Control
<1> QED BY <1>3, <1>5, <1>6 DEF Inv

LEMMA ExecveFailsKeeps ==
  ASSUME Inv, NEW t \in Tasks, ExecveFails(t)
  PROVE  Inv'
<1> DEFINE f == page[t]
<1>1. /\ TypeOK /\ Control /\ WritableIsPrivate /\ Exclusive /\ pc[t] = "args"
      /\ mem_map' = [mem_map EXCEPT ![f] = @ - 1] /\ pc' = [pc EXCEPT ![t] = "user"]
      /\ UNCHANGED <<data, pg_dir, pte, rw, dirty, task_page, executable, addr, ret, calls>>
  BY ExclusiveHolds DEF ExecveFails, Inv, tableVars
<1>2. /\ mem_map \in [Frames -> Int] /\ pg_dir \in [Tables -> Frames \cup {NoPage}]
      /\ pte \in [Pages -> Frames \cup {NoPage}] /\ rw \in [Pages -> BOOLEAN]
      /\ task_page \in [Tasks -> Frames \cup {NoPage}] /\ page \in [Tasks -> Frames \cup {NoPage}]
      /\ pc \in [Tasks -> Labels]
  BY <1>1, Types DEF TypeOK
<1>3. f \in Frames /\ f # NoPage /\ DropPage(t) /\ NoPage \notin Frames
  BY <1>1, <1>2, Indices DEF Control, ExecveFails, DropPage
<1>4. /\ page' \in [Tasks -> Frames \cup {NoPage}] /\ page'[t] = NoPage
      /\ \A u \in Tasks : u # t => page'[u] = page[u]
  BY <1>2, <1>3 DEF DropPage
<1>5. mem_map' \in [Frames -> Int] /\ \A g \in Frames : g # f => mem_map'[g] = mem_map[g]
  <2>1. mem_map[f] - 1 \in Int
    BY <1>2, <1>3
  <2> HIDE DEF f
  <2> QED BY <1>1, <1>2, <1>3, <2>1
<1>6. CountInv'
  <2> SUFFICES ASSUME NEW g \in Frames
               PROVE  mem_map'[g] = Total(pte, pg_dir, task_page, page', g)
    BY <1>1 DEF CountInv
  <2>1. mem_map'[g] = mem_map[g] - One(g, f) /\ mem_map[g] \in Int
    BY <1>1, <1>2, <1>3 DEF One
  <2>2. mem_map[g] = Total(pte, pg_dir, task_page, page', g) + One(g, f)
    BY <1>1, <1>3, DropPageCounts DEF Inv, CountInv
  <2>3. Total(pte, pg_dir, task_page, page', g) \in Nat /\ One(g, f) \in {0, 1}
    BY <1>1, <1>3, DropPageCounts, OneType
  <2> HIDE DEF f
  <2> QED BY <2>1, <2>2, <2>3
<1>7. WritableIsPrivate'
  <2>1. \A x \in Pages : rw[x] => pte[x] \in Frames /\ pte[x] # f /\ mem_map[pte[x]] = 1
    BY <1>1, <1>2 DEF Exclusive, WritableIsPrivate, Control
  <2>2. \A x \in Tables : pg_dir[x] # NoPage => pg_dir[x] # f /\ mem_map[pg_dir[x]] = 1
    BY <1>1 DEF Exclusive, WritableIsPrivate
  <2>3. \A u \in Tasks : task_page[u] # NoPage => task_page[u] # f /\ mem_map[task_page[u]] = 1
    BY <1>1, <1>3 DEF Exclusive, WritableIsPrivate
  <2>4. \A u \in Tasks : u # t /\ page[u] # NoPage => page[u] # f /\ mem_map[page[u]] = 1
    BY <1>1, <1>3 DEF Exclusive, WritableIsPrivate
  <2>5. \A x \in Pages : rw[x] => mem_map'[pte[x]] = 1
    BY <2>1, <1>5
  <2>6. \A x \in Tables : pg_dir[x] # NoPage => mem_map'[pg_dir[x]] = 1
    BY <2>2, <1>2, <1>5
  <2>7. \A u \in Tasks : task_page[u] # NoPage => mem_map'[task_page[u]] = 1
    BY <2>3, <1>2, <1>5
  <2>8. \A u \in Tasks : page'[u] # NoPage => mem_map'[page'[u]] = 1
    BY <2>4, <1>2, <1>4, <1>5
  <2> QED BY <2>5, <2>6, <2>7, <2>8, <1>1 DEF WritableIsPrivate
<1>8. TypeOK'
  <2>1. pc' \in [Tasks -> Labels]
    BY <1>1, <1>2 DEF Labels
  <2> QED BY <2>1, <1>1, <1>4, <1>5 DEF TypeOK
<1>9. Control'
  <2>1. pc'[t] = "user" /\ \A u \in Tasks : u # t => pc'[u] = pc[u]
    BY <1>1, <1>2
  <2> QED BY <2>1, <1>1, <1>4 DEF Control
<1> QED BY <1>6, <1>7, <1>8, <1>9 DEF Inv

LEMMA ExecveSetKeeps ==
  ASSUME Inv, NEW t \in Tasks, NEW e \in Exes, ExecveSet(t, e)
  PROVE  Inv'
<1>1. /\ TypeOK /\ Control /\ pc[t] = "args"
      /\ executable' = [executable EXCEPT ![t] = e] /\ pc' = [pc EXCEPT ![t] = "execve"]
      /\ UNCHANGED <<mem_map, data, pg_dir, pte, rw, dirty, task_page, page, addr, ret, calls>>
  BY DEF ExecveSet, Inv, tableVars
<1>2. WritableIsPrivate'
  BY <1>1 DEF Inv, WritableIsPrivate
<1>3. CountInv'
  BY <1>1 DEF Inv, CountInv
<1>4. executable \in [Tasks -> Exes \cup {NoExe}] /\ pc \in [Tasks -> Labels]
  BY <1>1 DEF TypeOK
<1>5. TypeOK'
  <2>1. executable' \in [Tasks -> Exes \cup {NoExe}] /\ pc' \in [Tasks -> Labels]
    BY <1>1, <1>4 DEF Labels
  <2> QED BY <1>1, <2>1 DEF TypeOK
<1>6. Control'
  <2>1. pc'[t] = "execve"
        /\ \A u \in Tasks : u # t => pc'[u] = pc[u] /\ executable'[u] = executable[u]
    BY <1>1, <1>4
  <2> QED BY <2>1, <1>1 DEF Control
<1> QED BY <1>2, <1>3, <1>5, <1>6 DEF Inv

LEMMA ReleaseKeeps ==
  ASSUME Inv, NEW t \in Tasks, Release(t)
  PROVE  Inv'
<1> DEFINE f == task_page[t]
<1>1. /\ TypeOK /\ Control /\ WritableIsPrivate /\ Exclusive /\ pc[t] = "zombie"
      /\ mem_map' = [mem_map EXCEPT ![f] = @ - 1] /\ pc' = [pc EXCEPT ![t] = "none"]
      /\ task_page' = [task_page EXCEPT ![t] = NoPage]
      /\ UNCHANGED <<data, pg_dir, pte, rw, dirty, page, executable, addr, ret, calls>>
  BY ExclusiveHolds DEF Release, Inv, tableVars
<1>2. /\ mem_map \in [Frames -> Int] /\ pg_dir \in [Tables -> Frames \cup {NoPage}]
      /\ pte \in [Pages -> Frames \cup {NoPage}] /\ rw \in [Pages -> BOOLEAN]
      /\ task_page \in [Tasks -> Frames \cup {NoPage}] /\ page \in [Tasks -> Frames \cup {NoPage}]
      /\ pc \in [Tasks -> Labels]
  BY <1>1, Types DEF TypeOK
<1>3. f \in Frames /\ f # NoPage /\ NoPage \notin Frames
  BY <1>1, <1>2, Indices DEF Control
<1>4. /\ task_page' \in [Tasks -> Frames \cup {NoPage}] /\ task_page'[t] = NoPage
      /\ \A u \in Tasks : u # t => task_page'[u] = task_page[u]
  BY <1>1, <1>2
<1>5. mem_map' \in [Frames -> Int] /\ \A g \in Frames : g # f => mem_map'[g] = mem_map[g]
  <2>1. mem_map[f] - 1 \in Int
    BY <1>2, <1>3
  <2> HIDE DEF f
  <2> QED BY <1>1, <1>2, <1>3, <2>1
<1>6. CountInv'
  <2> SUFFICES ASSUME NEW g \in Frames
               PROVE  mem_map'[g] = Total(pte, pg_dir, task_page', page, g)
    BY <1>1 DEF CountInv
  <2>1. mem_map'[g] = mem_map[g] - One(g, f) /\ mem_map[g] \in Int
    BY <1>1, <1>2, <1>3 DEF One
  <2>2. SameBut(task_page, task_page', Tasks, t)
    BY <1>4 DEF SameBut
  <2>3. Num(task_page', Tasks, g)
          = Num(task_page, Tasks, g) + One(task_page'[t], g) - One(task_page[t], g)
    BY <2>2, AllFinite, NumSet
  <2>4. One(task_page'[t], g) = 0 /\ One(task_page[t], g) = One(g, f)
    BY <1>3, <1>4 DEF One
  <2>5. mem_map[g] = Total(pte, pg_dir, task_page, page, g)
    BY DEF Inv, CountInv
  <2>6. /\ Num(pte, Pages, g) \in Nat /\ Num(pg_dir, Tables, g) \in Nat
        /\ Num(task_page, Tasks, g) \in Nat /\ Num(task_page', Tasks, g) \in Nat
        /\ Num(page, Tasks, g) \in Nat /\ One(g, f) \in {0, 1}
    BY AllFinite, NumType, OneType
  <2> HIDE DEF f
  <2> QED BY <2>1, <2>3, <2>4, <2>5, <2>6 DEF Total
<1>7. WritableIsPrivate'
  <2>1. \A x \in Pages : rw[x] => pte[x] \in Frames /\ pte[x] # f /\ mem_map[pte[x]] = 1
    BY <1>1, <1>2 DEF Exclusive, WritableIsPrivate, Control
  <2>2. \A x \in Tables : pg_dir[x] # NoPage => pg_dir[x] # f /\ mem_map[pg_dir[x]] = 1
    BY <1>1 DEF Exclusive, WritableIsPrivate
  <2>3. \A u \in Tasks : u # t /\ task_page[u] # NoPage => task_page[u] # f /\ mem_map[task_page[u]] = 1
    BY <1>1, <1>3 DEF Exclusive, WritableIsPrivate
  <2>4. \A u \in Tasks : page[u] # NoPage => page[u] # f /\ mem_map[page[u]] = 1
    BY <1>1, <1>3 DEF Exclusive, WritableIsPrivate
  <2>5. \A x \in Pages : rw[x] => mem_map'[pte[x]] = 1
    BY <2>1, <1>5
  <2>6. \A x \in Tables : pg_dir[x] # NoPage => mem_map'[pg_dir[x]] = 1
    BY <2>2, <1>2, <1>5
  <2>7. \A u \in Tasks : task_page'[u] # NoPage => mem_map'[task_page'[u]] = 1
    BY <2>3, <1>2, <1>4, <1>5
  <2>8. \A u \in Tasks : page[u] # NoPage => mem_map'[page[u]] = 1
    BY <2>4, <1>2, <1>5
  <2> QED BY <2>5, <2>6, <2>7, <2>8, <1>1 DEF WritableIsPrivate
<1>8. TypeOK'
  <2>1. pc' \in [Tasks -> Labels]
    BY <1>1, <1>2 DEF Labels
  <2> QED BY <2>1, <1>1, <1>4, <1>5 DEF TypeOK
<1>9. Control'
  <2>1. pc'[t] = "none" /\ \A u \in Tasks : u # t => pc'[u] = pc[u]
    BY <1>1, <1>2
  <2> QED BY <2>1, <1>1, <1>4 DEF Control
<1> QED BY <1>6, <1>7, <1>8, <1>9 DEF Inv

LEMMA ForkFailsKeeps ==
  ASSUME Inv, NEW t \in Tasks, ForkFails(t)
  PROVE  Inv'
<1>1. /\ TypeOK /\ Control /\ calls' \in 0 .. MaxCalls
      /\ rw' = [x \in Pages |-> rw[x] /\ ~(x[1] = t /\ Dir(x[2]) = 0)]
      /\ UNCHANGED <<mem_map, data, pg_dir, pte, dirty, task_page, executable, pc, page, addr, ret>>
  BY CallsType DEF ForkFails, Inv, taskVars
<1>2. rw' \in [Pages -> BOOLEAN] /\ \A x \in Pages : rw'[x] => rw[x]
  BY <1>1
<1>3. WritableIsPrivate'
  BY <1>1, <1>2 DEF Inv, WritableIsPrivate
<1>4. CountInv'
  BY <1>1 DEF Inv, CountInv
<1>5. TypeOK'
  BY <1>1, <1>2 DEF TypeOK
<1>6. Control'
  BY <1>1, <1>2 DEF Control
<1> QED BY <1>3, <1>4, <1>5, <1>6 DEF Inv

LEMMA DirRow ==
  ASSUME NEW h, NEW u, NEW g
  PROVE  Row(h, Dirs, u, g) = One(h[<<u, 0>>], g) + One(h[<<u, 1>>], g)
<1> DEFINE S == {d \in Dirs : h[<<u, d>>] = g}
<1>1. Row(h, Dirs, u, g) = Cardinality(S)
  BY DEF Row
<1>2. /\ IsFiniteSet({0}) /\ Cardinality({0}) = 1 /\ Cardinality({1}) = 1
      /\ Cardinality({}) = 0
  BY FS_Singleton, FS_EmptySet
<1>3. Cardinality({0} \cup {1}) = 2
  BY <1>2, FS_AddElement
<1>4. S = {0} \cup {1} \/ S = {0} \/ S = {1} \/ S = {}
  BY DEF Dirs
<1>5. (0 \in S <=> h[<<u, 0>>] = g) /\ (1 \in S <=> h[<<u, 1>>] = g)
  BY DEF Dirs
<1> HIDE DEF S
<1>6. Cardinality(S) = (IF 0 \in S THEN 1 ELSE 0) + (IF 1 \in S THEN 1 ELSE 0)
  <2>1. 0 \notin {1} /\ 1 \notin {0}
    OBVIOUS
  <2> QED BY <1>2, <1>3, <1>4, <2>1
<1> QED BY <1>1, <1>5, <1>6 DEF One

(* The table of the stack, which is freed first, is free for the new one. *)
LEMMA ExecveFindsTable ==
  ASSUME Inv, NEW t \in Tasks, pc[t] = "execve"
  PROVE  /\ get_free_page(Freed(mem_map, t)) \in Frames
         /\ Freed(mem_map, t)[get_free_page(Freed(mem_map, t))] = 0
<1> DEFINE d1 == pg_dir[<<t, 1>>]
<1>1. /\ Exclusive /\ <<t, 1>> \in Tables /\ <<t, 0>> \in Tables /\ d1 # NoPage
      /\ pg_dir \in [Tables -> Frames \cup {NoPage}] /\ WritableIsPrivate
      /\ \A a \in Addrs : <<t, a>> \in Pages
  BY ExclusiveHolds, Indices, Types DEF Inv, Control
<1>2. d1 \in Frames /\ mem_map[d1] = 1
  BY <1>1 DEF WritableIsPrivate
<1>3. Row(pte, Addrs, t, d1) = 0
  <2>1. \A a \in Addrs : pte[<<t, a>>] # d1
    BY <1>1 DEF Exclusive
  <2> QED BY <2>1, RowEmpty
<1>4. Row(pg_dir, Dirs, t, d1) = 1
  <2>1. pg_dir[<<t, 0>>] # d1
    BY <1>1 DEF Exclusive
  <2>2. One(pg_dir[<<t, 0>>], d1) = 0 /\ One(pg_dir[<<t, 1>>], d1) = 1
    BY <2>1 DEF One
  <2>3. Row(pg_dir, Dirs, t, d1) = One(pg_dir[<<t, 0>>], d1) + One(pg_dir[<<t, 1>>], d1)
    BY DirRow
  <2> QED BY <2>2, <2>3
<1>5. Freed(mem_map, t)[d1] = mem_map[d1] - Row(pte, Addrs, t, d1) - Row(pg_dir, Dirs, t, d1)
  BY <1>2 DEF Freed, TableRefs, DirRefs, Row
<1>6. Freed(mem_map, t)[d1] = 0
  BY <1>2, <1>3, <1>4, <1>5
<1> QED BY <1>2, <1>6, FreePage

LEMMA ExecveEndsKeeps ==
  ASSUME Inv, NEW t \in Tasks, ExecveEnds(t)
  PROVE  Inv'
<1> DEFINE f == page[t]
           map == Freed(mem_map, t)
           table == get_free_page(map)
           p0 == [x \in Pages |-> IF x[1] = t THEN NoPage ELSE pte[x]]
           d0 == [x \in Tables |-> IF x[1] = t THEN NoPage ELSE pg_dir[x]]
           z == <<t, ArgAddr>>
           y == <<t, 1>>
<1>1. /\ TypeOK /\ Control /\ WritableIsPrivate /\ CountInv /\ Exclusive /\ pc[t] = "execve"
      /\ NoPage \notin Frames /\ z \in Pages /\ y \in Tables /\ Dir(ArgAddr) = 1
  BY ExclusiveHolds, Indices DEF ExecveEnds, Inv
<1>2. /\ mem_map \in [Frames -> Int] /\ pg_dir \in [Tables -> Frames \cup {NoPage}]
      /\ pte \in [Pages -> Frames \cup {NoPage}] /\ rw \in [Pages -> BOOLEAN]
      /\ dirty \in [Pages -> BOOLEAN] /\ pc \in [Tasks -> Labels]
      /\ task_page \in [Tasks -> Frames \cup {NoPage}] /\ page \in [Tasks -> Frames \cup {NoPage}]
  BY <1>1, Types DEF TypeOK
<1>3. table \in Frames /\ map[table] = 0 /\ table # NoPage
  BY <1>1, ExecveFindsTable
<1>4. /\ mem_map' = Used(map, table)
      /\ pg_dir' = [x \in Tables |-> IF x[1] # t THEN pg_dir[x]
                                     ELSE IF x[2] = 1 THEN table ELSE NoPage]
      /\ pte' = [x \in Pages |-> IF x[1] # t THEN pte[x]
                                 ELSE IF x[2] = ArgAddr THEN f ELSE NoPage]
      /\ rw' = [x \in Pages |-> IF x[1] # t THEN rw[x] ELSE x[2] = ArgAddr]
      /\ dirty' = [x \in Pages |-> IF x[1] # t THEN dirty[x] ELSE x[2] = ArgAddr]
      /\ page' = [page EXCEPT ![t] = NoPage] /\ pc' = [pc EXCEPT ![t] = "user"]
      /\ UNCHANGED <<data, task_page, executable, addr, ret, calls>>
  BY <1>1, <1>3 DEF ExecveEnds
<1>5. f \in Frames /\ mem_map[f] = 1 /\ DropPage(t)
  BY <1>1, <1>2, <1>4 DEF Control, WritableIsPrivate, DropPage
<1>6. /\ map \in [Frames -> Int]
      /\ \A g \in Frames : /\ Row(pte, Addrs, t, g) \in Nat /\ Row(pg_dir, Dirs, t, g) \in Nat
                           /\ Num(pte, Pages, g) = Num(p0, Pages, g) + Row(pte, Addrs, t, g)
                           /\ Num(pg_dir, Tables, g) = Num(d0, Tables, g) + Row(pg_dir, Dirs, t, g)
                           /\ map[g] = mem_map[g] - Row(pte, Addrs, t, g) - Row(pg_dir, Dirs, t, g)
  <2>1. map = [g \in Frames |-> mem_map[g] - Row(pte, Addrs, t, g) - Row(pg_dir, Dirs, t, g)]
    BY DEF Freed, TableRefs, DirRefs, Row
  <2>2. ASSUME NEW g \in Frames
        PROVE  /\ Row(pte, Addrs, t, g) \in Nat /\ Row(pg_dir, Dirs, t, g) \in Nat
               /\ Num(pte, Pages, g) = Num(p0, Pages, g) + Row(pte, Addrs, t, g)
               /\ Num(pg_dir, Tables, g) = Num(d0, Tables, g) + Row(pg_dir, Dirs, t, g)
    <3>1. Cleared(pte, p0, Addrs, t, g)
      BY <1>1 DEF Cleared, Pages
    <3>2. Cleared(pg_dir, d0, Dirs, t, g)
      BY <1>1 DEF Cleared, Tables
    <3> HIDE DEF p0, d0
    <3>3. /\ Row(pte, Addrs, t, g) \in Nat
          /\ Num(pte, Pages, g) = Num(p0, Pages, g) + Row(pte, Addrs, t, g)
      BY <3>1, AllFinite, NumCleared DEF Pages
    <3>4. /\ Row(pg_dir, Dirs, t, g) \in Nat
          /\ Num(pg_dir, Tables, g) = Num(d0, Tables, g) + Row(pg_dir, Dirs, t, g)
      BY <3>2, AllFinite, NumCleared DEF Tables
    <3> QED BY <3>3, <3>4
  <2> HIDE DEF map, p0, d0
  <2>3. map \in [Frames -> Int]
    BY <2>1, <2>2, <1>2
  <2> QED BY <2>1, <2>2, <2>3
<1>7. /\ page' \in [Tasks -> Frames \cup {NoPage}] /\ page'[t] = NoPage
      /\ \A u \in Tasks : u # t => page'[u] = page[u]
  BY <1>2, <1>4
<1>8. /\ SameBut(p0, pte', Pages, z) /\ pte'[z] = f /\ p0[z] = NoPage
      /\ SameBut(d0, pg_dir', Tables, y) /\ pg_dir'[y] = table /\ d0[y] = NoPage
  BY <1>1, <1>4 DEF SameBut, Pages, Tables
<1> HIDE DEF f, map, table, p0, d0, z, y
<1>9. mem_map' \in [Frames -> Int] /\ mem_map'[table] = 1
      /\ \A g \in Frames : map[g] = 1 => mem_map'[g] = 1
  BY <1>3, <1>4, <1>6 DEF Used
<1>10. CountInv'
  <2> SUFFICES ASSUME NEW g \in Frames
               PROVE  mem_map'[g] = Total(pte', pg_dir', task_page, page', g)
    BY <1>4 DEF CountInv
  <2>1. Num(pte', Pages, g) = Num(p0, Pages, g) + One(pte'[z], g) - One(p0[z], g)
    BY <1>1, <1>8, AllFinite, NumSet
  <2>2. Num(pg_dir', Tables, g) = Num(d0, Tables, g) + One(pg_dir'[y], g) - One(d0[y], g)
    BY <1>1, <1>8, AllFinite, NumSet
  <2>3. /\ One(pte'[z], g) = One(g, f) /\ One(p0[z], g) = 0
        /\ One(pg_dir'[y], g) = One(g, table) /\ One(d0[y], g) = 0
    BY <1>1, <1>8 DEF One
  <2>4. mem_map'[g] = map[g] + One(g, table)
    BY <1>3, <1>4, <1>6 DEF Used, One
  <2>5. /\ Num(pte, Pages, g) = Num(p0, Pages, g) + Row(pte, Addrs, t, g)
        /\ Num(pg_dir, Tables, g) = Num(d0, Tables, g) + Row(pg_dir, Dirs, t, g)
        /\ map[g] = mem_map[g] - Row(pte, Addrs, t, g) - Row(pg_dir, Dirs, t, g)
        /\ Row(pte, Addrs, t, g) \in Nat /\ Row(pg_dir, Dirs, t, g) \in Nat
    BY <1>6
  <2>6. /\ mem_map[g] = Total(pte, pg_dir, task_page, page, g)
        /\ Total(pte, pg_dir, task_page, page, g)
             = Total(pte, pg_dir, task_page, page', g) + One(g, f)
    BY <1>1, <1>5, DropPageCounts DEF CountInv, f
  <2>7. /\ Num(pte', Pages, g) \in Nat /\ Num(p0, Pages, g) \in Nat
        /\ Num(pg_dir', Tables, g) \in Nat /\ Num(d0, Tables, g) \in Nat
        /\ Num(task_page, Tasks, g) \in Nat /\ Num(page', Tasks, g) \in Nat
        /\ One(g, f) \in {0, 1} /\ One(g, table) \in {0, 1}
    BY AllFinite, NumType, OneType
  <2>8. mem_map[g] = Num(pte, Pages, g) + Num(pg_dir, Tables, g)
                       + (Num(task_page, Tasks, g) + Num(page', Tasks, g)) + One(g, f)
    BY <2>6 DEF Total
  <2>9. mem_map'[g] = Num(pte', Pages, g) + Num(pg_dir', Tables, g)
                        + (Num(task_page, Tasks, g) + Num(page', Tasks, g))
    BY <2>1, <2>2, <2>3, <2>4, <2>5, <2>7, <2>8
  <2> QED BY <2>9 DEF Total
<1>11. WritableIsPrivate'
  <2>1. \A g \in Frames : /\ mem_map[g] = 1
                          /\ Row(pte, Addrs, t, g) = 0 /\ Row(pg_dir, Dirs, t, g) = 0
                          => mem_map'[g] = 1
    BY <1>6, <1>9
  <2>2. mem_map'[f] = 1
    BY <2>1, <1>1, <1>5, OthersSpared DEF f
  <2>3. \A x \in Pages : rw[x] /\ x[1] # t => mem_map'[pte[x]] = 1
    BY <2>1, <1>1, <1>2, OthersSpared DEF WritableIsPrivate, Control
  <2>4. \A x \in Pages : rw'[x] => mem_map'[pte'[x]] = 1
    BY <2>2, <2>3, <1>4
  <2>5. \A x \in Tables : pg_dir[x] # NoPage /\ x[1] # t => mem_map'[pg_dir[x]] = 1
    BY <2>1, <1>1, <1>2, OthersSpared DEF WritableIsPrivate
  <2>6. \A x \in Tables : pg_dir'[x] # NoPage => mem_map'[pg_dir'[x]] = 1
    BY <2>5, <1>4, <1>9
  <2>7. \A u \in Tasks : task_page[u] # NoPage => mem_map'[task_page[u]] = 1
    BY <2>1, <1>1, <1>2, OthersSpared DEF WritableIsPrivate
  <2>8. \A u \in Tasks : page[u] # NoPage => mem_map'[page[u]] = 1
    BY <2>1, <1>1, <1>2, OthersSpared DEF WritableIsPrivate
  <2>9. \A u \in Tasks : page'[u] # NoPage => mem_map'[page'[u]] = 1
    BY <2>8, <1>7
  <2> QED BY <2>4, <2>6, <2>7, <2>9, <1>4 DEF WritableIsPrivate
<1>12. TypeOK'
  <2>1. pg_dir' \in [Tables -> Frames \cup {NoPage}] /\ pte' \in [Pages -> Frames \cup {NoPage}]
    BY <1>2, <1>3, <1>4, <1>5
  <2>2. rw' \in [Pages -> BOOLEAN] /\ dirty' \in [Pages -> BOOLEAN]
    BY <1>2, <1>4
  <2>3. pc' \in [Tasks -> Labels]
    BY <1>2, <1>4 DEF Labels
  <2> QED BY <2>1, <2>2, <2>3, <1>1, <1>4, <1>7, <1>9 DEF TypeOK
<1>13. Control'
  <2>1. pc'[t] = "user" /\ \A u \in Tasks : u # t => pc'[u] = pc[u]
    BY <1>2, <1>4
  <2>2. \A u \in Tasks : u # t =>
          /\ \A d \in Dirs : pg_dir'[<<u, d>>] = pg_dir[<<u, d>>]
          /\ \A a \in Addrs : pte'[<<u, a>>] = pte[<<u, a>>]
    BY <1>4 DEF Pages, Tables
  <2>3. pg_dir'[<<t, 1>>] # NoPage
    BY <1>3, <1>8 DEF y
  <2>4. \A x \in Pages : rw'[x] => pte'[x] # NoPage
    BY <1>1, <1>4, <1>5 DEF Control
  <2>5. 1 \in Dirs /\ ImageAddrs \subseteq Addrs
    BY DEF Dirs, Addrs
  <2> QED BY <2>1, <2>2, <2>3, <2>4, <2>5, <1>1, <1>4, <1>7 DEF Control
<1> QED BY <1>10, <1>11, <1>12, <1>13 DEF Inv

(* The pages that copy_process takes are free and different. *)
LEMMA ForkPages ==
  ASSUME Inv, NEW t \in Tasks, pc[t] = "user", ForkMaps(t).task # NoPage,
         \A d \in Dirs : pg_dir[<<t, d>>] # NoPage => ForkMaps(t).table[d] # NoPage
  PROVE  \E f0, f1, f2 :
           /\ ForkMaps(t).task = f0 /\ ForkMaps(t).table[0] = f1 /\ ForkMaps(t).table[1] = f2
           /\ f0 \in Frames /\ mem_map[f0] = 0 /\ f2 \in Frames /\ mem_map[f2] = 0 /\ f0 # f2
           /\ f1 = NoPage \/ (f1 \in Frames /\ mem_map[f1] = 0 /\ f1 # f0 /\ f1 # f2)
           /\ ForkMaps(t).map
                = [g \in Frames |-> IF g = f0 \/ g = f1 \/ g = f2 THEN 1 ELSE mem_map[g]]
<1> DEFINE f0 == get_free_page(mem_map)
           m1 == Used(mem_map, f0)
           f1 == get_free_page(m1)
           m2 == IF pg_dir[<<t, 0>>] # NoPage THEN Used(m1, f1) ELSE m1
           f2 == get_free_page(m2)
           k1 == IF pg_dir[<<t, 0>>] = NoPage THEN NoPage ELSE f1
<1>1. /\ mem_map \in [Frames -> Int] /\ pg_dir[<<t, 1>>] # NoPage /\ NoPage \notin Frames
      /\ 0 \in Dirs /\ 1 \in Dirs
  BY Types, Indices DEF Inv, Control, Dirs
<1>2. ForkMaps(t).task = f0 /\ ForkMaps(t).map = Used(m2, f2)
  BY <1>1 DEF ForkMaps
<1>3. ForkMaps(t).table[0] = k1 /\ ForkMaps(t).table[1] = f2
  BY <1>1 DEF ForkMaps
<1>4. f0 \in Frames /\ mem_map[f0] = 0
  BY <1>2, FreePage
<1> HIDE DEF f0
<1>5. m1 = [g \in Frames |-> IF g = f0 THEN 1 ELSE mem_map[g]]
  BY <1>1, <1>4 DEF Used
<1>6. k1 = NoPage \/ (k1 \in Frames /\ m1[k1] = 0)
  BY <1>1, <1>3, FreePage
<1> HIDE DEF m1
<1>7. k1 = NoPage \/ (k1 \in Frames /\ mem_map[k1] = 0 /\ k1 # f0)
  BY <1>4, <1>5, <1>6
<1>8. m2 = [g \in Frames |-> IF g = f0 \/ g = k1 THEN 1 ELSE mem_map[g]]
  <2>1. CASE pg_dir[<<t, 0>>] = NoPage
    BY <1>1, <1>5, <2>1
  <2>2. CASE pg_dir[<<t, 0>>] # NoPage
    <3>1. k1 = f1 /\ m2 = [m1 EXCEPT ![k1] = 1] /\ k1 # NoPage
      BY <1>1, <1>3, <2>2 DEF Used
    <3> HIDE DEF k1, m2
    <3> QED BY <1>5, <1>7, <3>1
  <2> QED BY <2>1, <2>2
<1>9. f2 \in Frames /\ m2[f2] = 0
  BY <1>1, <1>3, FreePage
<1> HIDE DEF m2, f2, k1
<1>10. mem_map[f2] = 0 /\ f2 # f0 /\ f2 # k1
  BY <1>8, <1>9
<1>11. Used(m2, f2) = [g \in Frames |-> IF g = f0 \/ g = k1 \/ g = f2 THEN 1 ELSE mem_map[g]]
  BY <1>8, <1>9 DEF Used
<1>12. /\ ForkMaps(t).task = f0 /\ ForkMaps(t).table[0] = k1 /\ ForkMaps(t).table[1] = f2
       /\ f0 \in Frames /\ mem_map[f0] = 0 /\ f2 \in Frames /\ mem_map[f2] = 0 /\ f0 # f2
       /\ k1 = NoPage \/ (k1 \in Frames /\ mem_map[k1] = 0 /\ k1 # f0 /\ k1 # f2)
       /\ ForkMaps(t).map
            = [g \in Frames |-> IF g = f0 \/ g = k1 \/ g = f2 THEN 1 ELSE mem_map[g]]
  BY <1>2, <1>3, <1>4, <1>7, <1>9, <1>10, <1>11
<1> QED BY <1>12

LEMMA ForkKeeps ==
  ASSUME Inv, NEW t \in Tasks, NEW u \in Tasks, Fork(t, u)
  PROVE  Inv'
<1> DEFINE m == ForkMaps(t)
<1>1. /\ TypeOK /\ Control /\ WritableIsPrivate /\ CountInv /\ Exclusive /\ NoPage \notin Frames
      /\ pc[t] = "user" /\ calls' \in 0 .. MaxCalls /\ pc[u] = "none" /\ u # t
      /\ m.task # NoPage /\ \A d \in Dirs : pg_dir[<<t, d>>] # NoPage => m.table[d] # NoPage
  <2>1. pc[t] = "user" /\ calls' \in 0 .. MaxCalls
    BY CallsType DEF Fork
  <2>2. pc[u] = "none"
    BY DEF Fork, FirstFreeSlot
  <2> QED BY <2>1, <2>2, ExclusiveHolds, Indices DEF Fork, Inv
<1>2. /\ mem_map \in [Frames -> Int] /\ pg_dir \in [Tables -> Frames \cup {NoPage}]
      /\ pte \in [Pages -> Frames \cup {NoPage}] /\ rw \in [Pages -> BOOLEAN]
      /\ dirty \in [Pages -> BOOLEAN] /\ pc \in [Tasks -> Labels]
      /\ task_page \in [Tasks -> Frames \cup {NoPage}] /\ page \in [Tasks -> Frames \cup {NoPage}]
      /\ executable \in [Tasks -> Exes \cup {NoExe}]
  BY <1>1, Types DEF TypeOK
<1>3. PICK f0, f1, f2 :
        /\ m.task = f0 /\ m.table[0] = f1 /\ m.table[1] = f2
        /\ f0 \in Frames /\ mem_map[f0] = 0 /\ f2 \in Frames /\ mem_map[f2] = 0 /\ f0 # f2
        /\ f1 = NoPage \/ (f1 \in Frames /\ mem_map[f1] = 0 /\ f1 # f0 /\ f1 # f2)
        /\ m.map = [g \in Frames |-> IF g = f0 \/ g = f1 \/ g = f2 THEN 1 ELSE mem_map[g]]
  BY <1>1, ForkPages
<1>4. /\ mem_map' = [g \in Frames |-> m.map[g] + Row(pte, Addrs, t, g)]
      /\ pg_dir' = [x \in Tables |-> IF x[1] = u THEN m.table[x[2]] ELSE pg_dir[x]]
      /\ pte' = [x \in Pages |-> IF x[1] = u THEN pte[<<t, x[2]>>] ELSE pte[x]]
      /\ rw' = [x \in Pages |-> IF x[1] \in {t, u} THEN FALSE ELSE rw[x]]
      /\ dirty' = [x \in Pages |-> IF x[1] = u THEN dirty[<<t, x[2]>>] ELSE dirty[x]]
      /\ task_page' = [task_page EXCEPT ![u] = m.task]
      /\ executable' = [executable EXCEPT ![u] = executable[t]]
      /\ pc' = [pc EXCEPT ![u] = "user"]
      /\ UNCHANGED <<data, page, addr, ret>>
  BY DEF Fork, ShareAll, TableRefs, Row, Inherit, ForkProtect
<1> HIDE DEF m
<1>5. /\ \A d \in Dirs : pg_dir'[<<u, d>>] = IF d = 0 THEN f1 ELSE f2
      /\ \A a \in Addrs : pte'[<<u, a>>] = pte[<<t, a>>]
      /\ \A x \in Tables : x[1] # u => pg_dir'[x] = pg_dir[x]
      /\ \A x \in Pages : x[1] # u => pte'[x] = pte[x]
  BY <1>3, <1>4 DEF Tables, Pages, Dirs
<1>6. /\ \A d \in Dirs : pg_dir[<<u, d>>] = NoPage
      /\ \A a \in Addrs : pte[<<u, a>>] = NoPage
      /\ task_page[u] = NoPage /\ page[u] = NoPage
  BY <1>1 DEF Control
<1>7. \A g \in Frames : /\ Row(pte', Addrs, u, g) = Row(pte, Addrs, t, g)
                        /\ Row(pte', Addrs, u, g) \in Nat
                        /\ Num(pte', Pages, g) = Num(pte, Pages, g) + Row(pte, Addrs, t, g)
  <2> TAKE g \in Frames
  <2>1. {a \in Addrs : pte'[<<u, a>>] = g} = {a \in Addrs : pte[<<t, a>>] = g}
    BY <1>5
  <2>2. Cleared(pte', pte, Addrs, u, g)
    BY <1>1, <1>5, <1>6 DEF Cleared, Pages
  <2>3. /\ Row(pte', Addrs, u, g) \in Nat
        /\ Num(pte', Pages, g) = Num(pte, Pages, g) + Row(pte', Addrs, u, g)
    BY <2>2, AllFinite, NumCleared DEF Pages
  <2>4. Row(pte', Addrs, u, g) = Row(pte, Addrs, t, g)
    BY <2>1 DEF Row
  <2> QED BY <2>3, <2>4
<1>8. \A g \in Frames : Num(pg_dir', Tables, g) = Num(pg_dir, Tables, g) + (One(f1, g) + One(f2, g))
  <2> TAKE g \in Frames
  <2>1. Cleared(pg_dir', pg_dir, Dirs, u, g)
    BY <1>1, <1>5, <1>6 DEF Cleared, Tables
  <2>2. Num(pg_dir', Tables, g) = Num(pg_dir, Tables, g) + Row(pg_dir', Dirs, u, g)
    BY <2>1, AllFinite, NumCleared DEF Tables
  <2>3. Row(pg_dir', Dirs, u, g) = One(pg_dir'[<<u, 0>>], g) + One(pg_dir'[<<u, 1>>], g)
    BY DirRow
  <2>4. pg_dir'[<<u, 0>>] = f1 /\ pg_dir'[<<u, 1>>] = f2
    BY <1>5 DEF Dirs
  <2> QED BY <2>2, <2>3, <2>4
<1>9. /\ task_page' \in [Tasks -> Frames \cup {NoPage}] /\ task_page'[u] = f0
      /\ \A w \in Tasks : w # u => task_page'[w] = task_page[w]
  BY <1>2, <1>3, <1>4
<1>10. \A g \in Frames :
         mem_map'[g] = (IF g = f0 \/ g = f1 \/ g = f2 THEN 1 ELSE mem_map[g]) + Row(pte, Addrs, t, g)
  BY <1>3, <1>4
<1>11. mem_map' \in [Frames -> Int]
  <2>1. \A g \in Frames : m.map[g] \in Int /\ Row(pte, Addrs, t, g) \in Int
    BY <1>2, <1>3, <1>7
  <2> QED BY <1>4, <2>1
<1>12. CountInv'
  <2> SUFFICES ASSUME NEW g \in Frames
               PROVE  mem_map'[g] = Total(pte', pg_dir', task_page', page, g)
    BY <1>4 DEF CountInv
  <2>1. SameBut(task_page, task_page', Tasks, u)
    BY <1>9 DEF SameBut
  <2>2. Num(task_page', Tasks, g)
          = Num(task_page, Tasks, g) + One(task_page'[u], g) - One(task_page[u], g)
    BY <2>1, AllFinite, NumSet
  <2>3. One(task_page'[u], g) = One(f0, g) /\ One(task_page[u], g) = 0
    BY <1>1, <1>6, <1>9 DEF One
  <2>4. (IF g = f0 \/ g = f1 \/ g = f2 THEN 1 ELSE mem_map[g])
          = mem_map[g] + One(f0, g) + (One(f1, g) + One(f2, g))
    BY <1>1, <1>2, <1>3 DEF One
  <2>5. /\ mem_map'[g] = mem_map[g] + One(f0, g) + (One(f1, g) + One(f2, g)) + Row(pte, Addrs, t, g)
        /\ Num(pte', Pages, g) = Num(pte, Pages, g) + Row(pte, Addrs, t, g)
        /\ Num(pg_dir', Tables, g) = Num(pg_dir, Tables, g) + (One(f1, g) + One(f2, g))
        /\ Row(pte, Addrs, t, g) \in Nat
    BY <2>4, <1>7, <1>8, <1>10
  <2>6. mem_map[g] = Num(pte, Pages, g) + Num(pg_dir, Tables, g)
                       + (Num(task_page, Tasks, g) + Num(page, Tasks, g))
    BY <1>1 DEF CountInv, Total
  <2>7. /\ Num(pte', Pages, g) \in Nat /\ Num(pte, Pages, g) \in Nat
        /\ Num(pg_dir', Tables, g) \in Nat /\ Num(pg_dir, Tables, g) \in Nat
        /\ Num(task_page', Tasks, g) \in Nat /\ Num(task_page, Tasks, g) \in Nat
        /\ Num(page, Tasks, g) \in Nat
        /\ One(f0, g) \in {0, 1} /\ One(f1, g) \in {0, 1} /\ One(f2, g) \in {0, 1}
    BY AllFinite, NumType, OneType
  <2>8. mem_map'[g] = Num(pte', Pages, g) + Num(pg_dir', Tables, g)
                        + (Num(task_page', Tasks, g) + Num(page, Tasks, g))
    BY <2>2, <2>3, <2>5, <2>6, <2>7
  <2> QED BY <2>8 DEF Total
<1>13. WritableIsPrivate'
  <2>1. \A g \in Frames : mem_map[g] = 1 /\ Row(pte, Addrs, t, g) = 0 => mem_map'[g] = 1
    BY <1>3, <1>10
  <2>2. \A g \in Frames : mem_map[g] = 0 => Row(pte, Addrs, t, g) = 0
    <3> SUFFICES ASSUME NEW g \in Frames, mem_map[g] = 0 PROVE Row(pte, Addrs, t, g) = 0
      OBVIOUS
    <3>1. \A a \in Addrs : pte[<<t, a>>] # g
      BY <1>1, Unused, Indices
    <3> QED BY <3>1, RowEmpty
  <2>3. mem_map'[f0] = 1 /\ mem_map'[f2] = 1 /\ (f1 # NoPage => mem_map'[f1] = 1)
    BY <2>2, <1>3, <1>10
  <2>4. \A x \in Pages : rw[x] /\ x[1] # t => mem_map'[pte[x]] = 1
    BY <2>1, <1>1, <1>2, OthersSpared DEF WritableIsPrivate, Control
  <2>5. \A x \in Pages : rw'[x] => mem_map'[pte'[x]] = 1
    BY <2>4, <1>4, <1>5
  <2>6. \A x \in Tables : pg_dir[x] # NoPage => mem_map'[pg_dir[x]] = 1
    <3> SUFFICES ASSUME NEW x \in Tables, pg_dir[x] # NoPage PROVE mem_map'[pg_dir[x]] = 1
      OBVIOUS
    <3>1. \A a \in Addrs : pte[<<t, a>>] # pg_dir[x]
      BY <1>1, Indices DEF Exclusive
    <3>2. Row(pte, Addrs, t, pg_dir[x]) = 0
      BY <3>1, RowEmpty
    <3> QED BY <2>1, <3>2, <1>1, <1>2 DEF WritableIsPrivate
  <2>7. \A x \in Tables : pg_dir'[x] # NoPage => mem_map'[pg_dir'[x]] = 1
    <3> SUFFICES ASSUME NEW x \in Tables, pg_dir'[x] # NoPage PROVE mem_map'[pg_dir'[x]] = 1
      OBVIOUS
    <3>1. CASE x[1] # u
      BY <2>6, <3>1, <1>5
    <3>2. CASE x[1] = u
      <4>1. x = <<u, x[2]>> /\ x[2] \in Dirs
        BY <3>2 DEF Tables
      <4>2. pg_dir'[x] = f1 \/ pg_dir'[x] = f2
        BY <4>1, <1>5
      <4> QED BY <4>2, <2>3
    <3> QED BY <3>1, <3>2
  <2>8. \A w \in Tasks : task_page[w] # NoPage => mem_map'[task_page[w]] = 1
    BY <2>1, <1>1, <1>2, OthersSpared DEF WritableIsPrivate
  <2>9. \A w \in Tasks : task_page'[w] # NoPage => mem_map'[task_page'[w]] = 1
    BY <2>3, <2>8, <1>9
  <2>10. \A w \in Tasks : page[w] # NoPage => mem_map'[page[w]] = 1
    BY <2>1, <1>1, <1>2, OthersSpared DEF WritableIsPrivate
  <2> QED BY <2>5, <2>7, <2>9, <2>10, <1>4 DEF WritableIsPrivate
<1>14. TypeOK'
  <2>1. pg_dir' \in [Tables -> Frames \cup {NoPage}]
    <3>1. \A x \in Tables : x[1] = u => m.table[x[2]] \in Frames \cup {NoPage}
      BY <1>3 DEF Tables, Dirs
    <3> QED BY <3>1, <1>2, <1>4
  <2>2. \A x \in Pages : <<t, x[2]>> \in Pages
    BY DEF Pages
  <2>3. pte' \in [Pages -> Frames \cup {NoPage}] /\ dirty' \in [Pages -> BOOLEAN]
    BY <2>2, <1>2, <1>4
  <2>4. rw' \in [Pages -> BOOLEAN]
    BY <1>2, <1>4
  <2>5. executable' \in [Tasks -> Exes \cup {NoExe}] /\ pc' \in [Tasks -> Labels]
    BY <1>2, <1>4 DEF Labels
  <2> QED BY <2>1, <2>3, <2>4, <2>5, <1>1, <1>4, <1>9, <1>11 DEF TypeOK
<1>15. Control'
  <2>1. pc'[u] = "user" /\ \A w \in Tasks : w # u => pc'[w] = pc[w] /\ executable'[w] = executable[w]
    BY <1>2, <1>4
  <2>2. \A w \in Tasks : w # u => /\ \A d \in Dirs : pg_dir'[<<w, d>>] = pg_dir[<<w, d>>]
                                  /\ \A a \in Addrs : pte'[<<w, a>>] = pte[<<w, a>>]
    BY <1>5 DEF Tables, Pages
  <2>3. pg_dir'[<<u, 1>>] # NoPage
    BY <1>1, <1>3, <1>5 DEF Dirs
  <2>4. \A x \in Pages : rw'[x] => pte'[x] # NoPage
    BY <1>1, <1>4, <1>5 DEF Control
  <2>5. 1 \in Dirs /\ ImageAddrs \subseteq Addrs /\ f0 # NoPage
    BY <1>1, <1>3 DEF Dirs, Addrs
  <2>6. UNCHANGED <<page, addr, ret>>
    BY <1>4
  <2> QED BY <2>1, <2>2, <2>3, <2>4, <2>5, <2>6, <1>1, <1>6, <1>9 DEF Control
<1> QED BY <1>12, <1>13, <1>14, <1>15 DEF Inv

-----------------------------------------------------------------------------
(* The invariant.                                                          *)

OnlyAt(h, S, z, f) == \A y \in S : y # z => h[y] # f

LEMMA NumSingle ==
  ASSUME NEW S, NEW h, NEW z \in S, NEW f, OnlyAt(h, S, z, f)
  PROVE  Num(h, S, f) = One(h[z], f)
<1>1. CASE h[z] = f
  <2>1. {y \in S : h[y] = f} = {z}
    BY <1>1 DEF OnlyAt
  <2> QED BY <1>1, <2>1, FS_Singleton DEF Num, One
<1>2. CASE h[z] # f
  <2>1. {y \in S : h[y] = f} = {}
    BY <1>2 DEF OnlyAt
  <2> QED BY <1>2, <2>1, FS_EmptySet DEF Num, One
<1> QED BY <1>1, <1>2

LEMMA NumSingleTask ==
  \A h, f : \A z \in Tasks : OnlyAt(h, Tasks, z, f) => Num(h, Tasks, f) = One(h[z], f)
BY NumSingle

LEMMA InitInv == Init => Inv
<1> SUFFICES ASSUME Init PROVE Inv
  OBVIOUS
<1> DEFINE N == NR_FRAMES
           z == <<1, ArgAddr>>
           y == <<1, 1>>
<1>1. /\ N \in Nat /\ N >= 3 /\ 1 \in Tasks /\ z \in Pages /\ y \in Tables /\ Dir(ArgAddr) = 1
      /\ NoPage \notin Frames
      /\ N \in Frames /\ N - 1 \in Frames /\ N - 2 \in Frames
  <2>1. N \in Nat /\ N >= 3 /\ 1 \in Tasks
    BY SizesAssumption DEF Tasks
  <2>2. N \in Frames /\ N - 1 \in Frames /\ N - 2 \in Frames
    BY <2>1 DEF Frames
  <2> QED BY <2>1, <2>2, Indices
<1>2. PICK e \in Exes :
        /\ mem_map = [f \in Frames |-> IF f > N - 3 THEN 1 ELSE 0]
        /\ data = [f \in Frames |-> IF f = N - 2 THEN Arguments ELSE Zero]
        /\ pg_dir = [x \in Tables |-> IF x = <<1, Dir(ArgAddr)>> THEN N - 1 ELSE NoPage]
        /\ pte = [x \in Pages |-> IF x = z THEN N - 2 ELSE NoPage]
        /\ rw = [x \in Pages |-> x = z]
        /\ dirty = [x \in Pages |-> x = z]
        /\ task_page = [t \in Tasks |-> IF t = 1 THEN N ELSE NoPage]
        /\ executable = [t \in Tasks |-> IF t = 1 THEN e ELSE NoExe]
        /\ pc = [t \in Tasks |-> IF t = 1 THEN "user" ELSE "none"]
        /\ page = [t \in Tasks |-> NoPage]
        /\ addr = [t \in Tasks |-> NoAddr]
        /\ ret = [t \in Tasks |-> "none"]
        /\ calls = MaxCalls
  BY DEF Init
<1>3. TypeOK
  <2>1. mem_map \in [Frames -> Int]
    BY <1>2
  <2>2. data \in [Frames -> Contents]
    BY <1>2 DEF Contents
  <2>3. pg_dir \in [Tables -> Frames \cup {NoPage}]
    BY <1>1, <1>2
  <2>4. pte \in [Pages -> Frames \cup {NoPage}]
    BY <1>1, <1>2
  <2>5. rw \in [Pages -> BOOLEAN] /\ dirty \in [Pages -> BOOLEAN]
    BY <1>2
  <2>6. /\ task_page \in [Tasks -> Frames \cup {NoPage}] /\ page \in [Tasks -> Frames \cup {NoPage}]
        /\ executable \in [Tasks -> Exes \cup {NoExe}]
    BY <1>1, <1>2
  <2>7. /\ pc \in [Tasks -> Labels] /\ addr \in [Tasks -> Addrs \cup {NoAddr}]
        /\ ret \in [Tasks -> {"none", "user", "read"}]
    BY <1>2 DEF Labels
  <2>8. calls \in 0 .. MaxCalls
    BY <1>2, CallsAssumption
  <2> QED BY <2>1, <2>2, <2>3, <2>4, <2>5, <2>6, <2>7, <2>8 DEF TypeOK
<1>4. /\ pte[z] = N - 2 /\ pg_dir[y] = N - 1 /\ task_page[1] = N
      /\ \A x \in Pages : x # z => pte[x] = NoPage
      /\ \A x \in Tables : x # y => pg_dir[x] = NoPage
      /\ \A t \in Tasks : t # 1 => task_page[t] = NoPage
      /\ \A t \in Tasks : page[t] = NoPage
  BY <1>1, <1>2
<1>5. mem_map[N] = 1 /\ mem_map[N - 1] = 1 /\ mem_map[N - 2] = 1
  BY <1>1, <1>2
<1>6. Control
  <2>1. \A t \in Tasks : t # 1 => /\ \A d \in Dirs : pg_dir[<<t, d>>] = NoPage
                                  /\ \A a \in Addrs : pte[<<t, a>>] = NoPage
    BY <1>4 DEF Tables, Pages
  <2>2. N # NoPage /\ N - 1 # NoPage /\ N - 2 # NoPage
    BY <1>1
  <2>3. pc[1] = "user" /\ \A t \in Tasks : t # 1 => pc[t] = "none"
    BY <1>1, <1>2
  <2>4. \A x \in Pages : rw[x] => pte[x] # NoPage
    BY <1>2, <1>4, <2>2
  <2> QED BY <1>4, <2>1, <2>2, <2>3, <2>4 DEF Control
<1>7. WritableIsPrivate
  <2>1. \A x \in Pages : rw[x] => mem_map[pte[x]] = 1
    BY <1>2, <1>4, <1>5
  <2> QED BY <2>1, <1>4, <1>5 DEF WritableIsPrivate
<1>8. CountInv
  <2> SUFFICES ASSUME NEW g \in Frames PROVE mem_map[g] = Total(pte, pg_dir, task_page, page, g)
    BY DEF CountInv
  <2>1. OnlyAt(pte, Pages, z, g) /\ OnlyAt(pg_dir, Tables, y, g)
    BY <1>1, <1>4 DEF OnlyAt
  <2>2. OnlyAt(task_page, Tasks, 1, g) /\ OnlyAt(page, Tasks, 1, g)
    BY <1>1, <1>4 DEF OnlyAt
  <2>3. Num(pte, Pages, g) = One(pte[z], g) /\ Num(pg_dir, Tables, g) = One(pg_dir[y], g)
    <3> HIDE DEF z, y, N
    <3>1. z \in Pages /\ y \in Tables
      BY <1>1
    <3> QED BY <3>1, <2>1, NumSingle
  <2>4. Num(task_page, Tasks, g) = One(task_page[1], g) /\ Num(page, Tasks, g) = One(page[1], g)
    <3>1. 1 \in Tasks
      BY <1>1
    <3> QED BY <3>1, <2>2, NumSingleTask
  <2>5. /\ One(pte[z], g) = One(N - 2, g) /\ One(pg_dir[y], g) = One(N - 1, g)
        /\ One(task_page[1], g) = One(N, g) /\ One(page[1], g) = 0
    BY <1>1, <1>4 DEF One
  <2>6. g \in 1 .. N /\ N \in Nat
    BY <1>1 DEF Frames
  <2>7. mem_map[g] = IF g > N - 3 THEN 1 ELSE 0
    BY <1>2
  <2>8. mem_map[g] = One(N - 2, g) + One(N - 1, g) + One(N, g)
    BY <2>6, <2>7 DEF One
  <2>9. One(N - 2, g) \in {0, 1} /\ One(N - 1, g) \in {0, 1} /\ One(N, g) \in {0, 1}
    BY OneType
  <2> HIDE DEF N
  <2> QED BY <2>3, <2>4, <2>5, <2>8, <2>9 DEF Total
<1> QED BY <1>3, <1>6, <1>7, <1>8 DEF Inv

LEMMA StepKeeps == Inv /\ [Next]_vars => Inv'
<1> SUFFICES ASSUME Inv, [Next]_vars PROVE Inv'
  OBVIOUS
<1>1. CASE UNCHANGED vars
  <2>1. /\ UNCHANGED <<mem_map, data, pg_dir, pte, rw, dirty, task_page, executable, pc, page>>
        /\ UNCHANGED <<addr, ret, calls>>
    BY <1>1 DEF vars
  <2>2. TypeOK'
    BY <2>1 DEF Inv, TypeOK
  <2>3. Control'
    BY <2>1 DEF Inv, Control
  <2>4. WritableIsPrivate'
    BY <2>1 DEF Inv, WritableIsPrivate
  <2>5. CountInv'
    BY <2>1 DEF Inv, CountInv
  <2> QED BY <2>2, <2>3, <2>4, <2>5 DEF Inv
<1>2. ASSUME NEW t \in Tasks, NEW a \in Addrs, Fault(t, a) PROVE Inv'
  BY <1>2, NoPageEmptyKeeps, NoPageShareKeeps, NoPageLoadKeeps, NoPageOomKeeps,
     WriteProtectedKeeps DEF Fault
<1>3. ASSUME NEW t \in Tasks, NEW a \in Addrs, NEW v \in Values, Write(t, a, v) PROVE Inv'
  BY <1>3, WriteKeeps
<1>4. ASSUME NEW t \in Tasks, SystemCall(t) PROVE Inv'
  BY <1>4, ForkKeeps, ForkFailsKeeps, ExecveArgsKeeps, ExecveFailsKeeps, ExecveSetKeeps,
     ExecveEndsKeeps, CallReadKeeps, ReadCopiesKeeps, ExitCallKeeps DEF SystemCall
<1>5. ASSUME NEW t \in Tasks, Loaded(t) \/ Release(t) PROVE Inv'
  BY <1>5, LoadedKeeps, ReleaseKeeps
<1> QED BY <1>1, <1>2, <1>3, <1>4, <1>5 DEF Next

LEMMA InvHolds == Spec => []Inv
<1>1. Init => Inv
  BY InitInv
<1>2. Inv /\ [Next]_vars => Inv'
  BY StepKeeps
<1> QED BY <1>1, <1>2, PTL DEF Spec

(* The types of the page map, the page tables and the tasks: in particular *)
(* get_free_page and put_page only ever put pages of memory, or none, into *)
(* tables, and every content is one that the code writes.                  *)
THEOREM TypeCorrect == Spec => []TypeOK
<1>1. Inv => TypeOK
  BY DEF Inv
<1> QED BY <1>1, InvHolds, PTL

(* mem_map counts exactly the references to each page, whatever the order  *)
(* of faults, forks, execves and exits and wherever memory runs out: no    *)
(* page leaks and none is freed while it is in use.                        *)
THEOREM ReferenceCountsHolds == Spec => []ReferenceCounts
<1>1. Inv => ReferenceCounts
  BY TotalIsCardinality DEF Inv, CountInv, ReferenceCounts
<1> QED BY <1>1, InvHolds, PTL

(* A page that can be written has one user: copy on write never leaves a   *)
(* shared page writable, and no page table or task structure is mapped or  *)
(* given out twice.                                                        *)
THEOREM WritableIsPrivateHolds == Spec => []WritableIsPrivate
<1>1. Inv => WritableIsPrivate
  BY DEF Inv
<1> QED BY <1>1, InvHolds, PTL

-----------------------------------------------------------------------------
(* What tasks see.                                                         *)

(* What a task sees at the pages it has stays the same. *)
KeepsView ==
  \A w \in Tasks, b \in Addrs :
    Lives(w) /\ Lives(w)' /\ pte[<<w, b>>] # NoPage => data'[pte'[<<w, b>>]] = data[pte[<<w, b>>]]

(* The pages that tasks have stay mapped where they are. *)
KeepsPages ==
  \A w \in Tasks, b \in Addrs :
    Lives(w) /\ Lives(w)' /\ pte[<<w, b>>] # NoPage => pte'[<<w, b>>] = pte[<<w, b>>]

(* At most a page that nobody has mapped is written. *)
LEMMA ViewOfUnmapped ==
  ASSUME TypeOK, KeepsPages, NEW f, \A x \in Pages : pte[x] # f,
         \A g \in Frames : g # f => data'[g] = data[g]
  PROVE  KeepsView
<1> SUFFICES ASSUME NEW w \in Tasks, NEW b \in Addrs, Lives(w), Lives(w)', pte[<<w, b>>] # NoPage
             PROVE  data'[pte'[<<w, b>>]] = data[pte[<<w, b>>]]
  BY DEF KeepsView
<1>1. <<w, b>> \in Pages /\ pte \in [Pages -> Frames \cup {NoPage}]
  BY Types, Indices
<1>2. pte[<<w, b>>] \in Frames /\ pte[<<w, b>>] # f
  BY <1>1
<1>3. pte'[<<w, b>>] = pte[<<w, b>>]
  BY DEF KeepsPages
<1> QED BY <1>2, <1>3

LEMMA ViewOfUnwritten ==
  ASSUME KeepsPages, data' = data
  PROVE  KeepsView
BY DEF KeepsPages, KeepsView

(* A task that exits has no view any more. *)
LEMMA ExitView ==
  ASSUME TypeOK, NEW t \in Tasks, NEW map, do_exit(t, map)
  PROVE  KeepsView
<1>1. /\ pc' = [pc EXCEPT ![t] = "zombie"] /\ data' = data
      /\ pte' = [x \in Pages |-> IF x[1] = t THEN NoPage ELSE pte[x]]
      /\ pc \in [Tasks -> Labels]
  BY DEF do_exit, ClearTables, TypeOK
<1>2. KeepsPages
  <2> SUFFICES ASSUME NEW w \in Tasks, NEW b \in Addrs, Lives(w)'
               PROVE  pte'[<<w, b>>] = pte[<<w, b>>]
    BY DEF KeepsPages
  <2>1. w # t
    BY <1>1 DEF Lives
  <2>2. <<w, b>> \in Pages
    BY Indices
  <2> QED BY <1>1, <2>1, <2>2
<1> QED BY <1>1, <1>2, ViewOfUnwritten

(* Mapping a page where there was none. *)
LEMMA MapView ==
  ASSUME TypeOK, NEW t \in Tasks, NEW a \in Addrs, pte[<<t, a>>] = NoPage,
         NEW f, pte' = [pte EXCEPT ![<<t, a>>] = f]
  PROVE  KeepsPages
<1>1. \A w \in Tasks, b \in Addrs : <<w, b>> \in Pages
  BY Indices
<1>2. pte \in [Pages -> Frames \cup {NoPage}]
  BY Types
<1> QED BY <1>1, <1>2 DEF KeepsPages

LEMMA UnWpView ==
  ASSUME Inv, NEW t \in Tasks, NEW a \in Addrs, un_wp_page(t, a), Protected(t, a)
  PROVE  KeepsView
<1> DEFINE old == pte[<<t, a>>]
           new == get_free_page(mem_map)
<1>1. CASE UNCHANGED <<mem_map, data, pg_dir, pte, dirty>>
  BY <1>1, ViewOfUnwritten DEF KeepsPages
<1>2. CASE /\ new # NoPage /\ data' = [data EXCEPT ![new] = data[old]]
           /\ pte' = [pte EXCEPT ![<<t, a>>] = new]
  <2>1. /\ pte \in [Pages -> Frames \cup {NoPage}] /\ <<t, a>> \in Pages
        /\ data \in [Frames -> Contents] /\ CountInv
    BY Types, Indices DEF Inv
  <2>2. new \in Frames /\ mem_map[new] = 0
    BY <1>2, FreePage
  <2> HIDE DEF new
  <2>3. \A x \in Pages : pte[x] # new
    BY <2>1, <2>2, Unused
  <2> SUFFICES ASSUME NEW w \in Tasks, NEW b \in Addrs, pte[<<w, b>>] # NoPage
               PROVE  data'[pte'[<<w, b>>]] = data[pte[<<w, b>>]]
    BY DEF KeepsView
  <2>4. <<w, b>> \in Pages /\ pte[<<w, b>>] \in Frames
    BY <2>1, Indices
  <2>5. CASE <<w, b>> = <<t, a>>
    <3>1. pte'[<<w, b>>] = new /\ data'[new] = data[old]
      BY <1>2, <2>1, <2>2, <2>5
    <3> QED BY <2>5, <3>1
  <2>6. CASE <<w, b>> # <<t, a>>
    <3>1. pte'[<<w, b>>] = pte[<<w, b>>] /\ pte[<<w, b>>] # new
      BY <1>2, <2>1, <2>3, <2>4, <2>6
    <3> QED BY <1>2, <2>1, <2>4, <3>1
  <2> QED BY <2>5, <2>6
<1> QED BY <1>1, <1>2 DEF un_wp_page, Copied

(* A step under which every task sees what it saw, its own writes apart:   *)
(* PagesStable says that all steps are.                                    *)
StableStep ==
  \A t \in Tasks, a \in Addrs :
       /\ Lives(t) /\ Lives(t)' /\ pte[<<t, a>>] # NoPage
       /\ data'[pte'[<<t, a>>]] # data[pte[<<t, a>>]]
       => pte'[<<t, a>>] = pte[<<t, a>>] /\ rw[<<t, a>>] /\ dirty'[<<t, a>>]

LEMMA StoreView ==
  ASSUME Inv, NEW t \in Tasks, NEW a \in Addrs, NEW v, Store(t, a, v),
         pte[<<t, a>>] # NoPage, rw[<<t, a>>]
  PROVE  StableStep
<1>1. /\ data' = [data EXCEPT ![pte[<<t, a>>]] = Written(v)]
      /\ dirty' = [dirty EXCEPT ![<<t, a>>] = TRUE] /\ pte' = pte
  BY DEF Store
<1>2. /\ pte \in [Pages -> Frames \cup {NoPage}] /\ <<t, a>> \in Pages
      /\ data \in [Frames -> Contents] /\ dirty \in [Pages -> BOOLEAN]
  BY Types, Indices DEF Inv
<1>3. \A y \in Pages : pte[<<t, a>>] = pte[y] => <<t, a>> = y
  BY <1>2, ExclusiveHolds DEF Exclusive
<1> SUFFICES ASSUME NEW w \in Tasks, NEW b \in Addrs, pte[<<w, b>>] # NoPage,
                    data'[pte'[<<w, b>>]] # data[pte[<<w, b>>]]
             PROVE  pte'[<<w, b>>] = pte[<<w, b>>] /\ rw[<<w, b>>] /\ dirty'[<<w, b>>]
  BY DEF StableStep
<1>4. <<w, b>> \in Pages /\ pte[<<w, b>>] \in Frames
  BY <1>2, Indices
<1>5. pte[<<w, b>>] = pte[<<t, a>>]
  BY <1>1, <1>2, <1>4
<1>6. <<w, b>> = <<t, a>>
  BY <1>3, <1>4, <1>5
<1>7. dirty'[<<t, a>>]
  BY <1>1, <1>2
<1> QED BY <1>1, <1>6, <1>7

LEMMA FreshView ==
  ASSUME Inv, KeepsPages, NEW f, f = get_free_page(mem_map), f # NoPage, NEW c,
         data' = [data EXCEPT ![f] = c]
  PROVE  KeepsView
<1>1. f \in Frames /\ mem_map[f] = 0
  BY FreePage
<1>2. \A x \in Pages : pte[x] # f
  BY <1>1, Unused DEF Inv
<1>3. \A g \in Frames : g # f => data'[g] = data[g]
  BY Types DEF Inv
<1> QED BY <1>2, <1>3, ViewOfUnmapped DEF Inv

LEMMA SamePages ==
  ASSUME pte' = pte
  PROVE  KeepsPages
BY DEF KeepsPages

LEMMA NoPageView ==
  ASSUME Inv, NEW t \in Tasks, NEW a \in Addrs,
         NoPageEmpty(t, a) \/ NoPageShare(t, a) \/ NoPageLoad(t, a) \/ NoPageOom(t, a)
  PROVE  KeepsView
<1> DEFINE f == get_free_page(mem_map)
<1>1. TypeOK
  BY DEF Inv
<1>2. CASE \E map : do_exit(t, map)
  BY <1>1, <1>2, ExitView
<1>3. CASE NoPageEmpty(t, a) /\ put_page(t, a, f, Used(mem_map, f)) /\ data' = [data EXCEPT ![f] = Zero]
  <2>1. pte[<<t, a>>] = NoPage /\ pte' = [pte EXCEPT ![<<t, a>>] = f] /\ f # NoPage
    BY <1>3 DEF NoPageEmpty, Touches, put_page
  <2>2. KeepsPages
    BY <1>1, <2>1, MapView
  <2> QED BY <1>3, <2>1, <2>2, FreshView
<1>4. CASE NoPageShare(t, a) /\ pte' = [pte EXCEPT ![<<t, a>>] = pte[<<Donor(t, a), a>>]] /\ data' = data
  <2>1. pte[<<t, a>>] = NoPage
    BY <1>4 DEF NoPageShare, Touches
  <2>2. KeepsPages
    BY <1>1, <1>4, <2>1, MapView
  <2> QED BY <1>4, <2>2, ViewOfUnwritten
<1>5. CASE NoPageLoad(t, a)
  <2>1. pte' = pte /\ f # NoPage /\ data' = [data EXCEPT ![f] = Zero]
    BY <1>5 DEF NoPageLoad, tableVars
  <2> QED BY <2>1, SamePages, FreshView
<1>6. CASE NoPageEmpty(t, a)
  BY <1>2, <1>3, <1>6 DEF NoPageEmpty
<1>7. CASE NoPageShare(t, a)
  BY <1>2, <1>4, <1>7 DEF NoPageShare
<1>8. CASE NoPageOom(t, a)
  BY <1>2, <1>8 DEF NoPageOom
<1> QED BY <1>5, <1>6, <1>7, <1>8

(* The page that is loaded is not mapped yet, and the address it goes to   *)
(* has no page yet, for nobody but the task itself maps pages for it.      *)
LEMMA LoadedView ==
  ASSUME Inv, NEW t \in Tasks, Loaded(t)
  PROVE  KeepsView
<1>1. TypeOK /\ Exclusive /\ pc[t] = "load"
  BY ExclusiveHolds DEF Inv, Loaded
<1>2. CASE \E map : do_exit(t, map)
  BY <1>1, <1>2, ExitView
<1>3. CASE put_page(t, addr[t], page[t], mem_map)
           /\ data' = [data EXCEPT ![page[t]] = ImageOf(executable[t], addr[t])]
  <2>1. addr[t] \in Addrs /\ pte[<<t, addr[t]>>] = NoPage /\ page[t] # NoPage
    BY <1>1 DEF Inv, Control, Addrs
  <2>2. pte' = [pte EXCEPT ![<<t, addr[t]>>] = page[t]]
    BY <1>3 DEF put_page
  <2>3. KeepsPages
    BY <1>1, <2>1, <2>2, MapView
  <2>4. \A x \in Pages : pte[x] # page[t]
    BY <1>1, <2>1 DEF Exclusive
  <2>5. \A g \in Frames : g # page[t] => data'[g] = data[g]
    BY <1>1, <1>3, Types
  <2> QED BY <1>1, <2>3, <2>4, <2>5, ViewOfUnmapped
<1> QED BY <1>2, <1>3 DEF Loaded

LEMMA WriteProtectedView ==
  ASSUME Inv, NEW t \in Tasks, NEW a \in Addrs, WriteProtected(t, a) \/ CallRead(t, a)
  PROVE  KeepsView
<1>1. CASE \E map : do_exit(t, map)
  BY <1>1, ExitView DEF Inv
<1>2. CASE un_wp_page(t, a) /\ Protected(t, a)
  BY <1>2, UnWpView
<1>3. CASE UNCHANGED <<mem_map, data, tableVars>>
  BY <1>3, SamePages, ViewOfUnwritten DEF tableVars
<1> QED BY <1>1, <1>2, <1>3 DEF WriteProtected, CallRead

LEMMA ExecveView ==
  ASSUME Inv, NEW t \in Tasks,
         \/ ExecveArgs(t) \/ ExecveFails(t) \/ ExecveEnds(t) \/ Exit(t) \/ Release(t)
         \/ ForkFails(t) \/ \E e \in Exes : ExecveSet(t, e)
  PROVE  KeepsView
<1>1. CASE ExecveArgs(t)
  <2>1. /\ pte' = pte /\ get_free_page(mem_map) # NoPage
        /\ data' = [data EXCEPT ![get_free_page(mem_map)] = Arguments]
    BY <1>1 DEF ExecveArgs, tableVars
  <2> QED BY <2>1, SamePages, FreshView
<1>2. CASE UNCHANGED <<pte, data>>
  BY <1>2, SamePages, ViewOfUnwritten
<1>3. CASE Exit(t)
  BY <1>3, ExitView DEF Exit, Inv
<1>4. CASE ExecveEnds(t)
  <2>1. pc[t] = "execve" /\ data' = data /\ \A x \in Pages : x[1] # t => pte'[x] = pte[x]
    BY <1>4 DEF ExecveEnds
  <2>2. KeepsPages
    <3> SUFFICES ASSUME NEW w \in Tasks, NEW b \in Addrs, Lives(w)
                 PROVE  pte'[<<w, b>>] = pte[<<w, b>>]
      BY DEF KeepsPages
    <3>1. w # t
      BY <2>1 DEF Lives
    <3> QED BY <2>1, <3>1, Indices
  <2> QED BY <2>1, <2>2, ViewOfUnwritten
<1>5. CASE ExecveFails(t) \/ Release(t) \/ ForkFails(t) \/ \E e \in Exes : ExecveSet(t, e)
  BY <1>2, <1>5 DEF ExecveFails, Release, ForkFails, ExecveSet, tableVars
<1> QED BY <1>1, <1>3, <1>4, <1>5

LEMMA ForkView ==
  ASSUME Inv, NEW t \in Tasks, NEW u \in Tasks, Fork(t, u)
  PROVE  KeepsView
<1>1. /\ pc[u] = "none" /\ data' = data
      /\ pte' = [x \in Pages |-> IF x[1] = u THEN pte[<<t, x[2]>>] ELSE pte[x]]
  BY DEF Fork, FirstFreeSlot, Inherit
<1>2. KeepsPages
  <2> SUFFICES ASSUME NEW w \in Tasks, NEW b \in Addrs, Lives(w)
               PROVE  pte'[<<w, b>>] = pte[<<w, b>>]
    BY DEF KeepsPages
  <2>1. w # u
    BY <1>1 DEF Lives
  <2>2. <<w, b>> \in Pages
    BY Indices
  <2> QED BY <1>1, <2>1, <2>2
<1> QED BY <1>1, <1>2, ViewOfUnwritten

-----------------------------------------------------------------------------
(* System calls that copy to user memory.                                  *)

(* A step of t leaves the tables of other tasks alone where those copy to. *)
OthersRead(t) ==
  \A w \in Tasks \ {t} : pc'[w] = "read" =>
    /\ pc[w] = "read" /\ addr'[w] = addr[w]
    /\ pte'[<<w, addr[w]>>] = pte[<<w, addr[w]>>] /\ rw'[<<w, addr[w]>>] = rw[<<w, addr[w]>>]

LEMMA ReadElsewhere ==
  ASSUME ReadWritable, NEW t \in Tasks, OthersRead(t),
         pc'[t] = "read" /\ pte'[<<t, addr'[t]>>] # NoPage => rw'[<<t, addr'[t]>>]
  PROVE  ReadWritable'
BY DEF ReadWritable, OthersRead

(* One entry of t changes at most, and the labels and addresses of others  *)
(* do not.                                                                 *)
LEMMA OthersReadEntry ==
  ASSUME TypeOK, NEW t \in Tasks, NEW a \in Addrs, Control,
         \A w \in Tasks \ {t} : pc'[w] = pc[w] /\ addr'[w] = addr[w],
         \A x \in Pages : x # <<t, a>> => pte'[x] = pte[x] /\ rw'[x] = rw[x]
  PROVE  OthersRead(t)
<1> SUFFICES ASSUME NEW w \in Tasks \ {t}, pc'[w] = "read"
             PROVE  /\ pc[w] = "read" /\ addr'[w] = addr[w]
                    /\ pte'[<<w, addr[w]>>] = pte[<<w, addr[w]>>]
                    /\ rw'[<<w, addr[w]>>] = rw[<<w, addr[w]>>]
  BY DEF OthersRead
<1>1. pc[w] = "read" /\ addr'[w] = addr[w] /\ addr[w] \in Addrs
  BY CallsAssumption DEF Control
<1>2. <<w, addr[w]>> \in Pages /\ <<w, addr[w]>> # <<t, a>>
  BY <1>1, Indices
<1> QED BY <1>1, <1>2

(* The same for all entries of t. *)
LEMMA OthersReadRow ==
  ASSUME TypeOK, NEW t \in Tasks, Control,
         \A w \in Tasks \ {t} : pc'[w] = "read" => pc[w] = "read" /\ addr'[w] = addr[w],
         \A x \in Pages : x[1] # t => pte'[x] = pte[x] /\ rw'[x] = rw[x]
  PROVE  OthersRead(t)
<1> SUFFICES ASSUME NEW w \in Tasks \ {t}, pc'[w] = "read"
             PROVE  /\ pc[w] = "read" /\ addr'[w] = addr[w]
                    /\ pte'[<<w, addr[w]>>] = pte[<<w, addr[w]>>]
                    /\ rw'[<<w, addr[w]>>] = rw[<<w, addr[w]>>]
  BY DEF OthersRead
<1>1. pc[w] = "read" /\ addr'[w] = addr[w] /\ addr[w] \in Addrs
  BY CallsAssumption DEF Control
<1>2. <<w, addr[w]>> \in Pages /\ <<w, addr[w]>>[1] # t
  BY <1>1, Indices
<1> QED BY <1>1, <1>2

LEMMA ExitRead ==
  ASSUME Inv, ReadWritable, NEW t \in Tasks, NEW map, do_exit(t, map)
  PROVE  ReadWritable'
<1>1. /\ pc' = [pc EXCEPT ![t] = "zombie"] /\ addr' = [addr EXCEPT ![t] = NoAddr]
      /\ pte' = [x \in Pages |-> IF x[1] = t THEN NoPage ELSE pte[x]]
      /\ rw' = [x \in Pages |-> x[1] # t /\ rw[x]]
      /\ pc \in [Tasks -> Labels] /\ addr \in [Tasks -> Addrs \cup {NoAddr}]
      /\ rw \in [Pages -> BOOLEAN]
  BY DEF do_exit, ClearTables, TypeOK, Inv
<1>2. \A x \in Pages : x[1] # t => pte'[x] = pte[x] /\ rw'[x] = rw[x]
  BY <1>1
<1>3. \A w \in Tasks \ {t} : pc'[w] = "read" => pc[w] = "read" /\ addr'[w] = addr[w]
  BY <1>1
<1>4. OthersRead(t)
  BY <1>2, <1>3, OthersReadRow DEF Inv
<1>5. pc'[t] # "read"
  BY <1>1
<1> QED BY <1>4, <1>5, ReadElsewhere

LEMMA UnWpRead ==
  ASSUME Inv, ReadWritable, NEW t \in Tasks, NEW a \in Addrs, un_wp_page(t, a),
         \A w \in Tasks \ {t} : pc'[w] = pc[w] /\ addr'[w] = addr[w],
         pc'[t] = "read" => addr'[t] = a
  PROVE  ReadWritable'
<1>1. /\ rw' = [rw EXCEPT ![<<t, a>>] = TRUE]
      /\ pte' = pte \/ pte' = [pte EXCEPT ![<<t, a>>] = get_free_page(mem_map)]
  BY DEF un_wp_page
<1>2. /\ pte \in [Pages -> Frames \cup {NoPage}] /\ rw \in [Pages -> BOOLEAN]
      /\ <<t, a>> \in Pages
  BY Types, Indices DEF Inv
<1>3. rw'[<<t, a>>] /\ \A x \in Pages : x # <<t, a>> => pte'[x] = pte[x] /\ rw'[x] = rw[x]
  BY <1>1, <1>2
<1>4. OthersRead(t)
  BY <1>3, OthersReadEntry DEF Inv
<1> QED BY <1>3, <1>4, ReadElsewhere

LEMMA FaultRead ==
  ASSUME ReadAddrs \cap ImageAddrs = {}, Inv, ReadWritable, NEW t \in Tasks, NEW a \in Addrs,
         Fault(t, a)
  PROVE  ReadWritable'
<1> DEFINE f == get_free_page(mem_map)
<1>1. /\ TypeOK /\ Control /\ <<t, a>> \in Pages
      /\ pte \in [Pages -> Frames \cup {NoPage}] /\ rw \in [Pages -> BOOLEAN]
      /\ pc \in [Tasks -> Labels] /\ addr \in [Tasks -> Addrs \cup {NoAddr}]
  BY Types, Indices DEF Inv, TypeOK
<1>2. CASE \E map : do_exit(t, map)
  BY <1>2, ExitRead
<1>3. CASE NoPageEmpty(t, a) /\ put_page(t, a, f, Used(mem_map, f)) /\ UNCHANGED taskVars
  <2>1. /\ pte' = [pte EXCEPT ![<<t, a>>] = f] /\ rw' = [rw EXCEPT ![<<t, a>>] = TRUE]
        /\ pc' = pc /\ addr' = addr /\ (pc[t] = "read" => addr[t] = a)
    BY <1>3 DEF put_page, taskVars, NoPageEmpty, Touches
  <2>2. rw'[<<t, a>>] /\ \A x \in Pages : x # <<t, a>> => pte'[x] = pte[x] /\ rw'[x] = rw[x]
    BY <1>1, <2>1
  <2>3. OthersRead(t)
    BY <1>1, <2>1, <2>2, OthersReadEntry
  <2> QED BY <2>1, <2>2, <2>3, ReadElsewhere
<1>4. CASE NoPageShare(t, a) /\ Protect(t, Donor(t, a), a) /\ UNCHANGED <<taskVars, data>>
           /\ pte' = [pte EXCEPT ![<<t, a>>] = pte[<<Donor(t, a), a>>]]
  <2> DEFINE q == Donor(t, a)
  <2>1. a \in ImageAddrs /\ pc' = pc /\ addr' = addr
    BY <1>4 DEF NoPageShare, Anonymous, taskVars
  <2>2. q \in Tasks /\ <<q, a>> \in Pages
    BY <1>4, DonorIsDonor, Indices DEF Donors, NoPageShare
  <2>3. rw' = [rw EXCEPT ![<<t, a>>] = FALSE, ![<<q, a>>] = FALSE]
    BY <1>4 DEF Protect
  <2> HIDE DEF q
  <2>4. \A x \in Pages : x # <<t, a>> /\ x # <<q, a>> => pte'[x] = pte[x] /\ rw'[x] = rw[x]
    BY <1>1, <1>4, <2>2, <2>3
  <2> SUFFICES ASSUME NEW w \in Tasks, pc[w] = "read"
               PROVE  pte'[<<w, addr[w]>>] # NoPage => rw'[<<w, addr[w]>>]
    BY <2>1 DEF ReadWritable
  <2>5. addr[w] \in ReadAddrs
    BY <1>1 DEF Control
  <2>6. addr[w] # a /\ addr[w] \in Addrs
    BY <2>1, <2>5, CallsAssumption
  <2>7. <<w, addr[w]>> \in Pages /\ <<w, addr[w]>> # <<t, a>> /\ <<w, addr[w]>> # <<q, a>>
    BY <2>6, Indices
  <2>8. pte'[<<w, addr[w]>>] = pte[<<w, addr[w]>>] /\ rw'[<<w, addr[w]>>] = rw[<<w, addr[w]>>]
    BY <2>4, <2>7
  <2> QED BY <2>8 DEF ReadWritable
<1>5. CASE NoPageLoad(t, a)
  <2>1. /\ pc' = [pc EXCEPT ![t] = "load"] /\ addr' = [addr EXCEPT ![t] = a]
        /\ pte' = pte /\ rw' = rw
    BY <1>5 DEF NoPageLoad, tableVars
  <2>2. \A w \in Tasks \ {t} : pc'[w] = pc[w] /\ addr'[w] = addr[w]
    BY <1>1, <2>1
  <2>3. OthersRead(t)
    BY <2>1, <2>2 DEF OthersRead
  <2>4. pc'[t] # "read"
    BY <1>1, <2>1
  <2> QED BY <2>3, <2>4, ReadElsewhere
<1>6. CASE WriteProtected(t, a) /\ un_wp_page(t, a) /\ UNCHANGED taskVars
  <2>1. pc' = pc /\ addr' = addr /\ pc[t] = "user"
    BY <1>6 DEF WriteProtected, taskVars
  <2> QED BY <1>6, <2>1, UnWpRead
<1>7. CASE NoPageEmpty(t, a)
  BY <1>2, <1>3, <1>7 DEF NoPageEmpty
<1>8. CASE NoPageShare(t, a)
  BY <1>2, <1>4, <1>8 DEF NoPageShare
<1>9. CASE NoPageOom(t, a)
  BY <1>2, <1>9 DEF NoPageOom
<1>10. CASE WriteProtected(t, a)
  BY <1>2, <1>6, <1>10 DEF WriteProtected
<1> QED BY <1>5, <1>7, <1>8, <1>9, <1>10 DEF Fault

LEMMA LoadedRead ==
  ASSUME ReadAddrs \cap ImageAddrs = {}, Inv, ReadWritable, NEW t \in Tasks, Loaded(t)
  PROVE  ReadWritable'
<1>1. CASE \E map : do_exit(t, map)
  BY <1>1, ExitRead
<1>2. CASE /\ put_page(t, addr[t], page[t], mem_map) /\ pc' = [pc EXCEPT ![t] = ret[t]]
           /\ addr' = [addr EXCEPT ![t] = IF ret[t] = "read" THEN @ ELSE NoAddr]
  <2>1. addr[t] \in Addrs /\ ret[t] # "read"
    BY DEF Inv, Control, Loaded, Addrs
  <2>2. /\ pte' = [pte EXCEPT ![<<t, addr[t]>>] = page[t]]
        /\ rw' = [rw EXCEPT ![<<t, addr[t]>>] = TRUE]
    BY <1>2 DEF put_page
  <2>3. /\ pc \in [Tasks -> Labels] /\ addr \in [Tasks -> Addrs \cup {NoAddr}] /\ TypeOK
        /\ pte \in [Pages -> Frames \cup {NoPage}] /\ rw \in [Pages -> BOOLEAN]
    BY DEF Inv, TypeOK
  <2>4. \A w \in Tasks \ {t} : pc'[w] = pc[w] /\ addr'[w] = addr[w]
    BY <1>2, <2>3
  <2>5. \A x \in Pages : x # <<t, addr[t]>> => pte'[x] = pte[x] /\ rw'[x] = rw[x]
    BY <2>2, <2>3
  <2>6. OthersRead(t)
    BY <2>1, <2>4, <2>5, OthersReadEntry DEF Inv
  <2>7. pc'[t] # "read"
    BY <1>2, <2>1, <2>3
  <2> QED BY <2>6, <2>7, ReadElsewhere
<1> QED BY <1>1, <1>2 DEF Loaded

LEMMA CallReadRead ==
  ASSUME Inv, ReadWritable, NEW t \in Tasks, NEW a \in Addrs, CallRead(t, a)
  PROVE  ReadWritable'
<1>1. CASE \E map : do_exit(t, map)
  BY <1>1, ExitRead
<1>2. CASE pc' = [pc EXCEPT ![t] = "read"] /\ addr' = [addr EXCEPT ![t] = a]
  <2>1. pc \in [Tasks -> Labels] /\ addr \in [Tasks -> Addrs \cup {NoAddr}]
    BY DEF Inv, TypeOK
  <2>2. addr'[t] = a /\ \A w \in Tasks \ {t} : pc'[w] = pc[w] /\ addr'[w] = addr[w]
    BY <1>2, <2>1
  <2>3. CASE un_wp_page(t, a)
    BY <2>2, <2>3, UnWpRead
  <2>4. CASE ~Protected(t, a) /\ UNCHANGED <<mem_map, data, tableVars>>
    <3>1. pte' = pte /\ rw' = rw /\ (pte[<<t, a>>] = NoPage \/ rw[<<t, a>>])
      BY <2>4 DEF Protected, tableVars
    <3>2. OthersRead(t)
      BY <2>2, <3>1 DEF OthersRead
    <3> QED BY <2>2, <3>1, <3>2, ReadElsewhere
  <2> QED BY <1>1, <2>3, <2>4 DEF CallRead
<1> QED BY <1>1, <1>2 DEF CallRead

LEMMA SystemCallRead ==
  ASSUME Inv, ReadWritable, NEW t \in Tasks, SystemCall(t) \/ Release(t)
  PROVE  ReadWritable'
<1>1. /\ pc \in [Tasks -> Labels] /\ addr \in [Tasks -> Addrs \cup {NoAddr}]
      /\ TypeOK /\ Control /\ rw \in [Pages -> BOOLEAN]
  BY DEF Inv, TypeOK
<1>2. ASSUME NEW u \in Tasks, Fork(t, u) PROVE ReadWritable'
  <2>1. /\ pc[t] = "user" /\ pc' = [pc EXCEPT ![u] = "user"] /\ addr' = addr
        /\ pte' = [x \in Pages |-> IF x[1] = u THEN pte[<<t, x[2]>>] ELSE pte[x]]
        /\ rw' = [x \in Pages |-> IF x[1] \in {t, u} THEN FALSE ELSE rw[x]]
    BY <1>2 DEF Fork, Calls, Inherit, ForkProtect
  <2> SUFFICES ASSUME NEW w \in Tasks, pc'[w] = "read", pte'[<<w, addr[w]>>] # NoPage
               PROVE  rw'[<<w, addr[w]>>]
    BY <2>1 DEF ReadWritable
  <2>2. w # u /\ w # t /\ pc[w] = "read"
    BY <1>1, <2>1
  <2>3. addr[w] \in Addrs
    BY <1>1, <2>2, CallsAssumption DEF Control
  <2>4. <<w, addr[w]>> \in Pages
    BY <2>3, Indices
  <2>5. pte'[<<w, addr[w]>>] = pte[<<w, addr[w]>>] /\ rw'[<<w, addr[w]>>] = rw[<<w, addr[w]>>]
    BY <2>1, <2>2, <2>4
  <2> QED BY <2>2, <2>5 DEF ReadWritable
<1>3. CASE ForkFails(t)
  <2>1. /\ pc[t] = "user" /\ pc' = pc /\ addr' = addr /\ pte' = pte
        /\ rw' = [x \in Pages |-> rw[x] /\ ~(x[1] = t /\ Dir(x[2]) = 0)]
    BY <1>3 DEF ForkFails, Calls, taskVars
  <2>2. \A x \in Pages : x[1] # t => pte'[x] = pte[x] /\ rw'[x] = rw[x]
    BY <1>1, <2>1
  <2>3. OthersRead(t)
    BY <1>1, <2>1, <2>2, OthersReadRow
  <2> QED BY <2>1, <2>3, ReadElsewhere
<1>4. CASE ExecveEnds(t)
  <2>1. /\ pc' = [pc EXCEPT ![t] = "user"] /\ addr' = addr
        /\ \A x \in Pages : x[1] # t => pte'[x] = pte[x] /\ rw'[x] = rw[x]
    BY <1>4 DEF ExecveEnds
  <2>2. pc'[t] = "user" /\ \A w \in Tasks \ {t} : pc'[w] = pc[w]
    BY <1>1, <2>1
  <2>3. OthersRead(t)
    BY <1>1, <2>1, <2>2, OthersReadRow
  <2> QED BY <2>2, <2>3, ReadElsewhere
<1>5. CASE /\ pte' = pte /\ rw' = rw /\ \E l \in {"none", "user", "args", "execve"} : pc' = [pc EXCEPT ![t] = l]
           /\ addr' = addr \/ addr' = [addr EXCEPT ![t] = NoAddr]
  <2>1. pc'[t] # "read" /\ \A w \in Tasks \ {t} : pc'[w] = pc[w] /\ addr'[w] = addr[w]
    BY <1>1, <1>5
  <2>2. OthersRead(t)
    BY <1>5, <2>1 DEF OthersRead
  <2> QED BY <2>1, <2>2, ReadElsewhere
<1>6. CASE ExecveArgs(t)
  BY <1>5, <1>6 DEF ExecveArgs, tableVars
<1>7. CASE ExecveFails(t)
  BY <1>5, <1>7 DEF ExecveFails, tableVars
<1>8. ASSUME NEW e \in Exes, ExecveSet(t, e) PROVE ReadWritable'
  BY <1>5, <1>8 DEF ExecveSet, tableVars
<1>9. ASSUME NEW a \in ReadAddrs, CallRead(t, a) PROVE ReadWritable'
  BY <1>9, CallReadRead, CallsAssumption
<1>10. ASSUME NEW v \in Values, ReadCopies(t, v) PROVE ReadWritable'
  BY <1>5, <1>10 DEF ReadCopies, Store
<1>11. CASE Exit(t)
  BY <1>11, ExitRead DEF Exit
<1>12. CASE Release(t)
  BY <1>5, <1>12 DEF Release, tableVars
<1> QED BY <1>2, <1>3, <1>4, <1>6, <1>7, <1>8, <1>9, <1>10, <1>11, <1>12 DEF SystemCall

LEMMA ReadWritableKeeps ==
  ASSUME ReadAddrs \cap ImageAddrs = {}, Inv, ReadWritable, [Next]_vars
  PROVE  ReadWritable'
<1>1. CASE UNCHANGED vars
  BY <1>1 DEF vars, ReadWritable
<1>2. ASSUME NEW t \in Tasks, NEW a \in Addrs, NEW v \in Values, Write(t, a, v)
      PROVE  ReadWritable'
  BY <1>2 DEF Write, Store, ReadWritable
<1> QED BY <1>1, <1>2, FaultRead, LoadedRead, SystemCallRead DEF Next

LEMMA StepIsStable ==
  ASSUME Inv, ReadWritable, [Next]_vars
  PROVE  StableStep
<1>1. CASE KeepsView
  BY <1>1 DEF KeepsView, StableStep
<1>2. CASE UNCHANGED vars
  BY <1>2 DEF vars, StableStep
<1>3. ASSUME NEW t \in Tasks, NEW a \in Addrs, Fault(t, a) PROVE StableStep
  BY <1>1, <1>3, NoPageView, WriteProtectedView DEF Fault
<1>4. ASSUME NEW t \in Tasks, NEW a \in Addrs, NEW v \in Values, Write(t, a, v)
      PROVE  StableStep
  BY <1>4, StoreView DEF Write
<1>5. ASSUME NEW t \in Tasks, NEW v \in Values, ReadCopies(t, v) PROVE StableStep
  <2>1. pc[t] = "read" /\ pte[<<t, addr[t]>>] # NoPage /\ Store(t, addr[t], v)
    BY <1>5 DEF ReadCopies
  <2>2. addr[t] \in Addrs /\ rw[<<t, addr[t]>>]
    BY <2>1, CallsAssumption DEF Inv, Control, ReadWritable
  <2> QED BY <2>1, <2>2, StoreView
<1>6. ASSUME NEW t \in Tasks, SystemCall(t) \/ Release(t) PROVE StableStep
  <2>1. ASSUME NEW a \in ReadAddrs, CallRead(t, a) PROVE StableStep
    BY <1>1, <2>1, WriteProtectedView, CallsAssumption
  <2>2. ASSUME NEW u \in Tasks, Fork(t, u) PROVE StableStep
    BY <1>1, <2>2, ForkView
  <2> QED BY <1>1, <1>5, <1>6, <2>1, <2>2, ExecveView DEF SystemCall
<1>7. ASSUME NEW t \in Tasks, Loaded(t) PROVE StableStep
  BY <1>1, <1>7, LoadedView
<1> QED BY <1>2, <1>3, <1>4, <1>6, <1>7 DEF Next

(* Tasks see only their own writes: copy on write, sharing of clean pages, *)
(* loading and the failures of all of these never change what a living     *)
(* task sees at a page it has.  It takes that system calls do not copy to  *)
(* pages of the executable: verify_area's promise is void there, since the *)
(* page can be shared again before the copy (the memory_read run).         *)
THEOREM PagesStableHolds == ReadAddrs \cap ImageAddrs = {} => (Spec => PagesStable)
<1> SUFFICES ASSUME ReadAddrs \cap ImageAddrs = {} PROVE Spec => PagesStable
  OBVIOUS
<1>1. Init => ReadWritable
  BY DEF Init, ReadWritable
<1>2. Inv /\ ReadWritable /\ [Next]_vars => ReadWritable'
  BY ReadWritableKeeps
<1>3. Inv /\ ReadWritable /\ [Next]_vars => [StableStep]_vars
  BY StepIsStable
<1>4. PagesStable <=> [][StableStep]_vars
  BY DEF PagesStable, StableStep
<1> QED BY <1>1, <1>2, <1>3, <1>4, InvHolds, PTL DEF Spec

(* Only fork fills an empty slot. *)
ForkStep ==
  \A u \in Tasks : pc[u] = "none" /\ pc'[u] = "user" =>
       \E t \in Tasks \ {u} :
         /\ executable'[u] = executable[t]
         /\ \A a \in Addrs :
              IF pte[<<t, a>>] = NoPage THEN pte'[<<u, a>>] = NoPage
              ELSE pte'[<<u, a>>] # NoPage /\ data'[pte'[<<u, a>>]] = data[pte[<<t, a>>]]

LEMMA StepOfLiving ==
  ASSUME TypeOK, NEW t \in Tasks, pc[t] # "none",
         pc' = pc \/ \E l : pc' = [pc EXCEPT ![t] = l]
  PROVE  ForkStep
<1>1. pc \in [Tasks -> Labels]
  BY DEF TypeOK
<1> QED BY <1>1 DEF ForkStep

LEMMA StepForks ==
  ASSUME Inv, [Next]_vars
  PROVE  ForkStep
<1>1. TypeOK /\ pc \in [Tasks -> Labels] /\ executable \in [Tasks -> Exes \cup {NoExe}]
  BY DEF Inv, TypeOK
<1>2. CASE UNCHANGED vars
  BY <1>2 DEF vars, ForkStep
<1>3. ASSUME NEW t \in Tasks, NEW u \in Tasks, Fork(t, u) PROVE ForkStep
  <2>1. /\ pc[t] = "user" /\ pc[u] = "none" /\ pc' = [pc EXCEPT ![u] = "user"]
        /\ executable' = [executable EXCEPT ![u] = executable[t]] /\ data' = data
        /\ pte' = [x \in Pages |-> IF x[1] = u THEN pte[<<t, x[2]>>] ELSE pte[x]]
    BY <1>3 DEF Fork, Calls, FirstFreeSlot, Inherit
  <2>2. \A a \in Addrs : pte'[<<u, a>>] = pte[<<t, a>>]
    BY <2>1, Indices
  <2>3. t \in Tasks \ {u} /\ executable'[u] = executable[t]
    BY <1>1, <2>1
  <2>4. \A w \in Tasks : pc[w] = "none" /\ pc'[w] = "user" => w = u
    BY <1>1, <2>1
  <2>5. \A a \in Addrs :
          IF pte[<<t, a>>] = NoPage THEN pte'[<<u, a>>] = NoPage
          ELSE pte'[<<u, a>>] # NoPage /\ data'[pte'[<<u, a>>]] = data[pte[<<t, a>>]]
    BY <2>1, <2>2
  <2>6. \E s \in Tasks \ {u} :
          /\ executable'[u] = executable[s]
          /\ \A a \in Addrs :
               IF pte[<<s, a>>] = NoPage THEN pte'[<<u, a>>] = NoPage
               ELSE pte'[<<u, a>>] # NoPage /\ data'[pte'[<<u, a>>]] = data[pte[<<s, a>>]]
    BY <2>3, <2>5
  <2> QED BY <2>4, <2>6 DEF ForkStep
<1>4. ASSUME NEW t \in Tasks, NEW map, pc[t] # "none", do_exit(t, map) PROVE ForkStep
  BY <1>1, <1>4, StepOfLiving DEF do_exit
<1>5. ASSUME NEW t \in Tasks, NEW a \in Addrs, Fault(t, a) PROVE ForkStep
  <2>1. pc[t] # "none"
    BY <1>5 DEF Fault, NoPageEmpty, NoPageShare, NoPageLoad, NoPageOom, WriteProtected, Touches
  <2>2. pc' = pc \/ (\E l : pc' = [pc EXCEPT ![t] = l]) \/ \E map : do_exit(t, map)
    BY <1>5 DEF Fault, NoPageEmpty, NoPageShare, NoPageLoad, NoPageOom, WriteProtected, taskVars
  <2> QED BY <1>1, <1>4, <2>1, <2>2, StepOfLiving
<1>6. ASSUME NEW t \in Tasks, NEW a \in Addrs, NEW v \in Values, Write(t, a, v) PROVE ForkStep
  BY <1>1, <1>6, StepOfLiving DEF Write
<1>7. ASSUME NEW t \in Tasks, Loaded(t) PROVE ForkStep
  <2>1. pc[t] # "none" /\ ((\E l : pc' = [pc EXCEPT ![t] = l]) \/ \E map : do_exit(t, map))
    BY <1>7 DEF Loaded
  <2> QED BY <1>1, <1>4, <2>1, StepOfLiving
<1>8. ASSUME NEW t \in Tasks,
             \/ ForkFails(t) \/ ExecveArgs(t) \/ ExecveFails(t) \/ ExecveEnds(t)
             \/ Exit(t) \/ Release(t)
             \/ (\E e \in Exes : ExecveSet(t, e)) \/ (\E a \in ReadAddrs : CallRead(t, a))
             \/ (\E v \in Values : ReadCopies(t, v))
      PROVE  ForkStep
  <2>1. pc[t] # "none"
    BY <1>8 DEF ForkFails, ExecveArgs, ExecveFails, ExecveEnds, Exit, Release, ExecveSet,
                CallRead, ReadCopies, Calls
  <2>2. pc' = pc \/ (\E l : pc' = [pc EXCEPT ![t] = l]) \/ \E map : do_exit(t, map)
    BY <1>8 DEF ForkFails, ExecveArgs, ExecveFails, ExecveEnds, Exit, Release, ExecveSet,
                CallRead, ReadCopies, taskVars
  <2> QED BY <1>1, <1>4, <2>1, <2>2, StepOfLiving
<1> QED BY <1>2, <1>3, <1>5, <1>6, <1>7, <1>8 DEF Next, SystemCall

(* The child of a fork starts with exactly the father's pages and contents *)
(* and the same executable.                                                *)
THEOREM ForkCopiesHolds == Spec => ForkCopies
<1>1. Inv /\ [Next]_vars => [ForkStep]_vars
  BY StepForks
<1>2. ForkCopies <=> [][ForkStep]_vars
  BY DEF ForkCopies, ForkStep
<1> QED BY <1>1, <1>2, InvHolds, PTL DEF Spec
=============================================================================
